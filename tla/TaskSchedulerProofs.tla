------------------------ MODULE TaskSchedulerProofs ------------------------
(***************************************************************************)
(* The safety properties of TaskScheduler, for any number of tasks and      *)
(* chats, any clock, and saves that may fail at any time.                   *)
(***************************************************************************)
EXTENDS TaskScheduler, FiniteSetTheorems, TLAPS

\* what a task was asked for
Order == [id : TaskId, due : Nat, period : Nat, until : Nat \cup {NoLimit},
          count : Nat \cup {NoLimit}]

Seen == started \cup queue \cup dropped

\* what the steps rely on besides TypeOK
ShapeInv ==
    /\ turn \in [Chat -> SUBSET (0..MaxTime)]
    /\ used \subseteq Order
    /\ \A u, v \in used : u.id = v.id => u = v
    /\ Seen \subseteq Occurrence
    /\ DOMAIN tasks \cup DOMAIN file \cup Ids(Seen) \cup cancelled \subseteq Ids(used)

\* the file is the store but for what could not be saved and for counts of 0
FileInv ==
    \A id \in TaskId \ lagging :
        /\ id \in DOMAIN tasks <=> id \in DOMAIN file
        /\ id \in DOMAIN tasks => tasks[id] \in {file[id], Loaded(file[id])}

\* the occurrences of a task are numbered without a gap, up to its next one
NumbersInv ==
    \A id \in Ids(used) \ revived :
        id \in DOMAIN tasks => {o.n : o \in Firings(id)} = 0 .. tasks[id].occurrences - 1

\* the k-th due time of u, the first one being number 0, and whether it was asked for
DueTime(u, k) == u.due + k * u.period
Wanted(u, k) ==
    k > 0 => /\ u.period # 0
             /\ u.until = NoLimit \/ DueTime(u, k) <= u.until
             /\ u.count = NoLimit \/ k < u.count

\* the store keeps what was asked for, each number has its due time, and a task ends with
\* the last one it was asked for
DueInv ==
    \A u \in used : u.id \notin revived /\ u.count # 0 =>
        /\ \A o \in Firings(u.id) : o.due = DueTime(u, o.n) /\ o.due <= now
        /\ u.id \in DOMAIN tasks =>
              LET t == tasks[u.id]
              IN  /\ t.period = u.period /\ t.until = u.until /\ t.count = u.count
                  /\ t.due = DueTime(u, t.occurrences)
                  /\ Wanted(u, t.occurrences)
        /\ u.id \notin DOMAIN tasks \cup cancelled =>
              \E o \in Firings(u.id) :
                  /\ {p.n : p \in Firings(u.id)} = 0 .. o.n
                  /\ Wanted(u, o.n) /\ ~Wanted(u, o.n + 1)

\* a number belongs to one occurrence, and what waits has not started
OnceInv ==
    /\ \A o, p \in Seen : o.id = p.id /\ o.n = p.n /\ o.id \notin revived => o = p
    /\ \A o \in queue : o \in started => o.id \in revived
    /\ Ids(repeated) \subseteq revived

\* a limit of at least 1 is kept, in the store and in the numbers
LimitInv ==
    \A u \in used : u.count >= 1 /\ u.id \notin revived =>
        /\ \A o \in Firings(u.id) : o.n < u.count
        /\ u.id \in DOMAIN tasks => tasks[u.id].count = u.count /\ tasks[u.id].occurrences < u.count

\* a cancelled task is gone from the store
CancelInv == cancelled \cap DOMAIN tasks \subseteq revived

TypeInv == TypeOK /\ ShapeInv
StoreInv == TypeInv /\ FileInv
SchedulerInv == StoreInv /\ NumbersInv /\ DueInv /\ OnceInv /\ LimitInv /\ CancelInv

\* what a step that neither uses the store nor pops or starts a task leaves alone
storeVars == <<tasks, file, lagging, queue, used, started, repeated, dropped, revived, cancelled>>

-----------------------------------------------------------------------------
(* Types.                                                                   *)

\* The assumptions on the constants that the proofs use.
LEMMA ConstantTypes == MaxTime \in Nat /\ Requests \subseteq Recurrence
BY TaskSchedulerAssumption DEF TaskSchedulerAssumption

\* The ids of a set with one element more.
LEMMA IdsAdd == \A S : \A o : Ids(S \cup {o}) = Ids(S) \cup {o.id}
BY DEF Ids

\* The invariant holds at first, when there are no tasks.
LEMMA InitInv == Init => SchedulerInv
<1> SUFFICES ASSUME Init PROVE SchedulerInv
  OBVIOUS
<1>1. TypeOK
  <2>1. Ids({}) = {} /\ DOMAIN NoTasks = {}
    BY DEF Ids, NoTasks
  <2>2. Cardinality({}) = 0
    BY FS_EmptySet
  <2>3. \A c \in Chat : turn[c] = {}
    BY DEF Init
  <2> QED
    BY <2>1, <2>2, <2>3, ConstantTypes DEF Init, TypeOK
<1>2. ShapeInv
  BY DEF Init, ShapeInv, Seen, NoTasks, Ids
<1>3. FileInv /\ CancelInv
  BY DEF Init, FileInv, CancelInv, NoTasks
<1>4. NumbersInv /\ DueInv /\ OnceInv /\ LimitInv
  BY DEF Init, NumbersInv, DueInv, OnceInv, LimitInv, Seen, Ids
<1> QED
  BY <1>1, <1>2, <1>3, <1>4 DEF SchedulerInv, StoreInv, TypeInv

\* A turn notes a due time that is not in the past.
LEMMA BeginScheduleType == ASSUME TypeInv, NEW c \in Chat, BeginSchedule(c) PROVE TypeInv'
<1>1. PICK due \in now + 1 .. MaxTime : turn' = [turn EXCEPT ![c] = {due}]
  BY DEF BeginSchedule
<1>2. due \in 0..MaxTime
  BY <1>1, ConstantTypes DEF TypeInv, TypeOK
<1>3. \A e \in Chat : turn'[e] \subseteq 0..MaxTime /\ Cardinality(turn'[e]) <= 1
  <2>1. Cardinality({due}) = 1
    BY FS_Singleton
  <2>2. \A e \in Chat : turn'[e] = turn[e] \/ turn'[e] = {due}
    BY <1>1 DEF TypeInv, ShapeInv
  <2>3. \A e \in Chat : turn[e] \subseteq 0..MaxTime /\ Cardinality(turn[e]) <= 1
    BY DEF TypeInv, TypeOK
  <2>4. {due} \subseteq 0..MaxTime /\ Cardinality({due}) <= 1
    BY <1>2, <2>1
  <2> QED
    BY Zenon, <2>2, <2>3, <2>4
<1>4a. turn' \in [Chat -> SUBSET (0..MaxTime)]
  BY <1>1, <1>2 DEF TypeInv, ShapeInv
<1>4. ShapeInv'
  BY <1>4a DEF TypeInv, ShapeInv, BeginSchedule, historyVars, Seen, Ids
<1>5. TypeOK'
  BY <1>3 DEF TypeInv, TypeOK, BeginSchedule, historyVars, Ids
<1> QED
  BY <1>4, <1>5 DEF TypeInv

\* A turn forgets its due time.
LEMMA RefuseScheduleType == ASSUME TypeInv, NEW c \in Chat, RefuseSchedule(c) PROVE TypeInv'
<1>1. \A e \in Chat : turn'[e] \subseteq 0..MaxTime /\ Cardinality(turn'[e]) <= 1
  BY FS_EmptySet DEF TypeInv, TypeOK, ShapeInv, RefuseSchedule
<1>2. ShapeInv'
  BY DEF TypeInv, ShapeInv, RefuseSchedule, historyVars, Seen, Ids
<1>3. TypeOK'
  BY <1>1 DEF TypeInv, TypeOK, RefuseSchedule, historyVars, Ids
<1> QED
  BY <1>2, <1>3 DEF TypeInv

\* schedule adds a task under an id that was never given out.
LEMMA FinishScheduleType == ASSUME TypeInv, NEW c \in Chat, FinishSchedule(c) PROVE TypeInv'
<1> DEFINE id == CHOOSE i \in TaskId : i \notin Ids(used)
<1>1. PICK due \in turn[c], r \in Requests :
        /\ tasks' = With(id, [chat |-> c, due |-> due, period |-> r.period,
                              until |-> r.until, count |-> r.count, occurrences |-> 0])
        /\ used' = used \cup {[id |-> id, due |-> due, period |-> r.period,
                               until |-> r.until, count |-> r.count]}
        /\ Save({id})
  BY DEF FinishSchedule
<1>2. id \in TaskId /\ id \notin Ids(used)
  BY DEF FinishSchedule, TypeInv, TypeOK
<1> HIDE DEF id
<1>3. due \in Nat /\ r \in Recurrence
  BY <1>1, ConstantTypes DEF TypeInv, ShapeInv
<1>4. DOMAIN tasks' = DOMAIN tasks \cup {id} /\ \A i \in DOMAIN tasks' : tasks'[i] \in Task
  BY <1>1, <1>3 DEF TypeInv, TypeOK, With, Task, Recurrence
<1>5. /\ DOMAIN file' \subseteq DOMAIN file \cup {id} \cup DOMAIN tasks
      /\ \A i \in DOMAIN file' : file'[i] \in Task
  BY <1>1, <1>4 DEF TypeInv, TypeOK, Save
<1>6. \A e \in Chat : turn'[e] \subseteq 0..MaxTime /\ Cardinality(turn'[e]) <= 1
  BY FS_EmptySet DEF TypeInv, TypeOK, ShapeInv, FinishSchedule
<1> DEFINE u == [id |-> id, due |-> due, period |-> r.period, until |-> r.until, count |-> r.count]
<1>12. used' = used \cup {u} /\ u.id = id /\ u \in Order
  BY <1>1, <1>2, <1>3 DEF Recurrence, Order
<1> HIDE DEF u
<1>7. Ids(used') = Ids(used) \cup {id}
  BY <1>12, IdsAdd
<1>8. TypeOK'
  BY <1>2, <1>4, <1>5, <1>6, <1>7 DEF TypeInv, TypeOK, FinishSchedule
<1>9. used' \subseteq Order
  BY <1>12 DEF TypeInv, ShapeInv
<1>10. \A v, w \in used' : v.id = w.id => v = w
  BY <1>2, <1>12 DEF TypeInv, ShapeInv, Ids
<1>11. ShapeInv'
  BY <1>4, <1>5, <1>7, <1>9, <1>10 DEF TypeInv, ShapeInv, FinishSchedule, Seen
<1> QED
  BY <1>8, <1>11 DEF TypeInv

\* cancel takes a task away.
LEMMA CancelType ==
    ASSUME TypeInv, NEW c \in Chat, NEW id \in TaskId, Cancel(c, id) PROVE TypeInv'
<1>1. DOMAIN tasks' \subseteq DOMAIN tasks /\ \A i \in DOMAIN tasks' : tasks'[i] \in Task
  BY DEF TypeInv, TypeOK, Cancel, Without
<1>2. /\ DOMAIN file' \subseteq DOMAIN file \cup DOMAIN tasks
      /\ \A i \in DOMAIN file' : file'[i] \in Task
  BY <1>1 DEF TypeInv, TypeOK, Cancel, Save
<1>3. TypeOK'
  BY <1>1, <1>2 DEF TypeInv, TypeOK, Cancel
<1>4. ShapeInv'
  BY <1>1, <1>2 DEF TypeInv, ShapeInv, Cancel, Seen
<1> QED
  BY <1>3, <1>4 DEF TypeInv

\* An advanced task is a task, with one occurrence more and the same limit.
LEMMA AdvancedType ==
    \A t \in Task : /\ Advanced(t) \in Task
                    /\ Advanced(t).occurrences = t.occurrences + 1
                    /\ Advanced(t).count = t.count
<1> SUFFICES ASSUME NEW t \in Task
             PROVE  /\ Advanced(t) \in Task
                    /\ Advanced(t).occurrences = t.occurrences + 1
                    /\ Advanced(t).count = t.count
  OBVIOUS
<1>1. t.due + t.period \in Nat /\ t.occurrences + 1 \in Nat
  BY DEF Task
<1> DEFINE later == [t EXCEPT !.due = @ + t.period]
<1>2. /\ later \in Task /\ later.occurrences = t.occurrences /\ later.count = t.count
  BY <1>1 DEF Task
<1>3. Advanced(t) = [later EXCEPT !.occurrences = t.occurrences + 1]
  BY DEF Advanced, Task
<1> HIDE DEF later
<1> QED
  BY <1>1, <1>2, <1>3 DEF Task

\* pop_due returns one occurrence of each due task, and leaves some of the tasks.
LEMMA PopType ==
    ASSUME TypeInv
    PROVE  /\ Popped \subseteq Occurrence /\ Ids(Popped) = DueIds
           /\ DOMAIN AfterPop \subseteq DOMAIN tasks
           /\ \A i \in DOMAIN AfterPop : AfterPop[i] \in Task
<1>1. DueIds \subseteq DOMAIN tasks /\ \A i \in DOMAIN tasks : i \in TaskId /\ tasks[i] \in Task
  BY DEF TypeInv, TypeOK, DueIds
<1>2. Popped \subseteq Occurrence
  BY <1>1 DEF Popped, Occurrence, Task
<1>3. Ids(Popped) = DueIds
  <2> DEFINE occurrence(i) == [id |-> i, n |-> tasks[i].occurrences, due |-> tasks[i].due]
  <2>1. \A i \in DueIds : occurrence(i).id = i
    OBVIOUS
  <2>2. Popped = {occurrence(i) : i \in DueIds}
    BY DEF Popped
  <2> HIDE DEF occurrence
  <2> QED
    BY <2>1, <2>2 DEF Ids
<1>4. \A i \in DOMAIN tasks : Advanced(tasks[i]) \in Task
  BY <1>1, AdvancedType
<1> QED
  BY <1>1, <1>2, <1>3, <1>4 DEF AfterPop

\* A tick takes over what pop_due returns.
LEMMA PollType == ASSUME TypeInv, Poll PROVE TypeInv'
<1>1. DOMAIN tasks' \subseteq DOMAIN tasks /\ \A i \in DOMAIN tasks' : tasks'[i] \in Task
  BY PopType DEF Poll
<1>2. /\ DOMAIN file' \subseteq DOMAIN file \cup DOMAIN tasks
      /\ \A i \in DOMAIN file' : file'[i] \in Task
  BY <1>1 DEF TypeInv, TypeOK, Poll, Save
<1>3. queue' \subseteq Occurrence /\ Ids(queue') \subseteq DOMAIN tasks
  BY PopType DEF Poll, DueIds
<1>4. TypeOK'
  BY <1>1, <1>2, <1>3 DEF TypeInv, TypeOK, Poll, historyVars
<1>5. Seen' \subseteq Occurrence /\ Ids(Seen') \subseteq Ids(used)
  BY <1>3 DEF TypeInv, ShapeInv, Poll, historyVars, Seen, Ids
<1>6. ShapeInv'
  BY <1>1, <1>2, <1>5 DEF TypeInv, ShapeInv, Poll, historyVars
<1> QED
  BY <1>4, <1>6 DEF TypeInv

\* Starting an execution moves an occurrence.
LEMMA StartNextType == ASSUME TypeInv, StartNext PROVE TypeInv'
<1>1. PICK o \in queue : current' = {o} /\ queue' = queue \ {o} /\ started' = started \cup {o}
  BY DEF StartNext
<1>2. TypeOK'
  <2>1. Cardinality(current') <= 1
    BY <1>1, FS_Singleton
  <2>2. queue' \cup current' \subseteq Occurrence /\ loop = "ticking" /\ loop' = loop
    BY <1>1 DEF TypeInv, TypeOK, StartNext
  <2>3. UNCHANGED <<now, tasks, file, turn, up, used>>
    BY DEF StartNext
  <2> QED
    BY <2>1, <2>2, <2>3 DEF TypeInv, TypeOK, Ids
<1>3. Seen' = Seen
  BY <1>1 DEF StartNext, Seen
<1>4. ShapeInv'
  BY <1>3 DEF TypeInv, ShapeInv, StartNext
<1> QED
  BY <1>2, <1>4 DEF TypeInv

\* The loop or the process ends with what it has popped.
LEMMA DropType ==
    ASSUME TypeInv, Drop, loop' = "off", turn' \in {turn, [c \in Chat |-> {}]}, up' \in BOOLEAN,
           UNCHANGED <<now, tasks, file, lagging>>
    PROVE  TypeInv'
<1>1. \A e \in Chat : turn'[e] \subseteq 0..MaxTime /\ Cardinality(turn'[e]) <= 1
  BY FS_EmptySet DEF TypeInv, TypeOK, ShapeInv
<1>2. TypeOK'
  BY <1>1, FS_EmptySet DEF TypeInv, TypeOK, Drop
<1>3. Seen' = Seen
  BY DEF Drop, Seen
<1>4. turn' \in [Chat -> SUBSET (0..MaxTime)]
  BY DEF TypeInv, ShapeInv
<1>5. ShapeInv'
  BY <1>3, <1>4 DEF TypeInv, ShapeInv, Drop
<1> QED
  BY <1>2, <1>5 DEF TypeInv

\* What from_dict returns is a task.
LEMMA LoadedType == \A t \in Task : Loaded(t) \in Task
BY DEF Loaded, Task, NoLimit

\* load fills the store from the file.
LEMMA RestartType == ASSUME TypeInv, Restart PROVE TypeInv'
<1>1. DOMAIN tasks' = DOMAIN file /\ \A i \in DOMAIN tasks' : tasks'[i] \in Task
  BY LoadedType DEF TypeInv, TypeOK, Restart
<1>2. TypeOK'
  BY <1>1 DEF TypeInv, TypeOK, Restart
<1>3. ShapeInv'
  BY <1>1 DEF TypeInv, ShapeInv, Restart, Seen
<1> QED
  BY <1>2, <1>3 DEF TypeInv

\* The other steps change neither tasks nor occurrences.
LEMMA QuietType ==
    ASSUME TypeInv, Start \/ Finish \/ Tick \/ UNCHANGED vars PROVE TypeInv'
<1>1. ShapeInv'
  BY DEF TypeInv, ShapeInv, Start, Finish, Tick, vars, historyVars, Seen, Ids
<1>2. TypeOK'
  <2>1. CASE Start
    BY <2>1 DEF TypeInv, TypeOK, Start, historyVars
  <2>2. CASE Finish
    BY <2>2, FS_EmptySet DEF TypeInv, TypeOK, Finish, historyVars
  <2>3. CASE Tick
    <3>1. now' \in 0..MaxTime
      BY <2>3, ConstantTypes DEF TypeInv, TypeOK, Tick
    <3> QED
      BY <2>3, <3>1 DEF TypeInv, TypeOK, Tick, historyVars
  <2>4. CASE UNCHANGED vars
    BY <2>4 DEF TypeInv, TypeOK, vars, historyVars
  <2> QED
    BY <2>1, <2>2, <2>3, <2>4
<1> QED
  BY <1>1, <1>2 DEF TypeInv

-----------------------------------------------------------------------------
(* Steps that neither change the store nor add an occurrence.               *)

\* The firings of a task are its occurrences among all that were ever popped.
LEMMA FiringsOf == \A id : Firings(id) = {o \in Seen : o.id = id}
BY DEF Firings, Seen

\* Without a change of store or occurrences everything that is said about them goes on to hold.
LEMMA QuietStep ==
    ASSUME SchedulerInv, TypeInv', now <= now', Seen' = Seen,
           UNCHANGED <<tasks, file, lagging, used, revived, cancelled>>
    PROVE  FileInv' /\ NumbersInv' /\ DueInv' /\ LimitInv' /\ CancelInv'
<1>1. \A id : Firings(id)' = Firings(id)
  BY DEF Firings, Seen
<1>2. FileInv' /\ CancelInv'
  BY DEF SchedulerInv, StoreInv, FileInv, CancelInv
<1>3. NumbersInv'
  BY <1>1 DEF SchedulerInv, NumbersInv, Ids
<1>4. LimitInv'
  BY <1>1 DEF SchedulerInv, LimitInv
<1>5. DueInv'
  <2>1. now \in Nat /\ now' \in Nat /\ \A o \in Seen : o.due \in Nat
    BY ConstantTypes DEF SchedulerInv, StoreInv, TypeInv, TypeOK, ShapeInv, Occurrence
  <2>2. \A id : \A o \in Firings(id) : o \in Seen
    BY FiringsOf
  <2>3. \A o \in Seen : o.due <= now => o.due <= now'
    BY <2>1
  <2>4. ASSUME NEW u \in used, u.id \notin revived, u.count # 0
        PROVE  \A o \in Firings(u.id) : o.due = DueTime(u, o.n) /\ o.due <= now'
    BY <2>2, <2>3, <2>4 DEF SchedulerInv, DueInv
  <2> QED
    BY <1>1, <2>4 DEF SchedulerInv, DueInv, DueTime, Wanted
<1> QED
  BY <1>2, <1>3, <1>4, <1>5

\* An execution starts an occurrence that was popped once and has not started.
LEMMA StartNextStep == ASSUME SchedulerInv, StartNext PROVE SchedulerInv'
<1>1. PICK o \in queue : /\ queue' = queue \ {o} /\ started' = started \cup {o}
                         /\ repeated' = IF o \in started THEN repeated \cup {o} ELSE repeated
  BY DEF StartNext
<1>2. Seen' = Seen
  BY <1>1 DEF StartNext, Seen
<1>3. TypeInv' /\ FileInv' /\ NumbersInv' /\ DueInv' /\ LimitInv' /\ CancelInv'
  <2>1. now <= now'
    BY ConstantTypes DEF SchedulerInv, StoreInv, TypeInv, TypeOK, StartNext
  <2> QED
    BY <1>2, <2>1, QuietStep, StartNextType DEF SchedulerInv, StoreInv, StartNext
<1>4. \A p \in queue' : p \in started' => p.id \in revived'
  BY <1>1 DEF SchedulerInv, OnceInv, StartNext
<1>5. Ids(repeated') \subseteq revived'
  <2>1. CASE o \in started
    BY <1>1, <2>1, IdsAdd DEF SchedulerInv, OnceInv, StartNext
  <2>2. CASE o \notin started
    BY <1>1, <2>2 DEF SchedulerInv, OnceInv, StartNext
  <2> QED
    BY <2>1, <2>2
<1>6. OnceInv'
  BY <1>2, <1>4, <1>5 DEF SchedulerInv, OnceInv, StartNext, Ids
<1> QED
  BY <1>3, <1>6 DEF SchedulerInv, StoreInv

\* Dropped occurrences go on to count as firings.
LEMMA DropStep ==
    ASSUME SchedulerInv, TypeInv', Drop, UNCHANGED <<now, tasks, file, lagging>>
    PROVE  SchedulerInv'
<1>1. Seen' = Seen
  BY DEF Drop, Seen
<1>2. FileInv' /\ NumbersInv' /\ DueInv' /\ LimitInv' /\ CancelInv'
  <2>1. now <= now'
    BY ConstantTypes DEF SchedulerInv, StoreInv, TypeInv, TypeOK
  <2> QED
    BY <1>1, <2>1, QuietStep DEF Drop
<1>3. OnceInv'
  BY <1>1 DEF SchedulerInv, OnceInv, Drop, Ids
<1> QED
  BY <1>2, <1>3 DEF SchedulerInv, StoreInv

\* The steps of the other variables.
LEMMA StutterStep ==
    ASSUME SchedulerInv, TypeInv', now <= now', UNCHANGED storeVars PROVE SchedulerInv'
<1>1. Seen' = Seen
  BY DEF storeVars, Seen
<1>2. FileInv' /\ NumbersInv' /\ DueInv' /\ LimitInv' /\ CancelInv'
  BY <1>1, QuietStep DEF storeVars
<1>3. OnceInv'
  BY <1>1 DEF SchedulerInv, OnceInv, storeVars, Ids
<1> QED
  BY <1>2, <1>3 DEF SchedulerInv, StoreInv

-----------------------------------------------------------------------------
(* Steps that change the store.                                             *)

\* Saving a store in which only `changed` is new: the file matches it but for the ids
\* whose last change could not be saved.
LEMMA SaveStep ==
    ASSUME StoreInv, NEW changed, Save(changed),
           \A id \in TaskId \ changed :
               /\ id \in DOMAIN tasks' <=> id \in DOMAIN tasks
               /\ id \in DOMAIN tasks => tasks'[id] = tasks[id]
    PROVE  FileInv'
<1>1. CASE file' = tasks'
  BY <1>1 DEF FileInv
<1>2. CASE file' = file /\ lagging' = lagging \cup changed
  BY <1>2 DEF StoreInv, FileInv
<1> QED
  BY <1>1, <1>2 DEF Save

\* A new task has no firings yet, since its id is new.
LEMMA FinishScheduleStep ==
    ASSUME SchedulerInv, NEW c \in Chat, FinishSchedule(c) PROVE SchedulerInv'
<1> DEFINE id == CHOOSE i \in TaskId : i \notin Ids(used)
<1>1. PICK due \in turn[c], r \in Requests :
        /\ tasks' = With(id, [chat |-> c, due |-> due, period |-> r.period,
                              until |-> r.until, count |-> r.count, occurrences |-> 0])
        /\ used' = used \cup {[id |-> id, due |-> due, period |-> r.period,
                               until |-> r.until, count |-> r.count]}
        /\ Save({id})
  BY DEF FinishSchedule
<1>2. id \in TaskId /\ id \notin Ids(used)
  BY DEF FinishSchedule, SchedulerInv, StoreInv, TypeInv, TypeOK
<1> DEFINE v == [id |-> id, due |-> due, period |-> r.period, until |-> r.until, count |-> r.count]
<1> HIDE DEF id
<1>13. used' = used \cup {v} /\ v.id = id /\ v.count = r.count
  BY <1>1
<1>14. /\ v.due = due /\ v.period = r.period /\ v.until = r.until
       /\ r.period \in Nat /\ due \in Nat
  BY <1>1, ConstantTypes DEF SchedulerInv, StoreInv, TypeInv, ShapeInv, Recurrence
<1> HIDE DEF v
<1>3. TypeInv'
  BY FinishScheduleType DEF SchedulerInv, StoreInv
<1>4. id \notin DOMAIN tasks /\ id \notin cancelled /\ Firings(id) = {}
  BY <1>2, FiringsOf DEF SchedulerInv, StoreInv, TypeInv, ShapeInv, Ids
<1>5. /\ DOMAIN tasks' = DOMAIN tasks \cup {id}
      /\ tasks'[id].occurrences = 0 /\ tasks'[id].count = r.count
      /\ \A i \in DOMAIN tasks : tasks'[i] = tasks[i]
  BY <1>1, <1>4 DEF With
<1>6. \A i : Firings(i)' = Firings(i)
  BY DEF Firings, FinishSchedule
<1>7. FileInv'
  BY <1>1, <1>5, SaveStep DEF SchedulerInv
<1>8. Ids(used') = Ids(used) \cup {id}
  BY <1>13, IdsAdd
<1>9. NumbersInv'
  <2>1. {o.n : o \in Firings(id)} = 0 .. tasks'[id].occurrences - 1
    BY <1>4, <1>5
  <2> QED
    BY <1>5, <1>6, <1>8, <2>1 DEF SchedulerInv, NumbersInv, FinishSchedule
<1>10. LimitInv'
  <2> SUFFICES ASSUME NEW u \in used', u.count >= 1, u.id \notin revived
               PROVE  /\ \A o \in Firings(u.id) : o.n < u.count
                      /\ u.id \in DOMAIN tasks' =>
                            tasks'[u.id].count = u.count /\ tasks'[u.id].occurrences < u.count
    BY <1>6 DEF LimitInv, FinishSchedule
  <2>1. CASE u \in used
    <3>1. u.id # id
      BY <1>2, <2>1 DEF Ids
    <3> QED
      BY <1>5, <2>1, <3>1 DEF SchedulerInv, LimitInv
  <2>2. CASE u = v
    <3>1. u.id = id /\ u.count = r.count
      BY <1>13, <2>2
    <3>2. r.count \in Int
      BY ConstantTypes DEF Recurrence, NoLimit
    <3>3. tasks'[id].count = u.count /\ tasks'[id].occurrences < u.count
      BY <1>5, <3>1, <3>2
    <3> QED
      BY <1>4, <3>1, <3>3
  <2> QED
    BY <1>13, <2>1, <2>2
<1>11. CancelInv'
  BY <1>4, <1>5 DEF SchedulerInv, CancelInv, FinishSchedule
<1>12. OnceInv'
  BY DEF SchedulerInv, OnceInv, FinishSchedule, Seen, Ids
<1>15. DueInv'
  <2>1. /\ tasks'[id].due = due /\ tasks'[id].period = r.period
        /\ tasks'[id].until = r.until
    BY <1>1 DEF With
  <2> SUFFICES ASSUME NEW u \in used', u.id \notin revived, u.count # 0
               PROVE  /\ \A o \in Firings(u.id) : o.due = DueTime(u, o.n) /\ o.due <= now
                      /\ u.id \in DOMAIN tasks' =>
                            LET t == tasks'[u.id]
                            IN  /\ t.period = u.period /\ t.until = u.until /\ t.count = u.count
                                /\ t.due = DueTime(u, t.occurrences)
                                /\ Wanted(u, t.occurrences)
                      /\ u.id \notin DOMAIN tasks' \cup cancelled =>
                            \E o \in Firings(u.id) :
                                /\ {p.n : p \in Firings(u.id)} = 0 .. o.n
                                /\ Wanted(u, o.n) /\ ~Wanted(u, o.n + 1)
    BY <1>6 DEF DueInv, FinishSchedule
  <2>2. CASE u \in used
    <3>1. u.id # id
      BY <1>2, <2>2 DEF Ids
    <3> QED
      BY <1>5, <2>2, <3>1 DEF SchedulerInv, DueInv
  <2>3. CASE u = v
    <3>1. DueTime(v, 0) = due /\ Wanted(v, 0)
      BY <1>14 DEF DueTime, Wanted
    <3> QED
      BY <1>4, <1>5, <1>13, <1>14, <2>1, <2>3, <3>1
  <2> QED
    BY <1>13, <2>2, <2>3
<1> QED
  BY <1>15, <1>3, <1>7, <1>9, <1>10, <1>11, <1>12 DEF SchedulerInv, StoreInv

\* A cancelled task is gone from the store; its firings stay.
LEMMA CancelStep ==
    ASSUME SchedulerInv, NEW c \in Chat, NEW id \in TaskId, Cancel(c, id) PROVE SchedulerInv'
<1>1. TypeInv'
  BY CancelType DEF SchedulerInv, StoreInv
<1>2. DOMAIN tasks' = DOMAIN tasks \ {id} /\ \A i \in DOMAIN tasks' : tasks'[i] = tasks[i]
  BY DEF Cancel, Without
<1>3. FileInv'
  BY <1>2, SaveStep DEF SchedulerInv, Cancel
<1>4. \A i : Firings(i)' = Firings(i)
  BY DEF Firings, Cancel
<1>5. NumbersInv'
  BY <1>2, <1>4 DEF SchedulerInv, NumbersInv, Cancel, Ids
<1>6. LimitInv'
  BY <1>2, <1>4 DEF SchedulerInv, LimitInv, Cancel
<1>7. CancelInv'
  BY <1>2 DEF SchedulerInv, CancelInv, Cancel
<1>8. OnceInv'
  BY DEF SchedulerInv, OnceInv, Cancel, Seen, Ids
<1>9. DueInv'
  BY <1>2, <1>4 DEF SchedulerInv, DueInv, Cancel
<1> QED
  BY <1>1, <1>3, <1>5, <1>6, <1>7, <1>8, <1>9 DEF SchedulerInv, StoreInv

\* After a restart a task is as it was, unless its last change was not saved.
LEMMA RestartStep == ASSUME SchedulerInv, Restart PROVE SchedulerInv'
<1>1. TypeInv'
  BY RestartType DEF SchedulerInv, StoreInv
<1>2. /\ DOMAIN tasks' = DOMAIN file
      /\ \A i \in DOMAIN file : tasks'[i] = Loaded(file[i])
      /\ \A i \in DOMAIN file : file[i] \in Task /\ i \in TaskId
  BY DEF Restart, SchedulerInv, StoreInv, TypeInv, TypeOK
<1>3. \A t \in Task : /\ Loaded(Loaded(t)) = Loaded(t)
                      /\ Loaded(t).occurrences = t.occurrences
                      /\ Loaded(t).count = IF t.count = 0 THEN NoLimit ELSE t.count
  BY DEF Loaded, Task, NoLimit
<1>4. FileInv'
  BY <1>2 DEF Restart, FileInv
<1>12. \A t \in Task : t.count # 0 => Loaded(t) = t
  BY DEF Loaded, Task
<1>13. \A i \in TaskId \ lagging :
         i \in DOMAIN tasks /\ tasks[i].count # 0 => tasks'[i] = tasks[i]
  BY <1>2, <1>3, <1>12 DEF SchedulerInv, StoreInv, FileInv
<1>5. \A i \in TaskId \ lagging :
        /\ i \in DOMAIN tasks' <=> i \in DOMAIN tasks
        /\ i \in DOMAIN tasks =>
              /\ tasks'[i].occurrences = tasks[i].occurrences
              /\ tasks[i].count >= 1 => tasks'[i].count = tasks[i].count
  BY <1>2, <1>3 DEF SchedulerInv, StoreInv, FileInv, NoLimit
<1>6. \A i : Firings(i)' = Firings(i)
  BY DEF Firings, Restart
<1>7. Ids(used) \subseteq TaskId
  BY DEF SchedulerInv, StoreInv, TypeInv, TypeOK
<1>8. NumbersInv'
  BY <1>5, <1>6, <1>7 DEF SchedulerInv, NumbersInv, Restart, Ids
<1>9. LimitInv'
  <2>1. \A u \in used : u.id \in TaskId
    BY <1>7 DEF Ids
  <2> QED
    BY <1>5, <1>6, <2>1 DEF SchedulerInv, LimitInv, Restart
<1>10. CancelInv'
  BY <1>2, <1>5 DEF SchedulerInv, CancelInv, Restart
<1>11. OnceInv'
  BY DEF SchedulerInv, OnceInv, Restart, Seen, Ids
<1>14. DueInv'
  <2>1. \A u \in used : u.id \in TaskId
    BY <1>7 DEF Ids
  <2> QED
    BY <1>5, <1>6, <1>13, <2>1 DEF SchedulerInv, DueInv, Restart
<1> QED
  BY <1>1, <1>4, <1>8, <1>9, <1>10, <1>11, <1>14 DEF SchedulerInv, StoreInv

\* The popped occurrence of a task is the next number, and the task goes on to the one after it.
LEMMA PollStep == ASSUME SchedulerInv, Poll PROVE SchedulerInv'
<1> DEFINE occurrence(i) == [id |-> i, n |-> tasks[i].occurrences, due |-> tasks[i].due]
<1>1. TypeInv'
  BY PollType DEF SchedulerInv, StoreInv
<1>2. queue = {} /\ queue' = Popped /\ tasks' = AfterPop /\ Save(DueIds)
  BY DEF Poll, SchedulerInv, StoreInv, TypeInv, TypeOK
<1>3. Popped = {occurrence(i) : i \in DueIds}
  BY DEF Popped
<1>4. \A i \in DueIds : occurrence(i).id = i /\ occurrence(i).n = tasks[i].occurrences
  OBVIOUS
<1>5. DueIds \subseteq DOMAIN tasks /\ DOMAIN tasks \subseteq Ids(used)
  BY DEF DueIds, SchedulerInv, StoreInv, TypeInv, ShapeInv
<1>6. \A i \in DOMAIN tasks : tasks[i] \in Task
  BY DEF SchedulerInv, StoreInv, TypeInv, TypeOK
<1> HIDE DEF occurrence
<1>7. \A i \in TaskId \ DueIds :
        /\ i \in DOMAIN tasks' <=> i \in DOMAIN tasks
        /\ i \in DOMAIN tasks => tasks'[i] = tasks[i]
  BY <1>2 DEF AfterPop
<1>8. \A i \in DueIds : i \in DOMAIN tasks' =>
        /\ Recurs(tasks[i])
        /\ tasks'[i].occurrences = tasks[i].occurrences + 1
        /\ tasks'[i].count = tasks[i].count
  BY <1>2, <1>5, <1>6, AdvancedType DEF AfterPop
<1>9. FileInv'
  BY <1>2, <1>7, SaveStep DEF SchedulerInv
<1>10. /\ \A i \in DueIds : Firings(i)' = Firings(i) \cup {occurrence(i)}
       /\ \A i : i \notin DueIds => Firings(i)' = Firings(i)
  <2>1. Seen' = Seen \cup Popped
    BY <1>2 DEF Seen, Poll, historyVars
  <2>2. \A i : Firings(i)' = Firings(i) \cup {o \in Popped : o.id = i}
    BY <2>1 DEF Firings, Seen
  <2>3. \A i \in DueIds : {o \in Popped : o.id = i} = {occurrence(i)}
    BY <1>3, <1>4
  <2>4. \A i : i \notin DueIds => {o \in Popped : o.id = i} = {}
    BY <1>3, <1>4
  <2> QED
    BY <2>2, <2>3, <2>4
<1>11. \A i \in DueIds : i \notin revived =>
         \A o \in Firings(i) : o.n \in 0 .. tasks[i].occurrences - 1
  BY <1>5 DEF SchedulerInv, NumbersInv
<1>16. \A i \in DueIds \ revived : {o.n : o \in Firings(i)'} = 0 .. tasks[i].occurrences
  <2> SUFFICES ASSUME NEW i \in DueIds \ revived
               PROVE  {o.n : o \in Firings(i)'} = 0 .. tasks[i].occurrences
    OBVIOUS
  <2>1. {o.n : o \in Firings(i)} = 0 .. tasks[i].occurrences - 1
    BY <1>5 DEF SchedulerInv, NumbersInv
  <2>2. {o.n : o \in Firings(i)'} = {o.n : o \in Firings(i)} \cup {tasks[i].occurrences}
    BY <1>4, <1>10
  <2>3. tasks[i].occurrences \in Nat
    BY <1>5, <1>6 DEF Task
  <2> QED
    BY <2>1, <2>2, <2>3
<1>12. NumbersInv'
  <2> SUFFICES ASSUME NEW i \in Ids(used) \ revived, i \in DOMAIN tasks'
               PROVE  {o.n : o \in Firings(i)'} = 0 .. tasks'[i].occurrences - 1
    BY DEF NumbersInv, Poll, historyVars, Ids
  <2>1. i \in TaskId
    BY DEF SchedulerInv, StoreInv, TypeInv, TypeOK
  <2>2. CASE i \notin DueIds
    BY <1>7, <1>10, <2>1, <2>2 DEF SchedulerInv, NumbersInv
  <2>3. CASE i \in DueIds
    <3>1. tasks[i].occurrences \in Nat
      BY <1>5, <1>6, <2>3 DEF Task
    <3> QED
      BY <1>8, <1>16, <2>3, <3>1
  <2> QED
    BY <2>2, <2>3
<1>13. LimitInv'
  <2> SUFFICES ASSUME NEW u \in used, u.count >= 1, u.id \notin revived
               PROVE  /\ \A o \in Firings(u.id)' : o.n < u.count
                      /\ u.id \in DOMAIN tasks' =>
                            tasks'[u.id].count = u.count /\ tasks'[u.id].occurrences < u.count
    BY DEF LimitInv, Poll, historyVars
  <2>1. u.id \in TaskId /\ u.count \in Nat
    BY DEF SchedulerInv, StoreInv, TypeInv, ShapeInv, Order, NoLimit
  <2>2. CASE u.id \notin DueIds
    BY <1>7, <1>10, <2>1, <2>2 DEF SchedulerInv, LimitInv
  <2>3. CASE u.id \in DueIds
    <3>1. tasks[u.id].count = u.count /\ tasks[u.id].occurrences < u.count
      BY <1>5, <2>3 DEF SchedulerInv, LimitInv
    <3>2. \A o \in Firings(u.id)' : o.n < u.count
      BY <1>4, <1>10, <2>3, <3>1 DEF SchedulerInv, LimitInv
    <3>3. tasks[u.id].occurrences \in Nat
      BY <1>5, <1>6, <2>3 DEF Task
    <3>4. Recurs(tasks[u.id]) => tasks[u.id].occurrences + 1 < u.count
      BY <2>1, <3>1, <3>3 DEF Recurs, NoLimit
    <3> QED
      BY <1>8, <2>3, <3>1, <3>2, <3>4
  <2> QED
    BY <2>2, <2>3
<1>14. CancelInv'
  BY <1>1, <1>2 DEF SchedulerInv, CancelInv, Poll, historyVars, AfterPop
<1>15. OnceInv'
  <2>1. Seen' = Seen \cup Popped
    BY <1>2 DEF Seen, Poll, historyVars
  <2>2. \A o \in Seen, i \in DueIds : o.id = i /\ i \notin revived => o.n # tasks[i].occurrences
    <3> SUFFICES ASSUME NEW o \in Seen, o.id \in DueIds, o.id \notin revived
                 PROVE  o.n # tasks[o.id].occurrences
      OBVIOUS
    <3>1. o.n \in 0 .. tasks[o.id].occurrences - 1
      BY <1>11, FiringsOf
    <3>2. tasks[o.id].occurrences \in Nat
      BY <1>5, <1>6 DEF Task
    <3> QED
      BY <3>1, <3>2
  <2>3. \A o, p \in Seen' : o.id = p.id /\ o.n = p.n /\ o.id \notin revived => o = p
    BY <1>3, <1>4, <2>1, <2>2 DEF SchedulerInv, OnceInv
  <2>4. \A o \in queue' : o \in started => o.id \in revived
    BY <1>2, <1>3, <1>4, <2>2 DEF Seen
  <2> QED
    BY <2>3, <2>4 DEF SchedulerInv, OnceInv, Poll, historyVars, Ids
<1>17. DueInv'
  <2> SUFFICES ASSUME NEW u \in used, u.id \notin revived, u.count # 0
               PROVE  /\ \A o \in Firings(u.id)' : o.due = DueTime(u, o.n) /\ o.due <= now
                      /\ u.id \in DOMAIN tasks' =>
                            LET t == tasks'[u.id]
                            IN  /\ t.period = u.period /\ t.until = u.until /\ t.count = u.count
                                /\ t.due = DueTime(u, t.occurrences)
                                /\ Wanted(u, t.occurrences)
                      /\ u.id \notin DOMAIN tasks' \cup cancelled =>
                            \E o \in Firings(u.id)' :
                                /\ {p.n : p \in Firings(u.id)'} = 0 .. o.n
                                /\ Wanted(u, o.n) /\ ~Wanted(u, o.n + 1)
    BY DEF DueInv, Poll, historyVars
  <2>1. u.id \in TaskId /\ u \in Order
    BY DEF SchedulerInv, StoreInv, TypeInv, ShapeInv, Order
  <2>2. CASE u.id \notin DueIds
    BY <1>7, <1>10, <2>1, <2>2 DEF SchedulerInv, DueInv
  <2>3. CASE u.id \in DueIds
    <3> DEFINE t == tasks[u.id]
    <3>1. /\ t \in Task /\ t.due <= now
          /\ t.period = u.period /\ t.until = u.until /\ t.count = u.count
          /\ t.due = DueTime(u, t.occurrences) /\ Wanted(u, t.occurrences)
      BY <1>5, <1>6, <2>3 DEF SchedulerInv, DueInv, DueIds
    <3>2. occurrence(u.id).id = u.id /\ occurrence(u.id).n = t.occurrences
          /\ occurrence(u.id).due = t.due
      BY DEF occurrence
    <3> HIDE DEF t
    <3>3. \A o \in Firings(u.id)' : o.due = DueTime(u, o.n) /\ o.due <= now
      BY <1>10, <2>3, <3>1, <3>2 DEF SchedulerInv, DueInv
    <3>4. t.occurrences \in Nat /\ u.period \in Nat /\ u.due \in Nat
      BY <2>1, <3>1 DEF Task, Order
    <3>5. DueTime(u, t.occurrences + 1) = t.due + t.period
      <4>1. (t.occurrences + 1) * u.period = t.occurrences * u.period + u.period
        BY <3>4
      <4>2. t.occurrences * u.period \in Nat
        BY <3>4
      <4> QED
        BY <3>1, <3>4, <4>1, <4>2 DEF DueTime
    <3>6. Recurs(t) <=> Wanted(u, t.occurrences + 1)
      <4>1. t.due \in Nat /\ t.period \in Nat /\ u.until \in Nat \cup {NoLimit}
            /\ u.count \in Nat \cup {NoLimit}
        BY <2>1, <3>1 DEF Task, Order
      <4> QED
        BY <3>1, <3>4, <3>5, <4>1 DEF Recurs, Wanted, NoLimit
    <3>7. u.id \in DOMAIN tasks' => /\ Recurs(t) /\ tasks'[u.id] = Advanced(t)
      BY <1>2, <1>5, <2>3 DEF AfterPop, t
    <3>8. /\ Advanced(t).period = t.period /\ Advanced(t).until = t.until
          /\ Advanced(t).count = t.count /\ Advanced(t).due = t.due + t.period
          /\ Advanced(t).occurrences = t.occurrences + 1
      BY <3>1 DEF Advanced, Task
    <3>9. u.id \notin DOMAIN tasks' => ~Recurs(t)
      BY <1>2, <1>5, <2>3 DEF AfterPop, t
    <3>10. occurrence(u.id) \in Firings(u.id)' /\ {p.n : p \in Firings(u.id)'} = 0 .. t.occurrences
      BY <1>10, <1>16, <2>3 DEF t
    <3>11. u.id \in DOMAIN tasks' =>
              /\ tasks'[u.id].period = u.period /\ tasks'[u.id].until = u.until
              /\ tasks'[u.id].count = u.count
              /\ tasks'[u.id].due = DueTime(u, tasks'[u.id].occurrences)
              /\ Wanted(u, tasks'[u.id].occurrences)
      BY <3>1, <3>5, <3>6, <3>7, <3>8
    <3> QED
      BY <3>1, <3>2, <3>3, <3>6, <3>9, <3>10, <3>11
  <2> QED
    BY <2>2, <2>3
<1> QED
  BY <1>1, <1>9, <1>12, <1>13, <1>14, <1>15, <1>17 DEF SchedulerInv, StoreInv

\* Every step keeps the invariant.
LEMMA SchedulerStep == SchedulerInv /\ [Next]_vars => SchedulerInv'
<1> SUFFICES ASSUME SchedulerInv, [Next]_vars PROVE SchedulerInv'
  OBVIOUS
<1> USE DEF SchedulerInv, StoreInv
<1>0. now <= now /\ now <= now + 1
  BY ConstantTypes DEF TypeInv, TypeOK
<1>1. ASSUME NEW c \in Chat, BeginSchedule(c) PROVE SchedulerInv'
  BY <1>0, <1>1, BeginScheduleType, StutterStep DEF BeginSchedule, storeVars, historyVars
<1>2. ASSUME NEW c \in Chat, RefuseSchedule(c) PROVE SchedulerInv'
  BY <1>0, <1>2, RefuseScheduleType, StutterStep DEF RefuseSchedule, storeVars, historyVars
<1>3. ASSUME NEW c \in Chat, FinishSchedule(c) PROVE SchedulerInv'
  BY <1>3, FinishScheduleStep
<1>4. ASSUME NEW c \in Chat, NEW id \in TaskId, Cancel(c, id) PROVE SchedulerInv'
  BY <1>4, CancelStep
<1>5. CASE Start \/ Finish \/ Tick \/ UNCHANGED vars
  BY <1>0, <1>5, QuietType, StutterStep DEF Start, Finish, Tick, vars, storeVars, historyVars
<1>6. CASE Poll
  BY <1>6, PollStep
<1>7. CASE StartNext
  BY <1>7, StartNextStep
<1>8. CASE Stop
  <2>1. up' \in BOOLEAN
    BY <1>8 DEF Stop, TypeInv, TypeOK
  <2> QED
    BY <1>8, <2>1, DropType, DropStep DEF Stop
<1>9. CASE Down
  BY <1>9, DropType, DropStep DEF Down
<1>10. CASE Restart
  BY <1>10, RestartStep
<1> QED
  BY <1>1, <1>2, <1>3, <1>4, <1>5, <1>6, <1>7, <1>8, <1>9, <1>10 DEF Next, LoopStep

\* The inductive invariant.
THEOREM SchedulerInvAlways == Spec => []SchedulerInv
BY InitInv, SchedulerStep, PTL DEF Spec

-----------------------------------------------------------------------------
(* The properties.                                                          *)

\* Type correctness of the store, its file and the loop, for any tasks, chats and clock.
THEOREM TypeCorrect == Spec => []TypeOK
<1>1. SchedulerInv => TypeOK
  BY DEF SchedulerInv, StoreInv, TypeInv
<1> QED
  BY <1>1, SchedulerInvAlways, PTL

\* No occurrence is executed twice, across polls, cancellations, crashes and restarts:
\* pop_due saves the store it advanced before anything is executed.
THEOREM AtMostOnceAlways == Spec => []AtMostOnce
<1>1. SchedulerInv => AtMostOnce
  BY DEF SchedulerInv, OnceInv, AtMostOnce
<1> QED
  BY <1>1, SchedulerInvAlways, PTL

\* Due times go up with their numbers.
LEMMA DueTimesAscend ==
    ASSUME NEW u \in Order
    PROVE  /\ \A k \in Nat : DueTime(u, k) \in Nat
           /\ \A j, k \in Nat : j <= k => DueTime(u, j) <= DueTime(u, k)
           /\ u.period # 0 => \A j, k \in Nat : j < k => DueTime(u, j) < DueTime(u, k)
           /\ u.period # 0 => \A k \in Nat : k <= DueTime(u, k)
<1>1. u.due \in Nat /\ u.period \in Nat
  BY DEF Order
<1>2. \A k, p \in Nat : k * p \in Nat
  OBVIOUS
<1>3. \A i, j, p \in Nat : (i + j) * p = i * p + j * p
  OBVIOUS
<1>4. ASSUME NEW j \in Nat, NEW k \in Nat, j <= k
      PROVE  k * u.period = j * u.period + (k - j) * u.period /\ (k - j) * u.period \in Nat
  <2>1. k - j \in Nat /\ k = j + (k - j)
    BY <1>4
  <2> QED
    BY <1>1, <1>2, <1>3, <2>1
<1>5. ASSUME NEW k \in Nat, u.period # 0 PROVE k <= k * u.period
  <2>1. u.period - 1 \in Nat /\ k * (u.period - 1) \in Nat
    BY <1>1, <1>2, <1>5
  <2>2. k * u.period = k * (u.period - 1) + k
    BY <1>1, <2>1
  <2> QED
    BY <1>1, <1>2, <2>1, <2>2
<1>6. \A k \in Nat : k * u.period \in Nat
  BY <1>1, <1>2
<1>7. \A k \in Nat : DueTime(u, k) \in Nat
  BY <1>1, <1>6 DEF DueTime
<1>8. ASSUME NEW j \in Nat, NEW k \in Nat, j <= k
      PROVE  /\ DueTime(u, j) <= DueTime(u, k)
             /\ u.period # 0 /\ j < k => DueTime(u, j) < DueTime(u, k)
  <2>1. PICK a \in Nat : a = j * u.period
    BY <1>6
  <2>2. PICK b \in Nat : b = k * u.period
    BY <1>6
  <2>3. PICK i \in Nat : i = k - j
    BY <1>8
  <2>4. PICK c \in Nat : c = i * u.period
    BY <1>6
  <2>5. b = a + c
    BY <1>4, <1>8, <2>1, <2>2, <2>3, <2>4
  <2>6. u.period # 0 => i <= c
    BY <1>5, <2>4
  <2>7. DueTime(u, j) = u.due + a /\ DueTime(u, k) = u.due + b
    BY <2>1, <2>2 DEF DueTime
  <2> QED
    BY <1>1, <1>8, <2>3, <2>5, <2>6, <2>7
<1>9. u.period # 0 => \A j, k \in Nat : j < k => DueTime(u, j) < DueTime(u, k)
  BY <1>8
<1>10. u.period # 0 => \A k \in Nat : k <= DueTime(u, k)
  BY <1>1, <1>5, <1>6 DEF DueTime
<1> QED
  BY <1>7, <1>8, <1>9, <1>10

\* What was wanted once was wanted before.
LEMMA WantedBefore ==
    ASSUME NEW u \in Order, NEW k \in Nat, Wanted(u, k), NEW j \in 0 .. k
    PROVE  Wanted(u, j)
<1>1. DueTime(u, j) \in Nat /\ DueTime(u, k) \in Nat /\ DueTime(u, j) <= DueTime(u, k)
  BY DueTimesAscend
<1>2. u.until \in Nat \cup {NoLimit} /\ u.count \in Nat \cup {NoLimit}
  BY DEF Order
<1> QED
  BY <1>1, <1>2 DEF Wanted, NoLimit

\* The times that were asked for are the due times that were wanted.
LEMMA AskedIsWanted ==
    ASSUME NEW u \in Order, NEW d \in Nat
    PROVE  Asked(u, d) <=> \E k \in Nat : d = DueTime(u, k) /\ Wanted(u, k)
<1>1. /\ \A k \in Nat : DueTime(u, k) \in Nat
      /\ u.period # 0 => \A k \in Nat : k <= DueTime(u, k)
  BY DueTimesAscend
<1>2. ASSUME Asked(u, d) PROVE \E k \in Nat : d = DueTime(u, k) /\ Wanted(u, k)
  <2>1. PICK k \in 0 .. d :
          /\ d = DueTime(u, k)
          /\ k > 0 => /\ u.until = NoLimit \/ d <= u.until
                      /\ u.count = NoLimit \/ k < u.count
    BY <1>2 DEF Asked, DueTime
  <2>2. CASE k = 0 \/ u.period # 0
    BY <2>1, <2>2 DEF Wanted
  <2>3. CASE u.period = 0
    <3>1. d = DueTime(u, 0)
      <4>1. k * 0 = 0 /\ 0 * 0 = 0
        BY <2>1
      <4> QED
        BY <2>1, <2>3, <4>1 DEF DueTime
    <3> QED
      BY <3>1 DEF Wanted
  <2> QED
    BY <2>2, <2>3
<1>3. ASSUME NEW k \in Nat, d = DueTime(u, k), Wanted(u, k) PROVE Asked(u, d)
  <2>1. k \in 0 .. d
    BY <1>1, <1>3 DEF Wanted
  <2> QED
    BY <1>3, <2>1 DEF Asked, Wanted, DueTime
<1> QED
  BY <1>2, <1>3

\* A task has fired at the due times with its numbers.
LEMMA FiredAt ==
    ASSUME SchedulerInv, NEW u \in used, u.id \notin revived, u.count # 0,
           NEW n \in Int, {o.n : o \in Firings(u.id)} = 0 .. n
    PROVE  {o.due : o \in Firings(u.id)} = {DueTime(u, k) : k \in 0 .. n}
<1>1. \A o \in Firings(u.id) : o.due = DueTime(u, o.n)
  BY DEF SchedulerInv, DueInv
<1>2. \A o \in Firings(u.id) : o.n \in 0 .. n
  OBVIOUS
<1>3. \A k \in 0 .. n : \E o \in Firings(u.id) : o.n = k
  OBVIOUS
<1> QED
  BY <1>1, <1>2, <1>3

\* A task that is waiting has fired when it was asked to before its due time.
LEMMA WaitingTaskFired ==
    ASSUME SchedulerInv, NEW u \in used, u.id \notin revived, u.count # 0, u.id \in DOMAIN tasks
    PROVE  /\ Asked(u, tasks[u.id].due)
           /\ {o.due : o \in Firings(u.id)} = {d \in 0 .. tasks[u.id].due - 1 : Asked(u, d)}
<1>1. PICK n \in Nat : n = tasks[u.id].occurrences
  BY DEF SchedulerInv, StoreInv, TypeInv, TypeOK, Task
<1>2. u \in Order
  BY DEF SchedulerInv, StoreInv, TypeInv, ShapeInv
<1>3. tasks[u.id].due = DueTime(u, n) /\ Wanted(u, n)
  BY <1>1 DEF SchedulerInv, DueInv
<1>4. {o.n : o \in Firings(u.id)} = 0 .. n - 1
  BY <1>1 DEF SchedulerInv, NumbersInv, Ids
<1>5. {o.due : o \in Firings(u.id)} = {DueTime(u, k) : k \in 0 .. n - 1}
  <2>1. n - 1 \in Int
    OBVIOUS
  <2> QED
    BY <1>4, <2>1, FiredAt
<1>6. /\ \A k \in Nat : DueTime(u, k) \in Nat
      /\ \A j, k \in Nat : j <= k => DueTime(u, j) <= DueTime(u, k)
      /\ u.period # 0 => \A j, k \in Nat : j < k => DueTime(u, j) < DueTime(u, k)
  BY <1>2, DueTimesAscend
<1>7. ASSUME NEW k \in 0 .. n - 1
      PROVE  DueTime(u, k) \in 0 .. DueTime(u, n) - 1 /\ Asked(u, DueTime(u, k))
  <2>1. k \in Nat /\ k < n /\ u.period # 0
    BY <1>3 DEF Wanted
  <2>2. DueTime(u, k) \in Nat /\ DueTime(u, n) \in Nat /\ DueTime(u, k) < DueTime(u, n)
    BY <1>6, <2>1
  <2>3. Wanted(u, k)
    BY <1>2, <1>3, WantedBefore
  <2> QED
    BY <1>2, <2>1, <2>2, <2>3, AskedIsWanted
<1>8. ASSUME NEW d \in 0 .. DueTime(u, n) - 1, Asked(u, d)
      PROVE  \E k \in 0 .. n - 1 : d = DueTime(u, k)
  <2>1. d \in Nat /\ d < DueTime(u, n)
    BY <1>6
  <2>2. PICK k \in Nat : d = DueTime(u, k)
    BY <1>2, <1>8, <2>1, AskedIsWanted
  <2>3. ~(n <= k)
    BY <1>6, <2>1, <2>2
  <2> QED
    BY <2>2, <2>3
<1>9. Asked(u, DueTime(u, n))
  BY <1>2, <1>3, <1>6, AskedIsWanted
<1> QED
  BY <1>3, <1>5, <1>7, <1>8, <1>9

\* A task that is gone has fired whenever it was asked to, up to now and one period more.
LEMMA EndedTaskFired ==
    ASSUME SchedulerInv, NEW u \in used, u.id \notin revived, u.count # 0,
           u.id \notin DOMAIN tasks \cup cancelled
    PROVE  {o.due : o \in Firings(u.id)} = {d \in 0 .. now + u.period : Asked(u, d)}
<1>1. PICK o \in Firings(u.id) : /\ {p.n : p \in Firings(u.id)} = 0 .. o.n
                                 /\ Wanted(u, o.n) /\ ~Wanted(u, o.n + 1)
  BY DEF SchedulerInv, DueInv
<1>2. u \in Order /\ u.period \in Nat /\ now \in Nat
  BY ConstantTypes DEF SchedulerInv, StoreInv, TypeInv, ShapeInv, TypeOK, Order
<1>3. PICK n \in Nat : n = o.n
  BY <1>1, FiringsOf DEF SchedulerInv, StoreInv, TypeInv, ShapeInv, Occurrence
<1>4. {p.due : p \in Firings(u.id)} = {DueTime(u, k) : k \in 0 .. n}
  <2>1. n \in Int /\ {p.n : p \in Firings(u.id)} = 0 .. n
    BY <1>1, <1>3
  <2> QED
    BY <2>1, FiredAt
<1>5. /\ \A k \in Nat : DueTime(u, k) \in Nat
      /\ \A j, k \in Nat : j <= k => DueTime(u, j) <= DueTime(u, k)
  BY <1>2, DueTimesAscend
<1>6. DueTime(u, n) <= now
  BY <1>1, <1>3 DEF SchedulerInv, DueInv
<1>7. ASSUME NEW k \in 0 .. n
      PROVE  DueTime(u, k) \in 0 .. now + u.period /\ Asked(u, DueTime(u, k))
  <2>1. DueTime(u, k) \in Nat /\ DueTime(u, n) \in Nat /\ DueTime(u, k) <= DueTime(u, n)
    BY <1>5
  <2>2. Wanted(u, k)
    BY <1>1, <1>2, <1>3, WantedBefore
  <2> QED
    BY <1>2, <1>6, <2>1, <2>2, AskedIsWanted
<1>8. ASSUME NEW d \in 0 .. now + u.period, Asked(u, d)
      PROVE  \E k \in 0 .. n : d = DueTime(u, k)
  <2>1. d \in Nat
    BY <1>2
  <2>2. PICK k \in Nat : d = DueTime(u, k) /\ Wanted(u, k)
    BY <1>2, <1>8, <2>1, AskedIsWanted
  <2>3. k <= n
    <3>1. SUFFICES ASSUME n + 1 <= k PROVE FALSE
      BY <2>2
    <3>2. n + 1 \in 0 .. k
      BY <3>1
    <3> QED
      BY <1>1, <1>2, <1>3, <2>2, <3>2, WantedBefore
  <2> QED
    BY <2>2, <2>3
<1> QED
  BY <1>4, <1>7, <1>8

\* Tasks fire when they were asked to, however late they are polled: pop_due moves a due time
\* on by one period at a time and ends a task at its limits only.
THEOREM FiringsAccountedForAlways == Spec => []FiringsAccountedFor
<1>1. SchedulerInv => FiringsAccountedFor
  BY WaitingTaskFired, EndedTaskFired DEF FiringsAccountedFor
<1> QED
  BY <1>1, SchedulerInvAlways, PTL

\* compute_next_due keeps a count of at least 1, for any recurrence and number of restarts.
THEOREM PositiveCountLimitsFiringsAlways == Spec => []PositiveCountLimitsFirings
<1>1. SchedulerInv => PositiveCountLimitsFirings
  <2> SUFFICES ASSUME SchedulerInv, NEW u \in used, u.count >= 1, u.id \notin revived
               PROVE  Cardinality({o \in started : o.id = u.id}) <= u.count
    BY DEF PositiveCountLimitsFirings
  <2> DEFINE fired == {o \in started : o.id = u.id}
             number == [o \in fired |-> o.n]
  <2>1. fired \subseteq Firings(u.id) /\ fired \subseteq Seen /\ fired \subseteq Occurrence
    BY DEF Firings, Seen, SchedulerInv, StoreInv, TypeInv, ShapeInv
  <2>2. u.count \in Nat
    BY DEF SchedulerInv, StoreInv, TypeInv, ShapeInv, Order, NoLimit
  <2>3. \A o \in fired : o.n \in 0 .. u.count - 1
    BY <2>1, <2>2 DEF SchedulerInv, LimitInv, Occurrence
  <2>4. \A o, p \in fired : o.n = p.n => o = p
    BY <2>1 DEF SchedulerInv, OnceInv
  <2>5. number \in Injection(fired, 0 .. u.count - 1)
    BY <2>3, <2>4 DEF Injection, IsInjective
  <2>6. IsFiniteSet(0 .. u.count - 1) /\ Cardinality(0 .. u.count - 1) = u.count
    BY <2>2, FS_Interval
  <2> HIDE DEF fired, number
  <2>7. Cardinality(fired) <= u.count
    BY <2>5, <2>6, FS_Injection
  <2> QED
    BY <2>7 DEF fired
<1> QED
  BY <1>1, SchedulerInvAlways, PTL

\* Nothing cancelled is popped any more, in this process or after a restart: cancel removes
\* the task from the store and saves it.
THEOREM CancelledStaysCancelledAlways == Spec => CancelledStaysCancelled
<1>1. SchedulerInv /\ [Next]_vars => [Ids(queue' \ queue) \cap cancelled \subseteq revived]_vars
  <2> SUFFICES ASSUME SchedulerInv, Next PROVE Ids(queue' \ queue) \cap cancelled \subseteq revived
    OBVIOUS
  <2>1. CASE Poll
    <3>1. Ids(queue' \ queue) \subseteq DueIds
      BY <2>1, PopType DEF SchedulerInv, StoreInv, Poll, Ids
    <3> QED
      BY <3>1 DEF SchedulerInv, CancelInv, DueIds
  <2>2. ASSUME ~Poll PROVE queue' \subseteq queue
    BY <2>2 DEF Next, LoopStep, BeginSchedule, RefuseSchedule, FinishSchedule, Cancel, Start,
       StartNext, Finish, Stop, Down, Drop, Restart, Tick
  <2>3. queue' \subseteq queue => Ids(queue' \ queue) = {}
    BY DEF Ids
  <2> QED
    BY <2>1, <2>2, <2>3
<1> QED
  BY <1>1, SchedulerInvAlways, PTL DEF Spec, CancelledStaysCancelled

=============================================================================
