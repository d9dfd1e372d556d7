--------------------------- MODULE TaskScheduler ---------------------------
(***************************************************************************)
(* Scheduled tasks (agent/scheduler.py): the store with its JSON file, the  *)
(* polling loop that pops due tasks and executes them one after another,    *)
(* and the schedule_task and cancel_task tools that chat turns call         *)
(* meanwhile.                                                               *)
(*                                                                          *)
(* Time is a number of ticks and a recurrence is a number of ticks to the   *)
(* next due time; the calendar arithmetic is module Recurrence.  The store  *)
(* lock brackets code without an await, so each use of it is one step.      *)
(* Due tasks are executed in the order of a dict; here in any order.        *)
(* Executing a task, which runs an agent turn and sends its reply, ends     *)
(* whether it succeeds or raises.  Ids are never reused; which of the unused  *)
(* ones new_id returns makes no difference.                                 *)
(***************************************************************************)
EXTENDS Integers, FiniteSets

CONSTANTS
    TaskId,      \* the ids new_id may return
    Chat,        \* chat ids
    MaxTime,     \* bound on the clock
    Requests,    \* the recurrences that schedule_task is called with
    CanFail      \* may saving the file raise OSError?

\* no until, or no count, argument
NoLimit == -1

\* a recurrence: repeat and interval as a number of ticks (0 for repeat="none")
Recurrence == [period : Nat, until : Nat \cup {NoLimit}, count : Nat \cup {NoLimit}]

ASSUME TaskSchedulerAssumption ==
    /\ IsFiniteSet(TaskId)
    /\ MaxTime \in Nat
    /\ Requests \subseteq Recurrence
    /\ CanFail \in BOOLEAN
    /\ "" \notin Chat

VARIABLES
    now,       \* the clock
    tasks,     \* TaskStore._tasks: a function on the ids of the pending tasks
    file,      \* the tasks in the JSON file
    turn,      \* the due time that schedule_task has checked in each chat's turn, or {}
    loop,      \* TaskScheduler.run: "off", "sleeping" or "ticking"
    queue,     \* the occurrences that tick popped and has not started
    current,   \* the occurrence being executed, as a set of at most one
    up,        \* is the process running?
    used,      \* history variable: the ids given out, with what was asked for
    started,   \* history variable: the occurrences that execution started
    repeated,  \* history variable: those that execution started more than once
    dropped,   \* history variable: those that tick had popped when the loop was stopped
    lagging,   \* history variable: the ids whose last change could not be saved
    revived,   \* history variable: the ids whose last change a restart undid therefore
    cancelled  \* history variable: the ids whose cancellation returned success

historyVars == <<used, started, repeated, dropped, revived, cancelled>>
vars == <<now, tasks, file, lagging, turn, loop, queue, current, up, historyVars>>

Task == [chat : Chat, due : Nat, period : Nat, until : Nat \cup {NoLimit},
         count : Nat \cup {NoLimit}, occurrences : Nat]

\* the n-th firing of task id, due at the time it was popped for
Occurrence == [id : TaskId, n : Nat, due : Nat]

Ids(S) == {o.id : o \in S}
NoTasks == [id \in {} |-> {}]

-----------------------------------------------------------------------------
(* The store.                                                               *)

\* save_locked of tasks', in which `changed` is new: OSError is logged and the file
\* keeps its old contents
Save(changed) ==
    \/ /\ file' = tasks'
       /\ lagging' = {}
    \/ /\ CanFail
       /\ file' = file
       /\ lagging' = lagging \cup changed

\* from_dict: a count of 0 is falsy and reads back as no limit
Loaded(t) == [t EXCEPT !.count = IF @ = 0 THEN NoLimit ELSE @]

\* Faulty variant: the firing that is being popped is not counted
RecursOnceMore(t) ==
    /\ t.period # 0
    /\ ~ (t.until # NoLimit /\ t.due + t.period > t.until)
    /\ ~ (t.count # NoLimit /\ t.occurrences >= t.count)

\* compute_next_due is not None
Recurs(t) ==
    /\ t.period # 0
    /\ ~ (t.until # NoLimit /\ t.due + t.period > t.until)
    /\ ~ (t.count # NoLimit /\ t.occurrences + 1 >= t.count)

\* Faulty variant: a task that is popped late goes on in the future
AdvancedPastNow(t) ==
    LET missed == (now - t.due) \div t.period
    IN  [t EXCEPT !.due = @ + (missed + 1) * t.period, !.occurrences = @ + 1]

\* advance_recurrence, and one more occurrence
Advanced(t) == [t EXCEPT !.due = @ + t.period, !.occurrences = @ + 1]

DueIds == {id \in DOMAIN tasks : tasks[id].due <= now}

\* the tasks that pop_due leaves
AfterPop ==
    [id \in {i \in DOMAIN tasks : i \in DueIds => Recurs(tasks[i])} |->
        IF id \in DueIds THEN Advanced(tasks[id]) ELSE tasks[id]]

Popped == {[id |-> i, n |-> tasks[i].occurrences, due |-> tasks[i].due] : i \in DueIds}

With(id, t) == [i \in DOMAIN tasks \cup {id} |-> IF i = id THEN t ELSE tasks[i]]
Without(id) == [i \in DOMAIN tasks \ {id} |-> tasks[i]]

-----------------------------------------------------------------------------
(* The tools, in a chat turn that no task execution started.                *)

\* schedule_task up to the clarity judge; of the arguments only the due time is looked
\* at here, so the model chooses the others when they are used
BeginSchedule(c) ==
    /\ up
    /\ turn[c] = {}
    /\ \E due \in now + 1 .. MaxTime : turn' = [turn EXCEPT ![c] = {due}]
    /\ UNCHANGED <<now, tasks, file, lagging, loop, queue, current, up, historyVars>>

\* the judge finds the goal unclear, or fails
RefuseSchedule(c) ==
    /\ up
    /\ turn[c] # {}
    /\ turn' = [turn EXCEPT ![c] = {}]
    /\ UNCHANGED <<now, tasks, file, lagging, loop, queue, current, up, historyVars>>

\* schedule_task after the judge, scheduler.schedule and store.add
FinishSchedule(c) ==
    /\ up
    /\ TaskId # Ids(used)
    /\ LET id == CHOOSE i \in TaskId : i \notin Ids(used)
       IN  \E due \in turn[c], r \in Requests :
              /\ tasks' = With(id, [chat |-> c, due |-> due, period |-> r.period,
                                    until |-> r.until, count |-> r.count, occurrences |-> 0])
              /\ used' = used \cup {[id |-> id, due |-> due, period |-> r.period,
                                     until |-> r.until, count |-> r.count]}
              /\ Save({id})
    /\ turn' = [turn EXCEPT ![c] = {}]
    /\ UNCHANGED <<now, loop, queue, current, up, started, repeated, dropped, revived, cancelled>>

\* Faulty variant: only adding and popping write the file
CancelUnsaved(c, id) ==
    /\ up
    /\ id \in DOMAIN tasks
    /\ tasks[id].chat = c
    /\ tasks' = Without(id)
    /\ cancelled' = cancelled \cup {id}
    /\ UNCHANGED <<now, file, lagging, turn, loop, queue, current, up>>
    /\ UNCHANGED <<used, started, repeated, dropped, revived>>

\* cancel_task of an id that belongs to the chat; of any other it changes nothing
Cancel(c, id) ==
    /\ up
    /\ id \in DOMAIN tasks
    /\ tasks[id].chat = c
    /\ tasks' = Without(id)
    /\ Save({id})
    /\ cancelled' = cancelled \cup {id}
    /\ UNCHANGED <<now, turn, loop, queue, current, up, used, started, repeated, dropped, revived>>

-----------------------------------------------------------------------------
(* The loop.                                                                *)

\* start
Start ==
    /\ up
    /\ loop = "off"
    /\ loop' = "sleeping"
    /\ UNCHANGED <<now, tasks, file, lagging, turn, queue, current, up, historyVars>>

\* Faulty variant: the popped tasks are saved at the next change only
PollUnsaved ==
    /\ up
    /\ loop = "sleeping"
    /\ DueIds # {}
    /\ queue' = Popped
    /\ tasks' = AfterPop
    /\ loop' = "ticking"
    /\ UNCHANGED <<now, file, lagging, turn, current, up, historyVars>>

\* tick with something due: pop_due
Poll ==
    /\ up
    /\ loop = "sleeping"
    /\ DueIds # {}
    /\ queue' = Popped
    /\ tasks' = AfterPop
    /\ Save(DueIds)
    /\ loop' = "ticking"
    /\ UNCHANGED <<now, turn, current, up, historyVars>>

\* execute_one begins
StartNext ==
    /\ loop = "ticking"
    /\ current = {}
    /\ \E o \in queue :
          /\ current' = {o}
          /\ queue' = queue \ {o}
          /\ started' = started \cup {o}
          /\ repeated' = IF o \in started THEN repeated \cup {o} ELSE repeated
    /\ UNCHANGED <<now, tasks, file, lagging, turn, loop, up, used, dropped, revived, cancelled>>

\* Faulty variant: a failing execution ends the loop
FinishOrDie ==
    /\ current # {}
    /\ current' = {}
    /\ \/ loop' = IF queue = {} THEN "sleeping" ELSE "ticking"
       \/ loop' = "dead"
    /\ UNCHANGED <<now, tasks, file, lagging, turn, queue, up, historyVars>>

\* execute_one ends, with or without an exception; after the last one tick ends
Finish ==
    /\ current # {}
    /\ current' = {}
    /\ loop' = IF queue = {} THEN "sleeping" ELSE "ticking"
    /\ UNCHANGED <<now, tasks, file, lagging, turn, queue, up, historyVars>>

\* what tick has popped is in no store any more; an execution that has begun is cut off
Drop ==
    /\ queue' = {}
    /\ current' = {}
    /\ dropped' = dropped \cup queue
    /\ UNCHANGED <<used, started, repeated, revived, cancelled>>

\* stop: the loop is cancelled wherever it is, with what it has popped
Stop ==
    /\ up
    /\ loop # "off"
    /\ loop' = "off"
    /\ Drop
    /\ UNCHANGED <<now, tasks, file, lagging, turn, up>>

\* the process ends, after stop or by a crash
Down ==
    /\ up
    /\ up' = FALSE
    /\ loop' = "off"
    /\ Drop
    /\ turn' = [c \in Chat |-> {}]
    /\ UNCHANGED <<now, tasks, file, lagging>>

\* load in a new process
Restart ==
    /\ ~up
    /\ up' = TRUE
    /\ tasks' = [id \in DOMAIN file |-> Loaded(file[id])]
    /\ revived' = revived \cup lagging
    /\ lagging' = {}
    /\ UNCHANGED <<now, file, turn, loop, queue, current>>
    /\ UNCHANGED <<used, started, repeated, dropped, cancelled>>

Tick ==
    /\ now < MaxTime
    /\ now' = now + 1
    /\ UNCHANGED <<tasks, file, lagging, turn, loop, queue, current, up, historyVars>>

-----------------------------------------------------------------------------
Init ==
    /\ now = 0
    /\ tasks = NoTasks
    /\ file = NoTasks
    /\ turn = [c \in Chat |-> {}]
    /\ loop = "off"
    /\ queue = {}
    /\ current = {}
    /\ up = TRUE
    /\ used = {}
    /\ started = {}
    /\ repeated = {}
    /\ dropped = {}
    /\ lagging = {}
    /\ revived = {}
    /\ cancelled = {}

LoopStep == Poll \/ StartNext \/ Finish

Next ==
    \/ \E c \in Chat :
          \/ BeginSchedule(c) \/ RefuseSchedule(c) \/ FinishSchedule(c)
          \/ \E id \in TaskId : Cancel(c, id)
    \/ Start
    \/ LoopStep
    \/ Stop
    \/ Down
    \/ Restart
    \/ Tick

Spec == Init /\ [][Next]_vars

\* the event loop resumes the polling coroutine, and an agent turn ends or times out
FairSpec == Spec /\ WF_vars(LoopStep)

-----------------------------------------------------------------------------
(* Properties.                                                              *)

\* Type correctness of the store, its file and the loop.
TypeOK ==
    /\ now \in 0..MaxTime
    /\ DOMAIN tasks \subseteq TaskId /\ \A id \in DOMAIN tasks : tasks[id] \in Task
    /\ DOMAIN file \subseteq TaskId /\ \A id \in DOMAIN file : file[id] \in Task
    /\ \A c \in Chat : turn[c] \subseteq 0..MaxTime /\ Cardinality(turn[c]) <= 1
    /\ loop \in {"off", "sleeping", "ticking"}
    /\ queue \cup current \subseteq Occurrence
    /\ Cardinality(current) <= 1
    /\ queue \cup current # {} => loop = "ticking"
    /\ up \in BOOLEAN
    /\ Ids(used) \subseteq TaskId

\* No occurrence of a task is executed twice, across polls, cancellations, crashes and
\* restarts, unless a failed save let a restart bring the task back.
AtMostOnce == Ids(repeated) \subseteq revived

\* Once cancel_task reported success no occurrence of the task is popped any more, in
\* this process or after a restart, unless the cancellation could not be saved.  (One
\* that tick has popped already may still start.)
CancelledStaysCancelled ==
    [][Ids(queue' \ queue) \cap cancelled \subseteq revived]_vars

Firings(id) == {o \in started \cup queue \cup dropped : o.id = id}

\* was u asked to fire at time d: first, or again up to the limits?
Asked(u, d) ==
    \E k \in 0 .. d :
        /\ d = u.due + k * u.period
        /\ k > 0 => /\ u.until = NoLimit \/ d <= u.until
                    /\ u.count = NoLimit \/ k < u.count

\* No firing is skipped or added, however late tasks are polled and whatever a restart
\* reads back: the due times at which a task fired (or was popped by a tick that was
\* stopped) are those before its next one that schedule_task was asked for.  A task that is
\* gone without having been cancelled was asked for no more.  A count of 0 is excepted: see
\* CountLimitsFirings.
FiringsAccountedFor ==
    \A u \in used : u.id \notin revived /\ u.count # 0 =>
        LET fired == {o.due : o \in Firings(u.id)}
        IN  /\ u.id \in DOMAIN tasks =>
                  /\ Asked(u, tasks[u.id].due)
                  /\ fired = {d \in 0 .. tasks[u.id].due - 1 : Asked(u, d)}
            /\ u.id \notin DOMAIN tasks \cup cancelled =>
                  fired = {d \in 0 .. now + u.period : Asked(u, d)}

\* The count argument bounds the firings of a task if it is at least 1.
PositiveCountLimitsFirings ==
    \A u \in used : u.count >= 1 /\ u.id \notin revived =>
        Cardinality({o \in started : o.id = u.id}) <= u.count

\* While the loop runs every due task gets its turn or is cancelled: no execution ends
\* the loop or is waited for forever.
DueTaskStarts ==
    \A id \in TaskId :
        id \in DOMAIN tasks /\ id \in DueIds /\ loop # "off"
            ~> id \in Ids(started) \cup cancelled \/ loop = "off"

\* Claim of schedule_task's docstring, "count: Maximum number of times the task should
\* fire", taken with a leniency of one firing for a count of 0.
CountLimitsFirings ==
    \A u \in used : u.count # NoLimit /\ u.id \notin revived =>
        LET fired == {o \in started : o.id = u.id}
        IN  Cardinality(fired) <= IF u.count = 0 THEN 1 ELSE u.count

=============================================================================
