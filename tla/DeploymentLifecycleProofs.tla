--------------------- MODULE DeploymentLifecycleProofs ---------------------
(***************************************************************************)
(* Types of the deployment rows, registry files, processes and operations,  *)
(* for every value of the constants; and what holds of rows and bots, for   *)
(* any number of deployments, runs, ports, edits and restarts, as long as   *)
(* no two actors work on one deployment at the same time and the cockpit    *)
(* never restarts without its container.  Both conditions are needed: two   *)
(* starts at once spawn two bots (DuplicateBots.cfg), and a start that the  *)
(* cockpit's own restart cuts short leaves a bot that no row names.         *)
(***************************************************************************)
EXTENDS DeploymentLifecycle, SequenceTheorems, FiniteSetTheorems, WellFoundedInduction, TLAPS

\* the session of the reconcile thread, with the rows it has queried
RecInv ==
    /\ DOMAIN rec = {"phase", "todo", "dead", "rows", "fresh"}
    /\ rec.phase \in {"off", "clean", "restart"} /\ rec.fresh \in BOOLEAN
    /\ rec.todo \subseteq Deployment /\ rec.dead \subseteq Deployment
    /\ rec.todo \cup rec.dead \subseteq DOMAIN rec.rows /\ DOMAIN rec.rows \subseteq Deployment
    /\ \A d \in DOMAIN rec.rows : rec.rows[d] \in Row

RowInv == DOMAIN row \subseteq Deployment /\ \A d \in DOMAIN row : row[d] \in Row

ProcInv == proc \in Seq(Process) /\ Len(proc) <= MaxRuns

TypeInv ==
    /\ RowInv /\ ProcInv /\ RecInv
    /\ registry \in [Deployment -> 0..Len(proc)]
    /\ op \in [Actor -> Operation]
    /\ \A a \in Actor : op[a].kind \in {"start", "stop"} => op[a].run \in DOMAIN proc
    /\ restarts \in 0..MaxRestarts
    /\ failed \subseteq Deployment

-----------------------------------------------------------------------------
\* the bounds are numbers
LEMMA Bounds == MaxRuns \in Nat /\ MaxPort \in Nat /\ MaxEdits \in Nat /\ MaxRestarts \in Nat
BY DeploymentAssumption DEF DeploymentAssumption

\* at the start there are no rows, no processes and no operations
LEMMA InitTypes == Init => TypeInv
<1> SUFFICES ASSUME Init PROVE TypeInv
  OBVIOUS
<1>1. DOMAIN row = {} /\ DOMAIN rec.rows = {}
  BY DEF Init
<1>2. proc \in Seq(Process) /\ Len(proc) = 0
  BY DEF Init
<1>3. RowInv /\ RecInv
  BY <1>1 DEF Init, RowInv, RecInv
<1> QED
  BY <1>2, <1>3, Bounds DEF Init, TypeInv, ProcInv, Operation, Idle, Actor, NoRun

\* run ids are the positions of well-formed processes
LEMMA ProcTypes ==
    ASSUME ProcInv
    PROVE  /\ DOMAIN proc = 1..Len(proc) /\ Len(proc) \in 0..MaxRuns
           /\ \A r \in DOMAIN proc : proc[r] \in Process
BY Bounds DEF ProcInv

\* a process changes its state only
LEMMA ExceptProcess ==
    ASSUME ProcInv, NEW r \in DOMAIN proc, NEW p \in Process, proc' = [proc EXCEPT ![r] = p]
    PROVE  ProcInv' /\ Len(proc') = Len(proc) /\ DOMAIN proc' = DOMAIN proc
<1>1. proc' \in Seq(Process) /\ Len(proc') = Len(proc)
  BY ExceptSeq DEF ProcInv
<1> QED
  BY <1>1 DEF ProcInv

\* a commit keeps the columns it has not changed; on the row it has read it writes the new one
LEMMA MergeType ==
    ASSUME NEW current \in Row, NEW old \in Row, NEW new \in Row
    PROVE  /\ Merge(current, old, new) \in Row
           /\ current = old => Merge(current, old, new) = new
           /\ new.run = old.run => Merge(current, old, new).run = current.run
BY DEF Merge, Row


\* the processes are the same ones, and none of them has come alive
Quieter ==
    /\ Len(proc') = Len(proc) /\ DOMAIN proc' = DOMAIN proc
    /\ \A r \in DOMAIN proc :
        /\ proc'[r].dep = proc[r].dep /\ proc'[r].version = proc[r].version
        /\ Alive(r)' => Alive(r)

\* a step that leaves the processes alone is a quiet one
LEMMA KeptProcesses == ASSUME proc' = proc PROVE Quieter
BY DEF Quieter, Alive

\* a process that goes from one state to another; only Register, Bind and stops let it live on
LEMMA StateChange ==
    ASSUME ProcInv, NEW r \in DOMAIN proc,
           NEW s \in {"booting", "registered", "up", "stopping", "zombie", "gone"},
           proc' = [proc EXCEPT ![r].st = s]
    PROVE  /\ ProcInv'
           /\ s \in {"zombie", "gone"} \/ Alive(r) => Quieter
           /\ s \in {"zombie", "gone"} => ~ Alive(r)'
<1>1. proc[r] \in Process /\ r \in DOMAIN proc
  BY ProcTypes
<1>2. [proc[r] EXCEPT !.st = s] \in Process
  BY <1>1 DEF Process
<1>3. ProcInv' /\ Len(proc') = Len(proc) /\ DOMAIN proc' = DOMAIN proc
  BY <1>2, ExceptProcess
<1>4. proc'[r].st = s /\ proc'[r].dep = proc[r].dep /\ proc'[r].version = proc[r].version
  BY <1>1 DEF Process
<1>5. \A q \in DOMAIN proc : q # r => proc'[q] = proc[q]
  OBVIOUS
<1> QED
  BY <1>3, <1>4, <1>5 DEF Quieter, Alive

\* a process that is killed is dead and nothing else changes
LEMMA KilledProcess ==
    ASSUME ProcInv, NEW r \in DOMAIN proc, proc' = Killed(r)
    PROVE  ProcInv' /\ Quieter /\ ~ Alive(r)'
<1>1. CASE ~ Alive(r)
  <2>1. proc' = proc
    BY <1>1 DEF Killed
  <2> QED
    BY <1>1, <2>1, KeptProcesses DEF ProcInv, Alive
<1>2. CASE Alive(r)
  <2>1. proc[r] \in Process
    BY ProcTypes
  <2>2. PICK s \in {"zombie", "gone"} : Ended(proc[r]) = [proc[r] EXCEPT !.st = s]
    BY DEF Ended
  <2>3. proc' = [proc EXCEPT ![r].st = s]
    BY <1>2, <2>2 DEF Killed
  <2> QED
    BY <2>3, StateChange
<1> QED
  BY <1>1, <1>2

\* Popen's poll of the ended children changes no live process
LEMMA ReapedProcesses ==
    ASSUME ProcInv, NEW a \in Actor
    PROVE  /\ Reaped(a) \in Seq(Process) /\ Len(Reaped(a)) = Len(proc)
           /\ \A r \in DOMAIN proc :
                /\ Reaped(a)[r].dep = proc[r].dep /\ Reaped(a)[r].version = proc[r].version
                /\ Reaped(a)[r].st \in {"booting", "registered", "up", "stopping"} <=> Alive(r)
<1>1. CASE a = "cli"
  BY <1>1 DEF Reaped, ProcInv, Alive
<1>2. CASE a # "cli"
  <2> DEFINE R(r) == IF proc[r].st = "zombie" THEN [proc[r] EXCEPT !.st = "gone"] ELSE proc[r]
  <2>1. Reaped(a) = [r \in 1..Len(proc) |-> R(r)]
    BY <1>2, ProcTypes DEF Reaped
  <2>2. \A r \in DOMAIN proc : R(r) \in Process
    BY ProcTypes DEF Process
  <2>3. Len(proc) \in Nat
    BY DEF ProcInv
  <2>4. \A r \in DOMAIN proc : R(r).dep = proc[r].dep /\ R(r).version = proc[r].version
    BY ProcTypes DEF Process
  <2>5. \A r \in DOMAIN proc :
            R(r).st \in {"booting", "registered", "up", "stopping"} <=> Alive(r)
    BY ProcTypes DEF Process, Alive
  <2>6. \A r \in DOMAIN proc : Reaped(a)[r] = R(r)
    BY <2>1, ProcTypes
  <2> HIDE DEF R
  <2>7. Reaped(a) \in Seq(Process) /\ Len(Reaped(a)) = Len(proc)
    <3>1. \A r \in 1..Len(proc) : R(r) \in Process
      BY <2>2, ProcTypes
    <3> QED
      BY <2>1, <2>3, <3>1, IsASeq
  <2> QED
    BY <2>4, <2>5, <2>6, <2>7
<1> QED
  BY <1>1, <1>2

\* RunRegistry.get returns the run of the file or none, and prunes dead ones only
LEMMA RegistryFile ==
    ASSUME ProcInv, registry \in [Deployment -> 0..Len(proc)], NEW d \in Deployment
    PROVE  /\ Get(d) \in 0..Len(proc)
           /\ AfterGet(d) \in [Deployment -> 0..Len(proc)]
           /\ Get(d) # NoRun => Get(d) = registry[d] /\ Get(d) \in DOMAIN proc
           /\ \A e \in Deployment : AfterGet(d)[e] # registry[e] =>
                e = d /\ registry[e] \in DOMAIN proc /\ ~ RecordIsLive(registry[e])
<1>1. registry[d] \in 0..Len(proc) /\ DOMAIN proc = 1..Len(proc) /\ Len(proc) \in Nat
  BY ProcTypes
<1>2. Get(d) \in {NoRun, registry[d]} /\ NoRun \in 0..Len(proc)
  BY <1>1 DEF Get, NoRun
<1>3. Get(d) # registry[d] => registry[d] \in DOMAIN proc /\ ~ RecordIsLive(registry[d])
  BY <1>1 DEF Get, NoRun
<1> QED
  BY <1>1, <1>2, <1>3 DEF AfterGet, NoRun

\* resolve_run returns the run of the row and of the registry file, or none
LEMMA ResolvedRun ==
    ASSUME ProcInv, registry \in [Deployment -> 0..Len(proc)],
           NEW d \in Deployment, NEW old
    PROVE  /\ ResolveRun(d, old) # NoRun =>
                /\ ResolveRun(d, old) \in DOMAIN proc
                /\ ResolveRun(d, old) = old.run /\ registry[d] = old.run
           /\ AfterResolve(d, old) \in [Deployment -> 0..Len(proc)]
           /\ \A e \in Deployment : AfterResolve(d, old)[e] # registry[e] =>
                registry[e] \in DOMAIN proc /\ ~ RecordIsLive(registry[e])
BY RegistryFile DEF ResolveRun, AfterResolve

\* a set of numbers has a smallest one
LEMMA Smallest == ASSUME NEW S \in SUBSET Nat, S # {} PROVE \E i \in S : \A j \in S : i <= j
<1>1. IsWellFoundedOn({p \in Nat \X Nat : p[1] < p[2]}, Nat)
  BY NatLessThanWellFounded DEF OpToRel
<1>2. PICK i \in S : \A j \in S : ~ (<<j, i>> \in {p \in Nat \X Nat : p[1] < p[2]})
  BY <1>1, WFMin
<1>3. ASSUME NEW j \in S, j < i PROVE FALSE
  <2>1. <<j, i>> \in Nat \X Nat /\ <<j, i>>[1] < <<j, i>>[2]
    BY <1>3
  <2> QED
    BY <1>2, <2>1
<1>4. \A j \in S : j \in Nat /\ i \in Nat
  OBVIOUS
<1> QED
  BY <1>3, <1>4

\* allocate_control_port returns a port of the range
LEMMA FreePort == ASSUME FreePorts # {} PROVE LowestFreePort \in 0..MaxPort
<1>1. FreePorts \in SUBSET Nat /\ FreePorts \subseteq 0..MaxPort
  BY Bounds DEF FreePorts
<1>2. \E p \in FreePorts : \A q \in FreePorts : p <= q
  BY <1>1, Smallest
<1>3. LowestFreePort \in FreePorts
  BY <1>2 DEF LowestFreePort
<1> QED
  BY <1>1, <1>3

-----------------------------------------------------------------------------
\* _register_run writes the id of a process that exists
LEMMA RegisterType == ASSUME TypeInv, NEW r \in DOMAIN proc, Register(r) PROVE TypeInv'
<1>1. proc[r] \in Process /\ r \in 1..Len(proc)
  BY ProcTypes DEF TypeInv
<1>2. [proc[r] EXCEPT !.st = "registered"] \in Process
  BY <1>1 DEF Process
<1>3. ProcInv' /\ Len(proc') = Len(proc) /\ DOMAIN proc' = DOMAIN proc
  BY <1>2, ExceptProcess DEF TypeInv, Register
<1>4. proc[r].dep \in Deployment
  BY <1>1 DEF Process
<1> QED
  BY <1>1, <1>3, <1>4 DEF TypeInv, RowInv, RecInv, Register

\* bot.run takes its port or ends
LEMMA BindType == ASSUME TypeInv, NEW r \in DOMAIN proc, Bind(r) PROVE TypeInv'
<1>1. PICK s \in {"up", "stopping"} : proc' = [proc EXCEPT ![r].st = s]
  BY DEF Bind
<1>2. ProcInv' /\ Quieter
  BY <1>1, StateChange DEF TypeInv, Bind, Alive
<1> QED
  BY <1>2 DEF TypeInv, RowInv, RecInv, Bind, Quieter

\* _shutdown_resources empties the registry file
LEMMA ExitType == ASSUME TypeInv, NEW r \in DOMAIN proc, Exit(r) PROVE TypeInv'
<1>1. ProcInv' /\ Quieter
  BY KilledProcess DEF TypeInv, Exit
<1>2. registry' \in [Deployment -> 0..Len(proc)]
  <2>1. NoRun \in 0..Len(proc) /\ registry \in [Deployment -> 0..Len(proc)]
    BY ProcTypes, Bounds DEF TypeInv, NoRun
  <2> QED
    BY <2>1 DEF Exit
<1> QED
  BY <1>1, <1>2 DEF TypeInv, RowInv, RecInv, Exit, Quieter

\* a process that dies stays in the list of processes
LEMMA BotDiesType == ASSUME TypeInv, NEW r \in DOMAIN proc, BotDies(r) PROVE TypeInv'
<1>1. ProcInv' /\ Quieter
  BY KilledProcess DEF TypeInv, BotDies
<1> QED
  BY <1>1 DEF TypeInv, RowInv, RecInv, BotDies, Quieter

\* the operations of the actors
LEMMA OperationTypes ==
    ASSUME TypeInv, NEW a \in Actor
    PROVE  /\ op[a] = Idle <=> op[a].kind = "idle"
           /\ op[a].kind \in {"idle", "start", "stop", "restart"}
           /\ op[a].kind # "idle" => op[a].dep \in Deployment
           /\ op[a].kind \in {"start", "stop"} => op[a].old \in Row /\ op[a].run \in 1..Len(proc)
           /\ op[a].kind = "start" => op[a].port \in 0..MaxPort
           /\ op[a].kind = "stop" => op[a].next \in AfterStop
BY ProcTypes DEF TypeInv, Operation, Idle

\* the end of an operation
LEMMA IdleType ==
    ASSUME TypeInv, NEW a \in Actor, op' = [op EXCEPT ![a] = Idle]
    PROVE  /\ op' \in [Actor -> Operation]
           /\ \A b \in Actor : op'[b].kind \in {"start", "stop"} =>
                op'[b].run = op[b].run /\ op[b].kind = op'[b].kind
BY DEF TypeInv, Operation, Idle

\* a refused start may prune the registry and ends the operation
LEMMA RefuseStartType ==
    ASSUME TypeInv, NEW a \in Actor, NEW d \in Deployment, NEW old, RefuseStart(a, d, old), RecInv'
    PROVE  TypeInv'
<1>1. AfterResolve(d, old) \in [Deployment -> 0..Len(proc)]
  BY ResolvedRun DEF TypeInv
<1> QED
  BY <1>1, IdleType DEF TypeInv, RowInv, ProcInv, RefuseStart

\* the new process is the last one, booting, with the settings of the row; the others live on
LEMMA SpawnedProcess ==
    ASSUME TypeInv, NEW a \in Actor, NEW d \in Deployment, NEW old \in Row, Spawn(a, d, old)
    PROVE  /\ ProcInv' /\ Len(proc') = Len(proc) + 1 /\ DOMAIN proc' = 1..Len(proc) + 1
           /\ proc'[Len(proc) + 1].dep = d
           /\ proc'[Len(proc) + 1].version = old.settings.version
           /\ \A r \in DOMAIN proc :
                /\ proc'[r].dep = proc[r].dep /\ proc'[r].version = proc[r].version
                /\ Alive(r)' <=> Alive(r)
<1> DEFINE new == [st |-> "booting", dep |-> d, port |-> LowestFreePort,
                   version |-> old.settings.version, child |-> a # "cli"]
<1>1. new \in Process
  BY FreePort DEF Spawn, Process, Row
<1>2. proc' = Append(Reaped(a), new) /\ Len(proc) < MaxRuns
  BY DEF Spawn
<1>3. new.dep = d /\ new.version = old.settings.version
  OBVIOUS
<1> HIDE DEF new
<1>4. Reaped(a) \in Seq(Process) /\ Len(Reaped(a)) = Len(proc) /\ Len(proc) \in Nat
  BY ReapedProcesses DEF TypeInv, ProcInv
<1>5. /\ proc' \in Seq(Process) /\ Len(proc') = Len(proc) + 1 /\ DOMAIN proc' = 1..Len(proc) + 1
      /\ proc'[Len(proc) + 1] = new
      /\ \A r \in 1..Len(proc) : proc'[r] = Reaped(a)[r]
  BY <1>1, <1>2, <1>4
<1>6. ProcInv'
  BY <1>2, <1>4, <1>5, Bounds DEF ProcInv
<1>7. \A r \in DOMAIN proc : proc'[r] = Reaped(a)[r]
  BY <1>5, ProcTypes DEF TypeInv
<1> QED
  BY <1>3, <1>5, <1>6, <1>7, ReapedProcesses DEF TypeInv, Alive

\* a start that spawns waits for a process that exists
LEMMA SpawnType ==
    ASSUME TypeInv, NEW a \in Actor, NEW d \in Deployment, NEW old \in Row,
           Spawn(a, d, old), RecInv'
    PROVE  TypeInv'
<1>1. ProcInv' /\ Len(proc') = Len(proc) + 1 /\ DOMAIN proc' = 1..Len(proc) + 1
  BY SpawnedProcess
<1>2. DOMAIN proc = 1..Len(proc) /\ Len(proc) \in Nat
  BY ProcTypes DEF TypeInv
<1>3. registry' \in [Deployment -> 0..Len(proc')]
  <2>1. registry' \in [Deployment -> 0..Len(proc)]
    BY ResolvedRun DEF TypeInv, Spawn
  <2> QED
    BY <2>1, <1>1, <1>2
<1>4. Len(proc) + 1 \in 1..MaxRuns
  BY <1>1, <1>2 DEF ProcInv
<1>5. op' \in [Actor -> Operation]
  <2>1. [kind |-> "start", dep |-> d, old |-> old, run |-> Len(proc) + 1, port |-> LowestFreePort]
            \in Operation
    BY <1>4, FreePort DEF Operation, Spawn
  <2> QED
    BY <2>1 DEF TypeInv, Spawn
<1>6. \A b \in Actor : op'[b].kind \in {"start", "stop"} => op'[b].run \in DOMAIN proc'
  BY <1>1, <1>2 DEF TypeInv, Spawn
<1> QED
  BY <1>1, <1>3, <1>5, <1>6 DEF TypeInv, RowInv, Spawn

\* start, up to its first wait
LEMMA BeginStartType ==
    ASSUME TypeInv, NEW a \in Actor, NEW d \in Deployment, BeginStart(a, d)
    PROVE  TypeInv'
<1>1. row[d] \in Row /\ RecInv'
  BY DEF BeginStart, TypeInv, RowInv, RecInv
<1> QED
  BY <1>1, RefuseStartType, SpawnType DEF BeginStart

\* the start of a restart
LEMMA StartAgainType ==
    ASSUME TypeInv, NEW a \in Actor, StartAgain(a)
    PROVE  TypeInv'
<1>1. op[a].dep \in Deployment
  BY OperationTypes DEF StartAgain
<1>2. RecInv'
  BY DEF TypeInv, RecInv, StartAgain
<1>3. CASE op[a].dep \in DOMAIN row /\ RefuseStart(a, op[a].dep, row[op[a].dep])
  BY <1>1, <1>2, <1>3, RefuseStartType
<1>4. CASE op[a].dep \in DOMAIN row /\ Spawn(a, op[a].dep, row[op[a].dep])
  <2>1. row[op[a].dep] \in Row
    BY <1>4 DEF TypeInv, RowInv
  <2> QED
    BY <1>1, <1>2, <1>4, <2>1, SpawnType
<1>5. CASE op' = [op EXCEPT ![a] = Idle] /\ UNCHANGED <<row, registry, proc, restarts, failed>>
  BY <1>2, <1>5, IdleType DEF TypeInv, RowInv, ProcInv
<1> QED
  BY <1>3, <1>4, <1>5 DEF StartAgain

\* a start that fails
LEMMA AbortStartType == ASSUME TypeInv, NEW a \in Actor, AbortStart(a) PROVE TypeInv'
<1>1. op[a].dep \in Deployment /\ op[a].run \in DOMAIN proc
  BY OperationTypes DEF AbortStart, TypeInv
<1>2. ProcInv' /\ Quieter
  BY <1>1, StateChange DEF TypeInv, AbortStart
<1>3. registry' \in [Deployment -> 0..Len(proc)]
  BY <1>1, RegistryFile DEF TypeInv, AbortStart
<1> QED
  BY <1>1, <1>2, <1>3, IdleType DEF TypeInv, RowInv, RecInv, AbortStart, Quieter

\* what a commit writes are rows again
LEMMA CommitType ==
    ASSUME RowInv, NEW d \in Deployment, NEW old \in Row, NEW new \in Row, Commit(d, old, new)
    PROVE  /\ RowInv' /\ DOMAIN row' = DOMAIN row
           /\ \A e \in DOMAIN row : e # d => row'[e] = row[e]
           /\ d \in DOMAIN row /\ row[d] = old => row'[d] = new
<1>1. CASE d \in DOMAIN row
  <2>1. Merge(row[d], old, new) \in Row /\ (row[d] = old => Merge(row[d], old, new) = new)
    BY <1>1, MergeType DEF RowInv
  <2>2. row' = [row EXCEPT ![d] = Merge(row[d], old, new)]
    BY <1>1 DEF Commit
  <2> QED
    BY <1>1, <2>1, <2>2 DEF RowInv
<1>2. CASE d \notin DOMAIN row
  BY <1>2 DEF Commit, RowInv
<1> QED
  BY <1>1, <1>2

\* the columns that a start and a stop write
LEMMA StartedRow ==
    ASSUME NEW old \in Row, NEW run \in 1..MaxRuns, NEW port \in 0..MaxPort
    PROVE  /\ Started(old, run, port) \in Row
           /\ Started(old, run, port).run = run
           /\ Started(old, run, port).status = "running"
           /\ Started(old, run, port).desired = "running"
           /\ Started(old, run, port).settings.port = port
           /\ Started(old, run, port).settings.version = old.settings.version
<1>1. run \in 0..MaxRuns /\ port \in NoPort..MaxPort
  BY Bounds DEF NoPort
<1> QED
  BY <1>1 DEF Row, Started

\* the columns that a stop and the cleaning of a crashed bot write
LEMMA StoppedRow ==
    ASSUME NEW old \in Row
    PROVE  /\ Stopped(old) \in Row /\ Stopped(old).status = "stopped"
           /\ Crashed(old) \in Row /\ Crashed(old).status = "stopped"
<1>1. NoRun \in 0..MaxRuns /\ NoPort \in NoPort..MaxPort
  BY Bounds DEF NoRun, NoPort
<1>2. Stopped(old) \in Row /\ Stopped(old).status = "stopped"
  BY <1>1 DEF Row, Stopped
<1>3. Crashed(old) \in Row /\ Crashed(old).status = "stopped"
  BY <1>1 DEF Row, Crashed
<1> QED
  BY <1>2, <1>3

\* a start that commits
LEMMA FinishStartType == ASSUME TypeInv, NEW a \in Actor, FinishStart(a) PROVE TypeInv'
<1>1. op[a].dep \in Deployment /\ op[a].old \in Row /\ op[a].run \in 1..MaxRuns
      /\ op[a].port \in 0..MaxPort
  BY OperationTypes, ProcTypes, Bounds DEF FinishStart, TypeInv, Operation
<1>2. RowInv'
  BY <1>1, StartedRow, CommitType DEF FinishStart, TypeInv
<1>3. RecInv'
  BY DEF TypeInv, RecInv, FinishStart
<1> QED
  BY <1>2, <1>3, IdleType DEF TypeInv, ProcInv, FinishStart

\* what an operation goes on with after its stop
LEMMA AfterType ==
    ASSUME TypeInv, NEW a \in Actor, NEW d \in Deployment, NEW next,
           op' = [op EXCEPT ![a] = After(next, d)]
    PROVE  /\ op' \in [Actor -> Operation]
           /\ \A b \in Actor : op'[b].kind \in {"start", "stop"} =>
                op'[b].run = op[b].run /\ op[b].kind = op'[b].kind
<1>1. After(next, d) \in Operation /\ After(next, d).kind \in {"idle", "restart"}
  BY DEF After, Operation, Idle
<1> QED
  BY <1>1 DEF TypeInv

\* a row that is deleted
LEMMA RemovedType ==
    ASSUME RowInv, NEW d, row' = Removed(d)
    PROVE  RowInv' /\ DOMAIN row' = DOMAIN row \ {d} /\ \A e \in DOMAIN row \ {d} : row'[e] = row[e]
BY DEF RowInv, Removed

\* stop, up to its wait
LEMMA BeginStopType ==
    ASSUME TypeInv, NEW a \in Actor, NEW d \in Deployment, NEW next \in AfterStop,
           BeginStop(a, d, next)
    PROVE  TypeInv'
<1>1. row[d] \in Row /\ RecInv' /\ Stopped(row[d]) \in Row
  BY StoppedRow DEF BeginStop, TypeInv, RowInv, RecInv
<1>2. CASE ResolveRun(d, row[d]) = NoRun
  <2>1. op' = [op EXCEPT ![a] = After(next, d)] /\ proc' = proc
    BY <1>2 DEF BeginStop
  <2>2. RowInv'
    BY <1>1, <1>2, RemovedType, CommitType DEF BeginStop, TypeInv
  <2>3. registry' \in [Deployment -> 0..Len(proc)]
    <3>1. NoRun \in 0..Len(proc)
      BY ProcTypes, Bounds DEF TypeInv, NoRun
    <3>2. registry' = [registry EXCEPT ![d] = NoRun] \/ registry' = AfterResolve(d, row[d])
      BY <1>2 DEF BeginStop
    <3>3. AfterResolve(d, row[d]) \in [Deployment -> 0..Len(proc)]
      BY ResolvedRun DEF TypeInv
    <3> QED
      BY <3>1, <3>2, <3>3 DEF TypeInv
  <2> QED
    BY <1>1, <2>1, <2>2, <2>3, AfterType DEF TypeInv, BeginStop, ProcInv
<1>3. CASE ResolveRun(d, row[d]) # NoRun
  <2> DEFINE r == ResolveRun(d, row[d])
  <2>1. r \in DOMAIN proc
    BY <1>3, ResolvedRun DEF TypeInv
  <2>2. ProcInv' /\ Quieter
    <3>1. CASE Alive(r)
      BY <1>3, <2>1, <3>1, StateChange DEF TypeInv, BeginStop
    <3>2. CASE ~ Alive(r)
      BY <1>3, <3>2, KeptProcesses DEF TypeInv, BeginStop, ProcInv
    <3> QED
      BY <3>1, <3>2
  <2>3. r \in 1..MaxRuns /\ r \in 1..Len(proc)
    BY <2>1, ProcTypes, Bounds DEF TypeInv
  <2> HIDE DEF r
  <2>4. [kind |-> "stop", dep |-> d, old |-> row[d], run |-> r, next |-> next] \in Operation
    BY <1>1, <2>3 DEF Operation
  <2>5. /\ op' = [op EXCEPT ![a] = [kind |-> "stop", dep |-> d, old |-> row[d],
                                    run |-> r, next |-> next]]
        /\ UNCHANGED <<row, registry, restarts, failed>>
    BY <1>3 DEF BeginStop, r
  <2> QED
    BY <1>1, <2>1, <2>2, <2>4, <2>5 DEF TypeInv, RowInv, Quieter
<1> QED
  BY <1>2, <1>3

\* stop, after its wait
LEMMA FinishStopType == ASSUME TypeInv, NEW a \in Actor, FinishStop(a) PROVE TypeInv'
<1>1. op[a].dep \in Deployment /\ op[a].old \in Row /\ op[a].run \in DOMAIN proc
  BY OperationTypes DEF FinishStop, TypeInv
<1>2. ProcInv' /\ Quieter
  BY <1>1, KilledProcess DEF TypeInv, FinishStop
<1>3. RowInv' /\ RecInv'
  <2>1. RowInv'
    BY <1>1, RemovedType, StoppedRow, CommitType DEF FinishStop, TypeInv
  <2> QED
    BY <2>1 DEF TypeInv, RecInv, FinishStop
<1>4. registry' \in [Deployment -> 0..Len(proc)]
  <2>1. NoRun \in 0..Len(proc) /\ registry \in [Deployment -> 0..Len(proc)]
    BY ProcTypes, Bounds DEF TypeInv, NoRun
  <2> QED
    BY <2>1 DEF FinishStop
<1> QED
  BY <1>2, <1>3, <1>4, AfterType, <1>1 DEF TypeInv, FinishStop, Quieter

\* a new row
LEMMA CreateType ==
    ASSUME TypeInv, NEW a \in Actor, NEW d \in Deployment, Create(a, d)
    PROVE  TypeInv'
<1>1. NewRow \in Row
  BY Bounds DEF NewRow, Row, NoRun, NoPort
<1>2. RowInv' /\ RecInv'
  BY <1>1 DEF TypeInv, RowInv, RecInv, Create
<1> QED
  BY <1>2 DEF TypeInv, ProcInv, Create

\* an edit counts the version up and flags a bot that runs
LEMMA EditType ==
    ASSUME TypeInv, NEW a \in Actor, NEW d \in Deployment, Edit(a, d)
    PROVE  TypeInv' /\ DOMAIN row' = DOMAIN row
           /\ row'[d] = [row[d] EXCEPT !.settings.version = @ + 1,
                                       !.needsRestart = @ \/ row[d].status = "running"]
           /\ \A e \in DOMAIN row : e # d => row'[e] = row[e]
<1>1. row[d] \in Row /\ row[d].settings.version + 1 \in 0..MaxEdits
  BY Bounds DEF Edit, TypeInv, RowInv, Row
<1>2. [row[d] EXCEPT !.settings.version = @ + 1,
                     !.needsRestart = @ \/ row[d].status = "running"] \in Row
  BY <1>1 DEF Row
<1>3. row' = [row EXCEPT ![d] = [row[d] EXCEPT !.settings.version = @ + 1,
                                      !.needsRestart = @ \/ row[d].status = "running"]]
  BY DEF Edit
<1>4. RowInv' /\ RecInv' /\ DOMAIN row' = DOMAIN row
      /\ \A e \in DOMAIN row : e # d => row'[e] = row[e]
  BY <1>1, <1>2, <1>3 DEF TypeInv, RowInv, RecInv, Edit
<1> QED
  BY <1>3, <1>4 DEF TypeInv, ProcInv, Edit

\* the first loop of reconcile_deployments
LEMMA ReconcileProbeType ==
    ASSUME TypeInv, NEW d \in Deployment, ReconcileProbe(d)
    PROVE  TypeInv'
<1>1. RecInv'
  BY DEF TypeInv, RecInv, ReconcileProbe
<1>2. registry' \in [Deployment -> 0..Len(proc)]
  BY ResolvedRun DEF TypeInv, ReconcileProbe
<1> QED
  BY <1>1, <1>2 DEF TypeInv, RowInv, ProcInv, ReconcileProbe

\* its commit and its second query
LEMMA ReconcileCleanType == ASSUME TypeInv, ReconcileClean PROVE TypeInv'
<1>1. CASE rec.dead \subseteq DOMAIN row
  <2>1. \A d \in rec.dead : Merge(row[d], rec.rows[d], Crashed(rec.rows[d])) \in Row
    <3> SUFFICES ASSUME NEW d \in rec.dead
                 PROVE  Merge(row[d], rec.rows[d], Crashed(rec.rows[d])) \in Row
      OBVIOUS
    <3>1. row[d] \in Row /\ rec.rows[d] \in Row
      BY <1>1 DEF TypeInv, RowInv, RecInv
    <3> QED
      BY <3>1, StoppedRow, MergeType
  <2>2. RowInv' /\ DOMAIN row' = DOMAIN row
    BY <1>1, <2>1 DEF TypeInv, RowInv, ReconcileClean
  <2>3. rec' = [phase |-> "restart", dead |-> {}, rows |-> row', fresh |-> FALSE,
                todo |-> {d \in DOMAIN row : row'[d].desired = "running"}]
    BY <1>1 DEF ReconcileClean
  <2>4. RecInv'
    BY <2>2, <2>3 DEF RecInv, RowInv
  <2> QED
    BY <2>2, <2>4 DEF TypeInv, ProcInv, ReconcileClean
<1>2. CASE ~ rec.dead \subseteq DOMAIN row
  <2>1. RowInv' /\ RecInv'
    BY <1>2 DEF TypeInv, RowInv, RecInv, ReconcileClean
  <2> QED
    BY <2>1 DEF TypeInv, ProcInv, ReconcileClean
<1> QED
  BY <1>1, <1>2

\* its second loop
LEMMA ReconcileNextType ==
    ASSUME TypeInv, NEW d \in Deployment, ReconcileNext(d)
    PROVE  TypeInv'
<1>1. RecInv' /\ d \in DOMAIN rec.rows
  BY DEF TypeInv, RecInv, ReconcileNext
<1>2. CASE UNCHANGED <<row, registry, proc, op, restarts, failed>>
  BY <1>1, <1>2 DEF TypeInv, RowInv, ProcInv
<1>3. CASE /\ ~ (rec.fresh /\ d \notin DOMAIN row)
           /\ RefuseStart("reconcile", d, Seen(d)) \/ Spawn("reconcile", d, Seen(d))
  <2>1. Seen(d) \in Row /\ "reconcile" \in Actor
    BY <1>1, <1>3 DEF Seen, TypeInv, RowInv, RecInv, Actor
  <2> QED
    BY <1>1, <1>3, <2>1, RefuseStartType, SpawnType
<1> QED
  BY <1>2, <1>3 DEF ReconcileNext

\* its end
LEMMA ReconcileEndType == ASSUME TypeInv, ReconcileEnd PROVE TypeInv'
<1>1. DOMAIN rec'.rows = {}
  BY DEF ReconcileEnd
<1>2. RecInv'
  BY <1>1 DEF RecInv, ReconcileEnd
<1> QED
  BY <1>2 DEF TypeInv, RowInv, ProcInv, ReconcileEnd

\* a restart brings no process to life
LEMMA RestartType == ASSUME TypeInv, Restart PROVE TypeInv' /\ Quieter
<1>1. DOMAIN proc = 1..Len(proc) /\ Len(proc) \in Nat /\ \A r \in DOMAIN proc : proc[r] \in Process
  BY ProcTypes, Bounds DEF TypeInv
<1>2. ASSUME NEW p, DOMAIN p = DOMAIN proc, \A r \in DOMAIN proc : p[r] \in Process,
             p = [r \in DOMAIN proc |-> p[r]]
      PROVE  p \in Seq(Process) /\ Len(p) = Len(proc)
  <2>1. \A r \in 1..Len(proc) : p[r] \in Process
    BY <1>1, <1>2
  <2>2. p = [r \in 1..Len(proc) |-> p[r]]
    BY <1>1, <1>2
  <2>3. /\ [r \in 1..Len(proc) |-> p[r]] \in Seq(Process)
        /\ Len([r \in 1..Len(proc) |-> p[r]]) = Len(proc)
    BY <1>1, <2>1, IsASeq
  <2> QED
    BY <2>2, <2>3
<1>3. /\ DOMAIN proc' = DOMAIN proc /\ proc' = [r \in DOMAIN proc |-> proc'[r]]
      /\ \A r \in DOMAIN proc :
            /\ proc'[r] \in Process
            /\ proc'[r].dep = proc[r].dep /\ proc'[r].version = proc[r].version
            /\ Alive(r)' => Alive(r)
  <2>1. CASE proc' = [r \in DOMAIN proc |-> [proc[r] EXCEPT !.st = "gone"]]
    BY <1>1, <2>1 DEF Process, Alive
  <2>2. CASE proc' = [r \in DOMAIN proc |->
                         [proc[r] EXCEPT !.child = FALSE,
                                         !.st = IF @ = "zombie" THEN "gone" ELSE @]]
    BY <1>1, <2>2 DEF Process, Alive
  <2> QED
    BY <2>1, <2>2 DEF Restart
<1>4. ProcInv' /\ Quieter
  BY <1>2, <1>3 DEF ProcInv, Quieter, TypeInv
<1>5. op' \in [Actor -> Operation]
      /\ \A b \in Actor : op'[b].kind \in {"start", "stop"} => op'[b] = op[b]
  <2>1. CASE op' = [a \in Actor |-> Idle]
    BY <2>1 DEF Operation, Idle
  <2>2. CASE op' = [op EXCEPT !["web"] = Idle, !["reconcile"] = Idle]
    BY <2>2 DEF TypeInv, Operation, Idle, Actor
  <2> QED
    BY <2>1, <2>2 DEF Restart
<1>6. restarts' \in 0..MaxRestarts /\ failed' = {} /\ registry' = registry /\ RowInv' /\ RecInv'
  <2>1. restarts' \in 0..MaxRestarts
    <3>1. restarts \in 0..MaxRestarts /\ restarts < MaxRestarts /\ restarts' = restarts + 1
      BY DEF Restart, TypeInv
    <3> QED
      BY <3>1, Bounds
  <2>2. DOMAIN rec' = {"phase", "todo", "dead", "rows", "fresh"} /\ rec'.rows = row
        /\ rec'.dead = {} /\ rec'.phase = "clean" /\ rec'.fresh = FALSE
        /\ rec'.todo \subseteq DOMAIN row
    BY DEF Restart
  <2>3. RecInv'
    BY <2>2 DEF RecInv, TypeInv, RowInv
  <2> QED
    BY <2>1, <2>3 DEF Restart, TypeInv, RowInv
<1> QED
  BY <1>4, <1>5, <1>6 DEF TypeInv, Quieter

\* a step of somebody else
LEMMA UnchangedType == ASSUME TypeInv, UNCHANGED vars PROVE TypeInv'
BY DEF TypeInv, RowInv, ProcInv, RecInv, vars

\* every step keeps the types
LEMMA TypeStep == TypeInv /\ [Next]_vars => TypeInv'
<1> SUFFICES ASSUME TypeInv, [Next]_vars PROVE TypeInv'
  OBVIOUS
<1>1. CASE \E r \in DOMAIN proc : BotStep(r) \/ BotDies(r)
  BY <1>1, RegisterType, BindType, ExitType, BotDiesType DEF BotStep
<1>2. CASE \E d \in Deployment : WebRequest(d) \/ Command(d)
  <2>1. PICK d \in Deployment, a \in Actor :
            BeginStart(a, d) \/ (\E next \in AfterStop : BeginStop(a, d, next)) \/ Change(a, d)
    BY <1>2 DEF WebRequest, Command, Actor
  <2> QED
    BY <2>1, BeginStartType, BeginStopType, CreateType, EditType DEF Change
<1>3. CASE \E a \in Actor : Wait(a)
  BY <1>3, FinishStartType, AbortStartType, FinishStopType, StartAgainType DEF Wait
<1>4. CASE ReconcileStep
  BY <1>4, ReconcileProbeType, ReconcileCleanType, ReconcileNextType, ReconcileEndType
  DEF ReconcileStep
<1>5. CASE Restart
  BY <1>5, RestartType
<1>6. CASE UNCHANGED vars
  BY <1>6, UnchangedType
<1> QED
  BY <1>1, <1>2, <1>3, <1>4, <1>5, <1>6 DEF Next

\* the invariant of the proofs is the one that TLC checks, part by part
LEMMA TypeInvImpliesTypeOK == TypeInv => TypeOK
<1> SUFFICES ASSUME TypeInv PROVE TypeOK
  OBVIOUS
<1>1. [f \in DOMAIN rec \ {"rows"} |-> rec[f]] \in Reconciliation
  <2>1. DOMAIN rec \ {"rows"} = {"phase", "todo", "dead", "fresh"}
    BY DEF TypeInv, RecInv
  <2>2. [f \in {"phase", "todo", "dead", "fresh"} |-> rec[f]]
            = [phase |-> rec.phase, todo |-> rec.todo, dead |-> rec.dead, fresh |-> rec.fresh]
    OBVIOUS
  <2>3. [phase |-> rec.phase, todo |-> rec.todo, dead |-> rec.dead, fresh |-> rec.fresh]
            \in Reconciliation
    BY DEF TypeInv, RecInv, Reconciliation
  <2> QED
    BY <2>1, <2>2, <2>3
<1> QED
  BY <1>1, ProcTypes DEF TypeInv, TypeOK, RowInv, ProcInv, RecInv

\* Rows, registry files, processes and operations are well-formed in every reachable state,
\* for any deployments, bounds and number of actors on one deployment.
THEOREM TypesAreCorrect == Spec => []TypeOK
<1>1. Spec => []TypeInv
  BY InitTypes, TypeStep, PTL DEF Spec
<1> QED
  BY <1>1, TypeInvImpliesTypeOK, PTL

-----------------------------------------------------------------------------
(* The inductive invariant of the safety properties.                        *)

\* is actor a in the middle of an operation, and is that a start?
Busy(a) == op[a].kind # "idle"
Starting(a) == op[a].kind = "start"

\* actors work on different existing deployments, whose rows are as they have read them
ActorsInv ==
    /\ \A a, b \in Actor : Busy(a) /\ Busy(b) /\ op[a].dep = op[b].dep => a = b
    /\ \A a \in Actor : Busy(a) => op[a].dep \in DOMAIN row \ (rec.todo \cup rec.dead)
    /\ \A a \in Actor : op[a].kind \in {"start", "stop"} => row[op[a].dep] = op[a].old
    /\ op["reconcile"].kind \in {"idle", "start"}
    /\ rec.phase # "restart" => op["reconcile"].kind = "idle"
    /\ rec.phase = "clean" => ~ rec.fresh

\* the rows that the reconcile thread is to work on are as it has queried them, and while
\* it cleans up after the last cockpit, none of their bots is alive
ReconcileInv ==
    /\ rec.todo \cap rec.dead = {}
    /\ \A d \in rec.todo \cup rec.dead :
        /\ d \in DOMAIN row
        /\ ~ rec.fresh => rec.rows[d] = row[d]
        /\ rec.phase # "restart" => AliveRuns(d) = {}

\* r is the run of a start in progress; r is the run of its row and its registry file
Spawned(r) == \E a \in Actor : Starting(a) /\ op[a].run = r
Settled(d, r) ==
    d \in DOMAIN row /\ row[d].run = r /\ registry[d] = r /\ row[d].status = "running"

\* a start in progress knows its process, and that is the only live one of its deployment
StartsInv ==
    \A a \in Actor : Starting(a) =>
        /\ proc[op[a].run].dep = op[a].dep
        /\ proc[op[a].run].version = op[a].old.settings.version
        /\ \A r \in AliveRuns(op[a].dep) : r = op[a].run

BotsInv ==
    /\ \A d \in Deployment : \A r \in AliveRuns(d) : Spawned(r) \/ Settled(d, r)
    /\ StartsInv
    /\ \A a \in Actor : op[a].kind = "stop" => op[a].old.run = op[a].run

\* RunningRowsAreComplete and StaleBotsAreFlagged, for one row
Complete(d) ==
    row[d].status = "running" =>
        row[d].run # NoRun /\ row[d].desired = "running" /\ row[d].settings.port # NoPort
Flagged(d) ==
    \A r \in AliveRuns(d) :
        row[d].run = r /\ proc[r].version # row[d].settings.version => row[d].needsRestart

RowsInv == \A d \in DOMAIN row : Complete(d) /\ Flagged(d)

SafeInv == TypeInv /\ ActorsInv /\ ReconcileInv /\ BotsInv /\ RowsInv

\* nobody but a works on d
Own(a, d) == \A b \in Actor \ {a} : Busy(b) => op[b].dep # d

\* the reconcile thread has no new rows to work on, and d is not one of those it has
RecKept(d) ==
    /\ rec'.phase = rec.phase /\ rec'.rows = rec.rows
    /\ rec'.todo \subseteq rec.todo /\ rec'.dead \subseteq rec.dead
    /\ ~ rec'.fresh => ~ rec.fresh
    /\ rec.phase = "clean" => ~ rec'.fresh
    /\ d \notin rec'.todo \cup rec'.dead

\* the rows of the other deployments are the same
OthersKept(d) ==
    /\ DOMAIN row' \subseteq DOMAIN row \cup {d} /\ DOMAIN row \subseteq DOMAIN row' \cup {d}
    /\ \A e \in DOMAIN row \ {d} : row'[e] = row[e]

\* a registry file that names a live process names it still, if it is not that of d
RegistryKept(d) ==
    \A e \in Deployment \ {d} :
        registry[e] \in DOMAIN proc /\ Alive(registry[e]) => registry'[e] = registry[e]

-----------------------------------------------------------------------------
\* in a quiet step no deployment gets a live bot
LEMMA QuietRuns == Quieter => \A d : AliveRuns(d)' \subseteq AliveRuns(d)
BY DEF Quieter, AliveRuns

\* no deployment has two live bots
LEMMA OneBot ==
    ASSUME SafeInv, NEW d \in Deployment, NEW r \in AliveRuns(d), NEW q \in AliveRuns(d)
    PROVE  r = q
<1>1. Settled(d, r) /\ Settled(d, q) => r = q
  BY DEF Settled
<1>2. ASSUME NEW s \in AliveRuns(d), Spawned(s) PROVE \A t \in AliveRuns(d) : t = s
  <2>1. PICK a \in Actor : Starting(a) /\ op[a].run = s
    BY <1>2 DEF Spawned
  <2>2. op[a].dep = d
    BY <2>1 DEF SafeInv, BotsInv, StartsInv, AliveRuns
  <2> QED
    BY <2>1, <2>2 DEF SafeInv, BotsInv, StartsInv
<1> QED
  BY <1>1, <1>2 DEF SafeInv, BotsInv

\* the live bot of a deployment that nobody is starting is the one of its row
LEMMA SettledBot ==
    ASSUME SafeInv, NEW d \in Deployment, NEW r \in AliveRuns(d),
           \A a \in Actor : Starting(a) => op[a].dep # d
    PROVE  Settled(d, r)
BY DEF SafeInv, BotsInv, StartsInv, Spawned, AliveRuns

\* and stop and start find it
LEMMA FoundBot ==
    ASSUME SafeInv, NEW d \in Deployment, \A a \in Actor : Starting(a) => op[a].dep # d,
           ResolveRun(d, row[d]) = NoRun
    PROVE  AliveRuns(d) = {}
<1> SUFFICES ASSUME NEW r \in AliveRuns(d) PROVE FALSE
  OBVIOUS
<1>1. row[d].run = r /\ registry[d] = r
  BY SettledBot DEF Settled
<1>2. r \in DOMAIN proc /\ r # NoRun /\ RecordIsLive(r)
  BY ProcTypes DEF AliveRuns, RecordIsLive, SafeInv, TypeInv, NoRun
<1>3. Get(d) = r
  BY <1>1, <1>2 DEF Get
<1> QED
  BY <1>1, <1>2, <1>3 DEF ResolveRun

\* the reconcile thread keeps the rows it has queried, if nobody has changed them
LEMMA ReconcileKept ==
    ASSUME ReconcileInv, NEW d, RecKept(d),
           \A e \in rec'.todo \cup rec'.dead :
               e \in DOMAIN row' /\ row'[e] = row[e] /\ AliveRuns(e)' \subseteq AliveRuns(e)
    PROVE  ReconcileInv'
<1>1. rec'.todo \cap rec'.dead = {}
  BY DEF ReconcileInv, RecKept
<1>2. ASSUME NEW e \in rec'.todo \cup rec'.dead
      PROVE  /\ ~ rec'.fresh => rec'.rows[e] = row'[e]
             /\ rec'.phase # "restart" => AliveRuns(e)' = {}
  <2>1. e \in rec.todo \cup rec.dead
    BY DEF RecKept
  <2> QED
    BY <2>1 DEF ReconcileInv, RecKept
<1> QED
  BY <1>1, <1>2 DEF ReconcileInv

\* an actor's operation becomes o
LEMMA ActorsKept ==
    ASSUME ActorsInv, op \in [Actor -> Operation], NEW a \in Actor, NEW o, NEW d,
           op' = [op EXCEPT ![a] = o], RecKept(d), Own(a, d), OthersKept(d),
           o.kind # "idle" => o.dep = d /\ d \in DOMAIN row',
           o.kind \in {"start", "stop"} => row'[d] = o.old,
           a = "reconcile" => o.kind \in {"idle", "start"},
           a = "reconcile" /\ o.kind # "idle" => rec.phase = "restart"
    PROVE  ActorsInv'
<1>1. op'[a] = o /\ \A b \in Actor \ {a} : op'[b] = op[b]
  OBVIOUS
<1>2. \A b \in Actor \ {a} : Busy(b) => op[b].dep # d
  BY DEF Own
<1>3. \A b, c \in Actor : Busy(b)' /\ Busy(c)' /\ op'[b].dep = op'[c].dep => b = c
  BY <1>1, <1>2 DEF ActorsInv, Busy
<1>4. \A b \in Actor : Busy(b)' => op'[b].dep \in DOMAIN row' \ (rec'.todo \cup rec'.dead)
  <2>1. ASSUME NEW b \in Actor \ {a}, Busy(b)'
        PROVE  op'[b].dep \in DOMAIN row' \ (rec'.todo \cup rec'.dead)
    <3>1. op[b].dep \in DOMAIN row \ (rec.todo \cup rec.dead) /\ op[b].dep # d
      BY <1>1, <1>2, <2>1 DEF ActorsInv, Busy
    <3> QED
      BY <1>1, <3>1 DEF RecKept, OthersKept
  <2> QED
    BY <1>1, <2>1 DEF RecKept, Busy
<1>5. \A b \in Actor : op'[b].kind \in {"start", "stop"} => row'[op'[b].dep] = op'[b].old
  <2>1. ASSUME NEW b \in Actor \ {a}, op'[b].kind \in {"start", "stop"}
        PROVE  row'[op'[b].dep] = op'[b].old
    <3>1. op[b].dep \in DOMAIN row /\ op[b].dep # d /\ row[op[b].dep] = op[b].old
      BY <1>1, <1>2, <2>1 DEF ActorsInv, Busy
    <3> QED
      BY <1>1, <3>1 DEF OthersKept
  <2> QED
    BY <1>1, <2>1
<1>6. /\ op'["reconcile"].kind \in {"idle", "start"}
      /\ rec'.phase # "restart" => op'["reconcile"].kind = "idle"
      /\ rec'.phase = "clean" => ~ rec'.fresh
  BY <1>1 DEF ActorsInv, RecKept, Actor
<1> QED
  BY <1>3, <1>4, <1>5, <1>6 DEF ActorsInv

\* no process comes alive: every live one keeps the start or the row it belongs to
LEMMA BotsKept ==
    ASSUME BotsInv, Quieter, \A b \in Actor : Starting(b) => op[b].run \in DOMAIN proc,
           \A d \in Deployment : \A r \in AliveRuns(d)' : Settled(d, r) => Settled(d, r)',
           \A b \in Actor : Starting(b) =>
               \/ op'[b] = op[b]
               \/ \A d \in Deployment : op[b].dep = d => \A r \in AliveRuns(d)' : Settled(d, r)',
           \A b \in Actor : Starting(b)' => op'[b] = op[b],
           \A b \in Actor : op'[b].kind = "stop" => op'[b].old.run = op'[b].run
    PROVE  BotsInv'
<1>1. ASSUME NEW d \in Deployment, NEW r \in AliveRuns(d)' PROVE Spawned(r)' \/ Settled(d, r)'
  <2>1. r \in AliveRuns(d)
    BY QuietRuns
  <2>2. CASE Settled(d, r)
    BY <2>2
  <2>3. CASE Spawned(r)
    <3>1. PICK b \in Actor : Starting(b) /\ op[b].run = r
      BY <2>3 DEF Spawned
    <3>2. op[b].dep = d
      BY <2>1, <3>1 DEF BotsInv, StartsInv, AliveRuns
    <3> QED
      BY <3>1, <3>2 DEF Spawned, Starting
  <2> QED
    BY <2>1, <2>2, <2>3 DEF BotsInv
<1>2. StartsInv'
  <2> SUFFICES ASSUME NEW b \in Actor, Starting(b)', NEW d, d = op'[b].dep
               PROVE  /\ proc'[op'[b].run].dep = d
                      /\ proc'[op'[b].run].version = op'[b].old.settings.version
                      /\ \A r \in AliveRuns(d)' : r = op'[b].run
    BY DEF StartsInv
  <2>1. op'[b] = op[b] /\ Starting(b)
    BY DEF Starting
  <2>2. /\ proc[op[b].run].dep = op[b].dep
        /\ proc[op[b].run].version = op[b].old.settings.version
        /\ \A r \in AliveRuns(op[b].dep) : r = op[b].run
    BY <2>1 DEF BotsInv, StartsInv
  <2>3. op[b].run \in DOMAIN proc
    BY <2>1
  <2>4. AliveRuns(d)' \subseteq AliveRuns(d)
    BY QuietRuns
  <2> QED
    BY <2>1, <2>2, <2>3, <2>4 DEF Quieter
<1> QED
  BY <1>1, <1>2 DEF BotsInv

\* rows that do not change stay complete and flagged in a quiet step
LEMMA RowsKept ==
    ASSUME RowsInv, Quieter,
           \A d \in DOMAIN row' :
               \/ d \in DOMAIN row /\ row'[d] = row[d]
               \/ Complete(d)' /\ Flagged(d)'
    PROVE  RowsInv'
<1> SUFFICES ASSUME NEW d \in DOMAIN row', d \in DOMAIN row, row'[d] = row[d]
             PROVE  Complete(d)' /\ Flagged(d)'
  BY DEF RowsInv
<1>1. Complete(d) /\ Flagged(d)
  BY DEF RowsInv
<1>2. AliveRuns(d)' \subseteq AliveRuns(d) /\ \A r \in AliveRuns(d) : r \in DOMAIN proc
  BY QuietRuns DEF AliveRuns
<1> QED
  BY <1>1, <1>2 DEF Complete, Flagged, Quieter

-----------------------------------------------------------------------------
(* The steps of the processes.                                              *)

\* as long as the rows and the operations stay as they are, so do their bots
LEMMA BotsAndRowsKept ==
    ASSUME SafeInv, Quieter, UNCHANGED <<row, op>>,
           \A d \in Deployment : \A r \in AliveRuns(d)' : registry[d] = r => registry'[d] = r
    PROVE  BotsInv' /\ RowsInv'
<1>1. BotsInv'
  <2>1. \A d \in Deployment : \A r \in AliveRuns(d)' : Settled(d, r) => Settled(d, r)'
    BY DEF Settled
  <2>2. \A b \in Actor : Starting(b) => op[b].run \in DOMAIN proc
    BY DEF SafeInv, TypeInv, Starting
  <2>3. \A b \in Actor : op'[b].kind = "stop" => op'[b].old.run = op'[b].run
    BY DEF SafeInv, BotsInv
  <2> QED
    BY <2>1, <2>2, <2>3, BotsKept DEF SafeInv
<1>2. RowsInv'
  <2>1. \A d \in DOMAIN row' : d \in DOMAIN row /\ row'[d] = row[d]
    OBVIOUS
  <2> QED
    BY <2>1, RowsKept DEF SafeInv
<1> QED
  BY <1>1, <1>2

\* in a step of a process, the actors, the rows and the reconcile thread stay as they are
LEMMA ProcessStep ==
    ASSUME SafeInv, TypeInv', Quieter, UNCHANGED <<row, op, rec>>,
           \A d \in Deployment : \A r \in AliveRuns(d)' : registry[d] = r => registry'[d] = r
    PROVE  SafeInv'
<1>1. ActorsInv'
  BY DEF SafeInv, ActorsInv, Busy
<1>2. ReconcileInv'
  BY QuietRuns DEF SafeInv, ReconcileInv
<1> QED
  BY <1>1, <1>2, BotsAndRowsKept DEF SafeInv

\* a bot that registers overwrites no entry of another live one
LEMMA RegisterSafe == ASSUME SafeInv, NEW r \in DOMAIN proc, Register(r) PROVE SafeInv'
<1>1. TypeInv' /\ UNCHANGED <<row, op, rec>>
  BY RegisterType DEF SafeInv, Register
<1>2. Quieter /\ r \in AliveRuns(proc[r].dep) /\ proc[r].dep \in Deployment
  BY StateChange, ProcTypes DEF SafeInv, TypeInv, Register, Alive, AliveRuns, Process
<1>3. ASSUME NEW d \in Deployment, NEW q \in AliveRuns(d)', registry[d] = q
      PROVE  registry'[d] = q
  <2>1. q \in AliveRuns(d)
    BY <1>2, QuietRuns
  <2>2. CASE d = proc[r].dep
    <3>1. q = r
      BY <1>2, <2>1, <2>2, OneBot
    <3> QED
      BY <2>2, <3>1 DEF Register, SafeInv, TypeInv
  <2>3. CASE d # proc[r].dep
    BY <1>3, <2>3 DEF Register
  <2> QED
    BY <2>2, <2>3
<1> QED
  BY <1>1, <1>2, <1>3, ProcessStep

\* binding the control port changes the process only
LEMMA BindSafe == ASSUME SafeInv, NEW r \in DOMAIN proc, Bind(r) PROVE SafeInv'
<1>1. PICK t \in {"up", "stopping"} : proc' = [proc EXCEPT ![r].st = t]
  BY DEF Bind
<1>2. Quieter
  BY <1>1, StateChange DEF SafeInv, TypeInv, Bind, Alive
<1> QED
  BY <1>2, BindType, ProcessStep DEF SafeInv, Bind

\* the entry that an ending bot removes is not that of another live one
LEMMA ExitSafe == ASSUME SafeInv, NEW r \in DOMAIN proc, Exit(r) PROVE SafeInv'
<1>1. TypeInv' /\ UNCHANGED <<row, op, rec>>
  BY ExitType DEF SafeInv, Exit
<1>2. Quieter /\ ~ Alive(r)'
  BY KilledProcess DEF SafeInv, TypeInv, Exit
<1>3. r \in AliveRuns(proc[r].dep) /\ proc[r].dep \in Deployment
  BY ProcTypes DEF SafeInv, TypeInv, Exit, Alive, AliveRuns, Process
<1>4. ASSUME NEW d \in Deployment, NEW q \in AliveRuns(d)' PROVE registry'[d] = registry[d]
  <2>1. q \in AliveRuns(d) /\ q # r
    BY <1>2, QuietRuns DEF AliveRuns
  <2>2. d # proc[r].dep
    BY <1>3, <2>1, OneBot
  <2> QED
    BY <2>2 DEF Exit
<1> QED
  BY <1>1, <1>2, <1>4, ProcessStep

\* a dead bot is nobody's
LEMMA BotDiesSafe == ASSUME SafeInv, NEW r \in DOMAIN proc, BotDies(r) PROVE SafeInv'
<1>1. Quieter
  BY KilledProcess DEF SafeInv, TypeInv, BotDies
<1> QED
  BY <1>1, BotDiesType, ProcessStep DEF SafeInv, BotDies

-----------------------------------------------------------------------------
(* The steps of the actors.                                                 *)

\* actor a changes deployment d, which is its own, and brings no process to life
LEMMA OwnStep ==
    ASSUME SafeInv, TypeInv', Quieter, NEW a \in Actor, NEW d \in Deployment, NEW o,
           Own(a, d), RecKept(d), OthersKept(d), RegistryKept(d),
           op' = [op EXCEPT ![a] = o], o.kind \in {"idle", "stop", "restart"},
           Busy(a) => op[a].dep = d,
           o.kind # "idle" => a # "reconcile" /\ o.dep = d /\ d \in DOMAIN row',
           o.kind = "stop" => row'[d] = o.old /\ o.old.run = o.run,
           \A r \in AliveRuns(d)' : Settled(d, r)',
           d \in DOMAIN row' => Complete(d)' /\ Flagged(d)'
    PROVE  SafeInv'
<1> USE DEF SafeInv
<1>1. ActorsInv'
  BY ActorsKept DEF TypeInv
<1>2. ReconcileInv'
  <2>1. ASSUME NEW e \in rec'.todo \cup rec'.dead
        PROVE  e \in DOMAIN row' /\ row'[e] = row[e] /\ AliveRuns(e)' \subseteq AliveRuns(e)
    <3>1. e \in rec.todo \cup rec.dead /\ e # d
      BY DEF RecKept
    <3> QED
      BY <3>1, QuietRuns DEF ReconcileInv, OthersKept
  <2> QED
    BY <2>1, ReconcileKept
<1>3. BotsInv'
  <2>1. ASSUME NEW e \in Deployment, NEW r \in AliveRuns(e)', Settled(e, r)
        PROVE  Settled(e, r)'
    <3>1. CASE e = d
      BY <3>1
    <3>2. CASE e # d
      <4>1. r \in DOMAIN proc /\ Alive(r)
        BY QuietRuns DEF AliveRuns
      <4> QED
        BY <2>1, <3>2, <4>1 DEF Settled, OthersKept, RegistryKept
    <3> QED
      BY <3>1, <3>2
  <2>2. op'[a] = o /\ \A b \in Actor \ {a} : op'[b] = op[b]
    BY DEF TypeInv
  <2>3. ASSUME NEW b \in Actor, Starting(b)
        PROVE  \/ op'[b] = op[b]
               \/ \A e \in Deployment : op[b].dep = e => \A r \in AliveRuns(e)' : Settled(e, r)'
    BY <2>2, <2>3 DEF Busy, Starting
  <2>4. \A b \in Actor : Starting(b)' => op'[b] = op[b]
    BY <2>2 DEF Starting
  <2>5. \A b \in Actor : op'[b].kind = "stop" => op'[b].old.run = op'[b].run
    BY <2>2 DEF BotsInv
  <2>6. \A b \in Actor : Starting(b) => op[b].run \in DOMAIN proc
    BY DEF TypeInv, Starting
  <2> QED
    BY <2>1, <2>3, <2>4, <2>5, <2>6, BotsKept
<1>4. RowsInv'
  <2>1. ASSUME NEW e \in DOMAIN row'
        PROVE  \/ e \in DOMAIN row /\ row'[e] = row[e]
               \/ Complete(e)' /\ Flagged(e)'
    <3>1. CASE e = d
      BY <3>1
    <3>2. CASE e # d
      BY <3>2 DEF OthersKept
    <3> QED
      BY <3>1, <3>2
  <2> QED
    BY <2>1, RowsKept
<1> QED
  BY <1>1, <1>2, <1>3, <1>4

\* actor a spawns a process for deployment d, which is its own and has no live bot
LEMMA SpawnStep ==
    ASSUME SafeInv, TypeInv', NEW a \in Actor, NEW d \in Deployment, d \in DOMAIN row,
           Spawn(a, d, row[d]), ~ Starting(a), Own(a, d), RecKept(d), AliveRuns(d) = {},
           a = "reconcile" => rec.phase = "restart"
    PROVE  SafeInv'
<1> USE DEF SafeInv
<1> DEFINE n == Len(proc) + 1
           o == [kind |-> "start", dep |-> d, old |-> row[d], run |-> n, port |-> LowestFreePort]
<1>1. row' = row /\ op' = [op EXCEPT ![a] = o] /\ registry' = AfterResolve(d, row[d])
  BY DEF Spawn
<1>2. row[d] \in Row /\ Len(proc) \in Nat /\ DOMAIN proc = 1..Len(proc)
  BY ProcTypes, Bounds DEF TypeInv, RowInv
<1>3. /\ DOMAIN proc' = 1..n /\ proc'[n].dep = d /\ proc'[n].version = row[d].settings.version
      /\ \A r \in DOMAIN proc :
            /\ proc'[r].dep = proc[r].dep /\ proc'[r].version = proc[r].version
            /\ Alive(r)' <=> Alive(r)
  BY <1>2, SpawnedProcess
<1>4. /\ \A r \in AliveRuns(d)' : r = n
      /\ \A e \in Deployment \ {d} : AliveRuns(e)' = AliveRuns(e)
  BY <1>2, <1>3 DEF AliveRuns
<1>5. OthersKept(d) /\ o.kind = "start" /\ o.dep = d /\ o.old = row[d] /\ o.run = n
  BY <1>1 DEF OthersKept
<1>6. op'[a] = o /\ \A b \in Actor \ {a} : op'[b] = op[b]
  BY <1>1 DEF TypeInv
<1> HIDE DEF o, n
<1>7. ActorsInv'
  BY <1>1, <1>5, ActorsKept DEF TypeInv
<1>8. ReconcileInv'
  <2>1. ASSUME NEW e \in rec'.todo \cup rec'.dead
        PROVE  e \in DOMAIN row' /\ row'[e] = row[e] /\ AliveRuns(e)' \subseteq AliveRuns(e)
    <3>1. e \in rec.todo \cup rec.dead /\ e # d /\ e \in Deployment
      BY DEF RecKept, TypeInv, RecInv
    <3> QED
      BY <1>1, <1>4, <3>1 DEF ReconcileInv
  <2> QED
    BY <2>1, ReconcileKept
<1>9. BotsInv'
  <2>1. ASSUME NEW e \in Deployment, NEW r \in AliveRuns(e)' PROVE Spawned(r)' \/ Settled(e, r)'
    <3>1. CASE e = d
      BY <1>4, <1>5, <1>6, <3>1 DEF Spawned, Starting
    <3>2. CASE e # d
      <4>1. r \in AliveRuns(e) /\ RecordIsLive(r)
        BY <1>4, <3>2 DEF AliveRuns, RecordIsLive
      <4>2. CASE Spawned(r)
        <5>1. PICK b \in Actor : Starting(b) /\ op[b].run = r
          BY <4>2 DEF Spawned
        <5>2. op[b].dep = e
          BY <4>1, <5>1 DEF BotsInv, StartsInv, AliveRuns
        <5>3. b # a
          BY <5>1
        <5> QED
          BY <1>6, <5>1, <5>3 DEF Spawned, Starting
      <4>3. CASE Settled(e, r)
        <5>1. registry'[e] = registry[e]
          BY <1>1, <4>1, <4>3, ResolvedRun DEF TypeInv, Settled
        <5> QED
          BY <1>1, <4>3, <5>1 DEF Settled
      <4> QED
        BY <4>1, <4>2, <4>3 DEF BotsInv
    <3> QED
      BY <3>1, <3>2
  <2>2. StartsInv'
    <3> SUFFICES ASSUME NEW b \in Actor, Starting(b)', NEW e, e = op'[b].dep
                 PROVE  /\ proc'[op'[b].run].dep = e
                        /\ proc'[op'[b].run].version = op'[b].old.settings.version
                        /\ \A r \in AliveRuns(e)' : r = op'[b].run
      BY DEF StartsInv
    <3>1. CASE b = a
      BY <1>3, <1>4, <1>5, <1>6, <3>1
    <3>2. CASE b # a
      <4>1. op'[b] = op[b] /\ Starting(b) /\ Busy(b)
        BY <1>6, <3>2 DEF Starting, Busy
      <4>2. e # d /\ e \in Deployment /\ op[b].run \in DOMAIN proc
        BY <3>2, <4>1, OperationTypes DEF Own, TypeInv, Starting
      <4>3. /\ proc[op[b].run].dep = e
            /\ proc[op[b].run].version = op[b].old.settings.version
            /\ \A r \in AliveRuns(e) : r = op[b].run
        BY <4>1 DEF BotsInv, StartsInv
      <4> QED
        BY <1>3, <1>4, <4>1, <4>2, <4>3
    <3> QED
      BY <3>1, <3>2
  <2>3. \A b \in Actor : op'[b].kind = "stop" => op'[b].old.run = op'[b].run
    BY <1>5, <1>6 DEF BotsInv
  <2> QED
    BY <2>1, <2>2, <2>3 DEF BotsInv
<1>10. RowsInv'
  <2> SUFFICES ASSUME NEW e \in DOMAIN row PROVE Complete(e)' /\ Flagged(e)'
    BY <1>1 DEF RowsInv
  <2>1. Complete(e) /\ Flagged(e) /\ e \in Deployment
    BY DEF RowsInv, TypeInv, RowInv
  <2>2. Complete(e)'
    BY <1>1, <2>1 DEF Complete
  <2>3. Flagged(e)'
    <3>1. CASE e = d
      BY <1>1, <1>3, <1>4, <3>1 DEF Flagged
    <3>2. CASE e # d
      <4>1. /\ AliveRuns(e)' = AliveRuns(e)
            /\ \A r \in AliveRuns(e) : proc'[r].version = proc[r].version
        BY <1>3, <1>4, <2>1, <3>2 DEF AliveRuns
      <4> QED
        BY <1>1, <2>1, <4>1 DEF Flagged
    <3> QED
      BY <3>1, <3>2
  <2> QED
    BY <2>2, <2>3
<1> QED
  BY <1>7, <1>8, <1>9, <1>10

\* what an actor may begin to work on, and what it works on, is its own
LEMMA FreeIsOwn ==
    ASSUME SafeInv, ~ Overlap, NEW a \in Actor, NEW d, Free(a, d)
    PROVE  Own(a, d) /\ (a # "reconcile" => d \notin rec.todo \cup rec.dead)
BY OperationTypes DEF Free, Own, Busy, SafeInv

\* what an actor is in the middle of is its own
LEMMA BusyIsOwn ==
    ASSUME SafeInv, NEW a \in Actor, Busy(a)
    PROVE  /\ Own(a, op[a].dep) /\ op[a].dep \in DOMAIN row /\ op[a].dep \in Deployment
           /\ op[a].dep \notin rec.todo \cup rec.dead
BY OperationTypes DEF SafeInv, ActorsInv, Own, Busy

\* on the deployment of an actor that is not starting it, nobody is
LEMMA NobodyStarts ==
    ASSUME NEW a \in Actor, NEW d, Own(a, d), ~ Starting(a)
    PROVE  \A b \in Actor : Starting(b) => op[b].dep # d
BY DEF Own, Starting, Busy

\* the reconcile thread is not disturbed by a step on a deployment it has not queried
LEMMA SameSession ==
    ASSUME SafeInv, UNCHANGED rec, NEW d, d \notin rec.todo \cup rec.dead
    PROVE  RecKept(d)
BY DEF SafeInv, ActorsInv, RecKept

\* pruning the registry keeps the entries of live processes
LEMMA PrunedRegistry ==
    ASSUME SafeInv, NEW d \in Deployment, NEW old, registry' = AfterResolve(d, old)
    PROVE  /\ RegistryKept(d)
           /\ \A r \in AliveRuns(d) : registry[d] = r => registry'[d] = r
<1>1. \A e \in Deployment : registry[e] \in DOMAIN proc /\ RecordIsLive(registry[e]) =>
            registry'[e] = registry[e]
  BY ResolvedRun DEF SafeInv, TypeInv
<1> QED
  BY <1>1 DEF RegistryKept, RecordIsLive, AliveRuns

\* a refused start leaves the live bot, if there is one, to its row
LEMMA RefuseStartSafe ==
    ASSUME SafeInv, TypeInv', NEW a \in Actor, NEW d \in Deployment, NEW old,
           RefuseStart(a, d, old), Own(a, d), RecKept(d), ~ Starting(a),
           Busy(a) => op[a].dep = d
    PROVE  SafeInv'
<1>1. /\ row' = row /\ proc' = proc /\ registry' = AfterResolve(d, old)
      /\ op' = [op EXCEPT ![a] = Idle]
  BY DEF RefuseStart
<1>2. Quieter /\ OthersKept(d) /\ RegistryKept(d)
  BY <1>1, KeptProcesses, PrunedRegistry DEF OthersKept
<1>3. ASSUME NEW r \in AliveRuns(d)' PROVE Settled(d, r)'
  <2>1. r \in AliveRuns(d)
    BY <1>2, QuietRuns
  <2>2. Settled(d, r)
    BY <2>1, NobodyStarts, SettledBot
  <2> QED
    BY <1>1, <2>1, <2>2, PrunedRegistry DEF Settled
<1>4. d \in DOMAIN row' => Complete(d)' /\ Flagged(d)'
  BY <1>1 DEF SafeInv, RowsInv, Complete, Flagged, AliveRuns, Alive
<1>5. Idle.kind = "idle"
  BY DEF Idle
<1> QED
  BY <1>1, <1>2, <1>3, <1>4, <1>5, OwnStep

\* start spawns only where no bot is alive
LEMMA BeginStartSafe ==
    ASSUME SafeInv, ~ Overlap, NEW a \in Actor \ {"reconcile"}, NEW d \in Deployment,
           BeginStart(a, d)
    PROVE  SafeInv'
<1>1. TypeInv' /\ ~ Busy(a) /\ ~ Starting(a) /\ d \in DOMAIN row
  BY BeginStartType DEF SafeInv, BeginStart, Busy, Starting, Idle
<1>2. Own(a, d) /\ RecKept(d)
  BY FreeIsOwn, SameSession DEF BeginStart
<1>3. CASE RefuseStart(a, d, row[d])
  BY <1>1, <1>2, <1>3, RefuseStartSafe
<1>4. CASE Spawn(a, d, row[d])
  <2>1. AliveRuns(d) = {}
    BY <1>1, <1>2, <1>4, NobodyStarts, FoundBot DEF Spawn
  <2> QED
    BY <1>1, <1>2, <1>4, <2>1, SpawnStep
<1> QED
  BY <1>3, <1>4 DEF BeginStart

\* and so does the start of a restart, which reads the row again
LEMMA StartAgainSafe == ASSUME SafeInv, NEW a \in Actor, StartAgain(a) PROVE SafeInv'
<1> DEFINE d == op[a].dep
<1>1. TypeInv' /\ Busy(a) /\ ~ Starting(a) /\ a # "reconcile"
  BY StartAgainType DEF SafeInv, ActorsInv, StartAgain, Busy, Starting
<1>2. Own(a, d) /\ d \in DOMAIN row /\ d \in Deployment /\ RecKept(d)
  BY <1>1, BusyIsOwn, SameSession DEF StartAgain
<1>3. CASE RefuseStart(a, d, row[d])
  BY <1>1, <1>2, <1>3, RefuseStartSafe
<1>4. CASE Spawn(a, d, row[d])
  <2>1. AliveRuns(d) = {}
    BY <1>1, <1>2, <1>4, NobodyStarts, FoundBot DEF Spawn
  <2> QED
    BY <1>1, <1>2, <1>4, <2>1, SpawnStep
<1> QED
  BY <1>2, <1>3, <1>4 DEF StartAgain

\* what a knows of the operation it is in the middle of
LEMMA OperationOf ==
    ASSUME SafeInv, NEW a \in Actor, op[a].kind \in {"start", "stop"}
    PROVE  \E d \in DOMAIN row : \E r \in DOMAIN proc :
               /\ op[a].dep = d /\ op[a].run = r /\ op[a].old = row[d]
               /\ d \in Deployment /\ row[d] \in Row /\ r \in 1..MaxRuns
               /\ Own(a, d) /\ d \notin rec.todo \cup rec.dead
               /\ \A q \in AliveRuns(d) : q = r
<1> DEFINE d == op[a].dep
           r == op[a].run
<1>1. Busy(a)
  BY DEF Busy
<1>2. Own(a, d) /\ d \in DOMAIN row /\ d \in Deployment /\ d \notin rec.todo \cup rec.dead
  BY <1>1, BusyIsOwn
<1>3. r \in DOMAIN proc /\ r \in 1..MaxRuns /\ op[a].old = row[d] /\ row[d] \in Row
  <2>1. r \in DOMAIN proc /\ op[a].old = row[d]
    BY DEF SafeInv, TypeInv, ActorsInv
  <2>2. r \in 1..MaxRuns
    BY <2>1, ProcTypes, Bounds DEF SafeInv, TypeInv
  <2> QED
    BY <1>2, <2>1, <2>2 DEF SafeInv, TypeInv, RowInv
<1>4. \A q \in AliveRuns(d) : q = r
  <2>1. CASE Starting(a)
    BY <2>1 DEF SafeInv, BotsInv, StartsInv
  <2>2. CASE ~ Starting(a)
    <3>1. op[a].kind = "stop" /\ op[a].old.run = r
      BY <2>2 DEF Starting, SafeInv, BotsInv
    <3>2. \A q \in AliveRuns(d) : Settled(d, q)
      BY <1>2, <2>2, NobodyStarts, SettledBot
    <3> QED
      BY <1>3, <3>1, <3>2 DEF Settled
  <2> QED
    BY <2>1, <2>2
<1> QED
  BY <1>2, <1>3, <1>4

\* a start that fails leaves no live bot behind
LEMMA AbortStartSafe == ASSUME SafeInv, NEW a \in Actor, AbortStart(a) PROVE SafeInv'
<1>1. TypeInv'
  BY AbortStartType DEF SafeInv
<1>2. PICK d \in DOMAIN row, r \in DOMAIN proc :
          /\ op[a].dep = d /\ op[a].run = r /\ d \in Deployment
          /\ Own(a, d) /\ d \notin rec.todo \cup rec.dead
          /\ \A q \in AliveRuns(d) : q = r
  BY OperationOf DEF AbortStart
<1>3. /\ row' = row /\ registry' = AfterGet(d) /\ op' = [op EXCEPT ![a] = Idle]
      /\ proc' = [proc EXCEPT ![r].st = "gone"] /\ rec' = rec
  BY <1>2 DEF AbortStart
<1>4. Quieter /\ ~ Alive(r)'
  BY <1>3, StateChange DEF SafeInv, TypeInv
<1>5. AliveRuns(d)' = {}
  BY <1>2, <1>4, QuietRuns DEF AliveRuns
<1>6. OthersKept(d) /\ RegistryKept(d) /\ RecKept(d)
  BY <1>2, <1>3, SameSession DEF OthersKept, RegistryKept, AfterGet, SafeInv, TypeInv
<1>7. Complete(d)' /\ Flagged(d)'
  BY <1>2, <1>3, <1>5 DEF Flagged, Complete, SafeInv, RowsInv
<1>8. Idle.kind = "idle"
  BY DEF Idle
<1> QED
  BY <1>1, <1>2, <1>3, <1>4, <1>5, <1>6, <1>7, <1>8, OwnStep

\* a start that commits makes its run the one of the row, with the settings it was spawned on
LEMMA FinishStartSafe == ASSUME SafeInv, NEW a \in Actor, FinishStart(a) PROVE SafeInv'
<1>1. TypeInv'
  BY FinishStartType DEF SafeInv
<1>2. PICK d \in DOMAIN row, r \in DOMAIN proc :
          /\ op[a].dep = d /\ op[a].run = r /\ op[a].old = row[d]
          /\ d \in Deployment /\ row[d] \in Row /\ r \in 1..MaxRuns
          /\ Own(a, d) /\ d \notin rec.todo \cup rec.dead
          /\ \A q \in AliveRuns(d) : q = r
  BY OperationOf DEF FinishStart
<1>3. PICK p \in 0..MaxPort : op[a].port = p
  BY OperationTypes DEF SafeInv, FinishStart
<1>4. /\ Commit(d, row[d], Started(row[d], r, p)) /\ op' = [op EXCEPT ![a] = Idle]
      /\ registry' = registry /\ proc' = proc /\ Get(d) = r
  BY <1>2, <1>3 DEF FinishStart, Awaited
<1>5. /\ DOMAIN row' = DOMAIN row /\ row'[d] = Started(row[d], r, p)
      /\ \A e \in DOMAIN row : e # d => row'[e] = row[e]
  BY <1>2, <1>3, <1>4, CommitType, StartedRow DEF SafeInv, TypeInv
<1>6. Quieter /\ OthersKept(d) /\ RegistryKept(d)
  BY <1>4, <1>5, KeptProcesses DEF OthersKept, RegistryKept
<1>7. RecKept(d)
  <2>1. rec' = rec \/ (a = "reconcile" /\ rec' = [rec EXCEPT !.fresh = TRUE])
    BY DEF FinishStart
  <2>2. CASE rec' = rec
    BY <1>2, <2>2, SameSession
  <2>3. CASE a = "reconcile" /\ rec' = [rec EXCEPT !.fresh = TRUE]
    <3>1. rec.phase = "restart"
      BY <2>3 DEF FinishStart, SafeInv, ActorsInv
    <3>2. /\ rec'.phase = rec.phase /\ rec'.rows = rec.rows /\ rec'.todo = rec.todo
          /\ rec'.dead = rec.dead /\ rec'.fresh = TRUE
      BY <2>3 DEF SafeInv, TypeInv, RecInv
    <3> QED
      BY <1>2, <3>1, <3>2 DEF RecKept
  <2> QED
    BY <2>1, <2>2, <2>3
<1>8. registry[d] = r
  BY <1>2, <1>4, RegistryFile, ProcTypes DEF SafeInv, TypeInv, NoRun
<1>9. \A q \in AliveRuns(d)' : q = r
  BY <1>2, <1>6, QuietRuns
<1>10. /\ row'[d].run = r /\ row'[d].status = "running" /\ row'[d].desired = "running"
       /\ row'[d].settings.port = p /\ row'[d].settings.version = row[d].settings.version
  BY <1>2, <1>3, <1>5, StartedRow
<1>11. \A q \in AliveRuns(d)' : Settled(d, q)'
  BY <1>4, <1>5, <1>8, <1>9, <1>10 DEF Settled
<1>12. Complete(d)' /\ Flagged(d)'
  <2>1. r # NoRun /\ p # NoPort
    BY <1>2, <1>3, Bounds DEF NoRun, NoPort
  <2>2. proc[r].version = row[d].settings.version
    BY <1>2 DEF FinishStart, SafeInv, BotsInv, StartsInv, Starting
  <2> QED
    BY <1>4, <1>9, <1>10, <2>1, <2>2 DEF Complete, Flagged
<1>13. Idle.kind = "idle"
  BY DEF Idle
<1> QED
  BY <1>1, <1>2, <1>4, <1>6, <1>7, <1>11, <1>12, <1>13, OwnStep

\* after a stop, an actor is idle or goes on with the deployment, if it is still there
LEMMA AfterStopIs ==
    ASSUME NEW next, NEW d
    PROVE  /\ After(next, d).kind \in {"idle", "restart"}
           /\ After(next, d).kind # "idle" =>
                After(next, d).dep = d /\ d \in DOMAIN row /\ next = "start"
BY DEF After, Idle

\* rows of which no bot is alive need no flag, and stopped rows need no run
LEMMA StoppedRowIsSafe ==
    ASSUME NEW d, AliveRuns(d)' = {}, d \in DOMAIN row' => row'[d].status = "stopped"
    PROVE  d \in DOMAIN row' => Complete(d)' /\ Flagged(d)'
BY DEF Complete, Flagged

\* after a stop there is no live bot, so that its row and its file may be cleared
LEMMA FinishStopSafe == ASSUME SafeInv, NEW a \in Actor, FinishStop(a) PROVE SafeInv'
<1>1. TypeInv' /\ a # "reconcile"
  BY FinishStopType DEF SafeInv, ActorsInv, FinishStop
<1>2. PICK d \in DOMAIN row, r \in DOMAIN proc :
          /\ op[a].dep = d /\ op[a].run = r /\ op[a].old = row[d]
          /\ d \in Deployment /\ row[d] \in Row
          /\ Own(a, d) /\ d \notin rec.todo \cup rec.dead
          /\ \A q \in AliveRuns(d) : q = r
  BY OperationOf DEF FinishStop
<1>3. PICK next \in AfterStop : op[a].next = next
  BY OperationTypes DEF SafeInv, FinishStop
<1>4. /\ op' = [op EXCEPT ![a] = After(next, d)] /\ proc' = Killed(r)
      /\ registry' = [registry EXCEPT ![d] = NoRun] /\ rec' = rec
      /\ IF next = "delete" THEN row' = Removed(d) ELSE Commit(d, row[d], Stopped(row[d]))
  BY <1>2, <1>3 DEF FinishStop
<1>5. Quieter /\ AliveRuns(d)' = {}
  <2>1. Quieter /\ ~ Alive(r)'
    BY <1>4, KilledProcess DEF SafeInv, TypeInv
  <2> QED
    BY <1>2, <2>1, QuietRuns DEF AliveRuns
<1>6. /\ OthersKept(d) /\ (d \in DOMAIN row' => row'[d].status = "stopped")
      /\ next # "delete" => d \in DOMAIN row'
  <2>1. CASE next = "delete"
    BY <1>4, <2>1, RemovedType DEF OthersKept, SafeInv, TypeInv
  <2>2. CASE next # "delete"
    <3>1. /\ DOMAIN row' = DOMAIN row /\ row'[d] = Stopped(row[d])
          /\ \A e \in DOMAIN row : e # d => row'[e] = row[e]
      BY <1>2, <1>4, <2>2, CommitType, StoppedRow DEF SafeInv, TypeInv
    <3> QED
      BY <1>2, <3>1, StoppedRow DEF OthersKept
  <2> QED
    BY <2>1, <2>2
<1>7. RegistryKept(d) /\ RecKept(d)
  BY <1>2, <1>4, SameSession DEF RegistryKept, SafeInv, TypeInv
<1>8. d \in DOMAIN row' => Complete(d)' /\ Flagged(d)'
  BY <1>5, <1>6, StoppedRowIsSafe
<1>9. PICK o : o = After(next, d)
  OBVIOUS
<1>10. /\ op' = [op EXCEPT ![a] = o] /\ o.kind \in {"idle", "restart"}
       /\ o.kind # "idle" => o.dep = d /\ d \in DOMAIN row'
  BY <1>4, <1>6, <1>9, AfterStopIs
<1> QED
  BY <1>1, <1>2, <1>5, <1>6, <1>7, <1>8, <1>10, OwnStep

\* a stop that finds no run clears the row of a dead bot; one that does leaves it for now
LEMMA BeginStopSafe ==
    ASSUME SafeInv, ~ Overlap, NEW a \in Actor \ {"reconcile"}, NEW d \in Deployment,
           NEW next \in AfterStop, BeginStop(a, d, next)
    PROVE  SafeInv'
<1>1. TypeInv' /\ ~ Busy(a) /\ ~ Starting(a) /\ d \in DOMAIN row /\ row[d] \in Row
  BY BeginStopType DEF SafeInv, TypeInv, RowInv, BeginStop, Busy, Starting, Idle
<1>2. Own(a, d) /\ RecKept(d)
  BY FreeIsOwn, SameSession DEF BeginStop
<1>3. \A b \in Actor : Starting(b) => op[b].dep # d
  BY <1>1, <1>2, NobodyStarts
<1>4. CASE ResolveRun(d, row[d]) = NoRun
  <2>1. /\ op' = [op EXCEPT ![a] = After(next, d)] /\ proc' = proc
        /\ IF next = "delete" THEN row' = Removed(d) ELSE Commit(d, row[d], Stopped(row[d]))
        /\ IF next = "delete" THEN registry' = [registry EXCEPT ![d] = NoRun]
                              ELSE registry' = AfterResolve(d, row[d])
    BY <1>4 DEF BeginStop
  <2>2. Quieter /\ AliveRuns(d)' = {}
    BY <1>3, <1>4, <2>1, FoundBot, KeptProcesses, QuietRuns
  <2>3. /\ OthersKept(d) /\ (d \in DOMAIN row' => row'[d].status = "stopped")
        /\ next # "delete" => d \in DOMAIN row'
    <3>1. CASE next = "delete"
      BY <2>1, <3>1, RemovedType DEF OthersKept, SafeInv, TypeInv
    <3>2. CASE next # "delete"
      <4>1. /\ DOMAIN row' = DOMAIN row /\ row'[d] = Stopped(row[d])
            /\ \A e \in DOMAIN row : e # d => row'[e] = row[e]
        BY <1>1, <2>1, <3>2, CommitType, StoppedRow DEF SafeInv, TypeInv
      <4> QED
        BY <1>1, <4>1, StoppedRow DEF OthersKept
    <3> QED
      BY <3>1, <3>2
  <2>4. RegistryKept(d)
    <3>1. CASE next = "delete"
      BY <2>1, <3>1 DEF RegistryKept, SafeInv, TypeInv
    <3>2. CASE next # "delete"
      BY <2>1, <3>2, PrunedRegistry
    <3> QED
      BY <3>1, <3>2
  <2>5. d \in DOMAIN row' => Complete(d)' /\ Flagged(d)'
    BY <2>2, <2>3, StoppedRowIsSafe
  <2>6. PICK o : o = After(next, d)
    OBVIOUS
  <2>7. /\ op' = [op EXCEPT ![a] = o] /\ o.kind \in {"idle", "restart"}
        /\ o.kind # "idle" => o.dep = d /\ d \in DOMAIN row'
    BY <2>1, <2>3, <2>6, AfterStopIs
  <2> QED
    BY <1>1, <1>2, <2>2, <2>3, <2>4, <2>5, <2>7, OwnStep
<1>5. CASE ResolveRun(d, row[d]) # NoRun
  <2>1. PICK r \in DOMAIN proc : r = ResolveRun(d, row[d]) /\ r = row[d].run
    <3>1. ProcInv /\ registry \in [Deployment -> 0..Len(proc)]
      BY DEF SafeInv, TypeInv
    <3>2. ResolveRun(d, row[d]) \in DOMAIN proc /\ ResolveRun(d, row[d]) = row[d].run
      BY <1>5, <3>1, ResolvedRun
    <3> QED
      BY <3>2
  <2> DEFINE o == [kind |-> "stop", dep |-> d, old |-> row[d], run |-> r, next |-> next]
  <2>2. /\ op' = [op EXCEPT ![a] = o] /\ UNCHANGED <<row, registry>>
        /\ proc' = IF Alive(r) THEN [proc EXCEPT ![r].st = "stopping"] ELSE proc
    BY <1>5, <2>1 DEF BeginStop
  <2>3. o.kind = "stop" /\ o.dep = d /\ o.old = row[d] /\ o.run = r
    OBVIOUS
  <2> HIDE DEF o
  <2>4. Quieter
    <3>1. CASE Alive(r)
      BY <2>2, <3>1, StateChange DEF SafeInv, TypeInv
    <3>2. CASE ~ Alive(r)
      BY <2>2, <3>2, KeptProcesses
    <3> QED
      BY <3>1, <3>2
  <2>5. OthersKept(d) /\ RegistryKept(d)
    BY <2>2 DEF OthersKept, RegistryKept
  <2>6. \A q \in AliveRuns(d)' : Settled(d, q)'
    <3> SUFFICES ASSUME NEW q \in AliveRuns(d)' PROVE Settled(d, q)'
      OBVIOUS
    <3>1. q \in AliveRuns(d)
      BY <2>4, QuietRuns
    <3>2. Settled(d, q)
      BY <1>3, <3>1, SettledBot
    <3> QED
      BY <2>2, <3>2 DEF Settled
  <2>7. Complete(d)' /\ Flagged(d)'
    <3>1. Complete(d) /\ Flagged(d)
      BY <1>1 DEF SafeInv, RowsInv
    <3>2. AliveRuns(d)' \subseteq AliveRuns(d) /\ \A q \in AliveRuns(d) : q \in DOMAIN proc
      BY <2>4, QuietRuns DEF AliveRuns
    <3> QED
      BY <2>2, <2>4, <3>1, <3>2 DEF Complete, Flagged, Quieter
  <2> QED
    BY <1>1, <1>2, <2>1, <2>2, <2>3, <2>4, <2>5, <2>6, <2>7, OwnStep
<1> QED
  BY <1>4, <1>5

\* a new deployment has no bot
LEMMA CreateSafe ==
    ASSUME SafeInv, ~ Overlap, NEW a \in Actor \ {"reconcile"}, NEW d \in Deployment, Create(a, d)
    PROVE  SafeInv'
<1>1. TypeInv' /\ ~ Busy(a) /\ ~ Starting(a) /\ op[a] = Idle
  BY CreateType DEF SafeInv, Create, Busy, Starting, Idle
<1>2. Own(a, d) /\ RecKept(d)
  BY FreeIsOwn, SameSession DEF Create
<1>3. /\ row' = [e \in DOMAIN row \cup {d} |-> IF e = d THEN NewRow ELSE row[e]]
      /\ d \notin DOMAIN row /\ UNCHANGED <<registry, proc, op>>
  BY DEF Create
<1>4. Quieter /\ OthersKept(d) /\ RegistryKept(d) /\ d \in DOMAIN row'
  BY <1>3, KeptProcesses DEF OthersKept, RegistryKept
<1>5. AliveRuns(d)' = {}
  <2>1. \A r \in AliveRuns(d) : Settled(d, r)
    BY <1>1, <1>2, NobodyStarts, SettledBot
  <2> QED
    BY <1>3, <1>4, <2>1, QuietRuns DEF Settled
<1>6. Complete(d)' /\ Flagged(d)'
  <2>1. row'[d].status = "stopped"
    BY <1>3 DEF NewRow
  <2> QED
    BY <1>4, <1>5, <2>1, StoppedRowIsSafe
<1>7. op' = [op EXCEPT ![a] = Idle] /\ Idle.kind = "idle"
  BY <1>1, <1>3 DEF SafeInv, TypeInv, Idle
<1> QED
  BY <1>1, <1>2, <1>4, <1>5, <1>6, <1>7, OwnStep

\* an edit of a deployment with a live bot flags it
LEMMA EditSafe ==
    ASSUME SafeInv, ~ Overlap, NEW a \in Actor \ {"reconcile"}, NEW d \in Deployment, Edit(a, d)
    PROVE  SafeInv'
<1>1. TypeInv' /\ ~ Busy(a) /\ ~ Starting(a) /\ op[a] = Idle /\ d \in DOMAIN row /\ row[d] \in Row
  <2>1. TypeInv'
    BY EditType DEF SafeInv
  <2> QED
    BY <2>1 DEF SafeInv, TypeInv, RowInv, Edit, Busy, Starting, Idle
<1>2. Own(a, d) /\ RecKept(d)
  BY FreeIsOwn, SameSession DEF Edit
<1>3. /\ DOMAIN row' = DOMAIN row /\ UNCHANGED <<registry, proc, op>>
      /\ \A e \in DOMAIN row : e # d => row'[e] = row[e]
      /\ row'[d].run = row[d].run /\ row'[d].status = row[d].status
      /\ row'[d].desired = row[d].desired /\ row'[d].settings.port = row[d].settings.port
      /\ row[d].status = "running" => row'[d].needsRestart
  BY <1>1, EditType DEF SafeInv, Edit, Row
<1>4. Quieter /\ OthersKept(d) /\ RegistryKept(d)
  BY <1>3, KeptProcesses DEF OthersKept, RegistryKept
<1>5. \A r \in AliveRuns(d)' : Settled(d, r)' /\ row'[d].needsRestart
  <2>1. \A r \in AliveRuns(d) : Settled(d, r)
    BY <1>1, <1>2, NobodyStarts, SettledBot
  <2> QED
    BY <1>3, <1>4, <2>1, QuietRuns DEF Settled
<1>6. Complete(d)' /\ Flagged(d)'
  BY <1>1, <1>3, <1>5 DEF Complete, Flagged, SafeInv, RowsInv
<1>7. op' = [op EXCEPT ![a] = Idle] /\ Idle.kind = "idle"
  BY <1>1, <1>3 DEF SafeInv, TypeInv, Idle
<1> QED
  BY <1>1, <1>2, <1>4, <1>5, <1>6, <1>7, OwnStep

-----------------------------------------------------------------------------
(* The steps of the reconcile thread, and the restart.                      *)

\* a probe may prune the registry file of a dead bot
LEMMA ReconcileProbeSafe ==
    ASSUME SafeInv, NEW d \in Deployment, ReconcileProbe(d)
    PROVE  SafeInv'
<1>1. TypeInv'
  BY ReconcileProbeType DEF SafeInv
<1>2. UNCHANGED <<row, proc, op>> /\ registry' = AfterResolve(d, Seen(d))
  BY DEF ReconcileProbe
<1>3. /\ rec'.phase = rec.phase /\ rec'.fresh = rec.fresh /\ rec'.rows = rec.rows
      /\ rec'.todo \cup rec'.dead \subseteq rec.todo \cup rec.dead
      /\ rec'.todo \cap rec'.dead = {}
  <2>1. \/ rec' = [rec EXCEPT !.todo = @ \ {d}, !.dead = @ \cup {d}]
        \/ rec' = [rec EXCEPT !.todo = @ \ {d}, !.dead = @]
    BY DEF ReconcileProbe
  <2>2. /\ rec'.phase = rec.phase /\ rec'.fresh = rec.fresh /\ rec'.rows = rec.rows
        /\ rec'.todo = rec.todo \ {d} /\ rec'.dead \in {rec.dead, rec.dead \cup {d}}
    BY <2>1 DEF SafeInv, TypeInv, RecInv
  <2>3. d \in rec.todo
    BY DEF ReconcileProbe
  <2> QED
    BY <2>2, <2>3 DEF SafeInv, ReconcileInv
<1>4. Quieter /\ \A e : AliveRuns(e)' = AliveRuns(e)
  BY <1>2, KeptProcesses DEF AliveRuns, Alive
<1>5. BotsInv' /\ RowsInv'
  <2>1. \A e \in Deployment : \A r \in AliveRuns(e) : registry[e] = r => registry'[e] = r
    BY <1>2, PrunedRegistry DEF RegistryKept, AliveRuns
  <2> QED
    BY <1>2, <1>4, <2>1, BotsAndRowsKept
<1>6. ActorsInv'
  BY <1>2, <1>3 DEF SafeInv, ActorsInv, Busy
<1>7. ReconcileInv'
  BY <1>2, <1>3, <1>4 DEF SafeInv, ReconcileInv
<1> QED
  BY <1>1, <1>5, <1>6, <1>7 DEF SafeInv

\* the commit clears the rows of dead bots only, and nobody is in the middle of anything
LEMMA ReconcileCleanSafe == ASSUME SafeInv, ~ Overlap, ReconcileClean PROVE SafeInv'
<1>1. TypeInv'
  BY ReconcileCleanType DEF SafeInv
<1>2. \A a \in Actor : ~ Busy(a)
  <2> SUFFICES ASSUME NEW a \in Actor, Busy(a) PROVE FALSE
    OBVIOUS
  <2>1. a # "reconcile" /\ op[a].dep \in DOMAIN row
    BY BusyIsOwn DEF SafeInv, ActorsInv, ReconcileClean, Busy
  <2>2. Own("reconcile", op[a].dep)
    BY <2>1, FreeIsOwn DEF ReconcileClean, Actor
  <2> QED
    BY <2>1, <2>2 DEF Own
<1>3. /\ rec.dead \subseteq DOMAIN row /\ UNCHANGED <<registry, proc, op>>
      /\ \A d \in rec.dead : rec.rows[d] = row[d] /\ row[d] \in Row /\ AliveRuns(d) = {}
  BY DEF SafeInv, ActorsInv, ReconcileInv, ReconcileClean, TypeInv, RowInv
<1>4. /\ row' = [d \in DOMAIN row |->
                    IF d \in rec.dead
                    THEN Merge(row[d], rec.rows[d], Crashed(rec.rows[d])) ELSE row[d]]
      /\ rec' = [phase |-> "restart", dead |-> {}, rows |-> row', fresh |-> FALSE,
                 todo |-> {d \in DOMAIN row : row'[d].desired = "running"}]
  BY <1>3 DEF ReconcileClean
<1>5. /\ DOMAIN row' = DOMAIN row
      /\ \A d \in DOMAIN row \ rec.dead : row'[d] = row[d]
      /\ \A d \in rec.dead : row'[d].status = "stopped"
  <2>1. ASSUME NEW d \in rec.dead PROVE row'[d].status = "stopped"
    <3>1. row'[d] = Merge(row[d], row[d], Crashed(row[d]))
      BY <1>3, <1>4
    <3>2. Crashed(row[d]) \in Row /\ Crashed(row[d]).status = "stopped" /\ row[d] \in Row
      BY <1>3, StoppedRow
    <3> QED
      BY <3>1, <3>2, MergeType
  <2> QED
    BY <1>4, <2>1
<1>6. Quieter
  BY <1>3, KeptProcesses
<1>7. ActorsInv'
  BY <1>2, <1>3, <1>4 DEF ActorsInv, Busy, Actor
<1>8. ReconcileInv'
  BY <1>4, <1>5 DEF ReconcileInv
<1>9. BotsInv'
  <2>1. ASSUME NEW d \in Deployment, NEW r \in AliveRuns(d)', Settled(d, r) PROVE Settled(d, r)'
    <3>1. d \notin rec.dead
      BY <1>3, <1>6, QuietRuns
    <3> QED
      BY <1>3, <1>5, <2>1, <3>1 DEF Settled
  <2>2. \A b \in Actor : ~ Starting(b) /\ ~ Starting(b)' /\ op'[b].kind # "stop"
    BY <1>2, <1>3 DEF Busy, Starting
  <2> QED
    BY <1>6, <2>1, <2>2, BotsKept DEF SafeInv
<1>10. RowsInv'
  <2>1. ASSUME NEW d \in DOMAIN row'
        PROVE  \/ d \in DOMAIN row /\ row'[d] = row[d]
               \/ Complete(d)' /\ Flagged(d)'
    <3>1. CASE d \in rec.dead
      <4>1. AliveRuns(d)' = {} /\ row'[d].status = "stopped"
        BY <1>3, <1>5, <1>6, <3>1, QuietRuns
      <4> QED
        BY <4>1, StoppedRowIsSafe
    <3>2. CASE d \notin rec.dead
      BY <1>5, <3>2
    <3> QED
      BY <3>1, <3>2
  <2> QED
    BY <1>6, <2>1, RowsKept DEF SafeInv
<1> QED
  BY <1>1, <1>7, <1>8, <1>9, <1>10 DEF SafeInv

\* the second loop starts the bot on the row as it is
LEMMA ReconcileNextSafe ==
    ASSUME SafeInv, ~ Overlap, NEW d \in Deployment, ReconcileNext(d)
    PROVE  SafeInv'
<1> DEFINE a == "reconcile"
<1>1. TypeInv' /\ a \in Actor /\ ~ Busy(a) /\ ~ Starting(a) /\ op[a] = Idle /\ rec.phase = "restart"
  <2>1. TypeInv'
    BY ReconcileNextType DEF SafeInv
  <2> QED
    BY <2>1 DEF ReconcileNext, Actor, Busy, Starting, Idle
<1>2. Own(a, d) /\ d \in DOMAIN row /\ Seen(d) = row[d]
  BY <1>1, FreeIsOwn DEF ReconcileNext, SafeInv, ReconcileInv, Seen
<1>3. RecKept(d)
  <2>1. d \in rec.todo /\ d \notin rec.dead /\ rec' = [rec EXCEPT !.todo = @ \ {d}]
    BY DEF ReconcileNext, SafeInv, ReconcileInv
  <2>2. /\ rec'.phase = rec.phase /\ rec'.fresh = rec.fresh /\ rec'.rows = rec.rows
        /\ rec'.todo = rec.todo \ {d} /\ rec'.dead = rec.dead
    BY <2>1 DEF SafeInv, TypeInv, RecInv
  <2> QED
    BY <1>1, <2>1, <2>2 DEF RecKept
<1>4. CASE UNCHANGED <<row, registry, proc, op, restarts, failed>>
  <2>1. Quieter /\ OthersKept(d)
    BY <1>4, KeptProcesses DEF OthersKept
  <2>2. BotsInv' /\ RowsInv'
    BY <1>4, <2>1, BotsAndRowsKept
  <2>3. ActorsInv'
    <3>1. op' = [op EXCEPT ![a] = Idle] /\ Idle.kind = "idle"
      BY <1>1, <1>4 DEF SafeInv, TypeInv, Idle
    <3> QED
      BY <1>1, <1>2, <1>3, <2>1, <3>1, ActorsKept DEF SafeInv, TypeInv
  <2>4. ReconcileInv'
    <3>1. ASSUME NEW e \in rec'.todo \cup rec'.dead
          PROVE  e \in DOMAIN row' /\ row'[e] = row[e] /\ AliveRuns(e)' \subseteq AliveRuns(e)
      <4>1. e \in rec.todo \cup rec.dead
        BY <1>3 DEF RecKept
      <4> QED
        BY <1>4, <2>1, <4>1, QuietRuns DEF SafeInv, ReconcileInv
    <3> QED
      BY <1>3, <3>1, ReconcileKept DEF SafeInv
  <2> QED
    BY <1>1, <2>2, <2>3, <2>4 DEF SafeInv
<1>5. CASE RefuseStart(a, d, row[d])
  BY <1>1, <1>2, <1>3, <1>5, RefuseStartSafe
<1>6. CASE Spawn(a, d, row[d])
  <2>1. AliveRuns(d) = {}
    BY <1>1, <1>2, <1>6, NobodyStarts, FoundBot DEF Spawn
  <2> QED
    BY <1>1, <1>2, <1>3, <1>6, <2>1, SpawnStep
<1> QED
  BY <1>2, <1>4, <1>5, <1>6 DEF ReconcileNext

\* the thread ends with nothing left to do
LEMMA ReconcileEndSafe == ASSUME SafeInv, ReconcileEnd PROVE SafeInv'
<1>1. TypeInv' /\ UNCHANGED <<row, registry, proc, op>> /\ op["reconcile"].kind = "idle"
  BY ReconcileEndType DEF SafeInv, ReconcileEnd, Idle
<1>2. rec'.todo = {} /\ rec'.dead = {} /\ rec'.phase = "off"
  BY DEF ReconcileEnd
<1>3. BotsInv' /\ RowsInv'
  BY <1>1, KeptProcesses, BotsAndRowsKept
<1>4. ActorsInv' /\ ReconcileInv'
  BY <1>1, <1>2 DEF SafeInv, ActorsInv, ReconcileInv, Busy
<1> QED
  BY <1>1, <1>3, <1>4 DEF SafeInv

\* after a restart with the container there are no bots and no operations
LEMMA RestartSafe == ASSUME SafeInv, ~ CockpitAlone, Restart PROVE SafeInv'
<1>1. TypeInv' /\ row' = row
  BY RestartType DEF SafeInv, Restart
<1>2. \A d : AliveRuns(d)' = {}
  <2>1. proc' = [r \in DOMAIN proc |-> [proc[r] EXCEPT !.st = "gone"]]
    BY DEF Restart
  <2>2. \A r \in DOMAIN proc : proc[r] \in Process
    BY ProcTypes DEF SafeInv, TypeInv
  <2>3. \A r \in DOMAIN proc' : proc'[r].st = "gone"
    BY <2>1, <2>2 DEF Process
  <2> QED
    BY <2>3 DEF AliveRuns, Alive
<1>3. \A a \in Actor : op'[a].kind = "idle"
  <2>1. op' = [a \in Actor |-> Idle]
    BY DEF Restart
  <2> QED
    BY <2>1 DEF Idle
<1>4. /\ rec'.phase = "clean" /\ rec'.dead = {} /\ rec'.rows = row /\ rec'.fresh = FALSE
      /\ rec'.todo \subseteq DOMAIN row
  BY DEF Restart
<1>5. ActorsInv'
  BY <1>3, <1>4 DEF ActorsInv, Busy, Actor
<1>6. ReconcileInv'
  BY <1>1, <1>2, <1>4 DEF ReconcileInv
<1>7. BotsInv'
  BY <1>2, <1>3 DEF BotsInv, StartsInv, Starting
<1>8. RowsInv'
  BY <1>1, <1>2 DEF SafeInv, RowsInv, Complete, Flagged
<1> QED
  BY <1>1, <1>5, <1>6, <1>7, <1>8 DEF SafeInv

-----------------------------------------------------------------------------
\* at the start there are no bots
LEMMA InitSafe == Init => SafeInv
<1> SUFFICES ASSUME Init PROVE SafeInv
  OBVIOUS
<1>1. TypeInv /\ DOMAIN row = {} /\ DOMAIN proc = {} /\ \A a \in Actor : op[a].kind = "idle"
  BY InitTypes DEF Init, Idle
<1>2. rec.todo = {} /\ rec.dead = {} /\ rec.phase = "off"
  BY DEF Init
<1>3. ActorsInv /\ ReconcileInv
  BY <1>1, <1>2 DEF ActorsInv, ReconcileInv, Busy, Actor
<1>4. BotsInv /\ RowsInv
  BY <1>1 DEF BotsInv, StartsInv, RowsInv, Starting, AliveRuns
<1> QED
  BY <1>1, <1>3, <1>4 DEF SafeInv

\* every step keeps the invariant
LEMMA SafeStep == ~ Overlap /\ ~ CockpitAlone /\ SafeInv /\ [Next]_vars => SafeInv'
<1> SUFFICES ASSUME ~ Overlap, ~ CockpitAlone, SafeInv, [Next]_vars PROVE SafeInv'
  OBVIOUS
<1>1. CASE \E r \in DOMAIN proc : BotStep(r) \/ BotDies(r)
  BY <1>1, RegisterSafe, BindSafe, ExitSafe, BotDiesSafe DEF BotStep
<1>2. CASE \E d \in Deployment : WebRequest(d) \/ Command(d)
  <2>1. PICK d \in Deployment, a \in Actor \ {"reconcile"} :
            BeginStart(a, d) \/ (\E next \in AfterStop : BeginStop(a, d, next)) \/ Change(a, d)
    BY <1>2 DEF WebRequest, Command, Actor
  <2> QED
    BY <2>1, BeginStartSafe, BeginStopSafe, CreateSafe, EditSafe DEF Change
<1>3. CASE \E a \in Actor : Wait(a)
  BY <1>3, FinishStartSafe, AbortStartSafe, FinishStopSafe, StartAgainSafe DEF Wait
<1>4. CASE ReconcileStep
  BY <1>4, ReconcileProbeSafe, ReconcileCleanSafe, ReconcileNextSafe, ReconcileEndSafe
  DEF ReconcileStep
<1>5. CASE Restart
  BY <1>5, RestartSafe
<1>6. CASE UNCHANGED vars
  <2>1. TypeInv' /\ UNCHANGED <<row, registry, proc, op, rec>>
    BY <1>6, UnchangedType DEF SafeInv, vars
  <2> QED
    BY <2>1, KeptProcesses, ProcessStep
<1> QED
  BY <1>1, <1>2, <1>3, <1>4, <1>5, <1>6 DEF Next

\* one live bot is a set of one
LEMMA SafeInvImpliesNoDuplicateBots == SafeInv => NoDuplicateBots
<1> SUFFICES ASSUME SafeInv, NEW d \in Deployment PROVE Cardinality(AliveRuns(d)) <= 1
  BY DEF NoDuplicateBots
<1>1. CASE AliveRuns(d) = {}
  BY <1>1, FS_EmptySet
<1>2. CASE AliveRuns(d) # {}
  <2>1. PICK r : AliveRuns(d) = {r}
    BY <1>2, OneBot
  <2>2. Cardinality({r}) = 1
    BY FS_Singleton
  <2> QED
    BY <2>1, <2>2
<1> QED
  BY <1>1, <1>2

\* the other properties are parts of the invariant
LEMMA SafeInvImplies ==
    SafeInv => NoOrphans /\ RunningRowsAreComplete /\ StaleBotsAreFlagged
BY DEF SafeInv, BotsInv, RowsInv, Spawned, Starting, Settled, Complete, Flagged,
       NoOrphans, RunningRowsAreComplete, StaleBotsAreFlagged

\* the invariant holds in every reachable state
LEMMA SafeInvAlways == ASSUME ~ Overlap, ~ CockpitAlone PROVE Spec => []SafeInv
<1>1. SafeInv /\ [Next]_vars => SafeInv'
  BY SafeStep
<1> QED
  BY <1>1, InitSafe, PTL DEF Spec

\* As long as no two actors work on one deployment and the cockpit restarts with its
\* container only, no deployment ever has two live bots.
THEOREM NoDuplicateBotsAlways ==
    ASSUME ~ Overlap, ~ CockpitAlone PROVE Spec => []NoDuplicateBots
BY SafeInvAlways, SafeInvImpliesNoDuplicateBots, PTL

\* Under the same conditions, every live bot can be found and stopped through its row and
\* its registry file, or belongs to a start in progress, or is ending.
THEOREM NoOrphansAlways == ASSUME ~ Overlap, ~ CockpitAlone PROVE Spec => []NoOrphans
BY SafeInvAlways, SafeInvImplies, PTL

\* Under the same conditions, a row that says running has a run and a control port, and is
\* meant to run: the commits of starts, stops and reconciliations never mix columns.
THEOREM RunningRowsAreCompleteAlways ==
    ASSUME ~ Overlap, ~ CockpitAlone PROVE Spec => []RunningRowsAreComplete
BY SafeInvAlways, SafeInvImplies, PTL

\* Under the same conditions, a bot that runs on other settings than those of its row is
\* flagged, although a start commits needs_restart = False long after it has read the row.
THEOREM StaleBotsAreFlaggedAlways ==
    ASSUME ~ Overlap, ~ CockpitAlone PROVE Spec => []StaleBotsAreFlagged
BY SafeInvAlways, SafeInvImplies, PTL

=============================================================================
