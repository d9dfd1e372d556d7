------------------------ MODULE DeploymentLifecycle ------------------------
(***************************************************************************)
(* Bot deployments of the cockpit (cockpit/deployments.py and               *)
(* deployment_process.py): the database rows, the run registry files        *)
(* (runs.py), the bot processes, and the three actors that start and stop   *)
(* them.  The web routes run start and stop on the event loop and block it, *)
(* so all of them are one actor; the CLI is another, and the reconcile      *)
(* thread of a starting cockpit is the third.                               *)
(*                                                                          *)
(* Each actor works on its own session: it reads a row, waits for a process *)
(* and then commits the columns it has changed.  What lies between two      *)
(* waits is one step.  Looking up a run and spawning the next one is one    *)
(* step too, since it is part of the wait for the new run seen by others.   *)
(*                                                                          *)
(* A bot process is known by its run id and is never confused with another  *)
(* one of the same PID (pid_start).  A bot whose parent is the cockpit      *)
(* stays a zombie until the cockpit spawns the next process or ends.        *)
(***************************************************************************)
EXTENDS Integers, FiniteSets, Sequences

CONSTANTS
    Deployment,    \* deployment ids; each has an instance id and a registry file
    MaxRuns,       \* bound on the number of processes spawned
    MaxPort,       \* the last control port (8299; the first one, 8200, is 0 here)
    MaxEdits,      \* bound on the edits of one deployment
    MaxRestarts,   \* bound on the restarts of the cockpit
    Overlap,       \* may two actors work on the same deployment at the same time?
    CockpitAlone,  \* may the cockpit restart without its container?
    ProbeFails     \* may the status call to a bot that is up fail?

ASSUME DeploymentAssumption ==
    /\ IsFiniteSet(Deployment)
    /\ MaxRuns \in Nat /\ MaxPort \in Nat /\ MaxEdits \in Nat /\ MaxRestarts \in Nat
    /\ Overlap \in BOOLEAN /\ CockpitAlone \in BOOLEAN /\ ProbeFails \in BOOLEAN

VARIABLES
    row,       \* the committed deployment rows: a function on the existing deployments
    registry,  \* the run id in each deployment's registry file
    proc,      \* the bot processes; run ids are the positions in this sequence
    op,        \* what each actor is in the middle of
    rec,       \* reconcile_deployments
    restarts,  \* the number of cockpit restarts
    failed     \* history variable: start was refused or failed since the last restart

vars == <<row, registry, proc, op, rec, restarts, failed>>

Actor == {"web", "cli", "reconcile"}
NoRun == 0
NoPort == -1

\* the columns of a row; control_port lives in the settings column
Row == [run : 0..MaxRuns,
        status : {"running", "stopped"},
        desired : {"running", "stopped"},
        needsRestart : BOOLEAN,
        settings : [port : NoPort..MaxPort, version : 0..MaxEdits]]

\* child: is the running cockpit its parent?
Process == [st : {"booting", "registered", "up", "stopping", "zombie", "gone"},
            dep : Deployment,
            port : 0..MaxPort,
            version : 0..MaxEdits,
            child : BOOLEAN]

\* what an operation that begins with a stop goes on with
AfterStop == {"nothing", "delete", "start"}

Idle == [kind |-> "idle"]
Operation == {Idle}
    \cup [kind : {"start"}, dep : Deployment, old : Row, run : 1..MaxRuns, port : 0..MaxPort]
    \cup [kind : {"stop"}, dep : Deployment, old : Row, run : 1..MaxRuns, next : AfterStop]
    \cup [kind : {"restart"}, dep : Deployment]

\* the session of reconcile_deployments holds the rows of its last query until it commits
Reconciliation == [phase : {"off", "clean", "restart"}, todo : SUBSET Deployment,
                   dead : SUBSET Deployment, fresh : BOOLEAN]

Alive(r) == proc[r].st \in {"booting", "registered", "up", "stopping"}
AliveRuns(d) == {r \in DOMAIN proc : proc[r].dep = d /\ Alive(r)}

-----------------------------------------------------------------------------
(* The registry and the rows.                                               *)

\* record_is_live: a zombie still has its PID and its start time
RecordIsLive(r) == Alive(r) \/ proc[r].st = "zombie"

\* RunRegistry.get, with the entry it prunes
Get(d) == IF registry[d] # NoRun /\ RecordIsLive(registry[d]) THEN registry[d] ELSE NoRun
AfterGet(d) == [registry EXCEPT ![d] = Get(d)]

\* resolve_run on a row read earlier
ResolveRun(d, old) == IF old.run # NoRun /\ Get(d) = old.run THEN old.run ELSE NoRun
AfterResolve(d, old) == IF old.run = NoRun THEN registry ELSE AfterGet(d)

\* a commit writes the columns whose value differs from the one that was read
Merge(current, old, new) ==
    [c \in DOMAIN current |-> IF new[c] = old[c] THEN current[c] ELSE new[c]]

\* committing the update of a row that is gone raises StaleDataError
Commit(d, old, new) ==
    row' = IF d \in DOMAIN row THEN [row EXCEPT ![d] = Merge(@, old, new)] ELSE row

Started(old, run, port) ==
    [old EXCEPT !.run = run, !.status = "running", !.desired = "running",
                !.needsRestart = FALSE, !.settings.port = port]

\* Faulty variant: the status is left for the next reconciliation
StoppedInPart(old) ==
    [old EXCEPT !.run = NoRun, !.desired = "stopped",
                !.needsRestart = FALSE, !.settings.port = NoPort]

Stopped(old) ==
    [old EXCEPT !.run = NoRun, !.status = "stopped", !.desired = "stopped",
                !.needsRestart = FALSE, !.settings.port = NoPort]

Removed(d) == [e \in DOMAIN row \ {d} |-> row[e]]

\* two actors on one deployment; the reconcile thread works on all it has queried
Free(a, d) ==
    \/ Overlap
    \/ /\ \A b \in Actor \ {a} : op[b] # Idle => op[b].dep # d
       /\ a # "reconcile" => d \notin rec.todo \cup rec.dead

-----------------------------------------------------------------------------
(* Bot processes.                                                           *)

\* the process ends; the start that waits for the run id reaps it
Ended(p) == [p EXCEPT !.st = IF p.child /\ p.st # "booting" THEN "zombie" ELSE "gone"]

Killed(r) == IF Alive(r) THEN [proc EXCEPT ![r] = Ended(@)] ELSE proc

\* _register_run
Register(r) ==
    /\ proc[r].st = "booting"
    /\ proc' = [proc EXCEPT ![r].st = "registered"]
    /\ registry' = [registry EXCEPT ![proc[r].dep] = r]
    /\ UNCHANGED <<row, op, rec, restarts, failed>>

\* bot.run binds the control port, or ends if another process holds it
Bind(r) ==
    /\ proc[r].st = "registered"
    /\ LET holders == {q \in DOMAIN proc : proc[q].st = "up" /\ proc[q].port = proc[r].port}
       IN  proc' = [proc EXCEPT ![r].st = IF holders = {} THEN "up" ELSE "stopping"]
    /\ UNCHANGED <<row, registry, op, rec, restarts, failed>>

\* _shutdown_resources removes the registry file, whichever run it holds
Exit(r) ==
    /\ proc[r].st = "stopping"
    /\ proc' = Killed(r)
    /\ registry' = [registry EXCEPT ![proc[r].dep] = NoRun]
    /\ UNCHANGED <<row, op, rec, restarts, failed>>

\* a configuration error, an unhandled exception or a kill from outside
BotDies(r) ==
    /\ Alive(r)
    /\ proc' = Killed(r)
    /\ UNCHANGED <<row, registry, op, rec, restarts, failed>>

-----------------------------------------------------------------------------
(* start.                                                                   *)

UsedPorts == {row[d].settings.port : d \in {e \in DOMAIN row : row[e].status = "running"}}

\* Faulty variant: the range is shifted by one
ShiftedFreePorts == (1..MaxPort + 1) \ UsedPorts

\* allocate_control_port
FreePorts == (0..MaxPort) \ UsedPorts
LowestFreePort == CHOOSE p \in FreePorts : \A q \in FreePorts : p <= q

\* Popen polls the children that ended before it spawns the next one
Reaped(a) ==
    IF a = "cli" THEN proc
    ELSE [r \in DOMAIN proc |-> IF proc[r].st = "zombie" THEN [proc[r] EXCEPT !.st = "gone"]
                                ELSE proc[r]]

\* already running, a required connection is not ready, or no port is free
RefuseStart(a, d, old) ==
    /\ failed' = failed \cup {d}
    /\ registry' = AfterResolve(d, old)
    /\ op' = [op EXCEPT ![a] = Idle]
    /\ UNCHANGED <<row, proc, restarts>>

\* Faulty variant: the duplicate-start guard is missing
SpawnUnguarded(a, d, old) ==
    /\ Len(proc) < MaxRuns
    /\ FreePorts # {}
    /\ proc' = Append(Reaped(a), [st |-> "booting", dep |-> d, port |-> LowestFreePort,
                                  version |-> old.settings.version, child |-> a # "cli"])
    /\ op' = [op EXCEPT ![a] = [kind |-> "start", dep |-> d, old |-> old,
                                run |-> Len(proc) + 1, port |-> LowestFreePort]]
    /\ registry' = AfterResolve(d, old)
    /\ UNCHANGED <<row, restarts, failed>>

\* start on the row `old`, up to waiting for the run id
Spawn(a, d, old) ==
    /\ ResolveRun(d, old) = NoRun
    /\ Len(proc) < MaxRuns
    /\ FreePorts # {}
    /\ proc' = Append(Reaped(a), [st |-> "booting", dep |-> d, port |-> LowestFreePort,
                                  version |-> old.settings.version, child |-> a # "cli"])
    /\ op' = [op EXCEPT ![a] = [kind |-> "start", dep |-> d, old |-> old,
                                run |-> Len(proc) + 1, port |-> LowestFreePort]]
    /\ registry' = AfterResolve(d, old)
    /\ UNCHANGED <<row, restarts, failed>>

BeginStart(a, d) ==
    /\ op[a] = Idle
    /\ d \in DOMAIN row
    /\ Free(a, d)
    /\ RefuseStart(a, d, row[d]) \/ Spawn(a, d, row[d])
    /\ UNCHANGED rec

\* has the run that a's start waits for registered, and is it still there?
Awaited(a) == Get(op[a].dep) = op[a].run

\* Faulty variant: a failed start leaves its process to itself
AbandonStart(a) ==
    /\ op[a].kind = "start"
    /\ ~ Awaited(a)
    /\ registry' = AfterGet(op[a].dep)
    /\ op' = [op EXCEPT ![a] = Idle]
    /\ failed' = failed \cup {op[a].dep}
    /\ UNCHANGED <<row, proc, rec, restarts>>

\* the process ended, or did not register in time: it is killed and reaped
AbortStart(a) ==
    /\ op[a].kind = "start"
    /\ ~ Awaited(a)
    /\ registry' = AfterGet(op[a].dep)
    /\ proc' = [proc EXCEPT ![op[a].run].st = "gone"]
    /\ op' = [op EXCEPT ![a] = Idle]
    /\ failed' = failed \cup {op[a].dep}
    /\ UNCHANGED <<row, rec, restarts>>

\* the run is registered: start commits; all rows of the session expire
FinishStart(a) ==
    /\ op[a].kind = "start"
    /\ Awaited(a)
    /\ Commit(op[a].dep, op[a].old, Started(op[a].old, op[a].run, op[a].port))
    /\ op' = [op EXCEPT ![a] = Idle]
    /\ rec' = IF a = "reconcile" THEN [rec EXCEPT !.fresh = TRUE] ELSE rec
    /\ UNCHANGED <<registry, proc, restarts, failed>>

-----------------------------------------------------------------------------
(* stop, delete, create and edit.                                           *)

\* what a's operation on d comes to after its stop; the start of a restart reads the row again
After(next, d) ==
    IF next = "start" /\ d \in DOMAIN row THEN [kind |-> "restart", dep |-> d] ELSE Idle

\* stop, also as the first half of delete and of a restart: SIGTERM if the run is there, and
\* wait
BeginStop(a, d, next) ==
    /\ op[a] = Idle
    /\ d \in DOMAIN row
    /\ Free(a, d)
    /\ LET r == ResolveRun(d, row[d])
       IN  \/ /\ r = NoRun
              /\ IF next = "delete" THEN row' = Removed(d)
                 ELSE Commit(d, row[d], Stopped(row[d]))
              /\ registry' = IF next = "delete" THEN [registry EXCEPT ![d] = NoRun]
                             ELSE AfterResolve(d, row[d])
              /\ op' = [op EXCEPT ![a] = After(next, d)]
              /\ UNCHANGED proc
           \/ /\ r # NoRun
              /\ proc' = IF Alive(r) THEN [proc EXCEPT ![r].st = "stopping"] ELSE proc
              /\ op' = [op EXCEPT ![a] = [kind |-> "stop", dep |-> d, old |-> row[d],
                                          run |-> r, next |-> next]]
              /\ UNCHANGED <<row, registry>>
    /\ UNCHANGED <<rec, restarts, failed>>

\* the process ended, or ten seconds passed and it is killed; its record is removed
FinishStop(a) ==
    /\ op[a].kind = "stop"
    /\ proc' = Killed(op[a].run)
    /\ registry' = [registry EXCEPT ![op[a].dep] = NoRun]
    /\ IF op[a].next = "delete" THEN row' = Removed(op[a].dep)
       ELSE Commit(op[a].dep, op[a].old, Stopped(op[a].old))
    /\ op' = [op EXCEPT ![a] = After(op[a].next, op[a].dep)]
    /\ UNCHANGED <<rec, restarts, failed>>

\* the second half of deployment_restart; the row may have been deleted meanwhile
StartAgain(a) ==
    /\ op[a].kind = "restart"
    /\ LET d == op[a].dep
       IN  \/ /\ d \in DOMAIN row
              /\ RefuseStart(a, d, row[d]) \/ Spawn(a, d, row[d])
           \/ /\ d \notin DOMAIN row
              /\ op' = [op EXCEPT ![a] = Idle]
              /\ UNCHANGED <<row, registry, proc, restarts, failed>>
    /\ UNCHANGED rec

NewRow == [run |-> NoRun, status |-> "stopped", desired |-> "stopped", needsRestart |-> FALSE,
           settings |-> [port |-> NoPort, version |-> 0]]

\* create: one row per operator and bot type
Create(a, d) ==
    /\ op[a] = Idle
    /\ d \notin DOMAIN row
    /\ Free(a, d)
    /\ row' = [e \in DOMAIN row \cup {d} |-> IF e = d THEN NewRow ELSE row[e]]
    /\ UNCHANGED <<registry, proc, op, rec, restarts, failed>>

\* Faulty variant: a live bot that is not flagged keeps its old settings
EditUnflagged(a, d) ==
    /\ op[a] = Idle
    /\ d \in DOMAIN row
    /\ Free(a, d)
    /\ row[d].settings.version < MaxEdits
    /\ row' = [row EXCEPT ![d].settings.version = @ + 1]
    /\ UNCHANGED <<registry, proc, op, rec, restarts, failed>>

\* edit
Edit(a, d) ==
    /\ op[a] = Idle
    /\ d \in DOMAIN row
    /\ Free(a, d)
    /\ row[d].settings.version < MaxEdits
    /\ row' = [row EXCEPT ![d].settings.version = @ + 1,
                          ![d].needsRestart = @ \/ row[d].status = "running"]
    /\ UNCHANGED <<registry, proc, op, rec, restarts, failed>>

-----------------------------------------------------------------------------
(* reconcile_deployments.                                                   *)

\* the row as the session of the reconcile thread sees it
Seen(d) == IF rec.fresh THEN row[d] ELSE rec.rows[d]

\* fetch_status is not None: the answers that a status call may have
Probe(d) ==
    LET r == ResolveRun(d, Seen(d))
    IN  IF r = NoRun THEN {FALSE}
        ELSE CASE proc[r].st = "up" -> {TRUE} \cup (IF ProbeFails THEN {FALSE} ELSE {})
               [] proc[r].st = "stopping" -> {TRUE, FALSE}
               [] OTHER -> {FALSE}

\* the first loop, over the rows whose status is running
ReconcileProbe(d) ==
    /\ rec.phase = "clean"
    /\ d \in rec.todo
    /\ Free("reconcile", d)
    /\ \E up \in Probe(d) :
          rec' = [rec EXCEPT !.todo = @ \ {d}, !.dead = IF up THEN @ ELSE @ \cup {d}]
    /\ registry' = AfterResolve(d, Seen(d))
    /\ UNCHANGED <<row, proc, op, restarts, failed>>

Crashed(old) ==
    [old EXCEPT !.status = "stopped", !.needsRestart = FALSE, !.settings.port = NoPort]

\* its commit, which fails as a whole if one of the rows is gone; then the second query
ReconcileClean ==
    /\ rec.phase = "clean"
    /\ rec.todo = {}
    /\ \A d \in DOMAIN row : Free("reconcile", d)
    /\ IF rec.dead \subseteq DOMAIN row
       THEN /\ row' = [d \in DOMAIN row |->
                          IF d \in rec.dead
                          THEN Merge(row[d], rec.rows[d], Crashed(rec.rows[d])) ELSE row[d]]
            /\ rec' = [phase |-> "restart", dead |-> {}, rows |-> row', fresh |-> FALSE,
                       todo |-> {d \in DOMAIN row : row'[d].desired = "running"}]
       ELSE /\ rec' = [rec EXCEPT !.phase = "off", !.dead = {}]
            /\ UNCHANGED row
    /\ UNCHANGED <<registry, proc, op, restarts, failed>>

\* Faulty variant: the second loop skips what it finds dead
ReconcileSkips(d) ==
    /\ rec.phase = "restart"
    /\ op["reconcile"] = Idle
    /\ d \in rec.todo
    /\ Free("reconcile", d)
    /\ rec' = [rec EXCEPT !.todo = @ \ {d}]
    /\ UNCHANGED <<row, registry, proc, op, restarts, failed>>

\* the second loop, over the rows whose desired_state is running
ReconcileNext(d) ==
    /\ rec.phase = "restart"
    /\ op["reconcile"] = Idle
    /\ d \in rec.todo
    /\ Free("reconcile", d)
    /\ rec' = [rec EXCEPT !.todo = @ \ {d}]
    /\ IF rec.fresh /\ d \notin DOMAIN row
       THEN UNCHANGED <<row, registry, proc, op, restarts, failed>>
       ELSE \/ /\ TRUE \in Probe(d)
               /\ UNCHANGED <<row, registry, proc, op, restarts, failed>>
            \/ /\ FALSE \in Probe(d)
               /\ RefuseStart("reconcile", d, Seen(d)) \/ Spawn("reconcile", d, Seen(d))

ReconcileEnd ==
    /\ rec.phase = "restart"
    /\ rec.todo = {}
    /\ op["reconcile"] = Idle
    /\ rec' = [phase |-> "off", todo |-> {}, dead |-> {}, rows |-> <<>>, fresh |-> FALSE]
    /\ UNCHANGED <<row, registry, proc, op, restarts, failed>>

\* the cockpit restarts, with its container and every process in it, or alone
Restart ==
    /\ restarts < MaxRestarts
    /\ restarts' = restarts + 1
    /\ \/ /\ proc' = [r \in DOMAIN proc |-> [proc[r] EXCEPT !.st = "gone"]]
          /\ op' = [a \in Actor |-> Idle]
       \/ /\ CockpitAlone
          /\ proc' = [r \in DOMAIN proc |->
                         [proc[r] EXCEPT !.child = FALSE,
                                         !.st = IF @ = "zombie" THEN "gone" ELSE @]]
          /\ op' = [op EXCEPT !["web"] = Idle, !["reconcile"] = Idle]
    /\ rec' = [phase |-> "clean", dead |-> {}, rows |-> row, fresh |-> FALSE,
               todo |-> {d \in DOMAIN row : row[d].status = "running"}]
    /\ failed' = {}
    /\ UNCHANGED <<row, registry>>

-----------------------------------------------------------------------------
Init ==
    /\ row = <<>>
    /\ registry = [d \in Deployment |-> NoRun]
    /\ proc = <<>>
    /\ op = [a \in Actor |-> Idle]
    /\ rec = [phase |-> "off", todo |-> {}, dead |-> {}, rows |-> <<>>, fresh |-> FALSE]
    /\ restarts = 0
    /\ failed = {}

BotStep(r) == Register(r) \/ Bind(r) \/ Exit(r)
Wait(a) == FinishStart(a) \/ AbortStart(a) \/ FinishStop(a) \/ StartAgain(a)
ReconcileStep ==
    \/ ReconcileClean \/ ReconcileEnd
    \/ \E d \in Deployment : ReconcileProbe(d) \/ ReconcileNext(d)

Change(a, d) == Create(a, d) \/ Edit(a, d)

\* the routes of the web pages
WebRequest(d) ==
    \/ BeginStart("web", d)
    \/ \E next \in AfterStop : BeginStop("web", d, next)
    \/ Change("web", d)

\* the commands `kai deployment ...`, which have no restart
Command(d) ==
    \/ BeginStart("cli", d)
    \/ \E next \in AfterStop \ {"start"} : BeginStop("cli", d, next)
    \/ Change("cli", d)

Next ==
    \/ \E r \in DOMAIN proc : BotStep(r) \/ BotDies(r)
    \/ \E d \in Deployment : WebRequest(d) \/ Command(d)
    \/ \E a \in Actor : Wait(a)
    \/ ReconcileStep
    \/ Restart

Spec == Init /\ [][Next]_vars

\* processes run, waits have timeouts, and the reconcile thread is scheduled
Fairness ==
    /\ WF_vars(\E r \in DOMAIN proc : BotStep(r))
    /\ \A a \in Actor : WF_vars(Wait(a))
    /\ WF_vars(ReconcileStep)

FairSpec == Spec /\ Fairness

-----------------------------------------------------------------------------
(* Properties.                                                              *)

\* Type correctness of the rows, the registry, the processes and the operations.
TypeOK ==
    /\ DOMAIN row \subseteq Deployment /\ \A d \in DOMAIN row : row[d] \in Row
    /\ registry \in [Deployment -> 0..Len(proc)]
    /\ Len(proc) <= MaxRuns /\ \A r \in DOMAIN proc : proc[r] \in Process
    /\ op \in [Actor -> Operation]
    /\ \A a \in Actor : op[a].kind \in {"start", "stop"} => op[a].run \in DOMAIN proc
    /\ [f \in DOMAIN rec \ {"rows"} |-> rec[f]] \in Reconciliation
    /\ DOMAIN rec.rows \subseteq Deployment /\ \A d \in DOMAIN rec.rows : rec.rows[d] \in Row
    /\ rec.todo \cup rec.dead \subseteq DOMAIN rec.rows
    /\ restarts \in 0..MaxRestarts
    /\ failed \subseteq Deployment

\* "Refuse to spawn a second bot on top of a live one": no deployment has two live bots.
NoDuplicateBots == \A d \in Deployment : Cardinality(AliveRuns(d)) <= 1

\* Every live bot can be found and stopped: its row and its registry file hold its run
\* id, unless it is ending or the start that spawned it is still in progress.
NoOrphans ==
    \A d \in Deployment : \A r \in AliveRuns(d) :
        \/ d \in DOMAIN row /\ row[d].run = r /\ registry[d] = r
        \/ proc[r].st = "stopping"
        \/ \E a \in Actor : op[a].kind = "start" /\ op[a].run = r

\* A row that says running names a run, is meant to run and has a control port, whatever
\* columns the last commits have written.
RunningRowsAreComplete ==
    \A d \in DOMAIN row : row[d].status = "running" =>
        /\ row[d].run # NoRun
        /\ row[d].desired = "running"
        /\ row[d].settings.port # NoPort

\* needs_restart: a bot that runs on other settings than those of its row is flagged.
StaleBotsAreFlagged ==
    \A d \in DOMAIN row : \A r \in AliveRuns(d) :
        row[d].run = r /\ proc[r].version # row[d].settings.version
            => row[d].needsRestart

\* After a cockpit restart every deployment that is meant to run gets a live bot, unless
\* its start is refused or fails, it is stopped or deleted, or the bound is reached.
IntentIsHonoured ==
    \A d \in Deployment :
        (rec.phase = "clean" \/ d \in rec.todo) /\ d \in DOMAIN row /\ row[d].desired = "running"
            ~> \/ AliveRuns(d) # {}
               \/ d \notin DOMAIN row
               \/ row[d].desired # "running"
               \/ d \in failed
               \/ Len(proc) = MaxRuns

\* Claim of the docstring of allocate_control_port, "Pick a free control port": no two live
\* bots, of whatever deployments, were given the same one.
ControlPortsAreFree ==
    \A q, r \in DOMAIN proc : q # r /\ Alive(q) /\ Alive(r) => proc[q].port # proc[r].port

\* Claim of the comment in start, "resolve_run returns live records only, so non-None
\* means a bot is up".
ResolvedBotsAreUp ==
    \A d \in DOMAIN row : LET r == ResolveRun(d, row[d]) IN r # NoRun => Alive(r)

\* Claim of the comment in reconcile_deployments, "if the bot is actually running but the
\* status check failed [...] leave it alone": it clears no row of a bot that is up.
LiveBotsAreLeftAlone ==
    [][\A d \in DOMAIN row \cap DOMAIN row' :
          row[d].status = "running" /\ row'[d].status = "stopped" /\ row'[d].desired = "running"
              => ~ \E r \in AliveRuns(d) : r = row[d].run /\ proc[r].st = "up"]_vars

=============================================================================
