---------------------------- MODULE HistoryFlush ----------------------------
(***************************************************************************)
(* The write-behind persistence of conversation history                    *)
(* (agent/history_store.py), from the mutators of agent/core.py down to    *)
(* the writer threads, through shutdown, crash and restart.                *)
(*                                                                         *)
(* A conversation's message list is abstracted to a version: 0 is the      *)
(* empty list and the v-th change of a conversation gives version v.  A    *)
(* file that does not exist is version 0 too, since an empty list is never *)
(* written but unlinks its file.  The conversation that the LRU order      *)
(* picks for eviction is any cached one here.  Every use of                *)
(* _save_lock in the code brackets code without an await, so each of these *)
(* critical sections is part of one atomic step.  No legacy single-file    *)
(* history exists, so no flush migrates.                                   *)
(***************************************************************************)
EXTENDS Naturals, FiniteSets

CONSTANTS
    Conversation,      \* conversation keys
    MaxConversations,  \* agent_max_conversations
    MaxTouches,        \* bound on the changes made to one conversation
    CanFail            \* may the file system raise OSError?

ASSUME HistoryFlushAssumption ==
    /\ IsFiniteSet(Conversation)
    /\ MaxConversations \in Nat \ {0}
    /\ MaxTouches \in Nat
    /\ CanFail \in BOOLEAN

VARIABLES
    cached,     \* the keys of _history
    mem,        \* the version of each conversation in memory
    ver,        \* the number of versions each conversation has had
    dirtyKeys,  \* _dirty_keys; _dirty is (dirtyKeys # {}), see Dirty
    task,       \* what _flush_task does: "none", "sleeping" or "writing"
    thread,     \* the asyncio.to_thread writers, the current and the abandoned
    disk,       \* the version in each conversation's file
    phase,      \* where the process is between start and exit
    exposed,    \* history variable: see StaleFilesAreDirty
    gaveUp      \* history variable: the last flush failed and nothing changed since

loopVars == <<cached, mem, ver, dirtyKeys, task, gaveUp>>
vars == <<cached, mem, ver, dirtyKeys, task, thread, disk, phase, exposed, gaveUp>>

Slot == {"active", "orphan"}
Phase == {"up", "drain", "final", "closing", "exited", "crashed"}

Idle == [st |-> "idle", keys |-> {}, todo |-> {}, snap |-> [k \in Conversation |-> 0]]

Writer == [st : {"idle", "busy", "failed"},
           keys : SUBSET Conversation,
           todo : SUBSET Conversation,
           snap : [Conversation -> Nat]]

Running == phase \notin {"exited", "crashed"}

\* asyncio.Lock _write_lock: held from the snapshot until flush_once returns
LockFree == thread["active"].st = "idle"

\* the conversations a thread may still write, or whose mark it will clear
HeldBy(t) == [k \in Conversation |->
                 \/ t["active"].st # "idle" /\ k \in t["active"].keys
                 \/ t["orphan"].st # "idle" /\ k \in t["orphan"].todo]

Held(k) == HeldBy(thread)[k]

-----------------------------------------------------------------------------
(* In-memory changes.                                                      *)

\* Faulty variant: the debounced flush is never scheduled
MarkDirtyWithoutTask(k) ==
    /\ dirtyKeys' = dirtyKeys \cup {k}
    /\ gaveUp' = FALSE
    /\ UNCHANGED task

\* mark_dirty: record the key, and start a debounced flush unless one is pending
MarkDirty(k) ==
    /\ dirtyKeys' = dirtyKeys \cup {k}
    /\ task' = IF task = "none" THEN "sleeping" ELSE task
    /\ gaveUp' = FALSE

\* the sets of conversations that get_history(k) may evict
Victims(k) ==
    IF k \in cached THEN {{}}
    ELSE LET room == MaxConversations - 1
         IN  IF Cardinality(cached) <= room THEN {{}}
             ELSE {W \in SUBSET cached : Cardinality(W) = Cardinality(cached) - room}

\* the sets of those victims whose unlink raises OSError, which is only logged
UnlinkFailures(W) == IF CanFail THEN SUBSET W ELSE {{}}

\* the conversations whose last change a running writer may undo or unmark
Expose(changed, F) == (exposed \ changed) \cup {k \in changed : Held(k)} \cup F

\* evict_excess_conversations over W, then the version v stored for k
Store(k, v, W, F) ==
    /\ cached' = (cached \ W) \cup {k}
    /\ mem' = [c \in Conversation |-> IF c = k THEN v ELSE IF c \in W THEN 0 ELSE mem[c]]
    /\ disk' = [c \in Conversation |-> IF c \in W \ F THEN 0 ELSE disk[c]]

\* observe, record_assistant_message or persist_turn
Touch(k) ==
    /\ phase = "up"
    /\ ver[k] < MaxTouches
    /\ ver' = [ver EXCEPT ![k] = @ + 1]
    /\ MarkDirty(k)
    /\ \E W \in Victims(k) : \E F \in UnlinkFailures(W) :
          /\ Store(k, ver[k] + 1, W, F)
          /\ exposed' = Expose(W \cup {k}, F)
    /\ UNCHANGED <<thread, phase>>

\* build_messages and get_conversation_history: get_history on a conversation that
\* is not cached creates an empty entry and evicts, without marking anything dirty
Open(k) ==
    /\ phase = "up"
    /\ k \notin cached
    /\ \E W \in Victims(k) : \E F \in UnlinkFailures(W) :
          /\ Store(k, 0, W, F)
          /\ exposed' = Expose(W, F)
    /\ UNCHANGED <<ver, dirtyKeys, task, thread, phase, gaveUp>>

\* Faulty variant: the cleared conversation is not marked dirty
ClearWithoutMark(k) ==
    /\ phase = "up"
    /\ Store(k, 0, {}, {})
    /\ exposed' = Expose({k}, {})
    /\ UNCHANGED <<ver, dirtyKeys, task, thread, phase, gaveUp>>

\* clear_history: the entry is created without evicting any other
Clear(k) ==
    /\ phase = "up"
    /\ Store(k, 0, {}, {})
    /\ MarkDirty(k)
    /\ exposed' = Expose({k}, {})
    /\ UNCHANGED <<ver, thread, phase>>

-----------------------------------------------------------------------------
(* The flush pipeline.                                                     *)

\* Faulty variant: every cached conversation is rewritten, not only the dirty ones
SnapshotAll(t) ==
    [t EXCEPT !["active"] = [st |-> "busy", keys |-> dirtyKeys, todo |-> cached, snap |-> mem]]

\* snapshot_for_flush, then the writer thread that flush_once starts
SnapshotIn(t) ==
    [t EXCEPT !["active"] =
        [st |-> "busy", keys |-> dirtyKeys, todo |-> dirtyKeys,
         snap |-> [k \in Conversation |-> IF k \in dirtyKeys THEN mem[k] ELSE 0]]]

StartWriter(t) ==
    /\ thread' = SnapshotIn(t)
    /\ exposed' = exposed \ {k \in dirtyKeys : t["orphan"].st # "idle" => k \notin t["orphan"].todo}

\* flush_after_delay wakes up; flush_now takes the lock; nothing dirty means no plan
FlushTimer ==
    /\ Running
    /\ task = "sleeping"
    /\ LockFree
    /\ \/ /\ dirtyKeys = {}
          /\ task' = "none"
          /\ UNCHANGED <<thread, exposed>>
       \/ /\ dirtyKeys # {}
          /\ task' = "writing"
          /\ StartWriter(thread)
    /\ UNCHANGED <<cached, mem, ver, dirtyKeys, disk, phase, gaveUp>>

\* write_conversation_file: an empty list unlinks the file, any other replaces it
WriteFile(s, k) ==
    /\ Running
    /\ thread[s].st = "busy"
    /\ k \in thread[s].todo
    /\ disk' = [disk EXCEPT ![k] = thread[s].snap[k]]
    /\ thread' = [thread EXCEPT ![s].todo = @ \ {k}]
    /\ UNCHANGED <<loopVars, phase, exposed>>

\* save_from_snapshot: OSError ends the run and returns False
WriteFails(s) ==
    /\ Running
    /\ CanFail
    /\ thread[s].st = "busy"
    /\ thread' = [thread EXCEPT ![s].st = "failed"]
    /\ UNCHANGED <<loopVars, disk, phase, exposed>>

WriterDone(s) ==
    \/ thread[s].st = "failed"
    \/ thread[s].st = "busy" /\ thread[s].todo = {}

\* the second half of flush_once, after the thread returned; what is dirty afterwards
DirtyAfterWrite ==
    IF thread["active"].st = "failed"
    THEN dirtyKeys \cup thread["active"].keys
    ELSE dirtyKeys \ thread["active"].keys

\* Faulty variant: what became dirty during the write waits for the next change
NeverRespawn == FALSE

\* a saved flush that leaves dirty keys starts the next one
RespawnAfterWrite == thread["active"].st # "failed" /\ DirtyAfterWrite # {}

ActiveReturns ==
    /\ WriterDone("active")
    /\ dirtyKeys' = DirtyAfterWrite
    /\ gaveUp' = (thread["active"].st = "failed")
    /\ thread' = [thread EXCEPT !["active"] = Idle]
    /\ UNCHANGED <<cached, mem, ver, disk, exposed>>

FlushReturns ==
    /\ Running
    /\ task = "writing"
    /\ ActiveReturns
    /\ task' = IF RespawnAfterWrite THEN "sleeping" ELSE "none"
    /\ UNCHANGED phase

OrphanReturns ==
    /\ Running
    /\ WriterDone("orphan")
    /\ thread' = [thread EXCEPT !["orphan"] = Idle]
    /\ UNCHANGED <<loopVars, disk, phase, exposed>>

-----------------------------------------------------------------------------
(* Shutdown: flush() as _shutdown_resources calls it.                      *)

\* Faulty variant: flush() relies on the cancelled task alone
SkipFinalFlush(t) ==
    /\ phase' = "closing"
    /\ thread' = t
    /\ UNCHANGED exposed

\* flush_now from flush(): its own plan, or straight to the end when nothing is dirty
FinalFlushFrom(t) ==
    \/ /\ dirtyKeys = {}
       /\ phase' = "closing"
       /\ thread' = t
       /\ UNCHANGED exposed
    \/ /\ dirtyKeys # {}
       /\ phase' = "final"
       /\ StartWriter(t)

\* flush_now from the CancelledError handler of flush_after_delay
DrainFrom(t) ==
    /\ phase' = "drain"
    /\ \/ dirtyKeys = {} /\ thread' = t /\ UNCHANGED exposed
       \/ dirtyKeys # {} /\ StartWriter(t)

\* the task is done, or is cancelled before its first step
FlushNoTask ==
    /\ task # "writing"
    /\ FinalFlushFrom(thread)

\* the task is cancelled in its sleep and flushes in its handler
FlushCancelsSleep ==
    /\ task = "sleeping"
    /\ DrainFrom(thread)

\* the task is cancelled while its thread writes: the thread goes on by itself,
\* or is withdrawn from the executor when it has not been picked up yet
FlushCancelsWrite ==
    /\ task = "writing"
    /\ \/ DrainFrom([thread EXCEPT !["orphan"] = thread["active"], !["active"] = Idle])
       \/ /\ thread["active"].st = "busy"
          /\ thread["active"].todo = thread["active"].keys
          /\ DrainFrom([thread EXCEPT !["active"] = Idle])

Flush ==
    /\ phase = "up"
    /\ FlushNoTask \/ FlushCancelsSleep \/ FlushCancelsWrite
    /\ task' = "none"
    /\ UNCHANGED <<cached, mem, ver, dirtyKeys, disk, gaveUp>>

\* the cancelled task's own flush ends; a task it starts is no longer _flush_task
DrainReturns ==
    /\ phase = "drain"
    /\ task # "writing"
    /\ ActiveReturns
    /\ task' = IF RespawnAfterWrite THEN "sleeping" ELSE task
    /\ UNCHANGED phase

\* flush() goes on after the cancelled task
FinalFlush ==
    /\ phase = "drain"
    /\ LockFree
    /\ FinalFlushFrom(thread)
    /\ UNCHANGED <<loopVars, disk>>

FinalReturns ==
    /\ phase = "final"
    /\ task # "writing"
    /\ ActiveReturns
    /\ task' = IF RespawnAfterWrite THEN "sleeping" ELSE task
    /\ phase' = "closing"

\* asyncio.run ends: leftover tasks have run and the executor's threads are joined
Exit ==
    /\ phase = "closing"
    /\ task = "none"
    /\ \A s \in Slot : thread[s].st = "idle"
    /\ phase' = "exited"
    /\ UNCHANGED <<loopVars, thread, disk, exposed>>

\* SIGKILL or a power loss, at any point; temp files are replaced atomically
Crash ==
    /\ Running
    /\ phase' = "crashed"
    /\ thread' = [s \in Slot |-> Idle]
    /\ task' = "none"
    /\ UNCHANGED <<cached, mem, ver, dirtyKeys, disk, exposed, gaveUp>>

HistoryFiles == {k \in Conversation : disk[k] # 0}

\* cap_history_paths: the sets of files that are deleted because they exceed the cap
ExcessFiles ==
    LET n == Cardinality(HistoryFiles)
    IN  {S \in SUBSET HistoryFiles :
            Cardinality(S) = IF n <= MaxConversations THEN 0 ELSE n - MaxConversations}

\* load_conversation_dir without the files of W, those of F resisting deletion
Load(W, F) ==
    /\ cached' = HistoryFiles \ W
    /\ mem' = [k \in Conversation |-> IF k \in W THEN 0 ELSE disk[k]]
    /\ disk' = [k \in Conversation |-> IF k \in W \ F THEN 0 ELSE disk[k]]

\* a new process loads the history that the files hold
Restart ==
    /\ ~Running
    /\ \E W \in ExcessFiles : \E F \in UnlinkFailures(W) : Load(W, F) /\ exposed' = F
    /\ dirtyKeys' = {}
    /\ phase' = "up"
    /\ gaveUp' = FALSE
    /\ UNCHANGED <<ver, task, thread>>

-----------------------------------------------------------------------------
Init ==
    /\ cached = {}
    /\ mem = [k \in Conversation |-> 0]
    /\ ver = [k \in Conversation |-> 0]
    /\ dirtyKeys = {}
    /\ task = "none"
    /\ thread = [s \in Slot |-> Idle]
    /\ disk = [k \in Conversation |-> 0]
    /\ phase = "up"
    /\ exposed = {}
    /\ gaveUp = FALSE

WriterStep(s) == WriteFails(s) \/ \E k \in Conversation : WriteFile(s, k)

LoopStep ==
    \/ FlushTimer \/ FlushReturns \/ OrphanReturns
    \/ Flush \/ DrainReturns \/ FinalFlush \/ FinalReturns \/ Exit

Next ==
    \/ \E k \in Conversation : Touch(k) \/ Open(k) \/ Clear(k)
    \/ \E s \in Slot : WriterStep(s)
    \/ LoopStep
    \/ Crash
    \/ Restart

Spec == Init /\ [][Next]_vars

\* the event loop runs every ready callback and the OS runs every thread
Fairness ==
    /\ WF_vars(FlushTimer)
    /\ WF_vars(FlushReturns \/ OrphanReturns)
    /\ WF_vars(DrainReturns \/ FinalFlush \/ FinalReturns \/ Exit)
    /\ \A s \in Slot : WF_vars(WriterStep(s))

FairSpec == Spec /\ Fairness

-----------------------------------------------------------------------------
(* Properties.                                                             *)

\* Type correctness of the history store's state, in memory and on disk.
TypeOK ==
    /\ cached \subseteq Conversation
    /\ mem \in [Conversation -> Nat]
    /\ ver \in [Conversation -> Nat]
    /\ dirtyKeys \subseteq Conversation
    /\ task \in {"none", "sleeping", "writing"}
    /\ thread \in [Slot -> Writer]
    /\ \A s \in Slot : thread[s].todo \subseteq thread[s].keys
    /\ disk \in [Conversation -> Nat]
    /\ phase \in Phase
    /\ exposed \subseteq Conversation
    /\ gaveUp \in BOOLEAN

\* A conversation whose file differs from memory is marked dirty, so that a later
\* flush writes it, unless its last change was made while a writer thread held an
\* older snapshot of it (or its unlink failed): `exposed` holds exactly those.  This
\* bounds what mark_dirty, flush_once and flush() may lose to that one window.
StaleFilesAreDirty ==
    \A k \in Conversation : disk[k] # mem[k] => k \in dirtyKeys \cup exposed

\* What a writer thread does to a file brings it to the version in memory, unless the
\* conversation changed under its snapshot: the write lock orders the writes as it
\* orders the snapshots, and no write brings back an evicted or cleared conversation.
WritesAreCurrent ==
    [][\A k \in Conversation :
          disk'[k] # disk[k] => disk'[k] = mem'[k] \/ k \in exposed']_vars

\* While the process is up every dirty conversation has a flush task on its way, except
\* between a failed flush and the next change: mark_dirty and flush_once lose no wake-up.
DirtyHasFlushTask ==
    (phase = "up" /\ dirtyKeys # {}) => task # "none" \/ gaveUp

\* A graceful exit whose last flush succeeded leaves no conversation stale on disk unless
\* its last change raced with a writer thread.
ExitIsDurable ==
    (phase = "exited" /\ ~gaveUp) =>
        \A k \in Conversation : disk[k] # mem[k] => k \in exposed

\* A changed conversation reaches the disk without any further change to it, unless
\* the change raced with a writer, the flush fails or the process crashes first.
ChangesReachDisk ==
    \A k \in Conversation :
       (disk[k] # mem[k]) ~> (disk[k] = mem[k] \/ k \in exposed \/ gaveUp \/ phase = "crashed")

\* Claim of flush's docstring, "Persist any pending history changes immediately": after a
\* graceful exit the files hold what memory held.
FlushPersistsEverything ==
    phase = "exited" => \A k \in Conversation : disk[k] = mem[k]

=============================================================================
