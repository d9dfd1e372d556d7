------------------------- MODULE HistoryFlushProofs -------------------------
(***************************************************************************)
(* Proofs about HistoryFlush.  The inductive invariant relates the          *)
(* snapshots that writer threads hold, the files, the memory and the dirty  *)
(* marks for every conversation outside `exposed`.                          *)
(***************************************************************************)
EXTENDS HistoryFlush, TLAPS

Live(s) == thread[s].st # "idle"

\* A live writer's snapshot of k is the version in memory, if it will clear k's mark or
\* may still write k's file; a file it has written holds that version; and a file that
\* differs from memory is marked dirty.
Agrees(k) ==
    /\ Live("active") /\ k \in thread["active"].keys
          => thread["active"].snap[k] = mem[k]
    /\ Live("active") /\ k \in thread["active"].keys \ thread["active"].todo
          => disk[k] = mem[k]
    /\ Live("orphan") /\ k \in thread["orphan"].todo
          => thread["orphan"].snap[k] = mem[k]
    /\ disk[k] # mem[k] => k \in dirtyKeys

\* a process that is down has no threads
DownIsIdle == ~Running => \A s \in Slot : ~Live(s)

\* The inductive invariant behind StaleFilesAreDirty and WritesAreCurrent.
FilesInv ==
    /\ TypeOK
    /\ DownIsIdle
    /\ \A k \in Conversation \ cached : mem[k] = 0
    /\ \A k \in Conversation \ exposed : Agrees(k)

\* From flush() on nothing becomes dirty, so each flush snapshots all that is dirty.
ShutdownFlushesAll ==
    /\ phase \in {"drain", "final", "closing", "exited"} => task = "none"
    /\ phase \in {"drain", "final"} /\ Live("active") => dirtyKeys \subseteq thread["active"].keys
    /\ phase \in {"closing", "exited"} => gaveUp \/ dirtyKeys = {}

\* The inductive invariant behind DirtyHasFlushTask and ExitIsDurable.
FlushInv == TypeOK /\ DirtyHasFlushTask /\ ShutdownFlushesAll

-----------------------------------------------------------------------------
(* Type correctness.                                                        *)

\* The writer without work is a writer.
LEMMA IdleIsWriter == Idle \in Writer /\ Idle.todo \subseteq Idle.keys
  BY DEF Idle, Writer

\* A conversation that is opened is not among those it evicts.
LEMMA VictimsAreOthers ==
  ASSUME NEW k \in Conversation, NEW W \in Victims(k)
  PROVE  W \subseteq cached /\ k \notin W
  BY DEF Victims

\* Only files of evicted conversations may fail to be unlinked.
LEMMA UnlinkFailuresAmong ==
  ASSUME NEW W, NEW F \in UnlinkFailures(W)
  PROVE  F \subseteq W
  BY DEF UnlinkFailures

\* Storing a conversation keeps the types, whomever it evicts.
LEMMA StoreTypes ==
  ASSUME TypeOK, NEW k \in Conversation, NEW v \in Nat, NEW W, NEW F, Store(k, v, W, F)
  PROVE  /\ cached' \subseteq Conversation
         /\ mem' \in [Conversation -> Nat]
         /\ disk' \in [Conversation -> Nat]
  BY DEF TypeOK, Store

\* Starting a writer keeps the types.
LEMMA StartWriterTypes ==
  ASSUME TypeOK, NEW t, StartWriter(t),
         t \in [Slot -> Writer], \A s \in Slot : t[s].todo \subseteq t[s].keys
  PROVE  /\ thread' \in [Slot -> Writer]
         /\ \A s \in Slot : thread'[s].todo \subseteq thread'[s].keys
         /\ exposed' \subseteq Conversation
  <1>1. [st |-> "busy", keys |-> dirtyKeys, todo |-> dirtyKeys,
         snap |-> [k \in Conversation |-> IF k \in dirtyKeys THEN mem[k] ELSE 0]] \in Writer
    BY DEF TypeOK, Writer
  <1>2. QED
    BY <1>1 DEF TypeOK, StartWriter, SnapshotIn, Slot

\* A writer's return keeps the types.
LEMMA ActiveReturnsTypes ==
  ASSUME TypeOK, ActiveReturns
  PROVE  /\ dirtyKeys' \subseteq Conversation
         /\ thread' \in [Slot -> Writer]
         /\ \A s \in Slot : thread'[s].todo \subseteq thread'[s].keys
         /\ gaveUp' \in BOOLEAN
  <1>1. thread["active"] \in Writer
    BY DEF TypeOK, Slot
  <1>2. dirtyKeys' \subseteq Conversation
    BY <1>1 DEF TypeOK, ActiveReturns, DirtyAfterWrite, Writer
  <1>3. QED
    BY <1>2, IdleIsWriter DEF TypeOK, ActiveReturns, Slot

\* Every step keeps the types.
LEMMA TypeStep == TypeOK /\ [Next]_vars => TypeOK'
  <1> SUFFICES ASSUME TypeOK, [Next]_vars PROVE TypeOK'
    OBVIOUS
  <1>a. thread["active"] \in Writer /\ thread["orphan"] \in Writer
    BY DEF TypeOK, Slot
  <1>1. ASSUME NEW k \in Conversation, Touch(k) PROVE TypeOK'
    <2>1. ver[k] + 1 \in Nat
      BY DEF TypeOK
    <2>2. PICK W \in Victims(k) : \E F \in UnlinkFailures(W) :
             Store(k, ver[k] + 1, W, F) /\ exposed' = Expose(W \cup {k}, F)
      BY <1>1 DEF Touch
    <2>3. PICK F \in UnlinkFailures(W) :
             Store(k, ver[k] + 1, W, F) /\ exposed' = Expose(W \cup {k}, F)
      BY <2>2
    <2>4. W \subseteq Conversation /\ F \subseteq Conversation
      BY VictimsAreOthers, UnlinkFailuresAmong DEF TypeOK
    <2>5. exposed' \subseteq Conversation
      BY <2>3, <2>4 DEF Expose, TypeOK
    <2>6. ver' \in [Conversation -> Nat] /\ dirtyKeys' \subseteq Conversation
          /\ task' \in {"none", "sleeping", "writing"} /\ gaveUp' \in BOOLEAN
      BY <1>1, <2>1 DEF Touch, MarkDirty, TypeOK
    <2>7. QED
      BY <1>1, <2>1, <2>3, <2>5, <2>6, StoreTypes DEF Touch, TypeOK
  <1>2. ASSUME NEW k \in Conversation, Open(k) PROVE TypeOK'
    <2>1. PICK W \in Victims(k) : \E F \in UnlinkFailures(W) :
             Store(k, 0, W, F) /\ exposed' = Expose(W, F)
      BY <1>2 DEF Open
    <2>2. PICK F \in UnlinkFailures(W) :
             Store(k, 0, W, F) /\ exposed' = Expose(W, F)
      BY <2>1
    <2>3. W \subseteq Conversation /\ F \subseteq Conversation
      BY VictimsAreOthers, UnlinkFailuresAmong DEF TypeOK
    <2>4. exposed' \subseteq Conversation
      BY <2>2, <2>3 DEF Expose, TypeOK
    <2>5. QED
      BY <1>2, <2>2, <2>4, StoreTypes DEF Open, TypeOK
  <1>3. ASSUME NEW k \in Conversation, Clear(k) PROVE TypeOK'
    <2>1. exposed' \subseteq Conversation
      BY <1>3 DEF Clear, Expose, TypeOK
    <2>2. QED
      BY <1>3, <2>1, StoreTypes DEF Clear, MarkDirty, TypeOK
  <1>4. CASE FlushTimer
    BY <1>4, StartWriterTypes DEF FlushTimer, TypeOK
  <1>5. ASSUME NEW s \in Slot, NEW k \in Conversation, WriteFile(s, k) PROVE TypeOK'
    <2>1. thread[s] \in Writer /\ thread[s].snap[k] \in Nat
      BY DEF TypeOK, Writer
    <2>2. [thread[s] EXCEPT !.todo = @ \ {k}] \in Writer
      BY <2>1 DEF Writer
    <2>3. /\ thread' \in [Slot -> Writer]
          /\ \A r \in Slot : thread'[r].todo \subseteq thread'[r].keys
      BY <1>5, <2>1, <2>2 DEF WriteFile, TypeOK, Writer
    <2>4. QED
      BY <1>5, <2>1, <2>3 DEF WriteFile, TypeOK, loopVars
  <1>6. ASSUME NEW s \in Slot, WriteFails(s) PROVE TypeOK'
    <2>1. thread[s] \in Writer
      BY DEF TypeOK
    <2>2. [thread[s] EXCEPT !.st = "failed"] \in Writer
      BY <2>1 DEF Writer
    <2>3. /\ thread' \in [Slot -> Writer]
          /\ \A r \in Slot : thread'[r].todo \subseteq thread'[r].keys
      BY <1>6, <2>1, <2>2 DEF WriteFails, TypeOK, Writer
    <2>4. QED
      BY <1>6, <2>3 DEF WriteFails, TypeOK, loopVars
  <1>7. CASE FlushReturns
    BY <1>7, ActiveReturnsTypes DEF FlushReturns, ActiveReturns, TypeOK
  <1>8. CASE OrphanReturns
    BY <1>8, IdleIsWriter DEF OrphanReturns, TypeOK, loopVars
  <1>9. CASE Flush
    <2>1. CASE FlushNoTask
      BY <1>9, <2>1, StartWriterTypes DEF Flush, FlushNoTask, FinalFlushFrom, TypeOK, Phase
    <2>2. CASE FlushCancelsSleep
      BY <1>9, <2>2, StartWriterTypes DEF Flush, FlushCancelsSleep, DrainFrom, TypeOK, Phase
    <2>3. CASE FlushCancelsWrite
      <3>1. PICK t \in {[thread EXCEPT !["orphan"] = thread["active"], !["active"] = Idle],
                        [thread EXCEPT !["active"] = Idle]} : DrainFrom(t)
        BY <2>3 DEF FlushCancelsWrite
      <3>2. t \in [Slot -> Writer] /\ \A s \in Slot : t[s].todo \subseteq t[s].keys
        BY <1>a, IdleIsWriter DEF TypeOK, Slot
      <3>3. QED
        BY <1>9, <3>1, <3>2, StartWriterTypes DEF Flush, DrainFrom, TypeOK, Phase
    <2>4. QED
      BY <1>9, <2>1, <2>2, <2>3 DEF Flush
  <1>10. CASE DrainReturns
    BY <1>10, ActiveReturnsTypes DEF DrainReturns, ActiveReturns, TypeOK
  <1>11. CASE FinalFlush
    BY <1>11, StartWriterTypes DEF FinalFlush, FinalFlushFrom, TypeOK, Phase, loopVars
  <1>12. CASE FinalReturns
    BY <1>12, ActiveReturnsTypes DEF FinalReturns, ActiveReturns, TypeOK, Phase
  <1>13. CASE Exit
    BY <1>13 DEF Exit, TypeOK, Phase, loopVars
  <1>14. CASE Crash
    BY <1>14, IdleIsWriter DEF Crash, TypeOK, Phase
  <1>15. CASE Restart
    <2>0. PICK W \in ExcessFiles : \E F \in UnlinkFailures(W) : Load(W, F) /\ exposed' = F
      BY <1>15 DEF Restart
    <2>1. PICK F \in UnlinkFailures(W) : Load(W, F) /\ exposed' = F
      BY <2>0
    <2>2. W \subseteq Conversation /\ F \subseteq Conversation
      BY <2>1, UnlinkFailuresAmong DEF ExcessFiles, HistoryFiles
    <2>3. /\ cached' \subseteq Conversation
          /\ mem' \in [Conversation -> Nat]
          /\ disk' \in [Conversation -> Nat]
      BY <2>1 DEF Load, HistoryFiles, TypeOK
    <2>4. QED
      BY <1>15, <2>1, <2>2, <2>3 DEF Restart, TypeOK, Phase
  <1>16. CASE UNCHANGED vars
    BY <1>16 DEF vars, TypeOK
  <1>17. QED
    BY <1>1, <1>2, <1>3, <1>4, <1>5, <1>6, <1>7, <1>8, <1>9, <1>10, <1>11, <1>12, <1>13,
       <1>14, <1>15, <1>16 DEF Next, WriterStep, LoopStep

\* The types hold at first.
LEMMA InitTypes == Init => TypeOK
  <1> SUFFICES ASSUME Init PROVE TypeOK
    OBVIOUS
  <1>1. /\ thread \in [Slot -> Writer]
        /\ \A s \in Slot : thread[s].todo \subseteq thread[s].keys
    BY IdleIsWriter DEF Init
  <1>2. /\ mem \in [Conversation -> Nat]
        /\ ver \in [Conversation -> Nat]
        /\ disk \in [Conversation -> Nat]
    BY DEF Init
  <1>3. QED
    BY <1>1, <1>2 DEF Init, TypeOK, Phase

\* The store's state stays well typed, whatever the conversations and the cap.
THEOREM TypeCorrectness == Spec => []TypeOK
  <1>1. Init => TypeOK
    BY InitTypes
  <1>2. TypeOK /\ [Next]_vars => TypeOK'
    BY TypeStep
  <1>3. QED
    BY <1>1, <1>2, PTL DEF Spec

-----------------------------------------------------------------------------
(* Files, memory and dirty marks.                                           *)

\* A key that no live writer holds agrees trivially with the writers.
LEMMA ChangedKeyAgrees ==
  ASSUME NEW k \in Conversation, ~Held(k),
         UNCHANGED thread, TypeOK,
         disk'[k] = mem'[k] \/ k \in dirtyKeys'
  PROVE  Agrees(k)'
  <1>1. Live("active") => k \notin thread["active"].keys
    BY DEF Held, HeldBy, Live
  <1>2. Live("orphan") => k \notin thread["orphan"].todo
    BY DEF Held, HeldBy, Live
  <1>3. Live("active")' = Live("active") /\ Live("orphan")' = Live("orphan")
    BY DEF Live
  <1>4. QED
    BY <1>1, <1>2, <1>3 DEF Agrees

\* A conversation that a step does not touch goes on agreeing with its file.
LEMMA UnchangedKeyAgrees ==
  ASSUME NEW k \in Conversation, Agrees(k), UNCHANGED thread,
         disk'[k] = disk[k], mem'[k] = mem[k], dirtyKeys \subseteq dirtyKeys'
  PROVE  Agrees(k)'
  BY DEF Agrees, Live

\* A new snapshot agrees with memory on the keys it takes.
LEMMA StartWriterAgrees ==
  ASSUME FilesInv, NEW t \in [Slot -> Writer], StartWriter(t),
         UNCHANGED <<mem, disk, dirtyKeys>>,
         \A k \in Conversation \ exposed : t["orphan"].st # "idle" /\ k \in t["orphan"].todo
             => t["orphan"].snap[k] = mem[k]
  PROVE  \A k \in Conversation \ exposed' : Agrees(k)'
  <1> SUFFICES ASSUME NEW k \in Conversation \ exposed' PROVE Agrees(k)'
    OBVIOUS
  <1>1. /\ thread'["active"] = [st |-> "busy", keys |-> dirtyKeys, todo |-> dirtyKeys,
                  snap |-> [c \in Conversation |-> IF c \in dirtyKeys THEN mem[c] ELSE 0]]
        /\ thread'["orphan"] = t["orphan"]
    BY DEF StartWriter, SnapshotIn, Slot
  <1>2. k \in dirtyKeys => thread'["active"].snap[k] = mem'[k]
    BY <1>1
  <1>3. k \in exposed => k \in dirtyKeys /\ (t["orphan"].st # "idle" => k \notin t["orphan"].todo)
    BY DEF StartWriter
  <1>4. k \notin exposed => Agrees(k)
    BY DEF FilesInv
  <1>5. disk'[k] # mem'[k] => k \in dirtyKeys'
    BY <1>3, <1>4 DEF Agrees
  <1>6. t["orphan"].st # "idle" /\ k \in t["orphan"].todo => t["orphan"].snap[k] = mem[k]
    BY <1>3
  <1>7. QED
    BY <1>1, <1>2, <1>5, <1>6 DEF Agrees, Live

\* A conversation still agrees with its file when the writer returns.
LEMMA ActiveReturnsAgrees ==
  ASSUME FilesInv, ActiveReturns
  PROVE  \A k \in Conversation \ exposed' : Agrees(k)'
  <1> SUFFICES ASSUME NEW k \in Conversation \ exposed' PROVE Agrees(k)'
    OBVIOUS
  <1>1. /\ thread'["active"] = Idle /\ thread'["orphan"] = thread["orphan"]
        /\ mem' = mem /\ disk' = disk /\ exposed' = exposed
    BY DEF ActiveReturns, FilesInv, TypeOK, Slot
  <1>2. Agrees(k)
    BY <1>1 DEF FilesInv
  <1>3. disk'[k] # mem'[k] => k \in dirtyKeys'
    <2>1. CASE thread["active"].st = "failed"
      BY <1>1, <1>2, <2>1 DEF ActiveReturns, DirtyAfterWrite, Agrees
    <2>2. CASE thread["active"].st = "busy" /\ thread["active"].todo = {}
      BY <1>1, <1>2, <2>2 DEF ActiveReturns, DirtyAfterWrite, Agrees, Live
    <2>3. QED
      BY <2>1, <2>2 DEF ActiveReturns, WriterDone
  <1>4. QED
    BY <1>1, <1>2, <1>3 DEF Agrees, Live, Idle

\* Every step keeps FilesInv.
LEMMA FilesInvStep == FilesInv /\ [Next]_vars => FilesInv'
  <1> SUFFICES ASSUME FilesInv, [Next]_vars PROVE FilesInv'
    OBVIOUS
  <1> DEFINE Empty == \A k \in Conversation \ cached : mem[k] = 0
             Agree == \A k \in Conversation \ exposed : Agrees(k)
  <1>0. TypeOK /\ TypeOK'
    BY TypeStep DEF FilesInv
  <1> SUFFICES DownIsIdle' /\ Empty' /\ Agree'
    BY <1>0 DEF FilesInv
  <1>1. ASSUME NEW k \in Conversation, Touch(k) PROVE DownIsIdle' /\ Empty' /\ Agree'
    <2>1. PICK W \in Victims(k) : \E F \in UnlinkFailures(W) :
             Store(k, ver[k] + 1, W, F) /\ exposed' = Expose(W \cup {k}, F)
      BY <1>1 DEF Touch
    <2>2. PICK F \in UnlinkFailures(W) :
             Store(k, ver[k] + 1, W, F) /\ exposed' = Expose(W \cup {k}, F)
      BY <2>1
    <2>3. k \notin W /\ F \subseteq W /\ UNCHANGED thread
      BY <1>1, VictimsAreOthers, UnlinkFailuresAmong DEF Touch
    <2>4. dirtyKeys' = dirtyKeys \cup {k}
      BY <1>1 DEF Touch, MarkDirty
    <2>5. ASSUME NEW c \in Conversation \ exposed' PROVE Agrees(c)'
      <3>1. CASE c = k
        <4>1. ~Held(c)
          BY <2>2, <3>1 DEF Expose
        <4>2. QED
          BY <4>1, <2>3, <2>4, <3>1, <1>0, ChangedKeyAgrees
      <3>2. CASE c \in W
        <4>1. ~Held(c) /\ c \notin F
          BY <2>2, <3>2, <2>5 DEF Expose
        <4>2. mem'[c] = 0 /\ disk'[c] = 0
          BY <2>2, <2>3, <3>2, <4>1 DEF Store
        <4>3. QED
          BY <4>1, <4>2, <2>3, <1>0, ChangedKeyAgrees
      <3>3. CASE c # k /\ c \notin W
        <4>1. c \notin exposed
          BY <2>2, <2>5, <3>3 DEF Expose
        <4>2. mem'[c] = mem[c] /\ disk'[c] = disk[c]
          BY <2>2, <3>3 DEF Store
        <4>3. Agrees(c)
          BY <4>1, <2>5 DEF FilesInv
        <4>4. QED
          BY <4>2, <4>3, <2>3, <2>4, <2>5, UnchangedKeyAgrees
      <3>4. QED
        BY <3>1, <3>2, <3>3
    <2>6. Empty'
      BY <2>2 DEF Store, FilesInv
    <2>7. DownIsIdle'
      BY <1>1 DEF Touch, DownIsIdle, Running
    <2>8. QED
      BY <2>5, <2>6, <2>7
  <1>2. ASSUME NEW k \in Conversation, Open(k) PROVE DownIsIdle' /\ Empty' /\ Agree'
    <2>1. PICK W \in Victims(k) : \E F \in UnlinkFailures(W) :
             Store(k, 0, W, F) /\ exposed' = Expose(W, F)
      BY <1>2 DEF Open
    <2>2. PICK F \in UnlinkFailures(W) :
             Store(k, 0, W, F) /\ exposed' = Expose(W, F)
      BY <2>1
    <2>3. k \notin W /\ F \subseteq W /\ UNCHANGED <<thread, dirtyKeys>>
      BY <1>2, VictimsAreOthers, UnlinkFailuresAmong DEF Open
    <2>4. ASSUME NEW c \in Conversation \ exposed' PROVE Agrees(c)'
      <3>1. CASE c \in W
        <4>1. ~Held(c) /\ c \notin F
          BY <2>2, <3>1, <2>4 DEF Expose
        <4>2. mem'[c] = 0 /\ disk'[c] = 0
          BY <2>2, <2>3, <3>1, <4>1 DEF Store
        <4>3. QED
          BY <4>1, <4>2, <2>3, <1>0, ChangedKeyAgrees
      <3>2. CASE c \notin W
        <4>1. c \notin exposed
          BY <2>2, <2>4, <3>2 DEF Expose
        <4>2. mem'[c] = mem[c] /\ disk'[c] = disk[c]
          BY <1>2, <2>2, <3>2 DEF Store, Open, FilesInv
        <4>3. Agrees(c)
          BY <4>1, <2>4 DEF FilesInv
        <4>4. QED
          BY <4>2, <4>3, <2>3, <2>4, UnchangedKeyAgrees
      <3>3. QED
        BY <3>1, <3>2
    <2>5. Empty'
      BY <2>2 DEF Store, FilesInv
    <2>6. DownIsIdle'
      BY <1>2 DEF Open, DownIsIdle, Running
    <2>7. QED
      BY <2>4, <2>5, <2>6
  <1>3. ASSUME NEW k \in Conversation, Clear(k) PROVE DownIsIdle' /\ Empty' /\ Agree'
    <2>1. Store(k, 0, {}, {}) /\ dirtyKeys' = dirtyKeys \cup {k} /\ UNCHANGED thread
          /\ exposed' = Expose({k}, {})
      BY <1>3 DEF Clear, MarkDirty
    <2>2. ASSUME NEW c \in Conversation \ exposed' PROVE Agrees(c)'
      <3>1. CASE c = k
        <4>1. ~Held(c)
          BY <2>1, <3>1, <2>2 DEF Expose
        <4>2. QED
          BY <4>1, <2>1, <3>1, <1>0, ChangedKeyAgrees
      <3>2. CASE c # k
        <4>1. c \notin exposed
          BY <2>1, <2>2, <3>2 DEF Expose
        <4>2. mem'[c] = mem[c] /\ disk'[c] = disk[c]
          BY <2>1, <3>2 DEF Store
        <4>3. Agrees(c)
          BY <4>1, <2>2 DEF FilesInv
        <4>4. QED
          BY <4>2, <4>3, <2>1, <2>2, UnchangedKeyAgrees
      <3>3. QED
        BY <3>1, <3>2
    <2>3. Empty'
      BY <2>1 DEF Store, FilesInv
    <2>4. DownIsIdle'
      BY <1>3 DEF Clear, DownIsIdle, Running
    <2>5. QED
      BY <2>2, <2>3, <2>4
  <1>4. CASE FlushTimer
    <2>1. DownIsIdle' /\ Empty'
      BY <1>4 DEF FlushTimer, DownIsIdle, Running, FilesInv
    <2>2. UNCHANGED <<mem, disk, dirtyKeys>>
      BY <1>4 DEF FlushTimer
    <2>3. ASSUME UNCHANGED <<thread, exposed>> PROVE Agree'
      BY <2>2, <2>3, UnchangedKeyAgrees DEF FilesInv
    <2>4. ASSUME StartWriter(thread) PROVE Agree'
      <3>1. thread \in [Slot -> Writer]
        BY <1>0 DEF TypeOK
      <3>2. \A k \in Conversation \ exposed :
               thread["orphan"].st # "idle" /\ k \in thread["orphan"].todo
                  => thread["orphan"].snap[k] = mem[k]
        BY DEF FilesInv, Agrees, Live
      <3>3. QED
        BY <2>2, <2>4, <3>1, <3>2, StartWriterAgrees
    <2>5. QED
      BY <1>4, <2>1, <2>3, <2>4 DEF FlushTimer
  <1>5. ASSUME NEW s \in Slot, NEW k \in Conversation, WriteFile(s, k)
        PROVE  DownIsIdle' /\ Empty' /\ Agree'
    <2>1. /\ thread' = [thread EXCEPT ![s].todo = @ \ {k}]
          /\ disk' = [disk EXCEPT ![k] = thread[s].snap[k]]
          /\ k \in thread[s].todo /\ k \in thread[s].keys /\ Live(s)
          /\ UNCHANGED <<mem, cached, exposed, dirtyKeys, phase>>
      BY <1>5, <1>0 DEF WriteFile, loopVars, TypeOK, Live
    <2>2. ASSUME NEW c \in Conversation \ exposed' PROVE Agrees(c)'
      <3>1. Agrees(c)
        BY <2>1, <2>2 DEF FilesInv
      <3>2. c = k => disk'[c] = mem'[c]
        BY <2>1, <3>1, <1>0 DEF Agrees, Slot, TypeOK
      <3>3. c # k => disk'[c] = disk[c]
        BY <2>1, <1>0 DEF TypeOK
      <3>4. /\ thread'["active"].st = thread["active"].st
            /\ thread'["active"].keys = thread["active"].keys
            /\ thread'["active"].snap = thread["active"].snap
            /\ thread'["active"].todo \subseteq thread["active"].todo
            /\ thread["active"].todo \ thread'["active"].todo \subseteq {k}
            /\ thread'["orphan"].st = thread["orphan"].st
            /\ thread'["orphan"].snap = thread["orphan"].snap
            /\ thread'["orphan"].todo \subseteq thread["orphan"].todo
        BY <2>1, <1>0 DEF Slot, TypeOK, Writer
      <3>5. QED
        BY <2>1, <3>1, <3>2, <3>3, <3>4 DEF Agrees, Live
    <2>3. QED
      BY <1>5, <2>1, <2>2 DEF WriteFile, DownIsIdle, Running, FilesInv
  <1>6. ASSUME NEW s \in Slot, WriteFails(s) PROVE DownIsIdle' /\ Empty' /\ Agree'
    <2>1. /\ thread' = [thread EXCEPT ![s].st = "failed"] /\ thread[s].st = "busy"
          /\ UNCHANGED <<mem, disk, cached, exposed, dirtyKeys, phase>>
      BY <1>6 DEF WriteFails, loopVars
    <2>2. ASSUME NEW c \in Conversation \ exposed' PROVE Agrees(c)'
      <3>1. Agrees(c)
        BY <2>1, <2>2 DEF FilesInv
      <3>2. ASSUME NEW r \in Slot
            PROVE  /\ Live(r)' = Live(r)
                   /\ thread'[r].keys = thread[r].keys
                   /\ thread'[r].todo = thread[r].todo
                   /\ thread'[r].snap = thread[r].snap
        BY <2>1, <1>0 DEF TypeOK, Live, Writer
      <3>3. QED
        BY <2>1, <3>1, <3>2 DEF Agrees, Slot
    <2>3. QED
      BY <1>6, <2>1, <2>2 DEF WriteFails, DownIsIdle, Running, FilesInv
  <1>7. CASE FlushReturns
    BY <1>7, ActiveReturnsAgrees
    DEF FlushReturns, ActiveReturns, DownIsIdle, Running, FilesInv
  <1>8. CASE OrphanReturns
    <2>1. /\ thread'["active"] = thread["active"] /\ thread'["orphan"] = Idle
          /\ UNCHANGED <<mem, disk, cached, exposed, dirtyKeys, phase>>
      BY <1>8, <1>0 DEF OrphanReturns, loopVars, TypeOK, Slot
    <2>2. Agree'
      BY <2>1 DEF FilesInv, Agrees, Live, Idle
    <2>3. QED
      BY <1>8, <2>1, <2>2 DEF OrphanReturns, DownIsIdle, Running, FilesInv
  <1>9. CASE Flush
    <2>1. phase = "up" /\ UNCHANGED <<cached, mem, ver, dirtyKeys, disk, gaveUp>>
      BY <1>9 DEF Flush
    <2>2. PICK t \in {thread, [thread EXCEPT !["orphan"] = thread["active"], !["active"] = Idle],
                      [thread EXCEPT !["active"] = Idle]} :
             FinalFlushFrom(t) \/ DrainFrom(t)
      BY <1>9 DEF Flush, FlushNoTask, FlushCancelsSleep, FlushCancelsWrite
    <2>3. t \in [Slot -> Writer]
      BY <1>0, IdleIsWriter DEF TypeOK, Slot
    <2>4. ASSUME NEW k \in Conversation \ exposed
          PROVE  /\ t["orphan"].st # "idle" /\ k \in t["orphan"].todo
                       => t["orphan"].snap[k] = mem[k]
                 /\ t["active"].st # "idle" => t["active"] = thread["active"]
      BY <1>0 DEF FilesInv, Agrees, Live, TypeOK, Slot, Idle
    <2>5. DownIsIdle'
      BY <2>2 DEF DownIsIdle, Running, FinalFlushFrom, DrainFrom
    <2>6. Agree'
      <3>1. CASE StartWriter(t)
        BY <2>1, <2>3, <2>4, <3>1, StartWriterAgrees
      <3>2. CASE thread' = t /\ UNCHANGED exposed
        BY <2>1, <2>4, <3>2 DEF FilesInv, Agrees, Live
      <3>3. QED
        BY <2>2, <3>1, <3>2 DEF FinalFlushFrom, DrainFrom
    <2>7. QED
      BY <2>1, <2>5, <2>6 DEF FilesInv
  <1>10. CASE DrainReturns
    BY <1>10, ActiveReturnsAgrees
    DEF DrainReturns, ActiveReturns, DownIsIdle, Running, FilesInv
  <1>11. CASE FinalFlush
    <2>1. UNCHANGED <<cached, mem, dirtyKeys, disk>>
      BY <1>11 DEF FinalFlush, loopVars
    <2>2. ASSUME StartWriter(thread) PROVE Agree'
      <3>1. thread \in [Slot -> Writer]
        BY <1>0 DEF TypeOK
      <3>2. \A k \in Conversation \ exposed :
               thread["orphan"].st # "idle" /\ k \in thread["orphan"].todo
                  => thread["orphan"].snap[k] = mem[k]
        BY DEF FilesInv, Agrees, Live
      <3>3. QED
        BY <2>1, <2>2, <3>1, <3>2, StartWriterAgrees
    <2>3. ASSUME UNCHANGED <<thread, exposed>> PROVE Agree'
      BY <2>1, <2>3, UnchangedKeyAgrees DEF FilesInv
    <2>4. QED
      BY <1>11, <2>1, <2>2, <2>3
      DEF FinalFlush, FinalFlushFrom, DownIsIdle, Running, FilesInv
  <1>12. CASE FinalReturns
    BY <1>12, ActiveReturnsAgrees
    DEF FinalReturns, ActiveReturns, DownIsIdle, Running, FilesInv
  <1>13. CASE Exit
    BY <1>13, UnchangedKeyAgrees DEF Exit, loopVars, DownIsIdle, Live, FilesInv
  <1>14. CASE Crash
    <2>1. \A s \in Slot : ~Live(s)'
      BY <1>14 DEF Crash, Live, Idle
    <2>2. Agree'
      BY <1>14, <2>1 DEF Crash, FilesInv, Agrees, Slot
    <2>3. QED
      BY <1>14, <2>1, <2>2 DEF Crash, DownIsIdle, FilesInv
  <1>15. CASE Restart
    <2>1. \A s \in Slot : ~Live(s)'
      BY <1>15 DEF Restart, FilesInv, DownIsIdle, Live
    <2>2. PICK W \in ExcessFiles : \E F \in UnlinkFailures(W) : Load(W, F) /\ exposed' = F
      BY <1>15 DEF Restart
    <2>3. PICK F \in UnlinkFailures(W) : Load(W, F) /\ exposed' = F
      BY <2>2
    <2>4. Agree'
      BY <2>1, <2>3 DEF Load, Agrees, Slot
    <2>5. Empty'
      BY <2>3 DEF Load, HistoryFiles
    <2>6. QED
      BY <2>1, <2>4, <2>5 DEF DownIsIdle
  <1>16. CASE UNCHANGED vars
    BY <1>16, UnchangedKeyAgrees DEF vars, DownIsIdle, Running, Live, FilesInv
  <1>17. QED
    BY <1>0, <1>1, <1>2, <1>3, <1>4, <1>5, <1>6, <1>7, <1>8, <1>9, <1>10, <1>11, <1>12,
       <1>13, <1>14, <1>15, <1>16 DEF Next, WriterStep, LoopStep, FilesInv

\* FilesInv holds at first.
LEMMA FilesInvInit == Init => FilesInv
  <1> SUFFICES ASSUME Init PROVE FilesInv
    OBVIOUS
  <1>1. \A s \in Slot : ~Live(s)
    BY DEF Init, Live, Idle
  <1>2. \A k \in Conversation : Agrees(k)
    BY <1>1 DEF Init, Agrees, Slot
  <1>3. QED
    BY <1>1, <1>2, InitTypes DEF Init, FilesInv, DownIsIdle, Running

\* The property, from the invariant.
LEMMA FilesInvImplies == FilesInv => StaleFilesAreDirty
  BY DEF FilesInv, StaleFilesAreDirty, Agrees

\* Every file that differs from memory is marked dirty, unless its conversation changed
\* under a writer's snapshot or its deletion failed.
THEOREM StaleFilesAreDirtyAlways == Spec => []StaleFilesAreDirty
  <1>1. FilesInv /\ [Next]_vars => FilesInv'
    BY FilesInvStep
  <1>2. QED
    BY FilesInvInit, <1>1, FilesInvImplies, PTL DEF Spec

\* Only the writer threads, evictions and the loading of the files change a file, and
\* each of them brings it to the version in memory outside `exposed`.
LEMMA StepWritesCurrent ==
  ASSUME FilesInv, [Next]_vars, NEW k \in Conversation,
         disk'[k] # disk[k], k \notin exposed'
  PROVE  disk'[k] = mem'[k]
  <1>0. TypeOK
    BY DEF FilesInv
  <1>1. ASSUME NEW c \in Conversation, Touch(c) PROVE disk'[k] = mem'[k]
    <2>1. PICK W \in Victims(c) : \E F \in UnlinkFailures(W) : Store(c, ver[c] + 1, W, F)
      BY <1>1 DEF Touch
    <2>2. QED
      BY <2>1, VictimsAreOthers DEF Store, TypeOK
  <1>2. ASSUME NEW c \in Conversation, Open(c) PROVE disk'[k] = mem'[k]
    <2>1. PICK W \in Victims(c) : \E F \in UnlinkFailures(W) : Store(c, 0, W, F)
      BY <1>2 DEF Open
    <2>2. QED
      BY <2>1, VictimsAreOthers DEF Store, TypeOK
  <1>3. ASSUME NEW c \in Conversation, Clear(c) PROVE disk'[k] = mem'[k]
    BY <1>3 DEF Clear, Store, TypeOK
  <1>4. ASSUME NEW s \in Slot, NEW c \in Conversation, WriteFile(s, c)
        PROVE  disk'[k] = mem'[k]
    <2>1. c = k /\ disk'[k] = thread[s].snap[k] /\ k \in thread[s].todo
          /\ k \in thread[s].keys /\ Live(s) /\ UNCHANGED <<mem, exposed>>
      BY <1>0, <1>4 DEF WriteFile, TypeOK, loopVars, Live
    <2>2. Agrees(k)
      BY <2>1 DEF FilesInv
    <2>3. QED
      BY <2>1, <2>2 DEF Agrees, Slot
  <1>5. CASE Restart
    <2>1. PICK W \in ExcessFiles : \E F \in UnlinkFailures(W) : Load(W, F) /\ exposed' = F
      BY <1>5 DEF Restart
    <2>2. QED
      BY <2>1 DEF Load
  <1>6. CASE UNCHANGED disk
    BY <1>6
  <1>7. QED
    BY <1>1, <1>2, <1>3, <1>4, <1>5, <1>6
    DEF Next, LoopStep, WriterStep, WriteFails, FlushTimer, FlushReturns, OrphanReturns, Flush,
        DrainReturns, FinalFlush, FinalReturns, Exit, Crash, ActiveReturns, vars

\* A file only ever changes to the version in memory, outside `exposed`.
THEOREM WritesAreCurrentAlways == Spec => WritesAreCurrent
  <1>1. FilesInv /\ [Next]_vars => FilesInv'
    BY FilesInvStep
  <1>2. FilesInv /\ [Next]_vars =>
          [\A k \in Conversation :
              disk'[k] # disk[k] => disk'[k] = mem'[k] \/ k \in exposed']_vars
    BY StepWritesCurrent
  <1>3. QED
    BY FilesInvInit, <1>1, <1>2, PTL DEF Spec, WritesAreCurrent

-----------------------------------------------------------------------------
(* Flush tasks and shutdown.                                                *)

\* Every step keeps FlushInv.
LEMMA FlushInvStep == FlushInv /\ [Next]_vars => FlushInv'
  <1> SUFFICES ASSUME FlushInv, [Next]_vars PROVE DirtyHasFlushTask' /\ ShutdownFlushesAll'
    BY TypeStep DEF FlushInv
  <1>0. TypeOK /\ thread["active"] \in Writer
    BY DEF FlushInv, TypeOK, Slot
  <1> USE DEF DirtyHasFlushTask, ShutdownFlushesAll
  <1>1. ASSUME NEW k \in Conversation, Touch(k) \/ Open(k) \/ Clear(k)
        PROVE  DirtyHasFlushTask' /\ ShutdownFlushesAll'
    BY <1>0, <1>1 DEF FlushInv, Touch, Open, Clear, MarkDirty, TypeOK
  <1>2. CASE FlushTimer
    BY <1>0, <1>2 DEF FlushInv, FlushTimer, Running, TypeOK, Phase
  <1>3. ASSUME NEW s \in Slot, NEW k \in Conversation, WriteFile(s, k)
        PROVE  DirtyHasFlushTask' /\ ShutdownFlushesAll'
    <2>1. thread'["active"].keys = thread["active"].keys
          /\ thread'["active"].st = thread["active"].st
      BY <1>0, <1>3 DEF WriteFile, TypeOK, Slot, Writer
    <2>2. QED
      BY <1>3, <2>1 DEF FlushInv, WriteFile, loopVars, Live
  <1>4. ASSUME NEW s \in Slot, WriteFails(s)
        PROVE  DirtyHasFlushTask' /\ ShutdownFlushesAll'
    <2>1. thread'["active"].keys = thread["active"].keys
          /\ (Live("active")' => Live("active"))
      BY <1>0, <1>4 DEF WriteFails, TypeOK, Slot, Writer, Live
    <2>2. QED
      BY <1>4, <2>1 DEF FlushInv, WriteFails, loopVars
  <1>5. CASE FlushReturns
    BY <1>0, <1>5 DEF FlushInv, FlushReturns, ActiveReturns, RespawnAfterWrite, TypeOK, Phase, Running
  <1>6. CASE OrphanReturns
    <2>1. thread'["active"] = thread["active"]
      BY <1>0, <1>6 DEF OrphanReturns, TypeOK, Slot
    <2>2. QED
      BY <1>6, <2>1 DEF FlushInv, OrphanReturns, loopVars, Live
  <1>7. CASE Flush
    <2>1. ASSUME NEW t, StartWriter(t), t \in [Slot -> Writer]
          PROVE  thread'["active"].keys = dirtyKeys
      BY <2>1 DEF StartWriter, SnapshotIn, Slot
    <2>2. PICK t \in {thread, [thread EXCEPT !["orphan"] = thread["active"], !["active"] = Idle],
                      [thread EXCEPT !["active"] = Idle]} :
             FinalFlushFrom(t) \/ DrainFrom(t)
      BY <1>7 DEF Flush, FlushNoTask, FlushCancelsSleep, FlushCancelsWrite
    <2>3. t \in [Slot -> Writer]
      BY <1>0, IdleIsWriter DEF TypeOK, Slot
    <2>4. QED
      BY <1>7, <2>1, <2>2, <2>3 DEF Flush, FinalFlushFrom, DrainFrom
  <1>8. CASE DrainReturns
    BY <1>0, <1>8 DEF FlushInv, DrainReturns, ActiveReturns, RespawnAfterWrite, DirtyAfterWrite,
       WriterDone, TypeOK, Live, Slot, Idle
  <1>9. CASE FinalFlush
    <2>1. StartWriter(thread) => thread'["active"].keys = dirtyKeys
      BY <1>0 DEF StartWriter, SnapshotIn, Slot, TypeOK
    <2>2. QED
      BY <1>9, <2>1 DEF FlushInv, FinalFlush, FinalFlushFrom, loopVars
  <1>10. CASE FinalReturns
    BY <1>0, <1>10 DEF FlushInv, FinalReturns, ActiveReturns, RespawnAfterWrite, DirtyAfterWrite,
       WriterDone, TypeOK, Live
  <1>11. CASE Exit
    BY <1>11 DEF FlushInv, Exit, loopVars
  <1>12. CASE Crash
    BY <1>12 DEF Crash
  <1>13. CASE Restart
    BY <1>13 DEF Restart
  <1>14. CASE UNCHANGED vars
    BY <1>14 DEF FlushInv, vars, Live
  <1>15. QED
    BY <1>1, <1>2, <1>3, <1>4, <1>5, <1>6, <1>7, <1>8, <1>9, <1>10, <1>11, <1>12, <1>13,
       <1>14 DEF Next, LoopStep, WriterStep

\* FlushInv holds at first.
LEMMA FlushInvInit == Init => FlushInv
  BY InitTypes DEF Init, FlushInv, DirtyHasFlushTask, ShutdownFlushesAll

\* No wake-up is lost: while the process is up, dirty conversations wait for a scheduled
\* or running flush, or for the next change after a failed one.
THEOREM DirtyHasFlushTaskAlways == Spec => []DirtyHasFlushTask
  <1>1. FlushInv /\ [Next]_vars => FlushInv'
    BY FlushInvStep
  <1>2. FlushInv => DirtyHasFlushTask
    BY DEF FlushInv
  <1>3. QED
    BY FlushInvInit, <1>1, <1>2, PTL DEF Spec

\* A graceful exit whose last flush succeeded loses nothing outside `exposed`.
THEOREM ExitIsDurableAlways == Spec => []ExitIsDurable
  <1>1. FlushInv /\ [Next]_vars => FlushInv'
    BY FlushInvStep
  <1>2. FilesInv /\ [Next]_vars => FilesInv'
    BY FilesInvStep
  <1>3. FilesInv /\ FlushInv => ExitIsDurable
    BY FilesInvImplies DEF FlushInv, ShutdownFlushesAll, StaleFilesAreDirty, ExitIsDurable
  <1>4. QED
    BY FlushInvInit, FilesInvInit, <1>1, <1>2, <1>3, PTL DEF Spec

=============================================================================
