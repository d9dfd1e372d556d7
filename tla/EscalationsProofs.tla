------------------------- MODULE EscalationsProofs -------------------------
(***************************************************************************)
(* The two promises of the escalation stores, for any bots, operators and   *)
(* calls, any number of restarts, lost and doubled posts and failed saves.  *)
(***************************************************************************)
EXTENDS Escalations, TLAPS

TypeInv ==
    /\ call \in [Call -> [st : {"none", "posting", "returned"}, bot : Bot \cup {Unknown},
                          contact : Contact \cup {Unknown}]]
    /\ store \in [Bot -> SUBSET Call]
    /\ file \in [Bot -> SUBSET Call]
    /\ posts \subseteq Call
    /\ cockpit \in [Call -> Resolver \cup {Active, Unknown}]
    /\ disk \in [Call -> Resolver \cup {Active, Unknown}]

\* what a bot stores are calls of its own
OwnInv ==
    \A b \in Bot : \A c \in store[b] \cup file[b] : call[c].bot = b /\ call[c].st # "none"

\* a call that has left its bot was stored there before
Left(c) == c \in posts \/ cockpit[c] # Unknown \/ disk[c] # Unknown

RecordedInv ==
    \A c \in Call : Left(c) =>
        /\ call[c].st # "none" /\ call[c].bot \in Bot
        /\ c \notin unsaved => c \in store[call[c].bot] /\ c \in file[call[c].bot]

\* the cockpit's file is current but for what a failed save left out
DiskInv == \A c \in Call : c \notin undone => disk[c] = cockpit[c]

BotInv == TypeInv /\ OwnInv /\ RecordedInv

-----------------------------------------------------------------------------
(* The bot's store and the cockpit's.                                       *)

\* Nothing is recorded or shown at first.
LEMMA InitBotInv == EscalationInit => BotInv
BY DEF EscalationInit, BotInv, TypeInv, OwnInv, RecordedInv, Left, NoCall, Unknown, Active

\* EscalationState.record stores before it posts, and a save writes the whole store.
LEMMA RecordBotInv ==
    ASSUME BotInv, NEW c \in Call, NEW b \in Bot, NEW a \in Contact, NEW list,
           call[c].st = "none", RecordEscalation(c, b, a, list)
    PROVE  BotInv'
<1>1. TypeInv'
  BY DEF BotInv, TypeInv, RecordEscalation, Saved, cockpitVars
<1>2. PICK ok \in SaveOutcome :
        /\ file' = [file EXCEPT ![b] = Saved(ok, store'[b], @)]
        /\ unsaved' = IF ok THEN unsaved \ store'[b] ELSE unsaved \cup {c}
  BY DEF RecordEscalation
<1>3. OwnInv'
  BY <1>2 DEF BotInv, TypeInv, OwnInv, RecordEscalation, Saved
<1>4. ASSUME NEW d \in Call, Left(d)'
      PROVE  /\ call'[d].st # "none" /\ call'[d].bot \in Bot
             /\ d \notin unsaved' => d \in store'[call'[d].bot] /\ d \in file'[call'[d].bot]
  <2>1. CASE d = c
    BY <1>2, <2>1 DEF BotInv, TypeInv, RecordEscalation, Saved
  <2>2. CASE d # c
    <3>1. Left(d)
      BY <1>4, <2>2 DEF Left, RecordEscalation, cockpitVars
    <3>2. call'[d] = call[d] /\ call[d].st # "none" /\ call[d].bot \in Bot
      BY <2>2, <3>1 DEF BotInv, TypeInv, RecordedInv, RecordEscalation
    <3>3. CASE call[d].bot # b
      <4>1. store'[call[d].bot] = store[call[d].bot] /\ file'[call[d].bot] = file[call[d].bot]
        BY <1>2, <3>2, <3>3 DEF BotInv, TypeInv, RecordEscalation
      <4>2. d \notin store'[b]
        BY <2>2, <3>3 DEF BotInv, TypeInv, OwnInv, RecordEscalation
      <4> QED
        BY <1>2, <2>2, <3>1, <3>2, <4>1, <4>2 DEF BotInv, RecordedInv
    <3>4. CASE call[d].bot = b
      <4>1. store'[b] = store[b] \cup {c}
        BY DEF BotInv, TypeInv, RecordEscalation
      <4>2. CASE ok
        <5>1. file'[b] = store'[b] /\ unsaved' = unsaved \ store'[b]
          BY <1>2, <4>2 DEF BotInv, TypeInv, Saved
        <5> QED
          BY <3>1, <3>2, <3>4, <4>1, <5>1 DEF BotInv, RecordedInv
      <4>3. CASE ~ok
        <5>1. file'[b] = file[b] /\ unsaved' = unsaved \cup {c}
          BY <1>2, <4>3 DEF BotInv, TypeInv, Saved
        <5> QED
          BY <3>1, <3>2, <3>4, <4>1, <5>1 DEF BotInv, RecordedInv
      <4> QED
        BY <4>2, <4>3
    <3> QED
      BY <3>3, <3>4
  <2> QED
    BY <2>1, <2>2
<1>5. RecordedInv'
  BY <1>4 DEF RecordedInv
<1> QED
  BY <1>1, <1>3, <1>5 DEF BotInv

\* a tool call that only ends
LEMMA ReturnBotInv ==
    ASSUME BotInv, NEW c \in Call, NEW r, r.bot = call[c].bot \/ call[c].st = "none",
           r \in [st : {"returned"}, bot : Bot \cup {Unknown}, contact : Contact \cup {Unknown}],
           call' = [call EXCEPT ![c] = r],
           UNCHANGED <<store, file, unsaved, posts, cockpitVars>>
    PROVE  BotInv'
<1>1. \A d \in Call : call'[d] = IF d = c THEN r ELSE call[d]
  BY DEF BotInv, TypeInv
<1>2. r.st = "returned"
  OBVIOUS
<1>3. TypeInv'
  BY DEF BotInv, TypeInv, cockpitVars
<1>4. OwnInv'
  BY <1>1, <1>2 DEF BotInv, TypeInv, OwnInv
<1>5. RecordedInv'
  BY <1>1, <1>2 DEF BotInv, RecordedInv, Left, cockpitVars
<1> QED
  BY <1>3, <1>4, <1>5 DEF BotInv

\* _load reads what was saved: restarting a bot forgets no record of it but the unsaved ones.
LEMMA RestartBotInv == ASSUME BotInv, NEW b \in Bot, BotRestarts(b) PROVE BotInv'
<1>1. \A d \in Call :
        /\ call'[d].bot = call[d].bot /\ call'[d].contact = call[d].contact
        /\ call'[d].st = IF call[d].bot = b /\ call[d].st = "posting" THEN "returned"
                         ELSE call[d].st
  BY DEF BotInv, TypeInv, BotRestarts
<1>2. TypeInv'
  <2>1. call' \in [Call -> [st : {"none", "posting", "returned"}, bot : Bot \cup {Unknown},
                            contact : Contact \cup {Unknown}]]
    BY DEF BotInv, TypeInv, BotRestarts
  <2> QED
    BY <2>1 DEF BotInv, TypeInv, BotRestarts, cockpitVars
<1>3. \A e \in Bot : store'[e] = (IF e = b THEN file[e] ELSE store[e]) /\ file'[e] = file[e]
  BY DEF BotInv, TypeInv, BotRestarts
<1>4. OwnInv'
  BY <1>1, <1>3 DEF BotInv, TypeInv, OwnInv
<1>5. RecordedInv'
  BY <1>1, <1>3 DEF BotInv, RecordedInv, Left, BotRestarts, cockpitVars
<1> QED
  BY <1>2, <1>4, <1>5 DEF BotInv

\* the steps of the cockpit know no call that has not left its bot
LEMMA CockpitBotInv ==
    ASSUME BotInv, UNCHANGED botVars, posts' \subseteq posts,
           cockpit' \in [Call -> Resolver \cup {Active, Unknown}],
           disk' \in [Call -> Resolver \cup {Active, Unknown}],
           \A c \in Call : Left(c)' => Left(c)
    PROVE  BotInv'
<1>1. TypeInv' /\ OwnInv'
  BY DEF BotInv, TypeInv, OwnInv, botVars
<1>2. RecordedInv'
  BY DEF BotInv, RecordedInv, botVars
<1> QED
  BY <1>1, <1>2 DEF BotInv

\* A post is taken from the way to the cockpit, where only recorded escalations are.
LEMMA IngestBotInv == ASSUME BotInv, NEW c \in Call, Ingest(c) PROVE BotInv'
<1>1. UNCHANGED botVars /\ posts' \subseteq posts /\ c \in posts
  BY DEF Ingest
<1>2. CASE UNCHANGED cockpitVars
  BY <1>1, <1>2, CockpitBotInv DEF BotInv, TypeInv, Left, cockpitVars
<1>3. CASE cockpit' = [cockpit EXCEPT ![c] = Active] /\ KeepResolution(c, Known(c))
  <2>1. /\ cockpit' \in [Call -> Resolver \cup {Active, Unknown}]
        /\ \A d \in Call : d # c => cockpit'[d] = cockpit[d]
    BY <1>3 DEF BotInv, TypeInv
  <2>2. disk' = cockpit' \/ disk' = disk
    BY <1>3 DEF KeepResolution, Saved
  <2>3. \A d \in Call : Left(d)' => Left(d)
    BY <1>1, <2>1, <2>2 DEF Left
  <2> QED
    BY <1>1, <2>1, <2>2, <2>3, CockpitBotInv DEF BotInv, TypeInv
<1> QED
  BY <1>2, <1>3 DEF Ingest

\* A resolution concerns an escalation that the cockpit knows already.
LEMMA ResolveBotInv ==
    ASSUME BotInv, NEW c \in Call, NEW u \in Resolver, Resolve(c, u) PROVE BotInv'
<1>1. UNCHANGED botVars /\ posts' = posts /\ cockpit[c] # Unknown
  BY DEF Resolve, MayResolve, Active, Unknown
<1>2. /\ cockpit' \in [Call -> Resolver \cup {Active, Unknown}]
      /\ \A d \in Call : d # c => cockpit'[d] = cockpit[d]
  BY DEF BotInv, TypeInv, Resolve
<1>3. disk' = cockpit' \/ disk' = disk
  BY DEF Resolve, KeepResolution, Saved
<1>4. \A d \in Call : Left(d)' => Left(d)
  BY <1>1, <1>2, <1>3 DEF Left
<1> QED
  BY <1>1, <1>2, <1>3, <1>4, CockpitBotInv DEF BotInv, TypeInv

\* Every step keeps the invariant.
LEMMA StepBotInv == BotInv /\ [EscalationNext]_escalationVars => BotInv'
<1> SUFFICES ASSUME BotInv, [EscalationNext]_escalationVars
             PROVE  BotInv'
  OBVIOUS
<1>1. ASSUME NEW c \in Call, NEW b \in Bot, NEW a \in Contact, Escalate(c, b, a)
      PROVE  BotInv'
  BY <1>1, RecordBotInv DEF Escalate
<1>2. ASSUME NEW c \in Call, NEW b \in Bot, NEW a \in Contact, AddToBlacklist(c, b, a)
      PROVE  BotInv'
  <2>1. PICK named \in Contact :
          IF MayBlacklist(named, a) THEN RecordEscalation(c, b, a, blacklist[b] \cup {named})
          ELSE /\ call' = [call EXCEPT ![c] = [st |-> "returned", bot |-> b, contact |-> a]]
               /\ UNCHANGED <<store, file, blacklist, unsaved, posts, cockpitVars, escRestarts>>
    BY <1>2 DEF AddToBlacklist
  <2>2. call[c].st = "none"
    BY <1>2 DEF AddToBlacklist
  <2>3. CASE MayBlacklist(named, a)
    BY <2>1, <2>2, <2>3, RecordBotInv
  <2>4. CASE ~MayBlacklist(named, a)
    <3> DEFINE r == [st |-> "returned", bot |-> b, contact |-> a]
    <3>1. r \in [st : {"returned"}, bot : Bot \cup {Unknown}, contact : Contact \cup {Unknown}]
      OBVIOUS
    <3>2. call' = [call EXCEPT ![c] = r] /\ UNCHANGED <<store, file, unsaved, posts, cockpitVars>>
      BY <2>1, <2>4
    <3> HIDE DEF r
    <3> QED
      BY <2>2, <3>1, <3>2, ReturnBotInv
  <2> QED
    BY <2>3, <2>4
<1>3. ASSUME NEW c \in Call, ForwardReturns(c)
      PROVE  BotInv'
  <2> DEFINE r == [call[c] EXCEPT !.st = "returned"]
  <2>1. /\ r \in [st : {"returned"}, bot : Bot \cup {Unknown}, contact : Contact \cup {Unknown}]
        /\ r.bot = call[c].bot
    BY DEF BotInv, TypeInv
  <2>2. call' = [call EXCEPT ![c] = r] /\ UNCHANGED <<store, file, unsaved, posts, cockpitVars>>
    BY <1>3 DEF ForwardReturns
  <2> HIDE DEF r
  <2> QED
    BY <2>1, <2>2, ReturnBotInv
<1>4. ASSUME NEW c \in Call, Ingest(c)
      PROVE  BotInv'
  BY <1>4, IngestBotInv
<1>5. ASSUME NEW c \in Call, PostIsLost(c)
      PROVE  BotInv'
  BY <1>5, CockpitBotInv DEF PostIsLost, BotInv, TypeInv, Left, cockpitVars
<1>6. ASSUME NEW c \in Call, NEW u \in Resolver, Resolve(c, u)
      PROVE  BotInv'
  BY <1>6, ResolveBotInv
<1>7. ASSUME NEW b \in Bot, BotRestarts(b)
      PROVE  BotInv'
  BY <1>7, RestartBotInv
<1>8. CASE StoreRestarts
  BY <1>8, CockpitBotInv DEF StoreRestarts, BotInv, TypeInv, Left
<1>9. CASE UNCHANGED escalationVars
  BY <1>9, CockpitBotInv DEF escalationVars, BotInv, TypeInv, Left, cockpitVars
<1> QED
  BY <1>1, <1>2, <1>3, <1>4, <1>5, <1>6, <1>7, <1>8, <1>9 DEF EscalationNext

\* Whatever the cockpit shows is in its bot's store, unless a save failed: record persists
\* before it forwards, for any bots and calls.
THEOREM CockpitShowsRecordedAlways == EscalationSpec => []CockpitShowsRecorded
<1>1. BotInv => CockpitShowsRecorded
  BY DEF BotInv, RecordedInv, CockpitShowsRecorded, Left, Known
<1> QED
  BY <1>1, InitBotInv, StepBotInv, PTL DEF EscalationSpec

-----------------------------------------------------------------------------
(* Resolutions.                                                             *)

ResolvedInv ==
    /\ cockpit \in [Call -> Resolver \cup {Active, Unknown}]
    /\ disk \in [Call -> Resolver \cup {Active, Unknown}]
    /\ DiskInv

\* a change of one call, as save_locked keeps it
LEMMA KeepInv ==
    ASSUME ResolvedInv, NEW c \in Call, NEW v \in Resolver \cup {Active, Unknown}, NEW doubled,
           cockpit' = [cockpit EXCEPT ![c] = v], KeepResolution(c, doubled)
    PROVE  ResolvedInv'
<1>1. PICK ok \in SaveOutcome :
        /\ disk' = Saved(ok, cockpit', disk)
        /\ undone' = IF doubled \/ ~ok THEN undone \cup {c} ELSE undone
  BY DEF KeepResolution
<1>2. \A d \in Call : d # c => cockpit'[d] = cockpit[d]
  BY DEF ResolvedInv
<1>3. cockpit' \in [Call -> Resolver \cup {Active, Unknown}]
  BY DEF ResolvedInv
<1>4. CASE ok
  <2>1. disk' = cockpit'
    BY <1>1, <1>4 DEF Saved
  <2> QED
    BY <1>3, <2>1 DEF ResolvedInv, DiskInv
<1>5. CASE ~ok
  <2>1. disk' = disk /\ undone' = undone \cup {c}
    BY <1>1, <1>5 DEF Saved
  <2> QED
    BY <1>2, <1>3, <2>1 DEF ResolvedInv, DiskInv
<1> QED
  BY <1>4, <1>5

\* The cockpit's store and its file are empty at first.
LEMMA InitResolvedInv == EscalationInit => ResolvedInv
BY DEF EscalationInit, ResolvedInv, DiskInv

\* Every step keeps the cockpit's store and its file together, but for failed saves.
LEMMA StepResolvedInv == ResolvedInv /\ [EscalationNext]_escalationVars => ResolvedInv'
<1> SUFFICES ASSUME ResolvedInv, [EscalationNext]_escalationVars
             PROVE  ResolvedInv'
  OBVIOUS
<1>1. CASE UNCHANGED cockpitVars
  BY <1>1 DEF ResolvedInv, DiskInv, cockpitVars
<1>2. ASSUME NEW c \in Call, Ingest(c)
      PROVE  ResolvedInv'
  BY <1>1, <1>2, KeepInv DEF Ingest
<1>3. ASSUME NEW c \in Call, NEW u \in Resolver, Resolve(c, u)
      PROVE  ResolvedInv'
  BY <1>3, KeepInv DEF Resolve
<1>4. CASE StoreRestarts
  BY <1>4 DEF StoreRestarts, ResolvedInv, DiskInv
<1>5. CASE UNCHANGED escalationVars
  BY <1>1, <1>5 DEF escalationVars
<1>6. ASSUME NEW c \in Call, NEW b \in Bot, NEW a \in Contact,
             Escalate(c, b, a) \/ AddToBlacklist(c, b, a)
      PROVE  UNCHANGED cockpitVars
  BY <1>6 DEF Escalate, AddToBlacklist, RecordEscalation
<1>7. ASSUME NEW c \in Call, ForwardReturns(c) \/ PostIsLost(c)
      PROVE  UNCHANGED cockpitVars
  BY <1>7 DEF ForwardReturns, PostIsLost
<1>8. ASSUME NEW b \in Bot, BotRestarts(b)
      PROVE  UNCHANGED cockpitVars
  BY <1>8 DEF BotRestarts
<1> QED
  BY <1>1, <1>2, <1>3, <1>4, <1>5, <1>6, <1>7, <1>8 DEF EscalationNext

\* A step changes a resolved escalation only by a doubled post or from a file that misses it.
LEMMA StepResolutionsLast ==
    ResolvedInv /\ [EscalationNext]_escalationVars =>
        \A c \in Call : cockpit[c] \in Resolver => cockpit'[c] = cockpit[c] \/ c \in undone'
<1> SUFFICES ASSUME ResolvedInv, [EscalationNext]_escalationVars,
                    NEW d \in Call, cockpit[d] \in Resolver
             PROVE  cockpit'[d] = cockpit[d] \/ d \in undone'
  OBVIOUS
<1>1. CASE UNCHANGED cockpitVars
  BY <1>1 DEF cockpitVars
<1>2. ASSUME NEW c \in Call, Ingest(c)
      PROVE  cockpit'[d] = cockpit[d] \/ d \in undone'
  <2>1. CASE cockpit' = [cockpit EXCEPT ![c] = Active] /\ KeepResolution(c, Known(c))
    <3>1. CASE d = c
      <4>1. Known(c)
        BY <3>1, EscalationsAssumption DEF Known, Unknown
      <4> QED
        BY <2>1, <3>1, <4>1 DEF KeepResolution
    <3>2. CASE d # c
      BY <2>1, <3>2 DEF ResolvedInv
    <3> QED
      BY <3>1, <3>2
  <2> QED
    BY <1>1, <1>2, <2>1 DEF Ingest
<1>3. ASSUME NEW c \in Call, NEW u \in Resolver, Resolve(c, u)
      PROVE  cockpit'[d] = cockpit[d]
  <2>1. d # c
    BY <1>3, EscalationsAssumption DEF Resolve, MayResolve, Active
  <2> QED
    BY <1>3, <2>1 DEF Resolve, ResolvedInv
<1>4. CASE StoreRestarts
  BY <1>4 DEF StoreRestarts, ResolvedInv, DiskInv
<1>5. CASE UNCHANGED escalationVars
  BY <1>1, <1>5 DEF escalationVars
<1>6. ASSUME NEW c \in Call, NEW b \in Bot, NEW a \in Contact,
             Escalate(c, b, a) \/ AddToBlacklist(c, b, a)
      PROVE  UNCHANGED cockpitVars
  BY <1>6 DEF Escalate, AddToBlacklist, RecordEscalation
<1>7. ASSUME NEW c \in Call, ForwardReturns(c) \/ PostIsLost(c)
      PROVE  UNCHANGED cockpitVars
  BY <1>7 DEF ForwardReturns, PostIsLost
<1>8. ASSUME NEW b \in Bot, BotRestarts(b)
      PROVE  UNCHANGED cockpitVars
  BY <1>8 DEF BotRestarts
<1> QED
  BY <1>1, <1>2, <1>3, <1>4, <1>5, <1>6, <1>7, <1>8 DEF EscalationNext

\* A resolution lasts through late posts and restarts of the cockpit, for any operators and
\* calls; only a doubled post and a failed save undo it (EscalationStore.add, resolve, load).
THEOREM ResolutionsLastAlways == EscalationSpec => ResolutionsLast
<1>1. EscalationSpec => []ResolvedInv
  BY InitResolvedInv, StepResolvedInv, PTL DEF EscalationSpec
<1>2. ResolvedInv /\ [EscalationNext]_escalationVars =>
        [\A c \in Call : cockpit[c] \in Resolver
            => cockpit'[c] = cockpit[c] \/ c \in undone']_escalationVars
  BY StepResolutionsLast
<1> QED
  BY <1>1, <1>2, PTL DEF EscalationSpec, ResolutionsLast

=============================================================================
