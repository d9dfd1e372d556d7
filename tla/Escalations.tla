---------------------------- MODULE Escalations ----------------------------
(***************************************************************************)
(* Escalations (agent/tools/escalate.py, cockpit/routes/escalations.py): a  *)
(* tool call in a bot stores an escalation in the bot's own store, with its *)
(* file, and posts it to the cockpit once, waiting five seconds at most.    *)
(* The cockpit keeps what it gets in a store of the same kind, in which the *)
(* owner of the bot resolves it.  Nothing flows back to the bot.            *)
(*                                                                          *)
(* A save that fails is only logged.  A post may be lost, late or, when a   *)
(* proxy in front of the cockpit sends it again, doubled.                   *)
(***************************************************************************)
EXTENDS Naturals, FiniteSets

CONSTANTS
    Bot,          \* the bots
    Resolver,     \* the operators
    Owner,        \* owner_slug of each bot; NoOwner for one started by hand
    NoOwner,
    Contact,      \* the contacts that bots talk with
    Call,         \* calls of escalate and add_to_blacklist; each makes a new id
    Authorized,   \* the bots whose secret is the cockpit's
    MaxEscRestarts,  \* bound on restarts of bots and of the cockpit
    Doubles,      \* may a post reach the cockpit twice?
    SavesFail     \* may the disk be full?

ASSUME EscalationsAssumption ==
    /\ IsFiniteSet(Bot) /\ IsFiniteSet(Call)
    /\ NoOwner \notin Resolver /\ {"active", "unknown"} \cap Resolver = {}
    /\ Owner \in [Bot -> Resolver \cup {NoOwner}] /\ Authorized \subseteq Bot
    /\ MaxEscRestarts \in Nat /\ Doubles \in BOOLEAN /\ SavesFail \in BOOLEAN

VARIABLES
    call,       \* what each tool call does, for which bot and contact
    store,      \* the calls in each bot's store
    file,       \* the calls in each bot's file
    blacklist,  \* each bot's blacklist
    posts,      \* posts on their way to the cockpit
    cockpit,    \* the cockpit's store: the resolver of each call it knows, or Active
    disk,       \* the cockpit's file
    escRestarts,
    unsaved,    \* history variable: calls that a failed save left out of their bot's file
    undone      \* history variable: calls whose record a failed save or a doubled post may undo

botVars == <<call, store, file, blacklist, unsaved>>
cockpitVars == <<cockpit, disk, undone>>
escalationVars == <<botVars, posts, cockpitVars, escRestarts>>

Active == "active"
Unknown == "unknown"
NoCall == [st |-> "none", bot |-> Unknown, contact |-> Unknown]
Known(c) == cockpit[c] # Unknown

\* save_locked writes the whole store, or fails and leaves the file alone
SaveOutcome == IF SavesFail THEN BOOLEAN ELSE {TRUE}
Saved(ok, new, old) == IF ok THEN new ELSE old

-----------------------------------------------------------------------------
(* The bot.                                                                 *)

\* Faulty variant: the escalation is kept in memory only
RecordEscalationInMemory(c, b, a, list) ==
    /\ call' = [call EXCEPT ![c] = [st |-> "posting", bot |-> b, contact |-> a]]
    /\ store' = [store EXCEPT ![b] = @ \cup {c}]
    /\ posts' = posts \cup {c}
    /\ blacklist' = [blacklist EXCEPT ![b] = list]
    /\ UNCHANGED <<file, unsaved, cockpitVars, escRestarts>>

\* EscalationState.record: EscalationStore.add, then on_escalation, which posts
RecordEscalation(c, b, a, list) ==
    /\ call' = [call EXCEPT ![c] = [st |-> "posting", bot |-> b, contact |-> a]]
    /\ store' = [store EXCEPT ![b] = @ \cup {c}]
    /\ \E ok \in SaveOutcome :
        /\ file' = [file EXCEPT ![b] = Saved(ok, store'[b], @)]
        /\ unsaved' = IF ok THEN unsaved \ store'[b] ELSE unsaved \cup {c}
    /\ posts' = posts \cup {c}
    /\ blacklist' = [blacklist EXCEPT ![b] = list]
    /\ UNCHANGED <<cockpitVars, escRestarts>>

\* escalate, in a turn of bot b with contact a
Escalate(c, b, a) ==
    /\ call[c].st = "none"
    /\ RecordEscalation(c, b, a, blacklist[b])

\* only the contact of the turn
MayBlacklist(named, a) == named = a

\* add_to_blacklist with the contact that the model names, or with none
AddToBlacklist(c, b, a) ==
    /\ call[c].st = "none"
    /\ \E named \in Contact :
        IF MayBlacklist(named, a) THEN RecordEscalation(c, b, a, blacklist[b] \cup {named})
        ELSE /\ call' = [call EXCEPT ![c] = [st |-> "returned", bot |-> b, contact |-> a]]
             /\ UNCHANGED <<store, file, blacklist, unsaved, posts, cockpitVars, escRestarts>>

\* forward_to_cockpit returns with an answer of any kind, after an error or after a timeout
ForwardReturns(c) ==
    /\ call[c].st = "posting"
    /\ call' = [call EXCEPT ![c].st = "returned"]
    /\ UNCHANGED <<store, file, blacklist, unsaved, posts, cockpitVars, escRestarts>>

\* the bot ends with its turns; load reads the file, and the blacklist is the configured one
BotRestarts(b) ==
    /\ escRestarts < MaxEscRestarts
    /\ escRestarts' = escRestarts + 1
    /\ store' = [store EXCEPT ![b] = file[b]]
    /\ blacklist' = [blacklist EXCEPT ![b] = {}]
    /\ call' = [c \in Call |-> IF call[c].bot = b /\ call[c].st = "posting"
                               THEN [call[c] EXCEPT !.st = "returned"] ELSE call[c]]
    /\ UNCHANGED <<file, unsaved, posts, cockpitVars>>

-----------------------------------------------------------------------------
(* The cockpit.                                                             *)

\* the cockpit saves its store after a change of call c, which a doubled post may have undone
KeepResolution(c, doubled) == \E ok \in SaveOutcome :
    /\ disk' = Saved(ok, cockpit', disk)
    /\ undone' = IF doubled \/ ~ok THEN undone \cup {c} ELSE undone

\* ingest: the secret is checked, then the record is stored as it came
Ingest(c) ==
    /\ c \in posts
    /\ posts' \in IF Doubles THEN {posts, posts \ {c}} ELSE {posts \ {c}}
    /\ IF call[c].bot \in Authorized
       THEN cockpit' = [cockpit EXCEPT ![c] = Active] /\ KeepResolution(c, Known(c))
       ELSE UNCHANGED cockpitVars
    /\ UNCHANGED <<botVars, escRestarts>>

PostIsLost(c) ==
    /\ c \in posts
    /\ posts' = posts \ {c}
    /\ UNCHANGED <<botVars, cockpitVars, escRestarts>>

\* EscalationStore.resolve: a known, active escalation, by the owner of its bot only
MayResolve(c, u) == cockpit[c] = Active /\ Owner[call[c].bot] = u

\* Faulty variant: a resolution is not saved
ResolveInMemory(c, u) ==
    /\ MayResolve(c, u)
    /\ cockpit' = [cockpit EXCEPT ![c] = u]
    /\ UNCHANGED <<botVars, posts, disk, undone, escRestarts>>

\* the resolve route and the JSON one; the others are refused
Resolve(c, u) ==
    /\ MayResolve(c, u)
    /\ cockpit' = [cockpit EXCEPT ![c] = u]
    /\ KeepResolution(c, FALSE)
    /\ UNCHANGED <<botVars, posts, escRestarts>>

\* the cockpit loads its file
StoreRestarts ==
    /\ escRestarts < MaxEscRestarts
    /\ escRestarts' = escRestarts + 1
    /\ cockpit' = disk
    /\ UNCHANGED <<botVars, posts, disk, undone>>

-----------------------------------------------------------------------------
EscalationInit ==
    /\ call = [c \in Call |-> NoCall]
    /\ store = [b \in Bot |-> {}]
    /\ file = [b \in Bot |-> {}]
    /\ blacklist = [b \in Bot |-> {}]
    /\ posts = {}
    /\ cockpit = [c \in Call |-> Unknown]
    /\ disk = [c \in Call |-> Unknown]
    /\ escRestarts = 0 /\ unsaved = {} /\ undone = {}

EscalationNext ==
    \/ \E c \in Call, b \in Bot, a \in Contact : Escalate(c, b, a) \/ AddToBlacklist(c, b, a)
    \/ \E c \in Call : ForwardReturns(c) \/ Ingest(c) \/ PostIsLost(c)
    \/ \E c \in Call, u \in Resolver : Resolve(c, u)
    \/ \E b \in Bot : BotRestarts(b)
    \/ StoreRestarts

EscalationSpec == EscalationInit /\ [][EscalationNext]_escalationVars

-----------------------------------------------------------------------------
(* Properties.                                                              *)

\* What the cockpit shows is in the store of its bot as well, across restarts of either,
\* unless a save failed: forward_to_cockpit runs after the escalation has been persisted.
CockpitShowsRecorded ==
    \A c \in Call : Known(c) /\ c \notin unsaved => c \in store[call[c].bot]

\* A resolution lasts, with its resolver, through late posts and restarts; only a doubled
\* post and a failed save undo it.
ResolutionsLast ==
    [][\A c \in Call : cockpit[c] \in Resolver => cockpit'[c] = cockpit[c] \/ c \in undone']_escalationVars
=============================================================================
