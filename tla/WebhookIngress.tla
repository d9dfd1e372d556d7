--------------------------- MODULE WebhookIngress ---------------------------
(***************************************************************************)
(* The way of an e-mail event from its provider through the cockpit         *)
(* (routes/connections/webhooks.py, connections/webhooks.py) to the bot     *)
(* (ingest_event of bots/email) and back.  The provider delivers an event   *)
(* again until it gets a 2xx answer.  The cockpit recognises the events     *)
(* that a bot has accepted by their nonce, which it keeps in memory.        *)
(*                                                                          *)
(* The route runs on the event loop and waits only for the bot, in a        *)
(* thread, for 30 seconds at most; the bot answers after its whole turn.    *)
(***************************************************************************)
EXTENDS Integers, Sequences, FiniteSets

CONSTANTS
    Event,        \* events of the provider; an event has one nonce
    Kinds,        \* what the events may be: mails, mails of blacklisted senders, bounces
    MaxAttempts,  \* how often the provider delivers each event
    Window,       \* FRESHNESS_WINDOW_SECONDS, in ticks
    MaxNonces,    \* SEEN_NONCES_MAX
    MaxTime,      \* bound on the clock
    MaxCrashes,   \* bound on crashes
    Slow,         \* may a turn take longer than the cockpit waits for the bot?
    Impatient,    \* may the provider stop waiting for the cockpit?
    CanFail       \* may the mail server or the provider's API fail?

ASSUME WebhookAssumption ==
    /\ IsFiniteSet(Event) /\ Kinds \subseteq [Event -> {"mail", "blacklisted", "bounce"}]
    /\ MaxAttempts \in [Event -> Nat \ {0}] /\ Window \in Nat /\ MaxNonces \in Nat \ {0}
    /\ MaxTime \in Nat /\ MaxCrashes \in Nat
    /\ Slow \in BOOLEAN /\ Impatient \in BOOLEAN /\ CanFail \in BOOLEAN

VARIABLES
    kind,      \* what each event is
    provider,  \* pending, acked or gaveup, for each event
    waiting,   \* the delivery whose answer the provider waits for, or 0
    request,   \* each delivery of an event in the cockpit
    handler,   \* each delivery of an event in the bot
    nonces,    \* the nonce store, in its insertion order
    now,
    crashes,
    replies,   \* history variable: the answers mailed to each event
    excused    \* history variable: the events that may be handled again

vars == <<kind, provider, waiting, request, handler, nonces, now, crashes, replies, excused>>

DeliveriesOf(e) == {<<e, n>> : n \in 1..MaxAttempts[e]}
Delivery == UNION {DeliveriesOf(e) : e \in Event}
NoRequest == [st |-> "none", ts |-> 0]
Attempts(e) == Cardinality({d \in DeliveriesOf(e) : request[d].st # "none"})
InCockpit(d) == request[d].st \in {"sent", "forwarding"}
InBot(d) == handler[d] \in {"turn", "stored"}

-----------------------------------------------------------------------------
(* The nonce store.                                                         *)

Names(s) == {s[i].nonce : i \in DOMAIN s}

\* prune stops at the first fresh entry
Prune(s) ==
    LET fresh == {i \in DOMAIN s : s[i].at >= now - Window}
    IN  IF fresh = {} THEN <<>>
        ELSE SubSeq(s, CHOOSE i \in fresh : \A j \in fresh : i <= j, Len(s))

\* Faulty variant: the size is looked at before the nonce is added
RecordUncapped(s, e) ==
    LET t == IF Len(s) > MaxNonces THEN Tail(s) ELSE s
    IN  Append(SelectSeq(t, LAMBDA x : x.nonce # e), [nonce |-> e, at |-> now])

\* record: a nonce that is in the store keeps its place
Record(s, e) ==
    LET entry == [nonce |-> e, at |-> now]
        t == IF e \in Names(s) THEN [i \in DOMAIN s |-> IF s[i].nonce = e THEN entry ELSE s[i]]
             ELSE Append(s, entry)
    IN  IF Len(t) > MaxNonces THEN Tail(t) ELSE t

\* the store changes to s, and events may be forgotten by it
Keep(s) ==
    /\ nonces' = s
    /\ excused' = excused \cup (Names(nonces) \ Names(s))

-----------------------------------------------------------------------------
(* The provider.                                                            *)

Deliver(e) ==
    /\ provider[e] = "pending" /\ waiting[e] = 0 /\ Attempts(e) < MaxAttempts[e]
    /\ LET n == Attempts(e) + 1
       IN  /\ request' = [request EXCEPT ![<<e, n>>] = [st |-> "sent", ts |-> now]]
           /\ waiting' = [waiting EXCEPT ![e] = n]
           /\ excused' = IF \E d \in DeliveriesOf(e) : InCockpit(d)
                         THEN excused \cup {e} ELSE excused
    /\ UNCHANGED <<kind, provider, handler, nonces, now, crashes, replies>>

ProviderTimesOut(e) ==
    /\ Impatient /\ waiting[e] # 0
    /\ waiting' = [waiting EXCEPT ![e] = 0]
    /\ UNCHANGED <<kind, provider, request, handler, nonces, now, crashes, replies, excused>>

GiveUp(e) ==
    /\ provider[e] = "pending" /\ waiting[e] = 0 /\ Attempts(e) = MaxAttempts[e]
    /\ provider' = [provider EXCEPT ![e] = "gaveup"]
    /\ UNCHANGED <<kind, waiting, request, handler, nonces, now, crashes, replies, excused>>

-----------------------------------------------------------------------------
(* The route.                                                               *)

\* the answer to a delivery; the provider may have stopped waiting for it
Respond(d, ok) ==
    /\ request' = [request EXCEPT ![d] = [st |-> "done", ts |-> 0]]
    /\ IF waiting[d[1]] = d[2]
       THEN /\ waiting' = [waiting EXCEPT ![d[1]] = 0]
            /\ provider' = [provider EXCEPT ![d[1]] = IF ok THEN "acked" ELSE @]
       ELSE UNCHANGED <<waiting, provider>>

\* verify_resend by check_freshness: the signature is good, its time may be too old
Stale(d) == now - request[d].ts > Window

\* parse_resend fetches the body of a mail, not of another event, from the provider's API
ParseFails(d) == CanFail /\ kind[d[1]] # "bounce"

\* webhook_ingest up to the forward: is_nonce_seen, parse_payload, find_consuming_deployment
Receive(d) ==
    /\ request[d].st = "sent"
    /\ Keep(Prune(nonces))
    /\ \/ Stale(d) /\ Respond(d, FALSE)
       \/ ~Stale(d) /\ d[1] \in Names(Prune(nonces)) /\ Respond(d, TRUE)
       \/ /\ ~Stale(d) /\ d[1] \notin Names(Prune(nonces))
          /\ \/ ParseFails(d) /\ Respond(d, FALSE)
             \/ /\ request' = [request EXCEPT ![d] = [st |-> "forwarding", ts |-> 0]]
                /\ UNCHANGED <<waiting, provider>>
    /\ UNCHANGED <<kind, handler, now, crashes, replies>>

\* the /ingest route and ingest_event up to the agent's turn
Ingested(e) ==
    CASE kind[e] = "bounce" -> "rejected"
      [] kind[e] = "blacklisted" -> "ok"
      [] OTHER -> "turn"

\* forward_event reaches the bot, or finds that it is not there
Forward(d) ==
    /\ request[d].st = "forwarding" /\ handler[d] = "none"
    /\ \/ /\ handler' = [handler EXCEPT ![d] = Ingested(d[1])]
          /\ UNCHANGED <<request, waiting, provider>>
       \/ /\ crashes > 0
          /\ Respond(d, FALSE)
          /\ handler' = handler
    /\ UNCHANGED <<kind, nonces, now, crashes, replies, excused>>

\* Faulty variant: a rejection counts as an acceptance
AcceptedBlindly(d) == handler[d] \in {"ok", "rejected"}

\* call_bot and what forward_event makes of it: the bot's answer, an error when the bot has
\* died, or a timeout
Accepted(d) == handler[d] = "ok"
Refused(d) == handler[d] \in {"rejected", "dead"} \/ (Slow /\ InBot(d))

\* Faulty variant: the nonce is not recorded
AcceptUnrecorded(d) ==
    /\ request[d].st = "forwarding" /\ Accepted(d)
    /\ Keep(Prune(nonces))
    /\ Respond(d, TRUE)
    /\ UNCHANGED <<kind, handler, now, crashes, replies>>

\* webhook_ingest after a successful forward: record_nonce and 202
Accept(d) ==
    /\ request[d].st = "forwarding" /\ Accepted(d)
    /\ Keep(Record(Prune(nonces), d[1]))
    /\ Respond(d, TRUE)
    /\ UNCHANGED <<kind, handler, now, crashes, replies>>

\* 502; the bot may have taken its turn nevertheless
Refuse(d) ==
    /\ request[d].st = "forwarding" /\ Refused(d)
    /\ Respond(d, FALSE)
    /\ excused' = excused \cup {d[1]}
    /\ UNCHANGED <<kind, handler, nonces, now, crashes, replies>>

-----------------------------------------------------------------------------
(* The bot.                                                                 *)

Become(d, st) == handler' = [handler EXCEPT ![d] = st]
BotOnly == UNCHANGED <<kind, provider, waiting, request, nonces, now, crashes, excused>>

\* the agent's turn ends: there is a reply to send, or none (also when the model failed)
TurnEnds(d) ==
    /\ handler[d] = "turn"
    /\ \E st \in {"stored", "ok"} : Become(d, st)
    /\ UNCHANGED replies
    /\ BotOnly

\* send_reply; an error fails the ingest, also when the mail has left
SendReply(d) ==
    /\ handler[d] = "stored"
    /\ \E left \in BOOLEAN, st \in {"ok", "rejected"} :
        /\ ~left \/ st # "ok" => CanFail
        /\ st = "ok" => left
        /\ Become(d, st)
        /\ replies' = [replies EXCEPT ![d[1]] = IF left THEN @ + 1 ELSE @]
    /\ BotOnly

-----------------------------------------------------------------------------
(* Crashes and time.                                                        *)

Killed == [d \in Delivery |-> IF InBot(d) THEN "dead" ELSE handler[d]]

\* the bot ends and is started again
BotCrashes ==
    /\ crashes < MaxCrashes
    /\ crashes' = crashes + 1
    /\ handler' = Killed
    /\ UNCHANGED <<kind, provider, waiting, request, nonces, now, replies, excused>>

\* the container ends and is started again: the nonces and the requests are gone
ContainerRestarts ==
    /\ crashes < MaxCrashes
    /\ crashes' = crashes + 1
    /\ handler' = Killed
    /\ request' = [d \in Delivery |-> IF InCockpit(d) THEN [st |-> "done", ts |-> 0]
                                      ELSE request[d]]
    /\ waiting' = [e \in Event |-> 0]
    /\ nonces' = <<>>
    /\ excused' = excused \cup Names(nonces) \cup {e \in Event : \E d \in DeliveriesOf(e) :
                    request[d].st = "forwarding"}
    /\ UNCHANGED <<kind, provider, now, replies>>

Tick ==
    /\ now < MaxTime
    /\ now' = now + 1
    /\ UNCHANGED <<kind, provider, waiting, request, handler, nonces, crashes, replies, excused>>

-----------------------------------------------------------------------------
Init ==
    /\ kind \in Kinds
    /\ provider = [e \in Event |-> "pending"]
    /\ waiting = [e \in Event |-> 0]
    /\ request = [d \in Delivery |-> NoRequest]
    /\ handler = [d \in Delivery |-> "none"]
    /\ nonces = <<>>
    /\ now = 0 /\ crashes = 0
    /\ replies = [e \in Event |-> 0]
    /\ excused = {}

\* the steps that cockpit and bot take on a delivery by themselves
Work(d) ==
    \/ Receive(d) \/ Forward(d) \/ Accept(d) \/ Refuse(d)
    \/ TurnEnds(d) \/ SendReply(d)

Retry(e) == Deliver(e) \/ GiveUp(e)

Next ==
    \/ \E d \in Delivery : Work(d)
    \/ \E e \in Event : Retry(e) \/ ProviderTimesOut(e)
    \/ BotCrashes \/ ContainerRestarts \/ Tick

Spec == Init /\ [][Next]_vars

\* handlers run to their end (calls have timeouts), and the provider keeps its schedule
FairSpec == Spec /\ \A d \in Delivery : WF_vars(Work(d)) /\ \A e \in Event : WF_vars(Retry(e))

-----------------------------------------------------------------------------
(* Properties.                                                              *)

\* Every variable has its type, and the nonce store stays within its limit, without
\* duplicates (NonceStore.record).
TypeOK ==
    /\ kind \in Kinds
    /\ provider \in [Event -> {"pending", "acked", "gaveup"}]
    /\ \A e \in Event : waiting[e] \in 0..MaxAttempts[e] /\ replies[e] \in 0..MaxAttempts[e]
    /\ request \in [Delivery -> [st : {"none", "sent", "forwarding", "done"},
                                 ts : 0..MaxTime]]
    /\ handler \in [Delivery -> {"none", "turn", "stored", "ok", "rejected", "dead"}]
    /\ Len(nonces) <= MaxNonces /\ Cardinality(Names(nonces)) = Len(nonces)
    /\ \A i \in DOMAIN nonces : nonces[i] \in [nonce : Event, at : 0..MaxTime]
    /\ now \in 0..MaxTime /\ crashes \in 0..MaxCrashes
    /\ excused \subseteq Event

\* A mail is answered twice only if a delivery overlapped another one, a turn was taken for
\* failed, its nonce was forgotten or the container restarted; not when merely the answer to
\* the provider got lost.
RepeatsAreExcused == \A e \in Event : replies[e] > 1 => e \in excused

\* The ingress implements EventDelivery: nothing is acknowledged before a bot has handled it,
\* whatever is lost, late or repeated, and every event is settled in the end.
Handled == {e \in Event : \E d \in DeliveriesOf(e) : handler[d] = "ok"}
Delivered == INSTANCE EventDelivery WITH handled <- Handled, settled <- provider
DeliverySpec == Delivered!Spec

\* record_nonce: "a transient bot failure leaves the nonce unrecorded so retries get a clean
\* re-forward".  A turn that merely takes longer than call_bot waits is retried as well.
AnsweredOnce == \A e \in Event : replies[e] <= 1
=============================================================================
