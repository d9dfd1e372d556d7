------------------------ MODULE WebhookIngressProofs ------------------------
(***************************************************************************)
(* The webhook ingress implements the safety of EventDelivery, for any      *)
(* events, attempts, windows and sizes of the nonce store: nothing is       *)
(* acknowledged before a bot has handled it.  And an event is answered      *)
(* twice only for the reasons that the history variable excused records.    *)
(***************************************************************************)
EXTENDS WebhookIngress, SequenceTheorems, FiniteSetTheorems, WellFoundedInduction, TLAPS

Entry == [nonce : Event, at : Int]

\* what an acknowledgement relies on: a nonce in the store is that of a handled event, and
\* the provider waits for an answer only while the event is pending
DeliveryInv ==
    /\ provider \in [Event -> {"pending", "acked", "gaveup"}]
    /\ waiting \in [Event -> Int]
    /\ request \in [Delivery -> [st : {"none", "sent", "forwarding", "done"}, ts : Int]]
    /\ handler \in [Delivery -> {"none", "turn", "stored", "ok", "rejected", "dead"}]
    /\ now \in Int
    /\ nonces \in Seq(Entry)
    /\ Names(nonces) \subseteq Handled
    /\ \A e \in Event : waiting[e] # 0 => provider[e] = "pending"

\* a step of the abstract specification, or a stutter
AbstractStep == [Delivered!Next]_<<Handled, provider>>

-----------------------------------------------------------------------------
(* Deliveries and the nonce store.                                          *)

\* a delivery belongs to its event
LEMMA DeliveryEvent ==
    /\ \A d \in Delivery : d[1] \in Event /\ d \in DeliveriesOf(d[1])
    /\ \A e \in Event : \A d \in DeliveriesOf(e) : d[1] = e /\ d \in Delivery
BY DEF Delivery, DeliveriesOf

\* an event has finitely many deliveries
LEMMA AttemptsFinite ==
    ASSUME NEW n \in Nat, NEW e, NEW S \in SUBSET {<<e, i>> : i \in 1..n} PROVE IsFiniteSet(S)
<1>1. IsFiniteSet(1..n)
  BY FS_Interval
<1>2. IsFiniteSet({<<e, i>> : i \in 1..n})
  <2> DEFINE attempt == [i \in 1..n |-> <<e, i>>]
  <2>1. attempt \in Surjection(1..n, {<<e, i>> : i \in 1..n})
    BY DEF Surjection
  <2> QED
    BY <1>1, <2>1, FS_Surjection
<1> QED
  BY <1>2, FS_Subset

\* the handled events depend on the handlers alone
LEMMA HandledOf ==
    \A e \in Event : e \in Handled <=> \E d \in Delivery : d[1] = e /\ handler[d] = "ok"
BY DeliveryEvent DEF Handled

\* the same, in the next state
LEMMA HandledOfNext ==
    \A e \in Event : e \in Handled' <=> \E d \in Delivery : d[1] = e /\ handler'[d] = "ok"
BY DeliveryEvent DEF Handled

\* a set of numbers has a smallest one
LEMMA Smallest == ASSUME NEW S \in SUBSET Nat, S # {} PROVE \E i \in S : \A j \in S : i <= j
<1>1. IsWellFoundedOn({p \in Nat \X Nat : p[1] < p[2]}, Nat)
  BY NatLessThanWellFounded DEF OpToRel
<1>2. PICK i \in S : \A j \in S : ~ (<<j, i>> \in {p \in Nat \X Nat : p[1] < p[2]})
  BY <1>1, WFMin
<1>3. ASSUME NEW j \in S, j < i PROVE FALSE
  <2>1. <<j, i>> \in Nat \X Nat /\ <<j, i>>[1] < <<j, i>>[2]
    BY <1>3
  <2> QED
    BY <1>2, <2>1
<1>4. \A j \in S : j \in Nat /\ i \in Nat
  OBVIOUS
<1> QED
  BY <1>3, <1>4

\* dropping the first entry adds no name
LEMMA TailNames ==
    ASSUME NEW s \in Seq(Entry), Len(s) > 0
    PROVE  Tail(s) \in Seq(Entry) /\ Names(Tail(s)) \subseteq Names(s)
<1>1. Tail(s) \in Seq(Entry) /\ Len(Tail(s)) = Len(s) - 1
  OBVIOUS
<1>2. \A i \in 1..Len(s) - 1 : Tail(s)[i] = s[i + 1] /\ i + 1 \in 1..Len(s)
  OBVIOUS
<1>3. DOMAIN Tail(s) = 1..Len(s) - 1 /\ DOMAIN s = 1..Len(s)
  BY <1>1
<1> QED
  BY <1>1, <1>2, <1>3 DEF Names

\* NonceStore.prune only forgets
LEMMA PruneNames ==
    ASSUME NEW s \in Seq(Entry), now \in Int
    PROVE  Prune(s) \in Seq(Entry) /\ Names(Prune(s)) \subseteq Names(s)
<1> DEFINE fresh == {i \in DOMAIN s : s[i].at >= now - Window}
           first == CHOOSE i \in fresh : \A j \in fresh : i <= j
<1>1. CASE fresh = {}
  BY <1>1 DEF Prune, Names
<1>2. CASE fresh # {}
  <2>1. fresh \subseteq 1..Len(s) /\ fresh \subseteq Nat
    OBVIOUS
  <2>2. \E i \in fresh : \A j \in fresh : i <= j
    BY <1>2, <2>1, Smallest
  <2>3. first \in 1..Len(s)
    BY <2>1, <2>2
  <2>4. Prune(s) = SubSeq(s, first, Len(s))
    BY <1>2 DEF Prune
  <2> HIDE DEF first, fresh
  <2>5. Prune(s) \in Seq(Entry) /\ DOMAIN Prune(s) = 1 .. Len(s) - first + 1
    BY <2>3, <2>4
  <2>6. \A i \in 1 .. Len(s) - first + 1 :
          Prune(s)[i] = s[first + i - 1] /\ first + i - 1 \in DOMAIN s
    BY <2>3, <2>4
  <2> QED
    BY <2>5, <2>6 DEF Names
<1> QED
  BY <1>1, <1>2

\* NonceStore.record adds the one nonce at most
LEMMA RecordNames ==
    ASSUME NEW s \in Seq(Entry), NEW e \in Event, now \in Int
    PROVE  Record(s, e) \in Seq(Entry) /\ Names(Record(s, e)) \subseteq Names(s) \cup {e}
<1> DEFINE entry == [nonce |-> e, at |-> now]
           t == IF e \in Names(s) THEN [i \in DOMAIN s |-> IF s[i].nonce = e THEN entry ELSE s[i]]
                ELSE Append(s, entry)
<1>1. entry \in Entry /\ entry.nonce = e
  BY DEF Entry
<1> HIDE DEF entry
<1>2. t \in Seq(Entry) /\ Names(t) \subseteq Names(s) \cup {e}
  <2>1. CASE e \in Names(s)
    BY <1>1, <2>1 DEF Names
  <2>2. CASE e \notin Names(s)
    <3>1. t \in Seq(Entry) /\ DOMAIN t = 1 .. Len(s) + 1 /\ DOMAIN s = 1 .. Len(s)
      BY <1>1, <2>2
    <3>2. t[Len(s) + 1] = entry /\ \A i \in 1 .. Len(s) : t[i] = s[i]
      BY <1>1, <2>2
    <3>3. \A i \in DOMAIN t : t[i].nonce \in Names(s) \cup {e}
      BY <1>1, <3>1, <3>2 DEF Names
    <3> QED
      BY <3>1, <3>3 DEF Names
  <2> QED
    BY <2>1, <2>2
<1>3. Record(s, e) = IF Len(t) > MaxNonces THEN Tail(t) ELSE t
  BY DEF Record, entry
<1>4. MaxNonces \in Nat
  BY WebhookAssumption DEF WebhookAssumption
<1> HIDE DEF t
<1> QED
  BY <1>2, <1>3, <1>4, TailNames

-----------------------------------------------------------------------------
(* Steps.                                                                   *)

\* what a step must show once the types are known
Kept == DeliveryInv' /\ AbstractStep

\* the handlers do not change, so neither do the handled events
LEMMA SameHandled == ASSUME UNCHANGED handler PROVE Handled' = Handled
BY DEF Handled

\* An answer settles at most its own event, and only while the event is pending.
LEMMA RespondStep ==
    ASSUME DeliveryInv, NEW d \in Delivery, NEW ok \in BOOLEAN, Respond(d, ok),
           ok => d[1] \in Handled, UNCHANGED <<handler, now>>,
           nonces' \in Seq(Entry), Names(nonces') \subseteq Handled
    PROVE  Kept
<1>1. d[1] \in Event /\ d[2] # 0
  BY DEF Delivery, DeliveriesOf
<1>2. Handled' = Handled
  BY SameHandled
<1>3. request' \in [Delivery -> [st : {"none", "sent", "forwarding", "done"}, ts : Int]]
  BY DEF DeliveryInv, Respond
<1>4. CASE waiting[d[1]] = d[2]
  <2>1. /\ waiting' = [waiting EXCEPT ![d[1]] = 0]
        /\ provider' = [provider EXCEPT ![d[1]] = IF ok THEN "acked" ELSE @]
    BY <1>4 DEF Respond
  <2>2. provider[d[1]] = "pending"
    BY <1>1, <1>4 DEF DeliveryInv
  <2>3. /\ provider' \in [Event -> {"pending", "acked", "gaveup"}]
        /\ waiting' \in [Event -> Int]
        /\ \A e \in Event : waiting'[e] # 0 => provider'[e] = "pending"
    BY <1>1, <2>1, <2>2 DEF DeliveryInv
  <2>4. DeliveryInv'
    BY <1>2, <1>3, <2>3 DEF DeliveryInv, Names
  <2>5. CASE ok
    <3>1. Delivered!Acknowledge(d[1])
      BY <1>1, <1>2, <2>1, <2>2, <2>5 DEF Delivered!Acknowledge
    <3> QED
      BY <1>1, <2>4, <3>1 DEF Kept, AbstractStep, Delivered!Next, Delivered!Settle
  <2>6. CASE ~ok
    <3>1. provider' = provider
      BY <1>1, <2>1, <2>6 DEF DeliveryInv
    <3> QED
      BY <1>2, <2>4, <3>1 DEF Kept, AbstractStep
  <2> QED
    BY <2>5, <2>6
<1>5. CASE waiting[d[1]] # d[2]
  <2>1. UNCHANGED <<waiting, provider>>
    BY <1>5 DEF Respond
  <2>2. DeliveryInv'
    BY <1>2, <1>3, <2>1 DEF DeliveryInv, Names
  <2> QED
    BY <1>2, <2>1, <2>2 DEF Kept, AbstractStep
<1> QED
  BY <1>4, <1>5

\* A change of one handler handles at most its own event.
LEMMA BecomeStep ==
    ASSUME DeliveryInv, NEW d \in Delivery,
           NEW st \in {"none", "turn", "stored", "ok", "rejected", "dead"},
           handler' = [handler EXCEPT ![d] = st], handler[d] # "ok",
           UNCHANGED <<provider, waiting, request, nonces, now>>
    PROVE  Kept
<1>1. handler' \in [Delivery -> {"none", "turn", "stored", "ok", "rejected", "dead"}]
  BY DEF DeliveryInv
<1>2. Handled' = Handled \/ Handled' = Handled \cup {d[1]}
  <2>1. \A e \in Event \ {d[1]} : e \in Handled' <=> e \in Handled
    BY DeliveryEvent, HandledOf, HandledOfNext DEF DeliveryInv
  <2>2. d[1] \in Handled => d[1] \in Handled'
    BY DeliveryEvent, HandledOf, HandledOfNext DEF DeliveryInv
  <2>3. Handled \subseteq Event /\ Handled' \subseteq Event /\ d[1] \in Event
    BY DeliveryEvent DEF Handled
  <2> QED
    BY <2>1, <2>2, <2>3
<1>3. DeliveryInv'
  BY <1>1, <1>2 DEF DeliveryInv, Names
<1>4. Handled' = Handled \/ Delivered!Handle(d[1])
  BY <1>2 DEF Delivered!Handle
<1> QED
  BY <1>3, <1>4, DeliveryEvent DEF Kept, AbstractStep, Delivered!Next

\* A crash cuts handlers off, but none that has handled its event.
LEMMA KilledStep ==
    ASSUME DeliveryInv, handler' = Killed, UNCHANGED <<provider, now>>,
           waiting' = waiting \/ waiting' = [e \in Event |-> 0],
           request' \in [Delivery -> [st : {"none", "sent", "forwarding", "done"}, ts : Int]],
           nonces' = nonces \/ nonces' = <<>>
    PROVE  Kept
<1>1. handler' \in [Delivery -> {"none", "turn", "stored", "ok", "rejected", "dead"}]
  BY DEF DeliveryInv, Killed
<1>2. \A d \in Delivery : handler'[d] = "ok" <=> handler[d] = "ok"
  BY DEF DeliveryInv, Killed, InBot
<1>3. Handled' = Handled
  <2>1. \A e \in Event : e \in Handled' <=> e \in Handled
    BY <1>2, HandledOf, HandledOfNext
  <2> QED
    BY <2>1 DEF Handled
<1>4. nonces' \in Seq(Entry) /\ Names(nonces') \subseteq Handled
  <2>1. CASE nonces' = nonces
    BY <2>1 DEF DeliveryInv, Names
  <2>2. CASE nonces' = <<>>
    BY <2>2 DEF Names
  <2> QED
    BY <2>1, <2>2
<1>5. waiting' \in [Event -> Int] /\ \A e \in Event : waiting'[e] # 0 => provider[e] = "pending"
  BY DEF DeliveryInv
<1>6. DeliveryInv'
  BY <1>1, <1>3, <1>4, <1>5 DEF DeliveryInv, Names
<1> QED
  BY <1>3, <1>6 DEF Kept, AbstractStep

\* The provider acknowledges nothing by itself.
LEMMA RetryStep ==
    ASSUME DeliveryInv, NEW e \in Event, Retry(e) \/ ProviderTimesOut(e) PROVE Kept
<1>1. Handled' = Handled
  BY SameHandled DEF Retry, Deliver, GiveUp, ProviderTimesOut
<1>2. CASE Deliver(e)
  <2> DEFINE n == Attempts(e) + 1
  <2>1. /\ request' = [request EXCEPT ![<<e, n>>] = [st |-> "sent", ts |-> now]]
        /\ waiting' = [waiting EXCEPT ![e] = n]
        /\ provider[e] = "pending" /\ UNCHANGED <<provider, handler, nonces, now>>
    BY <1>2 DEF Deliver
  <2>2. n \in Int
    <3>1. MaxAttempts[e] \in Nat
      BY WebhookAssumption DEF WebhookAssumption
    <3>2. IsFiniteSet({d \in DeliveriesOf(e) : request[d].st # "none"})
      BY <3>1, AttemptsFinite DEF DeliveriesOf
    <3> QED
      BY <3>2, FS_CardinalityType DEF Attempts
  <2> HIDE DEF n
  <2>3. request' \in [Delivery -> [st : {"none", "sent", "forwarding", "done"}, ts : Int]]
    BY <2>1 DEF DeliveryInv
  <2>4. waiting' \in [Event -> Int] /\ \A f \in Event : waiting'[f] # 0 => provider[f] = "pending"
    BY <2>1, <2>2 DEF DeliveryInv
  <2>5. DeliveryInv'
    BY <1>1, <2>1, <2>3, <2>4 DEF DeliveryInv, Names
  <2> QED
    BY <1>1, <2>1, <2>5 DEF Kept, AbstractStep
<1>3. CASE GiveUp(e)
  <2>1. DeliveryInv'
    BY <1>1, <1>3 DEF DeliveryInv, GiveUp, Names
  <2>2. Delivered!GiveUp(e)
    BY <1>1, <1>3 DEF GiveUp, Delivered!GiveUp
  <2> QED
    BY <2>1, <2>2 DEF Kept, AbstractStep, Delivered!Next, Delivered!Settle
<1>4. CASE ProviderTimesOut(e)
  <2>1. DeliveryInv'
    BY <1>1, <1>4 DEF DeliveryInv, ProviderTimesOut, Names
  <2> QED
    BY <1>1, <1>4, <2>1 DEF Kept, AbstractStep, ProviderTimesOut
<1> QED
  BY <1>2, <1>3, <1>4 DEF Retry

\* The route acknowledges what is in the nonce store, and leaves the bots alone.
LEMMA ReceiveStep == ASSUME DeliveryInv, NEW d \in Delivery, Receive(d) PROVE Kept
<1>1. /\ nonces' = Prune(nonces) /\ UNCHANGED <<handler, now>>
      /\ Prune(nonces) \in Seq(Entry) /\ Names(Prune(nonces)) \subseteq Handled
  BY PruneNames DEF Receive, Keep, DeliveryInv
<1>2. CASE Respond(d, FALSE)
  BY <1>1, <1>2, RespondStep
<1>3. CASE d[1] \in Names(Prune(nonces)) /\ Respond(d, TRUE)
  BY <1>1, <1>3, RespondStep
<1>4. CASE /\ request' = [request EXCEPT ![d] = [st |-> "forwarding", ts |-> 0]]
           /\ UNCHANGED <<waiting, provider>>
  <2>1. request' \in [Delivery -> [st : {"none", "sent", "forwarding", "done"}, ts : Int]]
    BY <1>4 DEF DeliveryInv
  <2>2. Handled' = Handled
    BY <1>1, SameHandled
  <2>3. DeliveryInv'
    BY <1>1, <1>4, <2>1, <2>2 DEF DeliveryInv, Names
  <2> QED
    BY <1>4, <2>2, <2>3 DEF Kept, AbstractStep
<1> QED
  BY <1>2, <1>3, <1>4 DEF Receive

\* A forward makes a bot begin, or finish, a turn.
LEMMA ForwardStep == ASSUME DeliveryInv, NEW d \in Delivery, Forward(d) PROVE Kept
<1>1. CASE /\ handler' = [handler EXCEPT ![d] = Ingested(d[1])]
           /\ UNCHANGED <<request, waiting, provider>>
  <2>1. Ingested(d[1]) \in {"none", "turn", "stored", "ok", "rejected", "dead"}
    BY DEF Ingested
  <2>2. handler[d] # "ok" /\ UNCHANGED <<nonces, now>>
    BY DEF Forward
  <2> QED
    BY <1>1, <2>1, <2>2, BecomeStep
<1>2. CASE Respond(d, FALSE) /\ handler' = handler
  <2>1. UNCHANGED <<handler, nonces, now>>
    BY <1>2 DEF Forward
  <2> QED
    BY <1>2, <2>1, RespondStep DEF DeliveryInv, Names
<1> QED
  BY <1>1, <1>2 DEF Forward

\* A nonce is recorded, and an event acknowledged, after a bot has handled it.
LEMMA AcceptStep == ASSUME DeliveryInv, NEW d \in Delivery, Accept(d) PROVE Kept
<1>1. d[1] \in Handled
  BY DeliveryEvent, HandledOf DEF Accept, Accepted
<1>2. d[1] \in Event
  BY DeliveryEvent
<1>3. Prune(nonces) \in Seq(Entry) /\ Names(Prune(nonces)) \subseteq Handled
  BY PruneNames DEF DeliveryInv
<1>4. nonces' = Record(Prune(nonces), d[1])
  BY DEF Accept, Keep
<1>5. nonces' \in Seq(Entry) /\ Names(nonces') \subseteq Handled
  BY <1>1, <1>2, <1>3, <1>4, RecordNames DEF DeliveryInv
<1>6. Respond(d, TRUE) /\ UNCHANGED <<handler, now>>
  BY DEF Accept
<1> QED
  BY <1>1, <1>5, <1>6, RespondStep

\* The steps on one delivery.
LEMMA WorkStep == ASSUME DeliveryInv, NEW d \in Delivery, Work(d) PROVE Kept
<1>1. CASE Receive(d)
  BY <1>1, ReceiveStep
<1>2. CASE Forward(d)
  BY <1>2, ForwardStep
<1>3. CASE Accept(d)
  BY <1>3, AcceptStep
<1>4. CASE Refuse(d)
  <2>1. Respond(d, FALSE) /\ UNCHANGED <<handler, nonces, now>>
    BY <1>4 DEF Refuse
  <2> QED
    BY <2>1, RespondStep DEF DeliveryInv, Names
<1>5. CASE TurnEnds(d)
  BY <1>5, BecomeStep DEF TurnEnds, Become, BotOnly
<1>6. CASE SendReply(d)
  BY <1>6, BecomeStep DEF SendReply, Become, BotOnly
<1> QED
  BY <1>1, <1>2, <1>3, <1>4, <1>5, <1>6 DEF Work

\* Every step keeps the invariant and is an abstract one or a stutter.
LEMMA DeliveryStep == DeliveryInv /\ [Next]_vars => Kept
<1> SUFFICES ASSUME DeliveryInv, [Next]_vars PROVE Kept
  OBVIOUS
<1>1. ASSUME NEW d \in Delivery, Work(d) PROVE Kept
  BY <1>1, WorkStep
<1>2. ASSUME NEW e \in Event, Retry(e) \/ ProviderTimesOut(e) PROVE Kept
  BY <1>2, RetryStep
<1>3. CASE BotCrashes
  BY <1>3, KilledStep DEF BotCrashes, DeliveryInv
<1>4. CASE ContainerRestarts
  <2>1. request' \in [Delivery -> [st : {"none", "sent", "forwarding", "done"}, ts : Int]]
    BY <1>4 DEF ContainerRestarts, DeliveryInv
  <2> QED
    BY <1>4, <2>1, KilledStep DEF ContainerRestarts
<1>5. CASE Tick \/ UNCHANGED vars
  <2>1. UNCHANGED <<provider, waiting, request, handler, nonces>> /\ now' \in Int
    BY <1>5 DEF Tick, vars, DeliveryInv
  <2>2. Handled' = Handled
    BY <2>1, SameHandled
  <2>3. DeliveryInv'
    BY <2>1, <2>2 DEF DeliveryInv, Names
  <2> QED
    BY <2>1, <2>2, <2>3 DEF Kept, AbstractStep
<1> QED
  BY <1>1, <1>2, <1>3, <1>4, <1>5 DEF Next

\* The initial states map to initial states.
LEMMA DeliveryInit == Init => DeliveryInv /\ Delivered!Init
<1> SUFFICES ASSUME Init PROVE DeliveryInv /\ Delivered!Init
  OBVIOUS
<1>1. Handled = {}
  BY DeliveryEvent DEF Init, Handled
<1>2. nonces \in Seq(Entry) /\ Names(nonces) = {}
  BY DEF Init, Names
<1>3. DeliveryInv
  BY <1>1, <1>2 DEF Init, DeliveryInv, NoRequest
<1> QED
  BY <1>1, <1>3 DEF Init, Delivered!Init

\* The safety of EventDelivery, for any provider, turn times, crashes and full nonce stores:
\* record_nonce follows a successful forward, and a nonce is enough for an acknowledgement.
THEOREM ImplementsEventDelivery == Spec => Delivered!Init /\ [][Delivered!Next]_(Delivered!vars)
<1>1. Kept => DeliveryInv' /\ [Delivered!Next]_(Delivered!vars)
  BY DEF Kept, AbstractStep, Delivered!vars
<1> QED
  BY <1>1, DeliveryInit, DeliveryStep, PTL DEF Spec

AcknowledgedIsHandled == \A e \in Event : provider[e] = "acked" => e \in Handled

\* No event is acknowledged that no bot has handled.
THEOREM AcknowledgedIsHandledAlways == Spec => []AcknowledgedIsHandled
<1>1. DeliveryInv /\ Delivered!Init => AcknowledgedIsHandled
  BY DEF AcknowledgedIsHandled, DeliveryInv, Delivered!Init
<1>2. DeliveryInv /\ DeliveryInv' /\ AcknowledgedIsHandled /\ [Delivered!Next]_(Delivered!vars)
        => AcknowledgedIsHandled'
  BY DEF AcknowledgedIsHandled, DeliveryInv, Delivered!Next, Delivered!vars, Delivered!Settle,
     Delivered!Handle, Delivered!Acknowledge, Delivered!GiveUp
<1>3. Kept => DeliveryInv' /\ [Delivered!Next]_(Delivered!vars)
  BY DEF Kept, AbstractStep, Delivered!vars
<1> QED
  BY <1>1, <1>2, <1>3, DeliveryInit, DeliveryStep, PTL DEF Spec
-----------------------------------------------------------------------------
(* Limits of the nonce store and excuses for repeated replies.              *)

\* a store within its limit, without duplicates
GoodStore(s) ==
    /\ s \in Seq([nonce : Event, at : 0..MaxTime])
    /\ Len(s) <= MaxNonces
    /\ \A i, j \in 1..Len(s) : s[i].nonce = s[j].nonce => i = j

TypesInv ==
    /\ kind \in Kinds
    /\ \A e \in Event : waiting[e] \in 0..MaxAttempts[e]
    /\ request \in [Delivery -> [st : {"none", "sent", "forwarding", "done"}, ts : 0..MaxTime]]
    /\ now \in 0..MaxTime /\ crashes \in 0..MaxCrashes
    /\ excused \subseteq Event
    /\ replies \in [Event -> Nat]

\* each delivery is answered by one reply at most
Answering(e) == {d \in DeliveriesOf(e) : handler[d] \in {"ok", "rejected"}}
RepliesInv == \A e \in Event : replies[e] <= Cardinality(Answering(e))

\* What holds of an event that must not be answered twice: one delivery of it at a time is in
\* the cockpit, and what a bot has done about the event the cockpit is waiting for, or knows.
Unexcused(e) ==
    /\ \A c, d \in DeliveriesOf(e) : InCockpit(c) /\ InCockpit(d) => c = d
    /\ \A d \in DeliveriesOf(e) :
        /\ InBot(d) => request[d].st = "forwarding"
        /\ handler[d] # "none" => request[d].st = "forwarding" \/ e \in Names(nonces)
        /\ e \in Names(nonces) => request[d].st # "forwarding"
    /\ replies[e] <= 1
    /\ replies[e] = 1 => \E d \in DeliveriesOf(e) : handler[d] \in {"ok", "rejected"}
ExcuseInv == \A e \in Event \ excused : Unexcused(e)

IngressInv == DeliveryInv /\ TypesInv /\ GoodStore(nonces) /\ RepliesInv /\ ExcuseInv

\* the bounds are numbers
LEMMA Bounds ==
    /\ MaxTime \in Nat /\ MaxCrashes \in Nat /\ MaxNonces \in Nat /\ MaxNonces > 0
    /\ \A e \in Event : MaxAttempts[e] \in Nat /\ MaxAttempts[e] > 0
BY WebhookAssumption DEF WebhookAssumption

\* part of a good store, in the same order, is one
LEMMA SubStore ==
    ASSUME NEW s, GoodStore(s), NEW m \in 1..Len(s)
    PROVE  GoodStore(SubSeq(s, m, Len(s)))
<1> DEFINE E == [nonce : Event, at : 0..MaxTime]
           z == SubSeq(s, m, Len(s))
<1>1. s \in Seq(E) /\ Len(s) \in Nat /\ m \in 1..Len(s) + 1 /\ Len(s) \in (m - 1)..Len(s)
  BY LenProperties DEF GoodStore
<1> HIDE DEF E
<1>2. /\ z \in Seq(E) /\ Len(z) = Len(s) - m + 1
      /\ \A i \in 1..Len(s) - m + 1 : z[i] = s[m + i - 1]
  BY <1>1, SubSeqProperties
<1> HIDE DEF z
<1>3. Len(z) <= MaxNonces
  BY <1>1, <1>2, Bounds DEF GoodStore
<1>4. ASSUME NEW i \in 1..Len(z), NEW j \in 1..Len(z), z[i].nonce = z[j].nonce PROVE i = j
  <2>1. m + i - 1 \in 1..Len(s) /\ m + j - 1 \in 1..Len(s)
    BY <1>1, <1>2
  <2>2. s[m + i - 1].nonce = s[m + j - 1].nonce
    BY <1>2, <1>4
  <2>3. m + i - 1 = m + j - 1
    BY <2>1, <2>2 DEF GoodStore
  <2> QED
    BY <1>1, <2>3
<1> QED
  BY <1>2, <1>3, <1>4 DEF GoodStore, E, z

\* NonceStore.prune keeps a good store
LEMMA PruneGood == ASSUME NEW s, GoodStore(s) PROVE GoodStore(Prune(s))
<1> DEFINE fresh == {i \in DOMAIN s : s[i].at >= now - Window}
           first == CHOOSE i \in fresh : \A j \in fresh : i <= j
<1>1. CASE fresh = {}
  <2>1. Prune(s) = <<>>
    BY <1>1 DEF Prune
  <2>2. <<>> \in Seq([nonce : Event, at : 0..MaxTime]) /\ Len(<<>>) = 0
    OBVIOUS
  <2>3. GoodStore(<<>>)
    BY <2>2, Bounds DEF GoodStore
  <2> QED
    BY <2>1, <2>3
<1>2. CASE fresh # {}
  <2>1. fresh \subseteq 1..Len(s) /\ fresh \subseteq Nat
    BY LenProperties DEF GoodStore
  <2>2. \E i \in fresh : \A j \in fresh : i <= j
    BY <1>2, <2>1, Smallest
  <2>3. first \in 1..Len(s)
    BY <2>1, <2>2
  <2>4. Prune(s) = SubSeq(s, first, Len(s))
    BY <1>2 DEF Prune
  <2> HIDE DEF first, fresh
  <2> QED
    BY <2>3, <2>4, SubStore
<1> QED
  BY <1>1, <1>2

\* NonceStore.record keeps a good store, and the nonce is in it afterwards
LEMMA RecordGood ==
    ASSUME NEW s, GoodStore(s), NEW e \in Event, now \in 0..MaxTime
    PROVE  GoodStore(Record(s, e)) /\ e \in Names(Record(s, e))
<1> DEFINE E == [nonce : Event, at : 0..MaxTime]
           x == [nonce |-> e, at |-> now]
<1>1. x \in E /\ x.nonce = e
  OBVIOUS
<1>2. s \in Seq(E) /\ Len(s) \in Nat /\ DOMAIN s = 1..Len(s) /\ Len(s) <= MaxNonces
  BY LenProperties DEF GoodStore
<1>3. CASE e \in Names(s)
  <2> DEFINE t == [i \in DOMAIN s |-> IF s[i].nonce = e THEN x ELSE s[i]]
  <2>1. Record(s, e) = IF Len(t) > MaxNonces THEN Tail(t) ELSE t
    BY <1>3 DEF Record
  <2> HIDE DEF E, x
  <2>2. t \in Seq(E) /\ Len(t) = Len(s) /\ DOMAIN t = 1..Len(s)
    BY <1>1, <1>2
  <2>3. \A i \in 1..Len(s) : t[i].nonce = s[i].nonce
    BY <1>1, <1>2
  <2> HIDE DEF t
  <2>4. Record(s, e) = t
    <3>1. ~ Len(t) > MaxNonces
      BY <1>2, <2>2, Bounds
    <3> QED
      BY <2>1, <3>1, Zenon
  <2>5. GoodStore(t)
    BY <1>2, <2>2, <2>3 DEF GoodStore, E
  <2>6. e \in Names(t)
    BY <1>2, <1>3, <2>2, <2>3 DEF Names
  <2> QED
    BY <2>4, <2>5, <2>6
<1>4. CASE e \notin Names(s)
  <2> DEFINE t == Append(s, x)
  <2>1. Record(s, e) = IF Len(t) > MaxNonces THEN Tail(t) ELSE t
    BY <1>4 DEF Record
  <2> HIDE DEF E, x
  <2>2. /\ t \in Seq(E) /\ Len(t) = Len(s) + 1 /\ DOMAIN t = 1..Len(s) + 1
        /\ t[Len(s) + 1] = x /\ \A i \in 1..Len(s) : t[i] = s[i]
    BY <1>1, <1>2, AppendProperties
  <2> HIDE DEF t
  <2>3. ASSUME NEW i \in 1..Len(t), NEW j \in 1..Len(t), t[i].nonce = t[j].nonce PROVE i = j
    <3>1. \A k \in 1..Len(s) : s[k].nonce # e
      BY <1>2, <1>4 DEF Names
    <3> QED
      BY <1>1, <1>2, <2>2, <2>3, <3>1 DEF GoodStore
  <2>4. CASE Len(t) > MaxNonces
    <3>1. Record(s, e) = Tail(t) /\ Len(s) = MaxNonces /\ Len(s) > 0
      <4>1. Record(s, e) = Tail(t)
        BY <2>1, <2>4, Zenon
      <4>2. PICK n \in Nat : n = Len(s) /\ n <= MaxNonces /\ n + 1 > MaxNonces
        BY <1>2, <2>2, <2>4
      <4>3. n = MaxNonces /\ n > 0
        BY <4>2, Bounds
      <4> QED
        BY <4>1, <4>2, <4>3
    <3> DEFINE z == Tail(t)
    <3>2. z \in Seq(E) /\ Len(z) = Len(s) /\ \A i \in 1..Len(s) : z[i] = t[i + 1]
      BY <1>2, <2>2, <3>1, HeadTailProperties
    <3> HIDE DEF z
    <3>3. ASSUME NEW i \in 1..Len(z), NEW j \in 1..Len(z), z[i].nonce = z[j].nonce PROVE i = j
      <4>1. i + 1 \in 1..Len(t) /\ j + 1 \in 1..Len(t) /\ t[i + 1].nonce = t[j + 1].nonce
        BY <1>2, <2>2, <3>2, <3>3
      <4>2. i + 1 = j + 1
        BY <2>3, <4>1
      <4> QED
        BY <1>2, <3>2, <4>2
    <3>4. GoodStore(z)
      BY <1>2, <3>1, <3>2, <3>3, Bounds DEF GoodStore, E
    <3>5. DOMAIN z = 1..Len(z) /\ Len(s) \in 1..Len(z) /\ z[Len(s)].nonce = e
      BY <1>1, <1>2, <2>2, <3>1, <3>2, LenProperties
    <3>6. e \in Names(z)
      BY <3>5 DEF Names
    <3> QED
      BY <3>1, <3>4, <3>6 DEF z
  <2>5. CASE ~ Len(t) > MaxNonces
    <3>1. Record(s, e) = t /\ Len(t) <= MaxNonces
      BY <1>2, <2>1, <2>2, <2>5, Bounds
    <3>2. GoodStore(t)
      BY <2>2, <2>3, <3>1 DEF GoodStore, E
    <3>3. e \in Names(t)
      BY <1>1, <1>2, <2>2 DEF Names
    <3> QED
      BY <3>1, <3>2, <3>3
  <2> QED
    BY <2>4, <2>5
<1> QED
  BY <1>3, <1>4
\* an answer ends the request and the provider's wait
LEMMA RespondTypes ==
    ASSUME TypesInv, DeliveryInv, NEW d \in Delivery, NEW ok, Respond(d, ok)
    PROVE  /\ request' \in [Delivery -> [st : {"none", "sent", "forwarding", "done"},
                                       ts : 0..MaxTime]]
           /\ \A e \in Event : waiting'[e] \in 0..MaxAttempts[e]
           /\ request'[d].st = "done" /\ \A c \in Delivery \ {d} : request'[c] = request[c]
<1>1. [st |-> "done", ts |-> 0] \in [st : {"none", "sent", "forwarding", "done"}, ts : 0..MaxTime]
  BY Bounds
<1>2. request' = [request EXCEPT ![d] = [st |-> "done", ts |-> 0]]
  BY DEF Respond
<1>3. waiting' = waiting \/ waiting' = [waiting EXCEPT ![d[1]] = 0]
  BY DEF Respond
<1>4. \A e \in Event : waiting'[e] \in 0..MaxAttempts[e]
  <2>1. \A e \in Event : waiting'[e] = waiting[e] \/ waiting'[e] = 0
    BY <1>3 DEF DeliveryInv
  <2>2. \A e \in Event : 0 \in 0..MaxAttempts[e]
    BY Bounds
  <2> QED
    BY <2>1, <2>2 DEF TypesInv
<1> QED
  BY <1>1, <1>2, <1>4 DEF TypesInv

\* the number of deliveries so far is the number of the last one
LEMMA NextAttempt ==
    ASSUME NEW e \in Event, Attempts(e) < MaxAttempts[e]
    PROVE  Attempts(e) + 1 \in 1..MaxAttempts[e]
<1>1. IsFiniteSet({d \in DeliveriesOf(e) : request[d].st # "none"})
  BY Bounds, AttemptsFinite DEF DeliveriesOf
<1>2. Attempts(e) \in Nat
  BY <1>1, FS_CardinalityType DEF Attempts
<1> QED
  BY <1>2, Bounds

\* every step keeps the types
LEMMA TypesStep == ASSUME IngressInv, [Next]_vars PROVE TypesInv'
<1> USE DEF IngressInv
<1> DEFINE R == [st : {"none", "sent", "forwarding", "done"}, ts : 0..MaxTime]
<1>1. ASSUME NEW e \in Event, Deliver(e) PROVE TypesInv'
  <2>1. Attempts(e) + 1 \in 1..MaxAttempts[e]
    BY <1>1, NextAttempt DEF Deliver
  <2>2. PICK n \in 1..MaxAttempts[e] : n = Attempts(e) + 1
    BY <2>1
  <2>3. n \in 0..MaxAttempts[e] /\ [st |-> "sent", ts |-> now] \in R
    BY Bounds DEF TypesInv
  <2>4. request' \in [Delivery -> R] /\ \A f \in Event : waiting'[f] \in 0..MaxAttempts[f]
    <3>1. /\ request' = [request EXCEPT ![<<e, n>>] = [st |-> "sent", ts |-> now]]
          /\ waiting' = [waiting EXCEPT ![e] = n]
      BY <1>1, <2>2 DEF Deliver
    <3> QED
      BY <2>3, <3>1 DEF TypesInv, DeliveryInv
  <2> QED
    BY <1>1, <2>4 DEF TypesInv, Deliver
<1>2. ASSUME NEW e \in Event, GiveUp(e) PROVE TypesInv'
  BY <1>2 DEF TypesInv, GiveUp
<1>3. ASSUME NEW e \in Event, ProviderTimesOut(e) PROVE TypesInv'
  BY <1>3, Bounds DEF TypesInv, ProviderTimesOut, DeliveryInv
<1>4. Names(nonces) \subseteq Event
  BY DEF DeliveryInv, Handled
<1>5. ASSUME NEW d \in Delivery, Receive(d) PROVE TypesInv'
  <2>1. /\ request' \in [Delivery -> R]
        /\ \A f \in Event : waiting'[f] \in 0..MaxAttempts[f]
    <3>1. CASE \E ok \in BOOLEAN : Respond(d, ok)
      BY <3>1, RespondTypes
    <3>2. CASE /\ request' = [request EXCEPT ![d] = [st |-> "forwarding", ts |-> 0]]
               /\ waiting' = waiting
      <4>1. [st |-> "forwarding", ts |-> 0] \in R
        BY Bounds
      <4> QED
        BY <3>2, <4>1 DEF TypesInv
    <3> QED
      BY <1>5, <3>1, <3>2 DEF Receive
  <2>2. excused' \subseteq Event /\ UNCHANGED <<kind, now, crashes, replies>>
    BY <1>4, <1>5 DEF Receive, Keep, TypesInv
  <2> QED
    BY <2>1, <2>2 DEF TypesInv
<1>6. ASSUME NEW d \in Delivery, Forward(d) PROVE TypesInv'
  <2>1. CASE Respond(d, FALSE)
    <3>1. /\ request' \in [Delivery -> R]
          /\ \A f \in Event : waiting'[f] \in 0..MaxAttempts[f]
      BY <2>1, RespondTypes
    <3> QED
      BY <1>6, <3>1 DEF Forward, TypesInv
  <2>2. CASE UNCHANGED <<request, waiting>>
    BY <1>6, <2>2 DEF Forward, TypesInv
  <2> QED
    BY <1>6, <2>1, <2>2 DEF Forward
<1>7. ASSUME NEW d \in Delivery, Accept(d) PROVE TypesInv'
  <2>1. /\ request' \in [Delivery -> R]
        /\ \A f \in Event : waiting'[f] \in 0..MaxAttempts[f]
    BY <1>7, RespondTypes DEF Accept
  <2>2. excused' \subseteq Event /\ UNCHANGED <<kind, now, crashes, replies>>
    BY <1>4, <1>7 DEF Accept, Keep, TypesInv
  <2> QED
    BY <2>1, <2>2 DEF TypesInv
<1>8. ASSUME NEW d \in Delivery, Refuse(d) PROVE TypesInv'
  <2>1. /\ request' \in [Delivery -> R]
        /\ \A f \in Event : waiting'[f] \in 0..MaxAttempts[f]
    BY <1>8, RespondTypes DEF Refuse
  <2>2. excused' \subseteq Event /\ UNCHANGED <<kind, now, crashes, replies>>
    BY <1>8, DeliveryEvent DEF Refuse, TypesInv
  <2> QED
    BY <2>1, <2>2 DEF TypesInv
<1>9. ASSUME NEW d \in Delivery, TurnEnds(d) \/ SendReply(d) PROVE TypesInv'
  <2>1. replies' \in [Event -> Nat]
    BY <1>9, DeliveryEvent DEF TurnEnds, SendReply, TypesInv
  <2>2. UNCHANGED <<kind, waiting, request, now, crashes, excused>>
    BY <1>9 DEF TurnEnds, SendReply, BotOnly
  <2> QED
    BY <2>1, <2>2 DEF TypesInv
<1>10. CASE BotCrashes
  <2>1. crashes' \in 0..MaxCrashes
    BY <1>10, Bounds DEF BotCrashes, TypesInv
  <2> QED
    BY <1>10, <2>1 DEF BotCrashes, TypesInv
<1>11. CASE ContainerRestarts
  <2>1. crashes' \in 0..MaxCrashes
    BY <1>11, Bounds DEF ContainerRestarts, TypesInv
  <2>2. [st |-> "done", ts |-> 0] \in R
    BY Bounds
  <2>3. request' \in [Delivery -> R]
    BY <1>11, <2>2 DEF ContainerRestarts, TypesInv
  <2>4. \A e \in Event : waiting'[e] \in 0..MaxAttempts[e]
    BY <1>11, Bounds DEF ContainerRestarts
  <2>5. excused' \subseteq Event /\ UNCHANGED <<kind, now, replies>>
    BY <1>4, <1>11 DEF ContainerRestarts, TypesInv
  <2> QED
    BY <2>1, <2>3, <2>4, <2>5 DEF TypesInv
<1>12. CASE Tick
  <2>1. now' \in 0..MaxTime
    BY <1>12, Bounds DEF Tick, TypesInv
  <2> QED
    BY <1>12, <2>1 DEF Tick, TypesInv
<1>13. CASE UNCHANGED vars
  BY <1>13 DEF vars, TypesInv
<1> QED
  BY <1>1, <1>2, <1>3, <1>5, <1>6, <1>7, <1>8, <1>9, <1>10, <1>11, <1>12, <1>13
     DEF Next, Work, Retry

\* every step keeps the store good
LEMMA StoreStep == ASSUME IngressInv, [Next]_vars PROVE GoodStore(nonces')
<1> USE DEF IngressInv
<1>1. nonces' = nonces \/ nonces' = Prune(nonces) \/ nonces' = <<>>
      \/ \E e \in Event : nonces' = Record(Prune(nonces), e)
  BY DeliveryEvent DEF Next, vars, Work, Retry, Deliver, GiveUp, ProviderTimesOut, Receive, Forward,
     Accept, Keep, Refuse, TurnEnds, SendReply, BotOnly, BotCrashes, ContainerRestarts, Tick
<1>2. GoodStore(<<>>)
  <2>1. <<>> \in Seq([nonce : Event, at : 0..MaxTime]) /\ Len(<<>>) = 0
    OBVIOUS
  <2> QED
    BY <2>1, Bounds DEF GoodStore
<1> QED
  BY <1>1, <1>2, PruneGood, RecordGood DEF TypesInv
\* the deliveries of an event are finitely many, no more than it has attempts
LEMMA DeliveriesFinite ==
    ASSUME NEW e \in Event
    PROVE  /\ IsFiniteSet(DeliveriesOf(e)) /\ Cardinality(DeliveriesOf(e)) <= MaxAttempts[e]
           /\ IsFiniteSet(Answering(e)) /\ Cardinality(Answering(e)) \in Nat
           /\ Cardinality(Answering(e)) <= MaxAttempts[e]
<1> DEFINE n == MaxAttempts[e]
           attempt == [i \in 1..n |-> <<e, i>>]
<1>1. n \in Nat
  BY Bounds
<1> HIDE DEF n
<1>2. IsFiniteSet(1..n) /\ Cardinality(1..n) = n
  BY <1>1, FS_Interval
<1>3. attempt \in Surjection(1..n, DeliveriesOf(e))
  BY DEF Surjection, DeliveriesOf, n
<1>4. IsFiniteSet(DeliveriesOf(e)) /\ Cardinality(DeliveriesOf(e)) <= n
  BY <1>2, <1>3, FS_Surjection
<1>5. Answering(e) \subseteq DeliveriesOf(e)
  BY DEF Answering
<1>6. /\ IsFiniteSet(Answering(e)) /\ Cardinality(Answering(e)) <= Cardinality(DeliveriesOf(e))
      /\ Cardinality(Answering(e)) \in Nat /\ Cardinality(DeliveriesOf(e)) \in Nat
  BY <1>4, <1>5, FS_Subset, FS_CardinalityType
<1> QED
  BY <1>1, <1>4, <1>6 DEF n

\* a step that mails nothing, and after which no delivery counts less
LEMMA RepliesKept ==
    ASSUME RepliesInv, TypesInv, replies' = replies,
           \A d \in Delivery : handler[d] \in {"ok", "rejected"} => handler'[d] = handler[d]
    PROVE  RepliesInv'
<1> SUFFICES ASSUME NEW e \in Event PROVE replies[e] <= Cardinality(Answering(e)')
  BY DEF RepliesInv
<1>1. Answering(e) \subseteq Answering(e)'
  BY DeliveryEvent DEF Answering
<1>2. IsFiniteSet(Answering(e)')
  <2>1. Answering(e)' \subseteq DeliveriesOf(e)
    BY DEF Answering
  <2> QED
    BY <2>1, DeliveriesFinite, FS_Subset
<1>3. /\ Cardinality(Answering(e)) <= Cardinality(Answering(e)')
      /\ Cardinality(Answering(e)) \in Nat /\ Cardinality(Answering(e)') \in Nat
  BY <1>1, <1>2, FS_Subset, FS_CardinalityType
<1>4. replies[e] <= Cardinality(Answering(e)) /\ replies[e] \in Nat
  BY DEF RepliesInv, TypesInv
<1> QED
  BY <1>3, <1>4

\* a delivery is answered once: it counts from now on
LEMMA SendReplyCounts ==
    ASSUME IngressInv, NEW d \in Delivery, SendReply(d) PROVE RepliesInv'
<1> USE DEF IngressInv
<1>1. PICK st \in {"ok", "rejected"} : handler' = [handler EXCEPT ![d] = st]
  BY DEF SendReply, Become
<1>2. handler[d] = "stored" /\ d[1] \in Event
  BY DeliveryEvent DEF SendReply
<1> SUFFICES ASSUME NEW e \in Event PROVE replies'[e] <= Cardinality(Answering(e)')
  BY DEF RepliesInv
<1>3. replies[e] <= Cardinality(Answering(e)) /\ replies[e] \in Nat
  BY DEF RepliesInv, TypesInv
<1>4. IsFiniteSet(Answering(e)) /\ Cardinality(Answering(e)) \in Nat
  BY DeliveriesFinite
<1>5. CASE e = d[1]
  <2>1. Answering(e)' = Answering(e) \cup {d} /\ d \notin Answering(e)
    BY <1>1, <1>2, <1>5, DeliveryEvent DEF Answering, DeliveryInv
  <2>2. Cardinality(Answering(e)') = Cardinality(Answering(e)) + 1
    BY <1>4, <2>1, FS_AddElement
  <2>3. replies'[e] \in {replies[e], replies[e] + 1}
    BY <1>2, <1>5 DEF SendReply, TypesInv
  <2> QED
    BY <1>3, <1>4, <2>2, <2>3
<1>6. CASE e # d[1]
  <2>1. Answering(e)' = Answering(e)
    BY <1>1, <1>6, DeliveryEvent DEF Answering, DeliveryInv
  <2>2. replies'[e] = replies[e]
    BY <1>6 DEF SendReply, TypesInv
  <2> QED
    BY <1>3, <2>1, <2>2
<1> QED
  BY <1>5, <1>6

\* every step mails no more than it handles
LEMMA RepliesStep == ASSUME IngressInv, [Next]_vars PROVE RepliesInv'
<1>1. ASSUME NEW d \in Delivery, SendReply(d) PROVE RepliesInv'
  BY <1>1, SendReplyCounts
<1>2. ASSUME NEW d \in Delivery, Forward(d) \/ TurnEnds(d) PROVE RepliesInv'
  <2>1. replies' = replies /\ handler[d] \in {"none", "turn"}
    BY <1>2 DEF Forward, TurnEnds
  <2>2. \A c \in Delivery : c # d => handler'[c] = handler[c]
    BY <1>2 DEF Forward, TurnEnds, Become, IngressInv, DeliveryInv
  <2> QED
    BY <2>1, <2>2, RepliesKept DEF IngressInv
<1>3. CASE BotCrashes \/ ContainerRestarts
  <2>1. replies' = replies /\ handler' = Killed
    BY <1>3 DEF BotCrashes, ContainerRestarts
  <2> QED
    BY <2>1, RepliesKept DEF IngressInv, Killed, InBot
<1>4. CASE handler' = handler /\ replies' = replies
  BY <1>4, RepliesKept DEF IngressInv
<1>5. ASSUME NEW d \in Delivery, Receive(d) \/ Accept(d) \/ Refuse(d)
      PROVE  handler' = handler /\ replies' = replies
  BY <1>5 DEF Receive, Accept, Refuse
<1>6. ASSUME NEW e \in Event, Retry(e) \/ ProviderTimesOut(e)
      PROVE  handler' = handler /\ replies' = replies
  BY <1>6 DEF Retry, Deliver, GiveUp, ProviderTimesOut
<1>7. ASSUME Tick \/ UNCHANGED vars PROVE handler' = handler /\ replies' = replies
  BY <1>7 DEF Tick, vars
<1> QED
  BY <1>1, <1>2, <1>3, <1>4, <1>5, <1>6, <1>7 DEF Next, Work

-----------------------------------------------------------------------------
(* The excuses.                                                             *)

\* an event whose deliveries and nonce nothing touches
LEMMA Untouched ==
    ASSUME NEW e \in Event, Unexcused(e),
           \A d \in DeliveriesOf(e) : request'[d] = request[d] /\ handler'[d] = handler[d],
           replies'[e] = replies[e], e \in Names(nonces') <=> e \in Names(nonces)
    PROVE  Unexcused(e)'
<1>1. \A d \in DeliveriesOf(e) : /\ InCockpit(d)' <=> InCockpit(d)
                                 /\ InBot(d)' <=> InBot(d)
  BY DEF InCockpit, InBot
<1>2. Names(nonces)' = Names(nonces')
  BY DEF Names
<1> QED
  BY <1>1, <1>2 DEF Unexcused
\* when no delivery is forwarded, no bot is at work, and what one has done is known
LEMMA NothingForwarded ==
    ASSUME NEW e \in Event, Unexcused(e), \A d \in DeliveriesOf(e) : request[d].st # "forwarding"
    PROVE  \A d \in DeliveriesOf(e) : ~ InBot(d) /\ (handler[d] # "none" => e \in Names(nonces))
BY DEF Unexcused

\* the provider delivers an event again: it is excused if a delivery is still in the cockpit
LEMMA DeliverExcused == ASSUME IngressInv, NEW f \in Event, Deliver(f) PROVE ExcuseInv'
<1> SUFFICES ASSUME NEW e \in Event, e \notin excused' PROVE Unexcused(e)'
  BY DEF ExcuseInv
<1> USE DEF IngressInv
<1>1. PICK n \in 1..MaxAttempts[f] :
          /\ request' = [request EXCEPT ![<<f, n>>] = [st |-> "sent", ts |-> now]]
          /\ excused' = IF \E d \in DeliveriesOf(f) : InCockpit(d)
                        THEN excused \cup {f} ELSE excused
  BY NextAttempt DEF Deliver
<1>2. e \notin excused /\ Unexcused(e) /\ UNCHANGED <<handler, nonces, replies>>
  BY <1>1 DEF ExcuseInv, Deliver
<1>3. <<f, n>> \in DeliveriesOf(f) /\ \A d \in DeliveriesOf(e) : d \in Delivery /\ d[1] = e
  BY DeliveryEvent DEF DeliveriesOf
<1>4. CASE e # f
  <2>1. \A d \in DeliveriesOf(e) : request'[d] = request[d]
    BY <1>1, <1>3, <1>4 DEF DeliveryInv
  <2> QED
    BY <1>2, <2>1, Untouched
<1>5. CASE e = f
  <2>1. \A d \in DeliveriesOf(e) : request[d].st \notin {"sent", "forwarding"}
    BY <1>1, <1>5 DEF InCockpit
  <2>2. \A d \in DeliveriesOf(e) : ~ InBot(d) /\ (handler[d] # "none" => e \in Names(nonces))
    BY <1>2, <2>1, NothingForwarded
  <2>3. \A d \in DeliveriesOf(e) :
          request'[d].st = IF d = <<f, n>> THEN "sent" ELSE request[d].st
    BY <1>1, <1>3 DEF DeliveryInv
  <2>4. \A d \in DeliveriesOf(e) : /\ InCockpit(d)' => d = <<f, n>>
                                   /\ ~ InBot(d)' /\ request'[d].st # "forwarding"
    BY <1>2, <2>1, <2>2, <2>3 DEF InCockpit, InBot
  <2>5. Names(nonces)' = Names(nonces)
    BY <1>2 DEF Names
  <2> QED
    BY <1>2, <2>2, <2>4, <2>5 DEF Unexcused
<1> QED
  BY <1>4, <1>5

\* the route looks at the nonces first, and excuses the events it forgets
LEMMA ReceiveExcused == ASSUME IngressInv, NEW d \in Delivery, Receive(d) PROVE ExcuseInv'
<1> SUFFICES ASSUME NEW e \in Event, e \notin excused' PROVE Unexcused(e)'
  BY DEF ExcuseInv
<1> USE DEF IngressInv
<1>1. /\ nonces' = Prune(nonces) /\ UNCHANGED <<handler, replies>>
      /\ excused' = excused \cup (Names(nonces) \ Names(nonces'))
      /\ request[d].st = "sent"
  BY DEF Receive, Keep
<1>2. Names(nonces') \subseteq Names(nonces)
  BY <1>1, PruneNames DEF DeliveryInv
<1>3. e \notin excused /\ Unexcused(e) /\ (e \in Names(nonces') <=> e \in Names(nonces))
  BY <1>1, <1>2 DEF ExcuseInv
<1>4. \/ request'[d].st = "done"
      \/ request'[d].st = "forwarding" /\ d[1] \notin Names(nonces')
  BY <1>1 DEF Receive, Respond, DeliveryInv
<1>5. \A c \in Delivery : c # d => request'[c] = request[c]
  BY DEF Receive, Respond, DeliveryInv
<1>6. \A c \in DeliveriesOf(e) : c \in Delivery /\ c[1] = e
  BY DeliveryEvent
<1>7. CASE e # d[1]
  BY <1>1, <1>3, <1>5, <1>6, <1>7, Untouched
<1>8. CASE e = d[1]
  <2>1. d \in DeliveriesOf(e)
    BY <1>8, DeliveryEvent
  <2>2. \A c \in DeliveriesOf(e) : c # d => request[c].st \notin {"sent", "forwarding"}
    BY <1>1, <1>3, <2>1 DEF Unexcused, InCockpit
  <2>3. \A c \in DeliveriesOf(e) : ~ InBot(c) /\ (handler[c] # "none" => e \in Names(nonces))
    BY <1>1, <1>3, <2>2, NothingForwarded
  <2>4. \A c \in DeliveriesOf(e) :
          /\ InCockpit(c)' => c = d
          /\ ~ InBot(c)'
          /\ handler'[c] # "none" => e \in Names(nonces')
          /\ e \in Names(nonces') => request'[c].st # "forwarding"
    BY <1>1, <1>3, <1>4, <1>5, <1>6, <1>8, <2>2, <2>3 DEF InCockpit, InBot
  <2>5. Names(nonces)' = Names(nonces')
    BY DEF Names
  <2> QED
    BY <1>1, <1>3, <2>4, <2>5 DEF Unexcused
<1> QED
  BY <1>7, <1>8

\* a forward starts the only handler of its event
LEMMA ForwardExcused == ASSUME IngressInv, NEW d \in Delivery, Forward(d) PROVE ExcuseInv'
<1> SUFFICES ASSUME NEW e \in Event, e \notin excused' PROVE Unexcused(e)'
  BY DEF ExcuseInv
<1> USE DEF IngressInv
<1>1. /\ UNCHANGED <<nonces, replies, excused>>
      /\ request[d].st = "forwarding" /\ handler[d] = "none"
  BY DEF Forward
<1>2. Unexcused(e) /\ Names(nonces)' = Names(nonces)
  BY <1>1 DEF ExcuseInv, Names
<1>3. /\ \A c \in Delivery : c # d => request'[c] = request[c] /\ handler'[c] = handler[c]
      /\ \/ request'[d] = request[d]
         \/ request'[d].st = "done" /\ handler'[d] = "none"
  BY <1>1 DEF Forward, Respond, DeliveryInv
<1>4. \A c \in DeliveriesOf(e) : c \in Delivery /\ c[1] = e
  BY DeliveryEvent
<1>5. CASE e # d[1]
  BY <1>1, <1>2, <1>3, <1>4, <1>5, Untouched DEF Names
<1>6. CASE e = d[1]
  <2>1. d \in DeliveriesOf(e)
    BY <1>6, DeliveryEvent
  <2>2. e \notin Names(nonces)
    BY <1>1, <1>2, <2>1 DEF Unexcused
  <2>3. \A c \in DeliveriesOf(e) :
            c # d => request[c].st \notin {"sent", "forwarding"} /\ handler[c] = "none"
    BY <1>1, <1>2, <2>1, <2>2 DEF Unexcused, InCockpit
  <2>4. replies[e] <= 1 /\ replies[e] # 1
    BY <1>1, <1>2, <2>3 DEF Unexcused
  <2>5. \A c \in DeliveriesOf(e) :
          /\ InCockpit(c)' => c = d
          /\ InBot(c)' => request'[c].st = "forwarding"
          /\ handler'[c] # "none" => request'[c].st = "forwarding"
    BY <1>1, <1>3, <1>4, <2>3 DEF InCockpit, InBot
  <2> QED
    BY <1>1, <1>2, <2>2, <2>4, <2>5 DEF Unexcused
<1> QED
  BY <1>5, <1>6

\* an event that is accepted is in the store, whatever the store forgets for it
LEMMA AcceptExcused == ASSUME IngressInv, NEW d \in Delivery, Accept(d) PROVE ExcuseInv'
<1> SUFFICES ASSUME NEW e \in Event, e \notin excused' PROVE Unexcused(e)'
  BY DEF ExcuseInv
<1> USE DEF IngressInv
<1>1. /\ nonces' = Record(Prune(nonces), d[1]) /\ UNCHANGED <<handler, replies>>
      /\ excused' = excused \cup (Names(nonces) \ Names(nonces'))
      /\ request[d].st = "forwarding" /\ handler[d] = "ok"
  BY DEF Accept, Accepted, Keep
<1>2. d[1] \in Event
  BY DeliveryEvent
<1>3. Names(nonces') \subseteq Names(nonces) \cup {d[1]} /\ d[1] \in Names(nonces')
  <2>1. Prune(nonces) \in Seq(Entry) /\ Names(Prune(nonces)) \subseteq Names(nonces)
    BY PruneNames DEF DeliveryInv
  <2>2. Names(Record(Prune(nonces), d[1])) \subseteq Names(Prune(nonces)) \cup {d[1]}
    BY <1>2, <2>1, RecordNames DEF DeliveryInv
  <2>3. d[1] \in Names(Record(Prune(nonces), d[1]))
    BY <1>2, PruneGood, RecordGood DEF TypesInv
  <2> QED
    BY <1>1, <2>1, <2>2, <2>3
<1>4. /\ e \notin excused /\ Unexcused(e)
      /\ e # d[1] => (e \in Names(nonces') <=> e \in Names(nonces))
  BY <1>1, <1>3 DEF ExcuseInv
<1>5. request'[d].st = "done" /\ \A c \in Delivery : c # d => request'[c] = request[c]
  BY DEF Accept, Respond, DeliveryInv
<1>6. \A c \in DeliveriesOf(e) : c \in Delivery /\ c[1] = e
  BY DeliveryEvent
<1>7. CASE e # d[1]
  BY <1>1, <1>4, <1>5, <1>6, <1>7, Untouched
<1>8. CASE e = d[1]
  <2>1. d \in DeliveriesOf(e)
    BY <1>8, DeliveryEvent
  <2>2. \A c \in DeliveriesOf(e) : c # d => request[c].st \notin {"sent", "forwarding"}
    BY <1>1, <1>4, <2>1 DEF Unexcused, InCockpit
  <2>3. \A c \in DeliveriesOf(e) : ~ InBot(c)
    BY <1>1, <1>4, <2>2 DEF Unexcused, InBot
  <2>4. \A c \in DeliveriesOf(e) :
          ~ InCockpit(c)' /\ ~ InBot(c)' /\ request'[c].st # "forwarding"
    BY <1>1, <1>5, <1>6, <2>2, <2>3 DEF InCockpit, InBot
  <2>5. e \in Names(nonces)'
    BY <1>3, <1>8 DEF Names
  <2> QED
    BY <1>1, <1>4, <2>4, <2>5 DEF Unexcused
<1> QED
  BY <1>7, <1>8

\* a delivery that is taken for failed excuses its event
LEMMA RefuseExcused == ASSUME IngressInv, NEW d \in Delivery, Refuse(d) PROVE ExcuseInv'
<1> SUFFICES ASSUME NEW e \in Event, e \notin excused' PROVE Unexcused(e)'
  BY DEF ExcuseInv
<1> USE DEF IngressInv
<1>1. e # d[1] /\ e \notin excused /\ UNCHANGED <<handler, nonces, replies>>
  BY DEF Refuse
<1>2. Unexcused(e) /\ \A c \in Delivery : c # d => request'[c] = request[c]
  BY <1>1 DEF ExcuseInv, Refuse, Respond, DeliveryInv
<1>3. \A c \in DeliveriesOf(e) : c \in Delivery /\ c[1] = e
  BY DeliveryEvent
<1> QED
  BY <1>1, <1>2, <1>3, Untouched DEF Names

\* a bot at work is the first one on its event, and its delivery is still waited for
LEMMA BotExcused ==
    ASSUME IngressInv, NEW d \in Delivery, TurnEnds(d) \/ SendReply(d) PROVE ExcuseInv'
<1> SUFFICES ASSUME NEW e \in Event, e \notin excused' PROVE Unexcused(e)'
  BY DEF ExcuseInv
<1> USE DEF IngressInv
<1>1. UNCHANGED <<request, nonces, excused>> /\ InBot(d)
  BY DEF TurnEnds, SendReply, BotOnly, InBot
<1>2. Unexcused(e) /\ Names(nonces)' = Names(nonces)
  BY <1>1 DEF ExcuseInv, Names
<1>3. /\ handler'[d] \in {"stored", "ok", "rejected"}
      /\ \A c \in Delivery : c # d => handler'[c] = handler[c]
      /\ handler'[d] = "stored" => replies' = replies
  BY DEF TurnEnds, SendReply, Become, DeliveryInv
<1>4. \A c \in DeliveriesOf(e) : c \in Delivery /\ c[1] = e
  BY DeliveryEvent
<1>5. CASE e # d[1]
  <2>1. replies'[e] = replies[e]
    BY <1>5 DEF TurnEnds, SendReply, TypesInv
  <2> QED
    BY <1>1, <1>2, <1>3, <1>4, <1>5, <2>1, Untouched DEF Names
<1>6. CASE e = d[1]
  <2>1. d \in DeliveriesOf(e)
    BY <1>6, DeliveryEvent
  <2>2. request[d].st = "forwarding" /\ e \notin Names(nonces)
    BY <1>1, <1>2, <2>1 DEF Unexcused
  <2>3. \A c \in DeliveriesOf(e) :
            c # d => request[c].st \notin {"sent", "forwarding"} /\ handler[c] = "none"
    BY <1>2, <2>1, <2>2 DEF Unexcused, InCockpit
  <2>4. replies[e] = 0
    <3>1. handler[d] \notin {"ok", "rejected"}
      BY <1>1 DEF InBot
    <3>2. replies[e] \in Nat /\ replies[e] <= 1 /\ replies[e] # 1
      BY <1>2, <2>3, <3>1 DEF Unexcused, TypesInv
    <3> QED
      BY <3>2
  <2>5. replies'[e] \in {0, 1} /\ (replies'[e] = 1 => handler'[d] \in {"ok", "rejected"})
    BY <1>3, <1>6, <2>4 DEF TurnEnds, SendReply, TypesInv
  <2>6. \A c \in DeliveriesOf(e) :
          /\ InCockpit(c)' => c = d
          /\ InBot(c)' => request'[c].st = "forwarding"
          /\ handler'[c] # "none" => request'[c].st = "forwarding"
    BY <1>1, <1>3, <1>4, <2>2, <2>3 DEF InCockpit, InBot
  <2> QED
    BY <1>2, <2>1, <2>2, <2>5, <2>6 DEF Unexcused
<1> QED
  BY <1>5, <1>6

\* a crash of the bot is seen by the cockpit
LEMMA BotCrashExcused == ASSUME IngressInv, BotCrashes PROVE ExcuseInv'
<1> SUFFICES ASSUME NEW e \in Event, e \notin excused' PROVE Unexcused(e)'
  BY DEF ExcuseInv
<1>1. UNCHANGED <<request, nonces, excused, replies>> /\ handler' = Killed
  BY DEF BotCrashes
<1>2. Unexcused(e) /\ Names(nonces)' = Names(nonces)
  BY <1>1 DEF IngressInv, ExcuseInv, Names
<1>3. \A d \in DeliveriesOf(e) :
        /\ InCockpit(d)' <=> InCockpit(d)
        /\ ~ InBot(d)'
        /\ handler'[d] # "none" => handler[d] # "none"
        /\ handler[d] \in {"ok", "rejected"} => handler'[d] = handler[d]
  BY <1>1, DeliveryEvent DEF Killed, InCockpit, InBot
<1> QED
  BY <1>1, <1>2, <1>3 DEF Unexcused

\* a restart of the container excuses what was forwarded and what was in the store
LEMMA RestartExcused == ASSUME IngressInv, ContainerRestarts PROVE ExcuseInv'
<1> SUFFICES ASSUME NEW e \in Event, e \notin excused' PROVE Unexcused(e)'
  BY DEF ExcuseInv
<1>1. /\ UNCHANGED replies /\ handler' = Killed /\ nonces' = <<>>
      /\ e \notin excused /\ e \notin Names(nonces)
      /\ \A d \in DeliveriesOf(e) : request[d].st # "forwarding"
  BY DEF ContainerRestarts
<1>2. Unexcused(e) /\ e \notin Names(nonces)'
  BY <1>1 DEF IngressInv, ExcuseInv, Names
<1>3. \A d \in DeliveriesOf(e) : handler[d] = "none"
  BY <1>1, <1>2, NothingForwarded
<1>4. \A d \in DeliveriesOf(e) : handler'[d] = "none" /\ ~ InBot(d)' /\ ~ InCockpit(d)'
  BY <1>1, <1>3, DeliveryEvent DEF Killed, InBot, InCockpit, ContainerRestarts
<1> QED
  BY <1>1, <1>2, <1>3, <1>4 DEF Unexcused

\* every step keeps the excuses
LEMMA ExcuseStep == ASSUME IngressInv, [Next]_vars PROVE ExcuseInv'
<1>1. ASSUME UNCHANGED <<request, handler, nonces, replies, excused>> PROVE ExcuseInv'
  BY <1>1, Untouched DEF IngressInv, ExcuseInv, Names
<1>2. ASSUME NEW e \in Event, GiveUp(e) \/ ProviderTimesOut(e) PROVE ExcuseInv'
  BY <1>1, <1>2 DEF GiveUp, ProviderTimesOut
<1>3. ASSUME Tick \/ UNCHANGED vars PROVE ExcuseInv'
  BY <1>1, <1>3 DEF Tick, vars
<1>4. ASSUME NEW d \in Delivery, Work(d) PROVE ExcuseInv'
  BY <1>4, ReceiveExcused, ForwardExcused, AcceptExcused, RefuseExcused, BotExcused DEF Work
<1> QED
  BY <1>2, <1>3, <1>4, DeliverExcused, BotCrashExcused, RestartExcused DEF Next, Retry
\* the invariant holds at first
LEMMA IngressInit == Init => IngressInv
<1> SUFFICES ASSUME Init PROVE IngressInv
  OBVIOUS
<1>1. DeliveryInv
  BY DeliveryInit
<1>2. TypesInv
  <2>1. NoRequest \in [st : {"none", "sent", "forwarding", "done"}, ts : 0..MaxTime]
    BY Bounds DEF NoRequest
  <2> QED
    BY <2>1, Bounds DEF Init, TypesInv
<1>3. GoodStore(nonces)
  <2>1. <<>> \in Seq([nonce : Event, at : 0..MaxTime]) /\ Len(<<>>) = 0
    OBVIOUS
  <2> QED
    BY <2>1, Bounds DEF Init, GoodStore
<1>4. RepliesInv
  <2>1. \A e \in Event : replies[e] = 0 /\ Cardinality(Answering(e)) \in Nat
    BY DeliveriesFinite DEF Init
  <2> QED
    BY <2>1 DEF RepliesInv
<1>5. ExcuseInv
  <2>1. \A d \in Delivery : request[d].st = "none" /\ handler[d] = "none"
    BY DEF Init, NoRequest
  <2>2. Names(nonces) = {} /\ \A e \in Event : replies[e] = 0
    BY DEF Init, Names
  <2> QED
    BY <2>1, <2>2, DeliveryEvent DEF ExcuseInv, Unexcused, InCockpit, InBot
<1> QED
  BY <1>1, <1>2, <1>3, <1>4, <1>5 DEF IngressInv

\* every reachable state satisfies it
LEMMA IngressInvAlways == Spec => []IngressInv
<1>1. IngressInv /\ [Next]_vars => IngressInv'
  <2>1. ASSUME IngressInv, [Next]_vars PROVE DeliveryInv'
    BY <2>1, DeliveryStep DEF IngressInv, Kept
  <2>2. ASSUME IngressInv, [Next]_vars PROVE GoodStore(nonces)'
    <3>1. GoodStore(nonces') <=> GoodStore(nonces)'
      BY DEF GoodStore
    <3> QED
      BY <2>2, <3>1, StoreStep
  <2> QED
    BY <2>1, <2>2, TypesStep, RepliesStep, ExcuseStep DEF IngressInv
<1> QED
  BY <1>1, IngressInit, PTL DEF Spec

\* a store without duplicates has as many names as entries
LEMMA StoreSize == ASSUME NEW s, GoodStore(s) PROVE Cardinality(Names(s)) = Len(s)
<1>1. PICK n \in Nat : n = Len(s) /\ DOMAIN s = 1..n
  BY LenProperties DEF GoodStore
<1> DEFINE name == [i \in 1..n |-> s[i].nonce]
<1>2. name \in Surjection(1..n, Names(s))
  BY <1>1 DEF Surjection, Names
<1>3. \A i, j \in 1..n : name[i] = name[j] => i = j
  BY <1>1 DEF GoodStore
<1> HIDE DEF name
<1>4. name \in Bijection(1..n, Names(s))
  BY <1>2, <1>3 DEF Bijection, Surjection, Injection, IsInjective
<1>5. IsFiniteSet(1..n) /\ Cardinality(1..n) = n
  <2>1. 1 \in Int /\ n \in Int /\ (IF 1 > n THEN 0 ELSE n - 1 + 1) = n
    BY <1>1
  <2> QED
    BY <2>1, FS_Interval
<1>6. ExistsBijection(1..n, Names(s))
  BY <1>4 DEF ExistsBijection
<1> QED
  BY <1>1, <1>5, <1>6, FS_Bijection

\* the invariant implies the types
LEMMA ImpliesTypeOK == IngressInv => TypeOK
<1> SUFFICES ASSUME IngressInv PROVE TypeOK
  OBVIOUS
<1> USE DEF IngressInv
<1>1. \A e \in Event : replies[e] \in 0..MaxAttempts[e]
  <2> SUFFICES ASSUME NEW e \in Event PROVE replies[e] \in 0..MaxAttempts[e]
    OBVIOUS
  <2>1. replies[e] \in Nat /\ replies[e] <= Cardinality(Answering(e))
    BY DEF TypesInv, RepliesInv
  <2>2. Cardinality(Answering(e)) \in Nat /\ Cardinality(Answering(e)) <= MaxAttempts[e]
    BY DeliveriesFinite
  <2> QED
    BY <2>1, <2>2, Bounds
<1>2. \A i \in DOMAIN nonces : nonces[i] \in [nonce : Event, at : 0..MaxTime]
  <2>1. DOMAIN nonces = 1..Len(nonces)
    BY LenProperties DEF GoodStore
  <2> QED
    BY <2>1, ElementOfSeq DEF GoodStore
<1>3. Len(nonces) <= MaxNonces /\ Cardinality(Names(nonces)) = Len(nonces)
  BY StoreSize DEF GoodStore
<1> QED
  BY <1>1, <1>2, <1>3 DEF TypesInv, DeliveryInv, TypeOK

\* Every variable has its type, the nonce store stays within its limit and has no duplicates,
\* and no event is answered more often than it was delivered.
THEOREM TypesAreCorrect == Spec => []TypeOK
  BY IngressInvAlways, ImpliesTypeOK, PTL

\* An event that is not excused is answered by one mail at most, for any provider, turn times,
\* failures and crashes: the nonce closes the window between the bot's answer and the cockpit's.
THEOREM RepeatsAreExcusedAlways == Spec => []RepeatsAreExcused
<1>1. IngressInv => RepeatsAreExcused
  BY DEF IngressInv, TypesInv, ExcuseInv, Unexcused, RepeatsAreExcused
<1> QED
  BY <1>1, IngressInvAlways, PTL

=============================================================================
