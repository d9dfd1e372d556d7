--------------------------- MODULE EventDelivery ---------------------------
(***************************************************************************)
(* What the webhook ingress promises to a provider of events: an event is   *)
(* acknowledged only after a bot has handled it, one that was given up is   *)
(* never acknowledged, and every event is acknowledged or given up in the   *)
(* end.                                                                     *)
(***************************************************************************)
CONSTANT Event

VARIABLES
    handled,  \* events that a bot has handled
    settled   \* what has become of each event at its provider

vars == <<handled, settled>>

Init ==
    /\ handled = {}
    /\ settled = [e \in Event |-> "pending"]

Handle(e) ==
    /\ handled' = handled \cup {e}
    /\ UNCHANGED settled

Acknowledge(e) ==
    /\ e \in handled
    /\ settled[e] = "pending"
    /\ settled' = [settled EXCEPT ![e] = "acked"]
    /\ UNCHANGED handled

GiveUp(e) ==
    /\ settled[e] = "pending"
    /\ settled' = [settled EXCEPT ![e] = "gaveup"]
    /\ UNCHANGED handled

Settle(e) == Acknowledge(e) \/ GiveUp(e)

Next == \E e \in Event : Handle(e) \/ Settle(e)

Spec == Init /\ [][Next]_vars /\ \A e \in Event : WF_vars(Settle(e))
=============================================================================
