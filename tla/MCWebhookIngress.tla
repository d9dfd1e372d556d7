-------------------------- MODULE MCWebhookIngress --------------------------
(* WebhookIngress for TLC, with events as model values. *)
EXTENDS WebhookIngress

CONSTANTS e1, e2

MCKinds == {[e \in {e1, e2} |-> IF e = e1 THEN k ELSE "mail"] : k \in {"mail", "blacklisted", "bounce"}}
MCAttempts == [e \in {e1, e2} |-> IF e = e1 THEN 2 ELSE 1]

MCMail == {[e \in {e1} |-> "mail"]}
MCTwice == [e \in {e1} |-> 2]

=============================================================================
