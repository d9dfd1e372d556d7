----------------------------- MODULE MCCockpit -----------------------------
(***************************************************************************)
(* Three parts of the cockpit for TLC.  They share neither rows nor files,  *)
(* so that a behaviour of the cockpit is one of each part and an            *)
(* interleaving of them adds nothing to what a property of one part says:   *)
(* the instance picks a part, and the others rest.                          *)
(***************************************************************************)
EXTENDS Escalations, OperatorLogin, Connections, TLC

CONSTANTS b1, u1, password, signing_secret, api_key

VARIABLE part

\* one bot of an operator, one started by hand
MCOwner == [b \in Bot |-> IF b = b1 THEN u1 ELSE NoOwner]

\* an SMTP account has a password, a Resend one two secrets
MCSecretsOf == [s \in Service |-> IF s = "smtp" THEN {password} ELSE {signing_secret, api_key}]

MCInit ==
    /\ part \in {"escalations", "login", "connections"}
    /\ EscalationInit /\ LoginInit /\ ConnectionInit

MCNext ==
    \/ /\ part = "escalations" /\ EscalationNext
       /\ UNCHANGED <<part, loginVars, connectionVars>>
    \/ /\ part = "login" /\ LoginNext
       /\ UNCHANGED <<part, escalationVars, connectionVars>>
    \/ /\ part = "connections" /\ ConnectionNext
       /\ UNCHANGED <<part, escalationVars, loginVars>>

MCSpec == MCInit /\ [][MCNext]_<<part, escalationVars, loginVars, connectionVars>>

\* threads and the secrets of a Resend account are interchangeable
MCSymmetry == Permutations(Saver) \cup Permutations({signing_secret, api_key})

=============================================================================
