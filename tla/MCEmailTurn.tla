----------------------------- MODULE MCEmailTurn -----------------------------
(* EmailTurn for TLC.  The answers reach every parsing strategy: a reply in JSON, one whose
   text is all reasoning channel, one without a target, a key-value console answer, a
   repaired silence, an action outside the vocabulary and plain prose. *)
EXTENDS EmailTurn

CONSTANTS t1, t2, alice, robot

Act(a, text, target) == [action |-> a, text |-> text, target |-> target]
Json(p) == [json |-> p, kv |-> Nothing, repaired |-> p]

MCText == {
    Json(Act("reply", "plain", alice)),
    Json(Act("reply", "reasoning", alice)),
    Json(Act("reply", "plain", Nobody)),
    Json(Act("reply", "plain", robot)),
    [json |-> Nothing, kv |-> Act("console", "plain", Nobody), repaired |-> Nothing],
    [json |-> Nothing, kv |-> Nothing, repaired |-> Act("silent", "none", Nobody)],
    Json(Act("send_dm", "plain", alice)),
    [json |-> Nothing, kv |-> Nothing, repaired |-> Nothing] }

=============================================================================
