--------------------------- MODULE MCTaskScheduler ---------------------------
(* TaskScheduler for TLC: one-shot tasks, tasks that recur every other tick until tick 3, and
   tasks that recur but may fire only twice. *)
EXTENDS TaskScheduler

CONSTANTS t1, t2, a, b

MCRequests == {
    [period |-> 0, until |-> NoLimit, count |-> NoLimit],
    [period |-> 2, until |-> 3, count |-> NoLimit],
    [period |-> 1, until |-> NoLimit, count |-> 2] }

MCZeroCount == {[period |-> 1, until |-> NoLimit, count |-> 0]}

\* bound: no save fails after a restart that followed failed saves
FailuresEnd == revived # {} => lagging' \subseteq lagging

MCSpec == Init /\ [][Next /\ FailuresEnd]_vars /\ WF_vars(LoopStep)

=============================================================================
