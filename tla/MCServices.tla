----------------------------- MODULE MCServices -----------------------------
(***************************************************************************)
(* Four parts that share no state, for TLC: which tools a bot gets, what a  *)
(* crawl adds to a Brain, when a recurring task fires, and where its        *)
(* conversations are.  The instance picks a part, and the others rest.      *)
(***************************************************************************)
EXTENDS ToolSelection, BrainIngest, Recurrence, HistoryLayout, TLC

VARIABLE part

MCAlphabetical ==
    <<"brain_query", "cancel_task", "escalate", "schedule_task", "sql_query", "web_search">>

\* the templates general, order-status and lead-nurture
MCTemplate ==
    {[required |-> {"brain_query"}, optional |-> {"web_search"}, bot_tools |-> {}],
     [required |-> {"sql_query"}, optional |-> {"brain_query"}, bot_tools |-> {}],
     [required |-> {"schedule_task"}, optional |-> {"sql_query", "cancel_task"},
      bot_tools |-> {}]}

MCServiceOf == [t \in Tool |-> CASE t = "brain_query" -> {"brain"}
                                 [] t = "sql_query" -> {"database"}
                                 [] OTHER -> {}]

\* a diamond with a link back, a chain, and a page that links to itself and to all others
MCWeb ==
    {[u \in Url |-> CASE u = "/" -> {"/a", "/b"} [] u = "/a" -> {"/c", "/"}
                      [] u = "/b" -> {"/c"} [] u = "/c" -> {"/b", "/d"} [] OTHER -> {}],
     [u \in Url |-> CASE u = "/" -> {"/a"} [] u = "/a" -> {"/b"} [] u = "/b" -> {"/c"}
                      [] OTHER -> {}],
     [u \in Url |-> IF u = "/" THEN Url ELSE {"/"}]}

\* /a and /b have the same slug
MCSlugOf == [u \in Url |-> IF u \in {"/a", "/b"} THEN "a" ELSE u]

\* 2027 and the leap year 2028
MCMonthLength ==
    <<31, 28, 31, 30, 31, 30, 31, 31, 30, 31, 30, 31,
      31, 29, 31, 30, 31, 30, 31, 31, 30, 31, 30, 31>>

MCFirstDue ==
    {[month |-> 1, day |-> 29], [month |-> 1, day |-> 30], [month |-> 1, day |-> 31],
     [month |-> 2, day |-> 28], [month |-> 12, day |-> 31]}

MCRule ==
    {[repeat |-> "daily", interval |-> n, weekdays |-> {}] : n \in 0 .. 2}
    \cup [repeat : {"weekly"}, interval : {1, 2}, weekdays : {{}, {0}, {1, 6}, {0, 2, 4}}]
    \cup {[repeat |-> "monthly", interval |-> n, weekdays |-> {}] : n \in {1, 2, 3, 12}}

MCInit ==
    /\ part \in {"tools", "brain", "calendar", "history"}
    /\ ToolInit /\ BrainInit /\ RecurrenceInit /\ LayoutInit
    \* a part that rests has one initial state
    /\ part # "tools" => entitled = {} /\ row.template.required = {"brain_query"}
    /\ part # "brain" => links = CHOOSE w \in Web : TRUE
    /\ part # "calendar" => /\ rule = CHOOSE r \in Rule : TRUE
                            /\ firings = <<CHOOSE d \in FirstDue : TRUE>>
    /\ part # "history" => legacy.st = "gone"

MCNext ==
    \/ /\ part = "tools" /\ ToolNext
       /\ UNCHANGED <<part, brainVars, recurrenceVars, layoutVars>>
    \/ /\ part = "brain" /\ BrainNext
       /\ UNCHANGED <<part, toolVars, recurrenceVars, layoutVars>>
    \/ /\ part = "calendar" /\ RecurrenceNext
       /\ UNCHANGED <<part, toolVars, brainVars, layoutVars>>
    \/ /\ part = "history" /\ LayoutNext
       /\ UNCHANGED <<part, toolVars, brainVars, recurrenceVars>>

MCSpec == MCInit /\ [][MCNext]_<<part, toolVars, brainVars, recurrenceVars, layoutVars>>

\* conversations are interchangeable
MCSymmetry == Permutations(Conversation)

=============================================================================
