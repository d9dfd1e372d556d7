----------------------------- MODULE EmailTurn -----------------------------
(***************************************************************************)
(* Turns of an e-mail bot (bots/email/__init__.py) on its agent             *)
(* (agent/core.py, tool_loop.py): inbound mails and operator instructions,  *)
(* any number of them at once on one event loop.  A turn asks the language  *)
(* model, runs the tools that it calls, resolves a typed action, stores     *)
(* messages in the history of a conversation and then dispatches the        *)
(* action, which may send a mail.                                           *)
(*                                                                          *)
(* What lies between two awaits that suspend is one step.  The model is the *)
(* environment: it may answer anything, call any tool in any order, or      *)
(* fail.  An answer is known by what each parsing strategy makes of it.     *)
(***************************************************************************)
EXTENDS Integers, Sequences, FiniteSets

CONSTANTS
    Turn,           \* turns the instance takes
    Address,        \* addresses of correspondents
    NoReply,        \* those that valid_recipient refuses
    Text,           \* answers of the model
    MaxToolRounds,  \* MAX_TOOL_ROUNDS
    MaxCalls,       \* bound on the tool calls in one answer
    MaxHistory      \* agent_max_history_messages

Operator == "operator"
Nobody == "nobody"
Nothing == [action |-> "none", text |-> "none", target |-> Nobody]

\* EmailAction; names outside it reach the bot through recover_base_action only
Vocabulary == {"reply", "console", "silent"}
Control == {"silent", "sleep", "console"}
Wording == {"plain", "reasoning", "none"}
Payload == [action : Vocabulary \cup {"send_dm", "error"}, text : Wording,
            target : Address \cup {Nobody}] \cup {Nothing}

ASSUME EmailTurnAssumption ==
    /\ IsFiniteSet(Turn) /\ IsFiniteSet(Address) /\ NoReply \subseteq Address
    /\ Operator \notin Address /\ Nobody \notin Address
    /\ Text \subseteq [json : Payload, kv : Payload, repaired : Payload]
    /\ MaxToolRounds \in Nat \ {0} /\ MaxCalls \in Nat \ {0} /\ MaxHistory \in Nat

VARIABLES
    turn,     \* each turn's local variables
    history,  \* the messages of each conversation
    mails     \* mails that reached the mail server

vars == <<turn, history, mails>>

Conversation == Address \cup {Operator}
\* the records of send_email calls; nothing depends on those of other tools
Record == [to : Address, ok : BOOLEAN, result : {"sent", "error"}]
Result == {"none", "ok", "failed", "sent", "missing", "silent", "console", "error"}
TurnState == [pc : {"idle", "asking", "calling", "resolving", "dispatching", "done"},
              conv : Conversation \cup {Nobody},
              rounds : 0..MaxToolRounds, left : 0..MaxCalls, attempt : 0..1,
              records : SUBSET Record, action : Payload, result : Result]

Idle == [pc |-> "idle", conv |-> Nobody, rounds |-> 0, left |-> 0, attempt |-> 0,
         records |-> {}, action |-> Nothing, result |-> "none"]

IsOperator(t) == turn[t].conv = Operator

-----------------------------------------------------------------------------
(* What becomes of an answer.                                               *)

\* normalize_action_text: a text that is all reasoning channel becomes empty
NormalizeActionText(p) == IF p.text = "reasoning" THEN [p EXCEPT !.text = "none"] ELSE p

Valid(p) == p.action \in Vocabulary

\* recover_base_action looks at the text before it is normalized
RecoverBaseAction(p) ==
    IF p.action \in Vocabulary \cup Control \cup {"none"} \/ p.text = "none"
    THEN Nothing ELSE NormalizeActionText(p)

\* parse_structured_text: the first strategy whose payload validates
ParseStructuredText(x) ==
    IF Valid(x.json) THEN NormalizeActionText(x.json)
    ELSE IF Valid(x.kv) THEN NormalizeActionText(x.kv)
    ELSE IF Valid(x.repaired) THEN NormalizeActionText(x.repaired)
    ELSE RecoverBaseAction(IF x.repaired # Nothing THEN x.repaired ELSE x.kv)

\* Faulty variant: the turn's tool calls are not looked at
NeverSentViaTool(t, to) == FALSE

\* send_email reports its own failures as a result, and the call still counts as ok
SentViaTool(t, to) == \E r \in turn[t].records : r.ok /\ r.to = to

\* Faulty variant: one message too many is kept
TrimHistoryLate(s) ==
    IF Len(s) <= MaxHistory + 1 THEN s ELSE SubSeq(s, Len(s) - MaxHistory, Len(s))

\* trim_history keeps the newest messages
TrimHistory(s) ==
    IF Len(s) <= MaxHistory THEN s ELSE SubSeq(s, Len(s) - MaxHistory + 1, Len(s))

Stored(c, messages) == [history EXCEPT ![c] = TrimHistory(@ \o messages)]

\* record_assistant_message stores nothing for an empty text
Recorded(c, t) == Stored(c, <<[role |-> "assistant", turn |-> t]>>)

\* what the SMTP session may come to: also delivered with the reply to QUIT lost
Outcome(to) == IF to \in NoReply THEN {"refused"} ELSE {"sent", "failed", "unconfirmed"}
Mailed(t, to, via, o) ==
    IF o \in {"sent", "unconfirmed"} THEN mails \cup {[turn |-> t, to |-> to, via |-> via]}
    ELSE mails

-----------------------------------------------------------------------------
(* The start of a turn.                                                     *)

\* process_inbound_email up to agent.chat
StartInbound(t) ==
    /\ turn[t].pc = "idle"
    /\ \E a \in Address : turn' = [turn EXCEPT ![t] = [Idle EXCEPT !.pc = "asking", !.conv = a]]
    /\ UNCHANGED <<history, mails>>

\* send_message, the /tell route and handle_operator up to agent.chat
StartOperator(t) ==
    /\ turn[t].pc = "idle"
    /\ turn' = [turn EXCEPT ![t] = [Idle EXCEPT !.pc = "asking", !.conv = Operator]]
    /\ UNCHANGED <<history, mails>>

-----------------------------------------------------------------------------
(* The tool loop.  A decision is stored without another await; the turn     *)
(* waits again while save_goal runs in a thread.                            *)

\* Faulty variant: every action counts as an answer in the turn's conversation
NeverDelegated(t, a) == FALSE

\* is_delegated_action of an operator turn
Delegated(t, a) == IsOperator(t) /\ a.action = "reply"

\* Faulty variant: the message that is answered is not stored
PersistAnswer(t, a) ==
    LET answer == IF a.text # "none" /\ ~Delegated(t, a)
                  THEN <<[role |-> "assistant", turn |-> t]>> ELSE <<>>
    IN  history' = Stored(turn[t].conv, answer)

\* persist_turn: both messages are appended under the save lock
PersistTurn(t, a) ==
    LET says == a.text # "none"
        user == IF says \/ Delegated(t, a) THEN <<[role |-> "user", turn |-> t]>> ELSE <<>>
        answer == IF says /\ ~Delegated(t, a) THEN <<[role |-> "assistant", turn |-> t]>> ELSE <<>>
    IN  history' = Stored(turn[t].conv, user \o answer)

Decide(t, a) ==
    /\ turn' = [turn EXCEPT ![t].pc = "dispatching", ![t].action = a,
                            ![t].rounds = 0, ![t].left = 0, ![t].attempt = 0]
    /\ PersistTurn(t, a)

\* chat_error: the records of the tool calls are dropped and nothing is stored
ChatError(t) ==
    /\ turn' = [turn EXCEPT ![t] = [Idle EXCEPT !.pc = "dispatching", !.conv = turn[t].conv,
            !.action = [Nothing EXCEPT !.action = "error", !.text = "plain"]]]
    /\ history' = history

\* run_with_tools, one round: achat_with_tools and parse_final_action
AskModel(t) ==
    /\ turn[t].pc = "asking"
    /\ \/ \E n \in 1..MaxCalls : turn' = [turn EXCEPT ![t].pc = "calling", ![t].left = n]
                                 /\ history' = history
       \/ \E x \in Text :
            LET a == ParseStructuredText(x)
            IN  IF a # Nothing THEN Decide(t, a)
                ELSE turn' = [turn EXCEPT ![t].pc = "resolving"] /\ history' = history
       \/ ChatError(t)
    /\ UNCHANGED mails

\* Faulty variant: the loop ends with the model's first answer without a call only
AfterCallUnbounded(t, records) ==
    turn' = [turn EXCEPT ![t].records = @ \cup records, ![t].left = @ - 1,
                         ![t].pc = IF turn[t].left > 1 THEN "calling" ELSE "asking"]

\* record_tool_call, and the next round when the answer has no more calls
AfterCall(t, records) ==
    LET u == [turn[t] EXCEPT !.records = @ \cup records, !.left = @ - 1]
        v == [u EXCEPT !.rounds = @ + 1]
    IN  turn' = [turn EXCEPT ![t] =
            IF u.left > 0 THEN u
            ELSE [v EXCEPT !.pc = IF v.rounds = MaxToolRounds THEN "resolving" ELSE "asking"]]

\* maybe_resolve_action_tool_call: the calls that are left are not run
CallAction(t) ==
    /\ turn[t].pc = "calling"
    /\ \E p \in {x.json : x \in Text} : Valid(p) /\ Decide(t, NormalizeActionText(p))
    /\ UNCHANGED mails

\* execute_tool_call of a tool that does not exist, fails or has no effect here
CallOther(t) ==
    /\ turn[t].pc = "calling"
    /\ AfterCall(t, {})
    /\ UNCHANGED <<history, mails>>

\* execute_tool_call of send_email, which returns an error text instead of raising
CallSendEmail(t) ==
    /\ turn[t].pc = "calling"
    /\ \E to \in Address : \E o \in Outcome(to) :
        /\ mails' = Mailed(t, to, "tool", o)
        /\ AfterCall(t, {[to |-> to, ok |-> TRUE,
                          result |-> IF o = "sent" THEN "sent" ELSE "error"]})
    /\ UNCHANGED history

\* resolve_terminal_action: two attempts
ResolveTerminal(t) ==
    /\ turn[t].pc = "resolving"
    /\ \/ \E x \in Text :
            LET a == ParseStructuredText(x)
            IN  IF a # Nothing THEN Decide(t, a)
                ELSE IF turn[t].attempt = 1 THEN ChatError(t)
                ELSE turn' = [turn EXCEPT ![t].attempt = 1] /\ history' = history
       \/ ChatError(t)
    /\ UNCHANGED mails

-----------------------------------------------------------------------------
(* The end of a turn.                                                       *)

Finish(t, result) == turn' = [turn EXCEPT ![t].pc = "done", ![t].result = result]

\* process_inbound_email after agent.chat; a mail that fails fails the ingest
DispatchInbound(t) ==
    /\ turn[t].pc = "dispatching" /\ ~IsOperator(t)
    /\ LET a == turn[t].action
           to == turn[t].conv
       IN  IF a.action = "reply" /\ a.text # "none" /\ ~SentViaTool(t, to)
           THEN \E o \in Outcome(to) :
                    /\ mails' = Mailed(t, to, "reply", o)
                    /\ Finish(t, IF o = "sent" THEN "ok" ELSE "failed")
           ELSE mails' = mails /\ Finish(t, "ok")
    /\ UNCHANGED history

\* Faulty variant: the mail is recorded before it is sent
DispatchReplyEarly(t) ==
    /\ turn[t].pc = "dispatching" /\ IsOperator(t) /\ turn[t].action.action = "reply"
    /\ LET to == turn[t].action.target
       IN  IF to = Nobody \/ turn[t].action.text = "none"
           THEN Finish(t, "missing") /\ UNCHANGED <<history, mails>>
           ELSE \E o \in Outcome(to) :
                    /\ history' = Recorded(to, t)
                    /\ mails' = Mailed(t, to, "reply", o)
                    /\ Finish(t, IF o = "sent" THEN "sent" ELSE "failed")

\* dispatch_reply and send_operator_reply; the result goes back through /tell
DispatchReply(t) ==
    /\ turn[t].pc = "dispatching" /\ IsOperator(t) /\ turn[t].action.action = "reply"
    /\ LET to == turn[t].action.target
       IN  IF to = Nobody \/ turn[t].action.text = "none"
           THEN Finish(t, "missing") /\ UNCHANGED <<history, mails>>
           ELSE IF SentViaTool(t, to)
           THEN Finish(t, "sent") /\ history' = Recorded(to, t) /\ mails' = mails
           ELSE \E o \in Outcome(to) :
                    /\ mails' = Mailed(t, to, "reply", o)
                    /\ IF o = "sent" THEN Finish(t, "sent") /\ history' = Recorded(to, t)
                       ELSE Finish(t, "failed") /\ history' = history

\* dispatch_operator_action for every other action
DispatchConsole(t) ==
    /\ turn[t].pc = "dispatching" /\ IsOperator(t) /\ turn[t].action.action # "reply"
    /\ Finish(t, CASE turn[t].action.action = "silent" -> "silent"
                   [] turn[t].action.action = "error" -> "error"
                   [] OTHER -> "console")
    /\ UNCHANGED <<history, mails>>

\* clear_operator_history by the /clear route
ClearOperatorHistory ==
    /\ history[Operator] # <<>>
    /\ history' = [history EXCEPT ![Operator] = <<>>]
    /\ UNCHANGED <<turn, mails>>

-----------------------------------------------------------------------------
Init ==
    /\ turn = [t \in Turn |-> Idle]
    /\ history = [c \in Conversation |-> <<>>]
    /\ mails = {}

Start(t) == StartInbound(t) \/ StartOperator(t)

\* what a turn does once it has begun
TurnStep(t) ==
    \/ AskModel(t) \/ CallAction(t) \/ CallOther(t) \/ CallSendEmail(t) \/ ResolveTerminal(t)
    \/ DispatchInbound(t) \/ DispatchReply(t) \/ DispatchConsole(t)

Next ==
    \/ \E t \in Turn : Start(t) \/ TurnStep(t)
    \/ ClearOperatorHistory

Spec == Init /\ [][Next]_vars

\* the client of the language model and the SMTP session have timeouts
FairSpec == Spec /\ \A t \in Turn : WF_vars(TurnStep(t))

-----------------------------------------------------------------------------
(* Properties.                                                              *)

\* Every variable has its type; a history never exceeds its limit.
TypeOK ==
    /\ turn \in [Turn -> TurnState]
    /\ DOMAIN history = Conversation
    /\ \A c \in Conversation :
        /\ Len(history[c]) <= MaxHistory
        /\ \A i \in DOMAIN history[c] :
            history[c][i] \in [role : {"user", "assistant"}, turn : Turn]
    /\ mails \subseteq [turn : Turn, to : Address, via : {"tool", "reply"}]

\* A turn whose send_email call has reached an address does not mail its reply to the same
\* address again, whatever the model does (sent_via_tool).
NoDoubleSend ==
    \A m \in mails : m.via = "reply" =>
        [turn |-> m.turn, to |-> m.to, via |-> "tool"] \notin mails

\* Swallowed errors: send_email calls of a turn that returned an error text.
SwallowedErrors(t) == {r.to : r \in {q \in turn[t].records : q.result = "error"}}

\* A mail that an operator turn recorded in a customer's history has been delivered, unless
\* the turn's send_email call to that customer failed and said so in its result only.
RecordedMailWasSent ==
    \A c \in Address : \A i \in DOMAIN history[c] :
        LET t == history[c][i].turn
        IN  IsOperator(t) => \/ \E m \in mails : m.turn = t /\ m.to = c
                             \/ c \in SwallowedErrors(t)

\* The text of a mail to a customer is never stored as an answer to the operator, and a
\* conversation with a customer holds nothing of an operator's turn but the mail sent to them.
ConversationsAreSeparate ==
    \A c \in Conversation : \A i \in DOMAIN history[c] :
        LET t == history[c][i].turn
            a == turn[t].action
        IN  \/ turn[t].conv = c /\ (history[c][i].role = "assistant" => ~(IsOperator(t) /\ a.action = "reply"))
            \/ IsOperator(t) /\ history[c][i].role = "assistant" /\ a.action = "reply" /\ a.target = c

\* The messages of a turn are adjacent in its conversation however turns interleave: the one
\* before an answer of the turn's own conversation is the message it answers.
AnswersFollowQuestions ==
    \A c \in Conversation : \A i \in DOMAIN history[c] :
        LET h == history[c][i]
        IN  (i > 1 /\ h.role = "assistant" /\ turn[h.turn].conv = c) =>
                history[c][i - 1] = [role |-> "user", turn |-> h.turn]

\* Once begun, every turn ends, although the model may go on calling tools forever.
TurnsEnd == \A t \in Turn : turn[t].pc # "idle" ~> turn[t].pc = "done"

\* sent_via_tool: "True if a send_email tool call already delivered to target".  The code
\* does not keep this: send_email returns its error as a text and the call counts as ok.
SentViaToolMeansDelivered ==
    \A t \in Turn : \A a \in Address :
        SentViaTool(t, a) => [turn |-> t, to |-> a, via |-> "tool"] \in mails
=============================================================================
