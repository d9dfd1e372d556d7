-------------------------- MODULE EmailTurnProofs --------------------------
(***************************************************************************)
(* What the turns of an e-mail bot keep, for any turns, correspondents,     *)
(* answers of the model, tool calls and limits of a history, in any         *)
(* interleaving: no reply is mailed twice, and every message is stored in   *)
(* the conversation it belongs to, next to the one it answers.              *)
(***************************************************************************)
EXTENDS EmailTurn, SequenceTheorems, TLAPS

Entry == [role : {"user", "assistant"}, turn : Turn]

\* the model has decided on an action, which stays as it is
Decided == {"dispatching", "done"}

\* the local variables of a turn that has begun
Begun(u) ==
    /\ u \in TurnState
    /\ u.pc # "idle" /\ u.conv \in Conversation
    /\ u.pc \in {"asking", "calling"} => u.rounds < MaxToolRounds
    /\ u.pc = "calling" => u.left > 0

TypeInv ==
    /\ turn \in [Turn -> TurnState]
    /\ \A t \in Turn : turn[t] = Idle \/ Begun(turn[t])
    /\ history \in [Conversation -> Seq(Entry)]
    /\ \A c \in Conversation : Len(history[c]) <= MaxHistory
    /\ mails \subseteq [turn : Turn, to : Address, via : {"tool", "reply"}]

\* replies are the last thing that a turn mails, and the turn knows what its tool calls
\* have mailed before, unless it has failed
MailInv ==
    /\ NoDoubleSend
    /\ \A m \in mails :
        /\ m.via = "reply" => turn[m.turn].pc = "done"
        /\ m.via = "tool" =>
            \/ SentViaTool(m.turn, m.to)
            \/ turn[m.turn].pc \in Decided /\ turn[m.turn].action.action # "reply"

\* a send_email call that says sent has reached the mail server
RecordInv ==
    \A t \in Turn : \A r \in turn[t].records :
        r.result = "error" \/ [turn |-> t, to |-> r.to, via |-> "tool"] \in mails

\* what holds of message h in the history of conversation c
InPlace(c, h) ==
    LET t == h.turn
        delegated == IsOperator(t) /\ turn[t].action.action = "reply"
    IN  \/ turn[t].conv = c /\ (h.role = "assistant" => ~ delegated)
        \/ h.role = "assistant" /\ delegated /\ turn[t].action.target = c
WasSent(c, h) ==
    c \in Address /\ IsOperator(h.turn) =>
        (\E m \in mails : m.turn = h.turn /\ m.to = c) \/ c \in SwallowedErrors(h.turn)
GoodEntry(c, h) == turn[h.turn].pc \in Decided /\ InPlace(c, h) /\ WasSent(c, h)

\* message h may follow g in the history of c
MayFollow(c, g, h) ==
    h.role = "assistant" /\ turn[h.turn].conv = c => g = [role |-> "user", turn |-> h.turn]

HistoryInv ==
    \A c \in Conversation :
        /\ \A i \in 1..Len(history[c]) : GoodEntry(c, history[c][i])
        /\ \A i \in 2..Len(history[c]) : MayFollow(c, history[c][i - 1], history[c][i])

EmailInv == TypeInv /\ MailInv /\ RecordInv /\ HistoryInv

-----------------------------------------------------------------------------
(* The operators of the model.                                              *)

\* MaxToolRounds and MaxCalls are positive, MaxHistory is a number, the actors are apart
LEMMA Bounds ==
    /\ MaxToolRounds \in Nat /\ MaxToolRounds > 0 /\ MaxCalls \in Nat /\ MaxCalls > 0
    /\ MaxHistory \in Nat
    /\ Operator \notin Address /\ Nobody \notin Address /\ Operator # Nobody
BY EmailTurnAssumption DEF EmailTurnAssumption, Operator, Nobody

\* a payload stays one when its text is normalized
LEMMA NormalizedPayload == ASSUME NEW p \in Payload PROVE NormalizeActionText(p) \in Payload
<1>1. CASE p = Nothing
  BY <1>1 DEF NormalizeActionText, Nothing
<1>2. CASE p # Nothing
  BY <1>2 DEF NormalizeActionText, Payload, Wording
<1> QED
  BY <1>1, <1>2

\* whatever the model says, the parser finds a payload or nothing
LEMMA ParsedPayload ==
    ASSUME NEW x \in Text
    PROVE  /\ ParseStructuredText(x) \in Payload
           /\ x.json \in Payload
<1>1. x.json \in Payload /\ x.kv \in Payload /\ x.repaired \in Payload
  BY EmailTurnAssumption DEF EmailTurnAssumption
<1>2. \A p \in Payload : RecoverBaseAction(p) \in Payload
  BY NormalizedPayload DEF RecoverBaseAction, Payload
<1> QED
  BY <1>1, <1>2, NormalizedPayload DEF ParseStructuredText

\* trim_history returns the last messages, at most MaxHistory of them
LEMMA TrimmedHistory ==
    ASSUME NEW s \in Seq(Entry)
    PROVE  /\ TrimHistory(s) \in Seq(Entry) /\ Len(TrimHistory(s)) <= MaxHistory
           /\ \E k \in Nat :
                /\ Len(TrimHistory(s)) + k = Len(s)
                /\ \A i \in 1..Len(TrimHistory(s)) : TrimHistory(s)[i] = s[i + k]
<1>1. CASE Len(s) <= MaxHistory
  <2>1. TrimHistory(s) = s /\ Len(s) \in Nat
    BY <1>1 DEF TrimHistory
  <2>2. Len(s) + 0 = Len(s) /\ \A i \in 1..Len(s) : s[i] = s[i + 0]
    BY <2>1
  <2> QED
    BY <1>1, <2>1, <2>2
<1>2. CASE ~ Len(s) <= MaxHistory
  <2> DEFINE m == Len(s) - MaxHistory + 1
             z == SubSeq(s, m, Len(s))
  <2>1. TrimHistory(s) = z
    BY <1>2, Zenon DEF TrimHistory
  <2>2. Len(s) \in Nat
    BY LenProperties
  <2>3. m \in 1..Len(s) + 1 /\ Len(s) \in (m - 1)..Len(s) /\ Len(s) - m + 1 = MaxHistory
    BY <1>2, <2>2, Bounds
  <2> HIDE DEF m
  <2>4. /\ z \in Seq(Entry) /\ Len(z) = Len(s) - m + 1
        /\ \A i \in 1..Len(s) - m + 1 : z[i] = s[m + i - 1]
    BY <2>3, SubSeqProperties
  <2> HIDE DEF z
  <2>5. PICK k \in Nat : k = m - 1
    BY <2>2, <2>3
  <2>6. MaxHistory + k = Len(s) /\ \A i \in 1..MaxHistory : m + i - 1 = i + k
    BY <2>2, <2>3, <2>5, Bounds
  <2>7. \A i \in 1..MaxHistory : z[i] = s[i + k]
    BY <2>3, <2>4, <2>6
  <2>8. Len(z) = MaxHistory /\ Len(z) + k = Len(s) /\ \A i \in 1..Len(z) : z[i] = s[i + k]
    BY <2>3, <2>4, <2>6, <2>7
  <2>9. MaxHistory <= MaxHistory
    BY Bounds
  <2> QED
    BY <2>1, <2>4, <2>8, <2>9
<1> QED
  BY <1>1, <1>2

\* what is stored in a conversation are its old messages and the new ones, in this order
LEMMA StoredMessages ==
    ASSUME history \in [Conversation -> Seq(Entry)], NEW c \in Conversation, NEW new \in Seq(Entry),
           \A d \in Conversation : Len(history[d]) <= MaxHistory,
           history' = Stored(c, new)
    PROVE  /\ history' \in [Conversation -> Seq(Entry)]
           /\ \A d \in Conversation : Len(history'[d]) <= MaxHistory
           /\ \A d \in Conversation \ {c} : history'[d] = history[d]
           /\ \E k \in Nat :
                /\ Len(history'[c]) + k = Len(history[c] \o new)
                /\ \A i \in 1..Len(history'[c]) : history'[c][i] = (history[c] \o new)[i + k]
<1>1. history' = [history EXCEPT ![c] = TrimHistory(history[c] \o new)]
  BY DEF Stored
<1>2. PICK e : e = history[c] \o new
  OBVIOUS
<1>3. e \in Seq(Entry)
  BY <1>2, ConcatProperties
<1>4. history' = [history EXCEPT ![c] = TrimHistory(e)]
  BY <1>1, <1>2
<1>5. /\ TrimHistory(e) \in Seq(Entry) /\ Len(TrimHistory(e)) <= MaxHistory
      /\ \E k \in Nat :
            /\ Len(TrimHistory(e)) + k = Len(e)
            /\ \A i \in 1..Len(TrimHistory(e)) : TrimHistory(e)[i] = e[i + k]
  BY <1>3, TrimmedHistory
<1> HIDE DEF TrimHistory
<1>6. /\ history' \in [Conversation -> Seq(Entry)]
      /\ \A d \in Conversation : Len(history'[d]) <= MaxHistory
      /\ \A d \in Conversation \ {c} : history'[d] = history[d]
      /\ history'[c] = TrimHistory(e)
  BY <1>4, <1>5
<1>7. \E k \in Nat :
        /\ Len(history'[c]) + k = Len(e)
        /\ \A i \in 1..Len(history'[c]) : history'[c][i] = e[i + k]
  BY <1>5, <1>6
<1> QED
  BY <1>2, <1>6, <1>7, Zenon

\* a turn becomes u, and the others stay as they are
LEMMA TurnBecomes ==
    ASSUME TypeInv, NEW t \in Turn, NEW u, Begun(u), turn' = [turn EXCEPT ![t] = u]
    PROVE  /\ turn' \in [Turn -> TurnState]
           /\ turn'[t] = u /\ \A s \in Turn \ {t} : turn'[s] = turn[s]
           /\ \A s \in Turn : turn'[s] = Idle \/ Begun(turn'[s])
BY DEF TypeInv, Begun

-----------------------------------------------------------------------------
(* The histories.                                                           *)

\* a turn that has decided keeps what it has decided
Kept(t) ==
    turn[t].pc \in Decided =>
        /\ turn'[t].pc \in Decided /\ (turn[t].pc = "done" => turn'[t].pc = "done")
        /\ turn'[t].conv = turn[t].conv /\ turn'[t].action = turn[t].action
        /\ turn'[t].records = turn[t].records

\* a message stays in its place
LEMMA EntryKept ==
    ASSUME NEW c, NEW h \in Entry, GoodEntry(c, h), Kept(h.turn), mails \subseteq mails'
    PROVE  /\ GoodEntry(c, h)'
           /\ \A g : MayFollow(c, g, h) => MayFollow(c, g, h)'
<1> DEFINE t == h.turn
<1>1. /\ turn'[t].pc \in Decided /\ turn'[t].conv = turn[t].conv
      /\ turn'[t].action = turn[t].action /\ turn'[t].records = turn[t].records
  BY DEF Kept, GoodEntry
<1>2. InPlace(c, h)'
  BY <1>1 DEF GoodEntry, InPlace, IsOperator
<1>3. WasSent(c, h)'
  BY <1>1 DEF GoodEntry, WasSent, IsOperator, SwallowedErrors
<1>4. \A g : MayFollow(c, g, h) => MayFollow(c, g, h)'
  BY <1>1 DEF MayFollow
<1> QED
  BY <1>1, <1>2, <1>3, <1>4 DEF GoodEntry

\* and so do all messages of a history that does not change
LEMMA ConversationKept ==
    ASSUME TypeInv, HistoryInv, NEW c \in Conversation, history'[c] = history[c],
           \A t \in Turn : Kept(t), mails \subseteq mails'
    PROVE  /\ \A i \in 1..Len(history[c])' : GoodEntry(c, history[c][i])'
           /\ \A i \in 2..Len(history[c])' : MayFollow(c, history[c][i - 1], history[c][i])'
<1>1. PICK s \in Seq(Entry) : s = history[c]
  BY DEF TypeInv
<1>2. /\ \A i \in 1..Len(s) : GoodEntry(c, s[i])
      /\ \A i \in 2..Len(s) : MayFollow(c, s[i - 1], s[i])
  BY <1>1 DEF HistoryInv
<1>3. \A i \in 1..Len(s) : s[i] \in Entry /\ s[i].turn \in Turn
  <2>1. \A i \in 1..Len(s) : s[i] \in Entry
    BY ElementOfSeq
  <2> QED
    BY <2>1 DEF Entry
<1>4. \A i \in 1..Len(s) : GoodEntry(c, s[i])'
  BY <1>2, <1>3, EntryKept
<1>5. \A i \in 2..Len(s) : MayFollow(c, s[i - 1], s[i])'
  <2> SUFFICES ASSUME NEW i \in 2..Len(s) PROVE MayFollow(c, s[i - 1], s[i])'
    OBVIOUS
  <2>1. i \in 1..Len(s)
    OBVIOUS
  <2> QED
    BY <1>2, <1>3, <2>1, EntryKept
<1> QED
  BY <1>1, <1>4, <1>5

\* new messages that are in their place, and in the right order
LEMMA HistoryGrows ==
    ASSUME TypeInv, HistoryInv, \A t \in Turn : Kept(t), mails \subseteq mails',
           NEW c \in Conversation, NEW new \in Seq(Entry), history' = Stored(c, new),
           \A i \in 1..Len(new) : GoodEntry(c, new[i])',
           \A i \in 2..Len(new) : MayFollow(c, new[i - 1], new[i])',
           Len(new) > 0 => \A g : MayFollow(c, g, new[1])'
    PROVE  HistoryInv'
<1>1. PICK s \in Seq(Entry) : s = history[c]
  BY DEF TypeInv
<1>2. PICK e \in Seq(Entry) : e = s \o new
  BY ConcatProperties
<1>3. /\ \A d \in Conversation \ {c} : history'[d] = history[d]
      /\ \E k \in Nat :
            /\ Len(history'[c]) + k = Len(e)
            /\ \A i \in 1..Len(history'[c]) : history'[c][i] = e[i + k]
  BY <1>1, <1>2, StoredMessages DEF TypeInv
<1>4. /\ Len(e) = Len(s) + Len(new) /\ Len(s) \in Nat /\ Len(new) \in Nat
      /\ \A i \in 1..Len(s) : e[i] = s[i]
      /\ \A i \in 1..Len(new) : e[i + Len(s)] = new[i]
  <2>1. /\ Len(e) = Len(s) + Len(new) /\ Len(s) \in Nat /\ Len(new) \in Nat
        /\ \A i \in 1..Len(s) + Len(new) :
              e[i] = IF i <= Len(s) THEN s[i] ELSE new[i - Len(s)]
    BY <1>2, ConcatProperties, LenProperties
  <2>2. ASSUME NEW i \in 1..Len(new) PROVE e[i + Len(s)] = new[i]
    <3>1. i + Len(s) \in 1..Len(s) + Len(new) /\ ~ i + Len(s) <= Len(s) /\ (i + Len(s)) - Len(s) = i
      BY <2>1
    <3> QED
      BY <2>1, <3>1
  <2>3. \A i \in 1..Len(s) : i \in 1..Len(s) + Len(new) /\ i <= Len(s)
    BY <2>1
  <2> QED
    BY <2>1, <2>2, <2>3
<1>5. /\ \A i \in 1..Len(s) : GoodEntry(c, s[i]) /\ s[i] \in Entry /\ s[i].turn \in Turn
      /\ \A i \in 2..Len(s) : MayFollow(c, s[i - 1], s[i])
  <2>1. \A i \in 1..Len(s) : s[i] \in Entry
    BY ElementOfSeq
  <2>2. \A i \in 1..Len(s) : s[i].turn \in Turn
    BY <2>1 DEF Entry
  <2>3. /\ \A i \in 1..Len(s) : GoodEntry(c, s[i])
        /\ \A i \in 2..Len(s) : MayFollow(c, s[i - 1], s[i])
    BY <1>1 DEF HistoryInv
  <2> QED
    BY <2>1, <2>2, <2>3
<1>6. /\ \A i \in 1..Len(s) : GoodEntry(c, s[i])'
      /\ \A i \in 1..Len(s) : \A g : MayFollow(c, g, s[i]) => MayFollow(c, g, s[i])'
  BY <1>5, EntryKept
<1>7. \A j \in 1..Len(e) : GoodEntry(c, e[j])'
  <2> SUFFICES ASSUME NEW j \in 1..Len(e) PROVE GoodEntry(c, e[j])'
    OBVIOUS
  <2>1. CASE j <= Len(s)
    BY <1>4, <1>6, <2>1
  <2>2. CASE j > Len(s)
    <3>1. j - Len(s) \in 1..Len(new) /\ (j - Len(s)) + Len(s) = j
      BY <1>4, <2>2
    <3>2. e[j] = new[j - Len(s)]
      BY <1>4, <3>1
    <3> QED
      BY <3>1, <3>2
  <2> QED
    BY <1>4, <2>1, <2>2
<1>8. \A j \in 2..Len(e) : MayFollow(c, e[j - 1], e[j])'
  <2> SUFFICES ASSUME NEW j \in 2..Len(e) PROVE MayFollow(c, e[j - 1], e[j])'
    OBVIOUS
  <2>1. CASE j <= Len(s)
    <3>1. j \in 2..Len(s) /\ j \in 1..Len(s) /\ j - 1 \in 1..Len(s)
      BY <1>4, <2>1
    <3> QED
      BY <1>4, <1>5, <1>6, <3>1
  <2>2. CASE j = Len(s) + 1
    <3>1. 1 \in 1..Len(new) /\ 1 + Len(s) = j /\ Len(new) > 0
      BY <1>4, <2>2
    <3>2. e[j] = new[1]
      BY <1>4, <3>1
    <3> QED
      BY <3>1, <3>2
  <2>3. CASE j > Len(s) + 1
    <3>1. j - Len(s) \in 2..Len(new) /\ (j - Len(s)) + Len(s) = j
          /\ j - Len(s) \in 1..Len(new)
          /\ (j - Len(s)) - 1 \in 1..Len(new) /\ ((j - Len(s)) - 1) + Len(s) = j - 1
      BY <1>4, <2>3
    <3>2. e[j] = new[j - Len(s)] /\ e[j - 1] = new[(j - Len(s)) - 1]
      BY <1>4, <3>1
    <3> QED
      BY <3>1, <3>2
  <2> QED
    BY <1>4, <2>1, <2>2, <2>3
<1>9. /\ \A i \in 1..Len(history[c])' : GoodEntry(c, history[c][i])'
      /\ \A i \in 2..Len(history[c])' : MayFollow(c, history[c][i - 1], history[c][i])'
  <2>1. PICK k \in Nat : /\ Len(history'[c]) + k = Len(e)
                         /\ \A i \in 1..Len(history'[c]) : history'[c][i] = e[i + k]
    BY <1>3
  <2>2. PICK z : z = history'[c]
    OBVIOUS
  <2>3. Len(z) \in Nat /\ Len(z) + k = Len(e) /\ \A i \in 1..Len(z) : z[i] = e[i + k]
    <3>1. history'[c] \in Seq(Entry)
      BY StoredMessages DEF TypeInv
    <3> QED
      BY <2>1, <2>2, <3>1, LenProperties
  <2>4. \A i \in 1..Len(z) : GoodEntry(c, z[i])'
    <3> SUFFICES ASSUME NEW i \in 1..Len(z) PROVE GoodEntry(c, z[i])'
      OBVIOUS
    <3>1. i + k \in 1..Len(e)
      BY <2>3
    <3> QED
      BY <1>7, <2>3, <3>1
  <2>5. \A i \in 2..Len(z) : MayFollow(c, z[i - 1], z[i])'
    <3> SUFFICES ASSUME NEW i \in 2..Len(z) PROVE MayFollow(c, z[i - 1], z[i])'
      OBVIOUS
    <3>1. i + k \in 2..Len(e) /\ i \in 1..Len(z) /\ i - 1 \in 1..Len(z) /\ (i - 1) + k = (i + k) - 1
      BY <2>3
    <3>2. z[i] = e[i + k] /\ z[i - 1] = e[(i + k) - 1]
      BY <2>3, <3>1
    <3> QED
      BY <1>8, <3>1, <3>2
  <2> QED
    BY <2>2, <2>4, <2>5
<1> QED
  BY <1>3, <1>9, ConversationKept DEF HistoryInv

-----------------------------------------------------------------------------
(* The steps.                                                               *)

\* the records of turn variables u name the mails in new, and say of no other that it was sent
Records(t, u, new) ==
    /\ \A m \in new : \E r \in u.records : r.ok /\ r.to = m.to
    /\ \A r \in u.records \ turn[t].records :
            r.result = "error" \/ [turn |-> t, to |-> r.to, via |-> "tool"] \in new

\* a turn that has not decided stores nothing, and records what its tool calls mail
LEMMA UndecidedStep ==
    ASSUME EmailInv, NEW t \in Turn, NEW u, Begun(u), turn' = [turn EXCEPT ![t] = u],
           turn[t].pc \notin Decided, u.pc # "done", history' = history,
           NEW new \in SUBSET [turn : {t}, to : Address, via : {"tool"}], mails' = mails \cup new,
           Records(t, u, new),
           \/ turn[t].records \subseteq u.records
           \/ u.pc = "dispatching" /\ u.action.action # "reply"
    PROVE  EmailInv'
<1> USE DEF EmailInv, Records
<1>1. /\ turn'[t] = u /\ \A s \in Turn \ {t} : turn'[s] = turn[s]
      /\ turn' \in [Turn -> TurnState] /\ \A s \in Turn : turn'[s] = Idle \/ Begun(turn'[s])
  BY TurnBecomes
<1>2. TypeInv'
  BY <1>1 DEF TypeInv
<1>3. MailInv'
  <2>1. ASSUME NEW m \in mails'
        PROVE  /\ m.via = "reply" => m \in mails /\ m.turn # t /\ turn'[m.turn].pc = "done"
               /\ m.via = "tool" =>
                    \/ SentViaTool(m.turn, m.to)'
                    \/ turn'[m.turn].pc \in Decided /\ turn'[m.turn].action.action # "reply"
    <3>1. CASE m \in mails
      <4>1. m.turn \in Turn /\ (m.via = "reply" => turn[m.turn].pc = "done")
        BY <3>1 DEF MailInv, TypeInv
      <4>2. m.via = "reply" => m.turn # t
        BY <4>1 DEF Decided
      <4>3. m.via = "tool" => \/ SentViaTool(m.turn, m.to)
                              \/ turn[m.turn].pc \in Decided /\ turn[m.turn].action.action # "reply"
        BY <3>1 DEF MailInv
      <4>4. CASE m.turn = t
        BY <1>1, <4>2, <4>3, <4>4 DEF SentViaTool, Decided
      <4>5. CASE m.turn # t
        BY <1>1, <3>1, <4>1, <4>3, <4>5 DEF SentViaTool
      <4> QED
        BY <4>4, <4>5
    <3>2. CASE m \in new
      BY <1>1, <3>2 DEF SentViaTool
    <3> QED
      BY <3>1, <3>2
  <2>2. NoDoubleSend'
    <3> SUFFICES ASSUME NEW m \in mails', m.via = "reply"
                 PROVE  [turn |-> m.turn, to |-> m.to, via |-> "tool"] \notin mails'
      BY DEF NoDoubleSend
    <3>1. m \in mails /\ m.turn # t
      BY <2>1
    <3> QED
      BY <3>1 DEF MailInv, NoDoubleSend
  <2> QED
    BY <2>1, <2>2 DEF MailInv
<1>4. RecordInv'
  BY <1>1 DEF RecordInv
<1>5. HistoryInv'
  <2>1. \A s \in Turn : Kept(s)
    BY <1>1 DEF Kept
  <2> QED
    BY <2>1, ConversationKept DEF HistoryInv
<1> QED
  BY <1>2, <1>3, <1>4, <1>5

\* a decision is stored in the turn's own conversation, the question before the answer
LEMMA DecideStep ==
    ASSUME EmailInv, NEW t \in Turn, NEW a \in Payload,
           turn[t].pc \in {"asking", "calling", "resolving"}, Decide(t, a), mails' = mails
    PROVE  EmailInv'
<1> USE DEF EmailInv
<1> DEFINE u == [turn[t] EXCEPT !.pc = "dispatching", !.action = a,
                                !.rounds = 0, !.left = 0, !.attempt = 0]
<1>1. turn' = [turn EXCEPT ![t] = u]
  BY DEF Decide, TypeInv
<1>2. Begun(turn[t]) /\ turn[t] \in TurnState
  BY DEF TypeInv, Begun, Idle
<1>3. /\ Begun(u) /\ u.pc = "dispatching" /\ u.action = a /\ u.conv = turn[t].conv
      /\ u.records = turn[t].records
  <2>1. 0 \in 0..MaxToolRounds /\ 0 \in 0..MaxCalls /\ 0 \in 0..1
    BY Bounds
  <2>2. u \in TurnState
    BY <1>2, <2>1 DEF TurnState
  <2>3. /\ u.pc = "dispatching" /\ u.action = a /\ u.conv = turn[t].conv
        /\ u.records = turn[t].records
    BY <1>2 DEF TurnState
  <2> QED
    BY <1>2, <2>2, <2>3 DEF Begun
<1> HIDE DEF u
<1>4. /\ turn'[t] = u /\ \A s \in Turn \ {t} : turn'[s] = turn[s]
      /\ turn' \in [Turn -> TurnState] /\ \A s \in Turn : turn'[s] = Idle \/ Begun(turn'[s])
  <2>1. PICK v : v = u
    OBVIOUS
  <2> QED
    BY <1>1, <1>3, <2>1, TurnBecomes
<1>5. PICK c \in Conversation : c = turn[t].conv
  BY <1>2 DEF Begun
<1> DEFINE U == [role |-> "user", turn |-> t]
           A == [role |-> "assistant", turn |-> t]
<1>6. U \in Entry /\ A \in Entry
  BY DEF Entry
<1>7. PICK new \in Seq(Entry) :
          /\ history' = Stored(c, new)
          /\ \/ Len(new) = 0
             \/ Len(new) = 1 /\ new[1] = U
             \/ Len(new) = 2 /\ new[1] = U /\ new[2] = A /\ ~ Delegated(t, a)
  <2>1. PICK user, answer : /\ history' = Stored(c, user \o answer)
                            /\ \/ user \in {<<>>, <<U>>} /\ answer = <<>>
                               \/ user = <<U>> /\ answer = <<A>> /\ ~ Delegated(t, a)
    BY <1>5 DEF Decide, PersistTurn
  <2> HIDE DEF U, A
  <2>2. user \in Seq(Entry) /\ answer \in Seq(Entry)
    <3>1. <<>> \in Seq(Entry) /\ <<U>> \in Seq(Entry) /\ <<A>> \in Seq(Entry)
      BY <1>6
    <3> QED
      BY <2>1, <3>1
  <2>3. /\ \/ Len(user) = 0 /\ Len(answer) = 0
           \/ Len(user) = 1 /\ user[1] = U /\ Len(answer) = 0
           \/ Len(user) = 1 /\ user[1] = U /\ Len(answer) = 1 /\ answer[1] = A /\ ~ Delegated(t, a)
    BY <2>1
  <2>4. PICK new \in Seq(Entry) : new = user \o answer
    BY <2>2, ConcatProperties
  <2>5. /\ Len(new) = Len(user) + Len(answer)
        /\ \A i \in 1..Len(user) + Len(answer) :
              new[i] = IF i <= Len(user) THEN user[i] ELSE answer[i - Len(user)]
    BY <2>2, <2>4, ConcatProperties
  <2>6. history' = Stored(c, new)
    BY <2>1, <2>4, Zenon
  <2>7. \/ Len(new) = 0
        \/ Len(new) = 1 /\ new[1] = U
        \/ Len(new) = 2 /\ new[1] = U /\ new[2] = A /\ ~ Delegated(t, a)
    <3>1. CASE Len(user) = 0 /\ Len(answer) = 0
      BY <2>5, <3>1
    <3>2. CASE Len(user) = 1 /\ user[1] = U /\ Len(answer) = 0
      BY <2>5, <3>2
    <3>3. CASE /\ Len(user) = 1 /\ user[1] = U /\ Len(answer) = 1 /\ answer[1] = A
               /\ ~ Delegated(t, a)
      BY <2>5, <3>3
    <3> QED
      BY <2>3, <3>1, <3>2, <3>3
  <2> QED
    BY <2>6, <2>7
<1>8. /\ \A s \in Turn : Kept(s) /\ (s # t => turn'[s] = turn[s])
      /\ turn'[t].pc = "dispatching" /\ turn'[t].action = a /\ turn'[t].conv = c
      /\ turn'[t].records = turn[t].records
  BY <1>3, <1>4, <1>5 DEF Kept, Decided
<1>9. /\ GoodEntry(c, U)'
      /\ ~ Delegated(t, a) => GoodEntry(c, A)'
      /\ \A g : MayFollow(c, g, U)'
      /\ MayFollow(c, U, A)'
  <2>1. c \in Address => c # Operator
    BY Bounds
  <2>2. \A h \in {U, A} : h.turn = t /\ WasSent(c, h)'
    BY <1>8, <2>1 DEF WasSent, IsOperator
  <2>3. InPlace(c, U)' /\ (~ Delegated(t, a) => InPlace(c, A)')
    BY <1>5, <1>8 DEF InPlace, IsOperator, Delegated
  <2> QED
    BY <1>8, <2>2, <2>3 DEF GoodEntry, MayFollow, Decided
<1>10. HistoryInv' /\ history' \in [Conversation -> Seq(Entry)]
       /\ \A d \in Conversation : Len(history'[d]) <= MaxHistory
  <2> HIDE DEF U, A
  <2>1. \A i \in 1..Len(new) : i = 1 \/ (i = 2 /\ Len(new) = 2)
    <3>1. PICK n \in {0, 1, 2} : n = Len(new)
      BY <1>7
    <3>2. \A i \in 1..n : i = 1 \/ (i = 2 /\ n = 2)
      OBVIOUS
    <3> QED
      BY <3>1, <3>2
  <2>2. \A i \in 1..Len(new) : GoodEntry(c, new[i])'
    BY <1>7, <1>9, <2>1
  <2>3. \A i \in 2..Len(new) : MayFollow(c, new[i - 1], new[i])'
    <3>1. \A i \in 2..Len(new) : i = 2 /\ i - 1 = 1 /\ Len(new) = 2
      <4>1. \A i \in 2..Len(new) : i \in 1..Len(new) /\ i # 1
        OBVIOUS
      <4> QED
        BY <2>1, <4>1
    <3> QED
      BY <1>7, <1>9, <3>1
  <2>4. Len(new) > 0 => \A g : MayFollow(c, g, new[1])'
    BY <1>7, <1>9
  <2> QED
    BY <1>7, <1>8, <2>2, <2>3, <2>4, HistoryGrows, StoredMessages DEF TypeInv
<1>11. MailInv'
  <2>1. \A m \in mails : m.turn \in Turn
    BY DEF TypeInv
  <2>2. \A m \in mails : m.via = "reply" => m.turn # t
    BY DEF MailInv
  <2>3. \A m \in mails : m.turn = t /\ m.via = "tool" => SentViaTool(m.turn, m.to)
    BY DEF MailInv, Decided
  <2> QED
    BY <1>8, <2>1, <2>2, <2>3 DEF MailInv, NoDoubleSend, SentViaTool
<1>12. RecordInv'
  BY <1>8 DEF RecordInv
<1> QED
  BY <1>4, <1>10, <1>11, <1>12 DEF TypeInv

\* the last step of a turn mails at most one reply, and only where no tool call has mailed
LEMMA DispatchStep ==
    ASSUME EmailInv, NEW t \in Turn, turn[t].pc = "dispatching",
           NEW res \in Result, Finish(t, res),
           NEW to, NEW new \in SUBSET {[turn |-> t, to |-> to, via |-> "reply"]},
           mails' = mails \cup new,
           new # {} => to \in Address /\ ~ SentViaTool(t, to) /\ turn[t].action.action = "reply",
           \/ history' = history
           \/ /\ history' = Recorded(to, t) /\ to \in Address
              /\ IsOperator(t) /\ turn[t].action.action = "reply" /\ turn[t].action.target = to
              /\ new # {} \/ SentViaTool(t, to)
    PROVE  EmailInv'
<1> USE DEF EmailInv
<1> DEFINE u == [turn[t] EXCEPT !.pc = "done", !.result = res]
<1>1. turn' = [turn EXCEPT ![t] = u]
  BY DEF Finish, TypeInv
<1>2. Begun(turn[t]) /\ turn[t] \in TurnState
  BY DEF TypeInv, Begun, Idle
<1>3. /\ Begun(u) /\ u.pc = "done" /\ u.action = turn[t].action /\ u.conv = turn[t].conv
      /\ u.records = turn[t].records
  BY <1>2 DEF Begun, TurnState
<1> HIDE DEF u
<1>4. /\ turn'[t] = u /\ \A s \in Turn \ {t} : turn'[s] = turn[s]
      /\ turn' \in [Turn -> TurnState] /\ \A s \in Turn : turn'[s] = Idle \/ Begun(turn'[s])
  <2>1. PICK v : v = u
    OBVIOUS
  <2> QED
    BY <1>1, <1>3, <2>1, TurnBecomes
<1>5. /\ \A s \in Turn : /\ Kept(s) /\ turn'[s].action = turn[s].action
                         /\ turn'[s].conv = turn[s].conv /\ turn'[s].records = turn[s].records
      /\ turn'[t].pc = "done"
  BY <1>3, <1>4 DEF Kept, Decided
<1>6. mails' \subseteq [turn : Turn, to : Address, via : {"tool", "reply"}]
  BY DEF TypeInv
<1>7. MailInv'
  <2>1. ASSUME NEW m \in mails
        PROVE  /\ m.via = "reply" => turn'[m.turn].pc = "done"
               /\ m.via = "tool" =>
                    \/ SentViaTool(m.turn, m.to)'
                    \/ turn'[m.turn].pc \in Decided /\ turn'[m.turn].action.action # "reply"
    <3>1. m.turn \in Turn
      BY DEF TypeInv
    <3> QED
      BY <1>5, <3>1 DEF MailInv, Kept, Decided, SentViaTool
  <2>2. [turn |-> t, to |-> to, via |-> "tool"] \notin mails \/ new = {}
    BY DEF MailInv
  <2>3. NoDoubleSend'
    BY <2>2 DEF MailInv, NoDoubleSend
  <2>4. \A m \in new : m.via = "reply" /\ m.turn = t
    OBVIOUS
  <2> QED
    BY <1>5, <2>1, <2>3, <2>4 DEF MailInv
<1>8. RecordInv'
  BY <1>5 DEF RecordInv
<1>9. HistoryInv' /\ history' \in [Conversation -> Seq(Entry)]
      /\ \A d \in Conversation : Len(history'[d]) <= MaxHistory
  <2>1. CASE history' = history
    BY <1>5, <2>1, ConversationKept DEF HistoryInv, TypeInv
  <2>2. CASE /\ history' = Recorded(to, t) /\ to \in Address
             /\ IsOperator(t) /\ turn[t].action.action = "reply" /\ turn[t].action.target = to
             /\ new # {} \/ SentViaTool(t, to)
    <3> DEFINE A == [role |-> "assistant", turn |-> t]
    <3>1. history' = Stored(to, <<A>>) /\ to \in Conversation /\ A \in Entry /\ to # Operator
      BY <2>2, Bounds DEF Recorded, Conversation, Entry
    <3>2. WasSent(to, A)'
      <4>1. CASE new # {}
        BY <4>1 DEF WasSent
      <4>2. CASE SentViaTool(t, to)
        <5>1. PICK r \in turn[t].records : r.to = to
          BY <4>2 DEF SentViaTool
        <5>2. CASE r.result = "error"
          BY <1>5, <5>1, <5>2 DEF WasSent, SwallowedErrors
        <5>3. CASE [turn |-> t, to |-> r.to, via |-> "tool"] \in mails
          BY <5>1, <5>3 DEF WasSent
        <5> QED
          BY <5>2, <5>3 DEF RecordInv
      <4> QED
        BY <2>2, <4>1, <4>2
    <3>3. InPlace(to, A)'
      BY <1>5, <2>2 DEF InPlace, IsOperator
    <3>4. GoodEntry(to, A)' /\ \A g : MayFollow(to, g, A)'
      BY <1>5, <2>2, <3>1, <3>2, <3>3 DEF GoodEntry, MayFollow, IsOperator, Decided
    <3> HIDE DEF A
    <3>5. PICK s : s = <<A>>
      OBVIOUS
    <3>6. s \in Seq(Entry) /\ Len(s) = 1 /\ s[1] = A /\ history' = Stored(to, s)
      BY <3>1, <3>5
    <3>7. \A i \in 1..Len(s) : GoodEntry(to, s[i])'
      BY <3>4, <3>6
    <3>8. \A g : MayFollow(to, g, s[1])'
      BY <3>4, <3>6
    <3>9. \A i \in 2..Len(s) : FALSE
      BY <3>6
    <3> QED
      BY <1>5, <3>1, <3>6, <3>7, <3>8, <3>9, HistoryGrows, StoredMessages DEF TypeInv
  <2> QED
    BY <2>1, <2>2
<1> QED
  BY <1>4, <1>6, <1>7, <1>8, <1>9 DEF TypeInv

\* steps that change the turn only, up to a decision or a failure
LEMMA SilentStep ==
    ASSUME EmailInv, NEW t \in Turn, NEW u, Begun(u), turn' = [turn EXCEPT ![t] = u],
           turn[t].pc \notin Decided, u.pc # "done", history' = history, mails' = mails,
           \/ turn[t].records = u.records
           \/ u.records = {} /\ u.pc = "dispatching" /\ u.action.action # "reply"
    PROVE  EmailInv'
<1>1. PICK new : new = {}
  OBVIOUS
<1>2. /\ mails' = mails \cup new /\ new \in SUBSET [turn : {t}, to : Address, via : {"tool"}]
      /\ \A m \in new : FALSE
  BY <1>1
<1>3. Records(t, u, new)
  BY <1>1 DEF Records
<1>4. \/ turn[t].records \subseteq u.records
      \/ u.pc = "dispatching" /\ u.action.action # "reply"
  OBVIOUS
<1> QED
  BY <1>2, <1>3, <1>4, UndecidedStep

\* a turn that begins has mailed and stored nothing
LEMMA StartSafe == ASSUME EmailInv, NEW t \in Turn, Start(t) PROVE EmailInv'
<1>1. PICK c \in Conversation :
          turn' = [turn EXCEPT ![t] = [Idle EXCEPT !.pc = "asking", !.conv = c]]
  BY DEF Start, StartInbound, StartOperator, Conversation
<1>2. PICK u : u = [Idle EXCEPT !.pc = "asking", !.conv = c]
  OBVIOUS
<1>3. Begun(u) /\ u.pc = "asking" /\ u.records = {}
  <2>1. Nothing \in Payload /\ 0 \in 0..MaxToolRounds /\ 0 \in 0..MaxCalls /\ 0 \in 0..1
    BY Bounds DEF Payload
  <2>2. u = [pc |-> "asking", conv |-> c, rounds |-> 0, left |-> 0, attempt |-> 0,
             records |-> {}, action |-> Nothing, result |-> "none"]
    BY <1>2 DEF Idle
  <2>3. u \in TurnState
    BY <2>1, <2>2 DEF TurnState, Result
  <2> QED
    BY <2>2, <2>3, Bounds DEF Begun
<1>4. turn[t].pc \notin Decided /\ turn[t].records = {} /\ history' = history /\ mails' = mails
  <2>1. turn[t].pc = "idle" /\ history' = history /\ mails' = mails
    BY DEF Start, StartInbound, StartOperator
  <2>2. turn[t] = Idle
    BY <2>1 DEF EmailInv, TypeInv, Begun
  <2> QED
    BY <2>1, <2>2 DEF Decided, Idle
<1> QED
  BY <1>1, <1>2, <1>3, <1>4, SilentStep

\* a turn that has begun, and is not decided, knows its conversation
LEMMA Undecided ==
    ASSUME EmailInv, NEW t \in Turn, turn[t].pc \in {"asking", "calling", "resolving"}
    PROVE  Begun(turn[t]) /\ turn[t].pc \notin Decided
BY DEF EmailInv, TypeInv, Idle, Decided

\* chat_error ends a turn without a reply
LEMMA ChatErrorSafe ==
    ASSUME EmailInv, NEW t \in Turn, turn[t].pc \in {"asking", "calling", "resolving"},
           ChatError(t), mails' = mails
    PROVE  EmailInv'
<1>1. PICK u : u = [Idle EXCEPT !.pc = "dispatching", !.conv = turn[t].conv,
                        !.action = [Nothing EXCEPT !.action = "error", !.text = "plain"]]
  OBVIOUS
<1>2. PICK a : a = [Nothing EXCEPT !.action = "error", !.text = "plain"]
  OBVIOUS
<1>3. a \in Payload /\ a.action = "error"
  BY <1>2 DEF Payload, Nothing, Wording
<1>4. /\ u.pc = "dispatching" /\ u.conv = turn[t].conv /\ u.action = a /\ u.records = {}
      /\ u \in TurnState
  <2>1. turn[t].conv \in Conversation /\ 0 \in 0..MaxToolRounds /\ 0 \in 0..MaxCalls /\ 0 \in 0..1
    BY Undecided, Bounds DEF Begun
  <2>2. u = [pc |-> "dispatching", conv |-> turn[t].conv, rounds |-> 0, left |-> 0, attempt |-> 0,
             records |-> {}, action |-> a, result |-> "none"]
    BY <1>1, <1>2 DEF Idle
  <2> QED
    BY <1>3, <2>1, <2>2 DEF TurnState, Result
<1>5. Begun(u) /\ turn' = [turn EXCEPT ![t] = u] /\ history' = history
  BY <1>1, <1>4, Undecided DEF Begun, ChatError
<1> QED
  BY <1>3, <1>4, <1>5, Undecided, SilentStep

\* one answer of the model
LEMMA AskModelSafe == ASSUME EmailInv, NEW t \in Turn, AskModel(t) PROVE EmailInv'
<1>1. turn[t].pc = "asking" /\ mails' = mails /\ Begun(turn[t]) /\ turn[t].pc \notin Decided
  BY Undecided DEF AskModel
<1>2. ASSUME NEW n \in 1..MaxCalls, history' = history,
             turn' = [turn EXCEPT ![t].pc = "calling", ![t].left = n]
      PROVE  EmailInv'
  <2>1. PICK u : u = [turn[t] EXCEPT !.pc = "calling", !.left = n]
    OBVIOUS
  <2>2. n \in 0..MaxCalls /\ n > 0
    BY Bounds
  <2>3. /\ u \in TurnState /\ u.pc = "calling" /\ u.left = n /\ u.conv = turn[t].conv
        /\ u.rounds = turn[t].rounds /\ u.records = turn[t].records
    BY <1>1, <2>1, <2>2 DEF Begun, TurnState
  <2>4. Begun(u) /\ turn' = [turn EXCEPT ![t] = u]
    BY <1>1, <1>2, <2>1, <2>2, <2>3 DEF Begun, EmailInv, TypeInv
  <2> QED
    BY <1>1, <1>2, <2>3, <2>4, SilentStep
<1>3. ASSUME NEW x \in Text, Decide(t, ParseStructuredText(x)) PROVE EmailInv'
  <2>1. PICK a \in Payload : a = ParseStructuredText(x)
    BY ParsedPayload
  <2> QED
    BY <1>1, <1>3, <2>1, DecideStep
<1>4. ASSUME turn' = [turn EXCEPT ![t].pc = "resolving"], history' = history PROVE EmailInv'
  <2>1. PICK u : u = [turn[t] EXCEPT !.pc = "resolving"]
    OBVIOUS
  <2>2. /\ u \in TurnState /\ u.pc = "resolving" /\ u.conv = turn[t].conv
        /\ u.records = turn[t].records
    BY <1>1, <2>1 DEF Begun, TurnState
  <2>3. Begun(u) /\ turn' = [turn EXCEPT ![t] = u]
    BY <1>1, <1>4, <2>1, <2>2 DEF Begun, EmailInv, TypeInv
  <2> QED
    BY <1>1, <1>4, <2>2, <2>3, SilentStep
<1>5. ASSUME ChatError(t) PROVE EmailInv'
  BY <1>1, <1>5, ChatErrorSafe
<1> QED
  BY <1>2, <1>3, <1>4, <1>5 DEF AskModel

\* resolve_terminal_action
LEMMA ResolveTerminalSafe == ASSUME EmailInv, NEW t \in Turn, ResolveTerminal(t) PROVE EmailInv'
<1>1. turn[t].pc = "resolving" /\ mails' = mails /\ Begun(turn[t]) /\ turn[t].pc \notin Decided
  BY Undecided DEF ResolveTerminal
<1>2. ASSUME NEW x \in Text, Decide(t, ParseStructuredText(x)) PROVE EmailInv'
  <2>1. PICK a \in Payload : a = ParseStructuredText(x)
    BY ParsedPayload
  <2> QED
    BY <1>1, <1>2, <2>1, DecideStep
<1>3. ASSUME turn' = [turn EXCEPT ![t].attempt = 1], history' = history PROVE EmailInv'
  <2>1. PICK u : u = [turn[t] EXCEPT !.attempt = 1]
    OBVIOUS
  <2>2. /\ u \in TurnState /\ u.pc = "resolving" /\ u.conv = turn[t].conv
        /\ u.records = turn[t].records
    BY <1>1, <2>1 DEF Begun, TurnState
  <2>3. Begun(u) /\ turn' = [turn EXCEPT ![t] = u]
    BY <1>1, <1>3, <2>1, <2>2 DEF Begun, EmailInv, TypeInv
  <2> QED
    BY <1>1, <1>3, <2>2, <2>3, SilentStep
<1>4. ASSUME ChatError(t) PROVE EmailInv'
  BY <1>1, <1>4, ChatErrorSafe
<1> QED
  BY <1>2, <1>3, <1>4 DEF ResolveTerminal

\* maybe_resolve_action_tool_call
LEMMA CallActionSafe == ASSUME EmailInv, NEW t \in Turn, CallAction(t) PROVE EmailInv'
<1>1. PICK x \in Text : Decide(t, NormalizeActionText(x.json))
  BY DEF CallAction
<1>2. PICK a \in Payload : a = NormalizeActionText(x.json)
  BY ParsedPayload, NormalizedPayload
<1> QED
  BY <1>1, <1>2, DecideStep DEF CallAction

\* a tool call leaves the turn with its record, and with a round to go or the last resort
LEMMA AfterCallTurn ==
    ASSUME EmailInv, NEW t \in Turn, turn[t].pc = "calling", NEW rs \in SUBSET Record,
           AfterCall(t, rs)
    PROVE  \E u : /\ Begun(u) /\ turn' = [turn EXCEPT ![t] = u] /\ u.pc # "done"
                  /\ u.records = turn[t].records \cup rs
<1>1. Begun(turn[t]) /\ turn[t].rounds \in 0..MaxToolRounds /\ turn[t].left \in 0..MaxCalls
  BY Undecided DEF Begun, TurnState
<1>2. turn[t].rounds < MaxToolRounds /\ turn[t].left > 0
  BY <1>1 DEF Begun
<1>3. PICK u : u = [turn[t] EXCEPT !.records = @ \cup rs, !.left = @ - 1]
  OBVIOUS
<1>4. turn[t].left - 1 \in 0..MaxCalls /\ turn[t].rounds + 1 \in 0..MaxToolRounds
  BY <1>1, <1>2, Bounds
<1>5. /\ u \in TurnState /\ u.pc = "calling" /\ u.conv = turn[t].conv
      /\ u.records = turn[t].records \cup rs
      /\ u.rounds = turn[t].rounds /\ u.left = turn[t].left - 1
  BY <1>1, <1>3, <1>4 DEF Begun, TurnState
<1>6. CASE u.left > 0
  <2>1. turn' = [turn EXCEPT ![t] = u]
    BY <1>3, <1>6 DEF AfterCall
  <2> QED
    BY <1>1, <1>2, <1>5, <1>6, <2>1 DEF Begun
<1>7. CASE ~ u.left > 0
  <2> DEFINE v == [u EXCEPT !.rounds = @ + 1]
  <2>1. PICK w : w = [v EXCEPT !.pc = IF v.rounds = MaxToolRounds THEN "resolving" ELSE "asking"]
    OBVIOUS
  <2>2. turn' = [turn EXCEPT ![t] = w]
    BY <1>3, <1>7, <2>1 DEF AfterCall
  <2>3. v \in TurnState /\ v.rounds = turn[t].rounds + 1 /\ v.conv = turn[t].conv
        /\ v.records = turn[t].records \cup rs
    BY <1>4, <1>5 DEF TurnState
  <2> HIDE DEF v
  <2>4. /\ w \in TurnState /\ w.rounds = v.rounds /\ w.conv = v.conv /\ w.records = v.records
        /\ w.pc = IF v.rounds = MaxToolRounds THEN "resolving" ELSE "asking"
    BY <2>1, <2>3 DEF TurnState
  <2>5. w.pc = "asking" => w.rounds < MaxToolRounds
    BY <1>4, <2>3, <2>4, Bounds
  <2> QED
    BY <1>1, <2>2, <2>3, <2>4, <2>5 DEF Begun
<1> QED
  BY <1>6, <1>7

\* a call of another tool
LEMMA CallOtherSafe == ASSUME EmailInv, NEW t \in Turn, CallOther(t) PROVE EmailInv'
<1>1. PICK u : /\ Begun(u) /\ turn' = [turn EXCEPT ![t] = u] /\ u.pc # "done"
               /\ u.records = turn[t].records
  <2>1. PICK rs \in SUBSET Record : rs = {}
    OBVIOUS
  <2>2. AfterCall(t, rs) /\ turn[t].pc = "calling"
    BY <2>1 DEF CallOther
  <2>3. PICK u : /\ Begun(u) /\ turn' = [turn EXCEPT ![t] = u] /\ u.pc # "done"
                 /\ u.records = turn[t].records \cup rs
    BY <2>2, AfterCallTurn
  <2> QED
    BY <2>1, <2>3
<1> QED
  BY <1>1, Undecided, SilentStep DEF CallOther

\* a call of send_email: the record says sent only if the mail has reached the server
LEMMA CallSendEmailSafe == ASSUME EmailInv, NEW t \in Turn, CallSendEmail(t) PROVE EmailInv'
<1>0. PICK to \in Address : \E o \in Outcome(to) :
          /\ mails' = Mailed(t, to, "tool", o)
          /\ AfterCall(t, {[to |-> to, ok |-> TRUE,
                            result |-> IF o = "sent" THEN "sent" ELSE "error"]})
  BY DEF CallSendEmail
<1>1. PICK o \in Outcome(to) :
          /\ mails' = Mailed(t, to, "tool", o)
          /\ AfterCall(t, {[to |-> to, ok |-> TRUE,
                            result |-> IF o = "sent" THEN "sent" ELSE "error"]})
  BY <1>0
<1>2. PICK r \in Record : /\ r = [to |-> to, ok |-> TRUE,
                                  result |-> IF o = "sent" THEN "sent" ELSE "error"]
                          /\ r.to = to /\ r.ok /\ (o # "sent" => r.result = "error")
  <2>1. PICK res \in {"sent", "error"} : res = IF o = "sent" THEN "sent" ELSE "error"
    OBVIOUS
  <2>2. [to |-> to, ok |-> TRUE, result |-> res] \in Record
    BY DEF Record
  <2> QED
    BY <2>1, <2>2
<1>3. turn[t].pc = "calling" /\ history' = history /\ AfterCall(t, {r})
  BY <1>1, <1>2 DEF CallSendEmail
<1>4. PICK u : /\ Begun(u) /\ turn' = [turn EXCEPT ![t] = u] /\ u.pc # "done"
               /\ u.records = turn[t].records \cup {r}
  BY <1>3, AfterCallTurn
<1>5. PICK new \in SUBSET [turn : {t}, to : Address, via : {"tool"}] :
          /\ mails' = mails \cup new
          /\ \A m \in new : m.to = to
          /\ o = "sent" => [turn |-> t, to |-> to, via |-> "tool"] \in new
  <2> DEFINE m == [turn |-> t, to |-> to, via |-> "tool"]
  <2>1. {m} \in SUBSET [turn : {t}, to : Address, via : {"tool"}] /\ m.to = to
    OBVIOUS
  <2>2. CASE o \in {"sent", "unconfirmed"}
    <3>1. mails' = mails \cup {m} /\ m \in {m}
      BY <1>1, <2>2 DEF Mailed
    <3> QED
      BY <2>1, <3>1
  <2>3. CASE o \notin {"sent", "unconfirmed"}
    <3>1. mails' = mails \cup {} /\ o # "sent"
      BY <1>1, <2>3 DEF Mailed
    <3>2. {} \in SUBSET [turn : {t}, to : Address, via : {"tool"}]
      OBVIOUS
    <3> QED
      BY <3>1, <3>2
  <2> QED
    BY <2>2, <2>3
<1>6. \A m \in new : \E q \in u.records : q.ok /\ q.to = m.to
  BY <1>2, <1>4, <1>5
<1>7. \A q \in u.records \ turn[t].records :
          q.result = "error" \/ [turn |-> t, to |-> q.to, via |-> "tool"] \in new
  BY <1>2, <1>4, <1>5
<1>8. turn[t].pc \notin Decided /\ turn[t].records \subseteq u.records
  BY <1>3, <1>4, Undecided
<1>9. turn' = [turn EXCEPT ![t] = u] /\ history' = history /\ mails' = mails \cup new
  BY <1>3, <1>4, <1>5
<1>10. Begun(u) /\ u.pc # "done" /\ Records(t, u, new)
  BY <1>4, <1>6, <1>7 DEF Records
<1> QED
  BY <1>8, <1>9, <1>10, UndecidedStep

\* a send either adds the mail or nothing, and one that succeeds adds it
LEMMA MailedReply ==
    ASSUME NEW t, NEW to, NEW o
    PROVE  \E new \in SUBSET {[turn |-> t, to |-> to, via |-> "reply"]} :
                /\ Mailed(t, to, "reply", o) = mails \cup new
                /\ o = "sent" => new # {}
<1> DEFINE m == [turn |-> t, to |-> to, via |-> "reply"]
<1>1. CASE o \in {"sent", "unconfirmed"}
  <2>1. Mailed(t, to, "reply", o) = mails \cup {m}
    BY <1>1 DEF Mailed
  <2> QED
    BY <2>1
<1>2. CASE o \notin {"sent", "unconfirmed"}
  <2>1. Mailed(t, to, "reply", o) = mails \cup {} /\ o # "sent"
    BY <1>2 DEF Mailed
  <2> QED
    BY <2>1
<1> QED
  BY <1>1, <1>2

\* a dispatching turn has begun, and its action has a target that is an address or nobody
LEMMA Dispatching ==
    ASSUME EmailInv, NEW t \in Turn, turn[t].pc = "dispatching"
    PROVE  /\ ~ IsOperator(t) => turn[t].conv \in Address
           /\ turn[t].action.target # Nobody => turn[t].action.target \in Address
<1>1. Begun(turn[t])
  BY DEF EmailInv, TypeInv, Idle
<1>2. turn[t].conv \in Conversation /\ turn[t].action \in Payload
  BY <1>1 DEF Begun, TurnState
<1> QED
  BY <1>2 DEF IsOperator, Conversation, Payload, Nothing

\* the end of a turn that neither mails nor stores anything
LEMMA FinishSafe ==
    ASSUME EmailInv, NEW t \in Turn, turn[t].pc = "dispatching",
           NEW res \in Result, Finish(t, res), history' = history, mails' = mails
    PROVE  EmailInv'
<1>1. PICK new \in SUBSET {[turn |-> t, to |-> Nobody, via |-> "reply"]} : new = {}
  OBVIOUS
<1>2. mails' = mails \cup new
  BY <1>1
<1> QED
  BY <1>1, <1>2, DispatchStep

\* the end of a turn that answers a mail
LEMMA DispatchInboundSafe == ASSUME EmailInv, NEW t \in Turn, DispatchInbound(t) PROVE EmailInv'
<1>1. turn[t].pc = "dispatching" /\ history' = history /\ ~ IsOperator(t)
  BY DEF DispatchInbound
<1>2. ASSUME mails' = mails, Finish(t, "ok") PROVE EmailInv'
  <2>1. PICK res \in Result : res = "ok"
    BY DEF Result
  <2> QED
    BY <1>1, <1>2, <2>1, FinishSafe
<1>3. ASSUME NEW to, NEW o, to = turn[t].conv, turn[t].action.action = "reply",
             ~ SentViaTool(t, to), mails' = Mailed(t, to, "reply", o),
             Finish(t, IF o = "sent" THEN "ok" ELSE "failed")
      PROVE  EmailInv'
  <2>1. PICK new \in SUBSET {[turn |-> t, to |-> to, via |-> "reply"]} : mails' = mails \cup new
    BY <1>3, MailedReply
  <2>2. PICK res \in Result : res = IF o = "sent" THEN "ok" ELSE "failed"
    BY DEF Result
  <2>3. to \in Address /\ Finish(t, res)
    BY <1>1, <1>3, <2>2, Dispatching
  <2> QED
    BY <1>1, <1>3, <2>1, <2>3, DispatchStep
<1> QED
  BY <1>2, <1>3 DEF DispatchInbound

\* the end of an operator turn with a reply: it is recorded once it is sent
LEMMA DispatchReplySafe == ASSUME EmailInv, NEW t \in Turn, DispatchReply(t) PROVE EmailInv'
<1>1. /\ turn[t].pc = "dispatching" /\ IsOperator(t) /\ turn[t].action.action = "reply"
      /\ {"sent", "failed", "missing"} \subseteq Result
  BY DEF DispatchReply, Result
<1>2. ASSUME NEW res \in Result, Finish(t, res), history' = history, mails' = mails
      PROVE  EmailInv'
  BY <1>1, <1>2, FinishSafe
<1>3. ASSUME NEW to \in Address, to = turn[t].action.target, SentViaTool(t, to),
             NEW res \in Result, Finish(t, res), history' = Recorded(to, t), mails' = mails
      PROVE  EmailInv'
  <2>1. PICK new \in SUBSET {[turn |-> t, to |-> to, via |-> "reply"]} : new = {}
    OBVIOUS
  <2>2. mails' = mails \cup new
    BY <1>3, <2>1
  <2> QED
    BY <1>1, <1>3, <2>1, <2>2, DispatchStep
<1>4. ASSUME NEW to \in Address, to = turn[t].action.target, ~ SentViaTool(t, to), NEW o,
             NEW res \in Result, Finish(t, res), mails' = Mailed(t, to, "reply", o),
             history' = history \/ (o = "sent" /\ history' = Recorded(to, t))
      PROVE  EmailInv'
  <2>1. PICK new \in SUBSET {[turn |-> t, to |-> to, via |-> "reply"]} :
            mails' = mails \cup new /\ (o = "sent" => new # {})
    BY <1>4, MailedReply
  <2> QED
    BY <1>1, <1>4, <2>1, DispatchStep
<1>5. CASE turn[t].action.target = Nobody \/ turn[t].action.text = "none"
  BY <1>1, <1>2, <1>5 DEF DispatchReply
<1>6. CASE ~ (turn[t].action.target = Nobody \/ turn[t].action.text = "none")
  <2>1. PICK to \in Address : to = turn[t].action.target
    BY <1>1, <1>6, Dispatching
  <2>2. CASE SentViaTool(t, to)
    BY <1>1, <1>3, <1>6, <2>1, <2>2 DEF DispatchReply
  <2>3. CASE ~ SentViaTool(t, to)
    <3>1. PICK o \in Outcome(to) :
            /\ mails' = Mailed(t, to, "reply", o)
            /\ IF o = "sent" THEN Finish(t, "sent") /\ history' = Recorded(to, t)
               ELSE Finish(t, "failed") /\ history' = history
      BY <1>6, <2>1, <2>3 DEF DispatchReply
    <3> QED
      BY <1>1, <1>4, <2>1, <2>3, <3>1
  <2> QED
    BY <2>2, <2>3
<1> QED
  BY <1>5, <1>6

\* the end of an operator turn with another action
LEMMA DispatchConsoleSafe == ASSUME EmailInv, NEW t \in Turn, DispatchConsole(t) PROVE EmailInv'
<1>1. PICK res \in Result : Finish(t, res)
  BY DEF DispatchConsole, Result
<1> QED
  BY <1>1, FinishSafe DEF DispatchConsole

\* the operator's history is cleared, the others stay
LEMMA ClearSafe == ASSUME EmailInv, ClearOperatorHistory PROVE EmailInv'
<1> USE DEF EmailInv
<1>1. /\ turn' = turn /\ mails' = mails /\ history' \in [Conversation -> Seq(Entry)]
      /\ history'[Operator] = <<>> /\ \A c \in Conversation \ {Operator} : history'[c] = history[c]
  <2>1. <<>> \in Seq(Entry) /\ Operator \in Conversation
    BY DEF Conversation
  <2> QED
    BY <2>1 DEF ClearOperatorHistory, TypeInv
<1>2. TypeInv'
  <2>1. Len(history'[Operator]) <= MaxHistory
    BY <1>1, Bounds
  <2>2. \A c \in Conversation : Len(history'[c]) <= MaxHistory
    BY <1>1, <2>1 DEF TypeInv
  <2> QED
    BY <1>1, <2>2 DEF TypeInv
<1>3. MailInv' /\ RecordInv'
  BY <1>1 DEF MailInv, RecordInv, NoDoubleSend, SentViaTool
<1>4. HistoryInv'
  <2>1. \A t \in Turn : Kept(t)
    BY <1>1 DEF Kept
  <2>2. \A c \in Conversation \ {Operator} :
            /\ \A i \in 1..Len(history[c])' : GoodEntry(c, history[c][i])'
            /\ \A i \in 2..Len(history[c])' : MayFollow(c, history[c][i - 1], history[c][i])'
    BY <1>1, <2>1, ConversationKept
  <2>3. \A i \in 1..Len(history[Operator])' : FALSE
    BY <1>1
  <2>4. \A i \in 2..Len(history[Operator])' : FALSE
    BY <1>1
  <2> QED
    BY <2>2, <2>3, <2>4 DEF HistoryInv
<1> QED
  BY <1>2, <1>3, <1>4
-----------------------------------------------------------------------------
(* The invariant, and what follows from it.                                 *)

\* it holds at first
LEMMA InitSafe == Init => EmailInv
<1> SUFFICES ASSUME Init PROVE EmailInv
  OBVIOUS
<1>1. Idle \in TurnState
  <2>1. Nothing \in Payload /\ 0 \in 0..MaxToolRounds /\ 0 \in 0..MaxCalls /\ 0 \in 0..1
    BY Bounds DEF Payload
  <2> QED
    BY <2>1 DEF Idle, TurnState, Result
<1>2. \A t \in Turn : turn[t] = Idle
  BY DEF Init
<1>3. \A c \in Conversation : history[c] = <<>> /\ Len(history[c]) = 0
  BY DEF Init
<1>4. history \in [Conversation -> Seq(Entry)]
  <2>1. <<>> \in Seq(Entry)
    OBVIOUS
  <2> QED
    BY <2>1 DEF Init
<1>5. TypeInv
  <2>1. turn \in [Turn -> TurnState] /\ mails = {}
    BY <1>1 DEF Init
  <2> QED
    BY <1>2, <1>3, <1>4, <2>1, Bounds DEF TypeInv
<1>6. MailInv /\ RecordInv
  BY <1>2 DEF Init, MailInv, NoDoubleSend, RecordInv, Idle
<1>7. HistoryInv
  <2>1. \A c \in Conversation : /\ \A i \in 1..Len(history[c]) : FALSE
                                /\ \A i \in 2..Len(history[c]) : FALSE
    BY <1>3
  <2> QED
    BY <2>1 DEF HistoryInv
<1> QED
  BY <1>5, <1>6, <1>7 DEF EmailInv

\* every step keeps it
LEMMA StepSafe == EmailInv /\ [Next]_vars => EmailInv'
<1> SUFFICES ASSUME EmailInv, [Next]_vars PROVE EmailInv'
  OBVIOUS
<1>1. ASSUME NEW t \in Turn, Start(t) PROVE EmailInv'
  BY <1>1, StartSafe
<1>2. ASSUME NEW t \in Turn, AskModel(t) PROVE EmailInv'
  BY <1>2, AskModelSafe
<1>3. ASSUME NEW t \in Turn, CallAction(t) PROVE EmailInv'
  BY <1>3, CallActionSafe
<1>4. ASSUME NEW t \in Turn, CallOther(t) PROVE EmailInv'
  BY <1>4, CallOtherSafe
<1>5. ASSUME NEW t \in Turn, CallSendEmail(t) PROVE EmailInv'
  BY <1>5, CallSendEmailSafe
<1>6. ASSUME NEW t \in Turn, ResolveTerminal(t) PROVE EmailInv'
  BY <1>6, ResolveTerminalSafe
<1>7. ASSUME NEW t \in Turn, DispatchInbound(t) PROVE EmailInv'
  BY <1>7, DispatchInboundSafe
<1>8. ASSUME NEW t \in Turn, DispatchReply(t) PROVE EmailInv'
  BY <1>8, DispatchReplySafe
<1>9. ASSUME NEW t \in Turn, DispatchConsole(t) PROVE EmailInv'
  BY <1>9, DispatchConsoleSafe
<1>10. CASE ClearOperatorHistory
  BY <1>10, ClearSafe
<1>11. CASE UNCHANGED vars
  BY <1>11 DEF vars, EmailInv, TypeInv, MailInv, NoDoubleSend, SentViaTool, RecordInv, HistoryInv,
     GoodEntry, InPlace, WasSent, SwallowedErrors, MayFollow, IsOperator
<1> QED
  BY <1>1, <1>2, <1>3, <1>4, <1>5, <1>6, <1>7, <1>8, <1>9, <1>10, <1>11 DEF Next, TurnStep

\* every reachable state satisfies it
LEMMA EmailInvAlways == Spec => []EmailInv
  BY InitSafe, StepSafe, PTL DEF Spec

\* the messages of a history are messages
LEMMA StoredEntry ==
    ASSUME TypeInv, NEW c \in Conversation
    PROVE  /\ DOMAIN history[c] = 1..Len(history[c])
           /\ \A i \in DOMAIN history[c] : history[c][i] \in Entry
<1>1. PICK s \in Seq(Entry) : s = history[c]
  BY DEF TypeInv
<1>2. DOMAIN s = 1..Len(s) /\ \A i \in 1..Len(s) : s[i] \in Entry
  BY LenProperties, ElementOfSeq
<1> QED
  BY <1>1, <1>2

\* it implies the type invariant
LEMMA ImpliesTypeOK == EmailInv => TypeOK
<1> SUFFICES ASSUME EmailInv PROVE TypeOK
  OBVIOUS
<1>1. DOMAIN history = Conversation
  BY DEF EmailInv, TypeInv
<1>2. \A c \in Conversation : \A i \in DOMAIN history[c] :
          history[c][i] \in [role : {"user", "assistant"}, turn : Turn]
  BY StoredEntry DEF EmailInv, Entry
<1> QED
  BY <1>1, <1>2 DEF EmailInv, TypeInv, TypeOK

\* it implies that a mail which was recorded was sent
LEMMA ImpliesRecordedMailWasSent == EmailInv => RecordedMailWasSent
<1> SUFFICES ASSUME EmailInv, NEW c \in Address, NEW i \in DOMAIN history[c],
                    IsOperator(history[c][i].turn)
             PROVE  \/ \E m \in mails : m.turn = history[c][i].turn /\ m.to = c
                    \/ c \in SwallowedErrors(history[c][i].turn)
  BY DEF RecordedMailWasSent
<1>1. c \in Conversation
  BY DEF Conversation
<1>2. i \in 1..Len(history[c])
  BY <1>1, StoredEntry DEF EmailInv
<1>3. GoodEntry(c, history[c][i])
  BY <1>1, <1>2 DEF EmailInv, HistoryInv
<1> QED
  BY <1>3 DEF GoodEntry, WasSent

\* it implies that conversations are separate
LEMMA ImpliesConversationsAreSeparate == EmailInv => ConversationsAreSeparate
<1> SUFFICES ASSUME EmailInv, NEW c \in Conversation, NEW i \in DOMAIN history[c]
             PROVE  LET t == history[c][i].turn
                        a == turn[t].action
                    IN  \/ /\ turn[t].conv = c
                           /\ history[c][i].role = "assistant" =>
                                ~(IsOperator(t) /\ a.action = "reply")
                        \/ /\ IsOperator(t) /\ history[c][i].role = "assistant"
                           /\ a.action = "reply" /\ a.target = c
  BY DEF ConversationsAreSeparate
<1>1. i \in 1..Len(history[c])
  BY StoredEntry DEF EmailInv
<1>2. GoodEntry(c, history[c][i])
  BY <1>1 DEF EmailInv, HistoryInv
<1> QED
  BY <1>2 DEF GoodEntry, InPlace

\* it implies that an answer follows its question
LEMMA ImpliesAnswersFollowQuestions == EmailInv => AnswersFollowQuestions
<1> SUFFICES ASSUME EmailInv, NEW c \in Conversation, NEW i \in DOMAIN history[c], i > 1,
                    history[c][i].role = "assistant", turn[history[c][i].turn].conv = c
             PROVE  history[c][i - 1] = [role |-> "user", turn |-> history[c][i].turn]
  BY DEF AnswersFollowQuestions
<1>1. i \in 2..Len(history[c])
  BY StoredEntry DEF EmailInv
<1>2. MayFollow(c, history[c][i - 1], history[c][i])
  BY <1>1 DEF EmailInv, HistoryInv
<1> QED
  BY <1>2 DEF MayFollow

-----------------------------------------------------------------------------
(* The theorems.                                                            *)

\* Every variable has its type, and no history exceeds agent_max_history_messages.
THEOREM TypesAreCorrect == Spec => []TypeOK
  BY EmailInvAlways, ImpliesTypeOK, PTL

\* A turn never mails its reply to an address that its send_email call has reached.
THEOREM NoDoubleSendAlways == Spec => []NoDoubleSend
<1>1. EmailInv => NoDoubleSend
  BY DEF EmailInv, MailInv
<1> QED
  BY <1>1, EmailInvAlways, PTL

\* A mail that an operator turn recorded in a customer's history was delivered, unless the
\* turn's send_email call to that customer swallowed its error.
THEOREM RecordedMailWasSentAlways == Spec => []RecordedMailWasSent
  BY EmailInvAlways, ImpliesRecordedMailWasSent, PTL

\* No message is stored in a conversation that it does not belong to.
THEOREM ConversationsAreSeparateAlways == Spec => []ConversationsAreSeparate
  BY EmailInvAlways, ImpliesConversationsAreSeparate, PTL

\* The message before an answer is the one that it answers, however turns interleave.
THEOREM AnswersFollowQuestionsAlways == Spec => []AnswersFollowQuestions
  BY EmailInvAlways, ImpliesAnswersFollowQuestions, PTL

=============================================================================
