--------------------------- MODULE ConversationProofs ---------------------------
(***************************************************************************)
(* Theorems about Conversation, for any clients, keys, questions, metrics, *)
(* documents and values.                                                   *)
(***************************************************************************)
EXTENDS Conversation, TLAPS

(***************************************************************************)
(* Types.                                                                  *)
(***************************************************************************)

LEMMA FreeRequestType ==
  /\ Nothing \in [Metrics -> Values \cup {Blank}]
  /\ \A status \in AnswerStatuses : Silent(status) \in Answer
  /\ FreeRequest \in Request
  /\ NoReply \in Reply
<1>1. Nothing \in [Metrics -> Values \cup {Blank}]
  BY DEF Nothing
<1>2. \A status \in AnswerStatuses : Silent(status) \in Answer
  BY <1>1 DEF Silent, Answer
<1>3. << >> \in Seq(Questions)
  OBVIOUS
<1>4. Silent("NONE") \in Answer
  BY <1>2 DEF AnswerStatuses
<1>5. FreeRequest \in Request
  BY <1>3, <1>4 DEF FreeRequest, Request, Points
<1>6. NoReply \in Reply
  BY <1>4 DEF NoReply, Reply
<1> QED
  BY <1>1, <1>2, <1>5, <1>6

\* A step that replaces the request of one client by one that is still typed,
\* and marks the slot free exactly with its key and question.
LEMMA RequestType ==
  ASSUME TypeOK, NEW c \in Clients, NEW request \in Request,
         requests' = [requests EXCEPT ![c] = request],
         request.at = "free" <=> request.key = NoKey,
         request.at = "free" <=> request.question = NoQuestion
  PROVE  /\ requests' \in [Clients -> Request]
         /\ \A d \in Clients : requests'[d].at = "free" <=> requests'[d].key = NoKey
         /\ \A d \in Clients : requests'[d].at = "free" <=> requests'[d].question = NoQuestion
  BY DEF TypeOK

LEMMA EndsType ==
  ASSUME TypeOK, NEW c \in Clients, Ends(c)
  PROVE  /\ requests' \in [Clients -> Request]
         /\ \A d \in Clients : requests'[d].at = "free" <=> requests'[d].key = NoKey
         /\ \A d \in Clients : requests'[d].at = "free" <=> requests'[d].question = NoQuestion
<1>1. /\ FreeRequest.at = "free"
      /\ FreeRequest.key = NoKey
      /\ FreeRequest.question = NoQuestion
  BY DEF FreeRequest
<1> QED
  BY <1>1, FreeRequestType, RequestType DEF Ends

LEMMA GotoType ==
  ASSUME TypeOK, NEW c \in Clients, NEW point \in Points \ {"free"},
         ~At(c, "free"), Goto(c, point)
  PROVE  /\ requests' \in [Clients -> Request]
         /\ \A d \in Clients : requests'[d].at = "free" <=> requests'[d].key = NoKey
         /\ \A d \in Clients : requests'[d].at = "free" <=> requests'[d].question = NoQuestion
  BY DEF TypeOK, Goto, At, Request

LEMMA FailsType ==
  ASSUME TypeOK, NEW c \in Clients, ~At(c, "free"), Fails(c)
  PROVE  /\ requests' \in [Clients -> Request]
         /\ \A d \in Clients : requests'[d].at = "free" <=> requests'[d].key = NoKey
         /\ \A d \in Clients : requests'[d].at = "free" <=> requests'[d].question = NoQuestion
<1> DEFINE request == [requests[c] EXCEPT !.at = "append", !.todo = {},
                                          !.answer = Silent("FAILED")]
<1>1. Silent("FAILED") \in Answer
  BY FreeRequestType DEF AnswerStatuses
<1>2. requests[c] \in Request
  BY DEF TypeOK
<1>3. request \in Request /\ request.at = "append"
      /\ request.key = requests[c].key /\ request.question = requests[c].question
  BY <1>1, <1>2 DEF Request, Points
<1>4. requests' = [requests EXCEPT ![c] = request]
  BY DEF Fails
<1> HIDE DEF request
<1>5. requests[c].key # NoKey /\ requests[c].question # NoQuestion
  BY DEF TypeOK, At
<1> QED
  BY <1>3, <1>4, <1>5, RequestType

LEMMA RepliesType ==
  ASSUME TypeOK, NEW c \in Clients, NEW n \in Nat, NEW answer \in Answer,
         Replies(c, n, answer)
  PROVE  reply' \in Reply
  BY DEF Replies, Reply, TypeOK, Request

LEMMA TurnType ==
  ASSUME TypeOK
  PROVE  /\ Len(turns) \in Nat
         /\ \A n \in Numbers : turns[n] \in Turn /\ n \in Nat
         /\ \A n \in Numbers : turns[n].answer \in Answer
<1>1. Len(turns) \in Nat
  BY DEF TypeOK
<1>2. \A n \in Numbers : turns[n] \in Turn /\ n \in Nat
  BY <1>1 DEF TypeOK, Numbers
<1> QED
  BY <1>1, <1>2 DEF Turn

LEMMA TypeInit ==
  Init => TypeOK
<1> SUFFICES ASSUME Init PROVE TypeOK
  OBVIOUS
<1>1. FreeRequest.at = "free" /\ FreeRequest.key = NoKey /\ FreeRequest.question = NoQuestion
  BY DEF FreeRequest
<1> QED
  BY <1>1, FreeRequestType DEF Init, TypeOK

LEMMA TypeStep ==
  TypeOK /\ [Next]_vars => TypeOK'
<1> SUFFICES ASSUME TypeOK, [Next]_vars PROVE TypeOK'
  OBVIOUS
<1>0. NoReply \in Reply
  BY FreeRequestType
<1> DEFINE Slots ==
      /\ requests' \in [Clients -> Request]
      /\ \A d \in Clients : requests'[d].at = "free" <=> requests'[d].key = NoKey
      /\ \A d \in Clients : requests'[d].at = "free" <=> requests'[d].question = NoQuestion
<1>1. ASSUME NEW c \in Clients, NEW k \in Keys, NEW q \in Questions, NEW v \in 1..version,
             Send(c, k, q, v)
      PROVE TypeOK'
  <2>1. v \in Nat
    BY DEF TypeOK
  <2> DEFINE same == {d \in Clients : requests[d].key = k}
             mine == [FreeRequest EXCEPT !.at = "lookup", !.key = k, !.question = q,
                                         !.expected = v, !.alone = (same = {})]
  <2>2. mine \in Request /\ mine.at = "lookup" /\ mine.key = k /\ mine.question = q
    BY <2>1, FreeRequestType DEF Request, Points, FreeRequest
  <2>3. \A d \in Clients :
          LET other == [requests[d] EXCEPT !.alone = @ /\ d \notin same]
          IN  /\ other \in Request
              /\ other.at = requests[d].at
              /\ other.key = requests[d].key
              /\ other.question = requests[d].question
    BY DEF TypeOK, Request
  <2>4. requests' = [d \in Clients |-> IF d = c THEN mine
                       ELSE [requests[d] EXCEPT !.alone = @ /\ d \notin same]]
    BY <1>1 DEF Send
  <2>5. Slots
    <3> HIDE DEF mine, same
    <3> QED
      BY <2>2, <2>3, <2>4, ConversationAssumption DEF TypeOK
  <2> QED
    BY <1>0, <1>1, <2>5 DEF TypeOK, Send, NoAnswer, authority
<1>2. ASSUME NEW c \in Clients, Lookup(c) PROVE TypeOK'
  <2>1. ~At(c, "free")
    BY <1>2 DEF Lookup, At
  <2>2. CASE Goto(c, "read") /\ NoAnswer
    <3>1. Slots
      BY <2>1, <2>2, GotoType DEF Points
    <3> QED
      BY <1>0, <1>2, <2>2, <3>1 DEF TypeOK, Lookup, NoAnswer, authority
  <2>3. CASE Goto(c, "recheck") /\ NoAnswer
    <3>1. Slots
      BY <2>1, <2>3, GotoType DEF Points
    <3> QED
      BY <1>0, <1>2, <2>3, <3>1 DEF TypeOK, Lookup, NoAnswer, authority
  <2>4. CASE Ends(c) /\ NoAnswer
    <3>1. Slots
      BY <2>4, EndsType
    <3> QED
      BY <1>0, <1>2, <2>4, <3>1 DEF TypeOK, Lookup, NoAnswer, authority
  <2>5. ASSUME NEW n \in Numbers, Replies(c, n, turns[n].answer) PROVE TypeOK'
    <3>1. Slots
      BY <2>5, EndsType DEF Replies
    <3>2. reply' \in Reply
      BY <2>5, RepliesType, TurnType
    <3> QED
      BY <1>2, <3>1, <3>2 DEF TypeOK, Lookup, authority
  <2> QED
    BY <1>2, <2>2, <2>3, <2>4, <2>5 DEF Lookup
<1>3. ASSUME NEW c \in Clients, Recheck(c) PROVE TypeOK'
  <2>1. CASE Ends(c) /\ NoAnswer
    <3>1. Slots
      BY <2>1, EndsType
    <3> QED
      BY <1>0, <1>3, <2>1, <3>1 DEF TypeOK, Recheck, NoAnswer, authority
  <2>2. ASSUME NEW n \in Numbers, Replies(c, n, turns[n].answer) PROVE TypeOK'
    <3>1. Slots
      BY <2>2, EndsType DEF Replies
    <3>2. reply' \in Reply
      BY <2>2, RepliesType, TurnType
    <3> QED
      BY <1>3, <3>1, <3>2 DEF TypeOK, Recheck, authority
  <2> QED
    BY <1>3, <2>1, <2>2 DEF Recheck
<1>4. ASSUME NEW c \in Clients, ReadConversation(c) PROVE TypeOK'
  <2>1. Silent("NEEDS_CLARIFICATION") \in Answer
    BY FreeRequestType DEF AnswerStatuses
  <2>2. Slots
    <3>1. /\ requests[c] \in Request
          /\ state \in Seq(Questions)
          /\ requests[c].key # NoKey
          /\ requests[c].question # NoQuestion
      BY <1>4 DEF TypeOK, ReadConversation, At
    <3> DEFINE asks == [requests[c] EXCEPT !.at = "query", !.base = state]
               asksBack == [requests[c] EXCEPT !.at = "append", !.base = state,
                                               !.answer = Silent("NEEDS_CLARIFICATION")]
    <3>2. /\ asks \in Request /\ asks.at # "free"
          /\ asks.key = requests[c].key /\ asks.question = requests[c].question
      BY <3>1 DEF Request, Points
    <3>3. /\ asksBack \in Request /\ asksBack.at # "free"
          /\ asksBack.key = requests[c].key /\ asksBack.question = requests[c].question
      BY <2>1, <3>1 DEF Request, Points
    <3>4. \/ requests' = [requests EXCEPT ![c] = asks]
          \/ requests' = [requests EXCEPT ![c] = asksBack]
      BY <1>4 DEF ReadConversation
    <3> HIDE DEF asks, asksBack
    <3> QED
      BY <3>1, <3>2, <3>3, <3>4, RequestType
  <2> QED
    BY <1>0, <1>4, <2>2 DEF TypeOK, ReadConversation, NoAnswer, authority
<1>5. ASSUME NEW c \in Clients, NEW asked \in (SUBSET Metrics) \ {{}}, QueryValues(c, asked)
      PROVE TypeOK'
  <2>1. Silent("INSUFFICIENT_EVIDENCE") \in Answer
    BY FreeRequestType DEF AnswerStatuses
  <2>2. /\ requests[c] \in Request
        /\ requests[c].key # NoKey
        /\ requests[c].question # NoQuestion
    BY <1>5 DEF TypeOK, QueryValues, At
  <2>3. ASSUME NEW point \in {"append", "evidence"}, NEW todo \in SUBSET Metrics, NEW answer \in Answer,
               requests' = [requests EXCEPT ![c] =
                 [@ EXCEPT !.at = point, !.todo = todo, !.answer = answer]]
        PROVE  Slots
    <3> DEFINE request == [requests[c] EXCEPT !.at = point, !.todo = todo, !.answer = answer]
    <3>1. request \in Request /\ request.at = point
          /\ request.key = requests[c].key /\ request.question = requests[c].question
      BY <2>2 DEF Request, Points
    <3>2. requests' = [requests EXCEPT ![c] = request]
      BY <2>3
    <3> HIDE DEF request
    <3> QED
      BY <2>2, <3>1, <3>2, RequestType
  <2>4. CASE requests' = [requests EXCEPT ![c] =
               [@ EXCEPT !.at = "append", !.answer = Silent("INSUFFICIENT_EVIDENCE")]]
    <3>1. requests[c].todo \in SUBSET Metrics
      BY <2>2 DEF Request
    <3>2. requests' = [requests EXCEPT ![c] =
            [@ EXCEPT !.at = "append", !.todo = requests[c].todo,
                      !.answer = Silent("INSUFFICIENT_EVIDENCE")]]
      BY <2>2, <2>4 DEF Request
    <3>3. Slots
      BY <2>1, <2>3, <3>1, <3>2
    <3> QED
      BY <1>0, <1>5, <3>3 DEF TypeOK, QueryValues, NoAnswer, authority
  <2>5. ASSUME NEW row \in Rows(asked),
               requests' = [requests EXCEPT ![c] =
                 [@ EXCEPT !.at = "evidence", !.todo = asked,
                           !.answer.status = "VERIFIED",
                           !.answer.values = [m \in Metrics |->
                              IF m \in asked THEN row[m].value ELSE Blank]]]
        PROVE  TypeOK'
    <3> DEFINE values == [m \in Metrics |-> IF m \in asked THEN row[m].value ELSE Blank]
    <3>1. values \in [Metrics -> Values \cup {Blank}]
      <4>1. \A m \in asked : row[m] \in Facts
        BY DEF Rows, TypeOK
      <4> QED
        BY <4>1 DEF Facts
    <3>2. requests' = [requests EXCEPT ![c] =
            [@ EXCEPT !.at = "evidence", !.todo = asked,
                      !.answer.status = "VERIFIED", !.answer.values = values]]
      BY <2>5
    <3> HIDE DEF values
    <3> DEFINE answer == [requests[c].answer EXCEPT !.status = "VERIFIED", !.values = values]
    <3>3. answer \in Answer
      BY <2>2, <3>1 DEF Request, Answer, AnswerStatuses
    <3>4. requests' = [requests EXCEPT ![c] =
            [@ EXCEPT !.at = "evidence", !.todo = asked, !.answer = answer]]
      BY <2>2, <3>2 DEF Request, Answer
    <3> HIDE DEF answer
    <3>5. Slots
      BY <2>3, <3>3, <3>4
    <3> QED
      BY <1>0, <1>5, <3>5 DEF TypeOK, QueryValues, NoAnswer, authority
  <2> QED
    BY <1>5, <2>4, <2>5 DEF QueryValues
<1>6. ASSUME NEW c \in Clients, NEW m \in Metrics, ReadEvidence(c, m) PROVE TypeOK'
  <2>1. /\ requests[c] \in Request
        /\ requests[c].key # NoKey
        /\ requests[c].question # NoQuestion
        /\ requests[c].at = "evidence"
    BY <1>6 DEF TypeOK, ReadEvidence, At
  <2>2. ASSUME Fails(c) PROVE Slots
    <3>1. ~At(c, "free")
      BY <1>6 DEF ReadEvidence, At
    <3> QED
      BY <2>2, <3>1, FailsType
  <2>3. ASSUME NEW f \in Trusted(m),
               requests' = [requests EXCEPT ![c].todo = @ \ {m}, ![c].answer.cited = @ \cup {f}]
        PROVE  Slots
    <3>1. f \in Facts
      BY DEF Trusted, TypeOK
    <3> DEFINE todo == requests[c].todo \ {m}
               answer == [requests[c].answer EXCEPT !.cited = @ \cup {f}]
               request == [requests[c] EXCEPT !.todo = todo, !.answer = answer]
    <3>2. answer \in Answer
      BY <2>1, <3>1 DEF Request, Answer
    <3>3. todo \in SUBSET Metrics
      BY <2>1 DEF Request
    <3>4. requests' = [requests EXCEPT ![c] = [@ EXCEPT !.todo = todo, !.answer = answer]]
      BY <2>1, <2>3 DEF Request, Answer, TypeOK
    <3> HIDE DEF todo, answer
    <3>5. request \in Request /\ request.at = "evidence"
          /\ request.key = requests[c].key /\ request.question = requests[c].question
      BY <2>1, <3>2, <3>3 DEF Request, Points
    <3>6. requests' = [requests EXCEPT ![c] = request]
      BY <3>4
    <3> HIDE DEF request
    <3> QED
      BY <2>1, <3>5, <3>6, RequestType
  <2>4. Slots
    BY <1>6, <2>2, <2>3 DEF ReadEvidence
  <2> QED
    BY <1>0, <1>6, <2>4 DEF TypeOK, ReadEvidence, NoAnswer, authority
<1>7. ASSUME NEW c \in Clients, CheckContent(c) PROVE TypeOK'
  <2>1. ~At(c, "free")
    BY <1>7 DEF CheckContent, At
  <2>2. Slots
    BY <1>7, <2>1, FailsType, GotoType DEF CheckContent, Points
  <2> QED
    BY <1>0, <1>7, <2>2 DEF TypeOK, CheckContent, NoAnswer, authority
<1>8. ASSUME NEW c \in Clients, QueryRaises(c) PROVE TypeOK'
  <2>1. ~At(c, "free")
    BY <1>8 DEF QueryRaises, At
  <2>2. Slots
    BY <1>8, <2>1, FailsType DEF QueryRaises
  <2> QED
    BY <1>0, <1>8, <2>2 DEF TypeOK, QueryRaises, NoAnswer, authority
<1>9. ASSUME NEW c \in Clients, AppendTurn(c) PROVE TypeOK'
  <2>1. requests[c].answer \in Answer
    BY DEF TypeOK, Request
  <2>2. Ends(c)
    BY <1>9 DEF AppendTurn, Replies
  <2>3. Slots
    BY <2>2, EndsType
  <2>4. reply' \in Reply
    <3>1. Len(turns) + 1 \in Nat /\ \A n \in Numbers : n \in Nat
      BY TurnType
    <3>2. CASE NoAnswer
      BY <1>0, <3>2 DEF NoAnswer
    <3>3. ASSUME NEW n \in Nat, Replies(c, n, requests[c].answer) PROVE reply' \in Reply
      BY <2>1, <3>3, RepliesType
    <3> QED
      BY <1>9, <3>1, <3>2, <3>3 DEF AppendTurn
  <2>5. turns' \in Seq(Turn) /\ state' \in Seq(Questions) /\ version' \in Nat
    <3>1. CASE UNCHANGED <<turns, state, version>>
      BY <3>1 DEF TypeOK
    <3>2. CASE /\ turns' = Append(turns, [key |-> requests[c].key,
                                         question |-> requests[c].question,
                                         answer |-> requests[c].answer])
               /\ state' = Append(requests[c].base, requests[c].question)
               /\ version' = version + 1
      <4>1. /\ requests[c].key \in Keys
            /\ requests[c].question \in Questions
            /\ requests[c].base \in Seq(Questions)
        BY <1>9, ConversationAssumption DEF TypeOK, Request, AppendTurn, At
      <4>2. [key |-> requests[c].key, question |-> requests[c].question,
             answer |-> requests[c].answer] \in Turn
        BY <2>1, <4>1 DEF Turn
      <4> QED
        BY <3>2, <4>1, <4>2 DEF TypeOK
    <3> QED
      BY <1>9, <3>1, <3>2 DEF AppendTurn
  <2> QED
    BY <1>9, <2>3, <2>4, <2>5 DEF TypeOK, AppendTurn, authority
<1>10. ASSUME NEW c \in Clients, Abandon(c) PROVE TypeOK'
  <2>1. Slots
    BY <1>10, EndsType DEF Abandon
  <2> QED
    BY <1>0, <1>10, <2>1 DEF TypeOK, Abandon, NoAnswer, authority
<1>11. ASSUME NEW f \in Facts, ReviewFact(f) PROVE TypeOK'
  BY <1>0, <1>11 DEF TypeOK, ReviewFact, NoAnswer
<1>12. ASSUME NEW s \in Sources, ActivateSource(s) PROVE TypeOK'
  BY <1>0, <1>12 DEF TypeOK, ActivateSource, NoAnswer
<1>13. CASE UNCHANGED vars
  BY <1>13 DEF TypeOK, vars
<1> QED
  BY <1>1, <1>2, <1>3, <1>4, <1>5, <1>6, <1>7, <1>8, <1>9, <1>10, <1>11, <1>12, <1>13
     DEF Next, Ask

\* The conversation and authority tables and the requests in flight keep their
\* types.
THEOREM TypeCorrect == Spec => []TypeOK
<1> QED
  BY TypeInit, TypeStep, PTL DEF Spec

(***************************************************************************)
(* How a step of ask moves its request.                                    *)
(***************************************************************************)

Keeps(c) ==
  /\ requests[c].at # "free"
  /\ requests'[c].key = requests[c].key
  /\ requests'[c].expected = requests[c].expected
  /\ requests'[c].alone = requests[c].alone

Moves(c) ==
  /\ \A d \in Clients \ {c} : requests'[d] = requests[d]
  /\ \/ requests'[c] = FreeRequest
     \/ /\ Keeps(c)
        /\ requests[c].at = "lookup"
        /\ requests'[c].at = "recheck"
     \/ /\ Keeps(c)
        /\ requests[c].at = "lookup"
        /\ requests'[c].at = "read"
        /\ \A n \in Numbers : turns[n].key # requests[c].key
     \/ /\ Keeps(c)
        /\ requests[c].at = "read"
        /\ requests'[c].at \in {"query", "append"}
        /\ requests'[c].base = state
     \/ /\ Keeps(c)
        /\ requests[c].at \in {"query", "evidence"}
        /\ requests'[c].at \in {"evidence", "append"}
        /\ requests'[c].base = requests[c].base

\* Every step of ask but the append.
Works(c) ==
  \/ Lookup(c)
  \/ Recheck(c)
  \/ ReadConversation(c)
  \/ \E asked \in (SUBSET Metrics) \ {{}} : QueryValues(c, asked)
  \/ \E m \in Metrics : ReadEvidence(c, m)
  \/ CheckContent(c)
  \/ QueryRaises(c)
  \/ Abandon(c)

LEMMA EndsMoves ==
  ASSUME TypeOK, NEW c \in Clients, Ends(c)
  PROVE  requests'[c] = FreeRequest /\ \A d \in Clients \ {c} : requests'[d] = requests[d]
  BY DEF TypeOK, Ends

LEMMA FailsMoves ==
  ASSUME TypeOK, NEW c \in Clients, Fails(c)
  PROVE  /\ \A d \in Clients \ {c} : requests'[d] = requests[d]
         /\ requests'[c].at = "append"
         /\ requests'[c].answer = Silent("FAILED")
         /\ requests'[c].key = requests[c].key
         /\ requests'[c].expected = requests[c].expected
         /\ requests'[c].alone = requests[c].alone
         /\ requests'[c].base = requests[c].base
  BY DEF TypeOK, Fails, Request

LEMMA GotoMoves ==
  ASSUME TypeOK, NEW c \in Clients, NEW point, Goto(c, point)
  PROVE  /\ \A d \in Clients \ {c} : requests'[d] = requests[d]
         /\ requests'[c].at = point
         /\ requests'[c].answer = requests[c].answer
         /\ requests'[c].todo = requests[c].todo
         /\ requests'[c].key = requests[c].key
         /\ requests'[c].expected = requests[c].expected
         /\ requests'[c].alone = requests[c].alone
         /\ requests'[c].base = requests[c].base
  BY DEF TypeOK, Goto, Request

LEMMA WorksMoves ==
  ASSUME TypeOK, NEW c \in Clients, Works(c)
  PROVE  Moves(c) /\ UNCHANGED <<turns, state, version>>
<1>0. requests \in [Clients -> Request] /\ requests[c] \in Request
  BY DEF TypeOK
<1>1. CASE Lookup(c)
  <2>1. requests[c].at = "lookup" /\ UNCHANGED <<turns, state, version>>
    BY <1>1 DEF Lookup, At
  <2>2. CASE Ends(c)
    BY <2>1, <2>2, EndsMoves DEF Moves
  <2>3. CASE Goto(c, "recheck")
    BY <2>1, <2>3, GotoMoves DEF Moves, Keeps
  <2>4. CASE Goto(c, "read") /\ \A n \in Numbers : turns[n].key # requests[c].key
    BY <2>1, <2>4, GotoMoves DEF Moves, Keeps
  <2> QED
    BY <1>1, <2>2, <2>3, <2>4 DEF Lookup, Replies
<1>2. CASE Recheck(c)
  BY <1>2, EndsMoves DEF Recheck, Replies, Moves
<1>3. CASE ReadConversation(c)
  <2>1. requests[c].at = "read" /\ UNCHANGED <<turns, state, version>>
    BY <1>3 DEF ReadConversation, At
  <2>2. CASE requests' = [requests EXCEPT ![c] = [@ EXCEPT !.at = "query", !.base = state]]
    BY <1>0, <2>1, <2>2 DEF Moves, Keeps, Request
  <2>3. CASE requests' = [requests EXCEPT ![c] =
               [@ EXCEPT !.at = "append", !.base = state, !.answer = Silent("NEEDS_CLARIFICATION")]]
    BY <1>0, <2>1, <2>3 DEF Moves, Keeps, Request
  <2> QED
    BY <1>3, <2>2, <2>3 DEF ReadConversation
<1>4. ASSUME NEW asked \in (SUBSET Metrics) \ {{}}, QueryValues(c, asked)
      PROVE  Moves(c) /\ UNCHANGED <<turns, state, version>>
  <2>1. requests[c].at = "query" /\ UNCHANGED <<turns, state, version>>
    BY <1>4 DEF QueryValues, At
  <2>2. CASE requests' = [requests EXCEPT ![c] =
               [@ EXCEPT !.at = "append", !.answer = Silent("INSUFFICIENT_EVIDENCE")]]
    BY <1>0, <2>1, <2>2 DEF Moves, Keeps, Request
  <2>3. ASSUME NEW values,
               requests' = [requests EXCEPT ![c] =
                 [@ EXCEPT !.at = "evidence", !.todo = asked,
                           !.answer.status = "VERIFIED", !.answer.values = values]]
        PROVE  Moves(c)
    BY <1>0, <2>1, <2>3 DEF Moves, Keeps, Request
  <2> QED
    BY <1>4, <2>1, <2>2, <2>3 DEF QueryValues
<1>5. ASSUME NEW m \in Metrics, ReadEvidence(c, m)
      PROVE  Moves(c) /\ UNCHANGED <<turns, state, version>>
  <2>1. requests[c].at = "evidence" /\ UNCHANGED <<turns, state, version>>
    BY <1>5 DEF ReadEvidence, At
  <2>2. CASE Fails(c)
    BY <2>1, <2>2, FailsMoves DEF Moves, Keeps
  <2>3. ASSUME NEW f,
               requests' = [requests EXCEPT ![c].todo = @ \ {m}, ![c].answer.cited = @ \cup {f}]
        PROVE  Moves(c)
    BY <1>0, <2>1, <2>3 DEF Moves, Keeps, Request
  <2> QED
    BY <1>5, <2>1, <2>2, <2>3 DEF ReadEvidence
<1>6. CASE CheckContent(c)
  BY <1>6, FailsMoves, GotoMoves DEF CheckContent, At, Moves, Keeps
<1>7. CASE QueryRaises(c)
  BY <1>7, FailsMoves DEF QueryRaises, At, Moves, Keeps
<1>8. CASE Abandon(c)
  BY <1>8, EndsMoves DEF Abandon, Moves
<1> QED
  BY <1>1, <1>2, <1>3, <1>4, <1>5, <1>6, <1>7, <1>8 DEF Works

LEMMA AppendMoves ==
  ASSUME TypeOK, NEW c \in Clients, AppendTurn(c)
  PROVE  /\ requests[c].at = "append"
         /\ requests'[c] = FreeRequest
         /\ \A d \in Clients \ {c} : requests'[d] = requests[d]
<1>1. Ends(c)
  BY DEF AppendTurn, Replies
<1> QED
  BY <1>1, EndsMoves DEF AppendTurn, At

\* What the appending disjunct of AppendTurn does to the tables.
Appends(c) ==
  /\ \A n \in Numbers : turns[n].key # requests[c].key
  /\ version = requests[c].expected
  /\ turns' = Append(turns, [key |-> requests[c].key, question |-> requests[c].question,
                             answer |-> requests[c].answer])
  /\ state' = Append(requests[c].base, requests[c].question)
  /\ version' = version + 1

LEMMA AppendChoice ==
  ASSUME NEW c \in Clients, AppendTurn(c)
  PROVE  UNCHANGED <<turns, state, version>> \/ Appends(c)
  BY DEF AppendTurn, Appends

LEMMA AppendedTurns ==
  ASSUME TypeOK, NEW c \in Clients, Appends(c)
  PROVE  /\ Len(turns') = Len(turns) + 1
         /\ Numbers' = Numbers \cup {Len(turns) + 1}
         /\ \A n \in Numbers : turns'[n] = turns[n]
         /\ turns'[Len(turns) + 1] = [key |-> requests[c].key, question |-> requests[c].question,
                                     answer |-> requests[c].answer]
<1>1. turns \in Seq(Turn)
  BY DEF TypeOK
<1> QED
  BY <1>1 DEF Appends, Numbers

LEMMA SendMoves ==
  ASSUME TypeOK, NEW c \in Clients, NEW k \in Keys, NEW q \in Questions, NEW v \in 1..version,
         Send(c, k, q, v)
  PROVE  /\ requests[c].at = "free"
         /\ requests'[c].at = "lookup"
         /\ requests'[c].key = k
         /\ requests'[c].expected = v
         /\ requests'[c].answer = Silent("NONE")
         /\ requests'[c].todo = {}
         /\ requests'[c].alone => \A d \in Clients : requests[d].key # k
         /\ \A d \in Clients \ {c} :
              /\ requests'[d].at = requests[d].at
              /\ requests'[d].key = requests[d].key
              /\ requests'[d].expected = requests[d].expected
              /\ requests'[d].base = requests[d].base
              /\ requests'[d].todo = requests[d].todo
              /\ requests'[d].answer = requests[d].answer
              /\ requests'[d].alone => requests[d].alone /\ requests[d].key # k
<1> DEFINE same == {d \in Clients : requests[d].key = k}
           mine == [FreeRequest EXCEPT !.at = "lookup", !.key = k, !.question = q,
                                       !.expected = v, !.alone = (same = {})]
<1>1. requests' = [d \in Clients |-> IF d = c THEN mine
                     ELSE [requests[d] EXCEPT !.alone = @ /\ d \notin same]]
  BY DEF Send
<1>2. /\ mine.at = "lookup" /\ mine.key = k /\ mine.expected = v
      /\ mine.answer = Silent("NONE") /\ mine.todo = {}
      /\ mine.alone = (same = {})
  BY DEF FreeRequest
<1> HIDE DEF mine
<1>3. requests'[c] = mine
  BY <1>1
<1>4. mine.alone => \A d \in Clients : requests[d].key # k
  BY <1>2
<1>5. ASSUME NEW d \in Clients \ {c}
      PROVE  /\ requests'[d].at = requests[d].at
             /\ requests'[d].key = requests[d].key
             /\ requests'[d].expected = requests[d].expected
             /\ requests'[d].base = requests[d].base
             /\ requests'[d].todo = requests[d].todo
             /\ requests'[d].answer = requests[d].answer
             /\ requests'[d].alone => requests[d].alone /\ requests[d].key # k
  <2>1. requests[d] \in Request
    BY DEF TypeOK
  <2>2. requests'[d] = [requests[d] EXCEPT !.alone = @ /\ d \notin same]
    BY <1>1
  <2> QED
    BY <2>1, <2>2 DEF Request
<1>6. requests[c].at = "free"
  BY DEF Send, At
<1> QED
  BY <1>2, <1>3, <1>4, <1>5, <1>6

(***************************************************************************)
(* The history of the conversation.                                        *)
(*                                                                         *)
(* The version only grows, a client never sends one that is still to come, *)
(* and ask reads the state after the client sent it.  So a request whose   *)
(* version is still the present one was analyzed in the present state,     *)
(* which is what append_turn's check of the version buys.                  *)
(***************************************************************************)
HistoryInv == TypeOK /\ StateFollowsHistory /\ OneTurnPerKey /\ BaseIsFresh

LEMMA HistoryInit ==
  Init => HistoryInv
<1> SUFFICES ASSUME Init PROVE HistoryInv
  OBVIOUS
<1>1. TypeOK
  BY TypeInit
<1>2. Len(turns) = 0 /\ Len(state) = 0 /\ Numbers = {}
  BY DEF Init, Numbers
<1>3. \A c \in Clients : requests[c].at = "free"
  BY DEF Init, FreeRequest
<1> QED
  BY <1>1, <1>2, <1>3 DEF Init, HistoryInv, StateFollowsHistory, OneTurnPerKey, BaseIsFresh

\* A step that leaves the tables alone and moves requests as ask does.
LEMMA HistoryMoves ==
  ASSUME HistoryInv, NEW c \in Clients, Moves(c), UNCHANGED <<turns, state, version>>
  PROVE  StateFollowsHistory' /\ OneTurnPerKey' /\ BaseIsFresh'
<1>1. StateFollowsHistory' /\ OneTurnPerKey'
  BY DEF HistoryInv, StateFollowsHistory, OneTurnPerKey, Numbers
<1>2. FreeRequest.at = "free"
  BY DEF FreeRequest
<1>3. BaseIsFresh'
  BY <1>2 DEF HistoryInv, BaseIsFresh, Moves, Keeps
<1> QED
  BY <1>1, <1>3

LEMMA HistoryStep ==
  HistoryInv /\ [Next]_vars => HistoryInv'
<1> SUFFICES ASSUME HistoryInv, [Next]_vars PROVE HistoryInv'
  OBVIOUS
<1>1. TypeOK /\ TypeOK'
  BY TypeStep DEF HistoryInv
<1>2. ASSUME NEW c \in Clients, NEW k \in Keys, NEW q \in Questions, NEW v \in 1..version,
             Send(c, k, q, v)
      PROVE  HistoryInv'
  <2>1. UNCHANGED <<turns, state, version>>
    BY <1>2 DEF Send
  <2>2. StateFollowsHistory' /\ OneTurnPerKey'
    BY <2>1 DEF HistoryInv, StateFollowsHistory, OneTurnPerKey, Numbers
  <2>3. v <= version
    BY <1>1 DEF TypeOK
  <2>4. BaseIsFresh'
    BY <1>1, <1>2, <2>1, <2>3, SendMoves DEF HistoryInv, BaseIsFresh
  <2> QED
    BY <1>1, <2>2, <2>4 DEF HistoryInv
<1>3. ASSUME NEW c \in Clients, Works(c) PROVE HistoryInv'
  BY <1>1, <1>3, WorksMoves, HistoryMoves DEF HistoryInv
<1>4. ASSUME NEW c \in Clients, AppendTurn(c) PROVE HistoryInv'
  <2>1. FreeRequest.at = "free"
    BY DEF FreeRequest
  <2>2. CASE UNCHANGED <<turns, state, version>>
    <3>1. Moves(c)
      BY <1>1, <1>4, AppendMoves DEF Moves
    <3> QED
      BY <1>1, <2>2, <3>1, HistoryMoves DEF HistoryInv
  <2>3. CASE Appends(c)
    <3>0. /\ Len(turns') = Len(turns) + 1
          /\ Numbers' = Numbers \cup {Len(turns) + 1}
          /\ \A n \in Numbers : turns'[n] = turns[n]
          /\ turns'[Len(turns) + 1] = [key |-> requests[c].key, question |-> requests[c].question,
                                      answer |-> requests[c].answer]
      BY <1>1, <2>3, AppendedTurns
    <3>1. /\ requests[c].at = "append"
          /\ requests[c].base = state
      BY <1>1, <1>4, <2>3, AppendMoves DEF HistoryInv, BaseIsFresh, Appends
    <3>2. StateFollowsHistory'
      <4>1. state \in Seq(Questions) /\ Len(state) = Len(turns)
        BY DEF HistoryInv, TypeOK, StateFollowsHistory
      <4>2. /\ Len(state') = Len(turns) + 1
            /\ \A n \in Numbers : state'[n] = state[n]
            /\ state'[Len(turns) + 1] = requests[c].question
        BY <2>3, <3>1, <4>1 DEF Appends, Numbers
      <4> QED
        BY <1>1, <2>3, <4>2, <3>0 DEF HistoryInv, StateFollowsHistory
    <3>3. OneTurnPerKey'
      <4>1. Len(turns) \in Nat /\ Len(turns) + 1 \notin Numbers
        BY <1>1 DEF TypeOK, Numbers
      <4>2. \A n \in Numbers : turns'[n].key # turns'[Len(turns) + 1].key
        <5>1. turns'[Len(turns) + 1].key = requests[c].key
          BY <3>0
        <5>2. \A n \in Numbers : turns'[n].key = turns[n].key
          BY <3>0
        <5> QED
          BY <2>3, <5>1, <5>2 DEF Appends
      <4>3. version' = Len(turns') + 1
        BY <1>1, <2>3, <4>1, <3>0 DEF HistoryInv, OneTurnPerKey, Appends
      <4> QED
        BY <1>1, <2>3, <4>2, <4>3, <3>0 DEF HistoryInv, OneTurnPerKey
    <3>4. BaseIsFresh'
      <4>1. ASSUME NEW d \in Clients, requests'[d].at # "free"
            PROVE  requests'[d].expected < version'
        <5>1. d # c /\ requests'[d] = requests[d]
          BY <1>1, <1>4, <2>1, <4>1, AppendMoves
        <5>2. requests[d].expected \in Nat /\ version \in Nat
          BY <1>1 DEF TypeOK, Request
        <5> QED
          BY <2>3, <4>1, <5>1, <5>2 DEF HistoryInv, BaseIsFresh, Appends
      <4>2. \A d \in Clients : requests'[d].expected \in Nat /\ version' \in Nat
        BY <1>1 DEF TypeOK, Request
      <4> QED
        BY <4>1, <4>2 DEF BaseIsFresh
    <3> QED
      BY <1>1, <3>2, <3>3, <3>4 DEF HistoryInv
  <2> QED
    BY <1>4, <2>2, <2>3, AppendChoice
<1>5. CASE UNCHANGED <<turns, state, version, requests>>
  BY <1>1, <1>5 DEF HistoryInv, StateFollowsHistory, OneTurnPerKey, Numbers, BaseIsFresh
<1> QED
  BY <1>2, <1>3, <1>4, <1>5
     DEF Next, Ask, Works, ReviewFact, ActivateSource, vars

\* No turn is lost from the session state, whatever requests ran at once.
THEOREM NoTurnIsLost == Spec => []StateFollowsHistory
<1>1. HistoryInv => StateFollowsHistory
  BY DEF HistoryInv
<1> QED
  BY <1>1, HistoryInit, HistoryStep, PTL DEF Spec

\* A key never names two turns, and the version counts the turns.
THEOREM KeysAreIdempotent == Spec => []OneTurnPerKey
<1>1. HistoryInv => OneTurnPerKey
  BY DEF HistoryInv
<1> QED
  BY <1>1, HistoryInit, HistoryStep, PTL DEF Spec

(***************************************************************************)
(* The replies.                                                            *)
(***************************************************************************)
ReplyInv == TypeOK /\ RepliesAreStored /\ AloneIsFirst

LEMMA ReplyInit ==
  Init => ReplyInv
<1> SUFFICES ASSUME Init PROVE ReplyInv
  OBVIOUS
<1>1. \A c \in Clients : requests[c].at = "free" /\ requests[c].key = NoKey
  BY DEF Init, FreeRequest
<1> QED
  BY <1>1, TypeInit DEF Init, ReplyInv, RepliesAreStored, AloneIsFirst

LEMMA AloneMoves ==
  ASSUME ReplyInv, NEW c \in Clients, Moves(c), UNCHANGED turns
  PROVE  AloneIsFirst'
<1>1. FreeRequest.at = "free" /\ FreeRequest.key = NoKey
  BY DEF FreeRequest
<1>2. \A d \in Clients : requests'[d].key # NoKey =>
         /\ requests'[d].key = requests[d].key
         /\ requests'[d].alone = requests[d].alone
  BY <1>1 DEF Moves, Keeps
<1>3. ASSUME NEW a \in Clients, NEW b \in Clients, a # b,
             requests'[a].key = requests'[b].key, requests'[a].key # NoKey
      PROVE  ~requests'[a].alone
  BY <1>2, <1>3 DEF ReplyInv, AloneIsFirst
<1>4. ASSUME NEW d \in Clients, NEW n \in Numbers',
             requests'[d].at \in {"read", "query", "evidence", "append"},
             requests'[d].alone
      PROVE  turns'[n].key # requests'[d].key
  <2>1. n \in Numbers /\ turns' = turns
    BY DEF Numbers
  <2>2. CASE d # c
    BY <1>4, <2>1, <2>2 DEF ReplyInv, AloneIsFirst, Moves
  <2>3. CASE d = c
    BY <1>1, <1>4, <2>1, <2>3 DEF ReplyInv, AloneIsFirst, Moves, Keeps
  <2> QED
    BY <2>2, <2>3
<1> QED
  BY <1>3, <1>4 DEF AloneIsFirst

LEMMA ReplyStep ==
  ReplyInv /\ [Next]_vars => ReplyInv'
<1> SUFFICES ASSUME ReplyInv, [Next]_vars PROVE ReplyInv'
  OBVIOUS
<1>1. TypeOK /\ TypeOK'
  BY TypeStep DEF ReplyInv
<1>0. NoAnswer => RepliesAreStored'
  BY DEF NoAnswer, RepliesAreStored, NoReply
<1>2. ASSUME NEW c \in Clients, NEW k \in Keys, NEW q \in Questions, NEW v \in 1..version,
             Send(c, k, q, v)
      PROVE  ReplyInv'
  <2>1. NoAnswer /\ UNCHANGED turns /\ Numbers' = Numbers
    BY <1>2 DEF Send, Numbers
  <2>2. ASSUME NEW a \in Clients, NEW b \in Clients, a # b,
               requests'[a].key = requests'[b].key, requests'[a].key # NoKey
        PROVE  ~requests'[a].alone
    <3>1. CASE a = c
      BY <1>1, <1>2, <2>2, <3>1, SendMoves
    <3>2. CASE b = c
      BY <1>1, <1>2, <2>2, <3>2, SendMoves
    <3>3. CASE a # c /\ b # c
      BY <1>1, <1>2, <2>2, <3>3, SendMoves DEF ReplyInv, AloneIsFirst
    <3> QED
      BY <3>1, <3>2, <3>3
  <2>3. ASSUME NEW d \in Clients,
               requests'[d].at \in {"read", "query", "evidence", "append"},
               requests'[d].alone
        PROVE  \A n \in Numbers : turns[n].key # requests'[d].key
    <3>1. d # c
      BY <1>1, <1>2, <2>3, SendMoves
    <3> QED
      BY <1>1, <1>2, <2>3, <3>1, SendMoves DEF ReplyInv, AloneIsFirst
  <2>4. AloneIsFirst'
    BY <2>1, <2>2, <2>3 DEF AloneIsFirst
  <2> QED
    BY <1>0, <1>1, <2>1, <2>4 DEF ReplyInv
<1>3. ASSUME NEW c \in Clients, Works(c) PROVE ReplyInv'
  <2>1. Moves(c) /\ UNCHANGED turns
    BY <1>1, <1>3, WorksMoves
  <2>2. AloneIsFirst'
    BY <2>1, AloneMoves
  <2>3. NoAnswer \/ \E n \in Numbers : Replies(c, n, turns[n].answer)
    BY <1>3 DEF Works, Lookup, Recheck, ReadConversation, QueryValues, ReadEvidence,
                CheckContent, QueryRaises, Abandon
  <2>4. ASSUME NEW n \in Numbers, Replies(c, n, turns[n].answer)
        PROVE  RepliesAreStored'
    BY <2>1, <2>4 DEF Replies, RepliesAreStored, Numbers
  <2> QED
    BY <1>0, <1>1, <2>2, <2>3, <2>4 DEF ReplyInv
<1>4. ASSUME NEW c \in Clients, AppendTurn(c) PROVE ReplyInv'
  <2>1. requests[c].at = "append"
    BY <1>1, <1>4, AppendMoves
  <2>2. CASE UNCHANGED <<turns, state, version>>
    <3>1. Moves(c)
      BY <1>1, <1>4, AppendMoves DEF Moves
    <3>2. AloneIsFirst'
      BY <2>2, <3>1, AloneMoves
    <3>3. ASSUME NEW n \in Numbers, turns[n].key = requests[c].key,
                 Replies(c, n, requests[c].answer)
          PROVE  RepliesAreStored'
      <4>1. ~requests[c].alone
        BY <2>1, <3>3 DEF ReplyInv, AloneIsFirst
      <4>2. requests[c].alone \in BOOLEAN
        BY <1>1 DEF TypeOK, Request
      <4>3. reply'.turn = n /\ ~reply'.alone
        BY <3>3, <4>1, <4>2 DEF Replies
      <4> QED
        BY <2>2, <4>3 DEF RepliesAreStored, Numbers
    <3>4. version' = version /\ version \in Nat
      BY <1>1, <2>2 DEF TypeOK
    <3>5. NoAnswer \/ \E n \in Numbers : turns[n].key = requests[c].key
                                          /\ Replies(c, n, requests[c].answer)
      BY <1>4, <3>4 DEF AppendTurn
    <3> QED
      BY <1>0, <1>1, <3>2, <3>3, <3>5 DEF ReplyInv
  <2>3. CASE /\ Appends(c)
             /\ NoAnswer \/ Replies(c, Len(turns) + 1, requests[c].answer)
    <3>0. /\ Len(turns') = Len(turns) + 1
          /\ Numbers' = Numbers \cup {Len(turns) + 1}
          /\ \A n \in Numbers : turns'[n] = turns[n]
          /\ turns'[Len(turns) + 1] = [key |-> requests[c].key, question |-> requests[c].question,
                                      answer |-> requests[c].answer]
      BY <1>1, <2>3, AppendedTurns
    <3>1. RepliesAreStored'
      <4>1. CASE Replies(c, Len(turns) + 1, requests[c].answer)
        <5>1. reply'.turn = Len(turns) + 1 /\ reply'.answer = requests[c].answer
          BY <4>1 DEF Replies
        <5>2. /\ Len(turns) + 1 \in Numbers'
              /\ turns'[Len(turns) + 1].answer = requests[c].answer
          BY <1>1, <2>3, <3>0
        <5> QED
          BY <5>1, <5>2 DEF RepliesAreStored
      <4> QED
        BY <1>0, <2>3, <4>1
    <3>2. FreeRequest.at = "free" /\ FreeRequest.key = NoKey
      BY DEF FreeRequest
    <3>3. requests'[c] = FreeRequest /\ \A d \in Clients \ {c} : requests'[d] = requests[d]
      BY <1>1, <1>4, AppendMoves
    <3>4. ASSUME NEW a \in Clients, NEW b \in Clients, a # b,
                 requests'[a].key = requests'[b].key, requests'[a].key # NoKey
          PROVE  ~requests'[a].alone
      BY <3>2, <3>3, <3>4 DEF ReplyInv, AloneIsFirst
    <3>5. ASSUME NEW d \in Clients, NEW n \in Numbers',
                 requests'[d].at \in {"read", "query", "evidence", "append"},
                 requests'[d].alone
          PROVE  turns'[n].key # requests'[d].key
      <4>1. d # c /\ requests'[d] = requests[d]
        BY <3>2, <3>3, <3>5
      <4>2. CASE n \in Numbers
        BY <1>1, <2>3, <3>5, <4>1, <4>2, <3>0 DEF ReplyInv, AloneIsFirst
      <4>3. CASE n = Len(turns) + 1
        <5>1. turns'[n].key = requests[c].key
          BY <1>1, <2>3, <4>3, <3>0
        <5>2. requests[c].key # NoKey
          BY <1>1, <2>1 DEF TypeOK
        <5>3. requests[d].key # requests[c].key
          BY <3>5, <4>1, <5>2 DEF ReplyInv, AloneIsFirst
        <5> QED
          BY <4>1, <5>1, <5>3
      <4> QED
        BY <1>1, <2>3, <4>2, <4>3, <3>0
    <3>6. AloneIsFirst'
      BY <3>4, <3>5 DEF AloneIsFirst
    <3> QED
      BY <1>1, <3>1, <3>6 DEF ReplyInv
  <2>4. \/ UNCHANGED <<turns, state, version>>
        \/ Appends(c) /\ (NoAnswer \/ Replies(c, Len(turns) + 1, requests[c].answer))
    BY <1>4 DEF AppendTurn, Appends
  <2> QED
    BY <2>2, <2>3, <2>4
<1>5. CASE NoAnswer /\ UNCHANGED <<turns, requests>>
  BY <1>0, <1>1, <1>5 DEF ReplyInv, AloneIsFirst, Numbers
<1>6. CASE UNCHANGED vars
  BY <1>1, <1>6 DEF ReplyInv, AloneIsFirst, RepliesAreStored, Numbers, vars
<1> QED
  BY <1>2, <1>3, <1>4, <1>5, <1>6
     DEF Next, Ask, Works, ReviewFact, ActivateSource

\* A client that does not send one key twice at once is given what is stored.
THEOREM RepliesAreFaithful == Spec => []RepliesAreStored
<1>1. ReplyInv => RepliesAreStored
  BY DEF ReplyInv
<1> QED
  BY <1>1, ReplyInit, ReplyStep, PTL DEF Spec

(***************************************************************************)
(* The evidence of the answers, while no review commits between the        *)
(* queries of one answer.                                                  *)
(*                                                                         *)
(* What the value query read is then still trusted when the evidence is    *)
(* read, and the evidence query accepts one fact only: it is the fact the  *)
(* value came from.                                                        *)
(***************************************************************************)
EvidenceInv == TypeOK /\ AnswersAreEvidenced /\ EvidenceIsNear

LEMMA EvidenceInit ==
  Init => EvidenceInv
<1> SUFFICES ASSUME Init PROVE EvidenceInv
  OBVIOUS
<1>1. TypeOK /\ Numbers = {}
  BY TypeInit DEF Init, Numbers
<1>2. \A c \in Clients : requests[c].at = "free"
  BY DEF Init, FreeRequest
<1> QED
  BY <1>1, <1>2 DEF EvidenceInv, AnswersAreEvidenced, EvidenceIsNear, Near

\* Requests that are free, or answer nothing, need no evidence.
LEMMA NothingToCite ==
  /\ Near(FreeRequest)
  /\ \A request : request.at = "append" /\ request.answer.status # "VERIFIED" => Near(request)
  BY DEF Near, FreeRequest

\* While the authority stays, a request that is left alone keeps its evidence.
LEMMA EvidenceMoves ==
  ASSUME EvidenceInv, NEW c \in Clients, UNCHANGED <<turns, authority>>,
         \A d \in Clients \ {c} : requests'[d] = requests[d],
         Near(requests'[c])
  PROVE  AnswersAreEvidenced' /\ EvidenceIsNear'
<1>1. AnswersAreEvidenced'
  BY DEF EvidenceInv, AnswersAreEvidenced, Numbers, Cited
<1>2. ASSUME NEW d \in Clients PROVE Near(requests[d])'
  <2>1. Near(requests'[d])
    BY DEF EvidenceInv, EvidenceIsNear
  <2>2. \A m \in Metrics : Trusted(m)' = Trusted(m)
    BY DEF Trusted, authority
  <2> QED
    BY <2>1, <2>2 DEF Near, Cited
<1> QED
  BY <1>1, <1>2 DEF EvidenceIsNear

LEMMA QueryIsNear ==
  ASSUME TypeOK, NEW c \in Clients, NEW asked \in (SUBSET Metrics) \ {{}}, QueryValues(c, asked)
  PROVE  Near(requests'[c])
<1>1. requests \in [Clients -> Request] /\ requests[c] \in Request
  BY DEF TypeOK
<1>2. CASE requests' = [requests EXCEPT ![c] =
             [@ EXCEPT !.at = "append", !.answer = Silent("INSUFFICIENT_EVIDENCE")]]
  <2>1. requests'[c].at = "append" /\ requests'[c].answer.status = "INSUFFICIENT_EVIDENCE"
    BY <1>1, <1>2 DEF Request, Silent
  <2> QED
    BY <2>1, NothingToCite
<1>3. ASSUME NEW row \in Rows(asked),
             requests' = [requests EXCEPT ![c] =
               [@ EXCEPT !.at = "evidence", !.todo = asked,
                         !.answer.status = "VERIFIED",
                         !.answer.values = [m \in Metrics |->
                            IF m \in asked THEN row[m].value ELSE Blank]]]
      PROVE  Near(requests'[c])
  <2> DEFINE values == [m \in Metrics |-> IF m \in asked THEN row[m].value ELSE Blank]
  <2>1. requests' = [requests EXCEPT ![c] =
          [@ EXCEPT !.at = "evidence", !.todo = asked,
                    !.answer.status = "VERIFIED", !.answer.values = values]]
    BY <1>3
  <2>2. \A m \in asked : row[m] \in Trusted(m) /\ row[m] \in Facts
    BY DEF Rows, TypeOK
  <2>3. \A m \in Metrics : values[m] = IF m \in asked THEN row[m].value ELSE Blank
    OBVIOUS
  <2> HIDE DEF values
  <2>4. /\ requests'[c].at = "evidence"
        /\ requests'[c].todo = asked
        /\ requests'[c].answer.values = values
    BY <1>1, <2>1 DEF Request, Answer
  <2>5. PICK m \in asked : TRUE
    OBVIOUS
  <2>6. values[m] # Blank
    BY <2>2, <2>3, ConversationAssumption DEF Facts
  <2>7. values # Nothing
    BY <2>6 DEF Nothing
  <2>8. \A n \in Metrics : values[n] # Blank =>
          n \in asked /\ \E f \in Trusted(n) : f.value = values[n]
    BY <2>2, <2>3
  <2> QED
    BY <2>4, <2>7, <2>8 DEF Near
<1> QED
  BY <1>2, <1>3 DEF QueryValues

LEMMA EvidenceReadIsNear ==
  ASSUME EvidenceInv, NEW c \in Clients, NEW m \in Metrics, ReadEvidence(c, m)
  PROVE  Near(requests'[c])
<1>1. /\ requests \in [Clients -> Request]
      /\ requests[c] \in Request
      /\ requests[c].at = "evidence"
      /\ Near(requests[c])
  BY DEF EvidenceInv, EvidenceIsNear, TypeOK, ReadEvidence, At
<1>2. CASE Fails(c)
  <2>1. requests'[c].at = "append" /\ requests'[c].answer.status = "FAILED"
    BY <1>2, FailsMoves DEF EvidenceInv, Silent
  <2> QED
    BY <2>1, NothingToCite
<1>3. ASSUME NEW f \in Trusted(m), Trusted(m) = {f}, f.source # NoDocument,
             requests' = [requests EXCEPT ![c].todo = @ \ {m}, ![c].answer.cited = @ \cup {f}]
      PROVE  Near(requests'[c])
  <2>1. /\ requests'[c].at = "evidence"
        /\ requests'[c].todo = requests[c].todo \ {m}
        /\ requests'[c].answer.cited = requests[c].answer.cited \cup {f}
        /\ requests'[c].answer.values = requests[c].answer.values
        /\ requests'[c].answer.status = requests[c].answer.status
    BY <1>1, <1>3 DEF Request, Answer
  <2>2. f.metric = m /\ f.source \in Documents
    BY <1>3 DEF EvidenceInv, Trusted, TypeOK, Facts, Sources
  <2>3. \A n \in Metrics : Cited(requests[c].answer, n) => Cited(requests'[c].answer, n)
    BY <2>1 DEF Cited
  <2>4. requests[c].answer.status = "VERIFIED" =>
          \A n \in Metrics : requests[c].answer.values[n] # Blank =>
            \/ Cited(requests'[c].answer, n)
            \/ /\ n \in requests'[c].todo
               /\ \E g \in Trusted(n) : g.value = requests[c].answer.values[n]
    <3> SUFFICES ASSUME requests[c].answer.status = "VERIFIED", NEW n \in Metrics,
                        requests[c].answer.values[n] # Blank,
                        ~Cited(requests'[c].answer, n)
                 PROVE  /\ n \in requests'[c].todo
                        /\ \E g \in Trusted(n) : g.value = requests[c].answer.values[n]
      OBVIOUS
    <3>1. n \in requests[c].todo /\ \E g \in Trusted(n) : g.value = requests[c].answer.values[n]
      BY <1>1, <2>3 DEF Near
    <3>2. CASE n = m
      <4>1. f.value = requests[c].answer.values[m]
        BY <1>3, <3>1, <3>2
      <4>2. Cited(requests'[c].answer, m)
        BY <2>1, <2>2, <4>1 DEF Cited
      <4> QED
        BY <3>2, <4>2
    <3> QED
      BY <2>1, <3>1, <3>2
  <2> QED
    BY <1>1, <2>1, <2>4 DEF Near
<1> QED
  BY <1>2, <1>3 DEF ReadEvidence

LEMMA WorkIsNear ==
  ASSUME EvidenceInv, NEW c \in Clients, Works(c)
  PROVE  Near(requests'[c])
<1>1. TypeOK /\ Near(requests[c]) /\ requests[c] \in Request
  BY DEF EvidenceInv, EvidenceIsNear, TypeOK
<1>2. CASE Ends(c)
  BY <1>1, <1>2, EndsMoves, NothingToCite
<1>3. CASE Fails(c)
  <2>1. requests'[c].at = "append" /\ requests'[c].answer.status = "FAILED"
    BY <1>1, <1>3, FailsMoves DEF Silent
  <2> QED
    BY <2>1, NothingToCite
<1>4. CASE At(c, "lookup") /\ (Goto(c, "read") \/ Goto(c, "recheck"))
  BY <1>1, <1>4, GotoMoves DEF Near, At
<1>5. CASE ReadConversation(c)
  <2>1. CASE requests' = [requests EXCEPT ![c] = [@ EXCEPT !.at = "query", !.base = state]]
    <3>1. requests'[c].at = "query" /\ requests'[c].answer = requests[c].answer
      BY <1>1, <2>1 DEF Request, TypeOK
    <3> QED
      BY <1>1, <1>5, <3>1 DEF Near, ReadConversation, At
  <2>2. CASE requests' = [requests EXCEPT ![c] =
               [@ EXCEPT !.at = "append", !.base = state, !.answer = Silent("NEEDS_CLARIFICATION")]]
    <3>1. requests'[c].at = "append" /\ requests'[c].answer.status = "NEEDS_CLARIFICATION"
      BY <1>1, <2>2 DEF Request, TypeOK, Silent
    <3> QED
      BY <3>1, NothingToCite
  <2> QED
    BY <1>5, <2>1, <2>2 DEF ReadConversation
<1>6. CASE At(c, "evidence") /\ requests[c].todo = {} /\ Goto(c, "append")
  BY <1>1, <1>6, GotoMoves DEF Near, Cited, At
<1> QED
  BY <1>1, <1>2, <1>3, <1>4, <1>5, <1>6, QueryIsNear, EvidenceReadIsNear
     DEF Works, Lookup, Recheck, Replies, CheckContent, QueryRaises, Abandon

LEMMA EvidenceStep ==
  ASSUME ~ReviewsInterleave
  PROVE  EvidenceInv /\ [Next]_vars => EvidenceInv'
<1> SUFFICES ASSUME EvidenceInv, [Next]_vars PROVE EvidenceInv'
  OBVIOUS
<1>1. TypeOK /\ TypeOK'
  BY TypeStep DEF EvidenceInv
<1>2. ASSUME NEW c \in Clients, NEW k \in Keys, NEW q \in Questions, NEW v \in 1..version,
             Send(c, k, q, v)
      PROVE  EvidenceInv'
  <2>1. UNCHANGED <<turns, authority>> /\ \A m \in Metrics : Trusted(m)' = Trusted(m)
    BY <1>2 DEF Send, Trusted, authority
  <2>2. AnswersAreEvidenced'
    BY <2>1 DEF EvidenceInv, AnswersAreEvidenced, Numbers, Cited
  <2>3. ASSUME NEW d \in Clients PROVE Near(requests[d])'
    <3>1. CASE d = c
      <4>1. requests'[c].at = "lookup" /\ requests'[c].answer.status = "NONE"
        BY <1>1, <1>2, SendMoves DEF Silent
      <4> QED
        BY <3>1, <4>1 DEF Near
    <3>2. CASE d # c
      <4>1. /\ requests'[d].at = requests[d].at
            /\ requests'[d].todo = requests[d].todo
            /\ requests'[d].answer = requests[d].answer
        BY <1>1, <1>2, <3>2, SendMoves
      <4> QED
        BY <2>1, <4>1 DEF EvidenceInv, EvidenceIsNear, Near, Cited
    <3> QED
      BY <3>1, <3>2
  <2> QED
    BY <1>1, <2>2, <2>3 DEF EvidenceInv, EvidenceIsNear
<1>3. ASSUME NEW c \in Clients, Works(c) PROVE EvidenceInv'
  <2>1. Moves(c) /\ UNCHANGED turns
    BY <1>1, <1>3, WorksMoves
  <2>2. UNCHANGED authority
    BY <1>3 DEF Works, Lookup, Recheck, ReadConversation, QueryValues, ReadEvidence,
                CheckContent, QueryRaises, Abandon
  <2>3. Near(requests'[c])
    BY <1>3, WorkIsNear
  <2> QED
    BY <1>1, <2>1, <2>2, <2>3, EvidenceMoves DEF EvidenceInv, Moves
<1>4. ASSUME NEW c \in Clients, AppendTurn(c) PROVE EvidenceInv'
  <2>1. /\ requests[c].at = "append"
        /\ requests'[c] = FreeRequest
        /\ \A d \in Clients \ {c} : requests'[d] = requests[d]
    BY <1>1, <1>4, AppendMoves
  <2>2. UNCHANGED authority
    BY <1>4 DEF AppendTurn
  <2>3. Near(requests'[c])
    BY <2>1, NothingToCite
  <2>4. CASE UNCHANGED <<turns, state, version>>
    BY <1>1, <2>1, <2>2, <2>3, <2>4, EvidenceMoves DEF EvidenceInv
  <2>5. CASE Appends(c)
    <3>1. /\ Numbers' = Numbers \cup {Len(turns) + 1}
          /\ \A n \in Numbers : turns'[n] = turns[n]
          /\ turns'[Len(turns) + 1] = [key |-> requests[c].key, question |-> requests[c].question,
                                      answer |-> requests[c].answer]
      BY <1>1, <2>5, AppendedTurns
    <3>2. requests[c].answer.status = "VERIFIED" =>
            /\ requests[c].answer.values # Nothing
            /\ \A m \in Metrics : requests[c].answer.values[m] # Blank => Cited(requests[c].answer, m)
      BY <2>1 DEF EvidenceInv, EvidenceIsNear, Near
    <3>3. ASSUME NEW n \in Numbers', turns'[n].answer.status = "VERIFIED"
          PROVE  /\ turns'[n].answer.values # Nothing
                 /\ \A m \in Metrics : turns'[n].answer.values[m] # Blank => Cited(turns'[n].answer, m)
      BY <3>1, <3>2, <3>3 DEF EvidenceInv, AnswersAreEvidenced
    <3>4. AnswersAreEvidenced'
      BY <3>3 DEF AnswersAreEvidenced, Cited
    <3>5. ASSUME NEW d \in Clients PROVE Near(requests[d])'
      <4>1. Near(requests'[d])
        BY <2>1, <2>3 DEF EvidenceInv, EvidenceIsNear
      <4>2. \A m \in Metrics : Trusted(m)' = Trusted(m)
        BY <2>2 DEF Trusted, authority
      <4> QED
        BY <4>1, <4>2 DEF Near, Cited
    <3> QED
      BY <1>1, <3>4, <3>5 DEF EvidenceInv, EvidenceIsNear
  <2> QED
    BY <1>4, <2>4, <2>5, AppendChoice
<1>5. CASE Undisturbed /\ UNCHANGED <<turns, requests>>
  <2>1. \A d \in Clients : requests[d].todo = {}
    BY <1>5 DEF Undisturbed
  <2>2. AnswersAreEvidenced'
    BY <1>5 DEF EvidenceInv, AnswersAreEvidenced, Numbers, Cited
  <2>3. ASSUME NEW d \in Clients PROVE Near(requests[d])'
    BY <1>5, <2>1 DEF EvidenceInv, EvidenceIsNear, Near, Cited
  <2> QED
    BY <1>1, <2>2, <2>3 DEF EvidenceInv, EvidenceIsNear
<1>6. CASE UNCHANGED vars
  <2>1. \A m \in Metrics : Trusted(m)' = Trusted(m)
    BY <1>6 DEF Trusted, vars
  <2> QED
    BY <1>1, <1>6, <2>1
       DEF EvidenceInv, AnswersAreEvidenced, EvidenceIsNear, Near, Cited, Numbers, vars
<1> QED
  BY <1>2, <1>3, <1>4, <1>5, <1>6 DEF Next, Ask, Works, ReviewFact, ActivateSource

\* While no review, promotion or batch run commits between the queries of one
\* answer, every value of a VERIFIED answer is that of a fact it cites.
THEOREM AnswersCiteTheirFacts ==
  ASSUME ~ReviewsInterleave
  PROVE  Spec => []AnswersAreEvidenced
<1>1. EvidenceInv => AnswersAreEvidenced
  BY DEF EvidenceInv
<1> QED
  BY <1>1, EvidenceInit, EvidenceStep, PTL DEF Spec
=============================================================================
