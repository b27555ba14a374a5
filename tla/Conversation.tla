------------------------------ MODULE Conversation ------------------------------
(***************************************************************************)
(* One conversation of the Web workbench: ApplicationService.ask against   *)
(* the conversation tables of web_store.py and the authority tables of     *)
(* database.py.                                                            *)
(*                                                                         *)
(* A request is served by its own thread, and every read and write of ask  *)
(* is a step of its own: each query runs in autocommit mode, also inside a *)
(* unit_of_work, and only append_turn is a transaction.  Between any two   *)
(* steps other requests, reviewers, promotions and the file system move.   *)
(*                                                                         *)
(* Questions ask for metrics of one company and period.  The session state *)
(* is a function of the state before and the question: it is kept as the   *)
(* sequence of questions it was computed from, so that two histories never *)
(* look alike.  The wording, the chart and the post-computation of an      *)
(* answer are left out.                                                    *)
(***************************************************************************)
EXTENDS Naturals, Sequences, FiniteSets

CONSTANTS
  Clients,            \* requests that may be in flight at once
  Keys,               \* idempotency keys
  Questions,          \* question texts
  Metrics,            \* metric columns
  Documents,          \* uploaded documents, each a source of the period
  NoDocument,         \* the batch command's source: its facts have no document
  Values,             \* normalized values
  Blank,              \* the metric is not asked for
  NoKey, NoQuestion,  \* of a request slot that is free
  MaxTurns,           \* bound: turns
  ReviewsInterleave   \* the authority may change between an answer's queries

ASSUME ConversationAssumption ==
  /\ NoDocument \notin Documents
  /\ Blank \notin Values
  /\ NoKey \notin Keys
  /\ NoQuestion \notin Questions
  /\ MaxTurns \in Nat
  /\ ReviewsInterleave \in BOOLEAN

VARIABLES
  turns,      \* conversation_turn in sequence_no order, with its query run
  state,      \* conversation.session_state
  version,    \* conversation.version
  requests,   \* the requests in flight
  reply,      \* the answer the last step gave a client, with the turn it names
  validated,  \* the consolidated facts that are VALIDATED, of any source
  current     \* the source that is CURRENT

vars == <<turns, state, version, requests, reply, validated, current>>
authority == <<validated, current>>

-----------------------------------------------------------------------------
Sources == Documents \cup {NoDocument}
Facts == [source : Sources, metric : Metrics, value : Values]
AnswerStatuses == {"NONE", "VERIFIED", "INSUFFICIENT_EVIDENCE", "NEEDS_CLARIFICATION", "FAILED"}

\* What an answer says and which facts it cites.
Answer == [status : AnswerStatuses, values : [Metrics -> Values \cup {Blank}],
           cited : SUBSET Facts]

Turn == [key : Keys, question : Questions, answer : Answer]
Points == {"free", "lookup", "recheck", "read", "query", "evidence", "append"}

\* base is the session state that was read, todo the metrics whose evidence
\* is still to be read.  alone is no field of the program: no other request
\* with the key was in flight meanwhile.
Request == [at : Points, key : Keys \cup {NoKey}, question : Questions \cup {NoQuestion},
            expected : Nat, base : Seq(Questions), todo : SUBSET Metrics,
            answer : Answer, alone : BOOLEAN]

Reply == [turn : Nat, answer : Answer, alone : BOOLEAN]

Nothing == [m \in Metrics |-> Blank]
Silent(status) == [status |-> status, values |-> Nothing, cited |-> {}]

FreeRequest ==
  [at |-> "free", key |-> NoKey, question |-> NoQuestion, expected |-> 0,
   base |-> << >>, todo |-> {},
   answer |-> Silent("NONE"), alone |-> TRUE]

NoReply == [turn |-> 0, answer |-> Silent("NONE"), alone |-> FALSE]

TypeOK ==
  /\ turns \in Seq(Turn)
  /\ state \in Seq(Questions)
  /\ version \in Nat
  /\ requests \in [Clients -> Request]
  /\ \A c \in Clients : requests[c].at = "free" <=> requests[c].key = NoKey
  /\ \A c \in Clients : requests[c].at = "free" <=> requests[c].question = NoQuestion
  /\ reply \in Reply
  /\ validated \subseteq Facts
  /\ current \in Sources

\* create_conversation
Init ==
  /\ turns = << >>
  /\ state = << >>
  /\ version = 1
  /\ requests = [c \in Clients |-> FreeRequest]
  /\ reply = NoReply
  /\ validated = {}
  /\ current \in Sources

-----------------------------------------------------------------------------
Numbers == 1..Len(turns)

\* The trust joins of the planner, and of the evidence query.
Trusted(m) == {f \in validated : f.metric = m /\ f.source = current}

\* Bug: the query forgets the join with financial_source.
RowsOfAnySource(asked) ==
  {row \in [asked -> validated] : \A m \in asked : row[m].metric = m}

\* The rows of the value query: one for every way to join a trusted fact to each
\* of the metrics it selects.
Rows(asked) == {row \in [asked -> validated] : \A m \in asked : row[m] \in Trusted(m)}

\* require_current_document_content may pass: there is evidence, and its documents
\* are CURRENT.  It also reads the files, whose bytes may have changed meanwhile.
ContentMayMatch(cited) ==
  /\ cited # {}
  /\ \A f \in cited : f.source \in Documents /\ f.source = current

NoAnswer == reply' = NoReply

At(c, point) == requests[c].at = point
Goto(c, point) == requests' = [requests EXCEPT ![c].at = point]

\* Bug: the slot is not cleared.
EndsHolding(c) == Goto(c, "free")

Ends(c) == requests' = [requests EXCEPT ![c] = FreeRequest]

Replies(c, n, answer) ==
  /\ reply' = [turn |-> n, answer |-> answer, alone |-> requests[c].alone]
  /\ Ends(c)

-----------------------------------------------------------------------------
(* Clients.                                                                *)

\* A client sends a version it was told, or one that has passed since.  It may
\* send again what it sent before, while the first request still runs.
Send(c, k, q, v) ==
  /\ At(c, "free")
  /\ v \in 1..version
  /\ LET same == {d \in Clients : requests[d].key = k}
     IN  requests' = [d \in Clients |->
           IF d = c
           THEN [FreeRequest EXCEPT !.at = "lookup", !.key = k, !.question = q,
                                    !.expected = v, !.alone = (same = {})]
           ELSE [requests[d] EXCEPT !.alone = @ /\ d \notin same]]
  /\ NoAnswer
  /\ UNCHANGED <<turns, state, version, authority>>

-----------------------------------------------------------------------------
(* ask, step by step.                                                      *)

\* Bug: a turn that FAILED is asked again.
LookupRetryFailed(c) ==
  /\ At(c, "lookup")
  /\ \/ /\ \A n \in Numbers : turns[n].key = requests[c].key => turns[n].answer.status = "FAILED"
        /\ Goto(c, "read")
        /\ NoAnswer
     \/ \E n \in Numbers :
          /\ turns[n].key = requests[c].key
          /\ turns[n].answer.status # "FAILED"
          /\ Replies(c, n, turns[n].answer)
  /\ UNCHANGED <<turns, state, version, authority>>

\* find_turn_by_idempotency: a stored turn is refused for another question, fails
\* again if it FAILED, is checked again if it is VERIFIED, or is the answer.
Lookup(c) ==
  /\ At(c, "lookup")
  /\ \/ /\ \A n \in Numbers : turns[n].key # requests[c].key
        /\ Goto(c, "read")
        /\ NoAnswer
     \/ \E n \in Numbers :
          /\ turns[n].key = requests[c].key
          /\ \/ /\ \/ turns[n].question # requests[c].question
                   \/ turns[n].answer.status = "FAILED"
                /\ Ends(c)
                /\ NoAnswer
             \/ /\ turns[n].question = requests[c].question
                /\ turns[n].answer.status = "VERIFIED"
                /\ Goto(c, "recheck")
                /\ NoAnswer
             \/ /\ turns[n].question = requests[c].question
                /\ turns[n].answer.status \notin {"FAILED", "VERIFIED"}
                /\ Replies(c, n, turns[n].answer)
  /\ UNCHANGED <<turns, state, version, authority>>

\* A VERIFIED answer is replayed while its documents are what it was read from.
Recheck(c) ==
  /\ At(c, "recheck")
  /\ \E n \in Numbers :
       /\ turns[n].key = requests[c].key
       /\ \/ /\ ContentMayMatch(turns[n].answer.cited)
             /\ Replies(c, n, turns[n].answer)
          \/ Ends(c) /\ NoAnswer
  /\ UNCHANGED <<turns, state, version, authority>>

\* get_conversation, and the analysis of the question in the state that was read:
\* the analyzer asks back, or returns what to query.
ReadConversation(c) ==
  /\ At(c, "read")
  /\ \/ requests' = [requests EXCEPT ![c] = [@ EXCEPT !.at = "query", !.base = state]]
     \/ requests' = [requests EXCEPT ![c] =
          [@ EXCEPT !.at = "append", !.base = state, !.answer = Silent("NEEDS_CLARIFICATION")]]
  /\ NoAnswer
  /\ UNCHANGED <<turns, state, version, authority>>

\* Whatever raises in the query section becomes a FAILED turn.
Fails(c) ==
  requests' = [requests EXCEPT ![c] =
    [@ EXCEPT !.at = "append", !.todo = {}, !.answer = Silent("FAILED")]]

\* The value query, compiled for the metrics the analysis names.
QueryValues(c, asked) ==
  /\ At(c, "query")
  /\ \/ /\ Rows(asked) = {}
        /\ requests' = [requests EXCEPT ![c] =
             [@ EXCEPT !.at = "append", !.answer = Silent("INSUFFICIENT_EVIDENCE")]]
     \/ \E row \in Rows(asked) :
          requests' = [requests EXCEPT ![c] =
            [@ EXCEPT !.at = "evidence", !.todo = asked,
                      !.answer.status = "VERIFIED",
                      !.answer.values = [m \in Metrics |->
                         IF m \in asked THEN row[m].value ELSE Blank]]]
  /\ NoAnswer
  /\ UNCHANGED <<turns, state, version, authority>>

\* _validated_fact_sources: one query per metric, which must find one fact, and
\* that of a document.
ReadEvidence(c, m) ==
  /\ At(c, "evidence")
  /\ m \in requests[c].todo
  /\ \/ \E f \in Trusted(m) :
          /\ Trusted(m) = {f}
          /\ f.source # NoDocument
          /\ requests' = [requests EXCEPT ![c].todo = @ \ {m}, ![c].answer.cited = @ \cup {f}]
     \/ /\ \A f \in Trusted(m) : Trusted(m) # {f} \/ f.source = NoDocument
        /\ Fails(c)
  /\ NoAnswer
  /\ UNCHANGED <<turns, state, version, authority>>

\* All of the evidence is read, and its documents are checked.
CheckContent(c) ==
  /\ At(c, "evidence")
  /\ requests[c].todo = {}
  /\ \/ ContentMayMatch(requests[c].answer.cited) /\ Goto(c, "append")
     \/ Fails(c)
  /\ NoAnswer
  /\ UNCHANGED <<turns, state, version, authority>>

\* The query or the computation over its rows raises: too many rows, a timeout,
\* a zero denominator, a locked database.
QueryRaises(c) ==
  /\ At(c, "query") \/ At(c, "evidence")
  /\ Fails(c)
  /\ NoAnswer
  /\ UNCHANGED <<turns, state, version, authority>>

\* Bug: the version is not compared.
AppendLastWins(c) ==
  /\ At(c, "append")
  /\ Len(turns) < MaxTurns
  /\ \A n \in Numbers : turns[n].key # requests[c].key
  /\ turns' = Append(turns, [key |-> requests[c].key, question |-> requests[c].question,
                             answer |-> requests[c].answer])
  /\ state' = Append(requests[c].base, requests[c].question)
  /\ version' = version + 1
  /\ Ends(c)
  /\ NoAnswer
  /\ UNCHANGED authority

\* append_turn, one transaction: turn, query run, session state and version.  A
\* turn that is already stored under the key is returned, beside the answer that
\* was computed; a version that has passed is a conflict.  A FAILED turn is
\* appended and the exception raised again, and any answer may be lost on its way
\* back after the commit.
AppendTurn(c) ==
  /\ At(c, "append")
  /\ LET request == requests[c]
         answered(n) == \/ Ends(c) /\ NoAnswer
                        \/ request.answer.status # "FAILED" /\ Replies(c, n, request.answer)
     IN  \/ \E n \in Numbers :
              /\ turns[n].key = request.key
              /\ \/ turns[n].question = request.question /\ answered(n)
                 \/ turns[n].question # request.question /\ Ends(c) /\ NoAnswer
              /\ UNCHANGED <<turns, state, version>>
         \/ /\ \A n \in Numbers : turns[n].key # request.key
            /\ version # request.expected
            /\ Ends(c)
            /\ NoAnswer
            /\ UNCHANGED <<turns, state, version>>
         \/ /\ \A n \in Numbers : turns[n].key # request.key
            /\ version = request.expected
            /\ Len(turns) < MaxTurns
            /\ turns' = Append(turns, [key |-> request.key, question |-> request.question,
                                       answer |-> request.answer])
            /\ state' = Append(request.base, request.question)
            /\ version' = version + 1
            /\ answered(Len(turns) + 1)
  /\ UNCHANGED authority

\* The analyzer or the chart raises, or the process dies: nothing is stored.
Abandon(c) ==
  /\ ~At(c, "free")
  /\ Ends(c)
  /\ NoAnswer
  /\ UNCHANGED <<turns, state, version, authority>>

-----------------------------------------------------------------------------
(* The authority changes, as AuthorityStore describes it or more freely.   *)

Undisturbed == ~ReviewsInterleave => \A c \in Clients : requests[c].todo = {}

\* A source never has two trusted facts for a metric (OneTrustedReading).
ReviewFact(f) ==
  /\ Undisturbed
  /\ f.source = current
  /\ \/ Trusted(f.metric) = {} /\ validated' = validated \cup {f}
     \/ validated' = validated \ Trusted(f.metric)
     \/ validated' = (validated \ Trusted(f.metric)) \cup {f}
  /\ NoAnswer
  /\ UNCHANGED <<turns, state, version, requests, current>>

ActivateSource(s) ==
  /\ Undisturbed
  /\ current' = s
  /\ NoAnswer
  /\ UNCHANGED <<turns, state, version, requests, validated>>

-----------------------------------------------------------------------------
Ask(c) ==
  \/ Lookup(c)
  \/ Recheck(c)
  \/ ReadConversation(c)
  \/ \E asked \in (SUBSET Metrics) \ {{}} : QueryValues(c, asked)
  \/ \E m \in Metrics : ReadEvidence(c, m)
  \/ CheckContent(c)
  \/ QueryRaises(c)
  \/ AppendTurn(c)
  \/ Abandon(c)

Next ==
  \/ \E c \in Clients, k \in Keys, q \in Questions, v \in 1..version : Send(c, k, q, v)
  \/ \E c \in Clients : Ask(c)
  \/ \E f \in Facts : ReviewFact(f)
  \/ \E s \in Sources : ActivateSource(s)

Spec == Init /\ [][Next]_vars

-----------------------------------------------------------------------------
(* Invariants.                                                             *)

\* The session state is what the turns of the conversation, all of them and in
\* their order, lead to: no turn was analyzed in a state that another one
\* replaced before it was appended, although ask reads the state long before.
StateFollowsHistory ==
  /\ Len(state) = Len(turns)
  /\ \A n \in Numbers : state[n] = turns[n].question

\* A key names one turn, and the version counts the turns, whichever requests
\* were repeated, failed or conflicted.
OneTurnPerKey ==
  /\ \A i, n \in Numbers : turns[i].key = turns[n].key => i = n
  /\ version = Len(turns) + 1

\* The value of the answer for m is that of a fact it cites, one of a document.
Cited(answer, m) ==
  \E f \in answer.cited :
    f.metric = m /\ f.value = answer.values[m] /\ f.source \in Documents

\* Every value of a VERIFIED answer is the value of a fact it cites, and the fact
\* is that of a document (ARCHITECTURE, invariant 6).
AnswersAreEvidenced ==
  \A n \in Numbers :
    LET answer == turns[n].answer
    IN  answer.status = "VERIFIED" =>
          /\ answer.values # Nothing
          /\ \A m \in Metrics : answer.values[m] # Blank => Cited(answer, m)

\* A client is given the answer that is stored as the turn it is told of, the
\* first time and whenever it asks again; a key that failed is never answered.
\* Only two requests with one key at the same time escape this.
RepliesAreStored ==
  reply # NoReply =>
    /\ reply.turn \in Numbers
    /\ reply.alone => reply.answer = turns[reply.turn].answer

-----------------------------------------------------------------------------
(* Strengthenings that make the invariants above inductive.                *)

\* A request that could still append was analyzed in the state that is stored.
BaseIsFresh ==
  \A c \in Clients : requests[c].at # "free" =>
    /\ requests[c].expected <= version
    /\ requests[c].at \in {"query", "evidence", "append"}
         /\ requests[c].expected = version => requests[c].base = state

\* Requests that share a key know it, and one that is alone past its lookup is
\* the first with its key.
AloneIsFirst ==
  /\ \A c, d \in Clients :
       /\ c # d
       /\ requests[c].key = requests[d].key
       /\ requests[c].key # NoKey
       => ~requests[c].alone
  /\ \A c \in Clients :
       /\ requests[c].at \in {"read", "query", "evidence", "append"}
       /\ requests[c].alone
       => \A n \in Numbers : turns[n].key # requests[c].key

\* A value of an answer on its way is cited, or its evidence is still there.
Near(request) ==
  /\ request.at \in {"lookup", "recheck", "read", "query"} => request.answer.status # "VERIFIED"
  /\ request.at \in {"evidence", "append"} /\ request.answer.status = "VERIFIED" =>
       /\ request.answer.values # Nothing
       /\ \A m \in Metrics : request.answer.values[m] # Blank =>
            \/ Cited(request.answer, m)
            \/ /\ request.at = "evidence"
               /\ m \in request.todo
               /\ \E f \in Trusted(m) : f.value = request.answer.values[m]

EvidenceIsNear == \A c \in Clients : Near(requests[c])
=============================================================================
