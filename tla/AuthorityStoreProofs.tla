------------------------- MODULE AuthorityStoreProofs -------------------------
(* Proofs of the type invariant and the safety properties of AuthorityStore,  *)
(* for every value of the constants.                                          *)
EXTENDS AuthorityStore, TLAPS

-----------------------------------------------------------------------------
(* Typing.                                                                 *)

\* What the two helpers that rewrite authority and cells return.
LEMMA ActivateType ==
  ASSUME TypeOK, NEW s \in Sources
  PROVE  Activate(s) \in [Sources -> AuthorityStatuses]
BY DEF TypeOK, Activate, AuthorityStatuses

LEMMA ProjectionType ==
  ASSUME NEW F, NEW A
  PROVE  Projection(F, A) \in Row
<1>1. ASSUME NEW m \in Metrics, Trusted(F, A, m) # {}
      PROVE  (CHOOSE f \in Trusted(F, A, m) : TRUE).value \in Values
  <2>1. (CHOOSE f \in Trusted(F, A, m) : TRUE) \in Trusted(F, A, m) BY <1>1
  <2>2. Trusted(F, A, m) \subseteq FactKeys BY DEF Trusted
  <2>3. \A f \in FactKeys : f.value \in Values BY DEF FactKeys
  <2> QED BY <2>1, <2>2, <2>3
<1>2. ASSUME NEW m \in Metrics PROVE CellOf(Trusted(F, A, m)) \in Values \cup {Blank}
  BY <1>1 DEF CellOf
<1> QED BY <1>2 DEF Projection, Row

\* A write of well-typed fact rows keeps facts and shown well typed.
LEMMA DisplayType ==
  ASSUME TypeOK, facts' \in [FactKeys -> FactRow], Display
  PROVE  facts' \in [FactKeys -> FactRow] /\ shown' \subseteq Reading
BY DEF TypeOK, Display, Reading, FactRow

LEMMA ProjectType ==
  ASSUME TypeOK, NEW f \in FactKeys, NEW v \in Values \cup {Blank}, Project(f, v)
  PROVE  cells' \in Row
<1>1. f.metric \in Metrics BY DEF FactKeys
<1> QED BY <1>1 DEF TypeOK, Project, Row

LEMMA RefreshReviewType ==
  ASSUME TypeOK, NEW s \in WebSources, NEW F, RefreshReview(s, F)
  PROVE  review' \in [WebSources -> {"PROCESSING", "NEEDS_REVIEW", "COMPLETED"}]
BY DEF TypeOK, RefreshReview

LEMMA RebuildType ==
  ASSUME TypeOK, NEW A, Rebuild(A)
  PROVE  cells' \in Row
BY ProjectionType DEF TypeOK, Rebuild

\* The fact rows that promotion and upsert write.
InsertCandidates(s) ==
  [f \in FactKeys |-> IF f \in Extracted[s] /\ ~Present(f) THEN Candidate ELSE facts[f]]

LEMMA InsertCandidatesType ==
  ASSUME TypeOK, NEW s
  PROVE  InsertCandidates(s) \in [FactKeys -> FactRow]
BY DEF TypeOK, InsertCandidates, Candidate, FactRow, FactStatuses

LEMMA FactFields ==
  ASSUME NEW f \in FactKeys
  PROVE  f.source \in Sources /\ f.metric \in Metrics /\ f.value \in Values
BY DEF FactKeys

\* The parts of a web decision that its three actions share.
LEMMA DecisionType ==
  ASSUME TypeOK, NEW f \in FactKeys, NEW g \in FactKeys, NEW action \in Actions,
         NEW v \in Nat, f.source \in WebSources, Decision(f, v, action, g)
  PROVE  /\ events' \subseteq Event
         /\ review' \in [WebSources -> {"PROCESSING", "NEEDS_REVIEW", "COMPLETED"}]
         /\ UNCHANGED <<authority, row, batch>>
<1>1. RefreshReview(f.source, facts') BY DEF Decision
<1>2. review' \in [WebSources -> {"PROCESSING", "NEEDS_REVIEW", "COMPLETED"}]
  BY <1>1, RefreshReviewType
<1>3. events' \subseteq Event BY DEF Decision, TypeOK, Event
<1> QED BY <1>2, <1>3 DEF Decision

LEMMA TypeStep ==
  ASSUME TypeOK, [Next]_vars
  PROVE  TypeOK'
<1> USE AuthorityAssumption
<1>1. ASSUME NEW s \in WebSources, PromoteDocument(s) PROVE TypeOK'
  <2>1. s \in Sources BY DEF Sources
  <2>2. authority' \in [Sources -> AuthorityStatuses]
    BY <1>1, <2>1, ActivateType DEF PromoteDocument
  <2>3. facts' \in [FactKeys -> FactRow] /\ shown' \subseteq Reading
    BY <1>1, InsertCandidatesType, DisplayType DEF PromoteDocument, InsertCandidates
  <2>4. cells' \in Row BY <1>1, ProjectionType DEF PromoteDocument
  <2>5. review' \in [WebSources -> {"PROCESSING", "NEEDS_REVIEW", "COMPLETED"}]
    BY <1>1, RefreshReviewType DEF PromoteDocument
  <2> QED BY <1>1, <2>2, <2>3, <2>4, <2>5 DEF PromoteDocument, TypeOK
<1>2. ASSUME NEW s \in BatchSources, BatchReconcile(s) PROVE TypeOK'
  <2>1. s \in Sources BY DEF Sources
  <2>2. authority' \in [Sources -> AuthorityStatuses]
    BY <1>2, <2>1, ActivateType DEF BatchReconcile
  <2>3. cells' \in Row BY <1>2, RebuildType DEF BatchReconcile
  <2>4. batch' \in [at : BatchPoints, source : BatchSources \cup {NoSource}, seen : Row]
    BY <1>2 DEF BatchReconcile, IdleBatch, BatchPoints, BlankRow, Row
  <2>5. batch'.at # "idle" /\ batch'.source # NoSource
    BY <1>2, <2>1 DEF BatchReconcile, IdleBatch
  <2> QED BY <2>5, <1>2, <2>2, <2>3, <2>4 DEF BatchReconcile, TypeOK
<1>3. ASSUME BatchRemove PROVE TypeOK'
  <2>1. authority' \in [Sources -> AuthorityStatuses]
    BY <1>3 DEF BatchRemove, TypeOK, AuthorityStatuses
  <2>2. cells' \in Row BY <1>3, RebuildType DEF BatchRemove
  <2> QED BY <1>3, <2>1, <2>2 DEF BatchRemove, TypeOK
<1>4. ASSUME BatchUpsert PROVE TypeOK'
  <2>1. facts' \in [FactKeys -> FactRow] /\ shown' \subseteq Reading
    BY <1>4, InsertCandidatesType, DisplayType DEF BatchUpsert, InsertCandidates
  <2>2. batch' \in [at : BatchPoints, source : BatchSources \cup {NoSource}, seen : Row]
    BY <1>4 DEF BatchUpsert, TypeOK, BatchPoints
  <2> QED BY <1>4, <2>1, <2>2 DEF BatchUpsert, TypeOK
<1>5. ASSUME BatchRead PROVE TypeOK'
  <2>1. Projection(facts, authority) \in Row BY ProjectionType
  <2>2. batch' \in [at : BatchPoints, source : BatchSources \cup {NoSource}, seen : Row]
    BY <1>5, <2>1 DEF BatchRead, TypeOK, BatchPoints
  <2> QED BY <1>5, <2>2 DEF BatchRead, TypeOK
<1>6. ASSUME BatchWrite PROVE TypeOK'
  BY <1>6 DEF BatchWrite, TypeOK, IdleBatch, BatchPoints, BlankRow, Row
<1>7. ASSUME BatchStops PROVE TypeOK'
  BY <1>7 DEF BatchStops, TypeOK, IdleBatch, BatchPoints, BlankRow, Row
<1>8. ASSUME NEW f \in FactKeys, NEW v \in Nat, ReviewValidate(f, v) PROVE TypeOK'
  <2>1. facts' \in [FactKeys -> FactRow] /\ shown' \subseteq Reading
    <3> DEFINE F == [facts EXCEPT ![f] = [status |-> "VALIDATED", version |-> @.version + 1]]
    <3>1. F \in [FactKeys -> FactRow] BY DEF TypeOK, FactRow, FactStatuses
    <3> QED BY <1>8, <3>1, DisplayType DEF ReviewValidate
  <2>2. cells' \in Row BY <1>8, FactFields, ProjectType DEF ReviewValidate
  <2>3. f.source \in WebSources BY <1>8 DEF ReviewValidate, Reviewable
  <2> QED BY <1>8, <2>1, <2>2, <2>3, DecisionType DEF ReviewValidate, Actions, TypeOK
<1>9. ASSUME NEW f \in FactKeys, NEW v \in Nat, ReviewReject(f, v) PROVE TypeOK'
  <2>1. facts' \in [FactKeys -> FactRow] /\ shown' \subseteq Reading
    <3> DEFINE F == [facts EXCEPT ![f] = [status |-> "REJECTED", version |-> @.version + 1]]
    <3>1. F \in [FactKeys -> FactRow] BY DEF TypeOK, FactRow, FactStatuses
    <3> QED BY <1>9, <3>1, DisplayType DEF ReviewReject
  <2>2. cells' \in Row BY <1>9, ProjectType DEF ReviewReject, TypeOK
  <2>3. f.source \in WebSources BY <1>9 DEF ReviewReject, Reviewable
  <2> QED BY <1>9, <2>1, <2>2, <2>3, DecisionType DEF ReviewReject, Actions, TypeOK
<1>10. ASSUME NEW f \in FactKeys, NEW v \in Nat, NEW g \in Corrections(f),
              ReviewCorrect(f, v, g)
       PROVE  TypeOK'
  <2>1. g \in FactKeys BY DEF Corrections
  <2>2. facts' \in [FactKeys -> FactRow] /\ shown' \subseteq Reading
    <3> DEFINE F == [facts EXCEPT
                      ![f] = [status |-> "REJECTED", version |-> @.version + 1],
                      ![g] = [status |-> "VALIDATED", version |-> 1]]
    <3>1. F \in [FactKeys -> FactRow] BY <2>1 DEF TypeOK, FactRow, FactStatuses
    <3> QED BY <1>10, <3>1, DisplayType DEF ReviewCorrect
  <2>3. cells' \in Row BY <1>10, <2>1, FactFields, ProjectType DEF ReviewCorrect
  <2>4. f.source \in WebSources BY <1>10 DEF ReviewCorrect, Reviewable
  <2> QED BY <1>10, <2>1, <2>2, <2>3, <2>4, DecisionType DEF ReviewCorrect, Actions, TypeOK
<1>11. ASSUME NEW f \in FactKeys, NEW status \in {"VALIDATED", "REJECTED"},
              ReviewOffline(f, status)
       PROVE  TypeOK'
  <2>1. facts' \in [FactKeys -> FactRow] /\ shown' \subseteq Reading
    <3> DEFINE F == [facts EXCEPT ![f].status = status]
    <3>1. F \in [FactKeys -> FactRow] BY DEF TypeOK, FactRow, FactStatuses
    <3> QED BY <1>11, <3>1, DisplayType DEF ReviewOffline
  <2>2. cells' \in Row BY <1>11, FactFields, ProjectType DEF ReviewOffline, TypeOK
  <2> QED BY <1>11, <2>1, <2>2 DEF ReviewOffline, TypeOK
<1>12. CASE UNCHANGED vars BY <1>12 DEF vars, TypeOK
<1>13. \A reading \in shown : reading.fact \in FactKeys /\ reading.version \in Nat
  BY DEF TypeOK, Reading
<1> QED BY <1>1, <1>2, <1>3, <1>4, <1>5, <1>6, <1>7, <1>8, <1>9, <1>10, <1>11, <1>12, <1>13
        DEF Next, Batch, WebReview

\* Every variable stays in its type.
THEOREM TypeCorrect == Spec => []TypeOK
<1>1. Init => TypeOK
  <2> SUFFICES ASSUME Init PROVE TypeOK OBVIOUS
  <2>1. BlankRow \in Row BY DEF BlankRow, Row
  <2>2. authority \in [Sources -> AuthorityStatuses] BY DEF Init, AuthorityStatuses
  <2>3. facts \in [FactKeys -> FactRow] BY DEF Init, AbsentFact, FactRow, FactStatuses
  <2>4. review \in [WebSources -> {"PROCESSING", "NEEDS_REVIEW", "COMPLETED"}] BY DEF Init
  <2>5. batch \in [at : BatchPoints, source : BatchSources \cup {NoSource}, seen : Row]
    BY <2>1 DEF Init, IdleBatch, BatchPoints
  <2>6. batch.at = "idle" /\ batch.source = NoSource BY DEF Init, IdleBatch
  <2> QED BY <2>1, <2>2, <2>3, <2>4, <2>5, <2>6 DEF Init, TypeOK
<1>2. TypeOK /\ [Next]_vars => TypeOK' BY TypeStep
<1> QED BY <1>1, <1>2, PTL DEF Spec

-----------------------------------------------------------------------------
(* How the actions move facts and events.                                  *)

Inserts == \E s \in Sources : facts' = InsertCandidates(s) /\ UNCHANGED events

Sets(f, status) ==
  /\ Present(f)
  /\ facts' = [facts EXCEPT ![f] = [status |-> status, version |-> facts[f].version + 1]]
  /\ status = "VALIDATED" => f.source \in CurrentSources /\ ~Conflicting(f, f)
  /\ \E action \in {"VALIDATE", "REJECT"} :
       events' = events \cup {[fact |-> f, version |-> facts[f].version,
                              action |-> action, replacement |-> f]}

Replaces(f, g) ==
  /\ Present(f) /\ ~Present(g) /\ g.source = f.source
  /\ CorrectionsMove \/ SameKey(f, g)
  /\ facts' = [facts EXCEPT ![f] = [status |-> "REJECTED", version |-> facts[f].version + 1],
                            ![g] = [status |-> "VALIDATED", version |-> 1]]
  /\ f.source \in CurrentSources /\ ~Conflicting(g, f)
  /\ events' = events \cup {[fact |-> f, version |-> facts[f].version,
                             action |-> "CORRECT", replacement |-> g]}

SetsOffline(f, status) ==
  /\ Present(f)
  /\ facts' = [facts EXCEPT ![f].status = status]
  /\ status = "VALIDATED" => f.source \in CurrentSources /\ ~Conflicting(f, f)
  /\ f.source \in BatchSources \/ OfflineOnWeb
  /\ UNCHANGED events

FactStep ==
  \/ UNCHANGED <<facts, events>>
  \/ Inserts
  \/ \E f \in FactKeys : \E status \in {"VALIDATED", "REJECTED"} :
       Sets(f, status) \/ SetsOffline(f, status)
  \/ \E f, g \in FactKeys : Replaces(f, g)

\* Every step moves facts and events in one of these ways.
LEMMA EveryFactStep ==
  ASSUME TypeOK, [Next]_vars
  PROVE  FactStep
<1> USE AuthorityAssumption
<1>1. ASSUME NEW s \in WebSources, PromoteDocument(s) PROVE Inserts
  <2>1. facts' = InsertCandidates(s) /\ UNCHANGED events
    BY <1>1 DEF PromoteDocument, Display, InsertCandidates
  <2> QED BY <2>1 DEF Sources, Inserts
<1>2. ASSUME BatchUpsert PROVE Inserts
  <2>1. facts' = InsertCandidates(batch.source) /\ UNCHANGED events
    BY <1>2 DEF BatchUpsert, Display, InsertCandidates
  <2>2. batch.source \in Sources BY <1>2 DEF TypeOK, Sources, BatchUpsert
  <2> QED BY <2>1, <2>2 DEF Inserts
<1>3. ASSUME Batch, ~BatchUpsert PROVE UNCHANGED <<facts, events>>
  BY <1>3 DEF Batch, BatchReconcile, BatchRemove, BatchRead, BatchWrite, BatchStops
<1>4. ASSUME NEW f \in FactKeys, NEW v \in Nat, ReviewValidate(f, v)
      PROVE  Sets(f, "VALIDATED")
  BY <1>4 DEF ReviewValidate, Reviewable, Projectable, Display, Decision, Sets
<1>5. ASSUME NEW f \in FactKeys, NEW v \in Nat, ReviewReject(f, v)
      PROVE  Sets(f, "REJECTED")
  BY <1>5 DEF ReviewReject, Reviewable, Display, Decision, Sets
<1>6. ASSUME NEW f \in FactKeys, NEW v \in Nat, NEW g \in Corrections(f),
             ReviewCorrect(f, v, g)
      PROVE  Replaces(f, g)
  BY <1>6 DEF ReviewCorrect, Reviewable, Projectable, Display, Decision, Replaces,
              Corrections
<1>7. ASSUME NEW f \in FactKeys, NEW status \in {"VALIDATED", "REJECTED"},
             ReviewOffline(f, status)
      PROVE  SetsOffline(f, status)
  BY <1>7 DEF ReviewOffline, Display, SetsOffline
<1>8. CASE WebReview
  <2>1. PICK r \in shown :
          \/ ReviewValidate(r.fact, r.version)
          \/ ReviewReject(r.fact, r.version)
          \/ \E g \in Corrections(r.fact) : ReviewCorrect(r.fact, r.version, g)
    BY <1>8 DEF WebReview
  <2>2. r.fact \in FactKeys /\ r.version \in Nat BY DEF TypeOK, Reading
  <2>3. Corrections(r.fact) \subseteq FactKeys BY DEF Corrections
  <2> QED BY <2>1, <2>2, <2>3, <1>4, <1>5, <1>6 DEF FactStep
<1>9. CASE UNCHANGED vars BY <1>9 DEF vars, FactStep
<1> QED BY <1>1, <1>2, <1>3, <1>7, <1>8, <1>9 DEF Next, FactStep

\* Promotion and upsert add candidates and touch no fact that was there.
LEMMA InsertKeeps ==
  ASSUME TypeOK, Inserts
  PROVE  \A f \in FactKeys :
           \/ facts'[f] = facts[f]
           \/ ~Present(f) /\ facts'[f] = Candidate
BY DEF TypeOK, Inserts, InsertCandidates

-----------------------------------------------------------------------------
(* One trusted reading per source, metric and scope.                       *)

\* A fact that may be put to VALIDATED has no VALIDATED twin but the excluded one.
LEMMA NoConflictNoTwin ==
  ASSUME NEW f \in FactKeys, NEW g \in FactKeys, ~Conflicting(g, f),
         g.source \in CurrentSources
  PROVE  \A h \in FactKeys \ {f} :
           facts[h].status = "VALIDATED" /\ h.source = g.source => ~SameKey(h, g)
BY DEF Conflicting

LEMMA OneTrustedReadingStep ==
  ASSUME TypeOK, OneTrustedReading, [Next]_vars
  PROVE  OneTrustedReading'
<1> SUFFICES ASSUME NEW a \in FactKeys, NEW b \in FactKeys,
                    facts'[a].status = "VALIDATED", facts'[b].status = "VALIDATED",
                    a.source = b.source, SameKey(a, b), a # b
             PROVE  FALSE
  BY DEF OneTrustedReading, SameKey
<1>1. CASE UNCHANGED <<facts, events>> BY <1>1 DEF OneTrustedReading
<1>2. CASE Inserts
  BY <1>2, InsertKeeps DEF OneTrustedReading, Candidate
<1>3. ASSUME NEW f \in FactKeys, NEW status \in {"VALIDATED", "REJECTED"},
             Sets(f, status) \/ SetsOffline(f, status)
      PROVE  FALSE
  <2>1. \A h \in FactKeys \ {f} : facts'[h] = facts[h]
    BY <1>3 DEF Sets, SetsOffline, TypeOK
  <2>2. facts'[f].status = status
    BY <1>3 DEF Sets, SetsOffline, TypeOK, FactRow
  <2>3. CASE status = "REJECTED" BY <2>1, <2>2, <2>3 DEF OneTrustedReading
  <2>4. CASE status = "VALIDATED"
    <3>1. \A h \in FactKeys \ {f} :
            facts[h].status = "VALIDATED" /\ h.source = f.source => ~SameKey(h, f)
      BY <1>3, <2>4, NoConflictNoTwin DEF Sets, SetsOffline
    <3> QED BY <2>1, <3>1 DEF OneTrustedReading, SameKey
  <2> QED BY <2>3, <2>4
<1>4. ASSUME NEW f \in FactKeys, NEW g \in FactKeys, Replaces(f, g) PROVE FALSE
  <2>1. f # g BY <1>4 DEF Replaces
  <2>2. \A h \in FactKeys \ {f, g} : facts'[h] = facts[h] BY <1>4 DEF Replaces, TypeOK
  <2>3. facts'[f].status = "REJECTED" BY <1>4, <2>1 DEF Replaces, TypeOK
  <2>4. \A h \in FactKeys \ {f} :
          facts[h].status = "VALIDATED" /\ h.source = g.source => ~SameKey(h, g)
    BY <1>4, NoConflictNoTwin DEF Replaces
  <2> QED BY <2>2, <2>3, <2>4 DEF OneTrustedReading, SameKey
<1> QED BY <1>1, <1>2, <1>3, <1>4, EveryFactStep DEF FactStep

\* No source ever has two VALIDATED facts for one metric and scope, whoever
\* reviews, corrects, promotes or reconciles, in whatever order.
THEOREM TrustIsUnambiguous == Spec => []OneTrustedReading
<1>1. Init => OneTrustedReading BY DEF Init, OneTrustedReading, AbsentFact
<1> QED BY <1>1, TypeCorrect, OneTrustedReadingStep, PTL DEF Spec

-----------------------------------------------------------------------------
(* Decisions and their versions.                                           *)

DecisionInv == TypeOK /\ EventsBehind /\ DecisionsAreSerial

LEMMA DecisionStep ==
  ASSUME DecisionInv, [Next]_vars
  PROVE  EventsBehind' /\ DecisionsAreSerial'
<1> USE DEF DecisionInv
<1>0. \A e \in events : e.fact \in FactKeys /\ e.replacement \in FactKeys /\ e.version \in Nat
  BY DEF TypeOK, Event
<1>a. \A h \in FactKeys : facts[h].version \in Nat BY DEF TypeOK, FactRow
<1>1. CASE UNCHANGED <<facts, events>>
  BY <1>1 DEF EventsBehind, DecisionsAreSerial, Present
<1>2. CASE Inserts
  <2>1. \A h \in FactKeys : Present(h) => facts'[h] = facts[h] BY <1>2, InsertKeeps
  <2> QED BY <1>0, <1>2, <2>1 DEF Inserts, EventsBehind, DecisionsAreSerial, Present
<1>3. ASSUME NEW f \in FactKeys, NEW status \in {"VALIDATED", "REJECTED"}, Sets(f, status)
      PROVE  EventsBehind' /\ DecisionsAreSerial'
  <2>1. PICK action \in {"VALIDATE", "REJECT"} :
          events' = events \cup {[fact |-> f, version |-> facts[f].version,
                                 action |-> action, replacement |-> f]}
    BY <1>3 DEF Sets
  <2>2. \A h \in FactKeys \ {f} : facts'[h] = facts[h] BY <1>3 DEF Sets, TypeOK
  <2>3. facts'[f].status = status /\ facts'[f].version = facts[f].version + 1
    BY <1>3 DEF Sets, TypeOK
  <2>4. \A h \in FactKeys : Present(h) => Present(h)' BY <2>2, <2>3 DEF Present
  <2>5. \A h \in FactKeys : facts'[h].version >= facts[h].version BY <1>a, <2>2, <2>3
  <2>6. EventsBehind'
    BY <1>0, <1>a, <1>3, <2>1, <2>3, <2>4, <2>5 DEF EventsBehind, Sets
  <2>7. DecisionsAreSerial' BY <1>0, <1>a, <2>1 DEF EventsBehind, DecisionsAreSerial
  <2> QED BY <2>6, <2>7
<1>4. ASSUME NEW f \in FactKeys, NEW status \in {"VALIDATED", "REJECTED"},
             SetsOffline(f, status)
      PROVE  EventsBehind' /\ DecisionsAreSerial'
  <2>1. \A h \in FactKeys \ {f} : facts'[h] = facts[h] BY <1>4 DEF SetsOffline, TypeOK
  <2>2. facts'[f].status = status /\ facts'[f].version = facts[f].version
    BY <1>4 DEF SetsOffline, TypeOK, FactRow
  <2>3. \A h \in FactKeys : Present(h) => Present(h)' BY <2>1, <2>2 DEF Present
  <2> QED BY <1>0, <1>4, <2>1, <2>2, <2>3 DEF SetsOffline, EventsBehind, DecisionsAreSerial
<1>5. ASSUME NEW f \in FactKeys, NEW g \in FactKeys, Replaces(f, g)
      PROVE  EventsBehind' /\ DecisionsAreSerial'
  <2> DEFINE e == [fact |-> f, version |-> facts[f].version,
                   action |-> "CORRECT", replacement |-> g]
  <2>1. events' = events \cup {e} BY <1>5 DEF Replaces
  <2>2. f # g BY <1>5 DEF Replaces
  <2>3. \A h \in FactKeys \ {f, g} : facts'[h] = facts[h] BY <1>5 DEF Replaces, TypeOK
  <2>4. /\ facts'[f].status = "REJECTED" /\ facts'[f].version = facts[f].version + 1
        /\ facts'[g].status = "VALIDATED"
    BY <1>5, <2>2 DEF Replaces, TypeOK
  <2>5. \A h \in FactKeys : Present(h) => Present(h)' BY <2>3, <2>4 DEF Present
  <2>a. ~Present(g) BY <1>5 DEF Replaces
  <2>6. ASSUME NEW h \in FactKeys, Present(h)
        PROVE  facts'[h].version \in Nat /\ facts'[h].version >= facts[h].version
    <3>1. facts[h].version \in Nat BY <1>a
    <3>2. CASE h = f BY <2>4, <3>1, <3>2
    <3>3. CASE h # f BY <2>3, <2>6, <2>a, <3>1, <3>3
    <3> QED BY <3>2, <3>3
  <2>7. ASSUME NEW x \in events
        PROVE  /\ Present(x.fact)' /\ Present(x.replacement)'
               /\ x.version < facts'[x.fact].version
    <3>1. Present(x.fact) /\ Present(x.replacement) /\ x.version < facts[x.fact].version
      BY DEF EventsBehind
    <3>2. facts'[x.fact].version \in Nat /\ facts'[x.fact].version >= facts[x.fact].version
      BY <1>0, <2>6, <3>1
    <3> QED BY <1>0, <1>a, <2>5, <3>1, <3>2
  <2>8. /\ Present(e.fact)' /\ Present(e.replacement)' /\ e.version < facts'[e.fact].version
        /\ e.replacement # e.fact /\ e.replacement.source = e.fact.source
        /\ CorrectionsMove \/ SameKey(e.fact, e.replacement)
    BY <1>5, <1>a, <2>2, <2>4 DEF Replaces, Present
  <2>9. EventsBehind' BY <2>1, <2>7, <2>8 DEF EventsBehind
  <2>10. DecisionsAreSerial' BY <1>0, <1>a, <2>1 DEF EventsBehind, DecisionsAreSerial
  <2> QED BY <2>9, <2>10
<1> QED BY <1>1, <1>2, <1>3, <1>4, <1>5, EveryFactStep DEF FactStep

LEMMA DecisionInvCorrect == Spec => []DecisionInv
<1>1. Init => EventsBehind /\ DecisionsAreSerial
  BY DEF Init, EventsBehind, DecisionsAreSerial
<1>2. DecisionInv /\ [Next]_vars => EventsBehind' /\ DecisionsAreSerial' BY DecisionStep
<1> QED BY <1>1, <1>2, TypeCorrect, PTL DEF Spec, DecisionInv

\* No two recorded decisions on a fact name the same expected version: of two
\* reviewers with the same page open, one is refused.
THEOREM SecondReviewerIsRefused == Spec => []DecisionsAreSerial
BY DecisionInvCorrect, PTL DEF DecisionInv

\* While corrections keep metric and scope, a corrected fact is never trusted
\* beside its replacement.
THEOREM CorrectionReplaces ==
  ASSUME CorrectionsMove = FALSE
  PROVE  Spec => []ReplacedIsNotTrusted
<1>1. DecisionInv /\ OneTrustedReading => ReplacedIsNotTrusted
  <2> SUFFICES ASSUME DecisionInv, OneTrustedReading, NEW e \in events, e.action = "CORRECT"
               PROVE  ~(facts[e.fact].status = "VALIDATED"
                        /\ facts[e.replacement].status = "VALIDATED")
    BY DEF ReplacedIsNotTrusted
  <2>1. e.fact \in FactKeys /\ e.replacement \in FactKeys BY DEF DecisionInv, TypeOK, Event
  <2>2. /\ e.replacement # e.fact /\ e.replacement.source = e.fact.source
        /\ SameKey(e.fact, e.replacement)
    BY DEF DecisionInv, EventsBehind
  <2> QED BY <2>1, <2>2 DEF OneTrustedReading
<1> QED BY <1>1, DecisionInvCorrect, TrustIsUnambiguous, PTL

-----------------------------------------------------------------------------
(* Authority.                                                              *)

AuthorityStep ==
  \/ UNCHANGED authority /\ \A s \in WebSources : review[s] = "PROCESSING" <=> review'[s] = "PROCESSING"
  \/ \E s \in WebSources :
       /\ review[s] = "PROCESSING"
       /\ authority' = Activate(s)
       /\ \A t \in WebSources : review'[t] = "PROCESSING" <=> t # s /\ review[t] = "PROCESSING"
  \/ \E s \in BatchSources :
       /\ CurrentSources \cap WebSources = {}
       /\ authority' = Activate(s)
       /\ UNCHANGED review
  \/ /\ authority' = [s \in Sources |->
         IF s \in CurrentSources \cap BatchSources THEN "REMOVED" ELSE authority[s]]
     /\ UNCHANGED review

\* Every step moves authority and the promoted documents in one of these ways.
LEMMA EveryAuthorityStep ==
  ASSUME TypeOK, PromotedHasSource, OneCurrentSource, [Next]_vars
  PROVE  AuthorityStep
<1>1. ASSUME NEW s \in WebSources, PromoteDocument(s) PROVE AuthorityStep
  BY <1>1 DEF PromoteDocument, RefreshReview, TypeOK, AuthorityStep
<1>2. ASSUME Batch PROVE AuthorityStep
  BY <1>2 DEF Batch, BatchReconcile, BatchRemove, BatchUpsert, BatchRead, BatchWrite,
              BatchStops, AuthorityStep
<1>3. ASSUME NEW f \in FactKeys, NEW status, ReviewOffline(f, status) PROVE AuthorityStep
  BY <1>3 DEF ReviewOffline, AuthorityStep
<1>4. ASSUME NEW f, NEW g, NEW v, NEW action, Reviewable(f, v), Decision(f, v, action, g)
      PROVE  AuthorityStep
  <2>1. f.source \in WebSources /\ authority[f.source] = "CURRENT"
    BY <1>4 DEF Reviewable, CurrentSources
  <2>2. review[f.source] # "PROCESSING" BY <2>1 DEF PromotedHasSource
  <2>3. UNCHANGED authority /\ RefreshReview(f.source, facts') BY <1>4 DEF Decision
  <2>4. \A s \in WebSources : review[s] = "PROCESSING" <=> review'[s] = "PROCESSING"
    BY <2>1, <2>2, <2>3 DEF RefreshReview, TypeOK
  <2> QED BY <2>3, <2>4 DEF AuthorityStep
<1>5. CASE WebReview
  BY <1>4, <1>5 DEF WebReview, ReviewValidate, ReviewReject, ReviewCorrect
<1>6. CASE UNCHANGED vars BY <1>6 DEF vars, AuthorityStep
<1> QED BY <1>1, <1>2, <1>3, <1>5, <1>6 DEF Next

AuthorityInv == TypeOK /\ OneCurrentSource /\ PromotedHasSource

LEMMA AuthorityInvStep ==
  ASSUME AuthorityInv, [Next]_vars
  PROVE  OneCurrentSource' /\ PromotedHasSource'
<1> USE AuthorityAssumption DEF AuthorityInv
<1>1. AuthorityStep BY EveryAuthorityStep
<1>2. CASE UNCHANGED authority /\ \A s \in WebSources : review[s] = "PROCESSING" <=> review'[s] = "PROCESSING"
  BY <1>2 DEF OneCurrentSource, PromotedHasSource, CurrentSources
<1>3. ASSUME NEW s \in WebSources, authority' = Activate(s),
             \A t \in WebSources : review'[t] = "PROCESSING" <=> t # s /\ review[t] = "PROCESSING"
      PROVE  OneCurrentSource' /\ PromotedHasSource'
  BY <1>3 DEF OneCurrentSource, PromotedHasSource, CurrentSources, Activate, TypeOK, Sources
<1>4. ASSUME NEW s \in BatchSources, authority' = Activate(s), UNCHANGED review
      PROVE  OneCurrentSource' /\ PromotedHasSource'
  BY <1>4 DEF OneCurrentSource, PromotedHasSource, CurrentSources, Activate, TypeOK, Sources
<1>5. ASSUME authority' = [s \in Sources |->
               IF s \in CurrentSources \cap BatchSources THEN "REMOVED" ELSE authority[s]],
             UNCHANGED review
      PROVE  OneCurrentSource' /\ PromotedHasSource'
  BY <1>5 DEF OneCurrentSource, PromotedHasSource, CurrentSources, TypeOK, Sources
<1> QED BY <1>1, <1>2, <1>3, <1>4, <1>5 DEF AuthorityStep

LEMMA AuthorityInvCorrect == Spec => []AuthorityInv
<1>1. Init => OneCurrentSource /\ PromotedHasSource
  BY DEF Init, OneCurrentSource, PromotedHasSource, CurrentSources, Sources
<1>2. AuthorityInv /\ [Next]_vars => OneCurrentSource' /\ PromotedHasSource'
  BY AuthorityInvStep
<1> QED BY <1>1, <1>2, TypeCorrect, PTL DEF Spec, AuthorityInv

\* The selectors alone keep a period to one CURRENT source; the UNIQUE constraint
\* behind them never has to refuse one.
THEOREM OneAuthority == Spec => []OneCurrentSource
BY AuthorityInvCorrect, PTL DEF AuthorityInv

\* Only the promotion of another document takes a Web document's authority.
THEOREM BatchNeverTakesOver == Spec => WebYieldsToWeb
<1>1. AuthorityInv /\ [Next]_vars =>
        [\A s \in WebSources :
           authority[s] = "CURRENT" /\ authority'[s] # "CURRENT" =>
             \E t \in WebSources : authority[t] = "ABSENT" /\ authority'[t] = "CURRENT"]_vars
  <2> SUFFICES ASSUME AuthorityInv, [Next]_vars, NEW s \in WebSources,
                      authority[s] = "CURRENT", authority'[s] # "CURRENT"
               PROVE  \E t \in WebSources : authority[t] = "ABSENT" /\ authority'[t] = "CURRENT"
    OBVIOUS
  <2>1. AuthorityStep BY EveryAuthorityStep DEF AuthorityInv
  <2>2. s \in CurrentSources /\ s \in Sources BY DEF CurrentSources, Sources
  <2>3. ASSUME authority' = [t \in Sources |->
                 IF t \in CurrentSources \cap BatchSources THEN "REMOVED" ELSE authority[t]]
        PROVE FALSE
    BY <2>2, <2>3, AuthorityAssumption
  <2>4. ASSUME NEW t \in WebSources, review[t] = "PROCESSING", authority' = Activate(t)
        PROVE  authority[t] = "ABSENT" /\ authority'[t] = "CURRENT"
    BY <2>4 DEF AuthorityInv, PromotedHasSource, Activate, Sources
  <2> QED BY <2>1, <2>2, <2>3, <2>4 DEF AuthorityStep
<1> QED BY <1>1, AuthorityInvCorrect, PTL DEF Spec, WebYieldsToWeb

-----------------------------------------------------------------------------
(* What a version tells a reviewer, and a document its readers, when the    *)
(* offline interface is kept to facts that have no document.                *)

\* A document's fact never disappears, and changes only with its version.
LEMMA WebFactMoves ==
  ASSUME TypeOK, OfflineOnWeb = FALSE, [Next]_vars
  PROVE  \A h \in FactKeys :
           h.source \in WebSources /\ Present(h) =>
             /\ Present(h)'
             /\ facts'[h] = facts[h] \/ facts'[h].version > facts[h].version
<1> USE AuthorityAssumption
<1> SUFFICES ASSUME NEW h \in FactKeys, h.source \in WebSources, Present(h)
             PROVE  /\ Present(h)'
                    /\ facts'[h] = facts[h] \/ facts'[h].version > facts[h].version
  OBVIOUS
<1>0. facts[h].version \in Nat BY DEF TypeOK, FactRow
<1>1. CASE UNCHANGED <<facts, events>> BY <1>1 DEF Present
<1>2. CASE Inserts BY <1>2, InsertKeeps DEF Present
<1>3. ASSUME NEW f \in FactKeys, NEW status \in {"VALIDATED", "REJECTED"}, Sets(f, status)
      PROVE  /\ Present(h)'
             /\ facts'[h] = facts[h] \/ facts'[h].version > facts[h].version
  <2>1. CASE h = f BY <1>0, <1>3, <2>1 DEF Sets, TypeOK, Present
  <2>2. CASE h # f BY <1>3, <2>2 DEF Sets, TypeOK, Present
  <2> QED BY <2>1, <2>2
<1>4. ASSUME NEW f \in FactKeys, NEW status \in {"VALIDATED", "REJECTED"},
             SetsOffline(f, status)
      PROVE  Present(h)' /\ facts'[h] = facts[h]
  <2>1. h # f BY <1>4 DEF SetsOffline
  <2> QED BY <1>4, <2>1 DEF SetsOffline, TypeOK, Present
<1>5. ASSUME NEW f \in FactKeys, NEW g \in FactKeys, Replaces(f, g)
      PROVE  /\ Present(h)'
             /\ facts'[h] = facts[h] \/ facts'[h].version > facts[h].version
  <2>1. h # g /\ f # g BY <1>5 DEF Replaces
  <2>2. CASE h = f BY <1>0, <1>5, <2>1, <2>2 DEF Replaces, TypeOK, Present
  <2>3. CASE h # f BY <1>5, <2>1, <2>3 DEF Replaces, TypeOK, Present
  <2> QED BY <2>2, <2>3
<1> QED BY <1>1, <1>2, <1>3, <1>4, <1>5, EveryFactStep DEF FactStep

\* A step shows nothing but committed states of documents' facts.
LEMMA ShownStep ==
  ASSUME TypeOK, [Next]_vars
  PROVE  \A r \in shown' :
           \/ r \in shown
           \/ /\ r.fact \in FactKeys /\ r.fact.source \in WebSources /\ Present(r.fact)'
              /\ r.version = facts'[r.fact].version /\ r.status = facts'[r.fact].status
<1>1. ASSUME NEW s \in WebSources, PromoteDocument(s) PROVE Display
  BY <1>1 DEF PromoteDocument
<1>2. ASSUME Batch PROVE Display \/ UNCHANGED shown
  BY <1>2 DEF Batch, BatchReconcile, BatchRemove, BatchUpsert, BatchRead,
              BatchWrite, BatchStops
<1>3. ASSUME WebReview PROVE Display
  BY <1>3 DEF WebReview, ReviewValidate, ReviewReject, ReviewCorrect
<1>4. ASSUME NEW f \in FactKeys, NEW status, ReviewOffline(f, status) PROVE Display
  BY <1>4 DEF ReviewOffline
<1>5. Display \/ UNCHANGED shown BY <1>1, <1>2, <1>3, <1>4 DEF Next, vars
<1> QED BY <1>5 DEF Present, Display

VersionInv == TypeOK /\ ShownIsPast /\ VersionNamesOneState

LEMMA VersionInvStep ==
  ASSUME VersionInv, OfflineOnWeb = FALSE, [Next]_vars
  PROVE  ShownIsPast' /\ VersionNamesOneState'
<1> USE DEF VersionInv
<1>1. \A h \in FactKeys : facts[h].version \in Nat BY DEF TypeOK, FactRow
<1>2. TypeOK' BY TypeStep
<1>3. \A h \in FactKeys : facts'[h].version \in Nat BY <1>2 DEF TypeOK, FactRow
<1>4. \A r \in shown : r.fact \in FactKeys /\ r.version \in Nat BY DEF TypeOK, Reading
<1>5. ASSUME NEW r \in shown
      PROVE  /\ r.fact.source \in WebSources /\ Present(r.fact)'
             /\ r.version <= facts'[r.fact].version
             /\ r.version = facts'[r.fact].version => r.status = facts'[r.fact].status
  <2>1. /\ r.fact.source \in WebSources /\ Present(r.fact)
        /\ r.version <= facts[r.fact].version
        /\ r.version = facts[r.fact].version => r.status = facts[r.fact].status
    BY DEF ShownIsPast
  <2>2. /\ Present(r.fact)'
        /\ facts'[r.fact] = facts[r.fact] \/ facts'[r.fact].version > facts[r.fact].version
    BY <1>4, <2>1, WebFactMoves
  <2> QED BY <1>1, <1>3, <1>4, <2>1, <2>2
<1>6. ShownIsPast' BY <1>3, <1>5, ShownStep DEF ShownIsPast
<1>7. VersionNamesOneState' BY <1>5, ShownStep DEF VersionNamesOneState
<1> QED BY <1>6, <1>7

\* While the offline interface leaves documents' facts alone, a version number a
\* reviewer sends back names exactly the state that was on the screen.
THEOREM VersionsAreHonest ==
  ASSUME OfflineOnWeb = FALSE
  PROVE  Spec => []VersionNamesOneState
<1>1. Init => ShownIsPast /\ VersionNamesOneState
  BY DEF Init, ShownIsPast, VersionNamesOneState
<1>2. VersionInv /\ [Next]_vars => ShownIsPast' /\ VersionNamesOneState' BY VersionInvStep
<1> QED BY <1>1, <1>2, TypeCorrect, PTL DEF Spec, VersionInv

LEMMA ReviewStep ==
  ASSUME AuthorityInv, DocumentMirrorsReview, OfflineOnWeb = FALSE, [Next]_vars
  PROVE  DocumentMirrorsReview'
<1> USE AuthorityAssumption DEF AuthorityInv
<1> DEFINE Pending(s) == \E f \in FactKeys : f.source = s /\ facts[f].status = "NEEDS_REVIEW"
<1>1. ASSUME NEW s \in WebSources, RefreshReview(s, facts'),
             \A h \in FactKeys : h.source # s => facts'[h] = facts[h]
      PROVE  DocumentMirrorsReview'
  BY <1>1 DEF RefreshReview, DocumentMirrorsReview, TypeOK
<1>2. ASSUME UNCHANGED review,
             \A h \in FactKeys : h.source \in WebSources => facts'[h] = facts[h]
      PROVE  DocumentMirrorsReview'
  BY <1>2 DEF DocumentMirrorsReview
<1>3. ASSUME NEW s \in WebSources, PromoteDocument(s) PROVE DocumentMirrorsReview'
  <2>1. \A h \in FactKeys : h \in Extracted[s] => h.source = s BY DEF Sources
  <2> QED BY <1>1, <1>3, <2>1 DEF PromoteDocument, Display, TypeOK
<1>4. ASSUME BatchUpsert PROVE DocumentMirrorsReview'
  <2>1. batch.source \in BatchSources BY <1>4 DEF BatchUpsert, TypeOK
  <2>2. \A h \in FactKeys : h \in Extracted[batch.source] => h.source \notin WebSources
    BY <2>1 DEF Sources
  <2> QED BY <1>2, <1>4, <2>2 DEF BatchUpsert, Display, TypeOK
<1>5. ASSUME Batch, ~BatchUpsert PROVE DocumentMirrorsReview'
  BY <1>2, <1>5 DEF Batch, BatchReconcile, BatchRemove, BatchRead, BatchWrite, BatchStops
<1>6. ASSUME NEW f \in FactKeys, NEW v, ReviewValidate(f, v) PROVE DocumentMirrorsReview'
  BY <1>1, <1>6 DEF ReviewValidate, Reviewable, Display, Decision, TypeOK
<1>7. ASSUME NEW f \in FactKeys, NEW v, ReviewReject(f, v) PROVE DocumentMirrorsReview'
  BY <1>1, <1>7 DEF ReviewReject, Reviewable, Display, Decision, TypeOK
<1>8. ASSUME NEW f \in FactKeys, NEW v, NEW g \in Corrections(f), ReviewCorrect(f, v, g)
      PROVE  DocumentMirrorsReview'
  <2>1. g \in FactKeys /\ g.source = f.source BY DEF Corrections
  <2> QED BY <1>1, <1>8, <2>1 DEF ReviewCorrect, Reviewable, Display, Decision, TypeOK
<1>9. CASE WebReview
  BY <1>6, <1>7, <1>8, <1>9 DEF WebReview, TypeOK, Reading
<1>10. ASSUME NEW f \in FactKeys, NEW status, ReviewOffline(f, status)
       PROVE  DocumentMirrorsReview'
  <2>1. f.source \notin WebSources BY <1>10 DEF ReviewOffline
  <2> QED BY <1>2, <1>10, <2>1 DEF ReviewOffline, Display, TypeOK
<1>11. CASE UNCHANGED vars BY <1>2, <1>11 DEF vars
<1> QED BY <1>3, <1>4, <1>5, <1>9, <1>10, <1>11 DEF Next

\* With the same proviso, a promoted document is COMPLETED exactly when none of
\* its facts is left to review.
THEOREM ReviewQueueIsExact ==
  ASSUME OfflineOnWeb = FALSE
  PROVE  Spec => []DocumentMirrorsReview
<1>1. Init => DocumentMirrorsReview BY DEF Init, DocumentMirrorsReview
<1>2. AuthorityInv /\ DocumentMirrorsReview /\ [Next]_vars => DocumentMirrorsReview'
  BY ReviewStep
<1> QED BY <1>1, <1>2, AuthorityInvCorrect, PTL DEF Spec

-----------------------------------------------------------------------------
(* The wide row shows the trusted facts, when corrections keep metric and   *)
(* scope and nobody writes inside a refresh.                                *)

LEMMA OneTrustedCell ==
  /\ CellOf({}) = Blank
  /\ \A f : CellOf({f}) = f.value
BY DEF CellOf

LEMMA SameTrustSameRow ==
  ASSUME NEW F, NEW A, NEW G, NEW B, \A m \in Metrics : Trusted(F, A, m) = Trusted(G, B, m)
  PROVE  Projection(F, A) = Projection(G, B)
BY DEF Projection

\* Putting g to VALIDATED, and the fact f it corrects to REJECTED, sets g's cell.
LEMMA TrustSetsCell ==
  ASSUME TypeOK, TypeOK', UNCHANGED authority,
         NEW f \in FactKeys, NEW g \in FactKeys,
         f.source = g.source, g.source \in CurrentSources, SameKey(f, g),
         ~Conflicting(g, f),
         \A h \in FactKeys \ {f, g} : facts'[h] = facts[h],
         facts'[g].status = "VALIDATED", f = g \/ facts'[f].status = "REJECTED"
  PROVE  Projection(facts', authority') =
           IF g.scope = "consolidated"
             THEN [Projection(facts, authority) EXCEPT ![g.metric] = g.value]
             ELSE Projection(facts, authority)
<1>1. ASSUME NEW m \in Metrics, m # g.metric \/ g.scope # "consolidated"
      PROVE  Trusted(facts', authority', m) = Trusted(facts, authority, m)
  BY <1>1 DEF Trusted, SameKey
<1>2. ASSUME g.scope = "consolidated"
      PROVE  Trusted(facts', authority', g.metric) = {g}
  <2>1. authority[g.source] = "CURRENT" BY DEF CurrentSources
  <2>2. g \in Trusted(facts', authority', g.metric) BY <1>2, <2>1 DEF Trusted
  <2>3. ASSUME NEW h \in Trusted(facts', authority', g.metric) PROVE h = g
    <3>1. /\ h \in FactKeys /\ facts'[h].status = "VALIDATED"
          /\ authority[h.source] = "CURRENT" /\ SameKey(h, g)
      BY <1>2, <2>3 DEF Trusted, SameKey
    <3>2. h.source \in CurrentSources BY <3>1, FactFields DEF CurrentSources
    <3>3. CASE h = f BY <3>1, <3>3
    <3>4. CASE h # f /\ h # g
      <4>1. facts[h].status = "VALIDATED" BY <3>1, <3>4
      <4> QED BY <3>1, <3>2, <3>4, <4>1 DEF Conflicting
    <3> QED BY <3>3, <3>4
  <2> QED BY <2>2, <2>3
<1>3. g.metric \in Metrics BY FactFields
<1>4. CASE g.scope # "consolidated" BY <1>1, <1>4, SameTrustSameRow
<1>5. CASE g.scope = "consolidated"
  <2>1. ASSUME NEW m \in Metrics
        PROVE  Projection(facts', authority')[m] =
                 IF m = g.metric THEN g.value ELSE Projection(facts, authority)[m]
    BY <1>1, <1>2, <1>5, OneTrustedCell DEF Projection
  <2>2. Projection(facts', authority') \in Row /\ Projection(facts, authority) \in Row
    BY ProjectionType
  <2> QED BY <1>3, <1>5, <2>1, <2>2 DEF Row
<1> QED BY <1>4, <1>5

\* Rejecting a fact that was VALIDATED blanks its cell; any other, none.
LEMMA RejectBlanksCell ==
  ASSUME TypeOK, TypeOK', OneCurrentSource, OneTrustedReading, UNCHANGED authority,
         NEW f \in FactKeys, f.source \in CurrentSources,
         \A h \in FactKeys \ {f} : facts'[h] = facts[h],
         facts'[f].status = "REJECTED"
  PROVE  Projection(facts', authority') =
           IF f.scope = "consolidated" /\ facts[f].status = "VALIDATED"
             THEN [Projection(facts, authority) EXCEPT ![f.metric] = Blank]
             ELSE Projection(facts, authority)
<1>1. ASSUME NEW m \in Metrics,
             m # f.metric \/ f.scope # "consolidated" \/ facts[f].status # "VALIDATED"
      PROVE  Trusted(facts', authority', m) = Trusted(facts, authority, m)
  BY <1>1 DEF Trusted
<1>2. ASSUME f.scope = "consolidated", facts[f].status = "VALIDATED"
      PROVE  Trusted(facts', authority', f.metric) = {}
  <2> SUFFICES ASSUME NEW h \in Trusted(facts', authority', f.metric) PROVE FALSE OBVIOUS
  <2>1. /\ h \in FactKeys /\ h # f /\ facts[h].status = "VALIDATED"
        /\ authority[h.source] = "CURRENT" /\ SameKey(h, f)
    BY <1>2 DEF Trusted, SameKey
  <2>2. h.source = f.source BY <2>1, FactFields DEF OneCurrentSource, CurrentSources
  <2> QED BY <1>2, <2>1, <2>2 DEF OneTrustedReading
<1>3. f.metric \in Metrics BY FactFields
<1>4. CASE ~(f.scope = "consolidated" /\ facts[f].status = "VALIDATED")
  BY <1>1, <1>4, SameTrustSameRow
<1>5. CASE f.scope = "consolidated" /\ facts[f].status = "VALIDATED"
  <2>1. ASSUME NEW m \in Metrics
        PROVE  Projection(facts', authority')[m] =
                 IF m = f.metric THEN Blank ELSE Projection(facts, authority)[m]
    BY <1>1, <1>2, <1>5, OneTrustedCell DEF Projection
  <2>2. Projection(facts', authority') \in Row /\ Projection(facts, authority) \in Row
    BY ProjectionType
  <2> QED BY <1>3, <1>5, <2>1, <2>2 DEF Row
<1> QED BY <1>4, <1>5

ProjectionInv ==
  /\ AuthorityInv /\ OneTrustedReading
  /\ ProjectionIsTrusted /\ RowBeforeTrust /\ ReadIsFresh

\* What a review leaves, once its effect on the projection is known.
LEMMA ReviewKeepsRow ==
  ASSUME ProjectionInv, NEW f \in FactKeys, NEW v, batch.at # "read",
         UNCHANGED <<row, batch>>, f.scope = "consolidated" => row,
         Project(f, v),
         \A h \in FactKeys : h.scope # f.scope => facts'[h].status = facts[h].status,
         Projection(facts', authority') =
           IF f.scope = "consolidated"
             THEN [Projection(facts, authority) EXCEPT ![f.metric] = v]
             ELSE Projection(facts, authority)
  PROVE  ProjectionIsTrusted' /\ RowBeforeTrust' /\ ReadIsFresh'
<1> USE DEF ProjectionInv
<1>1. ProjectionIsTrusted' BY DEF ProjectionIsTrusted, Project
<1>2. RowBeforeTrust' BY DEF RowBeforeTrust
<1>3. ReadIsFresh' BY DEF ReadIsFresh
<1> QED BY <1>1, <1>2, <1>3

LEMMA ProjectionInvStep ==
  ASSUME CorrectionsMove = FALSE, BatchInterleaves = FALSE, ProjectionInv, [Next]_vars
  PROVE  ProjectionIsTrusted' /\ RowBeforeTrust' /\ ReadIsFresh'
<1> USE AuthorityAssumption
<1>1. /\ TypeOK /\ OneCurrentSource /\ OneTrustedReading /\ ProjectionIsTrusted
      /\ RowBeforeTrust /\ ReadIsFresh
  BY DEF ProjectionInv, AuthorityInv
<1>2. TypeOK' BY <1>1, TypeStep
<1> DEFINE Kept == ProjectionIsTrusted' /\ RowBeforeTrust' /\ ReadIsFresh'
<1>3. ASSUME NEW s \in WebSources, PromoteDocument(s) PROVE Kept
  <2>1. row' /\ cells' = Projection(facts', authority') BY <1>3 DEF PromoteDocument
  <2>2. batch'.at # "read" BY <1>3 DEF PromoteDocument, Undisturbed
  <2> QED BY <2>1, <2>2 DEF ProjectionIsTrusted, RowBeforeTrust, ReadIsFresh
<1>4. ASSUME Rebuild(authority'), UNCHANGED <<facts, row>>, batch'.at # "read" PROVE Kept
  BY <1>1, <1>4 DEF Rebuild, ProjectionIsTrusted, RowBeforeTrust, ReadIsFresh
<1>5. ASSUME NEW s \in BatchSources, BatchReconcile(s) PROVE Kept
  BY <1>4, <1>5 DEF BatchReconcile, IdleBatch
<1>6. CASE BatchRemove BY <1>4, <1>6 DEF BatchRemove
<1>7. CASE BatchUpsert
  <2>1. Inserts
    <3>1. facts' = InsertCandidates(batch.source) /\ UNCHANGED events
      BY <1>7 DEF BatchUpsert, Display, InsertCandidates
    <3>2. batch.source \in Sources BY <1>1, <1>7 DEF TypeOK, Sources, BatchUpsert
    <3> QED BY <3>1, <3>2 DEF Inserts
  <2>2. \A h \in FactKeys : facts'[h].status = "VALIDATED" <=> facts[h].status = "VALIDATED"
    BY <1>1, <2>1, InsertKeeps DEF Candidate, Present
  <2>3. UNCHANGED <<authority, row, cells>> /\ batch'.at # "read"
    BY <1>1, <1>7 DEF BatchUpsert, TypeOK
  <2>4. \A m \in Metrics : Trusted(facts', authority', m) = Trusted(facts, authority, m)
    BY <2>2, <2>3 DEF Trusted
  <2>5. Projection(facts', authority') = Projection(facts, authority)
    BY <2>4, SameTrustSameRow
  <2> QED BY <1>1, <2>2, <2>3, <2>5 DEF ProjectionIsTrusted, RowBeforeTrust, ReadIsFresh
<1>8. CASE BatchRead
  BY <1>1, <1>8 DEF BatchRead, TypeOK, ProjectionIsTrusted, RowBeforeTrust, ReadIsFresh
<1>9. CASE BatchWrite
  BY <1>1, <1>9 DEF BatchWrite, IdleBatch, ProjectionIsTrusted, RowBeforeTrust, ReadIsFresh
<1>10. CASE BatchStops
  BY <1>1, <1>10 DEF BatchStops, IdleBatch, ProjectionIsTrusted, RowBeforeTrust, ReadIsFresh
<1>11. ASSUME NEW f \in FactKeys, f.source \in CurrentSources,
              \A h \in FactKeys \ {f} : facts'[h] = facts[h],
              f.scope = "consolidated" => row, batch.at # "read",
              UNCHANGED <<authority, row, batch>>,
              \/ /\ facts'[f].status = "VALIDATED" /\ ~Conflicting(f, f)
                 /\ Project(f, f.value)
              \/ /\ facts'[f].status = "REJECTED"
                 /\ IF facts[f].status = "VALIDATED" THEN Project(f, Blank) ELSE UNCHANGED cells
       PROVE  Kept
  <2>1. \A h \in FactKeys : h.scope # f.scope => facts'[h].status = facts[h].status
    BY <1>11
  <2>2. CASE facts'[f].status = "VALIDATED" /\ ~Conflicting(f, f) /\ Project(f, f.value)
    <3>1. Projection(facts', authority') =
            IF f.scope = "consolidated"
              THEN [Projection(facts, authority) EXCEPT ![f.metric] = f.value]
              ELSE Projection(facts, authority)
      BY <1>1, <1>2, <1>11, <2>2, TrustSetsCell DEF SameKey
    <3> QED BY <1>11, <2>1, <2>2, <3>1, ReviewKeepsRow
  <2>3. CASE facts'[f].status = "REJECTED" /\ facts[f].status = "VALIDATED" /\ Project(f, Blank)
    <3>1. Projection(facts', authority') =
            IF f.scope = "consolidated"
              THEN [Projection(facts, authority) EXCEPT ![f.metric] = Blank]
              ELSE Projection(facts, authority)
      BY <1>1, <1>2, <1>11, <2>3, RejectBlanksCell
    <3> QED BY <1>11, <2>1, <2>3, <3>1, ReviewKeepsRow
  <2>4. CASE facts'[f].status = "REJECTED" /\ facts[f].status # "VALIDATED" /\ UNCHANGED cells
    <3>1. Projection(facts', authority') = Projection(facts, authority)
      BY <1>1, <1>2, <1>11, <2>4, RejectBlanksCell
    <3> QED BY <1>1, <1>11, <2>4, <3>1 DEF ProjectionIsTrusted, RowBeforeTrust, ReadIsFresh
  <2> QED BY <1>11, <2>2, <2>3, <2>4
<1>12. ASSUME NEW f \in FactKeys, NEW v, ReviewValidate(f, v) PROVE Kept
  <2>1. f.source \in CurrentSources /\ batch.at # "read"
    BY <1>12 DEF ReviewValidate, Reviewable, Undisturbed
  <2>2. /\ \A h \in FactKeys \ {f} : facts'[h] = facts[h]
        /\ facts'[f].status = "VALIDATED"
    BY <1>1, <1>12 DEF ReviewValidate, Display, TypeOK
  <2> QED BY <1>11, <1>12, <2>1, <2>2 DEF ReviewValidate, Projectable, Decision
<1>13. ASSUME NEW f \in FactKeys, NEW v, ReviewReject(f, v) PROVE Kept
  <2>1. f.source \in CurrentSources /\ batch.at # "read"
    BY <1>13 DEF ReviewReject, Reviewable, Undisturbed
  <2>2. /\ \A h \in FactKeys \ {f} : facts'[h] = facts[h]
        /\ facts'[f].status = "REJECTED"
    BY <1>1, <1>13 DEF ReviewReject, Display, TypeOK
  <2>3. IF facts[f].status = "VALIDATED" THEN Project(f, Blank) ELSE UNCHANGED cells
    BY <1>13 DEF ReviewReject
  <2>4. UNCHANGED <<authority, row, batch>> BY <1>13 DEF ReviewReject, Decision
  <2>5. CASE f.scope = "consolidated" => row BY <1>11, <2>1, <2>2, <2>3, <2>4, <2>5
  <2>6. CASE f.scope = "consolidated" /\ ~row
    \* There is no row to show anything.
    <3>1. ~row' /\ batch'.at # "read" BY <2>1, <2>4, <2>6
    <3> QED BY <1>1, <2>2, <2>6, <3>1 DEF ProjectionIsTrusted, RowBeforeTrust, ReadIsFresh
  <2> QED BY <2>5, <2>6
<1>14. ASSUME NEW f \in FactKeys, NEW v, NEW g \in Corrections(f), ReviewCorrect(f, v, g)
       PROVE  Kept
  <2>1. g \in FactKeys /\ g.source = f.source /\ SameKey(f, g) /\ f # g
    BY <1>14 DEF Corrections, ReviewCorrect, Reviewable
  <2>2. f.source \in CurrentSources /\ batch.at # "read"
    BY <1>14 DEF ReviewCorrect, Reviewable, Undisturbed
  <2>3. /\ \A h \in FactKeys \ {f, g} : facts'[h] = facts[h]
        /\ facts'[g].status = "VALIDATED" /\ facts'[f].status = "REJECTED"
    BY <1>1, <1>14, <2>1 DEF ReviewCorrect, Display, TypeOK
  <2>4. /\ ~Conflicting(g, f) /\ Project(g, g.value)
        /\ UNCHANGED <<authority, row, batch>>
    BY <1>14 DEF ReviewCorrect, Projectable, Decision
  <2>5. Projection(facts', authority') =
          IF g.scope = "consolidated"
            THEN [Projection(facts, authority) EXCEPT ![g.metric] = g.value]
            ELSE Projection(facts, authority)
    BY <1>1, <1>2, <2>1, <2>2, <2>3, <2>4, TrustSetsCell
  <2>6. \A h \in FactKeys : h.scope # g.scope => facts'[h].status = facts[h].status
    BY <2>1, <2>3 DEF SameKey
  <2>7. g.scope = "consolidated" => row BY <1>14 DEF ReviewCorrect, Projectable
  <2> QED BY <2>1, <2>2, <2>4, <2>5, <2>6, <2>7, ReviewKeepsRow
<1>15. ASSUME NEW f \in FactKeys, NEW status \in {"VALIDATED", "REJECTED"},
              ReviewOffline(f, status)
       PROVE  Kept
  <2>1. f.source \in CurrentSources /\ batch.at # "read"
    BY <1>15 DEF ReviewOffline, Undisturbed
  <2>2. /\ \A h \in FactKeys \ {f} : facts'[h] = facts[h]
        /\ facts'[f].status = status
    BY <1>1, <1>15 DEF ReviewOffline, Display, TypeOK, FactRow
  <2> QED BY <1>11, <1>15, <2>1, <2>2 DEF ReviewOffline
<1>16. CASE WebReview
  BY <1>1, <1>12, <1>13, <1>14, <1>16 DEF WebReview, TypeOK, Reading
<1>17. CASE UNCHANGED vars
  BY <1>1, <1>17 DEF vars, ProjectionIsTrusted, RowBeforeTrust, ReadIsFresh
<1> QED BY <1>3, <1>5, <1>6, <1>7, <1>8, <1>9, <1>10, <1>15, <1>16, <1>17 DEF Next, Batch

\* When corrections keep metric and scope and nobody writes inside a refresh, the
\* wide row always shows exactly the trusted facts, offline reviews included.
THEOREM RowShowsTrustedFacts ==
  ASSUME CorrectionsMove = FALSE, BatchInterleaves = FALSE
  PROVE  Spec => []ProjectionIsTrusted
<1>1. Init => ProjectionIsTrusted /\ RowBeforeTrust /\ ReadIsFresh
  BY DEF Init, ProjectionIsTrusted, RowBeforeTrust, ReadIsFresh, AbsentFact, IdleBatch
<1>2. ProjectionInv /\ [Next]_vars => ProjectionIsTrusted' /\ RowBeforeTrust' /\ ReadIsFresh'
  BY ProjectionInvStep
<1> QED BY <1>1, <1>2, AuthorityInvCorrect, TrustIsUnambiguous, PTL DEF Spec, ProjectionInv
=============================================================================
