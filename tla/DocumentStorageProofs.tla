------------------------ MODULE DocumentStorageProofs ------------------------
(***************************************************************************)
(* Proofs about DocumentStorage.                                           *)
(*                                                                         *)
(* LinkInv says what an import leaves behind for reviews and evidence: it  *)
(* holds however many imports overlap.  FileInv says that what an import   *)
(* may still remove has no row yet; it is inductive only when imports do   *)
(* not overlap, which is the hypothesis of RowsKeepTheirFiles.             *)
(***************************************************************************)
EXTENDS DocumentStorage, TLAPS

\* What imports, reviews and batch runs write on rows, links and facts.
linkVars == <<documents, current, linked, facts, fresh>>

\* A fact that does not exist yet has no document.
AbsentIsUnlinked ==
  \A f \in Facts : facts[f].status = "ABSENT" => ~facts[f].linked

\* A linked fact's source has a row: it was written in the same transaction.
LinkedHasRow ==
  \A f \in Facts : facts[f].linked => documents[SourceOf[f]] # "NONE"

LinkInv ==
  /\ StorageTypeOK
  /\ AbsentIsUnlinked
  /\ LinkedHasRow
  /\ EvidenceFindsItsSource
  /\ ImportIsRepeatable
  /\ CompletedIsReviewed

-----------------------------------------------------------------------------
(* Types.                                                                  *)

LEMMA InitTypes == Init => StorageTypeOK
  BY StorageAssumption
  DEF Init, StorageTypeOK, Documents, Contents, FactStatuses, UploadPoints, Import, IdleImport,
      ImportPoints

LEMMA IdleIsImport == IdleImport \in Import
  BY DEF IdleImport, Import, ImportPoints

\* Whatever StatusFor answers is a status of a row.
LEMMA StatusIsKnown ==
  ASSUME NEW F
  PROVE  StatusFor(F) \in {"NEEDS_REVIEW", "COMPLETED"}
  BY DEF StatusFor

LEMMA ImportTypes ==
  ASSUME StorageTypeOK, NEW i \in Importers,
         \/ BuildPlans(i) \/ ImportFails(i) \/ ImportKilled(i) \/ RegisterPlans(i)
         \/ \E s \in Sources : Materialize(i, s) \/ FinishCopy(i, s) \/ RejectCopy(i, s)
  PROVE  StorageTypeOK'
<1>1. /\ dataset \in [Sources -> Contents \ {0}]
      /\ files \in [Documents -> Contents]
      /\ hardlinks \subseteq Sources
      /\ documents \in [Documents -> {"NONE", "STORED", "NEEDS_REVIEW", "COMPLETED"}]
      /\ current \subseteq Sources /\ linked \subseteq Sources /\ fresh \subseteq Sources
      /\ facts \in [Facts -> [status : FactStatuses, linked : BOOLEAN]]
      /\ importers \in [Importers -> Import]
      /\ \A j \in Importers : importers[j].at = "idle" => importers[j] = IdleImport
      /\ uploads \in [Uploads -> UploadPoints]
      /\ importers[i] \in Import
  BY DEF StorageTypeOK
<1>2. 0 \in Contents /\ 1 \in Contents
  BY DEF Contents
<1>3. /\ \A import \in Import : import.at # "idle" =>
           [importers EXCEPT ![i] = import] \in [Importers -> Import]
      /\ [importers EXCEPT ![i] = IdleImport] \in [Importers -> Import]
  BY <1>1, IdleIsImport
<1>4. ASSUME \/ \E import \in Import : import.at # "idle" /\ importers' = [importers EXCEPT ![i] = import]
             \/ importers' = [importers EXCEPT ![i] = IdleImport]
      PROVE  /\ importers' \in [Importers -> Import]
             /\ \A j \in Importers : importers'[j].at = "idle" => importers'[j] = IdleImport
  BY <1>1, <1>3, <1>4
<1>5. CASE BuildPlans(i)
  <2>1. [IdleImport EXCEPT !.at = "materializing", !.plan = current, !.left = current] \in Import
    BY <1>1 DEF IdleImport, Import, ImportPoints
  <2>2. QED
    BY <1>1, <1>4, <1>5, <2>1 DEF BuildPlans, StorageTypeOK, IdleImport
<1>6. CASE ImportFails(i)
  BY <1>1, <1>2, <1>4, <1>6 DEF ImportFails, StorageTypeOK
<1>7. CASE ImportKilled(i)
  BY <1>1, <1>4, <1>7 DEF ImportKilled, StorageTypeOK
<1>8. CASE RegisterPlans(i)
  <2>1. facts' \in [Facts -> [status : FactStatuses, linked : BOOLEAN]]
    BY <1>1, <1>8 DEF RegisterPlans, LinkedFacts
  <2>2. documents' \in [Documents -> {"NONE", "STORED", "NEEDS_REVIEW", "COMPLETED"}]
    BY <1>1, <1>8, StatusIsKnown DEF RegisterPlans
  <2>3. QED
    BY <1>1, <1>4, <1>8, <2>1, <2>2 DEF RegisterPlans, StorageTypeOK
<1>9. ASSUME NEW s \in Sources, Materialize(i, s)
      PROVE  StorageTypeOK'
  <2>1. PICK import \in Import : /\ import.at # "idle"
                                 /\ importers' = [importers EXCEPT ![i] = import]
    <3>1. /\ [importers[i] EXCEPT !.left = @ \ {s}] \in Import
          /\ [importers[i] EXCEPT !.at = "copying", !.copies = {s}] \in Import
          /\ [importers[i] EXCEPT !.left = @ \ {s}, !.created = @ \cup {s}] \in Import
      BY <1>1 DEF Import, ImportPoints
    <3>2. \/ importers' = [importers EXCEPT ![i] = [importers[i] EXCEPT !.left = @ \ {s}]]
          \/ importers' = [importers EXCEPT ![i] = [importers[i] EXCEPT !.at = "copying", !.copies = {s}]]
          \/ importers' = [importers EXCEPT ![i] =
                             [importers[i] EXCEPT !.left = @ \ {s}, !.created = @ \cup {s}]]
      BY <1>1, <1>9 DEF Materialize, Import
    <3>3. importers[i].at = "materializing"
      BY <1>9 DEF Materialize
    <3>4. QED
      BY <1>1, <3>1, <3>2, <3>3 DEF Import
  <2>2. /\ files' \in [Documents -> Contents] /\ hardlinks' \subseteq Sources
        /\ dataset' = dataset /\ documents' = documents /\ current' = current
        /\ linked' = linked /\ facts' = facts /\ uploads' = uploads /\ fresh' = fresh
    BY <1>1, <1>2, <1>9 DEF Materialize
  <2>3. QED
    BY <1>1, <1>4, <2>1, <2>2 DEF StorageTypeOK
<1>10. ASSUME NEW s \in Sources, FinishCopy(i, s)
       PROVE  StorageTypeOK'
  <2>1. PICK import \in Import : /\ import.at # "idle"
                                 /\ importers' = [importers EXCEPT ![i] = import]
    <3>1. [importers[i] EXCEPT !.at = "materializing", !.copies = {}, !.left = @ \ {s},
                               !.created = @ \cup {s}] \in Import
      BY <1>1 DEF Import, ImportPoints
    <3>2. importers' = [importers EXCEPT ![i] =
                          [importers[i] EXCEPT !.at = "materializing", !.copies = {},
                             !.left = @ \ {s}, !.created = @ \cup {s}]]
      BY <1>1, <1>10 DEF FinishCopy, Import
    <3>3. QED
      BY <1>1, <3>1, <3>2 DEF Import
  <2>2. QED
    BY <1>1, <1>2, <1>4, <1>10, <2>1 DEF FinishCopy, StorageTypeOK
<1>11. ASSUME NEW s \in Sources, RejectCopy(i, s)
       PROVE  StorageTypeOK'
  BY <1>1, <1>2, <1>4, <1>11 DEF RejectCopy, StorageTypeOK
<1>12. QED
  BY <1>5, <1>6, <1>7, <1>8, <1>9, <1>10, <1>11

LEMMA OtherTypes ==
  ASSUME StorageTypeOK,
         \/ \E S \in SUBSET Sources : BatchReconcile(S)
         \/ \E f \in Facts : BatchUpsert(f) \/ ReviewFact(f) \/ OfflineReview(f)
         \/ \E s \in Sources : SourceChanges(s)
         \/ \E u \in Uploads : StorePdf(u) \/ RegisterUpload(u) \/ RegisterFails(u) \/ AnswerUpload(u)
  PROVE  StorageTypeOK'
<1> USE DEF StorageTypeOK, Contents
<1>1. ASSUME NEW S \in SUBSET Sources, BatchReconcile(S)
      PROVE  StorageTypeOK'
  BY <1>1 DEF BatchReconcile
<1>2. ASSUME NEW f \in Facts, NEW status \in FactStatuses
      PROVE  [facts EXCEPT ![f].status = status]
               \in [Facts -> [status : FactStatuses, linked : BOOLEAN]]
  OBVIOUS
<1>3. ASSUME NEW f \in Facts, BatchUpsert(f)
      PROVE  StorageTypeOK'
  <2>1. facts' \in [Facts -> [status : FactStatuses, linked : BOOLEAN]]
    BY <1>2, <1>3 DEF BatchUpsert, FactStatuses
  <2>2. QED
    BY <1>3, <2>1 DEF BatchUpsert
<1>4. ASSUME NEW f \in Facts, ReviewFact(f)
      PROVE  StorageTypeOK'
  <2>1. facts' \in [Facts -> [status : FactStatuses, linked : BOOLEAN]]
    BY <1>2, <1>4 DEF ReviewFact, FactStatuses
  <2>2. documents' \in [Documents -> {"NONE", "STORED", "NEEDS_REVIEW", "COMPLETED"}]
    BY <1>4 DEF ReviewFact
  <2>3. QED
    BY <1>4, <2>1, <2>2 DEF ReviewFact
<1>5. ASSUME NEW f \in Facts, OfflineReview(f)
      PROVE  StorageTypeOK'
  <2>1. facts' \in [Facts -> [status : FactStatuses, linked : BOOLEAN]]
    BY <1>2, <1>5 DEF OfflineReview, FactStatuses
  <2>2. QED
    BY <1>5, <2>1 DEF OfflineReview
<1>6. ASSUME NEW s \in Sources, SourceChanges(s)
      PROVE  StorageTypeOK'
  <2>1. 2 \in Contents /\ 2 \in Contents \ {0}
    OBVIOUS
  <2>2. dataset' \in [Sources -> Contents \ {0}]
    BY <1>6, <2>1 DEF SourceChanges
  <2>3. [files EXCEPT ![s] = 2] \in [Documents -> Contents]
    BY <2>1
  <2>4. files' \in [Documents -> Contents]
    BY <1>6, <2>3 DEF SourceChanges
  <2>5. QED
    BY <1>6, <2>2, <2>4 DEF SourceChanges
<1>7. ASSUME NEW u \in Uploads,
             StorePdf(u) \/ RegisterUpload(u) \/ RegisterFails(u) \/ AnswerUpload(u)
      PROVE  StorageTypeOK'
  BY <1>7 DEF StorePdf, RegisterUpload, RegisterFails, AnswerUpload, UploadTo, UploadPoints
<1>8. QED
  BY <1>1, <1>3, <1>4, <1>5, <1>6, <1>7

LEMMA TypesKept == StorageTypeOK /\ [Next]_vars => StorageTypeOK'
<1>1. CASE Next
  BY <1>1, ImportTypes, OtherTypes DEF Next
<1>2. ASSUME StorageTypeOK, UNCHANGED vars
      PROVE  StorageTypeOK'
  BY <1>2 DEF StorageTypeOK, vars
<1>3. QED
  BY <1>1, <1>2

\* Every variable keeps the values the code can give it.
THEOREM StorageTypeCorrect == Spec => []StorageTypeOK
  BY InitTypes, TypesKept, PTL DEF Spec

-----------------------------------------------------------------------------
(* Links: what imports leave for reviewers and for the evidence check.     *)

LEMMA InitLinks == Init => LinkInv
<1> SUFFICES ASSUME Init
             PROVE  LinkInv
  OBVIOUS
<1>1. /\ fresh = {}
      /\ \A f \in Facts : ~facts[f].linked
      /\ \A s \in Sources : documents[s] # "COMPLETED"
  BY DEF Init, Documents
<1>2. AbsentIsUnlinked /\ LinkedHasRow /\ CompletedIsReviewed
  BY <1>1 DEF AbsentIsUnlinked, LinkedHasRow, CompletedIsReviewed
<1>3. EvidenceFindsItsSource /\ ImportIsRepeatable
  BY <1>1 DEF EvidenceFindsItsSource, ImportIsRepeatable
<1>4. QED
  BY <1>2, <1>3, InitTypes DEF LinkInv

\* Steps that write none of the variables LinkInv speaks of.
LEMMA LinksUntouched ==
  ASSUME LinkInv, StorageTypeOK', UNCHANGED linkVars
  PROVE  LinkInv'
<1>1. \A s \in Sources : FactsOf(s)' = FactsOf(s)
  BY DEF linkVars, FactsOf
<1>2. \A s \in Sources : Accepts(s)' = Accepts(s)
  BY <1>1 DEF linkVars, Accepts, StatusFor, Pending
<1>3. /\ fresh \subseteq Sources
      /\ AbsentIsUnlinked /\ LinkedHasRow /\ EvidenceFindsItsSource /\ ImportIsRepeatable
      /\ CompletedIsReviewed
  BY DEF LinkInv, StorageTypeOK
<1>4. AbsentIsUnlinked' /\ LinkedHasRow'
  BY <1>3 DEF linkVars, AbsentIsUnlinked, LinkedHasRow
<1>5. EvidenceFindsItsSource' /\ ImportIsRepeatable'
  BY <1>1, <1>2, <1>3 DEF linkVars, EvidenceFindsItsSource, ImportIsRepeatable
<1>6. CompletedIsReviewed'
  BY <1>1, <1>3 DEF linkVars, CompletedIsReviewed
<1>7. QED
  BY <1>4, <1>5, <1>6 DEF LinkInv

\* An import links what it accepts, and accepts no COMPLETED document with a
\* fact left to review.
LEMMA RegisterPlansLinks ==
  ASSUME LinkInv, StorageTypeOK', NEW i \in Importers, RegisterPlans(i)
  PROVE  LinkInv'
<1>1. /\ StorageTypeOK /\ AbsentIsUnlinked /\ LinkedHasRow /\ EvidenceFindsItsSource
      /\ ImportIsRepeatable /\ CompletedIsReviewed
      /\ current \subseteq Sources /\ fresh \subseteq Sources /\ current' = current
      /\ \A s \in current : Accepts(s)
      /\ linked' = linked \cup current /\ fresh' = fresh \cup current
  BY DEF LinkInv, StorageTypeOK, RegisterPlans
<1>2. \A f \in Facts :
        /\ facts'[f].status = facts[f].status
        /\ facts'[f].linked <=>
             \/ facts[f].linked
             \/ SourceOf[f] \in current /\ facts[f].status # "ABSENT"
  <2>1. facts' = LinkedFacts
    BY DEF RegisterPlans
  <2>2. facts \in [Facts -> [status : FactStatuses, linked : BOOLEAN]]
    BY <1>1 DEF StorageTypeOK
  <2>3. QED
    BY <2>1, <2>2 DEF LinkedFacts, FactsOf
<1>3. \A s \in Sources : FactsOf(s)' = FactsOf(s)
  BY <1>2 DEF FactsOf
<1>4. \A s \in Sources : StatusFor(FactsOf(s))' = StatusFor(FactsOf(s))
  BY <1>2, <1>3 DEF StatusFor, Pending, FactsOf
<1>5. \A s \in Sources :
        documents'[s] = IF s \in current /\ documents[s] = "NONE"
                          THEN StatusFor(FactsOf(s)) ELSE documents[s]
  BY DEF RegisterPlans, Documents
<1>6. AbsentIsUnlinked'
  BY <1>1, <1>2 DEF AbsentIsUnlinked
<1>7. LinkedHasRow'
  <2>1. \A f \in Facts : SourceOf[f] \in Sources
    BY StorageAssumption
  <2>2. QED
    BY <1>1, <1>2, <1>5, <2>1, StatusIsKnown DEF LinkedHasRow
<1>8. EvidenceFindsItsSource'
  BY <1>1, <1>2, <1>3 DEF EvidenceFindsItsSource, FactsOf
<1>9. ImportIsRepeatable'
  <2>1. \A s \in fresh \cup current : Accepts(s) /\ s \in Sources
    BY <1>1 DEF ImportIsRepeatable
  <2>2. QED
    BY <1>1, <1>3, <1>4, <1>5, <2>1 DEF ImportIsRepeatable, Accepts
<1>10. CompletedIsReviewed'
  <2>1. ASSUME NEW s \in Sources, documents'[s] = "COMPLETED", NEW f \in FactsOf(s),
               facts'[f].linked
        PROVE  facts'[f].status # "NEEDS_REVIEW"
    <3>1. f \in Facts /\ SourceOf[f] = s
      BY DEF FactsOf
    <3>2. CASE s \in current
      <4>1. StatusFor(FactsOf(s)) = "COMPLETED"
        BY <1>1, <1>5, <2>1, <3>2 DEF Accepts
      <4>2. QED
        BY <1>2, <2>1, <3>1, <4>1 DEF StatusFor, Pending
    <3>3. CASE s \notin current
      BY <1>1, <1>2, <1>5, <2>1, <3>1, <3>3 DEF CompletedIsReviewed
    <3>4. QED
      BY <3>2, <3>3
  <2>2. QED
    BY <1>3, <2>1 DEF CompletedIsReviewed
<1>11. QED
  BY <1>6, <1>7, <1>8, <1>9, <1>10 DEF LinkInv

\* A decision computes the document's status from the facts linked to it, which
\* are all facts of its source as long as the source is fresh.
LEMMA ReviewFactLinks ==
  ASSUME LinkInv, StorageTypeOK', NEW f \in Facts, ReviewFact(f)
  PROVE  LinkInv'
<1>1. /\ StorageTypeOK /\ AbsentIsUnlinked /\ LinkedHasRow /\ EvidenceFindsItsSource
      /\ ImportIsRepeatable /\ CompletedIsReviewed
      /\ fresh \subseteq Sources /\ SourceOf[f] \in Sources
      /\ facts[f].linked /\ facts[f].status # "ABSENT"
      /\ linked' = linked /\ fresh' = fresh /\ current' = current
  BY StorageAssumption DEF LinkInv, StorageTypeOK, ReviewFact
<1>2. \A g \in Facts :
        /\ facts'[g].linked = facts[g].linked
        /\ facts'[g].status = IF g = f THEN "DECIDED" ELSE facts[g].status
  BY <1>1 DEF StorageTypeOK, ReviewFact
<1>3. \A s \in Sources : FactsOf(s)' = FactsOf(s)
  BY <1>1, <1>2 DEF FactsOf
<1>4. \A s \in Sources :
        documents'[s] =
          IF s # SourceOf[f] THEN documents[s]
          ELSE IF \E g \in Facts : SourceOf[g] = s /\ facts'[g].linked
                                   /\ facts'[g].status = "NEEDS_REVIEW"
                 THEN "NEEDS_REVIEW" ELSE "COMPLETED"
  BY <1>1 DEF StorageTypeOK, ReviewFact, Documents
<1>5. AbsentIsUnlinked' /\ EvidenceFindsItsSource'
  BY <1>1, <1>2, <1>3 DEF AbsentIsUnlinked, EvidenceFindsItsSource, FactsOf
<1>6. LinkedHasRow'
  <2>1. \A g \in Facts : SourceOf[g] \in Sources
    BY StorageAssumption
  <2>2. QED
    BY <1>1, <1>2, <1>4, <2>1 DEF LinkedHasRow
<1>7. ImportIsRepeatable'
  <2>1. ASSUME NEW s \in fresh
        PROVE  Accepts(s)'
    <3>1. s \in Sources /\ Accepts(s) /\ \A g \in FactsOf(s) : facts[g].linked
      BY <1>1 DEF ImportIsRepeatable, EvidenceFindsItsSource
    <3>2. CASE s = SourceOf[f]
      <4>1. (\E g \in Facts : SourceOf[g] = s /\ facts'[g].linked
                              /\ facts'[g].status = "NEEDS_REVIEW")
              <=> Pending(FactsOf(s))'
        BY <1>2, <1>3, <3>1 DEF Pending, FactsOf
      <4>2. documents'[s] = StatusFor(FactsOf(s))'
        BY <1>4, <3>1, <3>2, <4>1 DEF StatusFor
      <4>3. QED
        BY <1>3, <3>1, <4>2 DEF Accepts
    <3>3. CASE s # SourceOf[f]
      <4>1. \A g \in FactsOf(s) : facts'[g].status = facts[g].status
        BY <1>2, <3>3 DEF FactsOf
      <4>2. StatusFor(FactsOf(s))' = StatusFor(FactsOf(s))
        BY <1>3, <3>1, <4>1 DEF StatusFor, Pending
      <4>3. QED
        BY <1>3, <1>4, <3>1, <3>3, <4>2 DEF Accepts
    <3>4. QED
      BY <3>2, <3>3
  <2>2. QED
    BY <1>1, <2>1 DEF ImportIsRepeatable
<1>8. CompletedIsReviewed'
  BY <1>1, <1>2, <1>3, <1>4 DEF CompletedIsReviewed, FactsOf
<1>9. QED
  BY <1>5, <1>6, <1>7, <1>8 DEF LinkInv

\* Reconciling, upserting and offline reviewing take the sources they write out
\* of fresh; they touch no row.
LEMMA BatchWritesLinks ==
  ASSUME LinkInv, StorageTypeOK',
         \/ \E S \in SUBSET Sources : BatchReconcile(S)
         \/ \E f \in Facts : BatchUpsert(f) \/ OfflineReview(f)
  PROVE  LinkInv'
<1>1. /\ StorageTypeOK /\ AbsentIsUnlinked /\ LinkedHasRow /\ EvidenceFindsItsSource
      /\ ImportIsRepeatable /\ CompletedIsReviewed
      /\ fresh \subseteq Sources
      /\ documents' = documents
  BY DEF LinkInv, StorageTypeOK, BatchReconcile, BatchUpsert, OfflineReview
<1>2. ASSUME NEW S \in SUBSET Sources, BatchReconcile(S)
      PROVE  LinkInv'
  <2>1. facts' = facts /\ fresh' \subseteq fresh \ S /\ linked' = linked \ S
    BY <1>2 DEF BatchReconcile
  <2>2. \A s \in Sources : FactsOf(s)' = FactsOf(s) /\ Accepts(s)' = Accepts(s)
    BY <1>1, <2>1 DEF FactsOf, Accepts, StatusFor, Pending
  <2>3. AbsentIsUnlinked' /\ LinkedHasRow' /\ CompletedIsReviewed'
    BY <1>1, <2>1, <2>2 DEF AbsentIsUnlinked, LinkedHasRow, CompletedIsReviewed
  <2>4. EvidenceFindsItsSource' /\ ImportIsRepeatable'
    BY <1>1, <2>1, <2>2 DEF EvidenceFindsItsSource, ImportIsRepeatable
  <2>5. QED
    BY <2>3, <2>4 DEF LinkInv
<1>3. ASSUME NEW f \in Facts, BatchUpsert(f) \/ OfflineReview(f)
      PROVE  LinkInv'
  <2>1. /\ fresh' = fresh \ {SourceOf[f]} /\ linked' = linked
        /\ \A g \in Facts : /\ facts'[g].linked = facts[g].linked
                            /\ g # f => facts'[g].status = facts[g].status
        /\ facts'[f].status # "ABSENT"
        /\ facts'[f].status = "NEEDS_REVIEW" => facts[f].status = "ABSENT"
    BY <1>1, <1>3 DEF StorageTypeOK, BatchUpsert, OfflineReview
  <2>2. \A s \in fresh' : s \in Sources /\ s # SourceOf[f] /\ FactsOf(s)' = FactsOf(s)
    BY <1>1, <2>1 DEF FactsOf
  <2>3. \A s \in fresh' : \A g \in FactsOf(s) : facts'[g].status = facts[g].status
    BY <2>1, <2>2 DEF FactsOf
  <2>4. \A s \in fresh' : Accepts(s)' = Accepts(s)
    BY <1>1, <2>2, <2>3 DEF Accepts, StatusFor, Pending
  <2>5. AbsentIsUnlinked' /\ LinkedHasRow'
    BY <1>1, <2>1 DEF AbsentIsUnlinked, LinkedHasRow
  <2>6. EvidenceFindsItsSource' /\ ImportIsRepeatable'
    BY <1>1, <2>1, <2>2, <2>4 DEF EvidenceFindsItsSource, ImportIsRepeatable, FactsOf
  <2>7. CompletedIsReviewed'
    BY <1>1, <2>1 DEF CompletedIsReviewed, AbsentIsUnlinked, FactsOf
  <2>8. QED
    BY <2>5, <2>6, <2>7 DEF LinkInv
<1>4. QED
  BY <1>2, <1>3

\* A committed upload has a row of its own.
LEMMA RegisterUploadLinks ==
  ASSUME LinkInv, StorageTypeOK', NEW u \in Uploads, RegisterUpload(u)
  PROVE  LinkInv'
<1>1. /\ StorageTypeOK /\ AbsentIsUnlinked /\ LinkedHasRow /\ EvidenceFindsItsSource
      /\ ImportIsRepeatable /\ CompletedIsReviewed
      /\ fresh \subseteq Sources
      /\ linked' = linked /\ fresh' = fresh /\ facts' = facts
  BY DEF LinkInv, StorageTypeOK, RegisterUpload
<1>2. \A s \in Sources : documents'[s] = documents[s]
  BY <1>1, StorageAssumption DEF StorageTypeOK, RegisterUpload, Documents
<1>3. \A s \in Sources : FactsOf(s)' = FactsOf(s) /\ Accepts(s)' = Accepts(s)
  BY <1>1, <1>2 DEF FactsOf, Accepts, StatusFor, Pending
<1>4. \A f \in Facts : SourceOf[f] \in Sources
  BY StorageAssumption
<1>5. AbsentIsUnlinked' /\ LinkedHasRow' /\ CompletedIsReviewed'
  BY <1>1, <1>2, <1>3, <1>4 DEF AbsentIsUnlinked, LinkedHasRow, CompletedIsReviewed
<1>6. EvidenceFindsItsSource' /\ ImportIsRepeatable'
  BY <1>1, <1>3 DEF EvidenceFindsItsSource, ImportIsRepeatable
<1>7. QED
  BY <1>5, <1>6 DEF LinkInv

LEMMA LinksKept == LinkInv /\ [Next]_vars => LinkInv'
<1> SUFFICES ASSUME LinkInv, [Next]_vars
             PROVE  LinkInv'
  OBVIOUS
<1>1. StorageTypeOK'
  BY TypesKept DEF LinkInv
<1>2. ASSUME NEW i \in Importers,
             \/ BuildPlans(i) \/ ImportFails(i) \/ ImportKilled(i)
             \/ \E s \in Sources : Materialize(i, s) \/ FinishCopy(i, s) \/ RejectCopy(i, s)
      PROVE  UNCHANGED linkVars
  BY <1>2 DEF BuildPlans, ImportFails, ImportKilled, Materialize, FinishCopy, RejectCopy, linkVars
<1>3. ASSUME \/ \E s \in Sources : SourceChanges(s)
             \/ \E u \in Uploads : StorePdf(u) \/ RegisterFails(u) \/ AnswerUpload(u)
      PROVE  UNCHANGED linkVars
  BY <1>3 DEF SourceChanges, StorePdf, RegisterFails, AnswerUpload, linkVars
<1>4. CASE UNCHANGED vars
  BY <1>1, <1>4, LinksUntouched DEF vars, linkVars
<1>5. CASE Next
  BY <1>1, <1>2, <1>3, <1>5, LinksUntouched, RegisterPlansLinks, ReviewFactLinks,
     BatchWritesLinks, RegisterUploadLinks DEF Next
<1>6. QED
  BY <1>4, <1>5

LEMMA LinksHold == Spec => []LinkInv
  BY InitLinks, LinksKept, PTL DEF Spec

\* The evidence check of an answer that cites a freshly imported fact finds its
\* source, and the fact can be reviewed, however many imports ran and failed.
THEOREM ImportedFactsAreLinked == Spec => []EvidenceFindsItsSource
<1>1. LinkInv => EvidenceFindsItsSource
  BY DEF LinkInv
<1>2. QED
  BY <1>1, LinksHold, PTL

\* An unchanged baseline can be imported again at every stage of its review.
THEOREM ImportsRepeat == Spec => []ImportIsRepeatable
<1>1. LinkInv => ImportIsRepeatable
  BY DEF LinkInv
<1>2. QED
  BY <1>1, LinksHold, PTL

\* A COMPLETED document has no linked fact left to review.
THEOREM CompletedHasNothingPending == Spec => []CompletedIsReviewed
<1>1. LinkInv => CompletedIsReviewed
  BY DEF LinkInv
<1>2. QED
  BY <1>1, LinksHold, PTL

-----------------------------------------------------------------------------
(* Files.                                                                  *)

\* A row's file is there, or it is a hard link whose source was overwritten.
FileKept(s) == files[s] = 1 \/ (s \in hardlinks /\ dataset[s] # 1)

\* A hard link has the content of its source.
LinksFollow == \A s \in hardlinks : files[s] = dataset[s]

\* What a run may still remove, or is copying over, has no row.
UnregisteredIsFree ==
  \A i \in Importers : \A s \in importers[i].created \cup importers[i].copies :
    documents[s] = "NONE"

\* What a run has materialized is there when it registers its plan.
PlannedIsThere ==
  \A i \in Importers : \A s \in importers[i].plan \ importers[i].left : FileKept(s)

\* An upload's row follows its file.
UploadsInOrder ==
  \A u \in Uploads :
    /\ uploads[u] = "new" => documents[u] = "NONE"
    /\ uploads[u] = "stored" => documents[u] = "NONE" /\ files[u] = 1

FileInv ==
  /\ LinkInv
  /\ RowHasItsFile
  /\ LinksFollow
  /\ UnregisteredIsFree
  /\ PlannedIsThere
  /\ UploadsInOrder

\* No two imports run at once.
OneImporter == \A i, j \in Importers : i = j

LEMMA InitFiles == Init => FileInv
<1> SUFFICES ASSUME Init
             PROVE  FileInv
  OBVIOUS
<1>1. /\ \A d \in Documents : documents[d] = "NONE"
      /\ hardlinks = {}
      /\ \A i \in Importers : importers[i].created = {} /\ importers[i].copies = {}
                              /\ importers[i].plan = {}
      /\ \A u \in Uploads : uploads[u] = "new"
      /\ Uploads \subseteq Documents
  BY DEF Init, IdleImport, Documents
<1>2. QED
  BY <1>1, InitLinks
  DEF FileInv, RowHasItsFile, LinksFollow, UnregisteredIsFree, PlannedIsThere, UploadsInOrder

\* Steps that write no file, no import, no upload and no row.
fileVars == <<dataset, files, hardlinks, documents, importers, uploads>>

LEMMA FilesUntouched ==
  ASSUME FileInv, LinkInv', UNCHANGED fileVars
  PROVE  FileInv'
BY DEF fileVars, FileInv, RowHasItsFile, LinksFollow, UnregisteredIsFree, PlannedIsThere,
       UploadsInOrder, FileKept

\* What every step of an import keeps: it writes files of no row but to restore
\* them, and lets go of nothing it has to answer for.
LEMMA ImportKeepsFiles ==
  ASSUME FileInv, LinkInv', OneImporter, NEW i \in Importers,
         UNCHANGED <<dataset, documents, uploads>>,
         \A u \in Uploads : files'[u] = files[u],
         hardlinks' \subseteq Sources,
         \A s \in Sources : documents[s] # "NONE" => FileKept(s)',
         \A s \in hardlinks' : files'[s] = dataset[s],
         \A s \in importers'[i].created \cup importers'[i].copies : documents[s] = "NONE",
         \A s \in importers'[i].plan \ importers'[i].left : FileKept(s)'
  PROVE  FileInv'
<1>1. RowHasItsFile'
  <2>1. \A u \in Uploads : u \notin Sources
    BY StorageAssumption
  <2>2. hardlinks \subseteq Sources
    BY DEF FileInv, LinkInv, StorageTypeOK
  <2>3. ASSUME NEW d \in Documents, documents[d] # "NONE"
        PROVE  \/ files'[d] = 1
               \/ d \in hardlinks' /\ dataset'[d] # 1
               \/ d \in Uploads /\ uploads'[d] = "failed"
    <3>1. CASE d \in Sources
      BY <2>3, <3>1 DEF FileKept
    <3>2. CASE d \in Uploads
      BY <2>1, <2>2, <2>3, <3>2 DEF FileInv, RowHasItsFile
    <3>3. QED
      BY <3>1, <3>2 DEF Documents
  <2>4. QED
    BY <2>3 DEF RowHasItsFile
<1>2. LinksFollow'
  BY DEF LinksFollow
<1>3. UnregisteredIsFree' /\ PlannedIsThere'
  BY DEF OneImporter, UnregisteredIsFree, PlannedIsThere
<1>4. UploadsInOrder'
  BY DEF FileInv, UploadsInOrder
<1>5. QED
  BY <1>1, <1>2, <1>3, <1>4 DEF FileInv

LEMMA ImportFiles ==
  ASSUME FileInv, LinkInv', OneImporter, NEW i \in Importers,
         \/ BuildPlans(i) \/ ImportFails(i) \/ ImportKilled(i)
         \/ \E s \in Sources : Materialize(i, s) \/ FinishCopy(i, s) \/ RejectCopy(i, s)
  PROVE  FileInv'
<1>1. /\ dataset \in [Sources -> Contents \ {0}] /\ files \in [Documents -> Contents]
      /\ hardlinks \subseteq Sources /\ hardlinks' \subseteq Sources
      /\ importers \in [Importers -> Import] /\ importers[i] \in Import
  BY DEF FileInv, LinkInv, StorageTypeOK
<1>2. /\ \A s \in Sources : documents[s] # "NONE" => FileKept(s)
      /\ \A s \in hardlinks : files[s] = dataset[s]
      /\ \A s \in importers[i].created \cup importers[i].copies : documents[s] = "NONE"
      /\ \A s \in importers[i].plan \ importers[i].left : FileKept(s)
  <2>1. \A s \in Sources : s \in Documents /\ s \notin Uploads
    BY StorageAssumption DEF Documents
  <2>2. QED
    BY <2>1 DEF FileInv, RowHasItsFile, LinksFollow, UnregisteredIsFree, PlannedIsThere, FileKept
<1>3. \A u \in Uploads : u \in Documents /\ u \notin Sources
  BY StorageAssumption DEF Documents
<1>4. ASSUME UNCHANGED <<dataset, documents, uploads>>,
             \A u \in Uploads : files'[u] = files[u],
             \A s \in Sources : documents[s] # "NONE" => FileKept(s)',
             \A s \in hardlinks' : files'[s] = dataset[s],
             \A s \in importers'[i].created \cup importers'[i].copies : documents[s] = "NONE",
             \A s \in importers'[i].plan \ importers'[i].left : FileKept(s)'
      PROVE  FileInv'
  BY <1>1, <1>4, ImportKeepsFiles
<1>5. /\ IdleImport.created = {} /\ IdleImport.copies = {} /\ IdleImport.plan = {}
      /\ importers' = [importers EXCEPT ![i] = IdleImport] => importers'[i] = IdleImport
  BY <1>1 DEF IdleImport
<1>6. CASE BuildPlans(i)
  <2>1. /\ importers'[i].created = {} /\ importers'[i].copies = {}
        /\ importers'[i].plan = importers'[i].left
        /\ UNCHANGED <<dataset, documents, uploads, files, hardlinks>>
    BY <1>1, <1>6 DEF BuildPlans, IdleImport
  <2>2. QED
    BY <1>2, <1>4, <2>1 DEF FileKept
<1>7. CASE ImportKilled(i)
  BY <1>2, <1>4, <1>5, <1>7 DEF ImportKilled, FileKept
<1>8. ASSUME NEW gone \in SUBSET Sources, UNCHANGED <<dataset, documents, uploads>>,
             files' = [d \in Documents |-> IF d \in gone THEN 0 ELSE files[d]],
             hardlinks' = hardlinks \ gone,
             \A s \in gone : documents[s] = "NONE",
             importers' = [importers EXCEPT ![i] = IdleImport]
      PROVE  FileInv'
  <2>1. \A s \in Sources : s \in Documents /\ (s \notin gone => files'[s] = files[s])
    BY <1>8 DEF Documents
  <2>2. \A u \in Uploads : files'[u] = files[u]
    BY <1>3, <1>8
  <2>3. \A s \in Sources : documents[s] # "NONE" => FileKept(s)'
    BY <1>2, <1>8, <2>1 DEF FileKept
  <2>4. \A s \in hardlinks' : files'[s] = dataset[s]
    BY <1>1, <1>2, <1>8, <2>1
  <2>5. QED
    BY <1>4, <1>5, <1>8, <2>2, <2>3, <2>4
<1>9. CASE ImportFails(i)
  <2>1. importers[i].created \in SUBSET Sources
    BY <1>1 DEF Import
  <2>2. QED
    BY <1>2, <1>8, <1>9, <2>1 DEF ImportFails
<1>10. ASSUME NEW s \in Sources, RejectCopy(i, s)
       PROVE  FileInv'
  <2>1. /\ importers[i].created \cup {s} \in SUBSET Sources
        /\ \A t \in importers[i].created \cup {s} : documents[t] = "NONE"
    BY <1>1, <1>2, <1>10 DEF Import, RejectCopy
  <2>2. QED
    BY <1>8, <1>10, <2>1 DEF RejectCopy
<1>11. ASSUME NEW s \in Sources, Materialize(i, s)
       PROVE  FileInv'
  <2>1. UNCHANGED <<dataset, documents, uploads>> /\ s \in Documents
    BY <1>11 DEF Materialize, Documents
  <2>2. files[s] = 0 => documents[s] = "NONE" /\ s \notin hardlinks
    BY <1>1, <1>2 DEF FileKept, Contents
  <2>3. CASE /\ files[s] = 1
             /\ importers' = [importers EXCEPT ![i].left = @ \ {s}]
             /\ UNCHANGED <<files, hardlinks>>
    <3>1. /\ importers'[i].created = importers[i].created
          /\ importers'[i].copies = importers[i].copies
          /\ importers'[i].plan = importers[i].plan
          /\ importers'[i].left = importers[i].left \ {s}
      BY <1>1, <2>3 DEF Import
    <3>2. QED
      BY <1>2, <1>4, <2>1, <2>3, <3>1 DEF FileKept
  <2>4. CASE /\ files[s] = 0
             /\ importers' = [importers EXCEPT ![i].at = "copying", ![i].copies = {s}]
             /\ UNCHANGED <<files, hardlinks>>
    <3>1. /\ importers'[i].created = importers[i].created
          /\ importers'[i].copies = {s}
          /\ importers'[i].plan = importers[i].plan
          /\ importers'[i].left = importers[i].left
      BY <1>1, <2>4 DEF Import
    <3>2. QED
      BY <1>2, <1>4, <2>1, <2>2, <2>4, <3>1 DEF FileKept
  <2>5. CASE /\ files[s] = 0 /\ dataset[s] = 1
             /\ files' = [files EXCEPT ![s] = 1]
             /\ hardlinks' = hardlinks \cup {s}
             /\ importers' = [importers EXCEPT ![i].left = @ \ {s}, ![i].created = @ \cup {s}]
    <3>1. /\ importers'[i].created = importers[i].created \cup {s}
          /\ importers'[i].copies = importers[i].copies
          /\ importers'[i].plan = importers[i].plan
          /\ importers'[i].left = importers[i].left \ {s}
      BY <1>1, <2>5 DEF Import
    <3>2. /\ files'[s] = 1
          /\ \A t \in Documents : t # s => files'[t] = files[t]
      BY <1>1, <2>1, <2>5
    <3>3. \A t \in Sources : t \in Documents /\ (FileKept(t) => FileKept(t)')
      BY <2>1, <2>5, <3>2 DEF FileKept, Documents
    <3>4. FileKept(s)' /\ \A t \in hardlinks' : files'[t] = dataset[t]
      BY <1>1, <1>2, <2>5, <3>2, <3>3 DEF FileKept
    <3>5. \A u \in Uploads : files'[u] = files[u]
      BY <1>3, <3>2
    <3>6. \A t \in Sources : documents[t] # "NONE" => FileKept(t)'
      BY <1>2, <3>3
    <3>7. \A t \in importers'[i].created \cup importers'[i].copies : documents[t] = "NONE"
      BY <1>2, <2>2, <2>5, <3>1
    <3>8. \A t \in importers'[i].plan \ importers'[i].left : FileKept(t)'
      BY <1>1, <1>2, <3>1, <3>3, <3>4 DEF Import
    <3>9. QED
      BY <1>4, <2>1, <3>4, <3>5, <3>6, <3>7, <3>8
  <2>6. QED
    BY <1>11, <2>3, <2>4, <2>5 DEF Materialize
<1>12. ASSUME NEW s \in Sources, FinishCopy(i, s)
       PROVE  FileInv'
  <2>1. /\ importers'[i].created = importers[i].created \cup {s}
        /\ importers'[i].copies = {}
        /\ importers'[i].plan = importers[i].plan
        /\ importers'[i].left = importers[i].left \ {s}
        /\ s \in importers[i].copies /\ s \in Documents
        /\ UNCHANGED <<dataset, documents, uploads>>
        /\ hardlinks' = hardlinks \ {s}
    BY <1>1, <1>12 DEF FinishCopy, Import, Documents
  <2>2. /\ files'[s] = 1
        /\ \A t \in Documents : t # s => files'[t] = files[t]
    BY <1>1, <1>12, <2>1 DEF FinishCopy
  <2>3. \A t \in Sources : t \in Documents /\ (FileKept(t) => FileKept(t)')
    BY <2>1, <2>2 DEF FileKept, Documents
  <2>4. FileKept(s)' /\ \A t \in hardlinks' : files'[t] = dataset[t]
    BY <1>1, <1>2, <2>1, <2>2, <2>3 DEF FileKept
  <2>5. \A u \in Uploads : files'[u] = files[u]
    BY <1>3, <2>2
  <2>6. \A t \in Sources : documents[t] # "NONE" => FileKept(t)'
    BY <1>2, <2>3
  <2>7. \A t \in importers'[i].created \cup importers'[i].copies : documents[t] = "NONE"
    BY <1>2, <2>1
  <2>8. \A t \in importers'[i].plan \ importers'[i].left : FileKept(t)'
    BY <1>1, <1>2, <2>1, <2>3, <2>4 DEF Import
  <2>9. QED
    BY <1>4, <2>1, <2>4, <2>5, <2>6, <2>7, <2>8
<1>13. QED
  BY <1>6, <1>7, <1>9, <1>10, <1>11, <1>12

\* A plan is registered when all of it is materialized.
LEMMA RegisterPlansFiles ==
  ASSUME FileInv, LinkInv', OneImporter, NEW i \in Importers, RegisterPlans(i)
  PROVE  FileInv'
<1>1. /\ StorageTypeOK
      /\ importers[i].left = {} /\ current = importers[i].plan /\ current \subseteq Sources
      /\ \A s \in current : FileKept(s)
      /\ importers' = [importers EXCEPT ![i] = IdleImport]
      /\ UNCHANGED <<dataset, files, hardlinks, uploads>>
  BY DEF FileInv, LinkInv, StorageTypeOK, PlannedIsThere, RegisterPlans
<1>2. \A d \in Documents : d \notin current => documents'[d] = documents[d]
  BY DEF RegisterPlans
<1>3. \A u \in Uploads : u \in Documents /\ u \notin current
  BY <1>1, StorageAssumption DEF Documents
<1>4. importers'[i] = IdleImport /\ \A j \in Importers : j = i
  BY <1>1 DEF StorageTypeOK, OneImporter
<1>5. RowHasItsFile'
  BY <1>1, <1>2 DEF FileInv, RowHasItsFile, FileKept
<1>6. LinksFollow' /\ UploadsInOrder'
  BY <1>1, <1>2, <1>3 DEF FileInv, LinksFollow, UploadsInOrder
<1>7. UnregisteredIsFree' /\ PlannedIsThere'
  BY <1>4 DEF UnregisteredIsFree, PlannedIsThere, IdleImport
<1>8. QED
  BY <1>5, <1>6, <1>7 DEF FileInv

\* A decision changes the status of a row, and no row that is not there.
LEMMA ReviewFactFiles ==
  ASSUME FileInv, LinkInv', NEW f \in Facts, ReviewFact(f)
  PROVE  FileInv'
<1>1. /\ StorageTypeOK
      /\ documents[SourceOf[f]] # "NONE" /\ SourceOf[f] \in Sources
      /\ UNCHANGED <<dataset, files, hardlinks, importers, uploads>>
  BY StorageAssumption DEF FileInv, LinkInv, LinkedHasRow, ReviewFact
<1>2. \A d \in Documents : documents'[d] = "NONE" <=> documents[d] = "NONE"
  BY <1>1 DEF StorageTypeOK, ReviewFact
<1>3. /\ \A u \in Uploads : u \in Documents
      /\ \A s \in Sources : s \in Documents
      /\ importers \in [Importers -> Import]
  BY <1>1 DEF Documents, StorageTypeOK
<1>4. RowHasItsFile' /\ LinksFollow' /\ UploadsInOrder'
  BY <1>1, <1>2, <1>3 DEF FileInv, RowHasItsFile, LinksFollow, UploadsInOrder
<1>5. \A j \in Importers : importers[j].created \cup importers[j].copies \subseteq Sources
  BY <1>3 DEF Import
<1>6. UnregisteredIsFree' /\ PlannedIsThere'
  BY <1>1, <1>2, <1>3, <1>5 DEF FileInv, UnregisteredIsFree, PlannedIsThere, FileKept
<1>7. QED
  BY <1>4, <1>6 DEF FileInv

\* A source that is overwritten takes its hard link along.
LEMMA SourceChangesFiles ==
  ASSUME FileInv, LinkInv', NEW s \in Sources, SourceChanges(s)
  PROVE  FileInv'
<1>1. /\ StorageTypeOK /\ s \in Documents /\ \A u \in Uploads : u \in Documents /\ u # s
      /\ UNCHANGED <<hardlinks, documents, importers, uploads>>
      /\ dataset[s] = 1
  BY StorageAssumption DEF FileInv, LinkInv, SourceChanges, Documents
<1>2. /\ dataset'[s] = 2
      /\ \A t \in Sources : t # s => dataset'[t] = dataset[t]
      /\ \A d \in Documents : files'[d] = IF d = s /\ s \in hardlinks THEN 2 ELSE files[d]
  BY <1>1 DEF StorageTypeOK, SourceChanges
<1>3. /\ hardlinks \subseteq Sources /\ Sources \subseteq Documents
      /\ \A j \in Importers : importers[j].plan \subseteq Sources
  BY <1>1 DEF StorageTypeOK, Documents, Import
<1>4. \A t \in Sources : FileKept(t) => FileKept(t)'
  BY <1>1, <1>2, <1>3 DEF FileKept
<1>5. RowHasItsFile' /\ LinksFollow' /\ UploadsInOrder'
  BY <1>1, <1>2, <1>3 DEF FileInv, RowHasItsFile, LinksFollow, UploadsInOrder
<1>6. UnregisteredIsFree' /\ PlannedIsThere'
  BY <1>1, <1>3, <1>4 DEF FileInv, UnregisteredIsFree, PlannedIsThere
<1>7. QED
  BY <1>5, <1>6 DEF FileInv

LEMMA UploadFiles ==
  ASSUME FileInv, LinkInv', NEW u \in Uploads,
         StorePdf(u) \/ RegisterUpload(u) \/ RegisterFails(u) \/ AnswerUpload(u)
  PROVE  FileInv'
<1>1. /\ StorageTypeOK /\ u \in Documents
      /\ \A s \in Sources : s \in Documents /\ s # u
      /\ UNCHANGED <<dataset, hardlinks, importers>>
      /\ hardlinks \subseteq Sources
  BY StorageAssumption
  DEF FileInv, LinkInv, StorageTypeOK, Documents, StorePdf, RegisterUpload, RegisterFails, AnswerUpload
<1>2. \A d \in Documents : d # u => files'[d] = files[d] /\ documents'[d] = documents[d]
  BY <1>1 DEF StorageTypeOK, StorePdf, RegisterUpload, RegisterFails, AnswerUpload
<1>3. \A v \in Uploads : v \in Documents /\ (v # u => uploads'[v] = uploads[v])
  BY <1>1
  DEF StorageTypeOK, Documents, StorePdf, RegisterUpload, RegisterFails, AnswerUpload, UploadTo
<1>4. /\ documents'[u] # "NONE" => files'[u] = 1 \/ uploads'[u] = "failed"
      /\ uploads'[u] = "new" => documents'[u] = "NONE"
      /\ uploads'[u] = "stored" => documents'[u] = "NONE" /\ files'[u] = 1
  <2>1. /\ uploads[u] = "new" => documents[u] = "NONE"
        /\ uploads[u] = "stored" => documents[u] = "NONE" /\ files[u] = 1
        /\ documents[u] # "NONE" => files[u] = 1 \/ uploads[u] = "failed"
    BY <1>1 DEF FileInv, UploadsInOrder, RowHasItsFile
  <2>2. QED
    BY <1>1, <2>1
    DEF StorageTypeOK, StorePdf, RegisterUpload, RegisterFails, AnswerUpload, UploadTo
<1>5. \A s \in Sources : /\ FileKept(s) => FileKept(s)'
                         /\ documents'[s] = documents[s] /\ files'[s] = files[s]
  BY <1>1, <1>2 DEF FileKept
<1>6. RowHasItsFile'
  BY <1>1, <1>2, <1>3, <1>4 DEF FileInv, RowHasItsFile
<1>7. LinksFollow' /\ UploadsInOrder'
  BY <1>1, <1>2, <1>3, <1>4, <1>5 DEF FileInv, LinksFollow, UploadsInOrder
<1>8. \A j \in Importers : /\ importers[j].plan \subseteq Sources
                           /\ importers[j].created \cup importers[j].copies \subseteq Sources
  BY <1>1 DEF StorageTypeOK, Import
<1>9. UnregisteredIsFree' /\ PlannedIsThere'
  BY <1>1, <1>5, <1>8 DEF FileInv, UnregisteredIsFree, PlannedIsThere
<1>10. QED
  BY <1>6, <1>7, <1>9 DEF FileInv

LEMMA FilesKept == OneImporter /\ FileInv /\ [Next]_vars => FileInv'
<1> SUFFICES ASSUME OneImporter, FileInv, [Next]_vars
             PROVE  FileInv'
  OBVIOUS
<1>1. LinkInv'
  BY LinksKept DEF FileInv
<1>2. ASSUME \/ \E S \in SUBSET Sources : BatchReconcile(S)
             \/ \E f \in Facts : BatchUpsert(f) \/ OfflineReview(f)
      PROVE  UNCHANGED fileVars
  BY <1>2 DEF BatchReconcile, BatchUpsert, OfflineReview, fileVars
<1>3. CASE UNCHANGED vars
  BY <1>1, <1>3, FilesUntouched DEF vars, fileVars
<1>4. CASE Next
  BY <1>1, <1>2, <1>4, FilesUntouched, ImportFiles, RegisterPlansFiles, ReviewFactFiles,
     SourceChangesFiles, UploadFiles DEF Next
<1>5. QED
  BY <1>3, <1>4

\* Every row's file is there, whatever import or upload failed, was killed or was
\* repeated, provided no two imports run at once.
THEOREM RowsKeepTheirFiles ==
  ASSUME OneImporter
  PROVE  Spec => []RowHasItsFile
<1>1. FileInv /\ [Next]_vars => FileInv'
  BY FilesKept
<1>2. FileInv => RowHasItsFile
  BY DEF FileInv
<1>3. QED
  BY <1>1, <1>2, InitFiles, PTL DEF Spec

=============================================================================
