------------------------- MODULE LlmExtractionProofs -------------------------
(***************************************************************************)
(* Proofs about LlmExtraction.                                             *)
(*                                                                         *)
(* RunInv says of a run's memory what its stages have established so far:  *)
(* the content it reads is the one it was started for, its fragments lie   *)
(* on the pages of its section, every candidate stands in the text of that *)
(* content and in a cell of its fragment, and only what was recomputed is  *)
(* recommended.  The audit is a copy of a run's memory that was taken when *)
(* the content was compared for the last time.                             *)
(***************************************************************************)
EXTENDS LlmExtraction, TLAPS

-----------------------------------------------------------------------------
(* What a run's memory holds.                                              *)

\* A call never makes more attempts than it is allowed.
CallInv ==
  /\ client \in Call
  /\ client.made <= client.allowed
  /\ client.at = "ready" => client.made < client.allowed

\* The company and the period are named in a content.
Titled(content) == \A t \in Titles : \E r \in Regions : t \in Text[content][r]

\* A candidate stands in its region and in a cell of its fragment.
Evidenced(c, content) ==
  /\ c.fact.value \in Text[content][c.fact.region]
  /\ \E cell \in c.of.cells :
       cell.region = c.fact.region /\ c.fact.value \in cell.values /\ cell.column = "current"

\* The content, the section and the fragments of a run.
ReadsItsContent(r) ==
  /\ r.at \notin {"idle", "hashed"} => r.read = r.hash
  /\ r.at \in {"idle", "hashed", "routing"} => r.section = {} /\ r.fragments = {}
  /\ r.section # {} => Titled(r.read)
  /\ r.at = "layout" => r.left \subseteq r.section
  /\ \A f \in r.fragments : \A cell \in f.cells : PageOf[cell.region] \in r.section

\* Its candidates, and what is stated by the extraction stage.
CandidatesStand(r) ==
  /\ r.at \in {"idle", "hashed", "routing", "research", "layout"} => r.candidates = {}
  /\ \A c \in r.candidates :
       c.of \in r.fragments /\ c.fact \in r.stated /\ Evidenced(c, r.read)
  /\ r.repairing => r.original \cap Facts \subseteq r.stated
  /\ r.at \in {"crosspage", "normalization", "validation", "arbitration", "review", "closing"} =>
       DistinctIdentities(r.candidates)

\* Its recommendations.
RecommendsNormalized(r) ==
  /\ \A c \in r.normalized : c \in r.candidates /\ c.fact \in Convertible
  /\ \A x \in r.recommended : x[2] = "NEEDS_REVIEW" => x[1] \in r.normalized
  /\ r.at \in Stages => r.recommended = {}
  /\ r.at \in {"idle", "hashed"} => r.recommended = {} /\ r.normalized = {}
  /\ r.at = "closing" => ExactPartition(r.recommended, r.candidates)

RunInv ==
  /\ run \in Run
  /\ ReadsItsContent(run)
  /\ CandidatesStand(run)
  /\ RecommendsNormalized(run)

AuditInv ==
  /\ audit \in Audit
  /\ result \in {"none", "returned", "raised"}
  /\ audit.status = "NEEDS_REVIEW" =>
       \A c \in Candidates : <<c, "NEEDS_REVIEW">> \in audit.recommended =>
         /\ Evidenced(c, audit.of)
         /\ PageOf[c.fact.region] \in audit.section
         /\ c.fact \in Convertible
         /\ Titled(audit.of)
  /\ AuditTellsOutcome

LlmInv ==
  /\ CallInv
  /\ client.at # "none" => run.at \in Stages
  /\ file \in Contents
  /\ RunInv
  /\ AuditInv

-----------------------------------------------------------------------------
(* The client.                                                             *)

LEMMA CallKept ==
  ASSUME CallInv, NEW n \in {1, MaxAttempts},
         ClientStep \/ client' = NoCall \/ Invoke(n) \/ UNCHANGED client
  PROVE  CallInv'
<1>1. /\ MaxAttempts \in Nat /\ MaxAttempts >= 1
      /\ client.made \in 0..MaxAttempts /\ client.allowed \in 0..MaxAttempts
      /\ client.made <= client.allowed /\ client \in Call
      /\ client.at = "ready" => client.made < client.allowed
  BY AttemptsAssumption DEF CallInv, Call
<1>2. CASE client' = NoCall
  BY <1>1, <1>2 DEF CallInv, Call, CallPoints, NoCall
<1>3. CASE Invoke(n)
  <2>1. n \in 0..MaxAttempts /\ 0 < n /\ 0 \in 0..MaxAttempts
    BY <1>1
  <2>2. client' = [at |-> "ready", made |-> 0, allowed |-> n]
    BY <1>3 DEF Invoke
  <2>3. QED
    BY <2>1, <2>2 DEF CallInv, Call, CallPoints
<1>4. CASE Send
  <2>1. client.made + 1 <= client.allowed /\ client.made + 1 \in 0..MaxAttempts
    BY <1>1, <1>4 DEF Send
  <2>2. /\ client'.made = client.made + 1 /\ client'.allowed = client.allowed
        /\ client'.at = "sent" /\ client' \in Call
    BY <1>1, <1>4, <2>1 DEF Call, CallPoints, Send
  <2>3. QED
    BY <2>1, <2>2 DEF CallInv
<1>5. CASE TransientError
  <2>1. /\ client'.made = client.made /\ client'.allowed = client.allowed
        /\ client'.at = IF client.made = client.allowed THEN "failed" ELSE "ready"
        /\ client' \in Call
    BY <1>1, <1>5 DEF Call, CallPoints, TransientError
  <2>2. QED
    BY <1>1, <2>1 DEF CallInv
<1>6. CASE PermanentError \/ Respond
  BY <1>1, <1>6 DEF CallInv, Call, CallPoints, PermanentError, Respond
<1>7. CASE UNCHANGED client
  BY <1>7 DEF CallInv
<1>8. QED
  BY <1>2, <1>3, <1>4, <1>5, <1>6, <1>7 DEF ClientStep

-----------------------------------------------------------------------------
(* The run.                                                                *)

LEMMA IdleRunFits ==
  /\ IdleRun \in Run
  /\ ReadsItsContent(IdleRun) /\ CandidatesStand(IdleRun) /\ RecommendsNormalized(IdleRun)
<1>1. 0 \in 0..MaxContent
  BY ExtractionAssumption
<1>2. IdleRun \in Run
  BY <1>1 DEF IdleRun, Run, Points
<1>3. QED
  BY <1>2
  DEF IdleRun, ReadsItsContent, CandidatesStand, RecommendsNormalized, Stages

LEMMA InitFits == Init => LlmInv
<1> SUFFICES ASSUME Init
             PROVE  LlmInv
  OBVIOUS
<1>1. CallInv
  BY AttemptsAssumption DEF Init, CallInv, Call, CallPoints, NoCall
<1>2. RunInv
  BY IdleRunFits DEF Init, RunInv
<1>3. AuditInv
  BY ExtractionAssumption DEF Init, AuditInv, Audit, NoAudit, AuditTellsOutcome
<1>4. QED
  BY <1>1, <1>2, <1>3, ExtractionAssumption DEF Init, LlmInv, Contents, NoCall

\* What leaves a run where it is, or where nothing more is asked of it.
LEMMA RunStays ==
  ASSUME RunInv,
         \/ UNCHANGED run
         \/ run' = IdleRun
         \/ run' = [run EXCEPT !.at = "raising"] /\ run.at \in Stages \cup {"closing"}
  PROVE  RunInv'
<1>1. CASE UNCHANGED run
  BY <1>1 DEF RunInv
<1>2. CASE run' = IdleRun
  BY <1>2, IdleRunFits DEF RunInv
<1>3. CASE run' = [run EXCEPT !.at = "raising"] /\ run.at \in Stages \cup {"closing"}
  <2>1. /\ run' \in Run /\ run'.at = "raising" /\ run.at \notin {"idle", "hashed"}
        /\ run'.read = run.read /\ run'.hash = run.hash /\ run'.section = run.section
        /\ run'.left = run.left /\ run'.fragments = run.fragments
        /\ run'.candidates = run.candidates /\ run'.stated = run.stated
        /\ run'.original = run.original /\ run'.repairing = run.repairing
        /\ run'.normalized = run.normalized /\ run'.recommended = run.recommended
    BY <1>3 DEF RunInv, Run, Points, Stages
  <2>2. ReadsItsContent(run)'
    BY <2>1 DEF RunInv, ReadsItsContent, Titled
  <2>3. CandidatesStand(run)'
    BY <2>1 DEF RunInv, CandidatesStand, Evidenced
  <2>4. RecommendsNormalized(run)'
    BY <2>1 DEF RunInv, RecommendsNormalized, Stages
  <2>5. QED
    BY <2>1, <2>2, <2>3, <2>4 DEF RunInv
<1>4. QED
  BY <1>1, <1>2, <1>3

LEMMA StartRunFits ==
  ASSUME RunInv, file \in Contents, StartRun \/ ReadPages
  PROVE  RunInv'
<1>1. file \in 0..MaxContent /\ run \in Run
  BY ExtractionAssumption DEF Contents, RunInv
<1>2. CASE StartRun
  <2>1. run' = [IdleRun EXCEPT !.at = "hashed", !.hash = file]
    BY <1>2 DEF StartRun
  <2>2. run' \in Run
    BY <1>1, <2>1, IdleRunFits DEF Run, Points
  <2>3. ReadsItsContent(run)' /\ CandidatesStand(run)' /\ RecommendsNormalized(run)'
    BY <2>1 DEF IdleRun, ReadsItsContent, CandidatesStand, RecommendsNormalized, Stages
  <2>4. QED
    BY <2>2, <2>3 DEF RunInv
<1>3. CASE ReadPages /\ file = run.hash
  <2>1. /\ run' = [run EXCEPT !.at = "routing", !.read = file]
        /\ run.at = "hashed"
    BY <1>3 DEF ReadPages
  <2>2. /\ run' \in Run /\ run'.at = "routing" /\ run'.read = run'.hash
        /\ run'.section = run.section /\ run'.fragments = run.fragments
        /\ run'.candidates = run.candidates /\ run'.stated = run.stated
        /\ run'.original = run.original /\ run'.repairing = run.repairing
        /\ run'.normalized = run.normalized /\ run'.recommended = run.recommended
    BY <1>1, <1>3, <2>1 DEF Run, Points, Stages
  <2>3. ReadsItsContent(run)'
    BY <2>1, <2>2 DEF RunInv, ReadsItsContent
  <2>4. CandidatesStand(run)'
    BY <2>1, <2>2 DEF RunInv, CandidatesStand
  <2>5. RecommendsNormalized(run)'
    BY <2>1, <2>2 DEF RunInv, RecommendsNormalized, Stages
  <2>6. QED
    BY <2>2, <2>3, <2>4, <2>5 DEF RunInv
<1>4. CASE ReadPages /\ file # run.hash
  BY <1>4, RunStays DEF ReadPages
<1>5. QED
  BY <1>2, <1>3, <1>4

\* A response that breaks its schema has stated the facts it states.
LEMMA InvalidResponseFits ==
  ASSUME RunInv, NEW payload \in InvalidPayloads, InvalidResponse(payload), run.at \in Stages
  PROVE  RunInv'
<1>1. run \in Run /\ payload \subseteq Fragments \cup Facts
  BY DEF RunInv, InvalidPayloads
<1>2. /\ run' \in Run /\ run'.at = run.at /\ run'.repairing = TRUE
      /\ run'.original = payload /\ run'.stated = run.stated \cup (payload \cap Facts)
      /\ run'.read = run.read /\ run'.hash = run.hash /\ run'.section = run.section
      /\ run'.left = run.left /\ run'.fragments = run.fragments
      /\ run'.candidates = run.candidates
      /\ run'.normalized = run.normalized /\ run'.recommended = run.recommended
  BY <1>1 DEF InvalidResponse, Run
<1>3. ReadsItsContent(run)'
  BY <1>2 DEF RunInv, ReadsItsContent, Titled
<1>4. CandidatesStand(run)'
  BY <1>2 DEF RunInv, CandidatesStand, Evidenced
<1>5. RecommendsNormalized(run)'
  BY <1>2 DEF RunInv, RecommendsNormalized
<1>6. QED
  BY <1>2, <1>3, <1>4, <1>5 DEF RunInv

LEMMA RouteFits ==
  ASSUME RunInv, NEW route \in {"financial", "research", "stop"},
         NEW first \in Pages, NEW last \in Pages, Route(route, first, last)
  PROVE  RunInv'
<1> DEFINE section == {p \in Pages : first <= p /\ p <= last}
<1>1. /\ run \in Run /\ run.at = "routing" /\ run.read = run.hash
      /\ run.section = {} /\ run.fragments = {} /\ run.candidates = {} /\ run.recommended = {}
      /\ \A c \in run.normalized : c \in run.candidates /\ c.fact \in Convertible
      /\ route = "financial" => TrustedMetadata
  BY DEF RunInv, Route, ReadsItsContent, CandidatesStand, RecommendsNormalized, Stages
<1>2. /\ run' \in Run /\ run'.repairing = FALSE
      /\ run'.read = run.read /\ run'.hash = run.hash
      /\ run'.fragments = {} /\ run'.candidates = {} /\ run'.recommended = {}
      /\ run'.normalized = run.normalized /\ run'.stated = run.stated
      /\ \/ run'.at = "layout" /\ run'.section = section /\ run'.left = section /\ TrustedMetadata
         \/ run'.at \in {"research", "closing"} /\ run'.section = {}
  <2>1. CASE route = "financial"
    <3>1. run' = [[run EXCEPT !.at = "layout", !.section = section, !.left = section]
                    EXCEPT !.repairing = FALSE, !.original = {}]
      BY <2>1 DEF Route, Proceed
    <3>2. QED
      BY <1>1, <2>1, <3>1 DEF Run, Points, Stages
  <2>2. CASE route = "research"
    <3>1. run' = [[run EXCEPT !.at = "research", !.left = Pages]
                    EXCEPT !.repairing = FALSE, !.original = {}]
      BY <2>2 DEF Route, Proceed
    <3>2. QED
      BY <1>1, <3>1 DEF Run, Points, Stages
  <2>3. CASE route = "stop"
    <3>1. run' = [[run EXCEPT !.at = "closing"] EXCEPT !.repairing = FALSE, !.original = {}]
      BY <2>3 DEF Route, Proceed
    <3>2. QED
      BY <1>1, <3>1 DEF Run, Points, Stages
  <2>4. QED
    BY <2>1, <2>2, <2>3
<1>3. ReadsItsContent(run)'
  BY <1>1, <1>2 DEF ReadsItsContent, Titled, TrustedMetadata
<1>4. CandidatesStand(run)'
  BY <1>2 DEF CandidatesStand, DistinctIdentities
<1>5. RecommendsNormalized(run)'
  BY <1>1, <1>2 DEF RecommendsNormalized, ExactPartition
<1>6. QED
  BY <1>2, <1>3, <1>4, <1>5 DEF RunInv

LEMMA ResearchFits ==
  ASSUME RunInv, Research
  PROVE  RunInv'
<1>1. /\ run \in Run /\ run.at = "research" /\ run.candidates = {} /\ run.recommended = {}
      /\ ReadsItsContent(run) /\ RecommendsNormalized(run)
  BY DEF RunInv, Research, CandidatesStand, RecommendsNormalized, Stages
<1>2. /\ run' \in Run /\ run'.repairing = FALSE /\ run'.at \in {"research", "closing"}
      /\ run'.read = run.read /\ run'.hash = run.hash /\ run'.section = run.section
      /\ run'.fragments = run.fragments /\ run'.candidates = {} /\ run'.recommended = {}
      /\ run'.normalized = run.normalized
  <2>1. PICK at \in {"research", "closing"} :
          run' = [[run EXCEPT !.left = @ \ NextWindow, !.at = at]
                    EXCEPT !.repairing = FALSE, !.original = {}]
    BY DEF Research, Proceed
  <2>2. QED
    BY <1>1, <2>1 DEF Run, Points, Stages
<1>3. ReadsItsContent(run)'
  BY <1>1, <1>2 DEF ReadsItsContent, Titled
<1>4. CandidatesStand(run)'
  BY <1>2 DEF CandidatesStand, DistinctIdentities
<1>5. RecommendsNormalized(run)'
  BY <1>1, <1>2 DEF RecommendsNormalized, ExactPartition
<1>6. QED
  BY <1>2, <1>3, <1>4, <1>5 DEF RunInv

\* Recovered fragments lie on the pages that were asked about, which are left of
\* the section.
LEMMA RecoverLayoutFits ==
  ASSUME RunInv, NEW F \in SUBSET Fragments, RecoverLayout(F)
  PROVE  RunInv'
<1>1. /\ run \in Run /\ run.at = "layout" /\ run.candidates = {} /\ run.recommended = {}
      /\ ReadsItsContent(run) /\ RecommendsNormalized(run)
  BY DEF RunInv, RecoverLayout, CandidatesStand, RecommendsNormalized, Stages
<1>2. /\ run' \in Run /\ run'.repairing = FALSE /\ run'.at \in {"layout", "crosspage", "facts"}
      /\ run'.read = run.read /\ run'.hash = run.hash /\ run'.section = run.section
      /\ run'.left = run.left \ NextWindow /\ run'.fragments = run.fragments \cup F
      /\ run'.candidates = {} /\ run'.recommended = {}
      /\ run'.normalized = run.normalized
  <2>1. PICK at \in {"layout", "crosspage", "facts"} :
          run' = [[run EXCEPT !.left = @ \ NextWindow, !.fragments = run.fragments \cup F, !.at = at]
                    EXCEPT !.repairing = FALSE, !.original = {}]
    BY DEF RecoverLayout, Proceed
  <2>2. QED
    BY <1>1, <2>1 DEF Run, Points, Stages
<1>3. \A f \in F : \A cell \in f.cells : PageOf[cell.region] \in run.left
  BY DEF RecoverLayout, SoundLayout, NextWindow
<1>4. ReadsItsContent(run)'
  BY <1>1, <1>2, <1>3 DEF ReadsItsContent, Titled
<1>5. CandidatesStand(run)'
  BY <1>2 DEF CandidatesStand, DistinctIdentities
<1>6. RecommendsNormalized(run)'
  BY <1>1, <1>2 DEF RecommendsNormalized
<1>7. QED
  BY <1>2, <1>4, <1>5, <1>6 DEF RunInv

\* New candidates are bound to a cell of their fragment; a repaired response
\* states what the broken one had stated.
LEMMA ExtractFactsFits ==
  ASSUME RunInv, NEW f \in run.fragments, NEW S \in SUBSET Facts, ExtractFacts(f, S)
  PROVE  RunInv'
<1> DEFINE new == {[fact |-> fact, of |-> f] : fact \in S}
<1>1. /\ run \in Run /\ run.at = "facts" /\ run.recommended = {} /\ f \in Fragments
      /\ ReadsItsContent(run) /\ CandidatesStand(run) /\ RecommendsNormalized(run)
      /\ run.repairing => S = run.original
      /\ \A fact \in S : StandsInEvidence(fact) /\ BoundToCell(fact, f)
  BY DEF RunInv, Run, ExtractFacts, RecommendsNormalized, Stages, Accepted, Preserves
<1>2. new \subseteq Candidates
  BY <1>1 DEF Candidates
<1>3. PICK at \in {"facts", "crosspage"} :
        /\ run' = [[run EXCEPT !.asked = @ \cup {f}, !.candidates = run.candidates \cup new,
                      !.stated = IF run.repairing THEN @ ELSE @ \cup S, !.at = at]
                    EXCEPT !.repairing = FALSE, !.original = {}]
        /\ at = "crosspage" => DistinctIdentities(run.candidates \cup new)
  BY <1>1 DEF ExtractFacts, Proceed, Run
<1>4. /\ run' \in Run /\ run'.repairing = FALSE /\ run'.at = at
      /\ run'.read = run.read /\ run'.hash = run.hash /\ run'.section = run.section
      /\ run'.fragments = run.fragments /\ run'.recommended = {}
      /\ run'.candidates = run.candidates \cup new
      /\ run'.normalized = run.normalized
      /\ run'.stated = IF run.repairing THEN run.stated ELSE run.stated \cup S
  BY <1>1, <1>2, <1>3 DEF Run, Points, Stages
<1>5. \A c \in new : c.of = f /\ c.fact \in S /\ Evidenced(c, run.read)
  BY <1>1 DEF Evidenced, StandsInEvidence, BoundToCell
<1>6. S \subseteq run'.stated
  BY <1>1, <1>4 DEF CandidatesStand
<1>7. \A c \in run'.candidates :
        c.of \in run'.fragments /\ c.fact \in run'.stated /\ Evidenced(c, run'.read)
  <2>1. \A c \in run.candidates :
          c.of \in run.fragments /\ c.fact \in run.stated /\ Evidenced(c, run.read)
    BY <1>1 DEF CandidatesStand
  <2>2. QED
    BY <1>4, <1>5, <1>6, <2>1
<1>8. ReadsItsContent(run)'
  BY <1>1, <1>4 DEF ReadsItsContent, Titled
<1>9. CandidatesStand(run)'
  BY <1>3, <1>4, <1>7 DEF CandidatesStand, DistinctIdentities, Identity, Evidenced
<1>10. RecommendsNormalized(run)'
  BY <1>1, <1>4 DEF RecommendsNormalized
<1>11. QED
  BY <1>4, <1>8, <1>9, <1>10 DEF RunInv

\* The stages that only check the candidates they are given.
LEMMA CheckingFits ==
  ASSUME RunInv,
         \/ \E F \in SUBSET run.fragments, C \in SUBSET run.candidates : ReconcilePages(F, C)
         \/ \E plans \in SUBSET (run.candidates \X {"right", "wrong"}) : Normalize(plans)
         \/ \E explained \in SUBSET CheckIds : Explain(explained)
         \/ \E groups \in SUBSET Groups : Arbitrate(groups)
  PROVE  RunInv'
<1>1. /\ run \in Run /\ run.recommended = {}
      /\ run.at \in {"crosspage", "normalization", "validation", "arbitration"}
      /\ ReadsItsContent(run) /\ CandidatesStand(run) /\ RecommendsNormalized(run)
  BY DEF RunInv, ReconcilePages, Normalize, Explain, Arbitrate, RecommendsNormalized, Stages
<1>2. PICK at \in {"normalization", "validation", "arbitration", "review"},
           normalized \in SUBSET run.candidates :
        /\ run' = [[run EXCEPT !.at = at, !.normalized = normalized]
                    EXCEPT !.repairing = FALSE, !.original = {}]
        /\ \A c \in normalized : c.fact \in Convertible
  <2>1. /\ run.normalized \in SUBSET run.candidates
        /\ \A c \in run.normalized : c.fact \in Convertible
        /\ run = [run EXCEPT !.normalized = run.normalized]
    BY <1>1 DEF RecommendsNormalized, Run
  <2>2. CASE \E F \in SUBSET run.fragments, C \in SUBSET run.candidates : ReconcilePages(F, C)
    <3>1. run' = [[run EXCEPT !.at = "normalization", !.normalized = run.normalized]
                    EXCEPT !.repairing = FALSE, !.original = {}]
      BY <1>1, <2>2 DEF ReconcilePages, Proceed, Run
    <3>2. QED
      BY <2>1, <3>1
  <2>3. CASE \E plans \in SUBSET (run.candidates \X {"right", "wrong"}) : Normalize(plans)
    <3>1. PICK plans \in SUBSET (run.candidates \X {"right", "wrong"}) : Normalize(plans)
      BY <2>3
    <3>2. run' = [[run EXCEPT !.at = "validation",
                     !.normalized = {c \in run.candidates : Normalizes(plans, c)}]
                    EXCEPT !.repairing = FALSE, !.original = {}]
      BY <3>1 DEF Normalize, Proceed
    <3>3. \A c \in {d \in run.candidates : Normalizes(plans, d)} : c.fact \in Convertible
      BY DEF Normalizes
    <3>4. QED
      BY <3>2, <3>3
  <2>4. CASE \E explained \in SUBSET CheckIds : Explain(explained)
    <3>1. run' = [[run EXCEPT !.at = "arbitration", !.normalized = run.normalized]
                    EXCEPT !.repairing = FALSE, !.original = {}]
      BY <1>1, <2>4 DEF Explain, Proceed, Run
    <3>2. QED
      BY <2>1, <3>1
  <2>5. CASE \E groups \in SUBSET Groups : Arbitrate(groups)
    <3>1. run' = [[run EXCEPT !.at = "review", !.normalized = run.normalized]
                    EXCEPT !.repairing = FALSE, !.original = {}]
      BY <1>1, <2>5 DEF Arbitrate, Proceed, Run
    <3>2. QED
      BY <2>1, <3>1
  <2>6. QED
    BY <2>2, <2>3, <2>4, <2>5
<1>3. /\ run' \in Run /\ run'.repairing = FALSE /\ run'.at = at
      /\ run'.read = run.read /\ run'.hash = run.hash /\ run'.section = run.section
      /\ run'.fragments = run.fragments /\ run'.recommended = {}
      /\ run'.candidates = run.candidates /\ run'.stated = run.stated
      /\ run'.normalized = normalized
  BY <1>1, <1>2 DEF Run, Points, Stages
<1>4. ReadsItsContent(run)'
  BY <1>1, <1>3 DEF ReadsItsContent, Titled
<1>5. CandidatesStand(run)'
  BY <1>1, <1>3 DEF CandidatesStand, DistinctIdentities, Identity, Evidenced
<1>6. RecommendsNormalized(run)'
  BY <1>2, <1>3 DEF RecommendsNormalized
<1>7. QED
  BY <1>3, <1>4, <1>5, <1>6 DEF RunInv

LEMMA ReviewFits ==
  ASSUME RunInv, NEW R \in SUBSET (run.candidates \X Persistence), Review(R)
  PROVE  RunInv'
<1>1. /\ run \in Run /\ run.at = "review"
      /\ ReadsItsContent(run) /\ CandidatesStand(run) /\ RecommendsNormalized(run)
      /\ ExactPartition(R, run.candidates)
      /\ \A r \in R : r[2] = "NEEDS_REVIEW" => r[1] \in run.normalized
  BY DEF RunInv, Review
<1>2. R \subseteq Recommendations
  BY <1>1 DEF Recommendations, Run
<1>3. /\ run' \in Run /\ run'.repairing = FALSE /\ run'.at = "closing"
      /\ run'.read = run.read /\ run'.hash = run.hash /\ run'.section = run.section
      /\ run'.fragments = run.fragments /\ run'.recommended = R
      /\ run'.candidates = run.candidates /\ run'.stated = run.stated
      /\ run'.normalized = run.normalized
  BY <1>1, <1>2 DEF Review, Proceed, Run, Points, Stages
<1>4. ReadsItsContent(run)'
  BY <1>1, <1>3 DEF ReadsItsContent, Titled
<1>5. CandidatesStand(run)'
  BY <1>1, <1>3 DEF CandidatesStand, DistinctIdentities, Identity, Evidenced
<1>6. RecommendsNormalized(run)'
  BY <1>1, <1>3 DEF RecommendsNormalized, ExactPartition, Stages
<1>7. QED
  BY <1>3, <1>4, <1>5, <1>6 DEF RunInv

-----------------------------------------------------------------------------
(* The audit.                                                              *)

AuditVars == <<audit, result>>

LEMMA AuditStays ==
  ASSUME AuditInv, UNCHANGED AuditVars
  PROVE  AuditInv'
BY DEF AuditInv, AuditVars, Evidenced, Titled, AuditTellsOutcome, ExactPartition,
       DistinctIdentities, Identity

\* A new run takes the audit there is for its content, or starts an empty one.
LEMMA StartRunAudits ==
  ASSUME AuditInv, file \in Contents, StartRun
  PROVE  AuditInv'
<1>1. result' = "none" /\ AuditTellsOutcome'
  BY DEF StartRun, AuditTellsOutcome
<1>2. CASE audit' = audit
  BY <1>1, <1>2 DEF AuditInv, Evidenced, Titled
<1>3. CASE audit' = NoAudit(file)
  <2>1. NoAudit(file) \in Audit /\ NoAudit(file).status = "NONE"
    BY ExtractionAssumption DEF NoAudit, Audit, Contents
  <2>2. QED
    BY <1>1, <1>3, <2>1 DEF AuditInv
<1>4. QED
  BY <1>2, <1>3 DEF StartRun

\* What is concluded is audited with the content it was read from.
LEMMA ConcludeAudits ==
  ASSUME RunInv, AuditInv,
         RecordFailure \/ \E s \in {"NEEDS_REVIEW", "FAILED"} : Conclude(s)
  PROVE  AuditInv'
<1>1. /\ run \in Run
      /\ ReadsItsContent(run) /\ CandidatesStand(run) /\ RecommendsNormalized(run)
  BY DEF RunInv
<1>2. \A s \in {"NEEDS_REVIEW", "FAILED"}, e \in BOOLEAN : Audited(s, e) \in Audit
  BY <1>1 DEF Audited, Audit, Run
<1>3. CASE RecordFailure
  <2>1. audit' = Audited("FAILED", TRUE) /\ result' = "raised"
    BY <1>3 DEF RecordFailure
  <2>2. audit'.status = "FAILED" /\ audit'.error = TRUE
    BY <2>1 DEF Audited
  <2>3. QED
    BY <1>2, <2>1, <2>2 DEF AuditInv, AuditTellsOutcome
<1>4. ASSUME NEW s \in {"NEEDS_REVIEW", "FAILED"}, Conclude(s)
      PROVE  AuditInv'
  <2>1. CASE file # run.hash
    BY <1>4, <2>1, AuditStays DEF Conclude, AuditVars
  <2>2. CASE file = run.hash
    <3>1. /\ audit' = Audited(s, FALSE) /\ result' = "returned"
          /\ run.at = "closing" /\ run.read = run.hash
      BY <1>1, <1>4, <2>2 DEF Conclude, ReadsItsContent
    <3>2. /\ audit' \in Audit /\ audit'.of = run.read /\ audit'.error = FALSE
          /\ audit'.verified = TRUE
          /\ audit'.section = run.section /\ audit'.candidates = run.candidates
          /\ audit'.recommended = run.recommended
      BY <1>2, <2>2, <3>1 DEF Audited
    <3>3. ASSUME NEW c \in Candidates, <<c, "NEEDS_REVIEW">> \in run.recommended
          PROVE  /\ Evidenced(c, run.read) /\ PageOf[c.fact.region] \in run.section
                 /\ c.fact \in Convertible /\ Titled(run.read)
      <4>1. c \in run.candidates /\ c.fact \in Convertible
        BY <1>1, <3>3 DEF RecommendsNormalized
      <4>2. Evidenced(c, run.read) /\ c.of \in run.fragments
        BY <1>1, <4>1 DEF CandidatesStand
      <4>3. PageOf[c.fact.region] \in run.section
        BY <1>1, <4>2 DEF ReadsItsContent, Evidenced
      <4>4. QED
        BY <1>1, <4>1, <4>2, <4>3 DEF ReadsItsContent
    <3>4. AuditTellsOutcome'
      BY <1>1, <3>1, <3>2
      DEF AuditTellsOutcome, CandidatesStand, RecommendsNormalized, ExactPartition,
          DistinctIdentities, Identity
    <3>5. QED
      BY <3>1, <3>2, <3>3, <3>4 DEF AuditInv, Evidenced, Titled
  <2>3. QED
    BY <2>1, <2>2
<1>5. QED
  BY <1>3, <1>4

-----------------------------------------------------------------------------
(* Every step.                                                             *)

LEMMA CallOfStageKept ==
  ASSUME LlmInv, [Next]_vars
  PROVE  client'.at # "none" => run'.at \in Stages
<1>1. /\ client.at # "none" => run.at \in Stages
      /\ run \in Run
  BY DEF LlmInv, RunInv
<1>2. CASE client' = NoCall
  BY <1>2 DEF NoCall
<1>3. CASE UNCHANGED run /\ run.at \in Stages
  BY <1>3
<1>4. CASE UNCHANGED <<client, run>>
  BY <1>1, <1>4
<1>5. CASE CallModel
  <2>1. client.at # "none" /\ UNCHANGED run
    BY <1>5 DEF CallModel, ClientStep, Send, TransientError, PermanentError, Respond
  <2>2. QED
    BY <1>1, <2>1
<1>6. ASSUME StartRun \/ ReadPages \/ AuditNotWritten \/ RecordFailure
             \/ \E s \in {"NEEDS_REVIEW", "FAILED"} : Conclude(s)
      PROVE  UNCHANGED client /\ client.at = "none"
  BY <1>1, <1>6 DEF StartRun, ReadPages, AuditNotWritten, RecordFailure, Conclude, Stages
<1>7. CASE AskModel
  BY <1>3, <1>7 DEF AskModel
<1>8. CASE UNCHANGED vars \/ SourceChanges
  BY <1>4, <1>8 DEF vars, SourceChanges
<1>9. CASE \/ \E payload \in InvalidPayloads : InvalidResponse(payload)
           \/ RunLost \/ StageFails
  BY <1>2, <1>9 DEF InvalidResponse, RunLost, StageFails
<1>10. CASE \/ \E r \in {"financial", "research", "stop"}, first, last \in Pages : Route(r, first, last)
            \/ Research
            \/ \E F \in SUBSET Fragments : RecoverLayout(F)
            \/ \E f \in run.fragments, S \in {T \in SUBSET Facts : Cardinality(T) <= MaxFacts} :
                 ExtractFacts(f, S)
            \/ \E F \in SUBSET run.fragments, C \in SUBSET run.candidates : ReconcilePages(F, C)
            \/ \E plans \in SUBSET (run.candidates \X {"right", "wrong"}) : Normalize(plans)
            \/ \E explained \in SUBSET CheckIds : Explain(explained)
            \/ \E groups \in SUBSET Groups : Arbitrate(groups)
            \/ \E R \in SUBSET (run.candidates \X Persistence) : Review(R)
  BY <1>2, <1>10
  DEF Route, Research, RecoverLayout, ExtractFacts, ReconcilePages, Normalize, Explain, Arbitrate,
      Review, Proceed
<1>11. QED
  BY <1>1, <1>5, <1>6, <1>7, <1>8, <1>9, <1>10 DEF Next, RunStep

LEMMA ClientKept ==
  ASSUME LlmInv, [Next]_vars
  PROVE  CallInv'
<1>1. CallInv
  BY DEF LlmInv
<1>2. \A n \in {1, MaxAttempts} : Invoke(n) => CallInv'
  BY <1>1, CallKept
<1>3. ClientStep \/ client' = NoCall \/ UNCHANGED client => CallInv'
  BY <1>1, CallKept
<1>4. CASE AskModel
  BY <1>2, <1>4 DEF AskModel
<1>5. ASSUME ~AskModel
      PROVE  ClientStep \/ client' = NoCall \/ UNCHANGED client
  BY <1>5
  DEF Next, RunStep, vars, StartRun, ReadPages, CallModel, InvalidResponse, RunLost, SourceChanges,
      Route, Research, RecoverLayout, ExtractFacts, ReconcilePages, Normalize, Explain, Arbitrate,
      Review, Proceed, StageFails, Conclude, AuditNotWritten, RecordFailure
<1>6. QED
  BY <1>3, <1>4, <1>5

LEMMA RunKept ==
  ASSUME LlmInv, [Next]_vars
  PROVE  RunInv'
<1>1. RunInv /\ file \in Contents /\ (client.at # "none" => run.at \in Stages)
  BY DEF LlmInv
<1>2. CASE StartRun \/ ReadPages
  BY <1>1, <1>2, StartRunFits
<1>3. CASE \E payload \in InvalidPayloads : InvalidResponse(payload)
  BY <1>1, <1>3, InvalidResponseFits DEF InvalidResponse
<1>4. CASE \/ \E r \in {"financial", "research", "stop"}, first, last \in Pages : Route(r, first, last)
           \/ Research
           \/ \E F \in SUBSET Fragments : RecoverLayout(F)
  BY <1>1, <1>4, RouteFits, ResearchFits, RecoverLayoutFits
<1>5. CASE \E f \in run.fragments, S \in {T \in SUBSET Facts : Cardinality(T) <= MaxFacts} :
             ExtractFacts(f, S)
  BY <1>1, <1>5, ExtractFactsFits
<1>6. CASE \/ \E F \in SUBSET run.fragments, C \in SUBSET run.candidates : ReconcilePages(F, C)
           \/ \E plans \in SUBSET (run.candidates \X {"right", "wrong"}) : Normalize(plans)
           \/ \E explained \in SUBSET CheckIds : Explain(explained)
           \/ \E groups \in SUBSET Groups : Arbitrate(groups)
  BY <1>1, <1>6, CheckingFits
<1>7. CASE \E R \in SUBSET (run.candidates \X Persistence) : Review(R)
  BY <1>1, <1>7, ReviewFits
<1>8. ASSUME \/ AskModel \/ CallModel \/ StageFails \/ AuditNotWritten \/ RecordFailure
             \/ \E s \in {"NEEDS_REVIEW", "FAILED"} : Conclude(s)
             \/ RunLost \/ SourceChanges \/ UNCHANGED vars
      PROVE  \/ UNCHANGED run
             \/ run' = IdleRun
             \/ run' = [run EXCEPT !.at = "raising"] /\ run.at \in Stages \cup {"closing"}
  BY <1>1, <1>8
  DEF AskModel, CallModel, StageFails, AuditNotWritten, RecordFailure, Conclude, RunLost,
      SourceChanges, vars
<1>9. QED
  BY <1>1, <1>2, <1>3, <1>4, <1>5, <1>6, <1>7, <1>8, RunStays DEF Next, RunStep

LEMMA AuditKept ==
  ASSUME LlmInv, [Next]_vars
  PROVE  AuditInv'
<1>1. RunInv /\ AuditInv /\ file \in Contents
  BY DEF LlmInv
<1>2. CASE StartRun
  BY <1>1, <1>2, StartRunAudits
<1>3. CASE RecordFailure \/ \E s \in {"NEEDS_REVIEW", "FAILED"} : Conclude(s)
  BY <1>1, <1>3, ConcludeAudits
<1>4. ASSUME ~StartRun, ~RecordFailure, \A s \in {"NEEDS_REVIEW", "FAILED"} : ~Conclude(s)
      PROVE  UNCHANGED AuditVars
  BY <1>4
  DEF Next, RunStep, vars, AuditVars, ReadPages, AskModel, CallModel, InvalidResponse, RunLost,
      SourceChanges, Route, Research, RecoverLayout, ExtractFacts, ReconcilePages, Normalize,
      Explain, Arbitrate, Review, Proceed, StageFails, AuditNotWritten
<1>5. QED
  BY <1>1, <1>2, <1>3, <1>4, AuditStays

LEMMA FileKept ==
  ASSUME LlmInv, [Next]_vars
  PROVE  file' \in Contents
<1>1. file \in Contents /\ MaxContent \in Nat
  BY ExtractionAssumption DEF LlmInv
<1>2. CASE SourceChanges
  BY <1>1, <1>2 DEF SourceChanges, Contents
<1>3. ASSUME ~SourceChanges
      PROVE  UNCHANGED file
  BY <1>3
  DEF Next, RunStep, vars, StartRun, ReadPages, AskModel, CallModel, InvalidResponse, RunLost,
      Route, Research, RecoverLayout, ExtractFacts, ReconcilePages, Normalize, Explain, Arbitrate,
      Review, Proceed, StageFails, Conclude, AuditNotWritten, RecordFailure
<1>4. QED
  BY <1>1, <1>2, <1>3 DEF Contents

LEMMA InvKept == LlmInv /\ [Next]_vars => LlmInv'
  BY CallOfStageKept, ClientKept, RunKept, AuditKept, FileKept DEF LlmInv

LEMMA InvHolds == Spec => []LlmInv
  BY InitFits, InvKept, PTL DEF Spec

\* Every variable keeps the values the code can give it.
THEOREM ExtractionTypeCorrect == Spec => []ExtractionTypeOK
<1>1. LlmInv => ExtractionTypeOK
  BY DEF LlmInv, CallInv, RunInv, AuditInv, ExtractionTypeOK
<1>2. QED
  BY <1>1, InvHolds, PTL

\* Whatever the model answers, a value that is recommended stands in the bytes the
\* audit names, on a page of its section and in a column of the current period.
THEOREM RecommendationsAreEvidenced == Spec => []RecommendedIsEvidenced
<1>1. LlmInv => RecommendedIsEvidenced
  BY DEF LlmInv, RunInv, CandidatesStand, AuditInv, Evidenced, Titled, RecommendedIsEvidenced
<1>2. QED
  BY <1>1, InvHolds, PTL

\* The audit tells how the last run ended.
THEOREM AuditsAreHonest == Spec => []AuditTellsOutcome
<1>1. LlmInv => AuditTellsOutcome
  BY DEF LlmInv, AuditInv
<1>2. QED
  BY <1>1, InvHolds, PTL

=============================================================================
