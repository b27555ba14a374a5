-------------------------- MODULE IngestionLifecycle --------------------------
(***************************************************************************)
(* What the control plane promises about the ingestion of a document, with *)
(* no leases, workers or job rows: attempts are numbered 1, 2, ... and run *)
(* one at a time; the next one starts only after the previous one failed;  *)
(* the first success is final.                                             *)
(***************************************************************************)
EXTENDS Naturals

CONSTANT Documents

VARIABLES
  phase,    \* absent, stored, attempting, failed or ingested
  attempt   \* the number of the document's latest attempt, 0 before the first

Phases == {"absent", "stored", "attempting", "failed", "ingested"}

Init ==
  /\ phase = [d \in Documents |-> "absent"]
  /\ attempt = [d \in Documents |-> 0]

Moves(d, from, to, number) ==
  /\ phase[d] = from
  /\ phase'[d] = to
  /\ attempt'[d] = number

Upload(d)  == Moves(d, "absent", "stored", 0)
Enqueue(d) == Moves(d, "stored", "attempting", 1)
Fail(d)    == Moves(d, "attempting", "failed", attempt[d])
Retry(d)   == Moves(d, "failed", "attempting", attempt[d] + 1)
Succeed(d) == Moves(d, "attempting", "ingested", attempt[d])
Keep(d)    == Moves(d, phase[d], phase[d], attempt[d])

\* One transaction may end the attempts of several documents (the recovery of
\* expired leases does), so the documents move together, each by its own rule.
Next ==
  \A d \in Documents :
    Upload(d) \/ Enqueue(d) \/ Fail(d) \/ Retry(d) \/ Succeed(d) \/ Keep(d)

Spec == Init /\ [][Next]_<<phase, attempt>>
=============================================================================
