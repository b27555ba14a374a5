------------------------------ MODULE ModelClient ------------------------------
(***************************************************************************)
(* One call of the OpenAI-compatible client (_post_json of llm.py): a      *)
(* request is sent again, under the same idempotency key, after a timeout  *)
(* or a retryable status, and after nothing else.                          *)
(***************************************************************************)
EXTENDS Naturals

CONSTANT MaxAttempts   \* MAX_STAGE_ATTEMPTS

\* _validate_attempts
ASSUME AttemptsAssumption == MaxAttempts \in 1..3

VARIABLE client   \* the call under way: attempts made and allowed

CallPoints == {"none", "ready", "sent", "answered", "failed"}

Call == [at : CallPoints, made : 0..MaxAttempts, allowed : 0..MaxAttempts]
NoCall == [at |-> "none", made |-> 0, allowed |-> 0]

Invoke(attempts) ==
  /\ client.at = "none"
  /\ client' = [at |-> "ready", made |-> 0, allowed |-> attempts]

\* Bug: the attempt is not counted.
SendUncounted ==
  /\ client.at = "ready"
  /\ client' = [client EXCEPT !.at = "sent"]

Send ==
  /\ client.at = "ready"
  /\ client' = [client EXCEPT !.at = "sent", !.made = @ + 1]

\* Bug: the last attempt is no exception.
TransientErrorForever ==
  /\ client.at = "sent"
  /\ client' = [client EXCEPT !.at = "ready"]

\* A timeout, or status 408, 429 or 5xx without a permanent provider code: the
\* client sleeps and goes round the loop, unless this was the last attempt.
TransientError ==
  /\ client.at = "sent"
  /\ client' = [client EXCEPT !.at = IF client.made = client.allowed THEN "failed" ELSE "ready"]

\* Any other status or transport error, and a body that is no JSON object or has
\* no JSON message: raised at once.
PermanentError ==
  /\ client.at = "sent"
  /\ client' = [client EXCEPT !.at = "failed"]

Respond ==
  /\ client.at = "sent"
  /\ client' = [client EXCEPT !.at = "answered"]

ClientStep == Send \/ TransientError \/ PermanentError \/ Respond
=============================================================================
