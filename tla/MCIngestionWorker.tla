--------------------------- MODULE MCIngestionWorker ---------------------------
(* One document, a daemon and a worker started with --once.  Daemons breaks *)
(* the symmetry of the workers, and liveness is checked, so there is none.  *)
EXTENDS IngestionWorker, TLC
=============================================================================
