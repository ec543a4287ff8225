--------------------------- MODULE MCWorkerBatch ---------------------------
(* An instance of WorkerBatch for TLC. *)
EXTENDS WorkerBatch

\* A command that fails is explored no further: all but two properties are about
\* behaviours without one, and those two only get easier to keep.
NothingLost == lost = 0
=============================================================================
