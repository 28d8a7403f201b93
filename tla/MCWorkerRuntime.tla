------------------------- MODULE MCWorkerRuntime -------------------------
(* Model-checking instance of WorkerRuntime: one client thread, two       *)
(* workers, a queue of capacity 1 and two handles, so that a full queue,  *)
(* a close during a spawn and a cancel racing a worker all occur.        *)
EXTENDS WorkerRuntime, TLC

CONSTANTS c1, w1, w2

MCWorkers == {w1, w2}

\* One caller thread; the runs check liveness, so no symmetry reduction.
MCOneClient == {c1}
=============================================================================
