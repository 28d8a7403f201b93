------------------------- MODULE MCRuntimeThreads -------------------------
(***************************************************************************)
(* The two thread-coordination components checked in one run: the worker *)
(* task runtime (WorkerRuntime) and the render thread's multi-window      *)
(* manager (MultiWindowManager).  They share no state, so a behaviour     *)
(* exercises one of them, named by part, chosen in the initial state; the *)
(* other's variables keep their initial values.  Every property of either *)
(* holds in the other's behaviours: the invariants hold initially, the    *)
(* action property allows stuttering, and the leads-to properties start   *)
(* from a close or a cancel that never happens there.                    *)
(*                                                                         *)
(* Worker runtime: one client thread, two workers, a queue of capacity 1  *)
(* and two handles, so that a full queue, a close during a spawn and a    *)
(* cancel racing a worker all occur.                                      *)
(* Windows: two secondary frames, a zero and a non-zero size, two scale   *)
(* factors, queues of two requests and up to three OS windows, so that a  *)
(* frame is created, destroyed and created again, and a create and a      *)
(* destroy for the same frame wait together.                              *)
(***************************************************************************)
EXTENDS TLC

CONSTANTS
    Parts, c1, w1, w2, f1, f2,
    Clients, Workers, QueueCapacity, MaxTasks,
    FrameIds, Sizes, Scales, MaxPending, MaxWindows

VARIABLES
    part,
    nextTask, queue, closed, inMap, status, flag, waitSet, wpc, wtask,
    cpc, ctask, seenQueued, cancelled, runs,
    windows, winitToEmacs, pendingCreates, pendingDestroys, nextWinit

W == INSTANCE WorkerRuntime
M == INSTANCE MultiWindowManager

MCWorkers == {w1, w2}
MCOneClient == {c1}
MCFrameIds == {f1, f2}

\* Frame ids are opaque keys: renaming them maps behaviours to behaviours;
\* the worker part, the one with liveness properties, does not mention them.
MCSymmetry == Permutations(MCFrameIds)

wvars == <<nextTask, queue, closed, inMap, status, flag, waitSet, wpc, wtask,
           cpc, ctask, seenQueued, cancelled, runs>>
mvars == <<windows, winitToEmacs, pendingCreates, pendingDestroys, nextWinit>>
uvars == <<part, wvars, mvars>>

UInit == part \in Parts /\ W!Init /\ M!Init

WorkerPart(A)  == part = "worker" /\ A /\ UNCHANGED <<part, mvars>>
WindowPart(A)  == part = "windows" /\ A /\ UNCHANGED <<part, wvars>>

UNext == WorkerPart(W!Next) \/ WindowPart(M!Next)

\* WorkerRuntime's fairness, for the threads of the worker part.
UFairness ==
    /\ \A c \in Clients : WF_uvars(WorkerPart(W!ClientContinue(c)))
    /\ \A w \in Workers : WF_uvars(WorkerPart(W!WorkerStep(w)))

USpec == UInit /\ [][UNext]_uvars /\ UFairness

\* The properties each module states, under the names of its run.
TypeOK == W!TypeOK
CancelBeforeStartWins == W!CancelBeforeStartWins
RunAtMostOnce == W!RunAtMostOnce
CancelledTaskSettles == W!CancelledTaskSettles
WorkersExitAfterClose == W!WorkersExitAfterClose
WindowsTypeOK == M!TypeOK
ReverseMapConsistent == M!ReverseMapConsistent
DirtyUntilRendered == M!DirtyUntilRendered
SurfacesNonZero == M!SurfacesNonZero
=============================================================================
