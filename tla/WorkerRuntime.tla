--------------------------- MODULE WorkerRuntime ---------------------------
(***************************************************************************)
(* The task runtime of neovm-worker (src/rust/neovm-worker/src/lib.rs).    *)
(*                                                                         *)
(* Client threads call spawn, cancel and close on a shared WorkerRuntime;  *)
(* worker threads run the loop of start_dummy_workers.  Every step below   *)
(* is one critical section of the code: the queue mutex (queue, closed),   *)
(* the tasks RwLock (inMap), a task's status mutex (status), the atomic    *)
(* cancel flag (flag) and the atomic handle counter (nextTask).  A call    *)
(* that takes several locks one after the other is split into one action  *)
(* per lock, so other threads may run in between, exactly as in the code.  *)
(*                                                                         *)
(* The condition variable is a set waitSet of blocked workers: notify_one  *)
(* removes one of them, notify_all removes all, and a spurious wakeup may  *)
(* remove any.  A woken worker re-acquires the mutex and re-tests the      *)
(* loop condition.                                                         *)
(***************************************************************************)
EXTENDS Naturals, Sequences, FiniteSets

CONSTANTS
    Clients,        \* threads calling spawn / cancel / close
    Workers,        \* threads started by start_dummy_workers
    QueueCapacity,  \* WorkerConfig.queue_capacity
    MaxTasks        \* bound on the number of handles next_task hands out

ASSUME /\ QueueCapacity \in Nat \ {0}
       /\ MaxTasks \in Nat \ {0}
       /\ Clients # {} /\ Workers # {}

Handles == 1..MaxTasks
NoTask  == 0

\* TaskStatus values used by the runtime.
Queued    == "Queued"
Running   == "Running"
Completed == "Completed"
Cancelled == "Cancelled"
Statuses  == {Queued, Running, Completed, Cancelled}
Terminal  == {Completed, Cancelled}

VARIABLES
    nextTask,   \* WorkerRuntime.next_task (AtomicU64, starts at 1)
    queue,      \* QueueState.queue: VecDeque<TaskHandle>
    closed,     \* QueueState.closed
    inMap,      \* keys of WorkerRuntime.tasks
    status,     \* TaskEntry.status of every handle (meaningful once in inMap)
    flag,       \* TaskContext.cancelled of every handle
    waitSet,    \* workers blocked in SharedQueue.ready.wait
    wpc,        \* worker program counter
    wtask,      \* handle a worker is processing (NoTask when none)
    cpc,        \* client program counter
    ctask,      \* handle a client call is working on
    seenQueued, \* history: handles for which cancel() read status Queued
    cancelled,  \* history: handles for which cancel() returned true
    runs        \* history: how many times a worker set a handle Running

vars == <<nextTask, queue, closed, inMap, status, flag, waitSet, wpc, wtask,
          cpc, ctask, seenQueued, cancelled, runs>>

WorkerPCs == {"loop", "wait", "lookup", "check", "run", "finish", "exit"}
ClientPCs == {"idle", "push", "insert", "notify",
              "cflag", "cread", "cset", "closeNotify"}

QueuedHandles == {queue[i] : i \in 1..Len(queue)}

TypeOK ==
    /\ nextTask \in 1..(MaxTasks + 1)
    /\ queue \in Seq(Handles) /\ Len(queue) <= QueueCapacity
    /\ closed \in BOOLEAN
    /\ inMap \subseteq Handles
    /\ status \in [Handles -> Statuses]
    /\ flag \in [Handles -> BOOLEAN]
    /\ waitSet \subseteq Workers
    /\ wpc \in [Workers -> WorkerPCs]
    /\ wtask \in [Workers -> Handles \cup {NoTask}]
    /\ cpc \in [Clients -> ClientPCs]
    /\ ctask \in [Clients -> Handles \cup {NoTask}]
    /\ seenQueued \subseteq Handles /\ cancelled \subseteq Handles
    /\ runs \in [Handles -> Nat]

Init ==
    /\ nextTask = 1
    /\ queue = <<>>
    /\ closed = FALSE
    /\ inMap = {}
    /\ status = [h \in Handles |-> Queued]    \* TaskEntry::new
    /\ flag = [h \in Handles |-> FALSE]
    /\ waitSet = {}
    /\ wpc = [w \in Workers |-> "loop"]
    /\ wtask = [w \in Workers |-> NoTask]
    /\ cpc = [c \in Clients |-> "idle"]
    /\ ctask = [c \in Clients |-> NoTask]
    /\ seenQueued = {} /\ cancelled = {} /\ runs = [h \in Handles |-> 0]

-----------------------------------------------------------------------------
\* Bug variant: next_task.load() in place of fetch_add, so the counter
\* never advances.
SpawnAllocNoIncrement(c) ==
    /\ cpc[c] = "idle"
    /\ ctask' = [ctask EXCEPT ![c] = nextTask]
    /\ UNCHANGED nextTask
    /\ cpc' = [cpc EXCEPT ![c] = "push"]
    /\ UNCHANGED <<queue, closed, inMap, status, flag, waitSet, wpc, wtask,
                   seenQueued, cancelled, runs>>

(* spawn: fetch_add the handle and build the TaskEntry (lines 113-114).    *)
(* The MainOnly early return (109-111) changes nothing and is left out.    *)
SpawnAlloc(c) ==
    /\ cpc[c] = "idle"
    /\ nextTask <= MaxTasks
    /\ ctask' = [ctask EXCEPT ![c] = nextTask]
    /\ nextTask' = nextTask + 1
    /\ cpc' = [cpc EXCEPT ![c] = "push"]
    /\ UNCHANGED <<queue, closed, inMap, status, flag, waitSet, wpc, wtask,
                   seenQueued, cancelled, runs>>

\* Bug variant: the capacity test written `>` in place of `>=`.
SpawnPushOffByOne(c) ==
    /\ cpc[c] = "push"
    /\ IF closed \/ Len(queue) > QueueCapacity
          THEN /\ cpc' = [cpc EXCEPT ![c] = "idle"]
               /\ ctask' = [ctask EXCEPT ![c] = NoTask]
               /\ UNCHANGED queue
          ELSE /\ queue' = Append(queue, ctask[c])
               /\ cpc' = [cpc EXCEPT ![c] = "insert"]
               /\ UNCHANGED ctask
    /\ UNCHANGED <<nextTask, closed, inMap, status, flag, waitSet, wpc, wtask,
                   seenQueued, cancelled, runs>>

\* Under the queue mutex: Closed / QueueFull errors, else push_back (116-125).
SpawnPush(c) ==
    /\ cpc[c] = "push"
    /\ IF closed \/ Len(queue) >= QueueCapacity
          THEN /\ cpc' = [cpc EXCEPT ![c] = "idle"]
               /\ ctask' = [ctask EXCEPT ![c] = NoTask]
               /\ UNCHANGED queue
          ELSE /\ queue' = Append(queue, ctask[c])
               /\ cpc' = [cpc EXCEPT ![c] = "insert"]
               /\ UNCHANGED ctask
    /\ UNCHANGED <<nextTask, closed, inMap, status, flag, waitSet, wpc, wtask,
                   seenQueued, cancelled, runs>>

\* Under the tasks write lock: insert the entry (127-130).
SpawnInsert(c) ==
    /\ cpc[c] = "insert"
    /\ inMap' = inMap \cup {ctask[c]}
    /\ cpc' = [cpc EXCEPT ![c] = "notify"]
    /\ UNCHANGED <<nextTask, queue, closed, status, flag, waitSet, wpc, wtask,
                   ctask, seenQueued, cancelled, runs>>

\* notify_one wakes one blocked worker, if any (132).
NotifyOne ==
    \/ waitSet = {} /\ UNCHANGED waitSet
    \/ \E w \in waitSet : waitSet' = waitSet \ {w}

SpawnNotify(c) ==
    /\ cpc[c] = "notify"
    /\ NotifyOne
    /\ cpc' = [cpc EXCEPT ![c] = "idle"]
    /\ ctask' = [ctask EXCEPT ![c] = NoTask]
    /\ UNCHANGED <<nextTask, queue, closed, inMap, status, flag, wpc, wtask,
                   seenQueued, cancelled, runs>>

-----------------------------------------------------------------------------
(* cancel(handle): look the entry up under the read lock (137-144).  A     *)
(* handle not in the map returns false and changes nothing.               *)
CancelLookup(c, h) ==
    /\ cpc[c] = "idle"
    /\ h \in inMap
    /\ ctask' = [ctask EXCEPT ![c] = h]
    /\ cpc' = [cpc EXCEPT ![c] = "cflag"]
    /\ UNCHANGED <<nextTask, queue, closed, inMap, status, flag, waitSet, wpc,
                   wtask, seenQueued, cancelled, runs>>

\* task.context.cancel() (146).
CancelFlag(c) ==
    /\ cpc[c] = "cflag"
    /\ flag' = [flag EXCEPT ![ctask[c]] = TRUE]
    /\ cpc' = [cpc EXCEPT ![c] = "cread"]
    /\ UNCHANGED <<nextTask, queue, closed, inMap, status, waitSet, wpc, wtask,
                   ctask, seenQueued, cancelled, runs>>

\* Bug variant: cancel only raises the flag and never marks a Queued task
\* Cancelled itself (lines 148-150 missing).
CancelReadNoSet(c) ==
    /\ cpc[c] = "cread"
    /\ cpc' = [cpc EXCEPT ![c] = "idle"]
    /\ ctask' = [ctask EXCEPT ![c] = NoTask]
    /\ cancelled' = cancelled \cup {ctask[c]}
    /\ UNCHANGED <<nextTask, queue, closed, inMap, status, flag, waitSet, wpc,
                   wtask, seenQueued, runs>>

\* task.status() == Queued, read under the status mutex (148); if not,
\* cancel returns true (151).
CancelRead(c) ==
    /\ cpc[c] = "cread"
    /\ LET h == ctask[c] IN
       IF status[h] = Queued
          THEN /\ cpc' = [cpc EXCEPT ![c] = "cset"]
               /\ seenQueued' = seenQueued \cup {h}
               /\ UNCHANGED <<ctask, cancelled>>
          ELSE /\ cpc' = [cpc EXCEPT ![c] = "idle"]
               /\ ctask' = [ctask EXCEPT ![c] = NoTask]
               /\ cancelled' = cancelled \cup {h}
               /\ UNCHANGED seenQueued
    /\ UNCHANGED <<nextTask, queue, closed, inMap, status, flag, waitSet, wpc,
                   wtask, runs>>

\* task.set_status(Cancelled), a second acquisition of the mutex (149).
CancelSet(c) ==
    /\ cpc[c] = "cset"
    /\ status' = [status EXCEPT ![ctask[c]] = Cancelled]
    /\ cancelled' = cancelled \cup {ctask[c]}
    /\ cpc' = [cpc EXCEPT ![c] = "idle"]
    /\ ctask' = [ctask EXCEPT ![c] = NoTask]
    /\ UNCHANGED <<nextTask, queue, closed, inMap, flag, waitSet, wpc, wtask,
                   seenQueued, runs>>

-----------------------------------------------------------------------------
(* close(): set closed under the mutex (160-162), then notify_all (163).   *)
Close(c) ==
    /\ cpc[c] = "idle"
    /\ closed' = TRUE
    /\ cpc' = [cpc EXCEPT ![c] = "closeNotify"]
    /\ UNCHANGED <<nextTask, queue, inMap, status, flag, waitSet, wpc, wtask,
                   ctask, seenQueued, cancelled, runs>>

\* Bug variant: close() without notify_all.
CloseNotifyNone(c) ==
    /\ cpc[c] = "closeNotify"
    /\ cpc' = [cpc EXCEPT ![c] = "idle"]
    /\ UNCHANGED <<nextTask, queue, closed, inMap, status, flag, waitSet, wpc,
                   wtask, ctask, seenQueued, cancelled, runs>>

NotifyAll == waitSet' = {}

CloseNotify(c) ==
    /\ cpc[c] = "closeNotify"
    /\ NotifyAll
    /\ cpc' = [cpc EXCEPT ![c] = "idle"]
    /\ UNCHANGED <<nextTask, queue, closed, inMap, status, flag, wpc, wtask,
                   ctask, seenQueued, cancelled, runs>>

-----------------------------------------------------------------------------
(* Worker loop, lines 172-219.  The test of the while loop (175-187) runs  *)
(* under the queue mutex: wait, exit, or pop_front.                        *)
WorkerWait(w) ==
    /\ wpc[w] = "loop"
    /\ queue = <<>> /\ ~closed
    /\ waitSet' = waitSet \cup {w}
    /\ wpc' = [wpc EXCEPT ![w] = "wait"]
    /\ UNCHANGED <<nextTask, queue, closed, inMap, status, flag, wtask, cpc,
                   ctask, seenQueued, cancelled, runs>>

WorkerExit(w) ==
    /\ wpc[w] = "loop"
    /\ queue = <<>> /\ closed
    /\ wpc' = [wpc EXCEPT ![w] = "exit"]
    /\ UNCHANGED <<nextTask, queue, closed, inMap, status, flag, waitSet,
                   wtask, cpc, ctask, seenQueued, cancelled, runs>>

WorkerPop(w) ==
    /\ wpc[w] = "loop"
    /\ queue # <<>>
    /\ wtask' = [wtask EXCEPT ![w] = Head(queue)]
    /\ queue' = Tail(queue)
    /\ wpc' = [wpc EXCEPT ![w] = "lookup"]
    /\ UNCHANGED <<nextTask, closed, inMap, status, flag, waitSet, cpc, ctask,
                   seenQueued, cancelled, runs>>

\* Return from Condvar::wait once notified; the loop test runs again.
WorkerWake(w) ==
    /\ wpc[w] = "wait" /\ w \notin waitSet
    /\ wpc' = [wpc EXCEPT ![w] = "loop"]
    /\ UNCHANGED <<nextTask, queue, closed, inMap, status, flag, waitSet,
                   wtask, cpc, ctask, seenQueued, cancelled, runs>>

\* Condvar::wait may return without a notification.
SpuriousWakeup(w) ==
    /\ w \in waitSet
    /\ waitSet' = waitSet \ {w}
    /\ UNCHANGED <<nextTask, queue, closed, inMap, status, flag, wpc, wtask,
                   cpc, ctask, seenQueued, cancelled, runs>>

\* Look the popped handle up under the read lock; a miss is `continue`
\* (193-200).
WorkerLookup(w) ==
    /\ wpc[w] = "lookup"
    /\ IF wtask[w] \in inMap
          THEN /\ wpc' = [wpc EXCEPT ![w] = "check"]
               /\ UNCHANGED wtask
          ELSE /\ wpc' = [wpc EXCEPT ![w] = "loop"]
               /\ wtask' = [wtask EXCEPT ![w] = NoTask]
    /\ UNCHANGED <<nextTask, queue, closed, inMap, status, flag, waitSet, cpc,
                   ctask, seenQueued, cancelled, runs>>

\* Cancelled before it ran: set Cancelled and continue (202-205).
WorkerSkipCancelled(w) ==
    /\ wpc[w] = "check"
    /\ LET h == wtask[w] IN
       /\ flag[h] \/ status[h] = Cancelled
       /\ status' = [status EXCEPT ![h] = Cancelled]
    /\ wpc' = [wpc EXCEPT ![w] = "loop"]
    /\ wtask' = [wtask EXCEPT ![w] = NoTask]
    /\ UNCHANGED <<nextTask, queue, closed, inMap, flag, waitSet, cpc, ctask,
                   seenQueued, cancelled, runs>>

WorkerStart(w) ==
    /\ wpc[w] = "check"
    /\ LET h == wtask[w] IN ~flag[h] /\ status[h] # Cancelled
    /\ wpc' = [wpc EXCEPT ![w] = "run"]
    /\ UNCHANGED <<nextTask, queue, closed, inMap, status, flag, waitSet,
                   wtask, cpc, ctask, seenQueued, cancelled, runs>>

\* task.set_status(Running) (207), a separate acquisition of the mutex.
WorkerRun(w) ==
    /\ wpc[w] = "run"
    /\ status' = [status EXCEPT ![wtask[w]] = Running]
    /\ runs' = [runs EXCEPT ![wtask[w]] = @ + 1]
    /\ wpc' = [wpc EXCEPT ![w] = "finish"]
    /\ UNCHANGED <<nextTask, queue, closed, inMap, flag, waitSet, wtask, cpc,
                   ctask, seenQueued, cancelled>>

\* Bug variant: the cancel flag is not tested again after the task ran.
WorkerFinishNoRecheck(w) ==
    /\ wpc[w] = "finish"
    /\ status' = [status EXCEPT ![wtask[w]] = Completed]
    /\ wpc' = [wpc EXCEPT ![w] = "loop"]
    /\ wtask' = [wtask EXCEPT ![w] = NoTask]
    /\ UNCHANGED <<nextTask, queue, closed, inMap, flag, waitSet, cpc, ctask,
                   seenQueued, cancelled, runs>>

\* After the (placeholder) evaluation: Cancelled or Completed (214-218).
WorkerFinish(w) ==
    /\ wpc[w] = "finish"
    /\ LET h == wtask[w] IN
       status' = [status EXCEPT ![h] = IF flag[h] THEN Cancelled ELSE Completed]
    /\ wpc' = [wpc EXCEPT ![w] = "loop"]
    /\ wtask' = [wtask EXCEPT ![w] = NoTask]
    /\ UNCHANGED <<nextTask, queue, closed, inMap, flag, waitSet, cpc, ctask,
                   seenQueued, cancelled, runs>>

-----------------------------------------------------------------------------
\* The steps of a call already in progress: a running thread finishes them.
ClientContinue(c) ==
    \/ SpawnPush(c) \/ SpawnInsert(c) \/ SpawnNotify(c)
    \/ CancelFlag(c) \/ CancelRead(c) \/ CancelSet(c)
    \/ CloseNotify(c)

\* Starting a new call is the caller's choice and is never forced.
ClientCall(c) ==
    \/ SpawnAlloc(c)
    \/ \E h \in Handles : CancelLookup(c, h)
    \/ Close(c)

WorkerStep(w) ==
    \/ WorkerWait(w) \/ WorkerExit(w) \/ WorkerPop(w) \/ WorkerWake(w)
    \/ WorkerLookup(w) \/ WorkerSkipCancelled(w) \/ WorkerStart(w)
    \/ WorkerRun(w) \/ WorkerFinish(w)

Next ==
    \/ \E c \in Clients : ClientCall(c) \/ ClientContinue(c)
    \/ \E w \in Workers : WorkerStep(w) \/ SpuriousWakeup(w)

\* Threads are scheduled by the OS: a thread that can take its next step
\* eventually does.  Spurious wakeups and new calls are not forced.
Fairness ==
    /\ \A c \in Clients : WF_vars(ClientContinue(c))
    /\ \A w \in Workers : WF_vars(WorkerStep(w))

Spec == Init /\ [][Next]_vars /\ Fairness

-----------------------------------------------------------------------------
(* Properties.                                                             *)

\* If cancel() saw the task still Queued, the task never ends Completed:
\* the flag set before that read is seen by the worker's check after
\* set_status(Running) (lines 146-149 against 202-218).
CancelBeforeStartWins ==
    \A h \in seenQueued : status[h] # Completed

\* No handle is ever run twice: the handle counter, the FIFO queue and the
\* map lookup hand each task to exactly one worker (113, 186, 195, 207).
RunAtMostOnce ==
    \A h \in Handles : runs[h] <= 1

\* Once cancel() has returned true for a task, the task eventually has a
\* final status, whether it was queued, running or never handed to a
\* worker (146-151 with 202-218).
CancelledTaskSettles ==
    \A h \in Handles : (h \in cancelled) ~> (status[h] \in Terminal)

\* After close(), every worker thread eventually returns from its loop:
\* close sets the flag under the mutex and wakes all waiters (159-164,
\* 175-184).
WorkersExitAfterClose ==
    closed ~> (\A w \in Workers : wpc[w] = "exit")

\* A task visible in the map with status Queued is still on its way to a
\* worker: in the queue or held by one.  The worker loop drops a handle it
\* cannot find in the map (198-200); spawn pushes the handle (124) before
\* inserting the entry (129).
QueuedTaskNotLost ==
    \A h \in inMap :
        status[h] = Queued => (h \in QueuedHandles \/ \E w \in Workers : wtask[w] = h)

=============================================================================
