--------------------------- MODULE ThreadPoolProofs ---------------------------
(***************************************************************************)
(* The order in which the Engine's threads are taken down, proved for any  *)
(* number of workers and tasks.                                            *)
(*                                                                         *)
(* NothingLeftBehind is not inductive: that no task is posted behind the   *)
(* workers' back follows from where main is, and that a worker only leaves *)
(* an empty queue once stop_ is set.  PoolInv says both.                   *)
(***************************************************************************)
EXTENDS ThreadPool, TLAPS

\* stop_ has been set by main.
Stopping ==
    \/ main \in {"notifying", "joining_workers", "done"}
    \/ main = "joining_maintenance" /\ failed

\* main's place says which threads it has already joined.
JoinsInOrder ==
    /\ failed => main \notin {"starting", "serving"}
    /\ stop_ => Stopping
    /\ (~failed /\ main \in {"stopping", "notifying", "joining_workers"})
           => maintenance = "exited"
    /\ main = "done" => maintenance = "exited"
    /\ (main = "done" \/ (main = "joining_maintenance" /\ failed))
           => \A w \in Worker : worker[w] = "exited"

\* A worker only leaves for good, and leaves nothing to do.
WorkersLeaveLast ==
    /\ \A w \in Worker : worker[w] = "exited" => stop_
    /\ \A w \in Worker : worker[w] = "exited" /\ ~failed => tasks = 0

PoolInv == TypeOK /\ JoinsInOrder /\ WorkersLeaveLast

-----------------------------------------------------------------------------
\* The threads start with nothing joined and no worker gone.
LEMMA PoolInit == Init => PoolInv
<1> SUFFICES ASSUME Init PROVE PoolInv
  OBVIOUS
<1>1. TypeOK
  BY DEF Init, TypeOK
<1>2. \A w \in Worker : worker[w] = "top"
  BY DEF Init
<1>3. ~stop_ /\ ~failed /\ main = "starting"
  BY DEF Init
<1>4. JoinsInOrder
  BY <1>3 DEF JoinsInOrder
<1>5. WorkersLeaveLast
  BY <1>2 DEF WorkersLeaveLast
<1>6. QED
  BY <1>1, <1>4, <1>5 DEF PoolInv

\* workerLoop keeps the invariant.
LEMMA WorkersKeepPoolInv ==
    ASSUME PoolInv, NEW w \in Worker, WorkerStep(w) \/ SpuriousWakeup(w)
    PROVE  PoolInv'
<1>1. TypeOK'
  BY DEF PoolInv, TypeOK, WorkerStep, Take, Block, Finish, SpuriousWakeup
<1>2. \A v \in Worker : worker[v] = "exited" => worker'[v] = "exited"
  BY DEF PoolInv, TypeOK, WorkerStep, Take, Block, Finish, SpuriousWakeup
<1>3. JoinsInOrder'
  BY <1>2 DEF PoolInv, TypeOK, JoinsInOrder, Stopping,
              WorkerStep, Take, Block, Finish, SpuriousWakeup
<1>4. WorkersLeaveLast'
  BY DEF PoolInv, TypeOK, WorkersLeaveLast, WorkerStep, Take, Block, Finish,
         SpuriousWakeup
<1>5. QED
  BY <1>1, <1>3, <1>4 DEF PoolInv

\* The maintenance thread keeps it: while it posts, no worker has left, unless
\* the server did not start.
LEMMA MaintenanceKeepsPoolInv ==
    ASSUME PoolInv, MaintenanceStep
    PROVE  PoolInv'
<1>1. TypeOK'
  BY PoolAssumption
     DEF PoolInv, TypeOK, MaintenanceStep, CheckRunning, Push, NotifyOne, Sleep,
         Waiting
<1>2. \A v \in Worker : worker[v] = "exited" <=> worker'[v] = "exited"
  BY DEF PoolInv, TypeOK, MaintenanceStep, CheckRunning, Push, NotifyOne, Sleep,
         Waiting
<1>3. /\ maintenance # "exited"
      /\ UNCHANGED <<stop_, main, failed>>
  BY DEF MaintenanceStep, CheckRunning, Push, NotifyOne, Sleep
<1>4. JoinsInOrder'
  BY <1>2, <1>3 DEF PoolInv, TypeOK, JoinsInOrder, Stopping
<1>5. ASSUME NEW v \in Worker, worker[v] = "exited" PROVE failed
  BY <1>3, <1>5 DEF PoolInv, TypeOK, JoinsInOrder, WorkersLeaveLast, Stopping
<1>6. WorkersLeaveLast'
  BY <1>2, <1>3, <1>5 DEF PoolInv, WorkersLeaveLast
<1>7. QED
  BY <1>1, <1>4, <1>6 DEF PoolInv

\* main keeps it, on both paths out.
LEMMA MainKeepsPoolInv ==
    ASSUME PoolInv, Serve \/ ShutdownServer \/ TakeDown
    PROVE  PoolInv'
<1>1. TypeOK'
  BY DEF PoolInv, TypeOK, Serve, ShutdownServer, TakeDown, StartFails,
         JoinMaintenance, SetStop, NotifyAll, JoinWorkers, Waiting
<1>2. \A v \in Worker : worker[v] = "exited" <=> worker'[v] = "exited"
  BY DEF PoolInv, TypeOK, Serve, ShutdownServer, TakeDown, StartFails,
         JoinMaintenance, SetStop, NotifyAll, JoinWorkers, Waiting
<1>3. JoinsInOrder'
  BY <1>2 DEF PoolInv, TypeOK, JoinsInOrder, Stopping, Serve, ShutdownServer,
              TakeDown, StartFails, JoinMaintenance, SetStop, NotifyAll,
              JoinWorkers
<1>4. WorkersLeaveLast'
  BY <1>2 DEF PoolInv, TypeOK, JoinsInOrder, WorkersLeaveLast, Stopping, Serve,
              ShutdownServer, TakeDown, StartFails, JoinMaintenance, SetStop,
              NotifyAll, JoinWorkers
<1>5. QED
  BY <1>1, <1>3, <1>4 DEF PoolInv

\* PoolInv holds in every state the threads can reach.
THEOREM PoolInvariant == Spec => []PoolInv
<1>1. PoolInv /\ [Next]_vars => PoolInv'
  <2> SUFFICES ASSUME PoolInv, [Next]_vars PROVE PoolInv'
    OBVIOUS
  <2>1. CASE \E w \in Worker : WorkerStep(w) \/ SpuriousWakeup(w)
    BY <2>1, WorkersKeepPoolInv
  <2>2. CASE MaintenanceStep
    BY <2>2, MaintenanceKeepsPoolInv
  <2>3. CASE Serve \/ ShutdownServer \/ TakeDown
    BY <2>3, MainKeepsPoolInv
  <2>4. CASE UNCHANGED vars
    BY <2>4 DEF PoolInv, TypeOK, JoinsInOrder, WorkersLeaveLast, Stopping, vars
  <2>5. QED
    BY <2>1, <2>2, <2>3, <2>4 DEF Next
<1>2. QED
  BY PoolInit, <1>1, PTL DEF Spec

\* Every variable keeps its type: no worker pops from an empty queue, however
\* many workers there are (workerLoop).
THEOREM PoolTypes == Spec => []TypeOK
<1>1. PoolInv => TypeOK
  BY DEF PoolInv
<1>2. QED
  BY PoolInvariant, <1>1, PTL

\* When main returns, every thread has been joined, on both paths (main).
THEOREM NoThreadOutlivesMain == Spec => []NothingRunsAfterMain
<1>1. PoolInv => NothingRunsAfterMain
  BY DEF PoolInv, JoinsInOrder, NothingRunsAfterMain
<1>2. QED
  BY PoolInvariant, <1>1, PTL

\* After a regular shutdown the queue is empty (main, stop, workerLoop).
THEOREM NoTaskLeftBehind == Spec => []NothingLeftBehind
<1>1. PoolInv => NothingLeftBehind
  BY PoolAssumption DEF PoolInv, JoinsInOrder, WorkersLeaveLast, NothingLeftBehind
<1>2. QED
  BY PoolInvariant, <1>1, PTL

=============================================================================
