------------------------------ MODULE ThreadPool ------------------------------
(***************************************************************************)
(* The threads of the Engine process: SimpleThreadPool's workers, the      *)
(* maintenance thread that posts a task every 15 seconds, and main, which  *)
(* starts the server, waits for a signal and takes everything down, in one *)
(* order when it was serving and in another when the server did not start. *)
(*                                                                         *)
(* A critical section of mutex_ is one step; cv_.wait gives the mutex up   *)
(* and blocks in the same step, notify_one and notify_all are called       *)
(* without the mutex and are steps of their own.                           *)
(***************************************************************************)
EXTENDS Integers, FiniteSets

CONSTANTS
    Worker,    \* threads_
    MaxTasks   \* bound: tasks the maintenance thread posts

ASSUME PoolAssumption == Worker # {} /\ MaxTasks \in Nat

VARIABLES
    worker,         \* "top" of workerLoop, "waiting" on cv_, "running", "exited"
    tasks,          \* how many there are in tasks_
    stop_,
    maintenance,    \* where the maintenance thread is
    maint_running,
    main,           \* where main is
    failed,         \* BuildAndStart returned nullptr
    posted          \* history: tasks posted so far

vars == <<worker, tasks, stop_, maintenance, maint_running, main, failed, posted>>

Waiting == {w \in Worker : worker[w] = "waiting"}

Init ==
    /\ worker = [w \in Worker |-> "top"]
    /\ tasks = 0 /\ stop_ = FALSE
    /\ maintenance = "check" /\ maint_running = TRUE
    /\ main = "starting" /\ failed = FALSE
    /\ posted = 0

-----------------------------------------------------------------------------
(* workerLoop. *)

\* Mutant: wait without the predicate.
TakeUnchecked(w) ==
    /\ worker[w] = "top"
    /\ IF stop_ /\ tasks = 0
       THEN /\ worker' = [worker EXCEPT ![w] = "exited"]
            /\ UNCHANGED tasks
       ELSE /\ worker' = [worker EXCEPT ![w] = "running"]
            /\ tasks' = tasks - 1
    /\ UNCHANGED <<stop_, maintenance, maint_running, main, failed, posted>>

\* The predicate holds: leave, or take a task.
Take(w) ==
    /\ worker[w] = "top" /\ (stop_ \/ tasks > 0)
    /\ IF tasks = 0
       THEN /\ worker' = [worker EXCEPT ![w] = "exited"]
            /\ UNCHANGED tasks
       ELSE /\ worker' = [worker EXCEPT ![w] = "running"]
            /\ tasks' = tasks - 1
    /\ UNCHANGED <<stop_, maintenance, maint_running, main, failed, posted>>

Block(w) ==
    /\ worker[w] = "top" /\ ~stop_ /\ tasks = 0
    /\ worker' = [worker EXCEPT ![w] = "waiting"]
    /\ UNCHANGED <<tasks, stop_, maintenance, maint_running, main, failed, posted>>

\* The task prints the uptime; an exception is caught.
Finish(w) ==
    /\ worker[w] = "running"
    /\ worker' = [worker EXCEPT ![w] = "top"]
    /\ UNCHANGED <<tasks, stop_, maintenance, maint_running, main, failed, posted>>

SpuriousWakeup(w) ==
    /\ worker[w] = "waiting"
    /\ worker' = [worker EXCEPT ![w] = "top"]
    /\ UNCHANGED <<tasks, stop_, maintenance, maint_running, main, failed, posted>>

-----------------------------------------------------------------------------
(* The maintenance thread. *)

CheckRunning ==
    /\ maintenance = "check"
    /\ maintenance' = IF ~maint_running THEN "exited"
                      ELSE IF posted < MaxTasks THEN "push" ELSE "sleep"
    /\ UNCHANGED <<worker, tasks, stop_, maint_running, main, failed, posted>>

\* post, up to the end of its critical section.
Push ==
    /\ maintenance = "push"
    /\ tasks' = tasks + 1 /\ posted' = posted + 1
    /\ maintenance' = "notify"
    /\ UNCHANGED <<worker, stop_, maint_running, main, failed>>

\* Mutant: post does not notify.
NotifyNone ==
    /\ maintenance = "notify"
    /\ maintenance' = "sleep"
    /\ UNCHANGED <<worker, tasks, stop_, maint_running, main, failed, posted>>

\* notify_one.
NotifyOne ==
    /\ maintenance = "notify"
    /\ maintenance' = "sleep"
    /\ IF Waiting = {} THEN UNCHANGED worker
       ELSE \E w \in Waiting : worker' = [worker EXCEPT ![w] = "top"]
    /\ UNCHANGED <<tasks, stop_, maint_running, main, failed, posted>>

Sleep ==
    /\ maintenance = "sleep"
    /\ maintenance' = "check"
    /\ UNCHANGED <<worker, tasks, stop_, maint_running, main, failed, posted>>

-----------------------------------------------------------------------------
(* main. *)

\* BuildAndStart, where it succeeds and where it does not.
Serve ==
    /\ main = "starting"
    /\ main' = "serving"
    /\ UNCHANGED <<worker, tasks, stop_, maintenance, maint_running, failed, posted>>

StartFails ==
    /\ main = "starting"
    /\ main' = "stopping" /\ failed' = TRUE /\ maint_running' = FALSE
    /\ UNCHANGED <<worker, tasks, stop_, maintenance, posted>>

\* SIGINT or SIGTERM has been seen; Shutdown returns when the RPCs are over.
ShutdownServer ==
    /\ main = "serving"
    /\ main' = "joining_maintenance" /\ maint_running' = FALSE
    /\ UNCHANGED <<worker, tasks, stop_, maintenance, failed, posted>>

\* Mutant: main does not wait for the maintenance thread.
JoinMaintenanceEarly ==
    /\ main = "joining_maintenance"
    /\ main' = IF failed THEN "done" ELSE "stopping"
    /\ UNCHANGED <<worker, tasks, stop_, maintenance, maint_running, failed, posted>>

JoinMaintenance ==
    /\ main = "joining_maintenance" /\ maintenance = "exited"
    /\ main' = IF failed THEN "done" ELSE "stopping"
    /\ UNCHANGED <<worker, tasks, stop_, maintenance, maint_running, failed, posted>>

\* stop, up to the end of its critical section.
SetStop ==
    /\ main = "stopping"
    /\ stop_' = TRUE /\ main' = "notifying"
    /\ UNCHANGED <<worker, tasks, maintenance, maint_running, failed, posted>>

\* Mutant: notify_one in stop.
NotifyOneToStop ==
    /\ main = "notifying"
    /\ main' = "joining_workers"
    /\ IF Waiting = {} THEN UNCHANGED worker
       ELSE \E w \in Waiting : worker' = [worker EXCEPT ![w] = "top"]
    /\ UNCHANGED <<tasks, stop_, maintenance, maint_running, failed, posted>>

NotifyAll ==
    /\ main = "notifying"
    /\ main' = "joining_workers"
    /\ worker' = [w \in Worker |-> IF w \in Waiting THEN "top" ELSE worker[w]]
    /\ UNCHANGED <<tasks, stop_, maintenance, maint_running, failed, posted>>

\* When it was serving, main also joins the server thread, whose Wait has
\* returned since Shutdown.
JoinWorkers ==
    /\ main = "joining_workers" /\ \A w \in Worker : worker[w] = "exited"
    /\ main' = IF failed THEN "joining_maintenance" ELSE "done"
    /\ UNCHANGED <<worker, tasks, stop_, maintenance, maint_running, failed, posted>>

WorkerStep(w) == Take(w) \/ Block(w) \/ Finish(w)
MaintenanceStep == CheckRunning \/ Push \/ NotifyOne \/ Sleep
TakeDown ==
    StartFails \/ JoinMaintenance \/ SetStop \/ NotifyAll \/ JoinWorkers

Next ==
    \/ \E w \in Worker : WorkerStep(w) \/ SpuriousWakeup(w)
    \/ MaintenanceStep
    \/ Serve \/ ShutdownServer \/ TakeDown

Spec == Init /\ [][Next]_vars

\* Threads are scheduled and sleep_for returns.  Nobody promises a spurious
\* wakeup or a signal.
FairSpec ==
    /\ Spec
    /\ \A w \in Worker : WF_vars(WorkerStep(w))
    /\ WF_vars(MaintenanceStep)
    /\ WF_vars(Serve \/ TakeDown)

-----------------------------------------------------------------------------
(* Correctness. *)

\* Every variable keeps its type: no worker pops from an empty queue.
TypeOK ==
    /\ worker \in [Worker -> {"top", "waiting", "running", "exited"}]
    /\ tasks \in Nat /\ posted \in Nat
    /\ stop_ \in BOOLEAN /\ maint_running \in BOOLEAN /\ failed \in BOOLEAN
    /\ maintenance \in {"check", "push", "notify", "sleep", "exited"}
    /\ main \in {"starting", "serving", "stopping", "notifying",
                 "joining_workers", "joining_maintenance", "done"}

\* When main returns, no thread is left that could touch the pool or the
\* backend, which are destroyed next.
NothingRunsAfterMain ==
    main = "done" => /\ maintenance = "exited"
                     /\ \A w \in Worker : worker[w] = "exited"

\* After a regular shutdown no task is left behind, not even one posted while
\* the pool was being taken down.
NothingLeftBehind == (main = "done" /\ ~failed) => tasks = 0

\* A task is taken while the Engine serves, without the help of a spurious
\* wakeup: between push and notify_one no wakeup is lost.
TasksRun == (tasks > 0 /\ ~failed) ~> tasks = 0

\* Once taken down, the Engine stops: every join returns, on both paths.
ShutdownEnds == (main \in {"stopping", "joining_maintenance"}) ~> (main = "done")

=============================================================================
