--------------------------- MODULE DatabaseHealth ---------------------------
(***************************************************************************)
(* The database health cell, the recovery supervisor and the ledger        *)
(* operations that report to them (src/src/db.rs, src/src/ledger.rs).      *)
(*                                                                         *)
(* DatabaseHealth is one atomic status plus one tokio Notify. A ledger     *)
(* operation that returns reports: a success swaps the status to Ready, a  *)
(* failure swaps it to Degraded and THEN calls notify_one. A lookup that   *)
(* is dropped with its client's handler reports nothing. The supervisor    *)
(* migrates until it succeeds and then waits. Each atomic access is one    *)
(* action here, so that every interleaving of tasks and supervisor is      *)
(* explored.                                                               *)
(***************************************************************************)
EXTENDS Integers

CONSTANTS
    Tasks,           \* concurrent ledger operations
    MaxDoublings     \* doublings from INITIAL_ to MAX_RECOVERY_BACKOFF

ASSUME MaxDoublingsAssumption == MaxDoublings \in Nat

VARIABLES
    status,      \* DatabaseHealthInner::status
    permit,      \* the stored permit of recovery_requested: Notify
    supervisor,  \* where supervise_with stands
    backoff,     \* recovery_backoff, as doublings of INITIAL_RECOVERY_BACKOFF
    task,        \* where each ledger operation stands
    reachable,   \* PostgreSQL answers and accepts the migrations (environment)
    failures,    \* ghost: migrations failed in a row, counted to MaxDoublings + 1
    reported     \* ghost: a ledger failure was reported since the last migration

ghosts == <<failures, reported>>

vars == <<status, permit, supervisor, backoff, task, reachable, failures, reported>>

Statuses == {"Starting", "Ready", "Degraded"}

\* Points of supervise_with: inside recover(); holding Ok or Err; between the
\* swap and the notify of report_failure; in sleep(); about to load the status
\* in wait_for_recovery_request; having loaded Ready and about to poll
\* notified(); registered there as its waiter.
SupervisorPoints ==
    {"recovering", "migrated", "migrationFailed", "notifying", "sleeping",
     "checking", "entering", "waiting"}

\* wait_for_recovery_request
Waiting == {"checking", "entering", "waiting"}

\* Points of Ledger::insert and Ledger::fetch: no operation; statement in
\* flight; holding Ok or Err; between the swap and the notify.
TaskPoints == {"idle", "running", "succeeded", "failed", "notifying"}

TypeOK ==
    /\ status \in Statuses
    /\ permit \in BOOLEAN
    /\ supervisor \in SupervisorPoints
    /\ backoff \in 0..MaxDoublings
    /\ task \in [Tasks -> TaskPoints]
    /\ reachable \in BOOLEAN
    /\ failures \in 0..(MaxDoublings + 1)
    /\ reported \in BOOLEAN

\* main.rs starts the service with DatabaseHealth::starting() and spawns the
\* supervisor, whose first statement of interest is recover().
Init ==
    /\ status = "Starting"
    /\ permit = FALSE
    /\ supervisor = "recovering"
    /\ backoff = 0
    /\ task = [t \in Tasks |-> "idle"]
    /\ reachable \in BOOLEAN
    /\ failures = 0
    /\ reported = FALSE

-----------------------------------------------------------------------------
(* DatabaseHealth's methods, as their atomic effects.                      *)

ReportReady == status' = "Ready"

ReportFailureSwap == status' = "Degraded"

\* Notify::notify_one: the registered waiter is woken; with nobody registered
\* one permit is stored, and a stored permit absorbs further ones.  The only
\* waiter is the supervisor.
NotifyOne ==
    IF supervisor = "waiting"
    THEN permit' = permit /\ supervisor' = "checking"
    ELSE permit' = TRUE /\ supervisor' = supervisor

-----------------------------------------------------------------------------
(* Ledger operations.                                                      *)

StartOperation(t) ==
    /\ task[t] = "idle"
    /\ task' = [task EXCEPT ![t] = "running"]
    /\ UNCHANGED <<status, permit, supervisor, backoff, reachable, ghosts>>

\* The statement is answered before LEDGER_OPERATION_TIMEOUT.
OperationSucceeds(t) ==
    /\ task[t] = "running"
    /\ reachable
    /\ task' = [task EXCEPT ![t] = "succeeded"]
    /\ UNCHANGED <<status, permit, supervisor, backoff, reachable, ghosts>>

\* Any sqlx error and the two-second timeout, which becomes PoolTimedOut.  A
\* statement also fails on a reachable database (a duplicate id, a full pool).
OperationFails(t) ==
    /\ task[t] = "running"
    /\ task' = [task EXCEPT ![t] = "failed"]
    /\ UNCHANGED <<status, permit, supervisor, backoff, reachable, ghosts>>

\* The future is dropped at its only await, with the handler of a client that
\* left: neither arm of the match runs.
OperationIsDropped(t) ==
    /\ task[t] = "running"
    /\ task' = [task EXCEPT ![t] = "idle"]
    /\ UNCHANGED <<status, permit, supervisor, backoff, reachable, ghosts>>

TaskReportsReady(t) ==
    /\ task[t] = "succeeded"
    /\ ReportReady
    /\ task' = [task EXCEPT ![t] = "idle"]
    /\ UNCHANGED <<permit, supervisor, backoff, reachable, ghosts>>

TaskReportsFailure(t) ==
    /\ task[t] = "failed"
    /\ ReportFailureSwap
    /\ task' = [task EXCEPT ![t] = "notifying"]
    /\ reported' = TRUE
    /\ UNCHANGED <<permit, supervisor, backoff, reachable, failures>>

\* Mutant: report_failure ends without notify_one.
TaskEndsSilently(t) ==
    /\ task[t] = "notifying"
    /\ task' = [task EXCEPT ![t] = "idle"]
    /\ UNCHANGED <<status, permit, supervisor, backoff, reachable, ghosts>>

TaskNotifies(t) ==
    /\ task[t] = "notifying"
    /\ NotifyOne
    /\ task' = [task EXCEPT ![t] = "idle"]
    /\ UNCHANGED <<status, backoff, reachable, ghosts>>

-----------------------------------------------------------------------------
(* The supervisor.                                                         *)

MigrationSucceeds ==
    /\ supervisor = "recovering"
    /\ reachable
    /\ supervisor' = "migrated"
    /\ UNCHANGED <<status, permit, backoff, task, reachable, ghosts>>

MigrationFails ==
    /\ supervisor = "recovering"
    /\ ~reachable
    /\ supervisor' = "migrationFailed"
    /\ UNCHANGED <<status, permit, backoff, task, reachable, ghosts>>

\* Mutant: the backoff of the last outage is kept.
KeepBackoff ==
    /\ supervisor = "migrated"
    /\ ReportReady
    /\ failures' = 0
    /\ reported' = FALSE
    /\ supervisor' = "checking"
    /\ UNCHANGED <<permit, backoff, task, reachable>>

\* Mutant: a successful migration is not reported.
MigrateSilently ==
    /\ supervisor = "migrated"
    /\ backoff' = 0
    /\ failures' = 0
    /\ reported' = FALSE
    /\ supervisor' = "checking"
    /\ UNCHANGED <<status, permit, task, reachable>>

\* The Ok arm up to the await: report_ready, then the backoff starts afresh.
SupervisorReportsReady ==
    /\ supervisor = "migrated"
    /\ ReportReady
    /\ backoff' = 0
    /\ failures' = 0
    /\ reported' = FALSE
    /\ supervisor' = "checking"
    /\ UNCHANGED <<permit, task, reachable>>

\* Mutant: the loop waits for as long as the service has once started.
CheckStarted ==
    /\ supervisor = "checking"
    /\ supervisor' = IF status # "Starting" THEN "entering" ELSE "recovering"
    /\ UNCHANGED <<status, permit, backoff, task, reachable, ghosts>>

\* The loop head of wait_for_recovery_request: go on to the await while the
\* status is Ready, otherwise return to supervise_with and recover again.
CheckStatus ==
    /\ supervisor = "checking"
    /\ supervisor' = IF status = "Ready" THEN "entering" ELSE "recovering"
    /\ UNCHANGED <<status, permit, backoff, task, reachable, ghosts>>

\* Mutant: an if in place of the while, so that a stale permit recovers.
ConsumePermitUnchecked ==
    /\ supervisor = "entering"
    /\ permit
    /\ permit' = FALSE
    /\ supervisor' = "recovering"
    /\ UNCHANGED <<status, backoff, task, reachable, ghosts>>

\* notified().await with a stored permit returns at once and consumes it.
ConsumePermit ==
    /\ supervisor = "entering"
    /\ permit
    /\ permit' = FALSE
    /\ supervisor' = "checking"
    /\ UNCHANGED <<status, backoff, task, reachable, ghosts>>

\* Without one it registers as the waiter.
StartWaiting ==
    /\ supervisor = "entering"
    /\ ~permit
    /\ supervisor' = "waiting"
    /\ UNCHANGED <<status, permit, backoff, task, reachable, ghosts>>

SupervisorReportsFailure ==
    /\ supervisor = "migrationFailed"
    /\ ReportFailureSwap
    /\ supervisor' = "notifying"
    /\ failures' = IF failures > MaxDoublings THEN failures ELSE failures + 1
    /\ UNCHANGED <<permit, backoff, task, reachable, reported>>

\* The supervisor is not waiting here, so its own notification always stays
\* behind as a permit.
SupervisorNotifies ==
    /\ supervisor = "notifying"
    /\ permit' = TRUE
    /\ supervisor' = "sleeping"
    /\ UNCHANGED <<status, backoff, task, reachable, ghosts>>

\* Mutant: doubling without the cap.
BackoffUncapped ==
    /\ supervisor = "sleeping"
    /\ backoff' = backoff + 1
    /\ supervisor' = "recovering"
    /\ UNCHANGED <<status, permit, task, reachable, ghosts>>

\* The end of sleep(recovery_backoff), then min(2 * backoff, max_backoff).
BackoffElapses ==
    /\ supervisor = "sleeping"
    /\ backoff' = IF backoff = MaxDoublings THEN backoff ELSE backoff + 1
    /\ supervisor' = "recovering"
    /\ UNCHANGED <<status, permit, task, reachable, ghosts>>

-----------------------------------------------------------------------------
\* The environment: the database goes away and comes back.
ReachabilityChanges ==
    /\ reachable' = ~reachable
    /\ UNCHANGED <<status, permit, supervisor, backoff, task, ghosts>>

TaskStep(t) ==
    \/ StartOperation(t)
    \/ OperationSucceeds(t)
    \/ OperationFails(t)
    \/ OperationIsDropped(t)
    \/ TaskReportsReady(t)
    \/ TaskReportsFailure(t)
    \/ TaskNotifies(t)

SupervisorStep ==
    \/ MigrationSucceeds
    \/ MigrationFails
    \/ SupervisorReportsReady
    \/ CheckStatus
    \/ ConsumePermit
    \/ StartWaiting
    \/ SupervisorReportsFailure
    \/ SupervisorNotifies
    \/ BackoffElapses

Next ==
    \/ \E t \in Tasks : TaskStep(t)
    \/ SupervisorStep
    \/ ReachabilityChanges

Spec == Init /\ [][Next]_vars

\* A ledger operation always ends: the statement is answered, the timeout
\* fires, or the future is dropped.  Nothing forces a new one to start.
TaskProgress(t) == TaskStep(t) /\ task[t] # "idle"

\* The tokio runtime polls every ready task: the supervisor's and each running
\* ledger task's next step is taken eventually.  recover() is bounded by the
\* pool's acquire timeout and sleep() by max_backoff.
Fairness ==
    /\ WF_vars(SupervisorStep)
    /\ \A t \in Tasks : WF_vars(TaskProgress(t))

FairSpec == Spec /\ Fairness

-----------------------------------------------------------------------------
(* Properties.                                                             *)

\* A failure is never slept through by losing its wakeup: when the supervisor
\* goes to sleep or sleeps while the status is not Ready, a permit awaits it or
\* a task stands between its swap and its notify_one, and asleep it no longer
\* relies on a permit (report_failure / wait_for_recovery_request).
NoLostWakeup ==
    (supervisor \in {"entering", "waiting"} /\ status # "Ready")
        => ((supervisor = "entering" /\ permit) \/ \E t \in Tasks : task[t] = "notifying")

\* After n migrations failed in a row the supervisor sleeps 2^(n-1) initial
\* backoffs, capped, and a success in between starts the series afresh
\* (supervise_with).
BackoffFollowsFailures ==
    supervisor = "sleeping"
        => backoff = IF failures > MaxDoublings THEN MaxDoublings ELSE failures - 1

\* After a successful migration PostgreSQL is not contacted again until a
\* ledger operation reports a failure: a permit left over from an earlier
\* failure wakes the supervisor but never makes it migrate
\* (wait_for_recovery_request's while loop; README "does not periodically poll").
RecoversOnlyOnReport ==
    [][(/\ supervisor \in Waiting
        /\ supervisor' = "recovering") => reported]_vars

\* A degraded status does not last unattended: a recovery attempt starts, or a
\* later success overwrites it (report_failure / supervise_with).
DegradedIsAttended ==
    status = "Degraded" ~> (supervisor = "recovering" \/ status = "Ready")

\* Once the database stays reachable the status is Ready again and again,
\* however many operations fail meanwhile (supervise_with).
ReadyAgain == <>[]reachable => []<>(status = "Ready")

=============================================================================
