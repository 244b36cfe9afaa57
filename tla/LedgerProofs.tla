----------------------------- MODULE LedgerProofs -----------------------------
(***************************************************************************)
(* Proofs about DatabaseHealth for any number of ledger tasks and any      *)
(* backoff limit, and about Ledger, which runs on it, for any number of    *)
(* concurrent operations, any generations, profiles and assignment of      *)
(* response ids, collisions included.                                      *)
(***************************************************************************)
EXTENDS Ledger, TLAPS

-----------------------------------------------------------------------------
(* DatabaseHealth.                                                         *)

\* The backoff and the failure count start inside their ranges.
LEMMA ZeroInRange == 0 \in 0..MaxDoublings /\ 0 \in 0..(MaxDoublings + 1)
  BY MaxDoublingsAssumption

\* The initial state has its types (booleans and numbers are proved apart).
LEMMA InitTypeOK == Init => TypeOK
<1> SUFFICES ASSUME Init PROVE TypeOK
  OBVIOUS
<1>1. permit \in BOOLEAN /\ reachable \in BOOLEAN /\ reported \in BOOLEAN
  BY Zenon DEF Init
<1>2. backoff \in 0..MaxDoublings /\ failures \in 0..(MaxDoublings + 1)
  BY ZeroInRange DEF Init
<1>3. /\ status \in Statuses
      /\ supervisor \in SupervisorPoints
      /\ task \in [Tasks -> TaskPoints]
  BY DEF Init, Statuses, SupervisorPoints, TaskPoints
<1>4. QED
  BY <1>1, <1>2, <1>3 DEF TypeOK

\* A ledger task's step keeps every variable in its type.
LEMMA TaskStepTypeOK ==
    ASSUME TypeOK, NEW t \in Tasks, TaskStep(t)
    PROVE  TypeOK'
<1> USE DEF TypeOK, Statuses, SupervisorPoints, TaskPoints, ghosts
<1>1. CASE StartOperation(t)
  BY <1>1 DEF StartOperation
<1>2. CASE OperationSucceeds(t)
  BY <1>2 DEF OperationSucceeds
<1>3. CASE OperationFails(t)
  BY <1>3 DEF OperationFails
<1>4. CASE TaskReportsReady(t)
  BY <1>4 DEF TaskReportsReady, ReportReady
<1>5. CASE TaskReportsFailure(t)
  BY <1>5 DEF TaskReportsFailure, ReportFailureSwap
<1>6. CASE TaskNotifies(t)
  BY <1>6 DEF TaskNotifies, NotifyOne
<1>7. CASE OperationIsDropped(t)
  BY <1>7 DEF OperationIsDropped
<1>8. QED
  BY <1>1, <1>2, <1>3, <1>4, <1>5, <1>6, <1>7 DEF TaskStep

\* A supervisor step keeps every variable in its type; the backoff stops at
\* max_backoff.
LEMMA SupervisorStepTypeOK ==
    ASSUME TypeOK, SupervisorStep
    PROVE  TypeOK'
<1> USE MaxDoublingsAssumption DEF TypeOK, Statuses, SupervisorPoints, ghosts
<1>1. CASE MigrationSucceeds
  BY <1>1 DEF MigrationSucceeds
<1>2. CASE MigrationFails
  BY <1>2 DEF MigrationFails
<1>3. CASE SupervisorReportsReady
  <2>1. reported' \in BOOLEAN
    BY <1>3, Zenon DEF SupervisorReportsReady
  <2>2. backoff' \in 0..MaxDoublings /\ failures' \in 0..(MaxDoublings + 1)
    BY <1>3, ZeroInRange DEF SupervisorReportsReady
  <2>3. QED
    BY <1>3, <2>1, <2>2 DEF SupervisorReportsReady, ReportReady
<1>4. CASE CheckStatus
  BY <1>4 DEF CheckStatus
<1>5. CASE ConsumePermit
  BY <1>5 DEF ConsumePermit
<1>6. CASE StartWaiting
  BY <1>6 DEF StartWaiting
<1>7. CASE SupervisorReportsFailure
  BY <1>7 DEF SupervisorReportsFailure, ReportFailureSwap
<1>8. CASE SupervisorNotifies
  BY <1>8 DEF SupervisorNotifies
<1>9. CASE BackoffElapses
  BY <1>9 DEF BackoffElapses
<1>10. QED
  BY <1>1, <1>2, <1>3, <1>4, <1>5, <1>6, <1>7, <1>8, <1>9 DEF SupervisorStep

\* Every step keeps every variable in its type.
LEMMA TypeStep ==
    ASSUME TypeOK, [Next]_vars
    PROVE  TypeOK'
<1>1. ASSUME NEW t \in Tasks, TaskStep(t) PROVE TypeOK'
  BY <1>1, TaskStepTypeOK
<1>2. CASE SupervisorStep
  BY <1>2, SupervisorStepTypeOK
<1>3. CASE ReachabilityChanges
  BY <1>3 DEF ReachabilityChanges, TypeOK, ghosts
<1>4. CASE UNCHANGED vars
  BY <1>4 DEF vars, TypeOK
<1>5. QED
  BY <1>1, <1>2, <1>3, <1>4 DEF Next

\* Type correctness of the health cell, the supervisor and the ledger tasks.
THEOREM TypeCorrect == Spec => []TypeOK
  BY TypeStep, InitTypeOK, PTL DEF Spec

-----------------------------------------------------------------------------
(* No wakeup is lost.  NoLostWakeup is inductive once types are known: the *)
(* supervisor enters the await only on a Ready status, every swap to       *)
(* Degraded leaves its task at "notifying" until it has notified, and a    *)
(* notification is kept as a permit until the supervisor is registered.    *)

LEMMA TaskStepKeepsWakeup ==
    ASSUME TypeOK, NoLostWakeup, NEW t \in Tasks, TaskStep(t)
    PROVE  NoLostWakeup'
<1> USE DEF TypeOK, NoLostWakeup
<1>1. CASE StartOperation(t)
  BY <1>1 DEF StartOperation
<1>2. CASE OperationSucceeds(t)
  BY <1>2 DEF OperationSucceeds
<1>3. CASE OperationFails(t)
  BY <1>3 DEF OperationFails
<1>4. CASE TaskReportsReady(t)
  BY <1>4 DEF TaskReportsReady, ReportReady
<1>5. CASE TaskReportsFailure(t)
  <2>1. task'[t] = "notifying"
    BY <1>5 DEF TaskReportsFailure
  <2>2. QED
    BY <2>1
<1>6. CASE TaskNotifies(t)
  <2>1. CASE supervisor = "waiting"
    BY <1>6, <2>1 DEF TaskNotifies, NotifyOne
  <2>2. CASE supervisor # "waiting"
    BY <1>6, <2>2 DEF TaskNotifies, NotifyOne
  <2>3. QED
    BY <2>1, <2>2
<1>7. CASE OperationIsDropped(t)
  BY <1>7 DEF OperationIsDropped
<1>8. QED
  BY <1>1, <1>2, <1>3, <1>4, <1>5, <1>6, <1>7 DEF TaskStep

LEMMA SupervisorStepKeepsWakeup ==
    ASSUME TypeOK, NoLostWakeup, SupervisorStep
    PROVE  NoLostWakeup'
<1> USE DEF TypeOK, NoLostWakeup
<1>1. CASE MigrationSucceeds
  BY <1>1 DEF MigrationSucceeds
<1>2. CASE MigrationFails
  BY <1>2 DEF MigrationFails
<1>3. CASE SupervisorReportsReady
  BY <1>3 DEF SupervisorReportsReady
<1>4. CASE CheckStatus
  BY <1>4 DEF CheckStatus
<1>5. CASE ConsumePermit
  BY <1>5 DEF ConsumePermit
<1>6. CASE StartWaiting
  BY <1>6 DEF StartWaiting
<1>7. CASE SupervisorReportsFailure
  BY <1>7 DEF SupervisorReportsFailure
<1>8. CASE SupervisorNotifies
  BY <1>8 DEF SupervisorNotifies
<1>9. CASE BackoffElapses
  BY <1>9 DEF BackoffElapses
<1>10. QED
  BY <1>1, <1>2, <1>3, <1>4, <1>5, <1>6, <1>7, <1>8, <1>9 DEF SupervisorStep

\* report_failure's swap-then-notify against wait_for_recovery_request's
\* check-then-await never leaves the supervisor asleep on a degraded status
\* without a wakeup under way, for any number of concurrent ledger tasks.
THEOREM WakeupsAreNotLost == Spec => []NoLostWakeup
<1>1. Init => NoLostWakeup
  BY DEF Init, NoLostWakeup
<1>2. TypeOK /\ NoLostWakeup /\ [Next]_vars => NoLostWakeup'
  <2> SUFFICES ASSUME TypeOK, NoLostWakeup, [Next]_vars PROVE NoLostWakeup'
    OBVIOUS
  <2>1. ASSUME NEW t \in Tasks, TaskStep(t) PROVE NoLostWakeup'
    BY <2>1, TaskStepKeepsWakeup
  <2>2. CASE SupervisorStep
    BY <2>2, SupervisorStepKeepsWakeup
  <2>3. CASE ReachabilityChanges
    BY <2>3 DEF ReachabilityChanges, NoLostWakeup
  <2>4. CASE UNCHANGED vars
    BY <2>4 DEF vars, NoLostWakeup
  <2>5. QED
    BY <2>1, <2>2, <2>3, <2>4 DEF Next
<1>3. QED
  BY <1>1, <1>2, TypeCorrect, PTL DEF Spec

-----------------------------------------------------------------------------
(* The backoff series.  Between two sleeps the backoff has already been    *)
(* doubled, and it is reset together with the count of failures.           *)

Doublings(n) == IF n > MaxDoublings THEN MaxDoublings ELSE n

\* The strengthening of BackoffFollowsFailures: the backoff at every point of
\* the supervisor, not only while it sleeps.
BackoffInv ==
    /\ supervisor \in {"recovering", "migrated", "migrationFailed"}
           => backoff = Doublings(failures)
    /\ supervisor \in {"notifying", "sleeping"}
           => /\ failures >= 1
              /\ backoff = IF failures > MaxDoublings
                           THEN MaxDoublings ELSE failures - 1
    /\ supervisor \in Waiting => backoff = 0 /\ failures = 0

\* No step outside the supervisor's loop touches the backoff series; a
\* notification can move the supervisor from its await to its check only.
LEMMA TaskStepKeepsBackoff ==
    ASSUME BackoffInv, NEW t \in Tasks, TaskStep(t)
    PROVE  BackoffInv'
<1>1. /\ backoff' = backoff
      /\ failures' = failures
      /\ \/ supervisor' = supervisor
         \/ supervisor = "waiting" /\ supervisor' = "checking"
  BY DEF TaskStep, StartOperation, OperationSucceeds, OperationFails,
         OperationIsDropped, TaskReportsReady, TaskReportsFailure, TaskNotifies, NotifyOne, ghosts
<1>2. QED
  BY <1>1 DEF BackoffInv, Doublings, Waiting

LEMMA SupervisorStepKeepsBackoff ==
    ASSUME TypeOK, BackoffInv, SupervisorStep
    PROVE  BackoffInv'
<1> USE MaxDoublingsAssumption DEF BackoffInv, Doublings, Waiting, ghosts
<1>0. failures \in Nat /\ backoff \in Nat /\ supervisor \in SupervisorPoints
  BY DEF TypeOK
<1>1. CASE MigrationSucceeds
  BY <1>1 DEF MigrationSucceeds
<1>2. CASE MigrationFails
  BY <1>2 DEF MigrationFails
<1>3. CASE SupervisorReportsReady
  BY <1>3 DEF SupervisorReportsReady
<1>4. CASE CheckStatus
  <2>1. backoff = 0 /\ failures = 0 /\ backoff' = 0 /\ failures' = 0
    BY <1>4 DEF CheckStatus
  <2>2. supervisor' \in {"entering", "recovering"}
    BY <1>4 DEF CheckStatus
  <2>3. QED
    BY <2>1, <2>2
<1>5. CASE ConsumePermit
  BY <1>5 DEF ConsumePermit
<1>6. CASE StartWaiting
  BY <1>6 DEF StartWaiting
<1>7. CASE SupervisorReportsFailure
  BY <1>0, <1>7 DEF SupervisorReportsFailure
<1>8. CASE SupervisorNotifies
  BY <1>8 DEF SupervisorNotifies
<1>9. CASE BackoffElapses
  BY <1>0, <1>9 DEF BackoffElapses
<1>10. QED
  BY <1>1, <1>2, <1>3, <1>4, <1>5, <1>6, <1>7, <1>8, <1>9 DEF SupervisorStep

\* supervise_with doubles its backoff with every failed migration up to the
\* maximum and starts afresh after a success, whatever the maximum is.
THEOREM BackoffIsCapped == Spec => []BackoffFollowsFailures
<1>1. Init => BackoffInv
  BY MaxDoublingsAssumption DEF Init, BackoffInv, Doublings, Waiting
<1>2. TypeOK /\ BackoffInv /\ [Next]_vars => BackoffInv'
  <2> SUFFICES ASSUME TypeOK, BackoffInv, [Next]_vars PROVE BackoffInv'
    OBVIOUS
  <2>1. ASSUME NEW t \in Tasks, TaskStep(t) PROVE BackoffInv'
    BY <2>1, TaskStepKeepsBackoff
  <2>2. CASE SupervisorStep
    BY <2>2, SupervisorStepKeepsBackoff
  <2>3. CASE ReachabilityChanges
    BY <2>3 DEF ReachabilityChanges, BackoffInv, Doublings, ghosts
  <2>4. CASE UNCHANGED vars
    BY <2>4 DEF vars, BackoffInv, Doublings
  <2>5. QED
    BY <2>1, <2>2, <2>3, <2>4 DEF Next
<1>3. BackoffInv => BackoffFollowsFailures
  BY DEF BackoffInv, BackoffFollowsFailures
<1>4. QED
  BY <1>1, <1>2, <1>3, TypeCorrect, PTL DEF Spec

-----------------------------------------------------------------------------
(* Recovery is event driven.                                               *)

\* While the supervisor is done migrating, only a ledger task can have made
\* the status anything but Ready.
ReportedInv ==
    (supervisor \in Waiting /\ status # "Ready") => reported

\* A supervisor that sleeps after a success migrates again only when a ledger
\* operation reported a failure since that success: stale permits are harmless.
THEOREM RecoveryIsEventDriven == Spec => RecoversOnlyOnReport
<1>1. Init => ReportedInv
  BY DEF Init, ReportedInv, Waiting
<1>2. ReportedInv /\ [Next]_vars => ReportedInv'
  <2> SUFFICES ASSUME ReportedInv, [Next]_vars PROVE ReportedInv'
    OBVIOUS
  <2> USE DEF ReportedInv, Waiting, ghosts
  <2>1. ASSUME NEW t \in Tasks, TaskStep(t) PROVE ReportedInv'
    BY <2>1 DEF TaskStep, StartOperation, OperationSucceeds, OperationFails,
                OperationIsDropped, TaskReportsReady, ReportReady, TaskReportsFailure,
                TaskNotifies, NotifyOne
  <2>2. CASE SupervisorStep
    BY <2>2 DEF SupervisorStep, MigrationSucceeds, MigrationFails,
                SupervisorReportsReady, ReportReady, CheckStatus, ConsumePermit,
                StartWaiting, SupervisorReportsFailure, SupervisorNotifies, BackoffElapses
  <2>3. CASE ReachabilityChanges
    BY <2>3 DEF ReachabilityChanges
  <2>4. CASE UNCHANGED vars
    BY <2>4 DEF vars
  <2>5. QED
    BY <2>1, <2>2, <2>3, <2>4 DEF Next
<1>3. ReportedInv /\ [Next]_vars
          => [(/\ supervisor \in Waiting
               /\ supervisor' = "recovering") => reported]_vars
  <2> SUFFICES ASSUME ReportedInv, [Next]_vars,
                      supervisor \in Waiting,
                      supervisor' = "recovering"
               PROVE  reported
    OBVIOUS
  <2>1. CheckStatus
    BY DEF Waiting, Next, vars, TaskStep, StartOperation, OperationSucceeds,
           OperationFails, OperationIsDropped, TaskReportsReady, TaskReportsFailure,
           TaskNotifies, NotifyOne, SupervisorStep, MigrationSucceeds, MigrationFails,
           SupervisorReportsReady, ConsumePermit, StartWaiting,
           SupervisorReportsFailure, SupervisorNotifies, BackoffElapses, ReachabilityChanges
  <2>2. QED
    BY <2>1 DEF CheckStatus, ReportedInv
<1>4. QED
  BY <1>1, <1>2, <1>3, PTL DEF Spec, RecoversOnlyOnReport

-----------------------------------------------------------------------------
(* The ledger on the health cell.                                          *)

\* A step of the ledger is a step of DatabaseHealth or does not touch it.
LEMMA LedgerStepIsHealthStep ==
    ASSUME [LedgerNext]_allVars
    PROVE  [Next]_vars
<1>1. ASSUME NEW t \in Tasks,
             \/ \E g \in Generations : StartInsert(t, g)
             \/ \E i \in Ids, p \in Profiles : StartFetch(t, i, p)
             \/ OperationStep(t)
      PROVE  TaskStep(t)
  BY <1>1 DEF StartInsert, StartFetch, OperationStep, InsertCommits, InsertIsDuplicate,
     InsertIsLost, InsertTimesOut, FetchAnswers, FetchFails, FetchIsDropped, ReportSuccess,
     ReportError,
     ReportErrorNotifies, TaskStep
<1>2. ASSUME NEW g \in Generations, AbandonedInsertEnds(g)
      PROVE  UNCHANGED vars
  BY <1>2 DEF AbandonedInsertEnds
<1>3. QED
  BY <1>1, <1>2 DEF LedgerNext, Next, allVars

\* No wakeup is lost under the ledger's own operations, dropped lookups
\* included.
THEOREM LedgerWakeups == LedgerSpec => []NoLostWakeup
<1>1. LedgerInit => Init
  BY DEF LedgerInit
<1>2. QED
  BY <1>1, LedgerStepIsHealthStep, WakeupsAreNotLost, PTL DEF LedgerSpec, Spec

-----------------------------------------------------------------------------
(* Types.                                                                  *)

\* What a task's statement is about.
LEMMA OpCases ==
    ASSUME NEW o \in Ops
    PROVE  /\ o.kind = "insert" => o.generation \in Generations /\ o = InsertOp(o.generation)
           /\ o.kind = "fetch" => /\ o.id \in Ids /\ o.profile \in Profiles
                                  /\ o.found \in Generations \cup {NoRow}
                                  /\ o = FetchOp(o.id, o.profile, o.found)
<1>1. CASE o = NoOp
  BY <1>1 DEF NoOp
<1>2. ASSUME NEW g \in Generations, o = InsertOp(g)
      PROVE  o.kind = "insert" /\ o.generation = g
  BY <1>2 DEF InsertOp
<1>3. ASSUME NEW i \in Ids, NEW p \in Profiles, NEW f \in Generations \cup {NoRow},
             o = FetchOp(i, p, f)
      PROVE  o.kind = "fetch" /\ o.id = i /\ o.profile = p /\ o.found = f
  BY <1>3 DEF FetchOp
<1>4. QED
  BY <1>1, <1>2, <1>3 DEF Ops

LEMMA OpTypes ==
    /\ NoOp \in Ops
    /\ \A g \in Generations : InsertOp(g) \in Ops
    /\ \A i \in Ids, p \in Profiles, f \in Generations \cup {NoRow} : FetchOp(i, p, f) \in Ops
  BY DEF Ops

\* Storing a row and looking one up.
LEMMA StoreType ==
    ASSUME rows \in [Ids -> Generations \cup {NoRow}], NEW g \in Generations, StoreRow(g)
    PROVE  rows' \in [Ids -> Generations \cup {NoRow}] /\ rows'[IdOf[g]] = g
  BY LedgerAssumption DEF StoreRow

LEMMA LookupFacts ==
    ASSUME rows \in [Ids -> Generations \cup {NoRow}], NEW i \in Ids, NEW p \in Profiles
    PROVE  /\ Lookup(i, p) \in Generations \cup {NoRow}
           /\ Lookup(i, p) # NoRow => rows[i] = Lookup(i, p) /\ ProfileOf[Lookup(i, p)] = p
  BY DEF Lookup

\* The answer of a lookup replaces the task's statement by the same one, answered.
LEMMA FetchUpdate ==
    ASSUME op \in [Tasks -> Ops], NEW t \in Tasks, IsFetch(t), NEW f \in Generations \cup {NoRow},
           op' = [op EXCEPT ![t].found = f]
    PROVE  op' = [op EXCEPT ![t] = FetchOp(op[t].id, op[t].profile, f)]
<1>1. op[t] = FetchOp(op[t].id, op[t].profile, op[t].found)
  BY OpCases DEF IsFetch
<1>2. [op[t] EXCEPT !.found = f] = FetchOp(op[t].id, op[t].profile, f)
  BY <1>1 DEF FetchOp
<1>3. QED
  BY <1>2

LEMMA LedgerTypeStep ==
    ASSUME LedgerTypeOK, [LedgerNext]_allVars
    PROVE  LedgerTypeOK'
<1>1. TypeOK'
  BY LedgerStepIsHealthStep, TypeStep DEF LedgerTypeOK
<1>2. ASSUME NEW t \in Tasks, NEW g \in Generations, StartInsert(t, g)
      PROVE  LedgerTypeOK'
  BY <1>1, <1>2, OpTypes DEF StartInsert, LedgerTypeOK
<1>3. ASSUME NEW t \in Tasks, NEW i \in Ids, NEW p \in Profiles, StartFetch(t, i, p)
      PROVE  LedgerTypeOK'
  BY <1>1, <1>3, OpTypes DEF StartFetch, LedgerTypeOK
<1>4. ASSUME NEW t \in Tasks, OperationStep(t)
      PROVE  LedgerTypeOK'
  <2>1. op[t] \in Ops
    BY DEF LedgerTypeOK
  <2>2. CASE InsertCommits(t)
    BY <1>1, <2>1, <2>2, OpCases, StoreType DEF InsertCommits, IsInsert, LedgerTypeOK
  <2>3. CASE InsertTimesOut(t)
    BY <1>1, <2>1, <2>3, OpCases DEF InsertTimesOut, IsInsert, LedgerTypeOK
  <2>4. CASE FetchAnswers(t)
    <3>1. op[t].id \in Ids /\ op[t].profile \in Profiles /\ IsFetch(t)
      BY <2>1, <2>4, OpCases DEF FetchAnswers, IsFetch
    <3>2. Lookup(op[t].id, op[t].profile) \in Generations \cup {NoRow}
      BY <3>1, LookupFacts DEF LedgerTypeOK
    <3>3. op' = [op EXCEPT ![t] = FetchOp(op[t].id, op[t].profile,
                                          Lookup(op[t].id, op[t].profile))]
      BY <2>4, <3>1, <3>2, FetchUpdate DEF FetchAnswers, LedgerTypeOK
    <3>4. QED
      BY <1>1, <2>4, <3>1, <3>2, <3>3, OpTypes DEF FetchAnswers, LedgerTypeOK
  <2>5. CASE FetchIsDropped(t) \/ ReportSuccess(t) \/ ReportErrorNotifies(t)
    BY <1>1, <2>5, OpTypes DEF FetchIsDropped, ReportSuccess, ReportErrorNotifies, LedgerTypeOK
  <2>6. CASE InsertIsDuplicate(t) \/ InsertIsLost(t) \/ FetchFails(t) \/ ReportError(t)
    BY <1>1, <2>6 DEF InsertIsDuplicate, InsertIsLost, FetchFails, ReportError, ledgerVars,
       LedgerTypeOK
  <2>7. QED
    BY <1>4, <2>2, <2>3, <2>4, <2>5, <2>6 DEF OperationStep
<1>5. ASSUME NEW g \in Generations, AbandonedInsertEnds(g)
      PROVE  LedgerTypeOK'
  BY <1>1, <1>5, StoreType DEF AbandonedInsertEnds, LedgerTypeOK
<1>6. CASE UNCHANGED ledgerVars
  BY <1>1, <1>6 DEF ledgerVars, LedgerTypeOK
<1>7. QED
  BY <1>2, <1>3, <1>4, <1>5, <1>6 DEF LedgerNext, allVars

\* Type correctness of the table and of the statements in flight.
THEOREM LedgerTypeCorrect == LedgerSpec => []LedgerTypeOK
<1>1. LedgerInit => LedgerTypeOK
  BY InitTypeOK, OpTypes DEF LedgerInit, LedgerTypeOK
<1>2. QED
  BY <1>1, LedgerTypeStep, PTL DEF LedgerSpec

-----------------------------------------------------------------------------
(* The table.  Its rows are final because INSERT has no ON CONFLICT: this  *)
(* is what makes an acknowledgement and an answer stay true although other *)
(* tasks, and statements nobody waits for any more, write in between.      *)

\* Only an accepted insert writes.
LEMMA RowsStep ==
    ASSUME LedgerTypeOK, [LedgerNext]_allVars
    PROVE  \/ UNCHANGED rows
           \/ \E g \in Generations : Accepts(g) /\ StoreRow(g)
<1>1. ASSUME NEW t \in Tasks, OperationStep(t)
      PROVE  \/ UNCHANGED rows
             \/ \E g \in Generations : Accepts(g) /\ StoreRow(g)
  <2>1. op[t] \in Ops
    BY DEF LedgerTypeOK
  <2>2. CASE InsertCommits(t)
    BY <2>1, <2>2, OpCases DEF InsertCommits, IsInsert
  <2>3. CASE ~InsertCommits(t)
    BY <1>1, <2>3 DEF OperationStep, InsertIsDuplicate, InsertIsLost, InsertTimesOut, FetchAnswers,
       FetchFails, FetchIsDropped, ReportSuccess, ReportError, ReportErrorNotifies, ledgerVars
  <2>4. QED
    BY <2>2, <2>3
<1>2. QED
  BY <1>1 DEF LedgerNext, allVars, ledgerVars, StartInsert, StartFetch, AbandonedInsertEnds

LEMMA RowsAreKept ==
    ASSUME LedgerTypeOK, [LedgerNext]_allVars, NEW i \in Ids, rows[i] # NoRow
    PROVE  rows'[i] = rows[i]
  BY RowsStep DEF Accepts, StoreRow, LedgerTypeOK

\* A stored generation is never replaced or removed.
THEOREM RowsFinality == LedgerSpec => RowsAreFinal
<1>1. LedgerTypeOK /\ [LedgerNext]_allVars =>
        [\A i \in Ids : rows[i] # NoRow => rows'[i] = rows[i]]_allVars
  BY RowsAreKept
<1>2. QED
  BY <1>1, LedgerTypeCorrect, PTL DEF LedgerSpec, RowsAreFinal

\* What the task at hand may have changed; every other task's place and
\* statement are as they were.
LEMMA OtherTasks ==
    ASSUME LedgerTypeOK, [LedgerNext]_allVars
    PROVE  \/ \A t \in Tasks : op'[t] = op[t] /\ task'[t] = task[t]
           \/ \E t \in Tasks :
                  /\ \/ \E g \in Generations : StartInsert(t, g)
                     \/ \E i \in Ids, p \in Profiles : StartFetch(t, i, p)
                     \/ OperationStep(t)
                  /\ \A u \in Tasks \ {t} : op'[u] = op[u] /\ task'[u] = task[u]
<1>1. ASSUME NEW t \in Tasks,
             \/ \E g \in Generations : StartInsert(t, g)
             \/ \E i \in Ids, p \in Profiles : StartFetch(t, i, p)
             \/ OperationStep(t)
      PROVE  \A u \in Tasks \ {t} : op'[u] = op[u] /\ task'[u] = task[u]
  <2>1. \A u \in Tasks \ {t} : op'[u] = op[u]
    BY <1>1 DEF LedgerTypeOK, StartInsert, StartFetch, OperationStep, InsertCommits,
       InsertIsDuplicate, InsertIsLost, InsertTimesOut, FetchAnswers, FetchFails,
       FetchIsDropped, ReportSuccess,
       ReportError, ReportErrorNotifies, ledgerVars
  <2>2. \A u \in Tasks \ {t} : task'[u] = task[u]
    BY <1>1 DEF LedgerTypeOK, TypeOK, StartInsert, StartFetch, OperationStep, InsertCommits,
       InsertIsDuplicate, InsertIsLost, InsertTimesOut, FetchAnswers, FetchFails,
       FetchIsDropped, ReportSuccess,
       ReportError, ReportErrorNotifies, StartOperation, OperationSucceeds, OperationFails,
       OperationIsDropped, TaskReportsReady, TaskReportsFailure, TaskNotifies
  <2>3. QED
    BY <2>1, <2>2
<1>2. ASSUME NEW g \in Generations, AbandonedInsertEnds(g)
      PROVE  UNCHANGED <<op, task>>
  BY <1>2 DEF AbandonedInsertEnds, vars
<1>3. CASE (SupervisorStep \/ ReachabilityChanges) /\ UNCHANGED ledgerVars
  <2>1. UNCHANGED task
    BY <1>3 DEF SupervisorStep, MigrationSucceeds, MigrationFails, SupervisorReportsReady,
       CheckStatus, ConsumePermit, StartWaiting, SupervisorReportsFailure, SupervisorNotifies,
       BackoffElapses, ReachabilityChanges
  <2>2. QED
    BY <1>3, <2>1 DEF ledgerVars
<1>4. CASE UNCHANGED allVars
  BY <1>4 DEF allVars, vars, ledgerVars
<1>5. QED
  BY <1>1, <1>2, <1>3, <1>4 DEF LedgerNext

LEMMA AcknowledgedStep ==
    ASSUME LedgerTypeOK, AcknowledgedIsStored, [LedgerNext]_allVars
    PROVE  AcknowledgedIsStored'
<1> SUFFICES ASSUME NEW t \in Tasks, IsInsert(t)', task'[t] = "succeeded"
             PROVE  rows'[IdOf[op'[t].generation]] = op'[t].generation
  BY DEF AcknowledgedIsStored
<1>1. ASSUME op'[t] = op[t], task[t] = "succeeded"
      PROVE  rows'[IdOf[op'[t].generation]] = op'[t].generation
  <2>1. IsInsert(t) /\ op[t].generation \in Generations
    BY <1>1, OpCases DEF IsInsert, LedgerTypeOK
  <2>2. rows[IdOf[op[t].generation]] = op[t].generation
    BY <1>1, <2>1 DEF AcknowledgedIsStored
  <2>3. QED
    BY <1>1, <2>1, <2>2, RowsAreKept, LedgerAssumption
<1>2. ASSUME \/ \E g \in Generations : StartInsert(t, g)
             \/ \E i \in Ids, p \in Profiles : StartFetch(t, i, p)
             \/ OperationStep(t)
      PROVE  rows'[IdOf[op'[t].generation]] = op'[t].generation
  <2>1. CASE InsertCommits(t)
    <3>1. op[t].generation \in Generations /\ op' = op
      BY <2>1, OpCases DEF InsertCommits, IsInsert, LedgerTypeOK
    <3>2. QED
      BY <2>1, <3>1, StoreType DEF InsertCommits, LedgerTypeOK
  <2>2. CASE FetchAnswers(t)
    <3>1. op'[t].kind = "fetch"
      BY <2>2, OpCases DEF FetchAnswers, IsFetch, LedgerTypeOK
    <3>2. QED
      BY <3>1 DEF IsInsert
  <2>3. CASE ~InsertCommits(t) /\ ~FetchAnswers(t)
    <3>1. task'[t] # "succeeded"
      BY <1>2, <2>3 DEF LedgerTypeOK, TypeOK, StartInsert, StartFetch, OperationStep,
         InsertIsDuplicate, InsertIsLost, InsertTimesOut, FetchFails, FetchIsDropped, ReportSuccess,
         ReportError, ReportErrorNotifies, StartOperation, OperationFails,
         OperationIsDropped, TaskReportsReady, TaskReportsFailure, TaskNotifies
    <3>2. QED
      BY <3>1
  <2>4. QED
    BY <2>1, <2>2, <2>3
<1>3. QED
  BY <1>1, <1>2, OtherTasks

\* An insert that was acknowledged is in the table, and stays there.
THEOREM Durability == LedgerSpec => []AcknowledgedIsStored
<1>1. LedgerInit => AcknowledgedIsStored
  BY DEF LedgerInit, AcknowledgedIsStored, IsInsert, NoOp
<1>2. QED
  BY <1>1, AcknowledgedStep, LedgerTypeCorrect, PTL DEF LedgerSpec

LEMMA AnswersStep ==
    ASSUME LedgerTypeOK, AnswersAreScoped, [LedgerNext]_allVars
    PROVE  AnswersAreScoped'
<1> SUFFICES ASSUME NEW t \in Tasks, IsFetch(t)', op'[t].found # NoRow
             PROVE  /\ ProfileOf[op'[t].found] = op'[t].profile
                    /\ rows'[op'[t].id] = op'[t].found
  BY DEF AnswersAreScoped
<1>1. op[t] \in Ops
  BY DEF LedgerTypeOK
<1>2. CASE op'[t] = op[t]
  <2>1. IsFetch(t) /\ op[t].id \in Ids
    BY <1>1, <1>2, OpCases DEF IsFetch
  <2>2. ProfileOf[op[t].found] = op[t].profile /\ rows[op[t].id] = op[t].found
    BY <1>2, <2>1 DEF AnswersAreScoped
  <2>3. QED
    BY <1>2, <2>1, <2>2, RowsAreKept
<1>3. ASSUME \/ \E g \in Generations : StartInsert(t, g)
             \/ \E i \in Ids, p \in Profiles : StartFetch(t, i, p)
             \/ OperationStep(t),
             op'[t] # op[t]
      PROVE  /\ ProfileOf[op'[t].found] = op'[t].profile
             /\ rows'[op'[t].id] = op'[t].found
  <2>1. CASE FetchAnswers(t)
    <3> DEFINE i == op[t].id
               p == op[t].profile
    <3>1. i \in Ids /\ p \in Profiles /\ IsFetch(t)
      BY <1>1, <2>1, OpCases DEF FetchAnswers, IsFetch
    <3>2. /\ Lookup(i, p) \in Generations \cup {NoRow}
          /\ Lookup(i, p) # NoRow => rows[i] = Lookup(i, p) /\ ProfileOf[Lookup(i, p)] = p
      BY <3>1, LookupFacts DEF LedgerTypeOK
    <3>3. op'[t] = FetchOp(i, p, Lookup(i, p)) /\ rows' = rows
      BY <2>1, <3>1, <3>2, FetchUpdate DEF FetchAnswers, LedgerTypeOK
    <3>4. op'[t].found = Lookup(i, p) /\ op'[t].id = i /\ op'[t].profile = p
      BY <3>3 DEF FetchOp
    <3>5. QED
      BY <3>2, <3>3, <3>4
  <2>2. ASSUME NEW i \in Ids, NEW p \in Profiles, StartFetch(t, i, p)
        PROVE  op'[t].found = NoRow
    BY <2>2 DEF StartFetch, FetchOp, LedgerTypeOK
  <2>3. ASSUME NEW g \in Generations, StartInsert(t, g)
        PROVE  op'[t].kind = "insert"
    BY <2>3 DEF StartInsert, InsertOp, LedgerTypeOK
  <2>4. ASSUME OperationStep(t), ~FetchAnswers(t)
        PROVE  op'[t].kind = "none"
    <3>1. op'[t] = NoOp
      BY <1>3, <2>4 DEF OperationStep, InsertCommits, InsertIsDuplicate, InsertIsLost,
         InsertTimesOut, FetchFails, FetchIsDropped, ReportSuccess, ReportError,
         ReportErrorNotifies, ledgerVars,
         LedgerTypeOK
    <3>2. QED
      BY <3>1 DEF NoOp
  <2>5. QED
    BY <1>3, <2>1, <2>2, <2>3, <2>4 DEF IsFetch
<1>4. QED
  BY <1>2, <1>3, OtherTasks

\* A lookup answers with a row of its own profile that is still in the table.
THEOREM Scoping == LedgerSpec => []AnswersAreScoped
<1>1. LedgerInit => AnswersAreScoped
  BY DEF LedgerInit, AnswersAreScoped, IsFetch, NoOp
<1>2. QED
  BY <1>1, AnswersStep, LedgerTypeCorrect, PTL DEF LedgerSpec

-----------------------------------------------------------------------------
(* A lost row is reported.  A task that has no operation has no statement  *)
(* either, so nothing takes the place of an insert under way, and what     *)
(* returned Ok is in the table (Durability).                               *)

IdleInv == \A t \in Tasks : task[t] = "idle" => op[t] = NoOp

LEMMA IdleStep ==
    ASSUME LedgerTypeOK, IdleInv, [LedgerNext]_allVars
    PROVE  IdleInv'
<1> SUFFICES ASSUME NEW t \in Tasks, task'[t] = "idle" PROVE op'[t] = NoOp
  BY DEF IdleInv
<1>1. CASE op'[t] = op[t] /\ task'[t] = task[t]
  BY <1>1 DEF IdleInv
<1>2. ASSUME NEW g \in Generations, StartInsert(t, g) PROVE FALSE
  BY <1>2 DEF StartInsert, StartOperation, LedgerTypeOK, TypeOK
<1>3. ASSUME NEW i \in Ids, NEW p \in Profiles, StartFetch(t, i, p) PROVE FALSE
  BY <1>3 DEF StartFetch, StartOperation, LedgerTypeOK, TypeOK
<1>4. CASE FetchIsDropped(t) \/ ReportSuccess(t) \/ ReportErrorNotifies(t)
  BY <1>4 DEF FetchIsDropped, ReportSuccess, ReportErrorNotifies, LedgerTypeOK
<1>5. CASE InsertCommits(t) \/ FetchAnswers(t)
  BY <1>5 DEF InsertCommits, FetchAnswers, OperationSucceeds, LedgerTypeOK, TypeOK
<1>6. CASE \/ InsertIsDuplicate(t) \/ InsertIsLost(t) \/ InsertTimesOut(t)
           \/ FetchFails(t) \/ ReportError(t)
  BY <1>6 DEF InsertIsDuplicate, InsertIsLost, InsertTimesOut, FetchFails, ReportError,
     OperationFails, TaskReportsFailure, LedgerTypeOK, TypeOK
<1>7. QED
  BY <1>1, <1>2, <1>3, <1>4, <1>5, <1>6, OtherTasks DEF OperationStep

\* An insert leaves its task in two ways: acknowledged, or notifying.
LEMMA InsertEnd ==
    ASSUME LedgerTypeOK, IdleInv, AcknowledgedIsStored, [LedgerNext]_allVars,
           NEW t \in Tasks, IsInsert(t), op'[t] # op[t]
    PROVE  \/ rows'[IdOf[op[t].generation]] = op[t].generation
           \/ permit' \/ supervisor' = "checking"
<1>1. op[t] # NoOp /\ task[t] # "idle" /\ ~IsFetch(t)
  BY DEF IsInsert, IsFetch, NoOp, IdleInv
<1>2. \/ \E g \in Generations : StartInsert(t, g)
      \/ \E i \in Ids, p \in Profiles : StartFetch(t, i, p)
      \/ OperationStep(t)
  BY OtherTasks
<1>3. OperationStep(t)
  BY <1>1, <1>2 DEF StartInsert, StartFetch, StartOperation
<1>4. ReportSuccess(t) \/ ReportErrorNotifies(t)
  BY <1>1, <1>3 DEF OperationStep, InsertCommits, InsertIsDuplicate, InsertIsLost, InsertTimesOut,
     FetchAnswers, FetchFails, FetchIsDropped, ReportError, ledgerVars
<1>5. CASE ReportSuccess(t)
  <2>1. task[t] = "succeeded" /\ rows' = rows
    BY <1>5 DEF ReportSuccess, TaskReportsReady
  <2>2. QED
    BY <2>1 DEF AcknowledgedIsStored
<1>6. CASE ReportErrorNotifies(t)
  BY <1>6 DEF ReportErrorNotifies, TaskNotifies, NotifyOne
<1>7. QED
  BY <1>4, <1>5, <1>6

\* Every insert ends with its row in the table or with a wakeup for the
\* supervisor, for any number of operations, collisions of ids and clients
\* that leave.
THEOREM LossReported == LedgerSpec => LossIsReported
<1>1. LedgerInit => IdleInv
  BY DEF LedgerInit, IdleInv
<1>2. LedgerTypeOK /\ IdleInv /\ AcknowledgedIsStored /\ [LedgerNext]_allVars =>
        [\A t \in Tasks :
            (IsInsert(t) /\ op'[t] # op[t]) =>
                \/ rows'[IdOf[op[t].generation]] = op[t].generation
                \/ permit' \/ supervisor' = "checking"]_allVars
  BY InsertEnd
<1>3. QED
  BY <1>1, <1>2, IdleStep, LedgerTypeCorrect, Durability, PTL DEF LedgerSpec, LossIsReported

=============================================================================
