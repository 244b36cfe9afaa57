------------------------------- MODULE Ledger -------------------------------
(***************************************************************************)
(* The generation ledger (src/src/ledger.rs): detached inserts of one row  *)
(* per costed completion and profile-scoped lookups, each racing the       *)
(* two-second LEDGER_OPERATION_TIMEOUT.  Every operation is also a task of *)
(* DatabaseHealth: an action below is a step of that module together with  *)
(* what the statement did to the table.                                    *)
(***************************************************************************)
EXTENDS DatabaseHealth

CONSTANTS
    Generations,     \* costed completions (GenerationWrite values)
    Ids,             \* provider response ids
    Profiles,        \* routing profiles
    IdOf,            \* the response id the provider gave each generation
    ProfileOf,       \* the profile whose credential asked for it
    NoRow            \* no generation

ASSUME LedgerAssumption ==
    /\ IdOf \in [Generations -> Ids]
    /\ ProfileOf \in [Generations -> Profiles]
    /\ NoRow \notin Generations

VARIABLES
    unwritten,   \* completions whose insert has not been spawned yet
    rows,        \* the generations table, by primary key
    op,          \* the statement each task runs
    inDoubt      \* inserts abandoned by the timeout that the server may still run

ledgerVars == <<unwritten, rows, op, inDoubt>>

allVars == <<vars, ledgerVars>>

NoOp == [kind |-> "none"]

InsertOp(g) == [kind |-> "insert", generation |-> g]

FetchOp(i, p, found) == [kind |-> "fetch", id |-> i, profile |-> p, found |-> found]

Ops ==
    {NoOp} \cup {InsertOp(g) : g \in Generations}
    \cup {FetchOp(i, p, f) : i \in Ids, p \in Profiles, f \in Generations \cup {NoRow}}

LedgerTypeOK ==
    /\ TypeOK
    /\ unwritten \subseteq Generations
    /\ rows \in [Ids -> Generations \cup {NoRow}]
    /\ op \in [Tasks -> Ops]
    /\ inDoubt \subseteq Generations

LedgerInit ==
    /\ Init
    /\ unwritten = Generations
    /\ rows = [i \in Ids |-> NoRow]
    /\ op = [t \in Tasks |-> NoOp]
    /\ inDoubt = {}

IsInsert(t) == op[t].kind = "insert"

IsFetch(t) == op[t].kind = "fetch"

-----------------------------------------------------------------------------
(* insert                                                                  *)

\* Mutant: ON CONFLICT DO UPDATE.
AcceptsAny(g) == TRUE

\* INSERT without ON CONFLICT: an occupied primary key refuses the row.
Accepts(g) == rows[IdOf[g]] = NoRow

StoreRow(g) == rows' = [rows EXCEPT ![IdOf[g]] = g]

StartInsert(t, g) ==
    /\ StartOperation(t)
    /\ g \in unwritten
    /\ unwritten' = unwritten \ {g}
    /\ op' = [op EXCEPT ![t] = InsertOp(g)]
    /\ UNCHANGED <<rows, inDoubt>>

\* Mutant: ON CONFLICT DO NOTHING.
InsertOrIgnore(t) ==
    /\ IsInsert(t)
    /\ OperationSucceeds(t)
    /\ IF Accepts(op[t].generation) THEN StoreRow(op[t].generation) ELSE UNCHANGED rows
    /\ UNCHANGED <<unwritten, op, inDoubt>>

InsertCommits(t) ==
    /\ IsInsert(t)
    /\ Accepts(op[t].generation)
    /\ OperationSucceeds(t)
    /\ StoreRow(op[t].generation)
    /\ UNCHANGED <<unwritten, op, inDoubt>>

InsertIsDuplicate(t) ==
    /\ IsInsert(t)
    /\ reachable
    /\ ~Accepts(op[t].generation)
    /\ OperationFails(t)
    /\ UNCHANGED ledgerVars

\* The statement never reached the table: no connection, or a pool time-out.
InsertIsLost(t) ==
    /\ IsInsert(t)
    /\ OperationFails(t)
    /\ UNCHANGED ledgerVars

\* The timeout drops the future of a statement the server already holds.
InsertTimesOut(t) ==
    /\ IsInsert(t)
    /\ reachable
    /\ OperationFails(t)
    /\ inDoubt' = inDoubt \cup {op[t].generation}
    /\ UNCHANGED <<unwritten, rows, op>>

\* PostgreSQL ends an abandoned statement on its own: it commits or it is
\* rolled back.  No task hears of it.
AbandonedInsertEnds(g) ==
    /\ g \in inDoubt
    /\ inDoubt' = inDoubt \ {g}
    /\ (reachable /\ Accepts(g) /\ StoreRow(g)) \/ UNCHANGED rows
    /\ UNCHANGED <<vars, unwritten, op>>

-----------------------------------------------------------------------------
(* fetch, called by get_generation with the authenticated profile          *)

StartFetch(t, i, p) ==
    /\ StartOperation(t)
    /\ op' = [op EXCEPT ![t] = FetchOp(i, p, NoRow)]
    /\ UNCHANGED <<unwritten, rows, inDoubt>>

\* Mutant: WHERE id = $1 only.
LookupById(i, p) == rows[i]

\* WHERE id = $1 AND routing_profile = $2
Lookup(i, p) ==
    IF rows[i] # NoRow /\ ProfileOf[rows[i]] = p THEN rows[i] ELSE NoRow

FetchAnswers(t) ==
    /\ IsFetch(t)
    /\ OperationSucceeds(t)
    /\ op' = [op EXCEPT ![t].found = Lookup(op[t].id, op[t].profile)]
    /\ UNCHANGED <<unwritten, rows, inDoubt>>

FetchFails(t) ==
    /\ IsFetch(t)
    /\ OperationFails(t)
    /\ UNCHANGED ledgerVars

\* Mutant: the insert is awaited in the handler and dropped with it as well.
AnyIsDropped(t) ==
    /\ OperationIsDropped(t)
    /\ op' = [op EXCEPT ![t] = NoOp]
    /\ UNCHANGED <<unwritten, rows, inDoubt>>

\* get_generation awaits the lookup, so the client takes it along; an insert
\* runs in a task of its own (record_at) and outlives its client.
FetchIsDropped(t) ==
    /\ IsFetch(t)
    /\ OperationIsDropped(t)
    /\ op' = [op EXCEPT ![t] = NoOp]
    /\ UNCHANGED <<unwritten, rows, inDoubt>>

-----------------------------------------------------------------------------
(* Both report to DatabaseHealth when they return.                         *)

ReportSuccess(t) ==
    /\ TaskReportsReady(t)
    /\ op' = [op EXCEPT ![t] = NoOp]
    /\ UNCHANGED <<unwritten, rows, inDoubt>>

ReportError(t) == TaskReportsFailure(t) /\ UNCHANGED ledgerVars

ReportErrorNotifies(t) ==
    /\ TaskNotifies(t)
    /\ op' = [op EXCEPT ![t] = NoOp]
    /\ UNCHANGED <<unwritten, rows, inDoubt>>

OperationStep(t) ==
    \/ InsertCommits(t)
    \/ InsertIsDuplicate(t)
    \/ InsertIsLost(t)
    \/ InsertTimesOut(t)
    \/ FetchAnswers(t)
    \/ FetchFails(t)
    \/ FetchIsDropped(t)
    \/ ReportSuccess(t)
    \/ ReportError(t)
    \/ ReportErrorNotifies(t)

LedgerNext ==
    \/ \E t \in Tasks :
           \/ \E g \in Generations : StartInsert(t, g)
           \/ \E i \in Ids, p \in Profiles : StartFetch(t, i, p)
           \/ OperationStep(t)
    \/ \E g \in Generations : AbandonedInsertEnds(g)
    \/ SupervisorStep /\ UNCHANGED ledgerVars
    \/ ReachabilityChanges /\ UNCHANGED ledgerVars

LedgerSpec == LedgerInit /\ [][LedgerNext]_allVars

-----------------------------------------------------------------------------
(* Properties.                                                             *)

\* What an insert was told is true: once the statement returned Ok the row is
\* the table's row for its id, and it stays so (Ledger::insert).
AcknowledgedIsStored ==
    \A t \in Tasks :
        (IsInsert(t) /\ task[t] = "succeeded")
            => rows[IdOf[op[t].generation]] = op[t].generation

\* A stored generation is never replaced or removed, whichever of a timely
\* insert, a duplicate and an abandoned insert comes last (Ledger::insert).
RowsAreFinal ==
    [][\A i \in Ids : rows[i] # NoRow => rows'[i] = rows[i]]_allVars

\* A lookup answers with a row of its own profile, and with the row that is
\* still in the table when the answer is used (Ledger::fetch).
AnswersAreScoped ==
    \A t \in Tasks :
        (IsFetch(t) /\ op[t].found # NoRow)
            => /\ ProfileOf[op[t].found] = op[t].profile
               /\ rows[op[t].id] = op[t].found

\* No billed generation is lost in silence: however an insert ends, refused,
\* timed out, raced by an abandoned one or with its client gone, the table has
\* its row or the supervisor has a wakeup to look at (Ledger::insert,
\* report_failure, record_at's spawn).
LossIsReported ==
    [][\A t \in Tasks :
          (IsInsert(t) /\ op'[t] # op[t]) =>
              \/ rows'[IdOf[op[t].generation]] = op[t].generation
              \/ permit' \/ supervisor' = "checking"]_allVars

=============================================================================
