-------------------------- MODULE GovernedWorkflow --------------------------
(***************************************************************************)
(* The governed review queue (src/api/repositories/workflow_repository.py  *)
(* behind src/api/services/workflow_service.py): requests of the thread    *)
(* pool, each on a DuckDB connection of its own.  Unlike the queue of      *)
(* WorkflowStore, a request reads the row inside its transaction and adds  *)
(* notes in SQL.  DuckDB gives a transaction the snapshot of its first     *)
(* statement and refuses an UPDATE of columns that another transaction has *)
(* written and not rolled back, or committed since that snapshot.          *)
(***************************************************************************)
EXTENDS GovernedCase

CONSTANTS
    MaxLog,     \* bound: no change begins once the log is this long
    PageSize    \* limit of a page of the audit log

ASSUME MaxLogAssumption == MaxLog \in Nat
ASSUME PageAssumption == PageSize \in Nat

VARIABLE txn    \* each request's transaction

queueVars == <<queue, log, txn>>

-----------------------------------------------------------------------------

\* Columns an operation writes together: status with disposition or assigned_to.
Column == {"status", "notes"}
Writes(op) == IF op.kind = "note" THEN "notes" ELSE "status"

NoOperation == [kind |-> "none"]

\* pc: begun = row selected, written = UPDATE and INSERT of the event done,
\* failed = a statement raised, before ROLLBACK, counting and paged = list_audit after
\* each of its two statements.
Txn == [pc: {"idle", "begun", "written", "failed", "counting", "paged"},
        op: Operation \union {NoOperation},
        seen: QueueRow,         \* the target's row in the snapshot
        stale: SUBSET Column,   \* columns of it committed by others since then
        total: Nat, shown: Nat] \* what list_audit has counted, and how much it shows

Idle == [pc |-> "idle", op |-> NoOperation, seen |-> NewRow, stale |-> {},
         total |-> 0, shown |-> 0]

QueueInit ==
    /\ CaseInit
    /\ txn = [r \in Request |-> Idle]

TxnBecomes(r, t) == txn' = [txn EXCEPT ![r] = t]

\* BEGIN and the SELECT of the row, which takes the snapshot.
BeginMutation(r, op) ==
    /\ txn[r].pc = "idle"
    /\ Len(log) < MaxLog
    /\ op.target \in Queued
    /\ TxnBecomes(r, [Idle EXCEPT !.pc = "begun", !.op = op, !.seen = queue[op.target]])
    /\ UNCHANGED <<queue, log>>

\* The SELECT finds no row: ROLLBACK, KeyError, which the service turns into 404.
AlertNotFound(r, op) ==
    /\ txn[r].pc = "idle"
    /\ op.target \notin Queued
    /\ UNCHANGED queueVars

\* Another request has written what r is about to write, or did so since r's snapshot.
Conflict(r) ==
    LET op == txn[r].op
    IN  \/ Writes(op) \in txn[r].stale
        \/ \E o \in Request \ {r} :
              /\ txn[o].pc = "written"
              /\ txn[o].op.target = op.target
              /\ Writes(txn[o].op) = Writes(op)

\* Mutant: the UPDATE goes through whatever others have written.
UpdateWithoutConflict(r) ==
    /\ txn[r].pc = "begun"
    /\ TxnBecomes(r, [txn[r] EXCEPT !.pc = "written"])
    /\ UNCHANGED <<queue, log>>

\* The UPDATE; then the INSERT of the audit event and the SELECT of the row for the
\* answer, which others neither see nor disturb.
UpdateRow(r) ==
    /\ txn[r].pc = "begun"
    /\ TxnBecomes(r, [txn[r] EXCEPT !.pc = IF Conflict(r) THEN "failed" ELSE "written"])
    /\ UNCHANGED <<queue, log>>

\* What r commits: its columns come from its UPDATE of the row it saw, the others stay.
Merged(t, row) ==
    LET mine == Changed(t.op, t.seen)
    IN  IF Writes(t.op) = "notes"
        THEN [row EXCEPT !.notes = mine.notes]
        ELSE [status |-> mine.status,
              disposition |-> IF t.op.kind = "disposition" THEN mine.disposition
                              ELSE row.disposition,
              assigned_to |-> IF t.op.kind = "assign" THEN mine.assigned_to
                              ELSE row.assigned_to,
              notes |-> row.notes]

\* COMMIT, and the answer with the row.  Others that have the row in their snapshot
\* now hold a stale one.
Commit(r) ==
    LET op == txn[r].op
    IN  /\ txn[r].pc = "written"
        /\ queue' = [queue EXCEPT ![op.target] = Merged(txn[r], @)]
        /\ log' = Append(log, op)
        /\ txn' = [o \in Request |->
                     IF o = r THEN Idle
                     ELSE IF /\ txn[o].pc \in {"begun", "written"}
                             /\ txn[o].op.target = op.target
                          THEN [txn[o] EXCEPT !.stale = @ \union {Writes(op)}]
                          ELSE txn[o]]

\* Any statement up to COMMIT raises for a reason of its own.
StatementFails(r) ==
    /\ txn[r].pc \in {"begun", "written"}
    /\ TxnBecomes(r, [txn[r] EXCEPT !.pc = "failed"])
    /\ UNCHANGED <<queue, log>>

\* Mutant: instead of rolling back, the newest event is deleted again.
DeleteNewestEvent(r) ==
    /\ txn[r].pc = "failed"
    /\ log # <<>>
    /\ log' = SubSeq(log, 1, Len(log) - 1)
    /\ TxnBecomes(r, Idle)
    /\ UNCHANGED queue

\* except: ROLLBACK; raise.  The service answers 503.
Rollback(r) ==
    /\ txn[r].pc = "failed"
    /\ TxnBecomes(r, Idle)
    /\ UNCHANGED <<queue, log>>

Smaller(m, n) == IF m < n THEN m ELSE n

\* list_audit, first statement: how many events there are (of one alert, or of all).
CountEvents(r) ==
    /\ txn[r].pc = "idle"
    /\ TxnBecomes(r, [Idle EXCEPT !.pc = "counting", !.total = Len(log)])
    /\ UNCHANGED <<queue, log>>

\* Second statement: the newest events, as many as fit.
SelectEvents(r) ==
    /\ txn[r].pc = "counting"
    /\ TxnBecomes(r, [txn[r] EXCEPT !.pc = "paged", !.shown = Smaller(PageSize, Len(log))])
    /\ UNCHANGED <<queue, log>>

AnswerPage(r) ==
    /\ txn[r].pc = "paged"
    /\ TxnBecomes(r, Idle)
    /\ UNCHANGED <<queue, log>>

\* The process ends: what was not committed is gone.
QueueRestart ==
    /\ txn' = [r \in Request |-> Idle]
    /\ UNCHANGED <<queue, log>>

ProceedQueue(r) == UpdateRow(r) \/ Commit(r) \/ Rollback(r)
                       \/ SelectEvents(r) \/ AnswerPage(r)

QueueNext ==
    \/ \E r \in Request :
          \/ \E op \in Operation : BeginMutation(r, op) \/ AlertNotFound(r, op)
          \/ CountEvents(r)
          \/ ProceedQueue(r)
          \/ StatementFails(r)
    \/ QueueRestart

QueueSpec == QueueInit /\ [][QueueNext]_queueVars

-----------------------------------------------------------------------------
(* Properties. *)

QueueTypeOK ==
    /\ queue \in [Queued -> QueueRow]
    /\ log \in Seq(Operation)
    /\ txn \in [Request -> Txn]

Case == INSTANCE GovernedCase WITH queue <- queue, log <- log

\* Transactions that interleave, conflict and fail leave the queue and its log as if
\* each request had been one indivisible step (_mutate).  This is what WorkflowStore
\* does not achieve for notes.
QueueIsSerial == Case!CaseSpec

\* A note, once in the column, stays where it is: requests that write notes at the
\* same time never lose one (append_note concatenates in SQL).
NotesOnlyGrow ==
    [][\A a \in Queued :
          /\ Len(queue[a].notes) <= Len(queue'[a].notes)
          /\ SubSeq(queue'[a].notes, 1, Len(queue[a].notes)) = queue[a].notes]_queueVars

\* A page of audit events is never shorter than its total says, although the two are
\* read by two statements with changes in between (list_audit counts first, and the
\* log only grows).
PageNotShort ==
    \A r \in Request :
        txn[r].pc = "paged" => txn[r].shown >= Smaller(PageSize, txn[r].total)

-----------------------------------------------------------------------------
(* Why it is serial: what every step preserves. *)

\* r's operation is on a row that is there, and its snapshot differs from the row only
\* in columns it knows to be stale.
Snapshot(t) ==
    t.pc \in {"begun", "written"} =>
        /\ t.op \in Operation
        /\ t.op.target \in Queued
        /\ \/ "status" \in t.stale
           \/ /\ t.seen.status = queue[t.op.target].status
              /\ t.seen.disposition = queue[t.op.target].disposition
              /\ t.seen.assigned_to = queue[t.op.target].assigned_to
        /\ "notes" \in t.stale \/ t.seen.notes = queue[t.op.target].notes

\* Who has written a column is the only one, and it is not stale.
NoConflict ==
    \A r \in Request : txn[r].pc = "written" =>
        /\ Writes(txn[r].op) \notin txn[r].stale
        /\ \A o \in Request \ {r} :
              txn[o].pc = "written" /\ txn[o].op.target = txn[r].op.target
                  => Writes(txn[o].op) # Writes(txn[r].op)

\* What was counted has been in the log ever since, and a page shows it.
PageTrue ==
    \A r \in Request :
        /\ txn[r].pc \in {"counting", "paged"} => txn[r].total <= Len(log)
        /\ txn[r].pc = "paged" => txn[r].shown >= Smaller(PageSize, txn[r].total)

QueueInv ==
    /\ QueueTypeOK
    /\ \A r \in Request : Snapshot(txn[r])
    /\ NoConflict
    /\ PageTrue
=============================================================================
