------------------------ MODULE WorkflowStoreProofs ------------------------
(***************************************************************************)
(* Proofs about WorkflowStore: its types, that an investigation's status   *)
(* agrees with its alerts, that the store is a serial review queue, and    *)
(* what its audit log says of every change, for any number of requests,    *)
(* investigations and alerts.                                              *)
(***************************************************************************)
EXTENDS WorkflowStore, SequenceTheorems, FiniteSetTheorems, TLAPS

-----------------------------------------------------------------------------
(* The rules. *)

\* The two UPDATEs of an alert keep its row well formed; a row they produce exists
\* and is no longer a new alert's.
LEMMA UpdatedRowType ==
    ASSUME NEW op \in Op, NEW row \in AlertRow
    PROVE  /\ UpdatedRow(op, row) \in AlertRow
           /\ row.status # "absent" => UpdatedRow(op, row).status # "absent"
           /\ op.kind \in {"assign", "disposition"}
                => UpdatedRow(op, row).status \notin {"absent", "new"}
           /\ UpdatedRow(op, row).status = "closed" /\ op.kind = "assign" => FALSE
           /\ UpdatedRow(op, row).status = "closed" /\ op.kind = "disposition"
                => UpdatedRow(op, row).disposition \in {"true_positive", "false_positive"}
  BY DEF Op, UpdatedRow, Assigned, Dispositioned, AlertRow, AlertStatus, Disposition,
         NoTarget

\* The refreshed row of an investigation is never that of an absent or untouched one.
LEMMA RefreshedRowType ==
    ASSUME NEW rows \in SUBSET AlertRow
    PROVE  /\ RefreshedRow(rows) \in InvestigationRow
           /\ RefreshedRow(rows).status \in {"escalated", "in_review", "closed"}
  BY DEF RefreshedRow, InvestigationRow, AlertStatus, Disposition, AlertRow

\* The rows of an investigation's alerts are alert rows.
LEMMA RowsOfType ==
    ASSUME NEW i \in Investigation, NEW rows \in [Alert -> AlertRow]
    PROVE  RowsOf(i, rows) \in SUBSET AlertRow
  BY DEF RowsOf, Findings
-----------------------------------------------------------------------------
(* Types. *)

LEMMA InitType == Init => TypeOK
  <1> SUFFICES ASSUME Init PROVE TypeOK
    OBVIOUS
  <1>1. inv \in [Investigation -> InvestigationRow]
    BY DEF Init, InvestigationRow, NoInvestigation, AlertStatus
  <1>2. alert \in [Alert -> AlertRow]
    BY DEF Init, AlertRow, NoAlert, AlertStatus
  <1>3. notes \in [Alert -> Seq(Note)] /\ audit \in Seq(AuditEvent)
    BY DEF Init
  <1>4. txn \in [Session -> Txn]
    <2>1. Idle \in Txn
      BY DEF Idle, Txn, Op, NoTarget, AlertRow, NoAlert, AlertStatus,
             InvestigationRow, NoInvestigation
    <2>2. QED  BY <2>1 DEF Init
  <1>5. QED  BY <1>1, <1>2, <1>3, <1>4 DEF TypeOK

LEMMA IdleType == Idle \in Txn
  BY DEF Idle, Txn, Op, NoTarget, AlertRow, NoAlert, AlertStatus,
         InvestigationRow, NoInvestigation

LEMMA FailedType ==
    ASSUME TypeOK, NEW s \in Session
    PROVE  [txn[s] EXCEPT !.pc = "failed"] \in Txn
  BY DEF TypeOK, Txn

\* A well-formed record of one request keeps them all well formed.
LEMMA BecomesType ==
    ASSUME TypeOK, NEW s \in Session, NEW t \in Txn, Becomes(s, t)
    PROVE  txn' \in [Session -> Txn]
  BY DEF TypeOK, Becomes

\* COMMIT keeps the requests' records well formed.
LEMMA EndWithCommitType ==
    ASSUME TypeOK, NEW s \in Session, EndWithCommit(s)
    PROVE  txn' \in [Session -> Txn]
  <1>1. ASSUME NEW o \in Session
        PROVE  [txn[o] EXCEPT !.dirty = @ \union txn[s].wrote] \in Txn
    BY DEF TypeOK, Txn
  <1>2. QED  BY <1>1, IdleType DEF EndWithCommit, TypeOK

\* A request on an alert targets an alert, persist_investigation an investigation.
LEMMA OpType ==
    ASSUME NEW op \in Op
    PROVE  /\ op.kind \in {"assign", "disposition", "note"} =>
                 /\ op.target \in Alert
                 /\ InvOf[op.target] \in Investigation
                 /\ TargetCell(op) \in Cell
                 /\ InvCell(InvOf[op.target]) \in Cell
           /\ op.kind = "persist" =>
                 op.target \in Investigation /\ InvCell(op.target) \in Cell
  BY InvOfAssumption DEF Op, TargetCell, Cell, NotesCell, StatusCell, InvCell

\* A transaction's view of the alerts is a table of alert rows.
LEMMA ViewType ==
    ASSUME TypeOK, NEW s \in Session
    PROVE  View(txn[s]) \in [Alert -> AlertRow]
  <1>1. txn[s].snap \in [Alert -> AlertRow] /\ txn[s].op \in Op
    BY DEF TypeOK, Txn
  <1>2. \A row \in AlertRow : UpdatedRow(txn[s].op, row) \in AlertRow
    BY <1>1, UpdatedRowType
  <1>3. QED  BY <1>1, <1>2 DEF View

LEMMA NextType == TypeOK /\ ProgressInv /\ [Next]_vars => TypeOK'
  <1> SUFFICES ASSUME TypeOK, ProgressInv, [Next]_vars
               PROVE  TypeOK'
    OBVIOUS
  <1> USE DEF TypeOK
  <1>1. ASSUME NEW s \in Session, NEW i \in Investigation, BeginPersist(s, i)
        PROVE  TypeOK'
    <2>1. InvCell(i) \in Cell  BY DEF Cell
    <2> DEFINE op == [kind |-> "persist", target |-> i, arg |-> NoTarget]
               t == [txn[s] EXCEPT !.pc = "inserting", !.op = op, !.wrote = {InvCell(i)}]
    <2>2. op \in Op  BY DEF Op
    <2>3. t \in Txn  BY <2>1, <2>2 DEF Txn
    <2>4. QED  BY <1>1, <2>3, BecomesType DEF BeginPersist
  <1>2. ASSUME NEW s \in Session, NEW a \in Alert, QueueFinding(s, a)
        PROVE  TypeOK'
    <2>1. txn[s] \in Txn /\ Append(txn[s].made, a) \in Seq(Alert)
      BY DEF Txn
    <2> HIDE DEF TypeOK
    <2>2. [txn[s] EXCEPT !.made = Append(txn[s].made, a)] \in Txn
      BY <2>1 DEF Txn
    <2>3. QED  BY <1>2, <2>2, BecomesType DEF QueueFinding, TypeOK
  <1>3. ASSUME NEW s \in Session, CompleteInvestigation(s)
        PROVE  TypeOK'
    <2> DEFINE i == txn[s].op.target
               made == txn[s].made
    <2>1. i \in Investigation /\ made \in Seq(Alert)
      BY <1>3, OpType DEF CompleteInvestigation, ProgressInv, Progress, Txn
    <2>2. inv' \in [Investigation -> InvestigationRow]
      BY <1>3 DEF CompleteInvestigation, InvestigationRow, OpenInvestigation
    <2>3. alert' \in [Alert -> AlertRow]
      BY <1>3 DEF CompleteInvestigation, AlertRow, NewAlert, AlertStatus
    <2>4. audit' \in Seq(AuditEvent)
      <3>1. /\ <<Event("query_received", i, NoTarget)>> \in Seq(AuditEvent)
            /\ <<Event("investigation_completed", i, NoTarget)>> \in Seq(AuditEvent)
        BY <2>1 DEF Event, AuditEvent
      <3>2. [n \in 1..Len(made) |-> Event("alert_created", made[n], NoTarget)]
              \in Seq(AuditEvent)
        BY <2>1 DEF Event, AuditEvent
      <3>3. QED  BY <1>3, <3>1, <3>2 DEF CompleteInvestigation
    <2>5. QED
      BY <1>3, <2>2, <2>3, <2>4, EndWithCommitType DEF CompleteInvestigation
  <1>4. ASSUME NEW s \in Session, NEW op \in Op, op.target \in Alert, GetQueueItem(s, op)
        PROVE  TypeOK'
    <2> DEFINE t == [txn[s] EXCEPT !.pc = "found", !.op = op,
                                   !.seen = IF op.kind = "note" THEN notes[op.target] ELSE <<>>]
    <2>1. txn[s] \in Txn
      OBVIOUS
    <2>2. (IF op.kind = "note" THEN notes[op.target] ELSE <<>>) \in Seq(Note)
      BY <1>4
    <2>3. t \in Txn
      <3> HIDE DEF TypeOK
      <3>1. QED  BY <2>1, <2>2 DEF Txn
    <2>4. QED  BY <1>4, <2>3, BecomesType DEF GetQueueItem
  <1>5. ASSUME NEW s \in Session, BeginTransaction(s)
        PROVE  TypeOK'
    <2> DEFINE t == [txn[s] EXCEPT !.pc = "begun",
                                   !.snap = IF txn[s].op.kind = "note" THEN @ ELSE alert]
    <2>1. t \in Txn
      BY DEF Txn
    <2>2. QED  BY <1>5, <2>1, BecomesType DEF BeginTransaction
  <1>6. ASSUME NEW s \in Session, UpdateAlert(s)
        PROVE  TypeOK'
    <2>1. TargetCell(txn[s].op) \in Cell
      BY <1>6, OpType DEF UpdateAlert, ProgressInv, Progress, Txn
    <2>2. [txn[s] EXCEPT !.pc = "updated", !.wrote = {TargetCell(txn[s].op)}] \in Txn
      BY <2>1 DEF Txn
    <2>3. QED  BY <1>6, <2>2, FailedType, BecomesType DEF UpdateAlert, Fail
  <1>7. ASSUME NEW s \in Session, RefreshInvestigationStatus(s)
        PROVE  TypeOK'
    <2> DEFINE i == InvOf[txn[s].op.target]
    <2>1. i \in Investigation /\ InvCell(i) \in Cell
      BY <1>7, OpType DEF RefreshInvestigationStatus, ProgressInv, Progress, Txn
    <2>2. RefreshedRow(RowsOf(i, View(txn[s]))) \in InvestigationRow
      BY <2>1, ViewType, RowsOfType, RefreshedRowType
    <2>3. [txn[s] EXCEPT !.pc = "refreshed", !.row = RefreshedRow(RowsOf(i, View(txn[s]))),
                         !.wrote = @ \union {InvCell(i)}] \in Txn
      BY <2>1, <2>2 DEF Txn
    <2>4. QED
      BY <1>7, <2>3, FailedType, BecomesType DEF RefreshInvestigationStatus, Fail
  <1>8. ASSUME NEW s \in Session, CommitCase(s)
        PROVE  TypeOK'
    <2> DEFINE op == txn[s].op
    <2>1. /\ op \in Op /\ op.kind \in {"assign", "disposition"}
          /\ op.target \in Alert /\ txn[s].row \in InvestigationRow
      BY <1>8, OpType DEF CommitCase, ProgressInv, Progress, Txn
    <2>2. inv' \in [Investigation -> InvestigationRow]
      BY <1>8, <2>1 DEF CommitCase
    <2>3. alert' \in [Alert -> AlertRow]
      BY <1>8, <2>1, UpdatedRowType DEF CommitCase
    <2>4. Event(EventType(op), op.target, op.arg) \in AuditEvent
      BY <2>1 DEF Event, EventType, AuditEvent, Op
    <2>5. QED  BY <1>8, <2>2, <2>3, <2>4, EndWithCommitType DEF CommitCase
  <1>9. ASSUME NEW s \in Session, CommitNote(s)
        PROVE  TypeOK'
    <2> DEFINE op == txn[s].op
    <2>1. /\ op \in Op /\ op.kind = "note" /\ op.target \in Alert /\ op.arg \in Note
          /\ txn[s].seen \in Seq(Note)
      BY <1>9, OpType DEF CommitNote, ProgressInv, Progress, Txn, Op
    <2>2. notes' \in [Alert -> Seq(Note)]
      BY <1>9, <2>1 DEF CommitNote
    <2>3. Event(EventType(op), op.target, op.arg) \in AuditEvent
      BY <2>1 DEF Event, EventType, AuditEvent
    <2>4. QED  BY <1>9, <2>2, <2>3, EndWithCommitType DEF CommitNote
  <1>10. ASSUME NEW s \in Session, Rollback(s) \/ StatementFails(s)
         PROVE  TypeOK'
    BY <1>10, IdleType, FailedType, BecomesType DEF Rollback, StatementFails, Fail
  <1>11. CASE Restart
    BY <1>11, IdleType DEF Restart
  <1>12. CASE Quiet \/ UNCHANGED vars
    BY <1>12 DEF Quiet, vars
  <1>13. ASSUME NEW s \in Session, Accept(s)
         PROVE  TypeOK'
    <2>1. CASE \E i \in Investigation : BeginPersist(s, i)
      BY <1>1, <2>1
    <2>2. ASSUME NEW a \in Alert, NEW x \in Analyst,
                 GetQueueItem(s, [kind |-> "assign", target |-> a, arg |-> x])
          PROVE  TypeOK'
      BY <1>4, <2>2 DEF Op
    <2>3. ASSUME NEW a \in Alert, NEW d \in Disposition,
                 GetQueueItem(s, [kind |-> "disposition", target |-> a, arg |-> d])
          PROVE  TypeOK'
      BY <1>4, <2>3 DEF Op
    <2>4. ASSUME NEW a \in Alert, NEW n \in Note,
                 GetQueueItem(s, [kind |-> "note", target |-> a, arg |-> n])
          PROVE  TypeOK'
      BY <1>4, <2>4 DEF Op
    <2>5. QED  BY <1>13, <2>1, <2>2, <2>3, <2>4 DEF Accept
  <1>14. QED
    BY <1>2, <1>3, <1>5, <1>6, <1>7, <1>8, <1>9, <1>10, <1>11, <1>12, <1>13
       DEF Next, Proceed
-----------------------------------------------------------------------------
(* The inductive invariant. *)

LEMMA InitInv == Init => IInv
  <1> SUFFICES ASSUME Init PROVE IInv
    OBVIOUS
  <1>1. TypeOK
    BY InitType
  <1>2. ProgressInv /\ SnapshotInv
    BY DEF Init, ProgressInv, Progress, SnapshotInv, Current, Idle
  <1>3. ConflictInv
    BY DEF Init, ConflictInv, Idle, InTransaction
  <1>4. AlertInv
    BY InvOfAssumption DEF Init, AlertInv, NoAlert, NoInvestigation
  <1>5. CaseInv
    BY DEF Init, CaseInv, NoInvestigation
  <1>6. QED  BY <1>1, <1>2, <1>3, <1>4, <1>5 DEF IInv

\* A step of one request that commits nothing keeps the invariant if the request's new
\* record satisfies it.
LEMMA LocalStep ==
    ASSUME IInv, TypeOK', NEW s \in Session, NEW t, Becomes(s, t),
           UNCHANGED <<inv, alert>>,
           Progress(t), Current(t),
           \A o \in Session \ {s} : t.wrote \intersect txn[o].wrote = {},
           InTransaction(t) => t.wrote \intersect t.dirty = {}
    PROVE  IInv'
  <1>1. /\ txn'[s] = t
        /\ \A o \in Session \ {s} : txn'[o] = txn[o]
    BY DEF Becomes, IInv, TypeOK
  <1>2. ASSUME NEW u PROVE (Progress(u) => Progress(u)') /\ (Current(u) => Current(u)')
    <2>1. inv' = inv /\ alert' = alert
      OBVIOUS
    <2>2. QED  BY <2>1 DEF Progress, Current
  <1>3. ProgressInv' /\ SnapshotInv'
    <2> SUFFICES ASSUME NEW o \in Session PROVE (Progress(txn[o]) /\ Current(txn[o]))'
      BY DEF ProgressInv, SnapshotInv
    <2>1. PICK u : u = txn'[o]
      OBVIOUS
    <2>2. Progress(u) /\ Current(u)
      BY <1>1, <2>1 DEF IInv, ProgressInv, SnapshotInv
    <2>3. Progress(u)' /\ Current(u)'
      BY <1>2, <2>2
    <2>4. QED  BY <2>1, <2>3
  <1>4. ConflictInv'
    BY <1>1 DEF IInv, ConflictInv, InTransaction
  <1>5. AlertInv' /\ CaseInv'
    BY DEF IInv, AlertInv, CaseInv
  <1>6. QED  BY <1>3, <1>4, <1>5 DEF IInv

\* A request that fails, or has been rolled back, satisfies the invariant again.
LEMMA FailStep ==
    ASSUME IInv, TypeOK', NEW s \in Session, UNCHANGED <<inv, alert>>,
           Fail(s) \/ Becomes(s, Idle)
    PROVE  IInv'
  <1>1. CASE Fail(s)
    <2> DEFINE t == [txn[s] EXCEPT !.pc = "failed"]
    <2>1. txn[s] \in Txn
      BY DEF IInv, TypeOK
    <2>2. t.pc = "failed" /\ t.wrote = txn[s].wrote
      BY <2>1 DEF Txn
    <2>3. Progress(t) /\ Current(t) /\ ~InTransaction(t)
      BY <2>2 DEF Progress, Current, InTransaction
    <2>4. \A o \in Session \ {s} : t.wrote \intersect txn[o].wrote = {}
      BY <2>2 DEF IInv, ConflictInv
    <2>5. QED  BY <1>1, <2>3, <2>4, LocalStep DEF Fail
  <1>2. CASE Becomes(s, Idle)
    <2>1. Idle.pc = "idle" /\ Idle.wrote = {} /\ Idle.dirty = {}
      BY DEF Idle
    <2>2. Progress(Idle) /\ Current(Idle) /\ ~InTransaction(Idle)
      BY <2>1 DEF Progress, Current, InTransaction
    <2>3. QED  BY <1>2, <2>1, <2>2, LocalStep
  <1>3. QED  BY <1>1, <1>2

LEMMA PersistStep ==
    ASSUME IInv, TypeOK', NEW s \in Session,
           \/ \E i \in Investigation : BeginPersist(s, i)
           \/ \E a \in Alert : QueueFinding(s, a)
    PROVE  IInv'
  <1>1. ASSUME NEW i \in Investigation, BeginPersist(s, i)
        PROVE  IInv'
    <2> DEFINE op == [kind |-> "persist", target |-> i, arg |-> NoTarget]
               t == [txn[s] EXCEPT !.pc = "inserting", !.op = op, !.wrote = {InvCell(i)}]
    <2>1. txn[s] \in Txn
      BY DEF IInv, TypeOK
    <2>2. /\ t.pc = "inserting" /\ t.op.kind = "persist" /\ t.op.target = i
          /\ t.wrote = {InvCell(i)} /\ t.dirty = txn[s].dirty
      BY <2>1 DEF Txn
    <2>3. Progress(t) /\ Current(t)
      <3> HIDE DEF t
      <3>1. QED  BY <1>1, <2>2 DEF Progress, Current, BeginPersist
    <2>4. \A o \in Session \ {s} : t.wrote \intersect txn[o].wrote = {}
      BY <1>1, <2>2 DEF BeginPersist
    <2>5. t.wrote \intersect t.dirty = {}
      BY <1>1, <2>2 DEF BeginPersist, IInv, ProgressInv, Progress
    <2>6. QED  BY <1>1, <2>3, <2>4, <2>5, LocalStep DEF BeginPersist
  <1>2. ASSUME NEW a \in Alert, QueueFinding(s, a)
        PROVE  IInv'
    <2> DEFINE t == [txn[s] EXCEPT !.made = Append(@, a)]
    <2>1. txn[s] \in Txn
      BY DEF IInv, TypeOK
    <2>2. /\ t.pc = txn[s].pc /\ t.op = txn[s].op
          /\ t.wrote = txn[s].wrote /\ t.dirty = txn[s].dirty
      BY <2>1 DEF Txn
    <2>3. Progress(t) /\ Current(t)
      BY <1>2, <2>2 DEF IInv, ProgressInv, Progress, Current, QueueFinding
    <2>4. QED
      BY <1>2, <2>2, <2>3, LocalStep DEF QueueFinding, IInv, ConflictInv, InTransaction
  <1>3. QED  BY <1>1, <1>2

LEMMA LookupStep ==
    ASSUME IInv, TypeOK', NEW s \in Session, NEW op \in Op,
           op.kind \in {"assign", "disposition", "note"}, GetQueueItem(s, op)
    PROVE  IInv'
  <1> DEFINE t == [txn[s] EXCEPT !.pc = "found", !.op = op,
                                 !.seen = IF op.kind = "note" THEN notes[op.target] ELSE <<>>]
  <1>1. txn[s] \in Txn
    BY DEF IInv, TypeOK
  <1>2. t.pc = "found" /\ t.op = op /\ t.wrote = txn[s].wrote /\ t.dirty = txn[s].dirty
    BY <1>1 DEF Txn
  <1>3. Becomes(s, t)
    BY DEF GetQueueItem
  <1> HIDE DEF t
  <1>4. Progress(t) /\ Current(t) /\ ~InTransaction(t) /\ t.wrote = {}
    BY <1>2 DEF IInv, ProgressInv, Progress, Current, InTransaction, GetQueueItem
  <1>5. QED  BY <1>3, <1>4, LocalStep DEF GetQueueItem

LEMMA BeginStep ==
    ASSUME IInv, TypeOK', NEW s \in Session, BeginTransaction(s)
    PROVE  IInv'
  <1> DEFINE t == [txn[s] EXCEPT !.pc = "begun",
                                 !.snap = IF txn[s].op.kind = "note" THEN @ ELSE alert]
  <1>1. txn[s] \in Txn
    BY DEF IInv, TypeOK
  <1>2. /\ t.pc = "begun" /\ t.op = txn[s].op
        /\ t.wrote = txn[s].wrote /\ t.dirty = txn[s].dirty
        /\ t.op.kind # "note" => t.snap = alert
    BY <1>1 DEF Txn
  <1>3. Becomes(s, t)
    BY DEF BeginTransaction
  <1> HIDE DEF t
  <1>4. Progress(t) /\ Current(t) /\ t.wrote = {}
    BY <1>2 DEF IInv, ProgressInv, Progress, Current, BeginTransaction
  <1>5. QED  BY <1>3, <1>4, LocalStep DEF BeginTransaction

LEMMA UpdateStep ==
    ASSUME IInv, TypeOK', NEW s \in Session, UpdateAlert(s)
    PROVE  IInv'
  <1> DEFINE cell == TargetCell(txn[s].op)
             t == [txn[s] EXCEPT !.pc = "updated", !.wrote = {cell}]
  <1>1. CASE Conflict(s, cell)
    BY <1>1, FailStep DEF UpdateAlert
  <1>2. CASE ~Conflict(s, cell)
    <2>1. txn[s] \in Txn
      BY DEF IInv, TypeOK
    <2>2. /\ t.pc = "updated" /\ t.op = txn[s].op /\ t.snap = txn[s].snap
          /\ t.wrote = {cell} /\ t.dirty = txn[s].dirty
      BY <2>1 DEF Txn
    <2>3. Becomes(s, t) /\ UNCHANGED <<inv, alert>>
      BY <1>2 DEF UpdateAlert
    <2> HIDE DEF t
    <2>4. Progress(t) /\ Current(t)
      BY <2>2 DEF IInv, ProgressInv, SnapshotInv, Progress, Current, UpdateAlert
    <2>5. /\ \A o \in Session \ {s} : t.wrote \intersect txn[o].wrote = {}
          /\ t.wrote \intersect t.dirty = {}
      BY <1>2, <2>2 DEF Conflict
    <2>6. QED  BY <2>3, <2>4, <2>5, LocalStep
  <1>3. QED  BY <1>1, <1>2

LEMMA RefreshStep ==
    ASSUME IInv, TypeOK', NEW s \in Session, RefreshInvestigationStatus(s)
    PROVE  IInv'
  <1> DEFINE cell == InvCell(InvOf[txn[s].op.target])
             new == RefreshedRow(RowsOf(InvOf[txn[s].op.target], View(txn[s])))
             t == [txn[s] EXCEPT !.pc = "refreshed", !.row = new, !.wrote = @ \union {cell}]
  <1>1. CASE Conflict(s, cell)
    BY <1>1, FailStep DEF RefreshInvestigationStatus
  <1>2. CASE ~Conflict(s, cell)
    <2>1. txn[s] \in Txn
      BY DEF IInv, TypeOK
    <2>2. /\ t.pc = "refreshed" /\ t.op = txn[s].op /\ t.snap = txn[s].snap
          /\ t.wrote = txn[s].wrote \union {cell} /\ t.dirty = txn[s].dirty
          /\ t.row = new
      BY <2>1 DEF Txn
    <2>3. Becomes(s, t) /\ UNCHANGED <<inv, alert>>
      BY <1>2 DEF RefreshInvestigationStatus
    <2> HIDE DEF t
    <2>4. View(t) = View(txn[s])
      BY <2>2 DEF View
    <2>5. /\ txn[s].pc = "updated" /\ txn[s].op.kind \in {"assign", "disposition"}
          /\ txn[s].wrote = {StatusCell(txn[s].op.target)}
          /\ alert[txn[s].op.target].status # "absent"
      BY DEF IInv, ProgressInv, Progress, TargetCell, RefreshInvestigationStatus
    <2>6. Progress(t)
      BY <2>2, <2>5 DEF Progress
    <2>7. Current(t)
      BY <2>2, <2>4, <2>5 DEF IInv, SnapshotInv, Current
    <2>8. /\ \A o \in Session \ {s} : t.wrote \intersect txn[o].wrote = {}
          /\ t.wrote \intersect t.dirty = {}
      BY <1>2, <2>2, <2>5 DEF Conflict, IInv, ConflictInv, InTransaction
    <2>9. QED  BY <2>3, <2>6, <2>7, <2>8, LocalStep
  <1>3. QED  BY <1>1, <1>2

\* What a COMMIT does to the requests: the committing one is done, the others only
\* learn which cells are newer than their snapshots; locks stay exclusive.
LEMMA CommitShape ==
    ASSUME IInv, NEW s \in Session, EndWithCommit(s)
    PROVE  /\ txn'[s] = Idle
           /\ \A o \in Session \ {s} :
                 /\ txn'[o].pc = txn[o].pc /\ txn'[o].op = txn[o].op
                 /\ txn'[o].snap = txn[o].snap /\ txn'[o].row = txn[o].row
                 /\ txn'[o].wrote = txn[o].wrote
                 /\ InTransaction(txn[o]) =>
                       txn'[o].dirty = txn[o].dirty \union txn[s].wrote
                 /\ ~InTransaction(txn[o]) => txn'[o].dirty = txn[o].dirty
                 /\ View(txn'[o]) = View(txn[o])
           /\ ConflictInv'
  <1>1. txn'[s] = Idle
    BY DEF EndWithCommit
  <1>2. ASSUME NEW o \in Session \ {s}
        PROVE  /\ txn'[o].pc = txn[o].pc /\ txn'[o].op = txn[o].op
               /\ txn'[o].snap = txn[o].snap /\ txn'[o].row = txn[o].row
               /\ txn'[o].wrote = txn[o].wrote
               /\ InTransaction(txn[o]) =>
                       txn'[o].dirty = txn[o].dirty \union txn[s].wrote
               /\ ~InTransaction(txn[o]) => txn'[o].dirty = txn[o].dirty
    <2>1. txn[o] \in Txn
      BY DEF IInv, TypeOK
    <2>2. txn'[o] = IF InTransaction(txn[o])
                    THEN [txn[o] EXCEPT !.dirty = @ \union txn[s].wrote] ELSE txn[o]
      BY DEF EndWithCommit
    <2>3. QED  BY <2>1, <2>2 DEF Txn
  <1>3. \A o \in Session \ {s} : View(txn'[o]) = View(txn[o])
    BY <1>2 DEF View
  <1>4. ConflictInv'
    <2>1. Idle.wrote = {} /\ ~InTransaction(Idle)
      BY DEF Idle, InTransaction
    <2> SUFFICES ASSUME NEW o \in Session
                 PROVE  /\ \A q \in Session \ {o} :
                               txn'[o].wrote \intersect txn'[q].wrote = {}
                        /\ InTransaction(txn'[o]) =>
                               txn'[o].wrote \intersect txn'[o].dirty = {}
      BY DEF ConflictInv, InTransaction
    <2>2. CASE o = s
      BY <1>1, <2>1, <2>2
    <2>3. CASE o # s
      BY <1>1, <1>2, <2>1, <2>3 DEF IInv, ConflictInv, InTransaction
    <2>4. QED  BY <2>2, <2>3
  <1>5. QED  BY <1>1, <1>2, <1>3, <1>4

\* The other requests' invariants survive a COMMIT that makes no alert disappear,
\* creates no investigation they are inserting, and has written the investigation of
\* every alert it changes.
LEMMA OthersAfterCommit ==
    ASSUME IInv, TypeOK', NEW s \in Session, EndWithCommit(s),
           \A a \in Alert : alert[a].status # "absent" => alert'[a].status # "absent",
           \A o \in Session \ {s} : txn[o].pc = "inserting" =>
               inv'[txn[o].op.target] = inv[txn[o].op.target],
           \A a \in Alert : alert'[a] # alert[a] => InvCell(InvOf[a]) \in txn[s].wrote
    PROVE  ProgressInv' /\ SnapshotInv' /\ ConflictInv'
  <1>1. Idle.pc = "idle" /\ Idle.wrote = {} /\ Idle.dirty = {}
    BY DEF Idle
  <1>2. txn'[s] = Idle
    BY CommitShape
  <1>3. ProgressInv'
    <2> SUFFICES ASSUME NEW o \in Session PROVE Progress(txn[o])'
      BY DEF ProgressInv
    <2>1. CASE o = s
      BY <1>1, <1>2, <2>1 DEF Progress
    <2>2. CASE o # s
      <3>1. Progress(txn[o]) /\ txn[o].op \in Op
        BY DEF IInv, ProgressInv, TypeOK, Txn
      <3>2. txn[o].pc \in {"found", "begun", "updated", "refreshed"}
              => txn[o].op.target \in Alert
        BY <3>1, OpType DEF Progress
      <3>3. /\ txn'[o].pc = txn[o].pc /\ txn'[o].op = txn[o].op
            /\ txn'[o].wrote = txn[o].wrote
            /\ ~InTransaction(txn[o]) => txn'[o].dirty = txn[o].dirty
        BY <2>2, CommitShape
      <3>4. QED  BY <2>2, <3>1, <3>2, <3>3 DEF Progress, InTransaction
    <2>3. QED  BY <2>1, <2>2
  <1>4. SnapshotInv'
    <2> SUFFICES ASSUME NEW o \in Session PROVE Current(txn[o])'
      BY DEF SnapshotInv
    <2>1. CASE o = s
      BY <1>1, <1>2, <2>1 DEF Current
    <2>2. CASE o # s
      <3>1. Current(txn[o])
        BY DEF IInv, SnapshotInv
      <3>2. /\ txn'[o].pc = txn[o].pc /\ txn'[o].op = txn[o].op
            /\ txn'[o].snap = txn[o].snap /\ txn'[o].row = txn[o].row
            /\ View(txn'[o]) = View(txn[o])
            /\ InTransaction(txn[o]) =>
                       txn'[o].dirty = txn[o].dirty \union txn[s].wrote
        BY <2>2, CommitShape
      <3>3. View(txn[o])' = View(txn'[o])
        BY DEF View
      <3>4. ASSUME txn[o].pc \in {"begun", "updated", "refreshed"}, txn[o].op.kind # "note",
                   NEW a \in Alert
            PROVE  txn'[o].snap[a] = alert'[a] \/ InvCell(InvOf[a]) \in txn'[o].dirty
        BY <3>1, <3>2, <3>4 DEF Current, InTransaction
      <3>5. QED  BY <3>1, <3>2, <3>3, <3>4 DEF Current
    <2>3. QED  BY <2>1, <2>2
  <1>5. QED  BY <1>3, <1>4, CommitShape

\* The last COMMIT of persist_investigation.
LEMMA CompleteStep ==
    ASSUME IInv, TypeOK', NEW s \in Session, CompleteInvestigation(s)
    PROVE  IInv'
  <1> DEFINE i == txn[s].op.target
  <1>1. /\ txn[s].pc = "inserting" /\ i \in Investigation
        /\ txn[s].wrote = {InvCell(i)} /\ inv[i].status = "absent"
    BY OpType DEF CompleteInvestigation, IInv, ProgressInv, Progress, TypeOK, Txn
  <1>2. /\ inv' = [inv EXCEPT ![i] = OpenInvestigation]
        /\ alert' = [a \in Alert |-> IF InvOf[a] = i THEN NewAlert ELSE alert[a]]
        /\ EndWithCommit(s)
    BY DEF CompleteInvestigation
  <1> HIDE DEF i
  <1>3. inv'[i] = OpenInvestigation /\ \A j \in Investigation \ {i} : inv'[j] = inv[j]
    BY <1>1, <1>2 DEF IInv, TypeOK
  <1>4. NewAlert.status = "new" /\ OpenInvestigation.status = "open"
    BY DEF NewAlert, OpenInvestigation
  <1>5. ProgressInv' /\ SnapshotInv' /\ ConflictInv'
    <2>1. \A a \in Alert : alert[a].status # "absent" => alert'[a].status # "absent"
      BY <1>2, <1>4
    <2>2. \A a \in Alert : alert'[a] # alert[a] => InvCell(InvOf[a]) \in txn[s].wrote
      BY <1>1, <1>2
    <2>3. ASSUME NEW o \in Session \ {s}, txn[o].pc = "inserting"
          PROVE  inv'[txn[o].op.target] = inv[txn[o].op.target]
      <3>1. /\ txn[o].op.target \in Investigation
            /\ txn[o].wrote = {InvCell(txn[o].op.target)}
        BY <2>3, OpType DEF IInv, ProgressInv, Progress, TypeOK, Txn
      <3>2. txn[o].op.target # i
        BY <1>1, <3>1 DEF IInv, ConflictInv
      <3>3. QED  BY <1>3, <3>1, <3>2
    <2>4. QED  BY <1>2, <2>1, <2>2, <2>3, OthersAfterCommit
  <1>6. AlertInv'
    BY <1>2, <1>3, <1>4, InvOfAssumption DEF IInv, AlertInv
  <1>7. CaseInv'
    <2> SUFFICES ASSUME NEW j \in Investigation, inv'[j].status # "absent"
                 PROVE  inv'[j] = IF \A a \in Findings(j) : alert'[a] = NewAlert
                                  THEN OpenInvestigation
                                  ELSE RefreshedRow(RowsOf(j, alert'))
      BY DEF CaseInv
    <2>1. CASE j = i
      BY <1>2, <1>3, <2>1 DEF Findings
    <2>2. CASE j # i
      <3>1. \A a \in Findings(j) : alert'[a] = alert[a]
        BY <1>2, <2>2 DEF Findings
      <3>2. RowsOf(j, alert') = RowsOf(j, alert)
        BY <3>1 DEF RowsOf
      <3>3. QED  BY <1>3, <2>2, <3>1, <3>2 DEF IInv, CaseInv
    <2>3. QED  BY <2>1, <2>2
  <1>8. QED  BY <1>5, <1>6, <1>7 DEF IInv

\* A transaction that has refreshed its investigation commits exactly the row that the
\* committed alerts call for: nobody changed another alert of it since the snapshot.
LEMMA RefreshedRowIsCurrent ==
    ASSUME IInv, NEW s \in Session, CommitCase(s)
    PROVE  /\ txn[s].op \in Op /\ txn[s].op.kind \in {"assign", "disposition"}
           /\ txn[s].op.target \in Alert
           /\ alert[txn[s].op.target].status # "absent"
           /\ InvCell(InvOf[txn[s].op.target]) \in txn[s].wrote
           /\ txn[s].row = RefreshedRow(RowsOf(InvOf[txn[s].op.target], alert'))
  <1> DEFINE op == txn[s].op
             i == InvOf[op.target]
             t == txn[s]
  <1>1. t.pc = "refreshed" /\ Progress(t) /\ Current(t) /\ op \in Op
    BY DEF CommitCase, IInv, ProgressInv, SnapshotInv, TypeOK, Txn
  <1>2. /\ op.kind \in {"assign", "disposition"} /\ op.target \in Alert
        /\ alert[op.target].status # "absent" /\ InvCell(i) \in t.wrote
        /\ t.row = RefreshedRow(RowsOf(i, View(t)))
    BY <1>1, OpType DEF Progress, Current
  <1>3. InvCell(i) \notin t.dirty
    BY <1>1, <1>2 DEF IInv, ConflictInv, InTransaction
  <1>4. \A b \in Findings(i) : t.snap[b] = alert[b]
    BY <1>1, <1>2, <1>3 DEF Current, Findings
  <1>5. t.snap \in [Alert -> AlertRow] /\ alert \in [Alert -> AlertRow]
    BY DEF IInv, TypeOK, Txn
  <1>6. alert' = [alert EXCEPT ![op.target] = UpdatedRow(op, alert[op.target])]
    BY DEF CommitCase
  <1> HIDE DEF op, i, t
  <1>7. \A b \in Findings(i) : View(t)[b] = alert'[b]
    BY <1>2, <1>4, <1>5, <1>6 DEF View, Findings, i, op, t
  <1>8. RowsOf(i, View(t)) = RowsOf(i, alert')
    BY <1>7 DEF RowsOf
  <1>9. QED  BY <1>1, <1>2, <1>8 DEF op, i, t

\* The COMMIT of assign_alert and disposition_alert.
LEMMA CommitCaseStep ==
    ASSUME IInv, TypeOK', NEW s \in Session, CommitCase(s)
    PROVE  IInv'
  <1> DEFINE op == txn[s].op
             i == InvOf[op.target]
  <1>1. /\ op \in Op /\ op.kind \in {"assign", "disposition"} /\ op.target \in Alert
        /\ alert[op.target].status # "absent" /\ InvCell(i) \in txn[s].wrote
        /\ txn[s].row = RefreshedRow(RowsOf(i, alert')) /\ i \in Investigation
    BY RefreshedRowIsCurrent, InvOfAssumption
  <1>2. /\ inv' = [inv EXCEPT ![i] = txn[s].row]
        /\ alert' = [alert EXCEPT ![op.target] = UpdatedRow(op, alert[op.target])]
        /\ EndWithCommit(s)
    BY DEF CommitCase
  <1> DEFINE new == UpdatedRow(op, alert[op.target])
  <1>3. /\ new.status \notin {"absent", "new"}
        /\ new.status = "closed" => new.disposition \in {"true_positive", "false_positive"}
    BY <1>1, UpdatedRowType DEF IInv, TypeOK
  <1> HIDE DEF op, i, new
  <1>4. /\ alert'[op.target] = new
        /\ \A a \in Alert \ {op.target} : alert'[a] = alert[a]
        /\ inv'[i] = RefreshedRow(RowsOf(i, alert'))
        /\ \A j \in Investigation \ {i} : inv'[j] = inv[j]
    BY <1>1, <1>2 DEF IInv, TypeOK, new, op
  <1>5. inv[i].status # "absent"
    BY <1>1 DEF IInv, AlertInv, i
  <1>6. inv'[i].status # "absent"
    <2>1. RowsOf(i, alert') \in SUBSET AlertRow
      BY <1>1, RowsOfType DEF TypeOK
    <2>2. QED  BY <1>4, <2>1, RefreshedRowType
  <1>7. ProgressInv' /\ SnapshotInv' /\ ConflictInv'
    <2>1. \A a \in Alert : alert[a].status # "absent" => alert'[a].status # "absent"
      BY <1>3, <1>4
    <2>2. \A a \in Alert : alert'[a] # alert[a] => InvCell(InvOf[a]) \in txn[s].wrote
      BY <1>1, <1>4 DEF i
    <2>3. ASSUME NEW o \in Session \ {s}, txn[o].pc = "inserting"
          PROVE  inv'[txn[o].op.target] = inv[txn[o].op.target]
      <3>1. txn[o].op.target \in Investigation /\ inv[txn[o].op.target].status = "absent"
        BY <2>3, OpType DEF IInv, ProgressInv, Progress, TypeOK, Txn
      <3>2. QED  BY <1>4, <1>5, <3>1
    <2>4. QED  BY <1>2, <2>1, <2>2, <2>3, OthersAfterCommit
  <1>8. AlertInv'
    <2> SUFFICES ASSUME NEW a \in Alert
                 PROVE  /\ alert'[a].status = "absent" <=> inv'[InvOf[a]].status = "absent"
                        /\ alert'[a].status = "new" => alert'[a] = NewAlert
                        /\ alert'[a].status = "closed" =>
                              alert'[a].disposition \in {"true_positive", "false_positive"}
      BY DEF AlertInv
    <2>1. CASE a = op.target
      BY <1>3, <1>4, <1>6, <2>1 DEF i
    <2>2. CASE a # op.target
      <3>1. inv'[InvOf[a]].status = "absent" <=> inv[InvOf[a]].status = "absent"
        BY <1>4, <1>5, <1>6, InvOfAssumption
      <3>2. QED  BY <1>4, <2>2, <3>1 DEF IInv, AlertInv
    <2>3. QED  BY <2>1, <2>2
  <1>9. CaseInv'
    <2> SUFFICES ASSUME NEW j \in Investigation, inv'[j].status # "absent"
                 PROVE  inv'[j] = IF \A a \in Findings(j) : alert'[a] = NewAlert
                                  THEN OpenInvestigation
                                  ELSE RefreshedRow(RowsOf(j, alert'))
      BY DEF CaseInv
    <2>1. CASE j = i
      <3>1. op.target \in Findings(i) /\ alert'[op.target] # NewAlert
        BY <1>1, <1>3, <1>4 DEF Findings, i, NewAlert
      <3>2. QED  BY <1>4, <2>1, <3>1
    <2>2. CASE j # i
      <3>1. \A a \in Findings(j) : alert'[a] = alert[a]
        BY <1>4, <2>2 DEF Findings, i
      <3>2. RowsOf(j, alert') = RowsOf(j, alert)
        BY <3>1 DEF RowsOf
      <3>3. QED  BY <1>4, <2>2, <3>1, <3>2 DEF IInv, CaseInv
    <2>3. QED  BY <2>1, <2>2
  <1>10. QED  BY <1>7, <1>8, <1>9 DEF IInv

\* The COMMIT of append_alert_note touches neither alerts nor investigations.
LEMMA CommitNoteStep ==
    ASSUME IInv, TypeOK', NEW s \in Session, CommitNote(s)
    PROVE  IInv'
  <1>1. inv' = inv /\ alert' = alert /\ EndWithCommit(s)
    BY DEF CommitNote
  <1>2. ProgressInv' /\ SnapshotInv' /\ ConflictInv'
    BY <1>1, OthersAfterCommit
  <1>3. AlertInv' /\ CaseInv'
    BY <1>1 DEF IInv, AlertInv, CaseInv
  <1>4. QED  BY <1>2, <1>3 DEF IInv

\* A restart drops what was uncommitted.
LEMMA RestartStep ==
    ASSUME IInv, TypeOK', Restart
    PROVE  IInv'
  <1>1. Idle.pc = "idle" /\ Idle.wrote = {} /\ Idle.dirty = {} /\ ~InTransaction(Idle)
    BY DEF Idle, InTransaction
  <1>2. /\ inv' = inv /\ alert' = alert
        /\ \A s \in Session : txn'[s] = Idle
    BY DEF Restart
  <1>3. ProgressInv' /\ SnapshotInv'
    BY <1>1, <1>2 DEF ProgressInv, Progress, SnapshotInv, Current
  <1>4. ConflictInv'
    BY <1>1, <1>2 DEF ConflictInv, InTransaction
  <1>5. AlertInv' /\ CaseInv'
    BY <1>2 DEF IInv, AlertInv, CaseInv
  <1>6. QED  BY <1>3, <1>4, <1>5 DEF IInv

LEMMA NextInv == IInv /\ [Next]_vars => IInv'
  <1> SUFFICES ASSUME IInv, [Next]_vars PROVE IInv'
    OBVIOUS
  <1>1. TypeOK'
    BY NextType DEF IInv
  <1>2. ASSUME NEW s \in Session, Accept(s)
        PROVE  IInv'
    <2>1. ASSUME NEW op \in Op, op.kind \in {"assign", "disposition", "note"},
                 GetQueueItem(s, op)
          PROVE  IInv'
      BY <1>1, <2>1, LookupStep
    <2>2. ASSUME NEW a \in Alert, NEW x \in Analyst,
                 GetQueueItem(s, [kind |-> "assign", target |-> a, arg |-> x])
          PROVE  IInv'
      BY <2>1, <2>2 DEF Op
    <2>3. ASSUME NEW a \in Alert, NEW d \in Disposition,
                 GetQueueItem(s, [kind |-> "disposition", target |-> a, arg |-> d])
          PROVE  IInv'
      BY <2>1, <2>3 DEF Op
    <2>4. ASSUME NEW a \in Alert, NEW n \in Note,
                 GetQueueItem(s, [kind |-> "note", target |-> a, arg |-> n])
          PROVE  IInv'
      BY <2>1, <2>4 DEF Op
    <2>5. QED  BY <1>1, <1>2, <2>2, <2>3, <2>4, PersistStep DEF Accept
  <1>3. ASSUME NEW s \in Session, Proceed(s)
        PROVE  IInv'
    <2>1. CASE \E a \in Alert : QueueFinding(s, a)
      BY <1>1, <2>1, PersistStep
    <2>2. CASE Rollback(s)
      BY <1>1, <2>2, FailStep DEF Rollback
    <2>3. QED
      BY <1>1, <1>3, <2>1, <2>2, CompleteStep, BeginStep, UpdateStep, RefreshStep,
         CommitCaseStep, CommitNoteStep DEF Proceed
  <1>4. ASSUME NEW s \in Session, StatementFails(s)
        PROVE  IInv'
    BY <1>1, <1>4, FailStep DEF StatementFails
  <1>5. CASE Restart
    BY <1>1, <1>5, RestartStep
  <1>6. CASE Quiet \/ UNCHANGED vars
    BY <1>6 DEF Quiet, vars, IInv, TypeOK, ProgressInv, Progress, SnapshotInv, Current,
                ConflictInv, InTransaction, AlertInv, CaseInv
  <1>7. QED  BY <1>2, <1>3, <1>4, <1>5, <1>6 DEF Next

-----------------------------------------------------------------------------
(* The theorems. *)

\* The inductive invariant holds in every reachable state, types included.
THEOREM WorkflowStoreInvariant == Spec => []IInv
  <1>1. IInv /\ [Next]_vars => IInv'
    BY NextInv
  <1>2. QED  BY InitInv, <1>1, PTL DEF Spec

\* Every variable keeps its type (the tables and each request's progress).
THEOREM WorkflowStoreTypes == Spec => []TypeOK
  <1>1. IInv => TypeOK
    BY DEF IInv
  <1>2. QED  BY WorkflowStoreInvariant, <1>1, PTL

\* A row of an investigation that follows from its alerts agrees with them.
LEMMA CaseInvAgrees ==
    ASSUME IInv, NEW i \in Investigation, inv[i].status # "absent"
    PROVE  StatusAgrees(i)
  <1> DEFINE rows == RowsOf(i, alert)
  <1>1. \A a \in Findings(i) : alert[a].status # "absent" /\ alert[a] \in rows
    BY DEF IInv, AlertInv, Findings, RowsOf
  <1>2. /\ rows \in SUBSET AlertRow
        /\ \A r \in rows : \E a \in Findings(i) : r = alert[a]
    BY RowsOfType DEF IInv, TypeOK, RowsOf
  <1>3. \A r \in rows : /\ r.status \in {"new", "in_review", "escalated", "closed"}
                        /\ r.status = "new" => r = NewAlert
                        /\ r.status = "closed" =>
                              r.disposition \in {"true_positive", "false_positive"}
    BY <1>1, <1>2 DEF IInv, AlertInv, AlertRow, AlertStatus, Findings
  <1>4. NewAlert.status = "new" /\ NewAlert.disposition = "pending"
    BY DEF NewAlert
  <1>5. CASE \A a \in Findings(i) : alert[a] = NewAlert
    <2>1. inv[i].status = "open" /\ inv[i].disposition = "pending"
      BY <1>5 DEF IInv, CaseInv, OpenInvestigation
    <2>2. \A r \in rows : r = NewAlert
      BY <1>2, <1>5
    <2> HIDE DEF rows
    <2>3. QED  BY <1>4, <2>1, <2>2 DEF StatusAgrees, rows
  <1>6. CASE ~\A a \in Findings(i) : alert[a] = NewAlert
    <2>1. inv[i] = RefreshedRow(rows)
      BY <1>6 DEF IInv, CaseInv
    <2>2. PICK r0 \in rows : r0 # NewAlert
      BY <1>1, <1>6
    <2> HIDE DEF rows
    <2>3. CASE \E r \in rows : r.status = "escalated"
      <3>1. inv[i].status = "escalated" /\ inv[i].disposition = "escalated"
        BY <2>1, <2>3 DEF RefreshedRow
      <3>2. QED  BY <1>3, <2>2, <2>3, <3>1 DEF StatusAgrees, rows
    <2>4. CASE /\ \A r \in rows : r.status # "escalated"
               /\ \E r \in rows : r.status \in {"new", "in_review"}
      <3>1. inv[i].status = "in_review" /\ inv[i].disposition = "pending"
        BY <2>1, <2>4 DEF RefreshedRow
      <3>2. QED  BY <1>3, <2>2, <2>4, <3>1 DEF StatusAgrees, rows
    <2>5. CASE \A r \in rows : r.status = "closed"
      <3>1. inv[i].status = "closed"
        BY <2>1, <2>5 DEF RefreshedRow
      <3>2. inv[i].disposition = IF \E r \in rows : r.disposition = "true_positive"
                                 THEN "true_positive" ELSE "false_positive"
        <4>1. r0.disposition \in {r.disposition : r \in rows} \ {"pending"}
          BY <1>3, <2>2, <2>5
        <4>2. QED  BY <2>1, <2>5, <4>1 DEF RefreshedRow
      <3>3. QED  BY <1>4, <2>2, <2>5, <3>1, <3>2 DEF StatusAgrees, rows
    <2>6. QED  BY <1>3, <2>3, <2>4, <2>5
  <1>7. QED  BY <1>5, <1>6

\* Two analysts who act on two alerts of one investigation at the same time never leave
\* the investigation's status behind its alerts (no write skew).
THEOREM InvestigationStatusTheorem == Spec => []InvestigationStatusConsistent
  <1>1. IInv => InvestigationStatusConsistent
    BY CaseInvAgrees DEF InvestigationStatusConsistent
  <1>2. QED  BY WorkflowStoreInvariant, <1>1, PTL

\* The abstract specification uses the same rules.
LEMMA SameRules ==
    /\ Case!NoInvestigation = NoInvestigation /\ Case!OpenInvestigation = OpenInvestigation
    /\ Case!NoAlert = NoAlert /\ Case!NewAlert = NewAlert
    /\ Case!Disposition = Disposition
    /\ \A row, x : Case!Assigned(row, x) = Assigned(row, x)
    /\ \A row, d : Case!Dispositioned(row, d) = Dispositioned(row, d)
    /\ \A i, rows : Case!RefreshedRow(Case!RowsOf(i, rows)) = RefreshedRow(RowsOf(i, rows))
  <1>1. \A i, rows : Case!RowsOf(i, rows) = RowsOf(i, rows)
    BY DEF Case!RowsOf, RowsOf, Case!Findings, Findings, Case!Nobody, Nobody
  <1>2. \A rows : Case!RefreshedRow(rows) = RefreshedRow(rows)
    BY DEF Case!RefreshedRow, RefreshedRow
  <1>3. QED
    BY <1>1, <1>2
       DEF Case!NoInvestigation, NoInvestigation, Case!OpenInvestigation, OpenInvestigation,
           Case!NoAlert, NoAlert, Case!NewAlert, NewAlert, Case!Nobody, Nobody,
           Case!Disposition, Disposition, Case!Assigned, Assigned, Case!Dispositioned,
           Dispositioned

\* Every step of the interleaved requests is one indivisible request of CaseWorkflow or
\* leaves investigations and alerts alone.
LEMMA StepIsSerial ==
    IInv /\ [Next]_vars => [Case!CaseNext]_(Case!caseVars)
  <1> SUFFICES ASSUME IInv, [Next]_vars, ~UNCHANGED <<inv, alert>>
               PROVE  Case!CaseNext
    BY DEF Case!caseVars
  <1>1. PICK s \in Session : CompleteInvestigation(s) \/ CommitCase(s)
    BY DEF Next, Accept, Proceed, BeginPersist, QueueFinding, GetQueueItem, BeginTransaction,
           UpdateAlert, RefreshInvestigationStatus, CommitNote, Rollback, StatementFails,
           Restart, Quiet, vars
  <1>2. CASE CompleteInvestigation(s)
    <2> DEFINE i == txn[s].op.target
    <2>1. i \in Investigation /\ inv[i].status = "absent"
      BY <1>2, OpType DEF CompleteInvestigation, IInv, ProgressInv, Progress, TypeOK, Txn
    <2>2. Case!Open(i)
      BY <1>2, <2>1, SameRules DEF CompleteInvestigation, Case!Open
    <2>3. QED  BY <2>1, <2>2 DEF Case!CaseNext
  <1>3. CASE CommitCase(s)
    <2> DEFINE op == txn[s].op
               row == UpdatedRow(op, alert[op.target])
    <2>1. /\ op \in Op /\ op.kind \in {"assign", "disposition"} /\ op.target \in Alert
          /\ alert[op.target].status # "absent"
          /\ txn[s].row = RefreshedRow(RowsOf(InvOf[op.target], alert'))
      BY <1>3, RefreshedRowIsCurrent
    <2>2. Case!Change(op.target, row)
      BY <1>3, <2>1, SameRules DEF CommitCase, Case!Change
    <2>3. CASE op.kind = "assign"
      <3>1. op.arg \in Analyst /\ row = Assigned(alert[op.target], op.arg)
        BY <2>1, <2>3 DEF Op, UpdatedRow
      <3>2. QED  BY <2>1, <2>2, <3>1, SameRules DEF Case!CaseNext
    <2>4. CASE op.kind = "disposition"
      <3>1. op.arg \in Disposition /\ row = Dispositioned(alert[op.target], op.arg)
        BY <2>1, <2>4 DEF Op, UpdatedRow
      <3>2. QED  BY <2>1, <2>2, <3>1, SameRules DEF Case!CaseNext
    <2>5. QED  BY <2>1, <2>3, <2>4
  <1>4. QED  BY <1>1, <1>2, <1>3

\* The store implements the serial review queue.
THEOREM StoreIsSerial == Spec => RequestsLookSerial
  <1>1. Init => Case!CaseInit
    BY SameRules DEF Init, Case!CaseInit
  <1>2. QED
    BY <1>1, StepIsSerial, WorkflowStoreInvariant, PTL DEF Spec, RequestsLookSerial,
       Case!CaseSpec

-----------------------------------------------------------------------------
(* The audit log. *)

\* at are events of the log about alert a that account for the entries ns, in order.
Explains(at, a, ns) ==
    /\ at \in [1..Len(ns) -> EventsAbout(a, {"analyst_note_added"})]
    /\ \A m, n \in 1..Len(ns) : m < n => at[m] < at[n]
    /\ \A n \in 1..Len(ns) : audit[at[n]].arg = ns[n]

\* What request t has inserted: each finding of its response at most once.
Made(t) ==
    /\ t.pc = "idle" => t.made = <<>>
    /\ t.pc = "inserting" =>
          \A m, n \in 1..Len(t.made) : /\ InvOf[t.made[m]] = t.op.target
                                       /\ t.made[m] = t.made[n] => m = n

\* The notes request t has read are in the log, however old they are.
Seen(t) ==
    t.pc \in {"found", "begun", "updated"} /\ t.op.kind = "note" =>
        \E at : Explains(at, t.op.target, t.seen)

RequestInv == \A s \in Session : Made(txn[s]) /\ Seen(txn[s])

AuditInv ==
    /\ IInv /\ RequestInv
    /\ InvestigationKeptWhole /\ AuditExplainsAlerts /\ NotesFollowAudit

\* The log after a step begins with the log before it.
LogKept ==
    /\ Len(audit) \in Nat /\ Len(audit') \in Nat /\ Len(audit) <= Len(audit')
    /\ \A n \in 1..Len(audit) : audit'[n] = audit[n]

\* Positions of the events about target that a step adds.
Added(target, types) ==
    {n \in (Len(audit) + 1)..Len(audit') : audit'[n].target = target /\ audit'[n].type \in types}

LEMMA EventsAfter ==
    ASSUME LogKept, NEW target, NEW types
    PROVE  /\ EventsAbout(target, types)' = EventsAbout(target, types) \cup Added(target, types)
           /\ \A n \in EventsAbout(target, types) : n \in 1..Len(audit) /\ audit'[n] = audit[n]
BY DEF LogKept, EventsAbout, Added

\* The events a request on an alert adds: one.
LEMMA CommitAppends ==
    ASSUME IInv, NEW s \in Session, CommitCase(s) \/ CommitNote(s)
    PROVE  LET op == txn[s].op
           IN  /\ op \in Op /\ op.kind \in {"assign", "disposition", "note"}
               /\ op.target \in Alert /\ alert[op.target].status # "absent"
               /\ LogKept /\ Len(audit') = Len(audit) + 1
               /\ audit'[Len(audit) + 1] = Event(EventType(op), op.target, op.arg)
<1> DEFINE op == txn[s].op
           e == Event(EventType(op), op.target, op.arg)
<1>1. txn[s].pc \in {"updated", "refreshed"} /\ Progress(txn[s]) /\ op \in Op
  BY DEF CommitCase, CommitNote, IInv, ProgressInv, TypeOK, Txn
<1>2. /\ op.kind \in {"assign", "disposition", "note"} /\ op.target \in Alert
      /\ alert[op.target].status # "absent"
  BY <1>1, OpType DEF Progress
<1>3. audit' = Append(audit, e) /\ audit \in Seq(AuditEvent)
  BY DEF CommitCase, CommitNote, IInv, TypeOK
<1>4. Len(audit) \in Nat /\ Len(audit') = Len(audit) + 1 /\ audit'[Len(audit) + 1] = e
      /\ \A n \in 1..Len(audit) : audit'[n] = audit[n]
  <2> HIDE DEF e
  <2> QED  BY <1>3
<1> QED  BY <1>1, <1>2, <1>4 DEF LogKept

\* The events persist_investigation adds.
LEMMA CompleteAppends ==
    ASSUME IInv, NEW s \in Session, CompleteInvestigation(s)
    PROVE  LET i == txn[s].op.target
               made == txn[s].made
               k == Len(made)
           IN  /\ i \in Investigation /\ inv[i].status = "absent"
               /\ made \in Seq(Alert) /\ k \in Nat
               /\ LogKept /\ Len(audit') = Len(audit) + k + 2
               /\ audit'[Len(audit) + 1] = Event("query_received", i, NoTarget)
               /\ \A n \in 1..k : audit'[Len(audit) + 1 + n] = Event("alert_created", made[n], NoTarget)
               /\ audit'[Len(audit) + k + 2] = Event("investigation_completed", i, NoTarget)
<1> DEFINE i == txn[s].op.target
           made == txn[s].made
           k == Len(made)
           q == Event("query_received", i, NoTarget)
           c == Event("investigation_completed", i, NoTarget)
           created == [n \in 1..k |-> Event("alert_created", made[n], NoTarget)]
           a1 == audit \o <<q>>
           a2 == a1 \o created
<1>1. i \in Investigation /\ inv[i].status = "absent" /\ made \in Seq(Alert)
  BY OpType DEF CompleteInvestigation, IInv, ProgressInv, Progress, TypeOK, Txn
<1>2. q \in AuditEvent /\ c \in AuditEvent
  BY <1>1 DEF Event, AuditEvent
<1>3. k \in Nat /\ created \in Seq(AuditEvent) /\ Len(created) = k
      /\ \A n \in 1..k : created[n] = Event("alert_created", made[n], NoTarget)
  BY <1>1 DEF Event, AuditEvent
<1>4. audit \in Seq(AuditEvent) /\ audit' = a2 \o <<c>>
  BY DEF CompleteInvestigation, IInv, TypeOK
<1> HIDE DEF i, made, k, q, c, created
<1>5. /\ a1 \in Seq(AuditEvent) /\ Len(a1) = Len(audit) + 1 /\ a1[Len(audit) + 1] = q
      /\ \A n \in 1..Len(audit) : a1[n] = audit[n]
  BY <1>2, <1>4
<1> HIDE DEF a1
<1>6. /\ a2 \in Seq(AuditEvent) /\ Len(a2) = Len(a1) + k
      /\ \A n \in 1..Len(a1) : a2[n] = a1[n]
      /\ \A n \in 1..k : a2[Len(a1) + n] = created[n]
  <2>1. /\ a1 \o created \in Seq(AuditEvent) /\ Len(a1 \o created) = Len(a1) + Len(created)
        /\ \A j \in 1..Len(a1) + Len(created) :
              (a1 \o created)[j] = IF j <= Len(a1) THEN a1[j] ELSE created[j - Len(a1)]
    BY <1>3, <1>5, ConcatProperties
  <2>2. Len(a1) \in Nat
    BY <1>5
  <2>3. \A n \in 1..k : /\ Len(a1) + n \in 1..Len(a1) + k /\ ~(Len(a1) + n <= Len(a1))
                        /\ Len(a1) + n - Len(a1) = n
    BY <1>3, <2>2
  <2>4. \A n \in 1..Len(a1) : n \in 1..Len(a1) + k /\ n <= Len(a1)
    BY <1>3, <2>2
  <2> QED  BY <1>3, <2>1, <2>3, <2>4
<1> HIDE DEF a2
<1>7. /\ Len(audit') = Len(a2) + 1 /\ audit'[Len(a2) + 1] = c
      /\ \A n \in 1..Len(a2) : audit'[n] = a2[n]
  BY <1>2, <1>4, <1>6
<1>8. Len(audit) \in Nat
  BY <1>4
<1>9. Len(audit') = Len(audit) + k + 2 /\ audit'[Len(audit) + k + 2] = c
  BY <1>3, <1>5, <1>6, <1>7, <1>8
<1>10. \A n \in 1..Len(audit) + 1 : audit'[n] = a1[n]
  BY <1>3, <1>5, <1>6, <1>7, <1>8
<1>11. \A n \in 1..k : audit'[Len(audit) + 1 + n] = created[n]
  BY <1>3, <1>5, <1>6, <1>7, <1>8
<1>12. LogKept
  BY <1>3, <1>5, <1>8, <1>9, <1>10 DEF LogKept
<1> QED  BY <1>1, <1>3, <1>5, <1>8, <1>9, <1>10, <1>11, <1>12 DEF i, made, k, q, c

\* Only the three COMMITs change what is committed.
LEMMA OnlyCommits ==
    ASSUME [Next]_vars
    PROVE  \/ inv' = inv /\ alert' = alert /\ notes' = notes /\ audit' = audit
           \/ \E s \in Session : CompleteInvestigation(s) \/ CommitCase(s) \/ CommitNote(s)
BY DEF Next, Accept, Proceed, BeginPersist, QueueFinding, GetQueueItem, BeginTransaction,
       UpdateAlert, RefreshInvestigationStatus, Rollback, StatementFails, Restart, Quiet, vars

\* The log is only appended to.
LEMMA LogGrows ==
    ASSUME IInv, [Next]_vars
    PROVE  LogKept
<1>1. CASE audit' = audit
  BY <1>1 DEF LogKept, IInv, TypeOK
<1> QED  BY <1>1, OnlyCommits, CompleteAppends, CommitAppends

-----------------------------------------------------------------------------
(* Every change is audited. *)

\* What a step that changes something adds to the log.
ChangeAudited ==
    LET new == (Len(audit) + 1)..Len(audit')
    IN  /\ Len(audit) <= Len(audit')
        /\ SubSeq(audit', 1, Len(audit)) = audit
        /\ \A a \in Alert : <<alert[a], notes[a]>> # <<alert[a], notes[a]>>'
                             => \E n \in new : audit'[n].target = a
        /\ \A i \in Investigation : inv[i] # inv'[i]
                             => \E n \in new : audit'[n].target \in {i} \union Findings(i)

\* The log before a step is a beginning of the log after it.
LEMMA LogIsPrefix ==
    ASSUME LogKept, audit \in Seq(AuditEvent)
    PROVE  SubSeq(audit', 1, Len(audit)) = audit
<1>1. \A n \in 1..Len(audit) : audit'[n] \in AuditEvent
  BY DEF LogKept
<1>2. /\ SubSeq(audit', 1, Len(audit)) \in Seq(AuditEvent)
      /\ Len(SubSeq(audit', 1, Len(audit))) = IF 1 <= Len(audit) THEN Len(audit) - 1 + 1 ELSE 0
      /\ \A n \in 1..Len(audit) - 1 + 1 : SubSeq(audit', 1, Len(audit))[n] = audit'[1 + n - 1]
  BY <1>1, SubSeqProperties DEF LogKept
<1>3. \A n \in 1..Len(audit) : n \in 1..Len(audit) - 1 + 1 /\ 1 + n - 1 = n
  BY DEF LogKept
<1>4. Len(SubSeq(audit', 1, Len(audit))) = Len(audit)
  BY <1>2 DEF LogKept
<1>5. \A n \in 1..Len(SubSeq(audit', 1, Len(audit))) : SubSeq(audit', 1, Len(audit))[n] = audit[n]
  BY <1>2, <1>3, <1>4 DEF LogKept
<1> HIDE DEF LogKept
<1> QED  BY <1>2, <1>4, <1>5, SeqEqual

LEMMA StepAudited == ASSUME IInv, [Next]_vars PROVE ChangeAudited
<1>1. LogKept /\ SubSeq(audit', 1, Len(audit)) = audit
  BY LogGrows, LogIsPrefix DEF IInv, TypeOK
<1>2. CASE inv' = inv /\ alert' = alert /\ notes' = notes
  BY <1>1, <1>2 DEF ChangeAudited, LogKept
<1>3. ASSUME NEW s \in Session, CommitCase(s) \/ CommitNote(s)
      PROVE  ChangeAudited
  <2> DEFINE op == txn[s].op
  <2>1. /\ op.target \in Alert /\ Len(audit') = Len(audit) + 1
        /\ audit'[Len(audit) + 1] = Event(EventType(op), op.target, op.arg)
    BY <1>3, CommitAppends
  <2>2. \E n \in (Len(audit) + 1)..Len(audit') : audit'[n].target = op.target
    BY <1>1, <2>1 DEF Event, LogKept
  <2>3. \A a \in Alert \ {op.target} : alert'[a] = alert[a] /\ notes'[a] = notes[a]
    BY <1>3 DEF CommitCase, CommitNote, IInv, TypeOK
  <2>4. \A i \in Investigation : inv[i] # inv'[i] => op.target \in Findings(i)
    BY <1>3, <2>1 DEF CommitCase, CommitNote, IInv, TypeOK, Findings
  <2> HIDE DEF op
  <2> QED  BY <1>1, <2>2, <2>3, <2>4 DEF ChangeAudited, LogKept
<1>4. ASSUME NEW s \in Session, CompleteInvestigation(s)
      PROVE  ChangeAudited
  <2> DEFINE i == txn[s].op.target
             made == txn[s].made
             k == Len(made)
  <2>1. /\ i \in Investigation /\ k \in Nat /\ Len(audit') = Len(audit) + k + 2
        /\ audit'[Len(audit) + 1] = Event("query_received", i, NoTarget)
        /\ \A n \in 1..k : audit'[Len(audit) + 1 + n] = Event("alert_created", made[n], NoTarget)
    BY <1>4, CompleteAppends
  <2>2. /\ \A a \in Findings(i) : \E n \in 1..k : made[n] = a
        /\ \A a \in Alert : InvOf[a] # i => alert'[a] = alert[a]
        /\ \A j \in Investigation : j # i => inv'[j] = inv[j]
        /\ notes' = notes
    BY <1>4 DEF CompleteInvestigation, IInv, TypeOK
  <2> HIDE DEF i, made, k
  <2>3. \E n \in (Len(audit) + 1)..Len(audit') : audit'[n].target = i
    BY <1>1, <2>1 DEF Event, LogKept
  <2>4. \A a \in Findings(i) : \E n \in (Len(audit) + 1)..Len(audit') : audit'[n].target = a
    <3> SUFFICES ASSUME NEW a \in Findings(i)
                 PROVE  \E n \in (Len(audit) + 1)..Len(audit') : audit'[n].target = a
      OBVIOUS
    <3>1. PICK n \in 1..k : made[n] = a
      BY <2>2
    <3>2. Len(audit) + 1 + n \in (Len(audit) + 1)..Len(audit')
      BY <1>1, <2>1 DEF LogKept
    <3>3. audit'[Len(audit) + 1 + n] = Event("alert_created", a, NoTarget)
      BY <2>1, <3>1, Zenon
    <3>4. Event("alert_created", a, NoTarget).target = a
      BY DEF Event
    <3> QED  BY <3>2, <3>3, <3>4
  <2>5. \A a \in Alert : <<alert[a], notes[a]>> # <<alert[a], notes[a]>>' => a \in Findings(i)
    BY <2>2 DEF Findings
  <2> QED  BY <1>1, <2>2, <2>3, <2>4, <2>5 DEF ChangeAudited, LogKept
<1> QED  BY <1>2, <1>3, <1>4, OnlyCommits

\* Whatever requests interleave and fail, nothing committed changes without an event
\* about it, and no event is ever changed or removed (_insert_audit).
THEOREM EveryChangeAuditedTheorem == Spec => EveryChangeAudited
<1>1. IInv /\ [Next]_vars => [ChangeAudited]_vars
  BY StepAudited
<1> QED  BY <1>1, WorkflowStoreInvariant, PTL DEF Spec, EveryChangeAudited, ChangeAudited

-----------------------------------------------------------------------------
(* What requests remember. *)

\* What the log explained before a step it explains after it.
LEMMA StillExplains ==
    ASSUME LogKept, NEW at, NEW a, NEW ns, Explains(at, a, ns)
    PROVE  Explains(at, a, ns)'
<1> DEFINE noted == EventsAbout(a, {"analyst_note_added"})
<1>1. noted \subseteq noted' /\ \A n \in noted : audit'[n] = audit[n]
  BY EventsAfter
<1> HIDE DEF noted
<1>2. at \in [1..Len(ns) -> noted] /\ \A n \in 1..Len(ns) : at[n] \in noted
  BY DEF Explains, noted
<1>3. at \in [1..Len(ns) -> noted']
  BY <1>1, <1>2
<1>4. \A n \in 1..Len(ns) : audit'[at[n]].arg = ns[n]
  BY <1>1, <1>2 DEF Explains
<1> QED  BY <1>3, <1>4 DEF Explains, noted

LEMMA StillSeen ==
    ASSUME LogKept, NEW t, Seen(t)
    PROVE  Seen(t)'
BY StillExplains DEF Seen

\* A step of one request that commits nothing.
LEMMA LocalRequest ==
    ASSUME TypeOK, RequestInv, audit' = audit, NEW s \in Session, NEW t, Becomes(s, t),
           Made(t), Seen(t)
    PROVE  RequestInv'
<1>1. /\ txn'[s] = t
      /\ \A o \in Session \ {s} : txn'[o] = txn[o]
  BY DEF Becomes, TypeOK
<1>2. LogKept
  BY DEF LogKept, TypeOK
<1>3. ASSUME NEW o \in Session PROVE (Made(txn[o]) /\ Seen(txn[o]))'
  <2>1. PICK u : u = txn'[o]
    OBVIOUS
  <2>2. Made(u) /\ Seen(u)
    BY <1>1, <2>1 DEF RequestInv
  <2>3. Made(u)' /\ Seen(u)'
    BY <1>2, <2>2, StillSeen DEF Made
  <2> QED  BY <2>1, <2>3
<1> QED  BY <1>3 DEF RequestInv

LEMMA IdleRequest == Made(Idle) /\ Seen(Idle)
BY DEF Idle, Made, Seen

LEMMA FailedRequest ==
    ASSUME TypeOK, NEW s \in Session
    PROVE  Made([txn[s] EXCEPT !.pc = "failed"]) /\ Seen([txn[s] EXCEPT !.pc = "failed"])
<1>1. [txn[s] EXCEPT !.pc = "failed"].pc = "failed"
  BY DEF TypeOK, Txn
<1> QED  BY <1>1 DEF Made, Seen

\* A COMMIT leaves the others with what they remember.
LEMMA CommitRequest ==
    ASSUME TypeOK, RequestInv, LogKept, NEW s \in Session, EndWithCommit(s)
    PROVE  RequestInv'
<1>1. ASSUME NEW o \in Session PROVE (Made(txn[o]) /\ Seen(txn[o]))'
  <2>1. CASE o = s
    <3>1. txn'[o] = Idle
      BY <2>1 DEF EndWithCommit
    <3>2. Idle.pc = "idle" /\ Idle.made = <<>>
      BY DEF Idle
    <3> QED  BY <3>1, <3>2 DEF Made, Seen
  <2>2. CASE o # s
    <3>1. txn[o] \in Txn
      BY DEF TypeOK
    <3>2. txn'[o] = IF InTransaction(txn[o])
                    THEN [txn[o] EXCEPT !.dirty = @ \union txn[s].wrote] ELSE txn[o]
      BY <2>2 DEF EndWithCommit
    <3>3. /\ txn'[o].pc = txn[o].pc /\ txn'[o].op = txn[o].op
          /\ txn'[o].seen = txn[o].seen /\ txn'[o].made = txn[o].made
      BY <3>1, <3>2 DEF Txn
    <3>4. Made(txn[o]) /\ Seen(txn[o])
      BY DEF RequestInv
    <3>5. PICK t : t = txn[o]
      OBVIOUS
    <3>6. Seen(t)'
      BY <3>4, <3>5, StillSeen
    <3> QED  BY <3>3, <3>4, <3>5, <3>6 DEF Made, Seen
  <2> QED  BY <2>1, <2>2
<1> QED  BY <1>1 DEF RequestInv

LEMMA RequestStep ==
    ASSUME AuditInv, [Next]_vars
    PROVE  RequestInv'
<1> USE DEF AuditInv
<1>1. IInv /\ TypeOK /\ RequestInv
  BY DEF IInv
<1>2. ASSUME NEW s \in Session, NEW i \in Investigation, BeginPersist(s, i)
      PROVE  RequestInv'
  <2> DEFINE op == [kind |-> "persist", target |-> i, arg |-> NoTarget]
             t == [txn[s] EXCEPT !.pc = "inserting", !.op = op, !.wrote = {InvCell(i)}]
  <2>1. t.pc = "inserting" /\ t.made = txn[s].made
    BY <1>1 DEF TypeOK, Txn
  <2>2. Becomes(s, t) /\ txn[s].pc = "idle" /\ audit' = audit
    BY <1>2 DEF BeginPersist
  <2> HIDE DEF t
  <2>3. t.made = <<>>
    BY <2>1, <2>2 DEF RequestInv, Made
  <2>4. Made(t) /\ Seen(t)
    BY <2>1, <2>3 DEF Made, Seen
  <2> QED  BY <1>1, <2>2, <2>4, LocalRequest
<1>3. ASSUME NEW s \in Session, NEW a \in Alert, QueueFinding(s, a)
      PROVE  RequestInv'
  <2> DEFINE made == txn[s].made
             t == [txn[s] EXCEPT !.made = Append(@, a)]
  <2>1. t.pc = txn[s].pc /\ t.op = txn[s].op /\ t.made = Append(made, a) /\ made \in Seq(Alert)
    BY <1>1 DEF TypeOK, Txn
  <2>2. /\ Becomes(s, t) /\ txn[s].pc = "inserting" /\ audit' = audit
        /\ InvOf[a] = txn[s].op.target /\ \A n \in 1..Len(made) : made[n] # a
    BY <1>3 DEF QueueFinding
  <2>3. \A m, n \in 1..Len(made) : InvOf[made[m]] = txn[s].op.target /\ (made[m] = made[n] => m = n)
    BY <2>2 DEF RequestInv, Made
  <2> HIDE DEF t, made
  <2>4. Made(t)
    BY <2>1, <2>2, <2>3 DEF Made
  <2>5. Seen(t)
    BY <2>1, <2>2 DEF Seen
  <2> QED  BY <1>1, <2>2, <2>4, <2>5, LocalRequest
<1>4. ASSUME NEW s \in Session, NEW op \in Op, op.target \in Alert, GetQueueItem(s, op)
      PROVE  RequestInv'
  <2> DEFINE t == [txn[s] EXCEPT !.pc = "found", !.op = op,
                                 !.seen = IF op.kind = "note" THEN notes[op.target] ELSE <<>>]
  <2>1. t.pc = "found" /\ t.op = op /\ (op.kind = "note" => t.seen = notes[op.target])
    BY <1>1 DEF TypeOK, Txn
  <2>2. Becomes(s, t) /\ audit' = audit
    BY <1>4 DEF GetQueueItem
  <2> HIDE DEF t
  <2>3. Made(t)
    BY <2>1 DEF Made
  <2>4. Seen(t)
    BY <1>4, <2>1 DEF Seen, NotesFollowAudit, Explains
  <2> QED  BY <1>1, <2>2, <2>3, <2>4, LocalRequest
<1>5. ASSUME NEW s \in Session, BeginTransaction(s)
      PROVE  RequestInv'
  <2> DEFINE t == [txn[s] EXCEPT !.pc = "begun",
                                 !.snap = IF txn[s].op.kind = "note" THEN @ ELSE alert]
  <2>1. t.pc = "begun" /\ t.op = txn[s].op /\ t.seen = txn[s].seen
    BY <1>1 DEF TypeOK, Txn
  <2>2. Becomes(s, t) /\ txn[s].pc = "found" /\ audit' = audit
    BY <1>5 DEF BeginTransaction
  <2> HIDE DEF t
  <2>3. Made(t) /\ Seen(t)
    BY <2>1, <2>2 DEF RequestInv, Made, Seen
  <2> QED  BY <1>1, <2>2, <2>3, LocalRequest
<1>6. ASSUME NEW s \in Session, UpdateAlert(s)
      PROVE  RequestInv'
  <2> DEFINE cell == TargetCell(txn[s].op)
             t == [txn[s] EXCEPT !.pc = "updated", !.wrote = {cell}]
  <2>1. t.pc = "updated" /\ t.op = txn[s].op /\ t.seen = txn[s].seen
    BY <1>1 DEF TypeOK, Txn
  <2>2. Fail(s) \/ Becomes(s, t)
    BY <1>6 DEF UpdateAlert
  <2>3. txn[s].pc = "begun" /\ audit' = audit
    BY <1>6 DEF UpdateAlert
  <2> HIDE DEF t
  <2>4. Made(t) /\ Seen(t)
    BY <2>1, <2>3 DEF RequestInv, Made, Seen
  <2> QED  BY <1>1, <2>2, <2>3, <2>4, LocalRequest, FailedRequest DEF Fail
<1>7. ASSUME NEW s \in Session, RefreshInvestigationStatus(s)
      PROVE  RequestInv'
  <2> DEFINE i == InvOf[txn[s].op.target]
             t == [txn[s] EXCEPT !.pc = "refreshed",
                                 !.row = RefreshedRow(RowsOf(i, View(txn[s]))),
                                 !.wrote = @ \union {InvCell(i)}]
  <2>1. t.pc = "refreshed"
    BY <1>1 DEF TypeOK, Txn
  <2>2. (Fail(s) \/ Becomes(s, t)) /\ audit' = audit
    BY <1>7 DEF RefreshInvestigationStatus
  <2> HIDE DEF t
  <2>3. Made(t) /\ Seen(t)
    BY <2>1 DEF Made, Seen
  <2> QED  BY <1>1, <2>2, <2>3, LocalRequest, FailedRequest DEF Fail
<1>8. ASSUME NEW s \in Session, CompleteInvestigation(s) \/ CommitCase(s) \/ CommitNote(s)
      PROVE  RequestInv'
  <2>1. EndWithCommit(s)
    BY <1>8 DEF CompleteInvestigation, CommitCase, CommitNote
  <2> QED  BY <1>1, <2>1, LogGrows, CommitRequest
<1>9. ASSUME NEW s \in Session, Rollback(s) \/ StatementFails(s)
      PROVE  RequestInv'
  BY <1>1, <1>9, LocalRequest, IdleRequest, FailedRequest DEF Rollback, StatementFails, Fail
<1>10. CASE Restart
  <2>1. \A s \in Session : txn'[s] = Idle
    BY <1>10 DEF Restart
  <2>2. Idle.pc = "idle" /\ Idle.made = <<>>
    BY DEF Idle
  <2> QED  BY <2>1, <2>2 DEF RequestInv, Made, Seen
<1>11. CASE Quiet \/ UNCHANGED vars
  <2>1. txn' = txn /\ LogKept
    BY <1>1, <1>11, LogGrows DEF Quiet, vars
  <2>2. ASSUME NEW s \in Session PROVE (Made(txn[s]) /\ Seen(txn[s]))'
    <3>1. PICK t : t = txn[s]
      OBVIOUS
    <3>2. Made(t)' /\ Seen(t)'
      BY <2>1, <3>1, StillSeen DEF RequestInv, Made
    <3> QED  BY <2>1, <3>1, <3>2
  <2> QED  BY <2>2 DEF RequestInv
<1>12. ASSUME NEW s \in Session, Accept(s)
       PROVE  RequestInv'
  <2>1. ASSUME NEW a \in Alert, NEW x \in Analyst,
               GetQueueItem(s, [kind |-> "assign", target |-> a, arg |-> x])
        PROVE  RequestInv'
    BY <1>4, <2>1 DEF Op
  <2>2. ASSUME NEW a \in Alert, NEW d \in Disposition,
               GetQueueItem(s, [kind |-> "disposition", target |-> a, arg |-> d])
        PROVE  RequestInv'
    BY <1>4, <2>2 DEF Op
  <2>3. ASSUME NEW a \in Alert, NEW n \in Note,
               GetQueueItem(s, [kind |-> "note", target |-> a, arg |-> n])
        PROVE  RequestInv'
    BY <1>4, <2>3 DEF Op
  <2> QED  BY <1>2, <1>12, <2>1, <2>2, <2>3 DEF Accept
<1> HIDE DEF AuditInv
<1> QED  BY <1>3, <1>5, <1>6, <1>7, <1>8, <1>9, <1>10, <1>11, <1>12 DEF Next, Proceed

-----------------------------------------------------------------------------
(* What a COMMIT adds to the log. *)

LEMMA CommitAdds ==
    ASSUME IInv, NEW s \in Session, CommitCase(s) \/ CommitNote(s), NEW target, NEW types
    PROVE  LET op == txn[s].op
           IN  Added(target, types) =
                   IF op.target = target /\ EventType(op) \in types THEN {Len(audit) + 1} ELSE {}
<1> DEFINE op == txn[s].op
<1>1. /\ Len(audit) \in Nat /\ Len(audit') = Len(audit) + 1
      /\ audit'[Len(audit) + 1] = Event(EventType(op), op.target, op.arg)
  BY CommitAppends DEF LogKept
<1>2. (Len(audit) + 1)..Len(audit') = {Len(audit) + 1}
  BY <1>1
<1>3. /\ audit'[Len(audit) + 1].target = op.target
      /\ audit'[Len(audit) + 1].type = EventType(op)
  BY <1>1 DEF Event
<1> HIDE DEF op
<1> QED  BY <1>2, <1>3 DEF Added, op

LEMMA CompleteAdds ==
    ASSUME IInv, RequestInv, NEW s \in Session, CompleteInvestigation(s)
    PROVE  LET i == txn[s].op.target
           IN  /\ i \in Investigation /\ inv[i].status = "absent"
               /\ \E p : Added(i, {"query_received"}) = {p}
               /\ \E p : Added(i, {"investigation_completed"}) = {p}
               /\ \A j \in Investigation : j # i => \A types : Added(j, types) = {}
               /\ \A a \in Alert : InvOf[a] # i => \A types : Added(a, types) = {}
               /\ \A a \in Findings(i) :
                     \E p \in (Len(audit) + 1)..Len(audit') :
                         /\ audit'[p] = Event("alert_created", a, NoTarget)
                         /\ \A types : Added(a, types) =
                               IF "alert_created" \in types THEN {p} ELSE {}
<1> DEFINE i == txn[s].op.target
           made == txn[s].made
           k == Len(made)
           L == Len(audit)
           new == (Len(audit) + 1)..Len(audit')
<1>1. /\ i \in Investigation /\ inv[i].status = "absent" /\ made \in Seq(Alert) /\ k \in Nat
      /\ L \in Nat /\ Len(audit') = L + k + 2
      /\ audit'[L + 1] = Event("query_received", i, NoTarget)
      /\ \A n \in 1..k : audit'[L + 1 + n] = Event("alert_created", made[n], NoTarget)
      /\ audit'[L + k + 2] = Event("investigation_completed", i, NoTarget)
  BY CompleteAppends DEF LogKept
<1>2. /\ \A a \in Findings(i) : \E n \in 1..k : made[n] = a
      /\ \A m, n \in 1..k : InvOf[made[m]] = i /\ (made[m] = made[n] => m = n)
  BY DEF CompleteInvestigation, RequestInv, Made
<1>3. \A n \in 1..k : made[n] \in Alert
  BY <1>1
<1> HIDE DEF i, made, k, L
<1>4. \A n \in new : n = L + 1 \/ n = L + k + 2 \/ \E m \in 1..k : n = L + 1 + m
  <2> SUFFICES ASSUME NEW n \in new, n # L + 1, n # L + k + 2
               PROVE  \E m \in 1..k : n = L + 1 + m
    OBVIOUS
  <2>1. n - (L + 1) \in 1..k /\ n = L + 1 + (n - (L + 1))
    BY <1>1 DEF L
  <2> QED  BY <2>1
<1>5. L + 1 \in new /\ L + k + 2 \in new /\ \A m \in 1..k : L + 1 + m \in new
  BY <1>1 DEF L
<1>6. /\ audit'[L + 1].target = i /\ audit'[L + 1].type = "query_received"
      /\ audit'[L + k + 2].target = i /\ audit'[L + k + 2].type = "investigation_completed"
  BY <1>1 DEF Event
<1>7. \A m \in 1..k : audit'[L + 1 + m].target = made[m] /\ audit'[L + 1 + m].type = "alert_created"
  <2> SUFFICES ASSUME NEW m \in 1..k
               PROVE  audit'[L + 1 + m].target = made[m] /\ audit'[L + 1 + m].type = "alert_created"
    OBVIOUS
  <2>1. audit'[L + 1 + m] = Event("alert_created", made[m], NoTarget)
    BY <1>1, Zenon
  <2>2. \A x : Event("alert_created", x, NoTarget).target = x
               /\ Event("alert_created", x, NoTarget).type = "alert_created"
    BY DEF Event
  <2> QED  BY <2>1, <2>2, Zenon
<1>8. \A m, n \in 1..k : L + 1 + m = L + 1 + n => m = n
  BY <1>1
<1> DEFINE at(m) == L + 1 + m
<1>9. /\ \A n \in new : n = L + 1 \/ n = L + k + 2 \/ \E m \in 1..k : n = at(m)
      /\ \A m \in 1..k : /\ at(m) \in new /\ audit'[at(m)].target = made[m]
                         /\ audit'[at(m)].type = "alert_created"
      /\ \A m, n \in 1..k : at(m) = at(n) => m = n
  BY <1>4, <1>5, <1>7, <1>8
<1>10. \A m \in 1..k : audit'[at(m)] = Event("alert_created", made[m], NoTarget)
  BY <1>1, Zenon
<1> HIDE DEF at, new
<1>11. \A target, types : Added(target, types) =
           {n \in new : audit'[n].target = target /\ audit'[n].type \in types}
  BY DEF Added, new
<1>12. Added(i, {"query_received"}) = {L + 1}
  BY <1>5, <1>6, <1>9, <1>11
<1>13. Added(i, {"investigation_completed"}) = {L + k + 2}
  BY <1>5, <1>6, <1>9, <1>11
<1>14. ASSUME NEW j \in Investigation, j # i, NEW types PROVE Added(j, types) = {}
  <2>1. \A n \in new : audit'[n].target # j
    BY <1>3, <1>6, <1>9, <1>14, IdAssumption
  <2> QED  BY <1>11, <2>1
<1>15. ASSUME NEW a \in Alert, InvOf[a] # i, NEW types PROVE Added(a, types) = {}
  <2>1. \A n \in new : audit'[n].target # a
    BY <1>1, <1>2, <1>6, <1>9, <1>15, IdAssumption
  <2> QED  BY <1>11, <2>1
<1>16. ASSUME NEW a \in Findings(i)
       PROVE  \E p \in new : /\ audit'[p] = Event("alert_created", a, NoTarget)
                             /\ \A types : Added(a, types) =
                                   IF "alert_created" \in types THEN {p} ELSE {}
  <2>1. PICK m \in 1..k : made[m] = a
    BY <1>2
  <2>2. at(m) \in new /\ audit'[at(m)] = Event("alert_created", a, NoTarget)
    BY <1>9, <1>10, <2>1
  <2>3. a \in Alert
    BY DEF Findings
  <2>4. \A n \in new : audit'[n].target = a <=> n = at(m)
    BY <1>1, <1>2, <1>6, <1>9, <2>1, <2>3, IdAssumption
  <2>5. audit'[at(m)].type = "alert_created"
    BY <1>9
  <2>6. ASSUME NEW types
        PROVE  Added(a, types) = IF "alert_created" \in types THEN {at(m)} ELSE {}
    BY <1>11, <2>2, <2>4, <2>5
  <2> QED  BY <2>2, <2>6
<1> QED  BY <1>1, <1>12, <1>13, <1>14, <1>15, <1>16 DEF i, new

-----------------------------------------------------------------------------
(* An investigation is kept whole. *)

\* Which investigations and alerts exist after a request on an alert: the same.
LEMMA CommitKeepsRows ==
    ASSUME IInv, IInv', NEW s \in Session, CommitCase(s) \/ CommitNote(s)
    PROVE  LET b == txn[s].op.target
           IN  /\ b \in Alert /\ alert[b].status # "absent"
               /\ \A i \in Investigation : inv'[i].status = "absent" <=> inv[i].status = "absent"
               /\ \A a \in Alert : a # b => alert'[a] = alert[a] /\ notes'[a] = notes[a]
<1> DEFINE b == txn[s].op.target
<1>1. b \in Alert /\ alert[b].status # "absent"
  BY CommitAppends
<1>2. \A a \in Alert : a # b => alert'[a] = alert[a] /\ notes'[a] = notes[a]
  BY DEF CommitCase, CommitNote, IInv, TypeOK
<1>3. \A i \in Investigation : i # InvOf[b] => inv'[i] = inv[i]
  BY DEF CommitCase, CommitNote, IInv, TypeOK
<1>4. alert'[b].status # "absent"
  <2>1. CASE CommitNote(s)
    BY <1>1, <2>1 DEF CommitNote
  <2>2. CASE CommitCase(s)
    <3>1. txn[s].op \in Op /\ alert[b] \in AlertRow
      BY <1>1, <2>2, RefreshedRowIsCurrent DEF IInv, TypeOK
    <3>2. alert'[b] = UpdatedRow(txn[s].op, alert[b])
      BY <1>1, <2>2 DEF CommitCase, IInv, TypeOK
    <3> QED  BY <1>1, <3>1, <3>2, UpdatedRowType
  <2> QED  BY <2>1, <2>2
<1>5. inv[InvOf[b]].status # "absent" /\ inv'[InvOf[b]].status # "absent"
  BY <1>1, <1>4 DEF IInv, AlertInv
<1> QED  BY <1>1, <1>2, <1>3, <1>5

LEMMA KeptStep ==
    ASSUME AuditInv, IInv', [Next]_vars
    PROVE  InvestigationKeptWhole'
<1> DEFINE Stored == {"query_received", "investigation_completed"}
           Once(target, type) ==
               \E n \in EventsAbout(target, {type}) : EventsAbout(target, {type}) = {n}
<1>1. LogKept /\ IInv /\ RequestInv
  BY LogGrows DEF AuditInv
<1>2. \A target, types : EventsAbout(target, types)' = EventsAbout(target, types) \cup Added(target, types)
  BY <1>1, EventsAfter
<1>3. \A i \in Investigation : inv[i].status = "absent" =>
          /\ EventsAbout(i, Stored) = {}
          /\ \A a \in Findings(i) : /\ alert[a] = NoAlert /\ notes[a] = <<>>
                                     /\ \A n \in 1..Len(audit) : audit[n].target # a
  BY DEF AuditInv, InvestigationKeptWhole
<1>4. \A i \in Investigation : inv[i].status # "absent" =>
          /\ Once(i, "query_received") /\ Once(i, "investigation_completed")
          /\ \A a \in Findings(i) : Once(a, "alert_created")
  BY DEF AuditInv, InvestigationKeptWhole
<1>5. \A i \in Investigation : inv'[i].status # "absent" =>
          \A a \in Findings(i) : alert'[a].status # "absent"
  BY DEF IInv, AlertInv, Findings
<1>6. SUFFICES ASSUME NEW i \in Investigation
               PROVE  /\ inv'[i].status = "absent" =>
                            /\ EventsAbout(i, Stored)' = {}
                            /\ \A a \in Findings(i) :
                                  /\ alert'[a] = NoAlert /\ notes'[a] = <<>>
                                  /\ \A n \in 1..Len(audit') : audit'[n].target # a
                      /\ inv'[i].status # "absent" =>
                            /\ Once(i, "query_received")' /\ Once(i, "investigation_completed")'
                            /\ \A a \in Findings(i) : Once(a, "alert_created")'
  BY <1>5 DEF InvestigationKeptWhole
<1>7. CASE inv' = inv /\ alert' = alert /\ notes' = notes /\ audit' = audit
  BY <1>3, <1>4, <1>7 DEF EventsAbout
<1>8. ASSUME NEW s \in Session, CommitCase(s) \/ CommitNote(s)
      PROVE  /\ inv'[i].status = "absent" =>
                   /\ EventsAbout(i, Stored)' = {}
                   /\ \A a \in Findings(i) :
                         /\ alert'[a] = NoAlert /\ notes'[a] = <<>>
                         /\ \A n \in 1..Len(audit') : audit'[n].target # a
             /\ inv'[i].status # "absent" =>
                   /\ Once(i, "query_received")' /\ Once(i, "investigation_completed")'
                   /\ \A a \in Findings(i) : Once(a, "alert_created")'
  <2> DEFINE op == txn[s].op
             b == op.target
  <2>1. /\ op.kind \in {"assign", "disposition", "note"}
        /\ Len(audit) \in Nat /\ Len(audit') = Len(audit) + 1
        /\ audit'[Len(audit) + 1] = Event(EventType(op), b, op.arg)
    BY <1>1, <1>8, CommitAppends DEF LogKept
  <2>2. EventType(op) \notin Stored \cup {"alert_created"}
    BY <2>1 DEF EventType
  <2>3. \A target : /\ Added(target, Stored) = {} /\ Added(target, {"query_received"}) = {}
                    /\ Added(target, {"investigation_completed"}) = {}
                    /\ Added(target, {"alert_created"}) = {}
    BY <1>1, <1>8, <2>2, CommitAdds
  <2>4. /\ b \in Alert /\ alert[b].status # "absent"
        /\ inv'[i].status = "absent" <=> inv[i].status = "absent"
        /\ \A a \in Alert : a # b => alert'[a] = alert[a] /\ notes'[a] = notes[a]
    BY <1>1, <1>8, CommitKeepsRows
  <2>5. \A target : /\ EventsAbout(target, Stored)' = EventsAbout(target, Stored)
                    /\ Once(target, "query_received")' <=> Once(target, "query_received")
                    /\ Once(target, "investigation_completed")' <=> Once(target, "investigation_completed")
                    /\ Once(target, "alert_created")' <=> Once(target, "alert_created")
    BY <1>2, <2>3
  <2>6. ASSUME inv'[i].status = "absent", NEW a \in Findings(i)
        PROVE  /\ alert'[a] = NoAlert /\ notes'[a] = <<>>
               /\ \A n \in 1..Len(audit') : audit'[n].target # a
    <3>1. /\ alert[a] = NoAlert /\ notes[a] = <<>>
          /\ \A n \in 1..Len(audit) : audit[n].target # a
      BY <1>3, <2>4, <2>6
    <3>2. a \in Alert /\ a # b
      BY <2>4, <3>1 DEF Findings, NoAlert
    <3>3. audit'[Len(audit) + 1].target = b
      BY <2>1 DEF Event
    <3>4. \A n \in 1..Len(audit') : n \in 1..Len(audit) \/ n = Len(audit) + 1
      BY <2>1
    <3> QED  BY <1>1, <2>4, <3>1, <3>2, <3>3, <3>4 DEF LogKept
  <2> HIDE DEF op, b, Once
  <2> QED  BY <1>3, <1>4, <2>4, <2>5, <2>6
<1>9. ASSUME NEW s \in Session, CompleteInvestigation(s)
      PROVE  /\ inv'[i].status = "absent" =>
                   /\ EventsAbout(i, Stored)' = {}
                   /\ \A a \in Findings(i) :
                         /\ alert'[a] = NoAlert /\ notes'[a] = <<>>
                         /\ \A n \in 1..Len(audit') : audit'[n].target # a
             /\ inv'[i].status # "absent" =>
                   /\ Once(i, "query_received")' /\ Once(i, "investigation_completed")'
                   /\ \A a \in Findings(i) : Once(a, "alert_created")'
  <2> DEFINE j == txn[s].op.target
  <2>1. /\ j \in Investigation /\ inv[j].status = "absent"
        /\ \E p : Added(j, {"query_received"}) = {p}
        /\ \E p : Added(j, {"investigation_completed"}) = {p}
        /\ i # j => \A types : Added(i, types) = {}
        /\ \A a \in Alert : InvOf[a] # j => \A types : Added(a, types) = {}
        /\ \A a \in Findings(j) : \E p : Added(a, {"alert_created"}) = {p}
    <3>1. /\ j \in Investigation /\ inv[j].status = "absent"
          /\ \E p : Added(j, {"query_received"}) = {p}
          /\ \E p : Added(j, {"investigation_completed"}) = {p}
          /\ \A h \in Investigation : h # j => \A types : Added(h, types) = {}
          /\ \A a \in Alert : InvOf[a] # j => \A types : Added(a, types) = {}
      BY <1>1, <1>9, CompleteAdds
    <3>2. \A a \in Findings(j) : \E p : \A types :
              Added(a, types) = IF "alert_created" \in types THEN {p} ELSE {}
      BY <1>1, <1>9, CompleteAdds
    <3> HIDE DEF j
    <3> QED  BY <3>1, <3>2
  <2>2. /\ inv' = [inv EXCEPT ![j] = OpenInvestigation] /\ notes' = notes
        /\ alert' = [a \in Alert |-> IF InvOf[a] = j THEN NewAlert ELSE alert[a]]
    BY <1>9 DEF CompleteInvestigation
  <2> HIDE DEF j
  <2>3. CASE i = j
    <3>1. inv'[i].status # "absent"
      BY <2>1, <2>2, <2>3 DEF OpenInvestigation, IInv, TypeOK
    <3>2. /\ EventsAbout(i, {"query_received"}) = {} /\ EventsAbout(i, {"investigation_completed"}) = {}
      BY <1>3, <2>1, <2>3 DEF EventsAbout
    <3>3. \A a \in Findings(i) : EventsAbout(a, {"alert_created"}) = {}
      BY <1>3, <2>1, <2>3 DEF EventsAbout
    <3> QED  BY <1>2, <2>1, <2>3, <3>1, <3>2, <3>3
  <2>4. CASE i # j
    <3>1. inv'[i] = inv[i] /\ \A a \in Findings(i) : alert'[a] = alert[a]
      BY <1>1, <2>2, <2>4 DEF Findings, IInv, TypeOK
    <3>2. \A types : EventsAbout(i, types)' = EventsAbout(i, types)
      BY <1>2, <2>1, <2>4
    <3>3. \A a \in Findings(i) : \A types : EventsAbout(a, types)' = EventsAbout(a, types)
      BY <1>2, <2>1, <2>4 DEF Findings
    <3>4. ASSUME inv[i].status = "absent", NEW a \in Findings(i)
          PROVE  \A n \in 1..Len(audit') : audit'[n].target # a
      <4>1. \A n \in 1..Len(audit) : audit'[n].target # a
        BY <1>1, <1>3, <3>4 DEF LogKept
      <4>2. \A n \in (Len(audit) + 1)..Len(audit') : audit'[n].target # a
        <5>1. Added(a, {audit'[n].type : n \in (Len(audit) + 1)..Len(audit')}) = {}
          BY <2>1, <2>4 DEF Findings
        <5> QED  BY <5>1 DEF Added
      <4>3. \A n \in 1..Len(audit') : n \in 1..Len(audit) \/ n \in (Len(audit) + 1)..Len(audit')
        BY <1>1 DEF LogKept
      <4> QED  BY <4>1, <4>2, <4>3
    <3> QED  BY <1>3, <1>4, <2>2, <3>1, <3>2, <3>3, <3>4
  <2> QED  BY <2>3, <2>4
<1> QED  BY <1>1, <1>7, <1>8, <1>9, OnlyCommits

-----------------------------------------------------------------------------
(* The latest event. *)

\* Every non-empty set of positions has a last one.
LEMMA LastPosition ==
    ASSUME NEW k \in Nat, NEW T \in SUBSET (1..k), T # {}
    PROVE  \E n \in T : \A m \in T : m <= n
<1> DEFINE X == {n..k : n \in T}
<1>1. X \subseteq FiniteSubsetsOf(Nat) /\ X # {}
  <2>1. \A n \in T : n \in Nat /\ IsFiniteSet(n..k) /\ n..k \subseteq Nat
    BY FS_Interval
  <2> QED  BY <2>1 DEF FiniteSubsetsOf
<1>2. IsWellFoundedOn(StrictSubsetOrdering(Nat), FiniteSubsetsOf(Nat))
  BY FS_StrictSubsetOrderingWellFounded
<1> HIDE DEF X
<1>3. PICK x \in X : \A y \in X : <<y, x>> \notin StrictSubsetOrdering(Nat)
  BY <1>1, <1>2, WFMin
<1> USE DEF X
<1>4. PICK n \in T : x = n..k
  OBVIOUS
<1>5. ASSUME NEW m \in T, ~(m <= n) PROVE FALSE
  <2>1. m..k \subseteq n..k /\ m..k # n..k /\ m..k \subseteq Nat /\ n..k \subseteq Nat
    BY <1>5
  <2>2. <<m..k, n..k>> \in StrictSubsetOrdering(Nat)
    BY <2>1 DEF StrictSubsetOrdering
  <2> QED  BY <1>3, <1>4, <2>2
<1> QED  BY <1>5

\* The latest event about alert a of these types.
Latest(a, types) ==
    IF EventsAbout(a, types) = {} THEN Event("none", a, NoTarget)
    ELSE audit[CHOOSE n \in EventsAbout(a, types) : \A m \in EventsAbout(a, types) : m <= n]

\* The row that these latest events tell of.
Tells(row, moved, judged, handed) ==
    /\ row.status = CASE moved.type = "none" -> "absent"
                      [] moved.type = "alert_created" -> "new"
                      [] moved.type = "alert_assigned" -> "in_review"
                      [] moved.type = "alert_dispositioned" ->
                           IF moved.arg = "escalated" THEN "escalated" ELSE "closed"
    /\ row.disposition = IF judged.type = "none" THEN "pending" ELSE judged.arg
    /\ row.assigned_to = IF handed.type = "none" THEN Nobody ELSE handed.arg

Explained(a) ==
    Tells(alert[a], Latest(a, {"alert_created", "alert_assigned", "alert_dispositioned"}),
          Latest(a, {"alert_dispositioned"}), Latest(a, {"alert_assigned"}))

LEMMA AllExplained == AuditExplainsAlerts <=> \A a \in Alert : Explained(a)
BY DEF AuditExplainsAlerts, Explained, Tells, Latest

LEMMA CreatedTells ==
    ASSUME NEW moved, NEW judged, NEW handed,
           moved.type = "alert_created", judged.type = "none", handed.type = "none"
    PROVE  Tells(NewAlert, moved, judged, handed)
BY DEF Tells, NewAlert

LEMMA AssignedTells ==
    ASSUME NEW row \in AlertRow, NEW moved, NEW judged, NEW handed, NEW e,
           Tells(row, moved, judged, handed), e.type = "alert_assigned"
    PROVE  Tells(Assigned(row, e.arg), e, judged, e)
<1>1. /\ Assigned(row, e.arg).status = "in_review" /\ Assigned(row, e.arg).assigned_to = e.arg
      /\ Assigned(row, e.arg).disposition = row.disposition
  BY DEF Assigned, AlertRow
<1> QED  BY <1>1 DEF Tells

LEMMA DispositionedTells ==
    ASSUME NEW row \in AlertRow, NEW moved, NEW judged, NEW handed, NEW e,
           Tells(row, moved, judged, handed), e.type = "alert_dispositioned"
    PROVE  Tells(Dispositioned(row, e.arg), e, e, handed)
<1> DEFINE new == Dispositioned(row, e.arg)
<1>1. /\ new.status = IF e.arg = "escalated" THEN "escalated" ELSE "closed"
      /\ new.disposition = e.arg /\ new.assigned_to = row.assigned_to
  BY DEF Dispositioned, AlertRow
<1> HIDE DEF new
<1>2. Tells(new, e, e, handed)
  BY <1>1 DEF Tells
<1> QED  BY <1>2 DEF new

\* A step that adds no such event keeps the latest one, a step that adds one makes
\* it the latest.
LEMMA LatestKept ==
    ASSUME LogKept, NEW a, NEW types, Added(a, types) = {}
    PROVE  Latest(a, types)' = Latest(a, types)
<1> DEFINE E == EventsAbout(a, types)
           last == CHOOSE n \in E : \A m \in E : m <= n
<1>1. EventsAbout(a, types)' = E /\ \A n \in E : audit'[n] = audit[n]
  BY EventsAfter
<1>2. CASE E = {}
  BY <1>1, <1>2 DEF Latest
<1>3. CASE E # {}
  <2>1. E \in SUBSET (1..Len(audit)) /\ Len(audit) \in Nat
    BY DEF EventsAbout, LogKept
  <2> HIDE DEF E
  <2>2. last \in E
    BY <1>3, <2>1, LastPosition
  <2>3. Latest(a, types)' = audit'[last]
    BY <1>1, <1>3 DEF Latest, E
  <2>4. Latest(a, types) = audit[last]
    BY <1>3 DEF Latest, E
  <2> QED  BY <1>1, <2>2, <2>3, <2>4
<1> QED  BY <1>2, <1>3

LEMMA LatestAdded ==
    ASSUME LogKept, NEW a, NEW types, NEW p \in (Len(audit) + 1)..Len(audit'),
           Added(a, types) = {p}
    PROVE  Latest(a, types)' = audit'[p]
<1> DEFINE E == EventsAbout(a, types)'
           last == CHOOSE n \in E : \A m \in E : m <= n
<1>1. E = EventsAbout(a, types) \cup {p}
  BY EventsAfter
<1>2. \A m \in EventsAbout(a, types) : m \in Nat /\ m < p
  BY DEF EventsAbout, LogKept
<1>3. p \in E /\ \A m \in E : m <= p /\ m \in Nat
  BY <1>1, <1>2 DEF LogKept
<1>4. \A n \in E : (\A m \in E : m <= n) => n = p
  BY <1>1, <1>2, <1>3
<1> HIDE DEF E
<1>5. last = p
  BY <1>3, <1>4
<1> QED  BY <1>3, <1>5 DEF Latest, E

LEMMA ExplainStep ==
    ASSUME AuditInv, IInv', [Next]_vars
    PROVE  AuditExplainsAlerts'
<1> DEFINE Moves == {"alert_created", "alert_assigned", "alert_dispositioned"}
<1>1. LogKept /\ IInv /\ RequestInv /\ \A a \in Alert : Explained(a)
  BY LogGrows, AllExplained DEF AuditInv
<1>2. SUFFICES ASSUME NEW a \in Alert PROVE Explained(a)'
  <2>1. AuditExplainsAlerts' <=> \A a \in Alert : Explained(a)'
    BY DEF AuditExplainsAlerts, Explained, Tells, Latest
  <2> QED  BY <2>1
\* Where nothing about a is added, nothing of a changes.
<1>3. ASSUME alert'[a] = alert[a], Added(a, Moves) = {}, Added(a, {"alert_dispositioned"}) = {},
             Added(a, {"alert_assigned"}) = {}
      PROVE  Explained(a)'
  <2>1. /\ Latest(a, Moves)' = Latest(a, Moves)
        /\ Latest(a, {"alert_dispositioned"})' = Latest(a, {"alert_dispositioned"})
        /\ Latest(a, {"alert_assigned"})' = Latest(a, {"alert_assigned"})
    BY <1>1, <1>3, LatestKept
  <2> QED  BY <1>1, <1>3, <2>1 DEF Explained
<1>4. CASE inv' = inv /\ alert' = alert /\ notes' = notes /\ audit' = audit
  <2>1. \A types : Added(a, types) = {}
    BY <1>1, <1>4 DEF Added, LogKept
  <2> QED  BY <1>3, <1>4, <2>1
<1>5. ASSUME NEW s \in Session, CommitCase(s) \/ CommitNote(s)
      PROVE  Explained(a)'
  <2> DEFINE op == txn[s].op
             p == Len(audit) + 1
  <2>1. /\ op \in Op /\ op.kind \in {"assign", "disposition", "note"}
        /\ audit'[p] = Event(EventType(op), op.target, op.arg)
        /\ p \in (Len(audit) + 1)..Len(audit')
    BY <1>1, <1>5, CommitAppends DEF LogKept
  <2>2. \A types : Added(a, types) =
            IF op.target = a /\ EventType(op) \in types THEN {p} ELSE {}
    BY <1>1, <1>5, CommitAdds
  <2>3. CASE op.target # a
    <3>1. alert'[a] = alert[a]
      BY <1>1, <1>5, <2>3, CommitKeepsRows
    <3> HIDE DEF op
    <3>2. \A types : Added(a, types) = {}
      BY <2>2, <2>3
    <3> HIDE DEF Moves
    <3> QED  BY <1>3, <3>1, <3>2
  <2>4. CASE CommitNote(s)
    <3>1. alert'[a] = alert[a] /\ op.kind = "note"
      BY <2>4 DEF CommitNote
    <3>2. EventType(op) \notin Moves
      BY <3>1 DEF EventType
    <3> HIDE DEF op
    <3> QED  BY <1>3, <2>2, <3>1, <3>2
  <2>5. CASE CommitCase(s) /\ op.target = a
    <3>1. op.kind \in {"assign", "disposition"} /\ alert[a] \in AlertRow
      BY <1>1, <2>5, RefreshedRowIsCurrent DEF IInv, TypeOK
    <3>2. alert'[a] = UpdatedRow(op, alert[a])
      BY <1>1, <2>5 DEF CommitCase, IInv, TypeOK
    <3>3. audit'[p].type = EventType(op) /\ audit'[p].arg = op.arg
      BY <2>1 DEF Event
    <3> HIDE DEF op, p
    <3>4. CASE op.kind = "assign"
      <4>1. EventType(op) = "alert_assigned"
        BY <3>4 DEF EventType
      <4>2. /\ Latest(a, Moves)' = audit'[p] /\ Latest(a, {"alert_assigned"})' = audit'[p]
            /\ Latest(a, {"alert_dispositioned"})' = Latest(a, {"alert_dispositioned"})
        BY <1>1, <2>1, <2>2, <2>5, <4>1, LatestAdded, LatestKept
      <4>3. alert'[a] = Assigned(alert[a], audit'[p].arg)
        BY <3>2, <3>3, <3>4 DEF UpdatedRow
      <4> QED  BY <1>1, <3>1, <3>3, <4>1, <4>2, <4>3, AssignedTells DEF Explained
    <3>5. CASE op.kind = "disposition"
      <4>1. EventType(op) = "alert_dispositioned"
        BY <3>5 DEF EventType
      <4>2. /\ Latest(a, Moves)' = audit'[p] /\ Latest(a, {"alert_dispositioned"})' = audit'[p]
            /\ Latest(a, {"alert_assigned"})' = Latest(a, {"alert_assigned"})
        BY <1>1, <2>1, <2>2, <2>5, <4>1, LatestAdded, LatestKept
      <4>3. alert'[a] = Dispositioned(alert[a], audit'[p].arg)
        BY <3>2, <3>3, <3>5 DEF UpdatedRow
      <4> QED  BY <1>1, <3>1, <3>3, <4>1, <4>2, <4>3, DispositionedTells DEF Explained
    <3> QED  BY <3>1, <3>4, <3>5
  <2> QED  BY <1>5, <2>3, <2>4, <2>5
<1>6. ASSUME NEW s \in Session, CompleteInvestigation(s)
      PROVE  Explained(a)'
  <2> DEFINE i == txn[s].op.target
  <2>1. /\ i \in Investigation /\ inv[i].status = "absent"
        /\ \A b \in Alert : InvOf[b] # i => \A types : Added(b, types) = {}
    BY <1>1, <1>6, CompleteAdds
  <2>2. \A b \in Findings(i) :
            \E p \in (Len(audit) + 1)..Len(audit') :
                /\ audit'[p] = Event("alert_created", b, NoTarget)
                /\ \A types : Added(b, types) = IF "alert_created" \in types THEN {p} ELSE {}
    BY <1>1, <1>6, CompleteAdds
  <2>3. alert' = [b \in Alert |-> IF InvOf[b] = i THEN NewAlert ELSE alert[b]]
    BY <1>6 DEF CompleteInvestigation
  <2> HIDE DEF i
  <2>4. CASE InvOf[a] # i
    BY <1>3, <2>1, <2>3, <2>4
  <2>5. CASE InvOf[a] = i
    <3>1. a \in Findings(i)
      BY <2>5 DEF Findings
    <3>2. PICK p \in (Len(audit) + 1)..Len(audit') :
                /\ audit'[p] = Event("alert_created", a, NoTarget)
                /\ \A types : Added(a, types) = IF "alert_created" \in types THEN {p} ELSE {}
      BY <2>2, <3>1
    <3>3. \A n \in 1..Len(audit) : audit[n].target # a
      BY <2>1, <3>1 DEF AuditInv, InvestigationKeptWhole
    <3>4. \A types : Latest(a, types) = Event("none", a, NoTarget)
      BY <3>3 DEF Latest, EventsAbout
    <3>5. /\ Latest(a, Moves)' = Event("alert_created", a, NoTarget)
          /\ Latest(a, {"alert_dispositioned"})' = Event("none", a, NoTarget)
          /\ Latest(a, {"alert_assigned"})' = Event("none", a, NoTarget)
      BY <1>1, <3>2, <3>4, LatestAdded, LatestKept
    <3>6. alert'[a] = NewAlert
      BY <2>3, <2>5
    <3>7. /\ Latest(a, Moves)'.type = "alert_created"
          /\ Latest(a, {"alert_dispositioned"})'.type = "none"
          /\ Latest(a, {"alert_assigned"})'.type = "none"
      BY <3>5 DEF Event
    <3> QED  BY <3>6, <3>7, CreatedTells DEF Explained
  <2> QED  BY <2>4, <2>5
<1> QED  BY <1>1, <1>4, <1>5, <1>6, OnlyCommits

-----------------------------------------------------------------------------
(* Notes. *)

\* Notes ns of alert a are explained, and the latest of a's events is the last of them.
Follows(a, ns) ==
    \E at : /\ Explains(at, a, ns)
            /\ \A m \in EventsAbout(a, {"analyst_note_added"}) : \E n \in 1..Len(ns) : m <= at[n]

LEMMA AllFollow == NotesFollowAudit <=> \A a \in Alert : Follows(a, notes[a])
BY DEF NotesFollowAudit, Follows, Explains

\* An alert no note of which is committed.
LEMMA StillFollows ==
    ASSUME LogKept, NEW a, NEW ns, Follows(a, ns), Added(a, {"analyst_note_added"}) = {}
    PROVE  Follows(a, ns)'
<1>1. PICK at : /\ Explains(at, a, ns)
                /\ \A m \in EventsAbout(a, {"analyst_note_added"}) : \E n \in 1..Len(ns) : m <= at[n]
  BY DEF Follows
<1>2. Explains(at, a, ns)'
  BY <1>1, StillExplains
<1>3. EventsAbout(a, {"analyst_note_added"})' = EventsAbout(a, {"analyst_note_added"})
  BY EventsAfter
<1> QED  BY <1>1, <1>2, <1>3 DEF Follows

\* The alert whose notes become those a request has read, and its own.
LEMMA NoteFollows ==
    ASSUME LogKept, NEW a, NEW ns \in Seq(Note), NEW x \in Note, NEW at, Explains(at, a, ns),
           Len(audit') = Len(audit) + 1, audit'[Len(audit) + 1].arg = x,
           Added(a, {"analyst_note_added"}) = {Len(audit) + 1}
    PROVE  Follows(a, Append(ns, x))'
<1> DEFINE noted == EventsAbout(a, {"analyst_note_added"})
           p == Len(audit) + 1
           k == Len(ns)
           new == Append(ns, x)
           at2 == [n \in 1..(k + 1) |-> IF n = k + 1 THEN p ELSE at[n]]
<1>1. noted' = noted \cup {p} /\ \A n \in noted : n \in 1..Len(audit) /\ audit'[n] = audit[n]
  BY EventsAfter
<1>2. /\ at \in [1..k -> noted] /\ \A m, n \in 1..k : m < n => at[m] < at[n]
      /\ \A n \in 1..k : audit[at[n]].arg = ns[n]
  BY DEF Explains
<1>3. k \in Nat /\ Len(new) = k + 1 /\ new[k + 1] = x /\ \A n \in 1..k : new[n] = ns[n]
  OBVIOUS
<1>4. Len(audit) \in Nat /\ \A m \in noted : m \in Nat /\ m < p
  BY <1>1 DEF LogKept
<1> HIDE DEF noted, p, k, new
<1>5. \A n \in 1..(k + 1) : n = k + 1 \/ n \in 1..k
  BY <1>3
<1>6. /\ \A n \in 1..k : at2[n] = at[n] /\ at2[n] \in noted
      /\ at2[k + 1] = p
  BY <1>2, <1>3
<1>7. at2 \in [1..(k + 1) -> noted']
  BY <1>1, <1>5, <1>6
<1>8. \A m, n \in 1..(k + 1) : m < n => at2[m] < at2[n]
  <2> SUFFICES ASSUME NEW m \in 1..(k + 1), NEW n \in 1..(k + 1), m < n PROVE at2[m] < at2[n]
    OBVIOUS
  <2>1. m \in 1..k
    BY <1>3
  <2>2. CASE n \in 1..k
    BY <1>2, <1>6, <2>1, <2>2
  <2>3. CASE n = k + 1
    BY <1>4, <1>6, <2>1, <2>3
  <2> QED  BY <1>5, <2>2, <2>3
<1>9. \A n \in 1..(k + 1) : audit'[at2[n]].arg = new[n]
  BY <1>1, <1>2, <1>3, <1>5, <1>6 DEF p
<1>10. \A m \in noted' : m <= at2[k + 1] /\ k + 1 \in 1..(k + 1)
  BY <1>1, <1>3, <1>4, <1>6 DEF p
<1> HIDE DEF at2
<1>11. \E f : /\ f \in [1..(k + 1) -> noted']
              /\ \A m, n \in 1..(k + 1) : m < n => f[m] < f[n]
              /\ \A n \in 1..(k + 1) : audit'[f[n]].arg = new[n]
              /\ \A m \in noted' : \E n \in 1..(k + 1) : m <= f[n]
  BY <1>7, <1>8, <1>9, <1>10
<1> QED  BY <1>3, <1>11 DEF Follows, Explains, new, noted

LEMMA FollowStep ==
    ASSUME AuditInv, [Next]_vars
    PROVE  NotesFollowAudit'
<1>1. LogKept /\ IInv /\ RequestInv /\ \A a \in Alert : Follows(a, notes[a])
  BY LogGrows, AllFollow DEF AuditInv
<1>2. NotesFollowAudit' <=> \A a \in Alert : (Follows(a, notes[a]))'
  BY DEF NotesFollowAudit, Follows, Explains
<1>3. SUFFICES ASSUME NEW a \in Alert PROVE (Follows(a, notes[a]))'
  BY <1>2
<1>4. ASSUME notes'[a] = notes[a], Added(a, {"analyst_note_added"}) = {}
      PROVE  (Follows(a, notes[a]))'
  <2>1. PICK ns : ns = notes[a]
    OBVIOUS
  <2>2. Follows(a, ns)'
    BY <1>1, <1>4, <2>1, StillFollows
  <2> QED  BY <1>4, <2>1, <2>2 DEF Follows, Explains
<1>5. CASE inv' = inv /\ alert' = alert /\ notes' = notes /\ audit' = audit
  <2>1. Added(a, {"analyst_note_added"}) = {}
    BY <1>1, <1>5 DEF Added, LogKept
  <2> QED  BY <1>4, <1>5, <2>1
<1>6. ASSUME NEW s \in Session, CompleteInvestigation(s)
      PROVE  (Follows(a, notes[a]))'
  <2> DEFINE i == txn[s].op.target
  <2>1. /\ InvOf[a] # i => \A types : Added(a, types) = {}
        /\ \A b \in Findings(i) : \E p : \A types :
               Added(b, types) = IF "alert_created" \in types THEN {p} ELSE {}
    BY <1>1, <1>6, CompleteAdds
  <2> HIDE DEF i
  <2>2. Added(a, {"analyst_note_added"}) = {}
    BY <2>1 DEF Findings
  <2>3. notes' = notes
    BY <1>6 DEF CompleteInvestigation
  <2> QED  BY <1>4, <2>2, <2>3
<1>7. ASSUME NEW s \in Session, CommitCase(s)
      PROVE  (Follows(a, notes[a]))'
  <2>1. txn[s].op.kind \in {"assign", "disposition"} /\ notes' = notes
    BY <1>1, <1>7, RefreshedRowIsCurrent DEF CommitCase
  <2>2. EventType(txn[s].op) # "analyst_note_added"
    BY <2>1 DEF EventType
  <2>3. Added(a, {"analyst_note_added"}) = {}
    BY <1>1, <1>7, <2>2, CommitAdds
  <2> QED  BY <1>4, <2>1, <2>3
<1>8. ASSUME NEW s \in Session, CommitNote(s)
      PROVE  (Follows(a, notes[a]))'
  <2> DEFINE op == txn[s].op
             ns == txn[s].seen
  <2>1. /\ op \in Op /\ op.kind = "note" /\ txn[s].pc = "updated" /\ ns \in Seq(Note)
        /\ notes' = [notes EXCEPT ![op.target] = Append(ns, op.arg)]
    BY <1>1, <1>8 DEF CommitNote, IInv, TypeOK, Txn
  <2>2. /\ op.target \in Alert /\ Len(audit') = Len(audit) + 1
        /\ audit'[Len(audit) + 1] = Event(EventType(op), op.target, op.arg)
    BY <1>1, <1>8, CommitAppends
  <2>3. EventType(op) = "analyst_note_added" /\ op.arg \in Note
    BY <2>1 DEF EventType, Op
  <2>4. Added(a, {"analyst_note_added"}) = IF op.target = a THEN {Len(audit) + 1} ELSE {}
    BY <1>1, <1>8, <2>3, CommitAdds
  <2>5. \E at : Explains(at, op.target, ns)
    BY <1>1, <2>1 DEF RequestInv, Seen
  <2> HIDE DEF op, ns
  <2>6. CASE op.target # a
    <3>1. notes'[a] = notes[a]
      BY <1>1, <2>1, <2>6 DEF IInv, TypeOK
    <3> QED  BY <1>4, <2>4, <2>6, <3>1
  <2>7. CASE op.target = a
    <3>1. notes'[a] = Append(ns, op.arg)
      BY <1>1, <2>1, <2>7 DEF IInv, TypeOK
    <3>2. audit'[Len(audit) + 1].arg = op.arg
      BY <2>2 DEF Event
    <3>3. PICK at : Explains(at, a, ns)
      BY <2>5, <2>7
    <3>4. PICK x : x = op.arg
      OBVIOUS
    <3>5. PICK old : old = ns
      OBVIOUS
    <3>6. Follows(a, Append(old, x))'
      BY <1>1, <2>1, <2>2, <2>3, <2>4, <2>7, <3>2, <3>3, <3>4, <3>5, NoteFollows
    <3> QED  BY <3>1, <3>4, <3>5, <3>6 DEF Follows, Explains
  <2> QED  BY <2>6, <2>7
<1> QED  BY <1>5, <1>6, <1>7, <1>8, OnlyCommits

-----------------------------------------------------------------------------
(* What the log says. *)

LEMMA InitAudit == Init => AuditInv
<1> SUFFICES ASSUME Init PROVE AuditInv
  OBVIOUS
<1>1. audit = <<>> /\ Len(audit) = 0
  BY DEF Init
<1>2. IInv /\ RequestInv
  <2>1. \A s \in Session : txn[s] = Idle
    BY DEF Init
  <2> QED  BY <2>1, InitInv, IdleRequest DEF RequestInv
<1>3. \A target, types : EventsAbout(target, types) = {}
  BY <1>1 DEF EventsAbout
<1>4. InvestigationKeptWhole
  BY <1>1, <1>3 DEF Init, InvestigationKeptWhole, Findings, NoInvestigation
<1>5. AuditExplainsAlerts
  <2>1. ASSUME NEW a \in Alert PROVE Explained(a)
    <3>1. \A types : Latest(a, types).type = "none"
      BY <1>3 DEF Latest, Event
    <3>2. alert[a].status = "absent" /\ alert[a].disposition = "pending" /\ alert[a].assigned_to = Nobody
      BY DEF Init, NoAlert
    <3> QED  BY <3>1, <3>2 DEF Explained, Tells
  <2> QED  BY <2>1, AllExplained
<1>6. NotesFollowAudit
  <2>1. ASSUME NEW a \in Alert PROVE Follows(a, notes[a])
    <3> DEFINE at == [n \in 1..0 |-> 0]
    <3>1. notes[a] = <<>> /\ Len(<<>>) = 0
      BY DEF Init
    <3>2. Explains(at, a, <<>>)
      BY <3>1 DEF Explains
    <3> HIDE DEF at
    <3> QED  BY <1>3, <3>1, <3>2 DEF Follows
  <2> QED  BY <2>1, AllFollow
<1> QED  BY <1>2, <1>4, <1>5, <1>6 DEF AuditInv

\* With what requests remember, the properties of the log are inductive: what a late
\* COMMIT writes was read from tables the log already explained.
THEOREM AuditInvariant == Spec => []AuditInv
<1>1. AuditInv /\ [Next]_vars => AuditInv'
  <2> SUFFICES ASSUME AuditInv, [Next]_vars PROVE AuditInv'
    OBVIOUS
  <2>1. IInv'
    BY NextInv DEF AuditInv
  <2> QED  BY <2>1, RequestStep, KeptStep, ExplainStep, FollowStep DEF AuditInv
<1> QED  BY InitAudit, <1>1, PTL DEF Spec

\* An investigation, the alerts of its findings and its events are there together or
\* not at all, whatever fails between BEGIN and COMMIT (persist_investigation).
THEOREM InvestigationKeptWholeTheorem == Spec => []InvestigationKeptWhole
<1>1. AuditInv => InvestigationKeptWhole
  BY DEF AuditInv
<1> QED  BY AuditInvariant, <1>1, PTL

\* The log alone tells where every alert stands (assign_alert, disposition_alert).
THEOREM AuditExplainsAlertsTheorem == Spec => []AuditExplainsAlerts
<1>1. AuditInv => AuditExplainsAlerts
  BY DEF AuditInv
<1> QED  BY AuditInvariant, <1>1, PTL

\* A note may be lost, but none is shown without its event or out of order
\* (append_alert_note).
THEOREM NotesFollowAuditTheorem == Spec => []NotesFollowAudit
<1>1. AuditInv => NotesFollowAudit
  BY DEF AuditInv
<1> QED  BY AuditInvariant, <1>1, PTL
=============================================================================
