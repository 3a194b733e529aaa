--------------------------- MODULE WorkflowStore ---------------------------
(***************************************************************************)
(* The persistent review workflow (src/tools/workflow_store.py): requests  *)
(* of the API's thread pool, each on a DuckDB connection of its own, that  *)
(* store investigations, assign and disposition alerts and add notes.      *)
(*                                                                         *)
(* DuckDB gives every transaction the snapshot of its first statement and  *)
(* refuses an UPDATE of a column of a row that another transaction has     *)
(* written and not rolled back, or has committed since that snapshot       *)
(* ("Conflict on update!").  A refused request rolls back and raises.      *)
(* Statements outside BEGIN .. COMMIT read the last committed state.       *)
(***************************************************************************)
EXTENDS CaseRules, Sequences

CONSTANTS
    Session,     \* requests that run at the same time
    Note,        \* notes analysts write
    MaxEvents,   \* bound: no request starts once the audit log is this long
    Faults       \* TRUE: statements may fail and the process may be restarted

ASSUME MaxEventsAssumption == MaxEvents \in Nat

VARIABLES
    inv,     \* committed investigations table
    alert,   \* committed alert_queue table, without notes
    notes,   \* committed notes column: the entries of each alert, in order
    audit,   \* committed audit_events, in the order they became visible
    txn      \* each request's progress and what only its transaction sees

vars == <<inv, alert, notes, audit, txn>>

-----------------------------------------------------------------------------
(* Requests and their transactions. *)

NoTarget == "none"

Op == [kind: {"idle"}, target: {NoTarget}, arg: {NoTarget}]
        \union [kind: {"persist"}, target: Investigation, arg: {NoTarget}]
        \union [kind: {"assign"}, target: Alert, arg: Analyst]
        \union [kind: {"disposition"}, target: Alert, arg: Disposition]
        \union [kind: {"note"}, target: Alert, arg: Note]

\* What an UPDATE locks: columns of one row that are always written together.
StatusCell(a) == <<"alert_status", a>>
NotesCell(a)  == <<"alert_notes", a>>
InvCell(i)    == <<"investigation", i>>

Cell == {StatusCell(a) : a \in Alert} \union {NotesCell(a) : a \in Alert}
          \union {InvCell(i) : i \in Investigation}

\* pc: found = get_queue_item answered, begun = snapshot taken, updated = alert row
\* written, refreshed = investigation row written, inserting = persist_investigation
\* between BEGIN and COMMIT, failed = a statement raised, before the ROLLBACK.
Txn == [pc: {"idle", "found", "begun", "updated", "refreshed", "inserting", "failed"},
        op: Op,
        seen: Seq(Note),                    \* existing.notes
        snap: [Alert -> AlertRow],          \* alert rows at the snapshot
        row: InvestigationRow,              \* the investigation row written
        made: Seq(Alert),                   \* alert rows inserted
        wrote: SUBSET Cell,
        dirty: SUBSET Cell]                 \* committed by others since the snapshot

Idle == [pc |-> "idle",
         op |-> [kind |-> "idle", target |-> NoTarget, arg |-> NoTarget],
         seen |-> <<>>, snap |-> [a \in Alert |-> NoAlert], row |-> NoInvestigation,
         made |-> <<>>, wrote |-> {}, dirty |-> {}]

InTransaction(t) == t.pc \in {"begun", "updated", "refreshed", "inserting"}

AuditEvent ==
    [type: {"query_received", "investigation_completed", "alert_created",
            "alert_assigned", "alert_dispositioned", "analyst_note_added"},
     target: Alert \union Investigation,
     arg: Analyst \union Disposition \union Note \union {NoTarget}]

EventType(op) ==
    CASE op.kind = "assign" -> "alert_assigned"
      [] op.kind = "disposition" -> "alert_dispositioned"
      [] OTHER -> "analyst_note_added"

Event(type, target, arg) == [type |-> type, target |-> target, arg |-> arg]

Init ==
    /\ inv = [i \in Investigation |-> NoInvestigation]
    /\ alert = [a \in Alert |-> NoAlert]
    /\ notes = [a \in Alert |-> <<>>]
    /\ audit = <<>>
    /\ txn = [s \in Session |-> Idle]

-----------------------------------------------------------------------------
(* Statements. *)

\* An UPDATE of cell by s meets a write of another transaction.
Conflict(s, cell) ==
    \/ cell \in txn[s].dirty
    \/ \E o \in Session \ {s} : cell \in txn[o].wrote

\* The cell the request's first UPDATE writes.
TargetCell(op) ==
    IF op.kind = "note" THEN NotesCell(op.target) ELSE StatusCell(op.target)

\* op's alert row after its UPDATE, from the row the transaction sees.
UpdatedRow(op, row) ==
    CASE op.kind = "assign" -> Assigned(row, op.arg)
      [] op.kind = "disposition" -> Dispositioned(row, op.arg)
      [] OTHER -> row

\* Mutant: the SELECT of the refresh misses the transaction's own UPDATE.
ViewBeforeUpdate(t) == t.snap

\* The alert table as request t sees it: its snapshot and its own write.
View(t) == [t.snap EXCEPT ![t.op.target] = UpdatedRow(t.op, @)]

\* The request's own record becomes t.
Becomes(s, t) == txn' = [txn EXCEPT ![s] = t]

Fail(s) == Becomes(s, [txn[s] EXCEPT !.pc = "failed"])

\* COMMIT of s: whatever it wrote is now newer than the others' snapshots.
EndWithCommit(s) ==
    txn' = [o \in Session |->
              IF o = s THEN Idle
              ELSE IF InTransaction(txn[o])
                   THEN [txn[o] EXCEPT !.dirty = @ \union txn[s].wrote]
                   ELSE txn[o]]

-----------------------------------------------------------------------------
(* persist_investigation. *)

\* BEGIN and the INSERT of the investigation's row, under an identifier nobody has
\* (uuid4): neither stored nor being inserted.
BeginPersist(s, i) ==
    /\ txn[s].pc = "idle"
    /\ Len(audit) < MaxEvents
    /\ inv[i].status = "absent"
    /\ \A o \in Session : InvCell(i) \notin txn[o].wrote
    /\ Becomes(s, [txn[s] EXCEPT !.pc = "inserting",
                                 !.op = [kind |-> "persist", target |-> i, arg |-> NoTarget],
                                 !.wrote = {InvCell(i)}])
    /\ UNCHANGED <<inv, alert, notes, audit>>

\* One entity of top_entities: its alert row and its alert_created event.
QueueFinding(s, a) ==
    /\ txn[s].pc = "inserting"
    /\ InvOf[a] = txn[s].op.target
    /\ \A n \in 1..Len(txn[s].made) : txn[s].made[n] # a
    /\ Becomes(s, [txn[s] EXCEPT !.made = Append(@, a)])
    /\ UNCHANGED <<inv, alert, notes, audit>>

\* Mutant: the COMMIT comes before the loop over top_entities has ended.
CompleteInvestigationEarly(s) ==
    LET i == txn[s].op.target
        made == txn[s].made
    IN  /\ txn[s].pc = "inserting"
        /\ inv' = [inv EXCEPT ![i] = OpenInvestigation]
        /\ alert' = [a \in Alert |->
                       IF \E n \in 1..Len(made) : made[n] = a THEN NewAlert ELSE alert[a]]
        /\ audit' = audit \o <<Event("query_received", i, NoTarget)>>
                          \o [n \in 1..Len(made) |-> Event("alert_created", made[n], NoTarget)]
                          \o <<Event("investigation_completed", i, NoTarget)>>
        /\ EndWithCommit(s)
        /\ UNCHANGED notes

\* After the loop: the investigation_completed event and the COMMIT.
CompleteInvestigation(s) ==
    LET i == txn[s].op.target
        made == txn[s].made
    IN  /\ txn[s].pc = "inserting"
        /\ \A a \in Findings(i) : \E n \in 1..Len(made) : made[n] = a
        /\ inv' = [inv EXCEPT ![i] = OpenInvestigation]
        /\ alert' = [a \in Alert |-> IF InvOf[a] = i THEN NewAlert ELSE alert[a]]
        /\ audit' = audit \o <<Event("query_received", i, NoTarget)>>
                          \o [n \in 1..Len(made) |-> Event("alert_created", made[n], NoTarget)]
                          \o <<Event("investigation_completed", i, NoTarget)>>
        /\ EndWithCommit(s)
        /\ UNCHANGED notes

-----------------------------------------------------------------------------
(* assign_alert, disposition_alert, append_alert_note. *)

\* get_queue_item outside the transaction; no row: the request ends with None.
GetQueueItem(s, op) ==
    /\ txn[s].pc = "idle"
    /\ Len(audit) < MaxEvents
    /\ alert[op.target].status # "absent"
    /\ Becomes(s, [txn[s] EXCEPT !.pc = "found", !.op = op,
                                 !.seen = IF op.kind = "note" THEN notes[op.target] ELSE <<>>])
    /\ UNCHANGED <<inv, alert, notes, audit>>

\* BEGIN TRANSACTION and the start of the first UPDATE, which takes the snapshot.
BeginTransaction(s) ==
    /\ txn[s].pc = "found"
    /\ Becomes(s, [txn[s] EXCEPT !.pc = "begun",
                                 !.snap = IF txn[s].op.kind = "note" THEN @ ELSE alert])
    /\ UNCHANGED <<inv, alert, notes, audit>>

\* The UPDATE of the alert's row.
UpdateAlert(s) ==
    LET cell == TargetCell(txn[s].op)
    IN  /\ txn[s].pc = "begun"
        /\ IF Conflict(s, cell)
           THEN Fail(s)
           ELSE Becomes(s, [txn[s] EXCEPT !.pc = "updated", !.wrote = {cell}])
        /\ UNCHANGED <<inv, alert, notes, audit>>

\* Mutant: the investigation's UPDATE is not checked for conflicts (each request
\* writes a row of its own, say).
RefreshWithoutConflict(s) ==
    LET i == InvOf[txn[s].op.target]
    IN  /\ txn[s].pc = "updated"
        /\ txn[s].op.kind # "note"
        /\ Becomes(s, [txn[s] EXCEPT !.pc = "refreshed",
                                     !.row = RefreshedRow(RowsOf(i, View(txn[s]))),
                                     !.wrote = @ \union {InvCell(i)}])
        /\ UNCHANGED <<inv, alert, notes, audit>>

\* _refresh_investigation_status: the SELECT of the alerts and the UPDATE.
RefreshInvestigationStatus(s) ==
    LET i == InvOf[txn[s].op.target]
    IN  /\ txn[s].pc = "updated"
        /\ txn[s].op.kind # "note"
        /\ IF Conflict(s, InvCell(i))
           THEN Fail(s)
           ELSE Becomes(s, [txn[s] EXCEPT !.pc = "refreshed",
                                          !.row = RefreshedRow(RowsOf(i, View(txn[s]))),
                                          !.wrote = @ \union {InvCell(i)}])
        /\ UNCHANGED <<inv, alert, notes, audit>>

\* Mutant: an assignment is committed without an audit event.
CommitCaseUnaudited(s) ==
    LET op == txn[s].op
    IN  /\ txn[s].pc = "refreshed"
        /\ alert' = [alert EXCEPT ![op.target] = UpdatedRow(op, @)]
        /\ inv' = [inv EXCEPT ![InvOf[op.target]] = txn[s].row]
        /\ audit' = IF op.kind = "assign" THEN audit
                    ELSE Append(audit, Event(EventType(op), op.target, op.arg))
        /\ EndWithCommit(s)
        /\ UNCHANGED notes

\* _insert_audit and COMMIT of assign_alert and disposition_alert.
CommitCase(s) ==
    LET op == txn[s].op
    IN  /\ txn[s].pc = "refreshed"
        /\ alert' = [alert EXCEPT ![op.target] = UpdatedRow(op, @)]
        /\ inv' = [inv EXCEPT ![InvOf[op.target]] = txn[s].row]
        /\ audit' = Append(audit, Event(EventType(op), op.target, op.arg))
        /\ EndWithCommit(s)
        /\ UNCHANGED notes

\* Mutant: the new entry is put before the others.
CommitNoteFirst(s) ==
    LET op == txn[s].op
    IN  /\ txn[s].pc = "updated"
        /\ op.kind = "note"
        /\ notes' = [notes EXCEPT ![op.target] = <<op.arg>> \o txn[s].seen]
        /\ audit' = Append(audit, Event(EventType(op), op.target, op.arg))
        /\ EndWithCommit(s)
        /\ UNCHANGED <<inv, alert>>

\* _insert_audit and COMMIT of append_alert_note: the column becomes the notes
\* read before the transaction and the new entry.
CommitNote(s) ==
    LET op == txn[s].op
    IN  /\ txn[s].pc = "updated"
        /\ op.kind = "note"
        /\ notes' = [notes EXCEPT ![op.target] = Append(txn[s].seen, op.arg)]
        /\ audit' = Append(audit, Event(EventType(op), op.target, op.arg))
        /\ EndWithCommit(s)
        /\ UNCHANGED <<inv, alert>>

-----------------------------------------------------------------------------
(* Failures. *)

\* Mutant: the error is raised without the ROLLBACK.
NoRollback(s) ==
    /\ txn[s].pc = "failed"
    /\ Becomes(s, [Idle EXCEPT !.wrote = txn[s].wrote])
    /\ UNCHANGED <<inv, alert, notes, audit>>

\* The except clause: ROLLBACK, then the error is raised to the caller.
Rollback(s) ==
    /\ txn[s].pc = "failed"
    /\ Becomes(s, Idle)
    /\ UNCHANGED <<inv, alert, notes, audit>>

\* A statement of a transaction raises for a reason of its own.
StatementFails(s) ==
    /\ Faults
    /\ InTransaction(txn[s])
    /\ Fail(s)
    /\ UNCHANGED <<inv, alert, notes, audit>>

\* The process ends and starts again: uncommitted work is gone, tables are kept.
Restart ==
    /\ Faults
    /\ \E s \in Session : txn[s] # Idle
    /\ txn' = [s \in Session |-> Idle]
    /\ UNCHANGED <<inv, alert, notes, audit>>

-----------------------------------------------------------------------------

\* What the code does next for a request that has been accepted.
Proceed(s) ==
    \/ \E a \in Alert : QueueFinding(s, a)
    \/ CompleteInvestigation(s)
    \/ BeginTransaction(s)
    \/ UpdateAlert(s)
    \/ RefreshInvestigationStatus(s)
    \/ CommitCase(s)
    \/ CommitNote(s)
    \/ Rollback(s)

Accept(s) ==
    \/ \E i \in Investigation : BeginPersist(s, i)
    \/ \E a \in Alert, x \in Analyst :
          GetQueueItem(s, [kind |-> "assign", target |-> a, arg |-> x])
    \/ \E a \in Alert, d \in Disposition :
          GetQueueItem(s, [kind |-> "disposition", target |-> a, arg |-> d])
    \/ \E a \in Alert, n \in Note :
          GetQueueItem(s, [kind |-> "note", target |-> a, arg |-> n])

\* The bound is reached and every request has been answered.
Quiet ==
    /\ Len(audit) >= MaxEvents
    /\ \A s \in Session : txn[s] = Idle
    /\ UNCHANGED vars

Next ==
    \/ \E s \in Session : Accept(s) \/ Proceed(s) \/ StatementFails(s)
    \/ Restart
    \/ Quiet

Spec == Init /\ [][Next]_vars

\* A thread of the pool runs its handler to the end: no handler waits for another.
FairSpec == Spec /\ \A s \in Session : WF_vars(Proceed(s))

-----------------------------------------------------------------------------
(* Properties. *)

TypeOK ==
    /\ inv \in [Investigation -> InvestigationRow]
    /\ alert \in [Alert -> AlertRow]
    /\ notes \in [Alert -> Seq(Note)]
    /\ audit \in Seq(AuditEvent)
    /\ txn \in [Session -> Txn]

\* A stored investigation's status and disposition say what its alerts say, however
\* requests on its alerts interleave and fail (_refresh_investigation_status): open
\* until an alert is touched, escalated while one alert is, closed when all are.
StatusAgrees(i) ==
    LET rows == RowsOf(i, alert)
        allClosed == rows # {} /\ \A r \in rows : r.status = "closed"
        confirmed == \E r \in rows : r.disposition = "true_positive"
    IN  /\ inv[i].status = "open" <=> \A r \in rows : r = NewAlert
        /\ inv[i].status = "escalated" <=> \E r \in rows : r.status = "escalated"
        /\ inv[i].status = "closed" <=> allClosed
        /\ inv[i].disposition =
              IF inv[i].status = "escalated" THEN "escalated"
              ELSE IF ~allClosed THEN "pending"
              ELSE IF confirmed THEN "true_positive" ELSE "false_positive"

InvestigationStatusConsistent ==
    \A i \in Investigation : inv[i].status # "absent" => StatusAgrees(i)

-----------------------------------------------------------------------------
(* Why it holds: the invariant that every step preserves. *)

\* What request t has written, by how far it is.
Progress(t) ==
    /\ t.pc \in {"found", "begun", "updated"} => t.op.kind \in {"assign", "disposition", "note"}
    /\ t.pc = "refreshed" => t.op.kind \in {"assign", "disposition"}
    /\ t.pc = "inserting" => t.op.kind = "persist"
    /\ t.pc \in {"idle", "found", "begun"} => t.wrote = {}
    /\ t.pc \in {"idle", "found"} => t.dirty = {}
    /\ t.pc = "updated" => t.wrote = {TargetCell(t.op)}
    /\ t.pc = "refreshed" => t.wrote = {StatusCell(t.op.target), InvCell(InvOf[t.op.target])}
    /\ t.pc = "inserting" => t.wrote = {InvCell(t.op.target)}
    /\ t.pc = "inserting" => inv[t.op.target].status = "absent"
    /\ t.pc \in {"found", "begun", "updated", "refreshed"} =>
          alert[t.op.target].status # "absent"

\* t's snapshot differs from the committed alerts of an investigation only if that
\* investigation's row was committed after it; the row t wrote is that of its view.
Current(t) ==
    /\ t.pc \in {"begun", "updated", "refreshed"} /\ t.op.kind # "note"
          => \A a \in Alert : t.snap[a] = alert[a] \/ InvCell(InvOf[a]) \in t.dirty
    /\ t.pc = "refreshed" => t.row = RefreshedRow(RowsOf(InvOf[t.op.target], View(t)))

\* No two transactions have written the same cell, and none has written a cell that
\* was committed after its snapshot.
ConflictInv ==
    \A s \in Session :
        /\ \A o \in Session \ {s} : txn[s].wrote \intersect txn[o].wrote = {}
        /\ InTransaction(txn[s]) => txn[s].wrote \intersect txn[s].dirty = {}

\* Alerts exist with their investigation, and a closed or new alert looks like one.
AlertInv ==
    \A a \in Alert :
        /\ alert[a].status = "absent" <=> inv[InvOf[a]].status = "absent"
        /\ alert[a].status = "new" => alert[a] = NewAlert
        /\ alert[a].status = "closed" =>
              alert[a].disposition \in {"true_positive", "false_positive"}

CaseInv ==
    \A i \in Investigation :
        inv[i].status # "absent" =>
            inv[i] = IF \A a \in Findings(i) : alert[a] = NewAlert
                     THEN OpenInvestigation
                     ELSE RefreshedRow(RowsOf(i, alert))

ProgressInv == \A s \in Session : Progress(txn[s])
SnapshotInv == \A s \in Session : Current(txn[s])

IInv == TypeOK /\ ProgressInv /\ SnapshotInv /\ ConflictInv /\ AlertInv /\ CaseInv

-----------------------------------------------------------------------------
(* What the audit log says. *)

\* Positions in the audit log of the events of these types about target.
EventsAbout(target, types) ==
    {n \in 1..Len(audit) : audit[n].target = target /\ audit[n].type \in types}

\* Reading the audit log alone tells where an alert stands: its latest event gives
\* its status, its latest disposition event its disposition, its latest assignment
\* its analyst (the _insert_audit in each transaction).
AuditExplainsAlerts ==
    \A a \in Alert :
        LET latest(types) ==
              LET seen == EventsAbout(a, types)
              IN  IF seen = {} THEN Event("none", a, NoTarget)
                  ELSE audit[CHOOSE n \in seen : \A m \in seen : m <= n]
            moved == latest({"alert_created", "alert_assigned", "alert_dispositioned"})
            judged == latest({"alert_dispositioned"})
            handed == latest({"alert_assigned"})
        IN  /\ alert[a].status = CASE moved.type = "none" -> "absent"
                                   [] moved.type = "alert_created" -> "new"
                                   [] moved.type = "alert_assigned" -> "in_review"
                                   [] moved.type = "alert_dispositioned" ->
                                        IF moved.arg = "escalated" THEN "escalated" ELSE "closed"
            /\ alert[a].disposition = IF judged.type = "none" THEN "pending" ELSE judged.arg
            /\ alert[a].assigned_to = IF handed.type = "none" THEN Nobody ELSE handed.arg

\* "Atomically retain a response, queue its findings, and write audit events": an
\* investigation, the alerts of its findings and its audit events, each once, are
\* there together or not at all, whatever fails in between.
InvestigationKeptWhole ==
    \A i \in Investigation :
        LET once(target, type) ==
              \E n \in EventsAbout(target, {type}) : EventsAbout(target, {type}) = {n}
        IN  IF inv[i].status = "absent"
            THEN /\ EventsAbout(i, {"query_received", "investigation_completed"}) = {}
                 /\ \A a \in Findings(i) : /\ alert[a] = NoAlert
                                            /\ notes[a] = <<>>
                                            /\ \A n \in 1..Len(audit) : audit[n].target # a
            ELSE /\ once(i, "query_received") /\ once(i, "investigation_completed")
                 /\ \A a \in Findings(i) : /\ alert[a].status # "absent"
                                            /\ once(a, "alert_created")

\* Every entry an alert shows is an audited note of that alert, entries keep the order
\* of their audit events, and the last one is the latest event (append_alert_note):
\* a note can be lost from the column but is never shown without its event.
NotesFollowAudit ==
    \A a \in Alert :
        LET noted == EventsAbout(a, {"analyst_note_added"})
        IN  \E at \in [1..Len(notes[a]) -> noted] :
               /\ \A m, n \in 1..Len(notes[a]) : m < n => at[m] < at[n]
               /\ \A n \in 1..Len(notes[a]) : audit[at[n]].arg = notes[a][n]
               /\ \A m \in noted : \E n \in 1..Len(notes[a]) : m <= at[n]

\* The audit log only grows, and no committed change of an alert, its notes or its
\* investigation comes without a new event about it (TEST_REPORT.md: "Append-only
\* audit events").
EveryChangeAudited ==
    [][LET new == (Len(audit) + 1)..Len(audit')
       IN  /\ Len(audit) <= Len(audit')
           /\ SubSeq(audit', 1, Len(audit)) = audit
           /\ \A a \in Alert : <<alert[a], notes[a]>> # <<alert[a], notes[a]>>'
                                => \E n \in new : audit'[n].target = a
           /\ \A i \in Investigation : inv[i] # inv'[i]
                                => \E n \in new : audit'[n].target \in {i} \union Findings(i)
      ]_vars

Case == INSTANCE CaseWorkflow

\* Interleaved requests leave investigations and alerts as if they had run one at a
\* time, each indivisibly (the snapshot and the conflict check of the investigation's
\* row prevent write skew between two alerts of one investigation).
RequestsLookSerial == Case!CaseSpec

\* If requests keep coming, the log keeps growing: conflicts never make the requests
\* abort each other for ever.
RequestsGetThrough ==
    ([]<>(\E s \in Session : txn[s].pc = "found")) => <>(Len(audit) >= MaxEvents)

\* What QueueNoteRequest ("Append-only analyst note request.", agent/models.py) says of
\* the notes column: an entry, once there, stays.
NotesAppendOnly ==
    [][\A a \in Alert : /\ Len(notes[a]) <= Len(notes'[a])
                         /\ SubSeq(notes'[a], 1, Len(notes[a])) = notes[a]]_vars
=============================================================================
