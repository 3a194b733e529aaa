---------------------------- MODULE GovernedCase ----------------------------
(***************************************************************************)
(* What the governed review queue promises                                 *)
(* (src/api/repositories/workflow_repository.py): a request changes an     *)
(* alert's row and appends one event that says so, in one step; requests   *)
(* on alerts without a row change nothing.  GovernedWorkflow, whose        *)
(* transactions interleave and fail, implements this.                      *)
(***************************************************************************)
EXTENDS ApiRequests, Naturals, Sequences

CONSTANTS
    Alert,      \* identifiers of governed_alert_queue rows
    Queued,     \* those with a row: nothing in the source inserts or deletes one
    Note        \* texts of notes

ASSUME QueuedAssumption == Queued \subseteq Alert

\* assigned_to of a row nobody is assigned to (SQL NULL).
Unassigned == "unassigned"

Disposition == {"true_positive", "false_positive", "escalated"}

\* One analyst's note as it stands in the notes column ("[time] actor: note").
NoteEntry == [by: User, text: Note]

\* The columns of a governed_alert_queue row that an operation can change.
QueueRow == [status: {"new", "in_review", "escalated", "closed"},
             disposition: Disposition \union {"pending"},
             assigned_to: User \union {Unassigned},
             notes: Seq(NoteEntry)]

\* The defaults of the schema.
NewRow == [status |-> "new", disposition |-> "pending",
           assigned_to |-> Unassigned, notes |-> <<>>]

\* A request on one alert, which is also what its audit event records.
Operation ==
    [kind: {"assign"}, target: Alert, arg: User, actor: User]
      \union [kind: {"disposition"}, target: Alert, arg: Disposition, actor: User]
      \union [kind: {"note"}, target: Alert, arg: Note, actor: User]

\* assign: the UPDATE, with its CASE on the status.
Assign(row, user) ==
    [row EXCEPT !.assigned_to = user,
                !.status = IF row.status = "new" THEN "in_review" ELSE row.status]

\* The status column of a disposition.
NextStatus == [true_positive |-> "in_review", false_positive |-> "closed",
               escalated |-> "escalated"]

\* Mutant: the status is set to the disposition.
DisposedAsStatus(row, d) == [row EXCEPT !.disposition = d, !.status = d]

\* disposition: the UPDATE of both columns.
Disposed(row, d) == [row EXCEPT !.disposition = d, !.status = NextStatus[d]]

\* append_note: the column is concatenated in SQL, from the row as it is then.
Noted(row, entry) == [row EXCEPT !.notes = Append(row.notes, entry)]

\* The row after operation op.
Changed(op, row) ==
    IF op.kind = "assign" THEN Assign(row, op.arg)
    ELSE IF op.kind = "disposition" THEN Disposed(row, op.arg)
    ELSE Noted(row, [by |-> op.actor, text |-> op.arg])

-----------------------------------------------------------------------------

VARIABLES
    queue,  \* governed_alert_queue
    log     \* governed_audit_events, in the order they were committed

caseVars == <<queue, log>>

CaseInit ==
    /\ queue = [a \in Queued |-> NewRow]
    /\ log = <<>>

Handle(op) ==
    /\ op.target \in Queued
    /\ queue' = [queue EXCEPT ![op.target] = Changed(op, @)]
    /\ log' = Append(log, op)

CaseNext == \E op \in Operation : Handle(op)

CaseSpec == CaseInit /\ [][CaseNext]_caseVars
=============================================================================
