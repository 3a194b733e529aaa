----------------------------- MODULE CaseRules -----------------------------
(***************************************************************************)
(* The data of the review queue and the rules that tie an investigation to *)
(* its alerts (src/tools/workflow_store.py).  No variables: CaseWorkflow   *)
(* states what the store promises with them and WorkflowStore models how   *)
(* the store does it.                                                      *)
(***************************************************************************)
EXTENDS Naturals

CONSTANTS
    Alert,          \* identifiers of alert_queue rows (ALT-...)
    Investigation,  \* identifiers of investigations rows (INV-...)
    InvOf,          \* InvOf[a]: the investigation whose response holds finding a
    Analyst         \* names an alert can be assigned to

ASSUME InvOfAssumption == InvOf \in [Alert -> Investigation]
ASSUME IdAssumption == Alert \intersect Investigation = {}  \* ALT-... and INV-...

\* AssignedTo of a row nobody is assigned to (SQL NULL).
Nobody == "nobody"

\* The dispositions DispositionRequest accepts.
Disposition == {"true_positive", "false_positive", "escalated"}

AlertStatus == {"absent", "new", "in_review", "escalated", "closed"}

\* An alert_queue row, without the columns no operation ever changes; "absent"
\* stands for no row.  The notes column is kept apart, in WorkflowStore.
AlertRow == [status: AlertStatus,
             disposition: Disposition \union {"pending"},
             assigned_to: Analyst \union {Nobody}]

InvestigationRow == [status: AlertStatus \union {"open"},
                     disposition: Disposition \union {"pending"}]

NoAlert   == [status |-> "absent", disposition |-> "pending", assigned_to |-> Nobody]
NewAlert  == [status |-> "new",    disposition |-> "pending", assigned_to |-> Nobody]
NoInvestigation   == [status |-> "absent", disposition |-> "pending"]
OpenInvestigation == [status |-> "open",   disposition |-> "pending"]

Findings(i) == {a \in Alert : InvOf[a] = i}

\* Mutant: an assignment only starts the review of a new alert.
AssignedIfNew(row, analyst) ==
    [row EXCEPT !.assigned_to = analyst,
                !.status = IF row.status = "new" THEN "in_review" ELSE @]

\* assign_alert: the UPDATE of one alert row, whatever its status was.
Assigned(row, analyst) ==
    [row EXCEPT !.assigned_to = analyst, !.status = "in_review"]

\* Mutant: the status column is given the disposition itself.
DispositionAsStatus(row, d) == [row EXCEPT !.disposition = d, !.status = d]

\* disposition_alert: the UPDATE of one alert row.
Dispositioned(row, d) ==
    [row EXCEPT !.disposition = d,
                !.status = IF d = "escalated" THEN "escalated" ELSE "closed"]

\* _refresh_investigation_status: an investigation's row from the rows of its alerts.
RefreshedRow(rows) ==
    LET statuses == {r.status : r \in rows}
        dispositions == {r.disposition : r \in rows} \ {"pending"}
        status == IF "escalated" \in statuses THEN "escalated"
                  ELSE IF statuses \intersect {"new", "in_review"} # {} THEN "in_review"
                  ELSE "closed"
    IN  [status |-> status,
         disposition |->
            IF status = "escalated" THEN "escalated"
            ELSE IF status = "closed" /\ "true_positive" \in dispositions
                 THEN "true_positive"
            ELSE IF status = "closed" /\ dispositions # {} THEN "false_positive"
            ELSE "pending"]

\* The rows of investigation i's alerts in the alert table rows.
RowsOf(i, rows) == {rows[a] : a \in {b \in Findings(i) : rows[b].status # "absent"}}
=============================================================================
