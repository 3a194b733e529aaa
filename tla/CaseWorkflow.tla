---------------------------- MODULE CaseWorkflow ----------------------------
(***************************************************************************)
(* What the review queue promises: investigations and alerts change as if  *)
(* each request were one indivisible step, taken one at a time.  A request *)
(* on an alert leaves the investigation's row agreeing with all of its     *)
(* alerts.  WorkflowStore, whose requests interleave, implements this.     *)
(***************************************************************************)
EXTENDS CaseRules

VARIABLES inv, alert

caseVars == <<inv, alert>>

CaseInit ==
    /\ inv = [i \in Investigation |-> NoInvestigation]
    /\ alert = [a \in Alert |-> NoAlert]

\* A completed query is kept: its investigation and an alert for every finding.
Open(i) ==
    /\ inv[i].status = "absent"
    /\ inv' = [inv EXCEPT ![i] = OpenInvestigation]
    /\ alert' = [a \in Alert |-> IF InvOf[a] = i THEN NewAlert ELSE alert[a]]

\* One alert's row becomes row; its investigation follows from all the rows.
Change(a, row) ==
    /\ alert[a].status # "absent"
    /\ alert' = [alert EXCEPT ![a] = row]
    /\ inv' = [inv EXCEPT ![InvOf[a]] = RefreshedRow(RowsOf(InvOf[a], alert'))]

CaseNext ==
    \/ \E i \in Investigation : Open(i)
    \/ \E a \in Alert, x \in Analyst : Change(a, Assigned(alert[a], x))
    \/ \E a \in Alert, d \in Disposition : Change(a, Dispositioned(alert[a], d))

CaseSpec == CaseInit /\ [][CaseNext]_caseVars
=============================================================================
