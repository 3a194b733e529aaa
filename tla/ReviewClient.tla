---------------------------- MODULE ReviewClient ----------------------------
(***************************************************************************)
(* Pages of the React client: Transactions, Customers, the command center   *)
(* ("desk"), Investigations, the review queue and Datasets with its upload  *)
(* dialogue.  One page is mounted at a time; the answer to a call comes     *)
(* back to the page that made it, whatever the analyst has done since, and  *)
(* changes nothing once that page is unmounted.                             *)
(*                                                                          *)
(* What an analyst chooses (filters, a query, a tab, a dataset) is a member *)
(* of Choice, and an answer is told by the choice it answers.               *)
(***************************************************************************)
EXTENDS ApiCalls

CONSTANTS
    Choice,
    Default,    \* what a page starts with
    Nothing

ASSUME ChoiceAssumption == Default \in Choice /\ Nothing \notin Choice

VARIABLES
    route,      \* the page that is mounted
    mount,      \* the click that mounted it: its identity
    page        \* its React state
vars == <<callVars, route, mount, page>>

Route == {"transactions", "customers", "desk", "investigations", "queue", "datasets"}
Lists == {"transactions", "customers"}

(* The state of a page as it is mounted.  For a list, `current` is the run  *)
(* of the effect whose `active` is still true.  `cleared` is no state of    *)
(* the page: it says that the error of that run, or of the last question of *)
(* the command center, may have been wiped out, by opening a customer or    *)
(* with the button that dismisses it.                                       *)
NewList(id) == [filters |-> Default, shown |-> Nothing, current |-> id,
                loading |-> TRUE, detailLoading |-> FALSE, error |-> FALSE, cleared |-> FALSE]
NewDesk == [asked |-> Nothing, response |-> Nothing, loading |-> FALSE, error |-> FALSE, cleared |-> FALSE]
NewQueue == [tab |-> Default, items |-> Nothing, busy |-> FALSE, error |-> FALSE]
NewInvestigations(id) == [current |-> id, listed |-> FALSE, loading |-> TRUE, detailLoading |-> FALSE, error |-> FALSE]
NewDatasets == [busy |-> Nothing, listed |-> FALSE, loading |-> TRUE, error |-> FALSE, modal |-> Nothing]
NewModal == [id |-> clicks, file |-> FALSE, inspected |-> FALSE, stage |-> "idle"]

Fresh(p, id) ==
    CASE p \in Lists -> NewList(id)
      [] p = "desk" -> NewDesk
      [] p = "investigations" -> NewInvestigations(id)
      [] p = "queue" -> NewQueue
      [] p = "datasets" -> NewDatasets

(* The call a page makes when it is mounted (its effects). *)
FirstCall(p, id) ==
    CASE p \in Lists -> {Call(id, "GET", "list", Default, id)}
      [] p = "desk" -> {}
      [] p = "investigations" -> {Call(id, "GET", "records", Nothing, id)}
      [] p = "queue" -> {Call(id, "GET", "items", Default, id)}
      [] p = "datasets" -> {Call(id, "GET", "refresh", Nothing, id)}

(* The tab is opened at the URL of any page: click 0. *)
Init ==
    \E p \in Route :
        /\ route = p /\ mount = 0 /\ page = Fresh(p, 0)
        /\ clicks = 0 /\ calls = FirstCall(p, 0) /\ wire = {} /\ applied = {}

-----------------------------------------------------------------------------
(* What the analyst does. *)

Id == clicks + 1
MayClick == clicks < MaxClicks /\ Cardinality(calls) < MaxPending

Navigate(p) ==
    /\ MayClick
    /\ p # route
    /\ route' = p /\ mount' = Id /\ page' = Fresh(p, Id)
    /\ Click(FirstCall(p, Id))

OnPage(p, next, method, then, arg) ==
    /\ MayClick
    /\ route = p
    /\ page' = next
    /\ Click({Call(Id, method, then, arg, mount)})
    /\ UNCHANGED <<route, mount>>

Loading(id, f) == [page EXCEPT !.filters = f, !.current = id, !.loading = TRUE, !.error = FALSE, !.cleared = FALSE]

(* apply, reset, next page: a new object is a new run of the effect; on     *)
(* Customers the effect depends on the values.                              *)
FilterTransactions(f) ==
    route = "transactions" /\ OnPage("transactions", Loading(Id, f), "GET", "list", f)
FilterCustomers(f) ==
    route = "customers" /\ f # page.filters /\ OnPage("customers", Loading(Id, f), "GET", "list", f)

OpenCustomer ==
    /\ route = "customers" /\ ~page.loading /\ page.shown # Nothing
    /\ OnPage("customers", [page EXCEPT !.detailLoading = TRUE, !.error = FALSE, !.cleared = TRUE], "GET", "detail", Nothing)

SubmitQuery(q) ==
    /\ route = "desk" /\ ~page.loading
    /\ OnPage("desk", [page EXCEPT !.asked = q, !.loading = TRUE, !.error = FALSE, !.cleared = FALSE],
              "POST", "response", q)

(* "Dismiss error"; the answer to an earlier question stays on the page.    *)
DismissError ==
    /\ route = "desk" /\ page.error
    /\ page' = [page EXCEPT !.error = FALSE, !.cleared = TRUE]
    /\ UNCHANGED <<callVars, route, mount>>

SelectTab(t) ==
    /\ route = "queue" /\ t # page.tab
    /\ OnPage("queue", [page EXCEPT !.tab = t], "GET", "items", t)

(* assign, note or disposition: mutate() *)
Mutate ==
    /\ route = "queue" /\ page.items # Nothing /\ ~page.busy
    /\ OnPage("queue", [page EXCEPT !.busy = TRUE, !.error = FALSE], "POST", "mutated", Nothing)

RefreshInvestigations ==
    /\ route = "investigations" /\ ~page.loading
    /\ OnPage("investigations", [page EXCEPT !.current = Id, !.loading = TRUE], "GET", "records", Nothing)

SelectRecord ==
    /\ route = "investigations" /\ page.listed
    /\ OnPage("investigations", [page EXCEPT !.detailLoading = TRUE, !.error = FALSE], "GET", "detail", Nothing)

(* The upload dialogue covers the page. *)
OnDatasets == route = "datasets" /\ page.modal = Nothing

Refresh ==
    /\ OnDatasets /\ ~page.loading
    /\ OnPage("datasets", [page EXCEPT !.loading = TRUE], "GET", "refresh", Nothing)

(* activate and remove; only the busy dataset's own buttons are disabled *)
ActOnDataset(d) ==
    /\ OnDatasets /\ ~page.loading /\ page.listed /\ page.busy # d
    /\ OnPage("datasets", [page EXCEPT !.busy = d, !.error = FALSE], "POST", "acted", d)

(* The dialogue is opened, closed, or given a file it does not support. *)
UseModal ==
    /\ route = "datasets"
    /\ \/ page.modal = Nothing /\ page' = [page EXCEPT !.modal = NewModal]
       \/ page.modal # Nothing /\ page.modal.stage # "ingesting" /\ page' = [page EXCEPT !.modal = Nothing]
       \/ page.modal # Nothing /\ page' = [page EXCEPT !.modal.file = FALSE, !.modal.inspected = FALSE]
    /\ UNCHANGED <<callVars, route, mount>>

(* The field of the file is never disabled. *)
ChooseFile ==
    /\ route = "datasets" /\ page.modal # Nothing
    /\ OnPage("datasets", [page EXCEPT !.modal.file = TRUE, !.modal.inspected = FALSE, !.modal.stage = "inspecting"],
              "POST", "inspected", page.modal.id)

Submit ==
    /\ route = "datasets" /\ page.modal # Nothing
    /\ page.modal.file /\ page.modal.inspected /\ page.modal.stage = "idle"
    /\ OnPage("datasets", [page EXCEPT !.modal.stage = "ingesting"], "POST", "uploaded", page.modal.id)

-----------------------------------------------------------------------------
(* What an answer (ok) or an error does to the state of its page. *)

\* Mutant: the effect has no cleanup that clears `active`.
ListOfAny(c, ok) ==
    IF ok THEN [page EXCEPT !.shown = c.arg, !.loading = FALSE]
    ELSE [page EXCEPT !.error = TRUE, !.loading = FALSE]
List(c, ok) ==
    IF c.id # page.current THEN page
    ELSE IF ok THEN [page EXCEPT !.shown = c.arg, !.loading = FALSE]
    ELSE [page EXCEPT !.error = TRUE, !.loading = FALSE]

Detail(c, ok) == [page EXCEPT !.detailLoading = FALSE, !.error = @ \/ ~ok]
Response(c, ok) == [page EXCEPT !.response = IF ok THEN c.arg ELSE @, !.loading = FALSE, !.error = @ \/ ~ok]
Items(c, ok) == [page EXCEPT !.items = IF ok THEN c.arg ELSE @, !.error = @ \/ ~ok]
Mutated(c, ok) == [page EXCEPT !.busy = FALSE, !.error = @ \/ ~ok]
Acted(c, ok) == IF ok THEN [page EXCEPT !.loading = TRUE] ELSE [page EXCEPT !.error = TRUE, !.busy = Nothing]
Refreshed(c, ok) == [page EXCEPT !.listed = @ \/ ok, !.error = ~ok, !.loading = FALSE,
                                 !.busy = IF c.then = "refresh after" THEN Nothing ELSE @]

(* The list of records is followed by the first of them (of an empty list,  *)
(* which is not modelled, nothing follows and loading ends at once).        *)
Records(c, ok) ==
    IF c.id # page.current THEN page
    ELSE IF ok THEN [page EXCEPT !.listed = TRUE]
    ELSE [page EXCEPT !.error = TRUE, !.loading = FALSE]
FirstRecord(c, ok) ==
    IF c.id # page.current THEN page ELSE [page EXCEPT !.loading = FALSE, !.error = @ \/ ~ok]

InModal(c) == page.modal # Nothing /\ page.modal.id = c.arg
Inspected(c, ok) ==
    IF InModal(c) THEN [page EXCEPT !.modal.inspected = @ \/ ok, !.modal.stage = "idle"] ELSE page
Uploaded(c, ok) ==
    IF ok THEN [page EXCEPT !.modal = Nothing, !.loading = TRUE]
    ELSE IF InModal(c) THEN [page EXCEPT !.modal.stage = "idle"] ELSE page

Answered(c, ok) ==
    CASE c.then = "list" -> List(c, ok)
      [] c.then = "detail" -> Detail(c, ok)
      [] c.then = "response" -> Response(c, ok)
      [] c.then = "records" -> Records(c, ok)
      [] c.then = "first record" -> FirstRecord(c, ok)
      [] c.then = "items" -> Items(c, ok)
      [] c.then = "mutated" -> Mutated(c, ok)
      [] c.then = "acted" -> Acted(c, ok)
      [] c.then = "inspected" -> Inspected(c, ok)
      [] c.then = "uploaded" -> Uploaded(c, ok)
      [] c.then \in {"refresh", "refresh after"} -> Refreshed(c, ok)

(* The calls that follow from an answer: a change of the registry is        *)
(* followed by a refresh, whether the page is still mounted or not.         *)
FollowUp(c, ok) ==
    LET After(then) == {Call(c.id, "GET", then, c.arg, c.mount)}
    IN  CASE ok /\ c.then = "acted" -> After("refresh after")
          [] ok /\ c.then = "uploaded" -> After("refresh")
          [] ok /\ c.then = "records" /\ c.mount = mount /\ c.id = page.current -> After("first record")
          [] OTHER -> {}

Return(c, ok) ==
    /\ page' = IF c.mount = mount THEN Answered(c, ok) ELSE page
    /\ Settle(c, FollowUp(c, ok))
    /\ UNCHANGED <<route, mount>>

Resolve(c) == c.phase = "reading" /\ Return(c, TRUE)
Reject(c, f) == Throws(c, f) /\ Return(c, FALSE)

-----------------------------------------------------------------------------
PageUntouched == UNCHANGED <<route, mount, page>>

(* Every call has settled: the tab is closed, and opened again. *)
Reload ==
    /\ calls = {} /\ clicks > 0
    /\ \E p \in Route :
        /\ route' = p /\ mount' = 0 /\ page' = Fresh(p, 0)
        /\ clicks' = 0 /\ calls' = FirstCall(p, 0) /\ wire' = {} /\ applied' = {}

Analyst ==
    \/ \E p \in Route : Navigate(p)
    \/ \E f \in Choice : FilterTransactions(f) \/ FilterCustomers(f)
    \/ \E x \in Choice : SubmitQuery(x) \/ SelectTab(x) \/ ActOnDataset(x)
    \/ OpenCustomer \/ RefreshInvestigations \/ SelectRecord \/ Mutate \/ Refresh
    \/ UseModal \/ ChooseFile \/ Submit \/ DismissError \/ Reload

Network == (Handle \/ (\E c \in calls : Respond(c))) /\ PageUntouched

Fails(c, f) == (Retry(c, f) /\ PageUntouched) \/ Reject(c, f)

Next ==
    \/ Analyst
    \/ Network
    \/ \E c \in calls : PauseEnds(c) /\ PageUntouched
    \/ \E c \in calls : Resolve(c)
    \/ \E c \in calls : \E f \in Failure \union {"body"} : Fails(c, f)

(* The browser's timers run; of the network nothing is assumed. *)
TimersRun ==
    \A n \in 0..MaxClicks :
        /\ WF_vars(\E c \in calls : c.id = n /\ Fails(c, "silence"))
        /\ WF_vars(\E c \in calls : c.id = n /\ PauseEnds(c) /\ PageUntouched)

Spec == Init /\ [][Next]_vars /\ TimersRun

-----------------------------------------------------------------------------
(* A click changes the server at most once, whatever timed out, was retried *)
(* or came late: api.ts repeats only GETs.                                  *)
ClickAppliedAtMostOnce == \A a, b \in applied : a.id = b.id => a = b

(* What Transactions, Customers and the command center show is the answer   *)
(* to what they were asked last, unless they are loading or show an error;  *)
(* answers to earlier questions may come at any time (Transactions.tsx:34,  *)
(* Customers.tsx:34, CommandCenter.tsx:672).  This holds until the analyst  *)
(* wipes the error out, by opening a customer after the list failed         *)
(* (Customers.tsx:65) or by dismissing it (CommandCenter.tsx:763): from     *)
(* then to the next question an earlier answer is shown without a mark.     *)
ShowsItsAnswer ==
    /\ route \in Lists => page.loading \/ page.error \/ page.cleared \/ page.shown = page.filters
    /\ route = "desk" => page.loading \/ page.error \/ page.cleared \/ page.response = page.asked

(* A page that waits (a loading message, disabled buttons) stops waiting,   *)
(* unless a body does not end: that is the one thing no timer guards        *)
(* (api.ts:103, 139).                                                       *)
Waits ==
    CASE route \in Lists -> page.loading \/ page.detailLoading
      [] route = "desk" -> page.loading
      [] route = "queue" -> page.busy
      [] route = "investigations" -> page.loading \/ page.detailLoading
      [] route = "datasets" -> page.loading \/ page.busy # Nothing \/ (page.modal # Nothing /\ page.modal.stage # "idle")
BodyIsRead == \E c \in calls : c.mount = mount /\ c.phase = "reading"
StopsWaiting == Waits ~> (~Waits \/ BodyIsRead)
=============================================================================
