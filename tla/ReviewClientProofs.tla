------------------------ MODULE ReviewClientProofs ------------------------
(***************************************************************************)
(* Proofs about ReviewClient: a click changes the server at most once, and *)
(* a page shows the answer to what it was asked last, for all choices,     *)
(* numbers of clicks, pending calls and attempts, and for every network.   *)
(***************************************************************************)
EXTENDS ReviewClient, TLAPS

-----------------------------------------------------------------------------
(* The invariant. *)

IsCall(c) ==
    c = [id |-> c.id, method |-> c.method, then |-> c.then, arg |-> c.arg, mount |-> c.mount,
         attempt |-> c.attempt, phase |-> c.phase]

\* What may change the server is on its first attempt as long as it is fetched.
SentOnce(c) ==
    c.method # "GET" => c.phase # "pause" /\ (c.phase = "fetching" => c.attempt = 1)

CallsInv ==
    /\ clicks \in Nat /\ mount \in Nat /\ mount <= clicks
    /\ \A c \in calls :
          /\ IsCall(c) /\ SentOnce(c)
          /\ c.id \in Nat /\ c.id <= clicks
          /\ c.mount \in Nat /\ c.mount <= clicks

WireInv == \A w \in wire \cup applied : w = [id |-> w.id, attempt |-> 1]

Own(c) == c.mount = mount

ListPage ==
    [filters : Choice, shown : Choice \cup {Nothing}, current : Nat, loading : BOOLEAN,
     detailLoading : BOOLEAN, error : BOOLEAN, cleared : BOOLEAN]

\* The call of the current run of a list's effect asks for its filters.
ListInv ==
    route \in Lists =>
        /\ page \in ListPage /\ page.current <= clicks
        /\ \A c \in calls : Own(c) =>
              /\ c.then \in {"list", "detail"}
              /\ c.then = "list" /\ c.id = page.current => c.arg = page.filters
        /\ page.loading \/ page.error \/ page.cleared \/ page.shown = page.filters

DeskPage ==
    [asked : Choice \cup {Nothing}, response : Choice \cup {Nothing}, loading : BOOLEAN,
     error : BOOLEAN, cleared : BOOLEAN]

\* The command center waits for one call, which is the query asked last.
DeskInv ==
    route = "desk" =>
        /\ page \in DeskPage
        /\ \A c \in calls : Own(c) => c.then = "response" /\ page.loading /\ c.arg = page.asked
        /\ \A c, d \in calls : Own(c) /\ Own(d) => c = d
        /\ page.loading \/ page.error \/ page.cleared \/ page.response = page.asked

ClientInv == CallsInv /\ WireInv /\ ListInv /\ DeskInv

-----------------------------------------------------------------------------
(* Calls. *)

\* d is c in another phase.
SameCall(c, d) ==
    /\ IsCall(d) /\ d.id = c.id /\ d.method = c.method /\ d.then = c.then
    /\ d.arg = c.arg /\ d.mount = c.mount

LEMMA PhaseChange ==
    ASSUME NEW c, IsCall(c), NEW p
    PROVE  LET d == [c EXCEPT !.phase = p]
           IN  SameCall(c, d) /\ d.phase = p /\ d.attempt = c.attempt
BY DEF IsCall, SameCall

LEMMA AttemptChange ==
    ASSUME NEW c, IsCall(c), NEW n
    PROVE  LET d == [c EXCEPT !.attempt = n]
           IN  SameCall(c, d) /\ d.phase = c.phase
BY DEF IsCall, SameCall

LEMMA RespondedCall ==
    ASSUME NEW c, IsCall(c)
    PROVE  LET d == [c EXCEPT !.phase = "reading", !.attempt = 0]
           IN  SameCall(c, d) /\ d.phase = "reading"
<1> DEFINE e == [c EXCEPT !.phase = "reading"]
           d == [e EXCEPT !.attempt = 0]
<1>1. SameCall(c, e) /\ e.phase = "reading"
  BY PhaseChange
<1>2. SameCall(e, d) /\ d.phase = e.phase
  <2> HIDE DEF e
  <2> QED  BY <1>1, AttemptChange DEF SameCall
<1>3. [c EXCEPT !.phase = "reading", !.attempt = 0] = d
  OBVIOUS
<1> HIDE DEF d, e
<1> QED  BY <1>1, <1>2, <1>3 DEF SameCall

LEMMA NextCall ==
    ASSUME NEW c, IsCall(c)
    PROVE  SameCall(c, NextAttempt(c)) /\ NextAttempt(c).phase = "fetching"
<1> DEFINE e == [c EXCEPT !.phase = "fetching"]
           d == [e EXCEPT !.attempt = @ + 1]
<1>1. SameCall(c, e) /\ e.phase = "fetching"
  BY PhaseChange
<1>2. SameCall(e, d) /\ d.phase = e.phase
  <2> HIDE DEF e
  <2>1. d = [e EXCEPT !.attempt = e.attempt + 1]
    OBVIOUS
  <2> QED  BY <1>1, <2>1, AttemptChange DEF SameCall
<1>3. NextAttempt(c) = d
  BY DEF NextAttempt
<1> HIDE DEF d, e
<1> QED  BY <1>1, <1>2, <1>3 DEF SameCall

LEMMA NewCall ==
    ASSUME NEW id, NEW method, NEW then, NEW arg, NEW m
    PROVE  LET c == Call(id, method, then, arg, m)
           IN  /\ IsCall(c) /\ SentOnce(c)
               /\ c.id = id /\ c.method = method /\ c.then = then /\ c.arg = arg /\ c.mount = m
               /\ \A w \in Sent(c) : w = [id |-> w.id, attempt |-> 1]
BY DEF IsCall, SentOnce, Call, Sent

\* A call that goes on in another phase, the page being left alone, changes
\* nothing an invariant says.
LEMMA CallGoesOn ==
    ASSUME ClientInv, NEW c \in calls, NEW d, SameCall(c, d), SentOnce(d),
           calls' = (calls \ {c}) \cup {d}, clicks' = clicks, WireInv', PageUntouched
    PROVE  ClientInv'
<1>1. route' = route /\ mount' = mount /\ page' = page
  BY DEF PageUntouched
<1>2. CallsInv'
  BY <1>1 DEF ClientInv, CallsInv, SameCall
<1>3. ListInv'
  BY <1>1 DEF ClientInv, ListInv, SameCall, Own
<1>4. DeskInv'
  BY <1>1 DEF ClientInv, DeskInv, SameCall, Own
<1> QED  BY <1>2, <1>3, <1>4 DEF ClientInv

LEMMA HandleStep == ASSUME ClientInv, Handle, PageUntouched PROVE ClientInv'
<1>1. /\ clicks' = clicks /\ calls' = calls
      /\ wire' \subseteq wire \cup applied /\ applied' \subseteq wire \cup applied
  BY DEF Handle
<1>2. route' = route /\ mount' = mount /\ page' = page
  BY DEF PageUntouched
<1>3. WireInv'
  BY <1>1 DEF ClientInv, WireInv
<1> QED  BY <1>1, <1>2, <1>3 DEF ClientInv, CallsInv, ListInv, DeskInv, Own

LEMMA RespondStep == ASSUME ClientInv, NEW c \in calls, Respond(c), PageUntouched PROVE ClientInv'
<1> DEFINE d == [c EXCEPT !.phase = "reading", !.attempt = 0]
<1>1. IsCall(c)
  BY DEF ClientInv, CallsInv
<1>2. SameCall(c, d) /\ d.phase = "reading"
  BY <1>1, RespondedCall
<1>3. /\ calls' = (calls \ {c}) \cup {d} /\ clicks' = clicks /\ wire' = wire /\ applied' = applied
  BY DEF Respond
<1> HIDE DEF d
<1>4. SentOnce(d) /\ WireInv'
  BY <1>2, <1>3 DEF SentOnce, ClientInv, WireInv
<1> QED  BY <1>2, <1>3, <1>4, CallGoesOn

LEMMA RetryStep == ASSUME ClientInv, NEW c \in calls, NEW f, Retry(c, f), PageUntouched PROVE ClientInv'
<1> DEFINE d == [c EXCEPT !.phase = "pause"]
<1>1. IsCall(c)
  BY DEF ClientInv, CallsInv
<1>2. SameCall(c, d) /\ d.phase = "pause"
  BY <1>1, PhaseChange
<1>3. /\ calls' = (calls \ {c}) \cup {d} /\ clicks' = clicks /\ wire' = wire /\ applied' = applied
      /\ c.phase = "fetching" /\ Retries(c, f)
  BY DEF Retry
<1>4. c.method = "GET"
  <2>1. SUFFICES ASSUME c.method # "GET" PROVE FALSE
    OBVIOUS
  <2>2. c.attempt = 1
    BY <1>3, <2>1 DEF ClientInv, CallsInv, SentOnce
  <2>3. Attempts(c.method) = 1
    BY <2>1 DEF Attempts
  <2> QED  BY <1>3, <2>2, <2>3 DEF Retries
<1> HIDE DEF d
<1>5. SentOnce(d) /\ WireInv'
  BY <1>2, <1>3, <1>4 DEF SentOnce, SameCall, ClientInv, WireInv
<1> QED  BY <1>2, <1>3, <1>5, CallGoesOn

LEMMA PauseStep == ASSUME ClientInv, NEW c \in calls, PauseEnds(c), PageUntouched PROVE ClientInv'
<1> DEFINE d == NextAttempt(c)
<1>1. IsCall(c) /\ SentOnce(c)
  BY DEF ClientInv, CallsInv
<1>2. SameCall(c, d) /\ d.phase = "fetching"
  BY <1>1, NextCall
<1>3. /\ calls' = (calls \ {c}) \cup {d} /\ clicks' = clicks /\ wire' = wire \cup Sent(d)
      /\ applied' = applied /\ c.phase = "pause"
  BY DEF PauseEnds
<1> HIDE DEF d
<1>4. c.method = "GET" /\ d.method = "GET"
  BY <1>1, <1>2, <1>3 DEF SentOnce, SameCall
<1>5. Sent(d) = {}
  BY <1>4 DEF Sent
<1>6. SentOnce(d) /\ WireInv'
  BY <1>3, <1>4, <1>5 DEF SentOnce, ClientInv, WireInv
<1> QED  BY <1>2, <1>3, <1>6, CallGoesOn

-----------------------------------------------------------------------------
(* Clicks. *)

\* A click on a page, whatever it does there.
LEMMA ClickedCalls ==
    ASSUME ClientInv, NEW p, NEW next, NEW method, NEW then, NEW arg,
           OnPage(p, next, method, then, arg)
    PROVE  LET c == Call(Id, method, then, arg, mount)
           IN  /\ calls' = calls \cup {c} /\ route = p
               /\ page' = next /\ route' = route /\ mount' = mount
               /\ clicks' = clicks + 1 /\ clicks \in Nat
               /\ c.id = Id /\ c.then = then /\ c.arg = arg /\ c.mount = mount
               /\ CallsInv' /\ WireInv'
<1> DEFINE c == Call(Id, method, then, arg, mount)
<1>1. /\ calls' = calls \cup {c} /\ clicks' = clicks + 1
      /\ wire' = wire \cup UNION {Sent(n) : n \in {c}} /\ applied' = applied
      /\ page' = next /\ route' = route /\ mount' = mount /\ route = p
  BY DEF OnPage, Click
<1>2. clicks \in Nat /\ mount \in Nat /\ mount <= clicks
  BY DEF ClientInv, CallsInv
<1>3. /\ IsCall(c) /\ SentOnce(c) /\ c.id = Id /\ c.then = then /\ c.arg = arg /\ c.mount = mount
      /\ \A w \in Sent(c) : w = [id |-> w.id, attempt |-> 1]
  BY NewCall
<1> HIDE DEF c
<1>4. CallsInv'
  BY <1>1, <1>2, <1>3 DEF ClientInv, CallsInv, Id
<1>5. wire' = wire \cup Sent(c)
  BY <1>1
<1>6. WireInv'
  BY <1>1, <1>3, <1>5 DEF ClientInv, WireInv
<1> QED  BY <1>1, <1>2, <1>3, <1>4, <1>6 DEF c

LEMMA FilterStep ==
    ASSUME ClientInv, NEW p \in Lists, NEW f \in Choice,
           OnPage(p, Loading(Id, f), "GET", "list", f)
    PROVE  ClientInv'
<1> DEFINE c == Call(Id, "GET", "list", f, mount)
<1>1. /\ calls' = calls \cup {c} /\ route = p
      /\ page' = Loading(Id, f) /\ route' = route /\ mount' = mount
      /\ clicks' = clicks + 1 /\ clicks \in Nat
      /\ c.id = Id /\ c.then = "list" /\ c.arg = f /\ c.mount = mount
      /\ CallsInv' /\ WireInv'
  BY ClickedCalls
<1> HIDE DEF c
<1>2. page \in ListPage /\ \A d \in calls : Own(d) => d.then \in {"list", "detail"}
  BY <1>1 DEF ClientInv, ListInv
<1>3. /\ page' \in ListPage /\ page'.current = Id /\ page'.filters = f /\ page'.loading
  <2>1. page' = [filters |-> f, shown |-> page.shown, current |-> Id, loading |-> TRUE,
                 detailLoading |-> page.detailLoading, error |-> FALSE, cleared |-> FALSE]
    BY <1>1, <1>2 DEF ListPage, Loading
  <2>2. Id \in Nat
    BY <1>1 DEF Id
  <2> QED  BY <1>2, <2>1, <2>2 DEF ListPage
<1>4. \A d \in calls : d.id # Id
  BY <1>1 DEF ClientInv, CallsInv, Id
<1>5. ListInv'
  BY <1>1, <1>2, <1>3, <1>4 DEF ListInv, Own, Id
<1>6. DeskInv'
  BY <1>1 DEF DeskInv, Lists
<1> QED  BY <1>1, <1>5, <1>6 DEF ClientInv

LEMMA OpenCustomerStep == ASSUME ClientInv, OpenCustomer PROVE ClientInv'
<1> DEFINE next == [page EXCEPT !.detailLoading = TRUE, !.error = FALSE, !.cleared = TRUE]
           c == Call(Id, "GET", "detail", Nothing, mount)
<1>1. OnPage("customers", next, "GET", "detail", Nothing)
  BY DEF OpenCustomer
<1>2. /\ calls' = calls \cup {c} /\ route = "customers"
      /\ page' = next /\ route' = route /\ mount' = mount
      /\ clicks' = clicks + 1 /\ clicks \in Nat
      /\ c.then = "detail" /\ c.mount = mount
      /\ CallsInv' /\ WireInv'
  BY <1>1, ClickedCalls
<1> HIDE DEF c
<1>3. /\ page \in ListPage /\ page.current <= clicks
      /\ \A d \in calls : Own(d) =>
            /\ d.then \in {"list", "detail"}
            /\ d.then = "list" /\ d.id = page.current => d.arg = page.filters
  BY <1>2 DEF ClientInv, ListInv, Lists
<1>4. /\ page' \in ListPage /\ page'.current = page.current /\ page'.filters = page.filters /\ page'.cleared
  BY <1>2, <1>3 DEF ListPage
<1>5. page'.current <= clicks'
  BY <1>2, <1>3, <1>4 DEF ListPage
<1>6. ListInv'
  BY <1>2, <1>3, <1>4, <1>5 DEF ListInv, Own
<1>7. DeskInv'
  BY <1>2 DEF DeskInv
<1> QED  BY <1>2, <1>6, <1>7 DEF ClientInv

LEMMA SubmitQueryStep == ASSUME ClientInv, NEW q \in Choice, SubmitQuery(q) PROVE ClientInv'
<1> DEFINE next == [page EXCEPT !.asked = q, !.loading = TRUE, !.error = FALSE, !.cleared = FALSE]
           c == Call(Id, "POST", "response", q, mount)
<1>1. OnPage("desk", next, "POST", "response", q) /\ ~page.loading
  BY DEF SubmitQuery
<1>2. /\ calls' = calls \cup {c} /\ route = "desk"
      /\ page' = next /\ route' = route /\ mount' = mount
      /\ c.then = "response" /\ c.arg = q /\ c.mount = mount
      /\ CallsInv' /\ WireInv'
  BY <1>1, ClickedCalls
<1> HIDE DEF c
<1>3. page \in DeskPage /\ \A d \in calls : ~Own(d)
  BY <1>1, <1>2 DEF ClientInv, DeskInv
<1>4. page' \in DeskPage /\ page'.asked = q /\ page'.loading
  BY <1>2, <1>3 DEF DeskPage
<1>5. DeskInv'
  BY <1>2, <1>3, <1>4 DEF DeskInv, Own
<1>6. ListInv'
  BY <1>2 DEF ListInv, Lists
<1> QED  BY <1>2, <1>5, <1>6 DEF ClientInv

\* What the command center waits for stays the same.
LEMMA DismissErrorStep == ASSUME ClientInv, DismissError PROVE ClientInv'
<1>1. /\ route = "desk" /\ route' = route /\ mount' = mount
      /\ clicks' = clicks /\ calls' = calls /\ wire' = wire /\ applied' = applied
      /\ page' = [[page EXCEPT !.error = FALSE] EXCEPT !.cleared = TRUE]
  BY DEF DismissError, callVars
<1>2. page \in DeskPage
  BY <1>1 DEF ClientInv, DeskInv
<1>3. /\ page' \in DeskPage /\ page'.cleared
      /\ page'.asked = page.asked /\ page'.loading = page.loading
  BY <1>1, <1>2 DEF DeskPage
<1>4. DeskInv'
  BY <1>1, <1>3 DEF ClientInv, DeskInv, Own
<1>5. CallsInv' /\ WireInv' /\ ListInv'
  BY <1>1 DEF ClientInv, CallsInv, WireInv, ListInv, Lists
<1> QED  BY <1>4, <1>5 DEF ClientInv

\* The other pages promise nothing here.
LEMMA OtherPageStep ==
    ASSUME ClientInv, NEW p \in {"queue", "investigations", "datasets"},
           NEW next, NEW method, NEW then, NEW arg, OnPage(p, next, method, then, arg)
    PROVE  ClientInv'
<1>1. route' = p /\ CallsInv' /\ WireInv'
  BY ClickedCalls
<1> QED  BY <1>1 DEF ClientInv, ListInv, DeskInv, Lists

-----------------------------------------------------------------------------
(* Pages. *)

\* A page as it is mounted, with the call of its effects.
LEMMA MountedPage ==
    ASSUME NEW p \in Route, NEW id \in Nat
    PROVE  /\ p \in Lists => /\ Fresh(p, id) \in ListPage /\ Fresh(p, id).current = id
                             /\ Fresh(p, id).loading /\ Fresh(p, id).filters = Default
                             /\ \A c \in FirstCall(p, id) : c.then = "list" /\ c.arg = Default
           /\ p = "desk" => /\ Fresh(p, id) \in DeskPage
                            /\ Fresh(p, id).response = Fresh(p, id).asked
                            /\ FirstCall(p, id) = {}
           /\ \A c \in FirstCall(p, id) : /\ IsCall(c) /\ SentOnce(c)
                                          /\ c.id = id /\ c.mount = id
                                          /\ Sent(c) = {}
<1> USE ChoiceAssumption
<1>1. CASE p \in Lists
  <2>1. Fresh(p, id) = NewList(id) /\ FirstCall(p, id) = {Call(id, "GET", "list", Default, id)}
    BY <1>1 DEF Fresh, FirstCall, Lists
  <2>2. /\ NewList(id) \in ListPage /\ NewList(id).current = id
        /\ NewList(id).loading /\ NewList(id).filters = Default
    BY DEF NewList, ListPage
  <2>3. \A c \in FirstCall(p, id) : /\ c.then = "list" /\ c.arg = Default
                                    /\ IsCall(c) /\ SentOnce(c) /\ c.id = id /\ c.mount = id
                                    /\ c.method = "GET"
    BY <2>1, NewCall
  <2>4. \A c \in FirstCall(p, id) : Sent(c) = {}
    BY <2>3 DEF Sent
  <2>5. p # "desk"
    BY <1>1 DEF Lists
  <2> QED  BY <2>1, <2>2, <2>3, <2>4, <2>5
<1>2. CASE p = "desk"
  <2>1. Fresh(p, id) = NewDesk /\ FirstCall(p, id) = {}
    BY <1>2 DEF Fresh, FirstCall, Lists
  <2>2. NewDesk \in DeskPage /\ NewDesk.response = NewDesk.asked
    BY DEF NewDesk, DeskPage
  <2>3. p \notin Lists
    BY <1>2 DEF Lists
  <2> QED  BY <2>1, <2>2, <2>3
<1>3. CASE p \notin Lists /\ p # "desk"
  <2>1. p \in {"investigations", "queue", "datasets"}
    BY <1>3 DEF Lists, Route
  <2>2. \E then, arg : FirstCall(p, id) = {Call(id, "GET", then, arg, id)}
    BY <2>1 DEF FirstCall, Lists
  <2> QED  BY <1>3, <2>2, NewCall DEF Sent, Call
<1> QED  BY <1>1, <1>2, <1>3

\* A page mounted with the number of a click has no calls but its own.
LEMMA Mounted ==
    ASSUME NEW p \in Route, NEW id \in Nat, NEW old,
           \A c \in old : IsCall(c) /\ SentOnce(c) /\ c.id \in Nat /\ c.mount \in Nat
                          /\ c.id < id /\ c.mount < id,
           route' = p, mount' = id, page' = Fresh(p, id), clicks' = id,
           calls' = old \cup FirstCall(p, id)
    PROVE  CallsInv' /\ ListInv' /\ DeskInv'
<1>1. \A c \in calls' : c.mount = id => c \in FirstCall(p, id)
  OBVIOUS
<1>2. CallsInv'
  BY MountedPage DEF CallsInv
<1>3. ListInv'
  BY <1>1, MountedPage DEF ListInv, Own
<1>4. DeskInv'
  BY <1>1, MountedPage DEF DeskInv, Own
<1> QED  BY <1>2, <1>3, <1>4

LEMMA NavigateStep == ASSUME ClientInv, NEW p \in Route, Navigate(p) PROVE ClientInv'
<1>1. /\ route' = p /\ mount' = Id /\ page' = Fresh(p, Id) /\ clicks' = Id
      /\ calls' = calls \cup FirstCall(p, Id)
      /\ wire' = wire \cup UNION {Sent(c) : c \in FirstCall(p, Id)} /\ applied' = applied
  BY DEF Navigate, Click, Id
<1>2. Id \in Nat /\ \A c \in calls : IsCall(c) /\ SentOnce(c) /\ c.id \in Nat /\ c.mount \in Nat
                                     /\ c.id < Id /\ c.mount < Id
  BY DEF ClientInv, CallsInv, Id
<1>3. UNION {Sent(c) : c \in FirstCall(p, Id)} = {}
  BY <1>2, MountedPage
<1>4. WireInv'
  BY <1>1, <1>3 DEF ClientInv, WireInv
<1> HIDE DEF Id
<1>5. CallsInv' /\ ListInv' /\ DeskInv'
  BY <1>1, <1>2, Mounted
<1> QED  BY <1>4, <1>5 DEF ClientInv

LEMMA ReloadStep == ASSUME ClientInv, Reload PROVE ClientInv'
<1>1. PICK p \in Route : /\ route' = p /\ mount' = 0 /\ page' = Fresh(p, 0) /\ clicks' = 0
                         /\ calls' = {} \cup FirstCall(p, 0) /\ wire' = {} /\ applied' = {}
  BY DEF Reload
<1>2. CallsInv' /\ ListInv' /\ DeskInv'
  BY <1>1, Mounted, 0 \in Nat
<1> QED  BY <1>1, <1>2 DEF ClientInv, WireInv

LEMMA InitStep == Init => ClientInv
<1> SUFFICES ASSUME Init PROVE ClientInv
  OBVIOUS
<1>1. PICK p \in Route : /\ route = p /\ mount = 0 /\ page = Fresh(p, 0) /\ clicks = 0
                         /\ calls = FirstCall(p, 0) /\ wire = {} /\ applied = {}
  BY DEF Init
<1>2. 0 \in Nat /\ 0 <= 0
  OBVIOUS
<1>3. CallsInv
  BY <1>1, <1>2, MountedPage DEF CallsInv
<1>4. ListInv
  BY <1>1, <1>2, MountedPage DEF ListInv, Own
<1>5. DeskInv
  BY <1>1, <1>2, MountedPage DEF DeskInv, Own
<1> QED  BY <1>1, <1>3, <1>4, <1>5 DEF ClientInv, WireInv

-----------------------------------------------------------------------------
(* Answers. *)

\* What follows from an answer is read from the server, and never the
\* answer of a list or of a query.
LEMMA FollowUpCalls ==
    ASSUME NEW c, NEW ok \in BOOLEAN
    PROVE  \A n \in FollowUp(c, ok) :
               /\ c.then \in {"acted", "uploaded", "records"}
               /\ IsCall(n) /\ SentOnce(n) /\ n.id = c.id /\ n.mount = c.mount
               /\ Sent(n) = {}
<1> SUFFICES ASSUME NEW n \in FollowUp(c, ok)
             PROVE  /\ c.then \in {"acted", "uploaded", "records"}
                    /\ IsCall(n) /\ SentOnce(n) /\ n.id = c.id /\ n.mount = c.mount
                    /\ Sent(n) = {}
  OBVIOUS
<1>1. /\ c.then \in {"acted", "uploaded", "records"}
      /\ \E then : n = Call(c.id, "GET", then, c.arg, c.mount)
  BY DEF FollowUp
<1>2. IsCall(n) /\ SentOnce(n) /\ n.id = c.id /\ n.mount = c.mount /\ n.method = "GET"
  BY <1>1, NewCall
<1> QED  BY <1>1, <1>2 DEF Sent

\* The page an answer leaves, on a list and on the command center.
LEMMA AnsweredList ==
    ASSUME page \in ListPage, NEW c, c.then \in {"list", "detail"}, NEW ok \in BOOLEAN,
           c.then = "list" /\ c.id = page.current => c.arg = page.filters,
           page.loading \/ page.error \/ page.cleared \/ page.shown = page.filters
    PROVE  LET next == Answered(c, ok)
           IN  /\ next \in ListPage /\ next.current = page.current /\ next.filters = page.filters
               /\ next.loading \/ next.error \/ next.cleared \/ next.shown = next.filters
<1>1. CASE c.then = "detail"
  <2>1. Answered(c, ok) = [[page EXCEPT !.detailLoading = FALSE] EXCEPT !.error = page.error \/ ~ok]
    BY <1>1 DEF Answered, Detail
  <2>2. (page.error \/ ~ok) \in BOOLEAN
    OBVIOUS
  <2> QED  BY <2>1, <2>2 DEF ListPage
<1>2. CASE c.then = "list"
  <2>1. Answered(c, ok) = List(c, ok)
    BY <1>2 DEF Answered
  <2>2. CASE c.id # page.current
    BY <2>1, <2>2 DEF List
  <2>3. CASE c.id = page.current /\ ok
    <3>1. List(c, ok) = [[page EXCEPT !.shown = c.arg] EXCEPT !.loading = FALSE]
      BY <2>3 DEF List
    <3>2. c.arg = page.filters
      BY <1>2, <2>3
    <3> QED  BY <2>1, <3>1, <3>2 DEF ListPage
  <2>4. CASE c.id = page.current /\ ~ok
    <3> DEFINE e == [page EXCEPT !.error = TRUE]
    <3>1. List(c, ok) = [e EXCEPT !.loading = FALSE]
      BY <2>4 DEF List
    <3>2. e \in ListPage /\ e.error /\ e.current = page.current /\ e.filters = page.filters
      BY DEF ListPage
    <3> HIDE DEF e
    <3>3. /\ [e EXCEPT !.loading = FALSE] \in ListPage
          /\ [e EXCEPT !.loading = FALSE].error = e.error
          /\ [e EXCEPT !.loading = FALSE].current = e.current
          /\ [e EXCEPT !.loading = FALSE].filters = e.filters
      BY <3>2 DEF ListPage
    <3> QED  BY <2>1, <3>1, <3>2, <3>3
  <2> QED  BY <2>2, <2>3, <2>4
<1> QED  BY <1>1, <1>2

LEMMA AnsweredDesk ==
    ASSUME page \in DeskPage, NEW c, c.then = "response", c.arg = page.asked, NEW ok \in BOOLEAN
    PROVE  LET next == Answered(c, ok)
           IN  /\ next \in DeskPage
               /\ next.loading \/ next.error \/ next.cleared \/ next.response = next.asked
<1>1. Answered(c, ok) = Response(c, ok)
  BY DEF Answered
<1>2. CASE ok
  <2>1. Response(c, ok) = [[[page EXCEPT !.response = page.asked] EXCEPT !.loading = FALSE] EXCEPT !.error = page.error]
    BY <1>2 DEF Response, DeskPage
  <2> QED  BY <1>1, <2>1 DEF DeskPage
<1>3. CASE ~ok
  <2>1. Response(c, ok) = [[[page EXCEPT !.response = page.response] EXCEPT !.loading = FALSE] EXCEPT !.error = TRUE]
    BY <1>3 DEF Response, DeskPage
  <2> QED  BY <1>1, <2>1 DEF DeskPage
<1> QED  BY <1>2, <1>3

LEMMA ReturnStep ==
    ASSUME ClientInv, NEW c \in calls, NEW ok \in BOOLEAN, Return(c, ok)
    PROVE  ClientInv'
<1> DEFINE new == FollowUp(c, ok)
<1>1. /\ page' = IF c.mount = mount THEN Answered(c, ok) ELSE page
      /\ calls' = (calls \ {c}) \cup new /\ clicks' = clicks
      /\ wire' = wire \cup UNION {Sent(n) : n \in new} /\ applied' = applied
      /\ route' = route /\ mount' = mount
  BY DEF Return, Settle
<1>2. \A n \in new : /\ c.then \in {"acted", "uploaded", "records"}
                     /\ IsCall(n) /\ SentOnce(n) /\ n.id = c.id /\ n.mount = c.mount
                     /\ Sent(n) = {}
  BY FollowUpCalls
<1> HIDE DEF new
<1>3. CallsInv'
  BY <1>1, <1>2 DEF ClientInv, CallsInv
<1>4. WireInv'
  <2>1. UNION {Sent(n) : n \in new} = {}
    BY <1>2
  <2> QED  BY <1>1, <2>1 DEF ClientInv, WireInv
<1>5. ListInv'
  <2> SUFFICES ASSUME route \in Lists PROVE ListInv'
    BY <1>1 DEF ListInv
  <2>1. /\ page \in ListPage /\ page.current <= clicks
        /\ \A d \in calls : Own(d) =>
              /\ d.then \in {"list", "detail"}
              /\ d.then = "list" /\ d.id = page.current => d.arg = page.filters
        /\ page.loading \/ page.error \/ page.cleared \/ page.shown = page.filters
    BY DEF ClientInv, ListInv
  <2>2. \A d \in calls' : Own(d) => d \in calls
    BY <1>1, <1>2, <2>1 DEF Own
  <2>3. /\ page' \in ListPage /\ page'.current = page.current /\ page'.filters = page.filters
        /\ page'.loading \/ page'.error \/ page'.cleared \/ page'.shown = page'.filters
    <3>1. CASE c.mount # mount
      BY <1>1, <2>1, <3>1
    <3>2. CASE c.mount = mount
      BY <1>1, <2>1, <3>2, AnsweredList DEF Own
    <3> QED  BY <3>1, <3>2
  <2> QED  BY <1>1, <2>1, <2>2, <2>3 DEF ListInv, Own
<1>6. DeskInv'
  <2> SUFFICES ASSUME route = "desk" PROVE DeskInv'
    BY <1>1 DEF DeskInv
  <2>1. /\ page \in DeskPage
        /\ \A d \in calls : Own(d) => d.then = "response" /\ page.loading /\ d.arg = page.asked
        /\ \A d, e \in calls : Own(d) /\ Own(e) => d = e
        /\ page.loading \/ page.error \/ page.cleared \/ page.response = page.asked
    BY DEF ClientInv, DeskInv
  <2>2. CASE c.mount # mount
    BY <1>1, <1>2, <2>1, <2>2 DEF DeskInv, Own
  <2>3. CASE c.mount = mount
    <3>1. \A d \in calls' : ~(d.mount = mount)
      BY <1>1, <1>2, <2>1, <2>3 DEF Own
    <3>2. page' \in DeskPage /\ (page'.loading \/ page'.error \/ page'.cleared \/ page'.response = page'.asked)
      BY <1>1, <2>1, <2>3, AnsweredDesk DEF Own
    <3> QED  BY <1>1, <3>1, <3>2 DEF DeskInv, Own
  <2> QED  BY <2>2, <2>3
<1> QED  BY <1>3, <1>4, <1>5, <1>6 DEF ClientInv

-----------------------------------------------------------------------------
(* The specification. *)

LEMMA AnalystStep == ASSUME ClientInv, Analyst PROVE ClientInv'
<1>1. CASE \E p \in Route : Navigate(p)
  BY <1>1, NavigateStep
<1>2. CASE \E f \in Choice : FilterTransactions(f) \/ FilterCustomers(f)
  BY <1>2, FilterStep DEF FilterTransactions, FilterCustomers, Lists
<1>3. CASE \E x \in Choice : SubmitQuery(x)
  BY <1>3, SubmitQueryStep
<1>4. CASE \E x \in Choice : SelectTab(x)
  BY <1>4, OtherPageStep DEF SelectTab
<1>5. CASE \E x \in Choice : ActOnDataset(x)
  BY <1>5, OtherPageStep DEF ActOnDataset
<1>6. CASE OpenCustomer
  BY <1>6, OpenCustomerStep
<1>7. CASE RefreshInvestigations
  BY <1>7, OtherPageStep DEF RefreshInvestigations
<1>8. CASE SelectRecord
  BY <1>8, OtherPageStep DEF SelectRecord
<1>9. CASE Mutate
  BY <1>9, OtherPageStep DEF Mutate
<1>10. CASE Refresh
  BY <1>10, OtherPageStep DEF Refresh
<1>11. CASE UseModal
  <2>1. /\ route = "datasets" /\ route' = route /\ mount' = mount
        /\ clicks' = clicks /\ calls' = calls /\ wire' = wire /\ applied' = applied
    BY <1>11 DEF UseModal, callVars
  <2> QED  BY <2>1 DEF ClientInv, CallsInv, WireInv, ListInv, DeskInv, Lists
<1>12. CASE ChooseFile
  BY <1>12, OtherPageStep DEF ChooseFile
<1>13. CASE Submit
  BY <1>13, OtherPageStep DEF Submit
<1>14. CASE DismissError
  BY <1>14, DismissErrorStep
<1>15. CASE Reload
  BY <1>15, ReloadStep
<1> QED  BY <1>1, <1>2, <1>3, <1>4, <1>5, <1>6, <1>7, <1>8, <1>9, <1>10, <1>11,
            <1>12, <1>13, <1>14, <1>15 DEF Analyst

LEMMA NextStep == ClientInv /\ [Next]_vars => ClientInv'
<1> SUFFICES ASSUME ClientInv, [Next]_vars PROVE ClientInv'
  OBVIOUS
<1>1. CASE Analyst
  BY <1>1, AnalystStep
<1>2. CASE Network
  BY <1>2, HandleStep, RespondStep DEF Network
<1>3. CASE \E c \in calls : PauseEnds(c) /\ PageUntouched
  BY <1>3, PauseStep
<1>4. CASE \E c \in calls : Resolve(c)
  BY <1>4, ReturnStep DEF Resolve
<1>5. CASE \E c \in calls : \E f \in Failure \union {"body"} : Fails(c, f)
  BY <1>5, RetryStep, ReturnStep DEF Fails, Reject
<1>6. CASE UNCHANGED vars
  <2>1. /\ route' = route /\ mount' = mount /\ page' = page
        /\ clicks' = clicks /\ calls' = calls /\ wire' = wire /\ applied' = applied
    BY <1>6 DEF vars, callVars
  <2> QED  BY <2>1 DEF ClientInv, CallsInv, WireInv, ListInv, DeskInv, Own
<1> QED  BY <1>1, <1>2, <1>3, <1>4, <1>5, <1>6 DEF Next

(* Every reachable state of the client satisfies ClientInv: a call that may *)
(* change the server is on its only attempt, the run of a list's effect     *)
(* that is current asks for the filters shown, and the command center waits *)
(* for at most one answer, to the query asked last (api.ts:103-139,         *)
(* Transactions.tsx:34, CommandCenter.tsx:672).                             *)
THEOREM ClientInvariant == Spec => []ClientInv
<1>1. Init => ClientInv
  BY InitStep
<1>2. ClientInv /\ [Next]_vars => ClientInv'
  BY NextStep
<1> QED  BY <1>1, <1>2, PTL DEF Spec

(* A click changes the server at most once, however many attempts a GET     *)
(* has, however late or often the network delivers, and whatever the        *)
(* analyst does meanwhile (api.ts:103-139).                                 *)
THEOREM ClickAppliedTheorem == Spec => []ClickAppliedAtMostOnce
<1>1. ClientInv => ClickAppliedAtMostOnce
  BY DEF ClientInv, WireInv, ClickAppliedAtMostOnce
<1> QED  BY <1>1, ClientInvariant, PTL

(* What Transactions, Customers and the command center show is the answer   *)
(* to what they were asked last, unless they are loading, show an error, or *)
(* the analyst wiped the error out (CommandCenter.tsx:763 dismisses it,     *)
(* Customers.tsx:65 clears it), whatever answers to earlier questions come  *)
(* late (Transactions.tsx:34, Customers.tsx:34, CommandCenter.tsx:672).     *)
THEOREM ShowsItsAnswerTheorem == Spec => []ShowsItsAnswer
<1>1. ClientInv => ShowsItsAnswer
  BY DEF ClientInv, ListInv, DeskInv, ShowsItsAnswer
<1> QED  BY <1>1, ClientInvariant, PTL
=============================================================================
