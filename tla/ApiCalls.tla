------------------------------ MODULE ApiCalls ------------------------------
(***************************************************************************)
(* request() of the React client's api.ts, through which every page reaches *)
(* the server: a timer of thirty seconds for each attempt, three attempts   *)
(* for a GET with a pause between them, one for anything else.              *)
(*                                                                          *)
(* The network and the server are nondeterministic.  What is sent may reach *)
(* the server, after the client gave up on it too, or never; the timer may  *)
(* run out at any time.  For a GET, which changes nothing at the server,    *)
(* the request and its answer are one step.                                 *)
(***************************************************************************)
EXTENDS Naturals, FiniteSets

CONSTANTS
    GetAttempts,    \* attempts of a GET: 3 in the code
    MaxClicks,      \* bound: what the analyst does in one visit
    MaxPending      \* bound: calls that have not settled

VARIABLES
    clicks,     \* clicks so far: a call bears the number of its click
    calls,      \* the calls of request() that have not settled
    wire,       \* what was sent and may change the server: [id, attempt]
    applied     \* what the server has done, in the same form
callVars == <<clicks, calls, wire, applied>>

Method == {"GET", "POST"}      \* DELETE behaves like POST

(* What can go wrong with an attempt: a status the client retries, another  *)
(* status, no response (the timer runs out, or there is no connection).     *)
Failure == {"busy", "refused", "silence"}

\* Mutant: the loop makes its attempts whatever the method.
AttemptsOfAny(method) == GetAttempts
Attempts(method) == IF method = "GET" THEN GetAttempts ELSE 1

Retryable(method, f) == f = "busy" \/ (f # "refused" /\ method = "GET")

Retries(c, f) == Retryable(c.method, f) /\ c.attempt < Attempts(c.method)

Sent(c) == IF c.method = "GET" THEN {} ELSE {[id |-> c.id, attempt |-> c.attempt]}

Call(id, method, then, arg, mount) ==
    [id |-> id, method |-> method, then |-> then, arg |-> arg, mount |-> mount,
     attempt |-> 1, phase |-> "fetching"]

(* A click, with the call it makes. *)
Click(new) ==
    /\ clicks' = clicks + 1
    /\ calls' = calls \union new
    /\ wire' = wire \union UNION {Sent(c) : c \in new}
    /\ UNCHANGED applied

Handle ==
    /\ \E w \in wire : wire' = wire \ {w} /\ applied' = applied \union {w}
    /\ UNCHANGED <<clicks, calls>>

(* The head of a good response is there: the timer is cleared, for `return  *)
(* response.json()` leaves the try block, and the loop with its attempts,   *)
(* before the body is read.                                                 *)
Respond(c) ==
    /\ c.phase = "fetching"
    /\ Sent(c) \subseteq applied
    /\ calls' = (calls \ {c}) \union {[c EXCEPT !.phase = "reading", !.attempt = 0]}
    /\ UNCHANGED <<clicks, wire, applied>>

Retry(c, f) ==
    /\ c.phase = "fetching"
    /\ Retries(c, f)
    /\ calls' = (calls \ {c}) \union {[c EXCEPT !.phase = "pause"]}
    /\ UNCHANGED <<clicks, wire, applied>>

\* Mutant: the loop does not count.
UncountedAttempt(c) == [c EXCEPT !.phase = "fetching"]
NextAttempt(c) == [c EXCEPT !.phase = "fetching", !.attempt = @ + 1]

PauseEnds(c) ==
    /\ c.phase = "pause"
    /\ calls' = (calls \ {c}) \union {NextAttempt(c)}
    /\ wire' = wire \union Sent(NextAttempt(c))
    /\ UNCHANGED <<clicks, applied>>

(* request() throws, or the body could not be read: no retry for that. *)
Throws(c, f) == IF f = "body" THEN c.phase = "reading" ELSE c.phase = "fetching" /\ ~Retries(c, f)

(* The promise settles; `then` are the calls the page makes in answer. *)
Settle(c, then) ==
    /\ calls' = (calls \ {c}) \union then
    /\ wire' = wire \union UNION {Sent(n) : n \in then}
    /\ UNCHANGED <<clicks, applied>>
=============================================================================
