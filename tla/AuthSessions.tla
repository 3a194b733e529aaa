---------------------------- MODULE AuthSessions ----------------------------
(***************************************************************************)
(* AuthenticationService (src/api/services/auth_service.py) behind         *)
(* src/api/routes/auth.py and src/api/security/dependencies.py: requests   *)
(* of the thread pool sign in, are resolved to a session, and sign out.    *)
(* Each reads the clock before it takes the lock, and a password is        *)
(* verified between two holds of the lock.                                 *)
(***************************************************************************)
EXTENDS ApiRequests, Naturals, Sequences, FiniteSets

CONSTANTS
    Key,            \* attempt keys: an email and the address it comes from
    UserOf,         \* whose email that is
    Token,          \* session tokens: no two sign-ins are given the same
    SessionTtl, IdleTtl, Window, LockoutTtl,    \* session_ttl ... lockout_ttl
    MaxFailures,    \* max_failures
    MaxSessions,    \* max_sessions
    MaxClock        \* bound: when the clock stops

ASSUME AuthAssumption ==
    /\ IsFiniteSet(Request) /\ IsFiniteSet(Token) /\ User # {}
    /\ UserOf \in [Key -> User]
    /\ SessionTtl \in Nat /\ IdleTtl \in Nat /\ Window \in Nat
    /\ LockoutTtl \in Nat \ {0}
    /\ MaxFailures \in Nat \ {0} /\ MaxSessions \in Nat \ {0}
    /\ MaxClock \in Nat

VARIABLES
    clock,          \* what _now() returns
    live,           \* the keys of _sessions
    session,        \* their records; of an ended session, the last one
    failures,       \* _failures
    lockedUntil,    \* _locked_until; NotLocked where there is no entry
    call,           \* what each request does
    issued          \* tokens handed out

authVars == <<clock, live, session, failures, lockedUntil, call, issued>>

-----------------------------------------------------------------------------

NotLocked == 0

Record == [user: User, last_seen: Nat, expires: Nat]

\* Of a token that nobody has been given.
NoRecord == [user |-> CHOOSE u \in User : TRUE, last_seen |-> 0, expires |-> 0]

\* pc: arrived = authenticate before its first lock, verifying = between its locks,
\* resolving = resolve_session before its lock, admitted = it returned a session.
\* at: the time that was read before the lock.
Idling == [pc |-> "idle"]
Login == [pc: {"arrived", "verifying"}, key: Key, at: Nat]
Lookup == [pc: {"resolving"}, token: Token, at: Nat]
Admission == [pc: {"admitted"}, user: User]

AuthInit ==
    /\ clock = 0
    /\ live = {}
    /\ session = [t \in Token |-> NoRecord]
    /\ failures = [k \in Key |-> <<>>]
    /\ lockedUntil = [k \in Key |-> NotLocked]
    /\ call = [r \in Request |-> Idling]
    /\ issued = {}

CallBecomes(r, c) == call' = [call EXCEPT ![r] = c]

Tick ==
    /\ clock < MaxClock
    /\ clock' = clock + 1
    /\ UNCHANGED <<live, session, failures, lockedUntil, call, issued>>

\* authenticate reads the clock.
BeginLogin(r, k) ==
    /\ call[r].pc = "idle"
    /\ CallBecomes(r, [pc |-> "arrived", key |-> k, at |-> clock])
    /\ UNCHANGED <<clock, live, session, failures, lockedUntil, issued>>

\* Mutant: a lock that has run out is forgotten, the failures that led to it are not.
ForgetLockOnly(r) ==
    LET k == call[r].key
    IN  /\ call[r].pc = "arrived"
        /\ lockedUntil[k] <= call[r].at
        /\ CallBecomes(r, [pc |-> "verifying", key |-> k, at |-> call[r].at])
        /\ lockedUntil' = [lockedUntil EXCEPT ![k] = NotLocked]
        /\ UNCHANGED <<clock, live, session, failures, issued>>

\* _check_rate_limit passes: there is no lock on the key, or it has run out, and then it
\* and the failures that led to it are forgotten.
PassRateLimit(r) ==
    LET k == call[r].key
    IN  /\ call[r].pc = "arrived"
        /\ lockedUntil[k] <= call[r].at
        /\ CallBecomes(r, [pc |-> "verifying", key |-> k, at |-> call[r].at])
        /\ lockedUntil' = [lockedUntil EXCEPT ![k] = NotLocked]
        /\ failures' = [failures EXCEPT ![k] = IF lockedUntil[k] = NotLocked THEN @ ELSE <<>>]
        /\ UNCHANGED <<clock, live, session, issued>>

\* It raises: TooManyAttempts, 429.
RefuseLocked(r) ==
    /\ call[r].pc = "arrived"
    /\ call[r].at < lockedUntil[call[r].key]
    /\ CallBecomes(r, Idling)
    /\ UNCHANGED <<clock, live, session, failures, lockedUntil, issued>>

\* How many failures are dropped from the front of the deque at time at: those out of
\* the window, up to the first that is not.
Dropped(times, at) ==
    {n \in 0..Len(times) : /\ \A i \in 1..n : times[i] + Window <= at
                           /\ n = Len(times) \/ times[n + 1] + Window > at}

\* The password is wrong, or the identity unknown or disabled: _record_failure locks the
\* key for its LockoutTtl from the time the request came, once there are enough.
RecordFailure(r) ==
    /\ call[r].pc = "verifying"
    /\ LET k == call[r].key
            at == call[r].at
        IN  \E n \in Dropped(failures[k], at) :
              LET attempts == Append(SubSeq(failures[k], n + 1, Len(failures[k])), at)
              IN  /\ failures' = [failures EXCEPT ![k] = attempts]
                  /\ lockedUntil' = [lockedUntil EXCEPT
                        ![k] = IF Len(attempts) >= MaxFailures THEN at + LockoutTtl ELSE @]
    /\ CallBecomes(r, Idling)
    /\ UNCHANGED <<clock, live, session, issued>>

Expired(t, at) == session[t].expires <= at \/ session[t].last_seen + IdleTtl <= at

Longest(tokens) ==
    {t \in tokens : \A o \in tokens : session[t].last_seen <= session[o].last_seen}

\* _sweep_sessions: without the expired ones; if there is still no room, without one
\* that was not seen for longest.
Swept(at) ==
    LET kept == {t \in live : ~Expired(t, at)}
    IN  IF Cardinality(kept) < MaxSessions THEN {kept}
        ELSE {kept \ {t} : t \in Longest(kept)}

\* The password is right: the second hold of the lock.
StoreSession(r, t) ==
    LET k == call[r].key
        at == call[r].at
    IN  /\ call[r].pc = "verifying"
        /\ t \notin issued
        /\ \E kept \in Swept(at) : live' = kept \union {t}
        /\ session' = [session EXCEPT ![t] = [user |-> UserOf[k], last_seen |-> at,
                                              expires |-> at + SessionTtl]]
        /\ failures' = [failures EXCEPT ![k] = <<>>]
        /\ lockedUntil' = [lockedUntil EXCEPT ![k] = NotLocked]
        /\ issued' = issued \union {t}
        /\ CallBecomes(r, Idling)
        /\ UNCHANGED clock

\* resolve_session reads the clock; the cookie holds a token that was once issued.
BeginResolve(r, t) ==
    /\ call[r].pc = "idle"
    /\ t \in issued
    /\ CallBecomes(r, [pc |-> "resolving", token |-> t, at |-> clock])
    /\ UNCHANGED <<clock, live, session, failures, lockedUntil, issued>>

\* Mutant: the record was looked up before the lock, and is stored back under it.
ResolveStoringBack(r) ==
    LET t == call[r].token
    IN  /\ call[r].pc = "resolving"
        /\ live' = live \union {t}
        /\ session' = [session EXCEPT ![t].last_seen = call[r].at]
        /\ CallBecomes(r, [pc |-> "admitted", user |-> session[t].user])
        /\ UNCHANGED <<clock, failures, lockedUntil, issued>>

\* The session is alive, by the time the request read.
Resolve(r) ==
    LET t == call[r].token
    IN  /\ call[r].pc = "resolving"
        /\ t \in live /\ ~Expired(t, call[r].at)
        /\ session' = [session EXCEPT ![t].last_seen = call[r].at]
        /\ CallBecomes(r, [pc |-> "admitted", user |-> session[t].user])
        /\ UNCHANGED <<clock, live, failures, lockedUntil, issued>>

\* It is unknown, or has expired and is removed: 401.
ResolveNone(r) ==
    LET t == call[r].token
    IN  /\ call[r].pc = "resolving"
        /\ t \notin live \/ Expired(t, call[r].at)
        /\ live' = live \ {t}
        /\ CallBecomes(r, Idling)
        /\ UNCHANGED <<clock, session, failures, lockedUntil, issued>>

\* revoke_session.
Revoke(r, t) ==
    /\ call[r].pc = "idle"
    /\ t \in live
    /\ live' = live \ {t}
    /\ UNCHANGED <<clock, session, failures, lockedUntil, call, issued>>

\* The handler goes on with the session it was given.
Leave(r) ==
    /\ call[r].pc = "admitted"
    /\ CallBecomes(r, Idling)
    /\ UNCHANGED <<clock, live, session, failures, lockedUntil, issued>>

\* The process ends: the service keeps everything in memory.
AuthRestart ==
    /\ live' = {}
    /\ failures' = [k \in Key |-> <<>>]
    /\ lockedUntil' = [k \in Key |-> NotLocked]
    /\ call' = [r \in Request |-> Idling]
    /\ UNCHANGED <<clock, session, issued>>

\* What a request does once it has begun.
ProceedAuth(r) ==
    \/ PassRateLimit(r) \/ RefuseLocked(r) \/ RecordFailure(r)
    \/ \E t \in Token : StoreSession(r, t)
    \/ Resolve(r) \/ ResolveNone(r)

BeginAuth(r) ==
    \/ \E k \in Key : BeginLogin(r, k)
    \/ \E t \in Token : BeginResolve(r, t) \/ Revoke(r, t)

AuthNext ==
    \/ Tick
    \/ \E r \in Request : BeginAuth(r) \/ ProceedAuth(r) \/ Leave(r)
    \/ AuthRestart

AuthSpec == AuthInit /\ [][AuthNext]_authVars

-----------------------------------------------------------------------------
(* Properties. *)

AuthTypeOK ==
    /\ clock \in Nat
    /\ issued \subseteq Token /\ live \subseteq issued
    /\ session \in [Token -> Record]
    /\ failures \in [Key -> Seq(Nat)]
    /\ lockedUntil \in [Key -> Nat]
    /\ call \in [Request -> {Idling} \union Login \union Lookup \union Admission]

Verifying(k) == {r \in Request : call[r].pc = "verifying" /\ call[r].key = k}

\* However requests interleave between the two holds of the lock, no more guesses at a
\* password are recorded or under way than the limit and those that had passed it
\* (_check_rate_limit, _record_failure).
GuessesBounded ==
    \A k \in Key :
        Len(failures[k]) + Cardinality(Verifying(k)) < MaxFailures + Cardinality(Request)

\* There are at most max_sessions of them (_sweep_sessions makes room for one).
SessionsBounded == Cardinality(live) <= MaxSessions

\* A session that was revoked, expired, evicted or lost in a restart is over for good,
\* also for a request that was resolving it just then (resolve_session).
EndedStaysEnded == [][live' \cap issued \subseteq live]_authVars

-----------------------------------------------------------------------------
(* What every step preserves. *)

\* A key with that many failures is locked, so nobody else gets to guess.
FailuresLock == \A k \in Key : Len(failures[k]) >= MaxFailures => lockedUntil[k] # NotLocked

AuthInv ==
    /\ AuthTypeOK
    /\ FailuresLock
    /\ GuessesBounded
    /\ SessionsBounded
=============================================================================
