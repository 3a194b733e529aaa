------------------------- MODULE GovernedApiProofs -------------------------
(***************************************************************************)
(* Proofs about GovernedApi. First about its services by themselves:       *)
(* AuthSessions (guesses at a password and sessions are bounded, and an    *)
(* ended session stays ended) and GovernedWorkflow (the queue's            *)
(* transactions are serial, notes are never lost and no page of events is  *)
(* short). Then about QueryService and the composition: what is proved of  *)
(* the services holds when they work together, and only reviewers who      *)
(* signed in change the queue.                                             *)
(***************************************************************************)
EXTENDS GovernedApi, SequenceTheorems, FiniteSetTheorems, TLAPS

-----------------------------------------------------------------------------
(* AuthSessions                                                            *)

-----------------------------------------------------------------------------
(* Types. *)

\* What a request that signs in, or is being resolved, carries.
LEMMA CallFields ==
    ASSUME AuthTypeOK, NEW r \in Request
    PROVE  /\ call[r].pc \in {"arrived", "verifying"} => call[r].key \in Key /\ call[r].at \in Nat
           /\ call[r].pc = "resolving" => call[r].token \in Token /\ call[r].at \in Nat
           /\ call[r].pc = "admitted" => call[r].user \in User
<1>1. call[r] \in {Idling} \union Login \union Lookup \union Admission
  BY DEF AuthTypeOK
<1>2. CASE call[r] = Idling
  BY <1>2 DEF Idling
<1>3. CASE call[r] \in Login
  BY <1>3 DEF Login
<1>4. CASE call[r] \in Lookup
  BY <1>4 DEF Lookup
<1>5. CASE call[r] \in Admission
  BY <1>5 DEF Admission
<1> QED  BY <1>1, <1>2, <1>3, <1>4, <1>5

\* Every kind of call is in the type.
LEMMA CallBecomesType ==
    ASSUME AuthTypeOK, NEW r \in Request,
           NEW c \in {Idling} \union Login \union Lookup \union Admission,
           CallBecomes(r, c)
    PROVE  call' \in [Request -> {Idling} \union Login \union Lookup \union Admission]
BY DEF AuthTypeOK, CallBecomes

LEMMA InitTypes == AuthAssumption /\ AuthInit => AuthTypeOK
<1> SUFFICES ASSUME AuthAssumption, AuthInit PROVE AuthTypeOK
  OBVIOUS
<1>1. NoRecord \in Record
  BY DEF AuthAssumption, NoRecord, Record
<1> QED  BY <1>1 DEF AuthInit, AuthTypeOK, NotLocked

LEMMA LoginTypes ==
    ASSUME AuthTypeOK, NEW r \in Request, NEW k \in Key, BeginLogin(r, k)
    PROVE  AuthTypeOK'
<1>1. [pc |-> "arrived", key |-> k, at |-> clock] \in Login
  BY DEF AuthTypeOK, Login
<1>2. call' \in [Request -> {Idling} \union Login \union Lookup \union Admission]
  BY <1>1, CallBecomesType DEF BeginLogin
<1> QED  BY <1>2 DEF AuthTypeOK, BeginLogin

LEMMA PassTypes ==
    ASSUME AuthTypeOK, NEW r \in Request, PassRateLimit(r)
    PROVE  AuthTypeOK'
<1>1. call[r].key \in Key /\ call[r].at \in Nat
  BY CallFields DEF PassRateLimit
<1>2. [pc |-> "verifying", key |-> call[r].key, at |-> call[r].at] \in Login
  BY <1>1 DEF Login
<1>3. call' \in [Request -> {Idling} \union Login \union Lookup \union Admission]
  BY <1>2, CallBecomesType DEF PassRateLimit
<1>4. failures' \in [Key -> Seq(Nat)] /\ lockedUntil' \in [Key -> Nat]
  BY <1>1 DEF AuthTypeOK, PassRateLimit, NotLocked
<1> QED  BY <1>3, <1>4 DEF AuthTypeOK, PassRateLimit

\* The deque after a failure: no longer than before and the new one.
LEMMA AttemptsType ==
    ASSUME NEW times \in Seq(Nat), NEW at \in Nat, NEW n \in Dropped(times, at)
    PROVE  LET attempts == Append(SubSeq(times, n + 1, Len(times)), at)
           IN  attempts \in Seq(Nat) /\ Len(attempts) <= Len(times) + 1
<1>1. n \in 0..Len(times) /\ Len(times) \in Nat
  BY DEF Dropped
<1>2. SubSeq(times, n + 1, Len(times)) \in Seq(Nat)
  BY <1>1
<1>3. Len(SubSeq(times, n + 1, Len(times))) <= Len(times)
  BY <1>1
<1> QED  BY <1>2, <1>3

LEMMA FailureTypes ==
    ASSUME AuthAssumption, AuthTypeOK, NEW r \in Request, RecordFailure(r)
    PROVE  AuthTypeOK'
<1>1. call[r].key \in Key /\ call[r].at \in Nat
  BY CallFields DEF RecordFailure
<1>2. call' \in [Request -> {Idling} \union Login \union Lookup \union Admission]
  BY CallBecomesType DEF RecordFailure
<1>3. PICK n \in Dropped(failures[call[r].key], call[r].at) :
        LET k == call[r].key
            attempts == Append(SubSeq(failures[k], n + 1, Len(failures[k])), call[r].at)
        IN  /\ failures' = [failures EXCEPT ![k] = attempts]
            /\ lockedUntil' = [lockedUntil EXCEPT
                  ![k] = IF Len(attempts) >= MaxFailures THEN call[r].at + LockoutTtl ELSE @]
  BY DEF RecordFailure
<1>4. failures[call[r].key] \in Seq(Nat)
  BY <1>1 DEF AuthTypeOK
<1>5. failures' \in [Key -> Seq(Nat)]
  BY <1>1, <1>3, <1>4, AttemptsType DEF AuthTypeOK
<1>6. lockedUntil' \in [Key -> Nat]
  BY <1>1, <1>3 DEF AuthTypeOK, AuthAssumption
<1> QED  BY <1>2, <1>5, <1>6 DEF AuthTypeOK, RecordFailure

LEMMA StoreTypes ==
    ASSUME AuthAssumption, AuthTypeOK, NEW r \in Request, NEW t \in Token, StoreSession(r, t)
    PROVE  AuthTypeOK'
<1>1. call[r].key \in Key /\ call[r].at \in Nat
  BY CallFields DEF StoreSession
<1>2. call' \in [Request -> {Idling} \union Login \union Lookup \union Admission]
  BY CallBecomesType DEF StoreSession
<1>3. [user |-> UserOf[call[r].key], last_seen |-> call[r].at,
       expires |-> call[r].at + SessionTtl] \in Record
  BY <1>1 DEF AuthAssumption, Record
<1>4. session' \in [Token -> Record]
  BY <1>3 DEF AuthTypeOK, StoreSession
<1>5. live' \subseteq issued' /\ issued' \subseteq Token
  BY DEF AuthTypeOK, StoreSession, Swept
<1>6. failures' \in [Key -> Seq(Nat)] /\ lockedUntil' \in [Key -> Nat] /\ clock' \in Nat
  BY <1>1 DEF AuthTypeOK, StoreSession, NotLocked
<1> QED  BY <1>2, <1>4, <1>5, <1>6 DEF AuthTypeOK

LEMMA ResolveTypes ==
    ASSUME AuthTypeOK, NEW r \in Request
    PROVE  /\ \A t \in Token : BeginResolve(r, t) => AuthTypeOK'
           /\ Resolve(r) => AuthTypeOK'
           /\ ResolveNone(r) => AuthTypeOK'
<1>1. ASSUME NEW t \in Token, BeginResolve(r, t) PROVE AuthTypeOK'
  <2>1. [pc |-> "resolving", token |-> t, at |-> clock] \in Lookup
    BY DEF AuthTypeOK, Lookup
  <2>2. call' \in [Request -> {Idling} \union Login \union Lookup \union Admission]
    BY <1>1, <2>1, CallBecomesType DEF BeginResolve
  <2> QED  BY <1>1, <2>2 DEF AuthTypeOK, BeginResolve
<1>2. ASSUME Resolve(r) PROVE AuthTypeOK'
  <2>1. call[r].token \in Token /\ call[r].at \in Nat
    BY <1>2, CallFields DEF Resolve
  <2>2. session[call[r].token] \in Record
    BY <2>1 DEF AuthTypeOK
  <2>3. [pc |-> "admitted", user |-> session[call[r].token].user] \in Admission
    BY <2>2 DEF Record, Admission
  <2>4. call' \in [Request -> {Idling} \union Login \union Lookup \union Admission]
    BY <1>2, <2>3, CallBecomesType DEF Resolve
  <2>5. session' \in [Token -> Record]
    BY <1>2, <2>1, <2>2 DEF AuthTypeOK, Resolve, Record
  <2> QED  BY <1>2, <2>4, <2>5 DEF AuthTypeOK, Resolve
<1>3. ASSUME ResolveNone(r) PROVE AuthTypeOK'
  <2>1. call' \in [Request -> {Idling} \union Login \union Lookup \union Admission]
    BY <1>3, CallBecomesType DEF ResolveNone
  <2> QED  BY <1>3, <2>1 DEF AuthTypeOK, ResolveNone
<1> QED  BY <1>1, <1>2, <1>3

LEMMA OtherTypes ==
    ASSUME AuthTypeOK
    PROVE  /\ Tick => AuthTypeOK'
           /\ \A r \in Request : RefuseLocked(r) => AuthTypeOK'
           /\ \A r \in Request : Leave(r) => AuthTypeOK'
           /\ \A r \in Request, t \in Token : Revoke(r, t) => AuthTypeOK'
           /\ AuthRestart => AuthTypeOK'
           /\ UNCHANGED authVars => AuthTypeOK'
<1>1. ASSUME Tick PROVE AuthTypeOK'
  BY <1>1 DEF AuthTypeOK, Tick
<1>2. ASSUME NEW r \in Request, RefuseLocked(r) \/ Leave(r) PROVE AuthTypeOK'
  <2>1. call' \in [Request -> {Idling} \union Login \union Lookup \union Admission]
    BY <1>2, CallBecomesType DEF RefuseLocked, Leave
  <2> QED  BY <1>2, <2>1 DEF AuthTypeOK, RefuseLocked, Leave
<1>3. ASSUME NEW r \in Request, NEW t \in Token, Revoke(r, t) PROVE AuthTypeOK'
  BY <1>3 DEF AuthTypeOK, Revoke
<1>4. ASSUME AuthRestart PROVE AuthTypeOK'
  BY <1>4 DEF AuthTypeOK, AuthRestart, NotLocked
<1>5. ASSUME UNCHANGED authVars PROVE AuthTypeOK'
  BY <1>5 DEF AuthTypeOK, authVars
<1> QED  BY <1>1, <1>2, <1>3, <1>4, <1>5

LEMMA AuthTypesStep ==
    ASSUME AuthAssumption, AuthTypeOK, [AuthNext]_authVars
    PROVE  AuthTypeOK'
<1>1. CASE Tick \/ AuthRestart \/ UNCHANGED authVars
  BY <1>1, OtherTypes
<1>2. ASSUME NEW r \in Request, BeginAuth(r) PROVE AuthTypeOK'
  BY <1>2, LoginTypes, ResolveTypes, OtherTypes DEF BeginAuth
<1>3. ASSUME NEW r \in Request, ProceedAuth(r) PROVE AuthTypeOK'
  BY <1>3, PassTypes, OtherTypes, FailureTypes, StoreTypes, ResolveTypes DEF ProceedAuth
<1>4. ASSUME NEW r \in Request, Leave(r) PROVE AuthTypeOK'
  BY <1>4, OtherTypes
<1> QED  BY <1>1, <1>2, <1>3, <1>4 DEF AuthNext

-----------------------------------------------------------------------------
(* Guesses. *)

\* Requests that verify a password for k are requests.
LEMMA VerifyingBounded ==
    ASSUME AuthAssumption, NEW V \in SUBSET Request
    PROVE  /\ IsFiniteSet(V)
           /\ Cardinality(V) \in Nat /\ Cardinality(Request) \in Nat
           /\ Cardinality(V) <= Cardinality(Request)
BY FS_Subset, FS_CardinalityType DEF AuthAssumption

\* A step that adds neither failures nor requests that verify keeps the bound.
LEMMA NoNewGuess ==
    ASSUME AuthAssumption, AuthTypeOK, AuthTypeOK', NEW k \in Key,
           Len(failures[k]) + Cardinality(Verifying(k)) < MaxFailures + Cardinality(Request),
           Len(failures'[k]) <= Len(failures[k]), Verifying(k)' \subseteq Verifying(k)
    PROVE  Len(failures'[k]) + Cardinality(Verifying(k)')
             < MaxFailures + Cardinality(Request)
<1>1. Verifying(k) \in SUBSET Request
  BY DEF Verifying
<1>2. IsFiniteSet(Verifying(k)) /\ Cardinality(Verifying(k)) \in Nat
      /\ Cardinality(Request) \in Nat
  BY <1>1, VerifyingBounded
<1>3. Cardinality(Verifying(k)') <= Cardinality(Verifying(k))
      /\ IsFiniteSet(Verifying(k)')
  BY <1>2, FS_Subset
<1>4. Cardinality(Verifying(k)') \in Nat
  BY <1>3, FS_CardinalityType
<1>5. Len(failures[k]) \in Nat /\ Len(failures'[k]) \in Nat
  BY DEF AuthTypeOK
<1> QED  BY <1>2, <1>3, <1>4, <1>5 DEF AuthAssumption

\* Neither does one after which the key has fewer failures than the limit.
LEMMA FewFailures ==
    ASSUME AuthAssumption, AuthTypeOK', NEW k \in Key, Len(failures'[k]) < MaxFailures
    PROVE  Len(failures'[k]) + Cardinality(Verifying(k)')
             < MaxFailures + Cardinality(Request)
<1>1. Verifying(k)' \in SUBSET Request
  BY DEF Verifying
<1>2. Cardinality(Verifying(k)') \in Nat /\ Cardinality(Request) \in Nat
      /\ Cardinality(Verifying(k)') <= Cardinality(Request)
  BY <1>1, VerifyingBounded
<1>3. Len(failures'[k]) \in Nat
  BY DEF AuthTypeOK
<1> QED  BY <1>2, <1>3 DEF AuthAssumption

\* Of another key, or of a request that does something else, nothing changes.
LEMMA OtherVerifying ==
    ASSUME AuthTypeOK, NEW r \in Request, NEW c, CallBecomes(r, c), NEW k \in Key,
           c.pc # "verifying" \/ c.key # k
    PROVE  Verifying(k)' = Verifying(k) \ {r}
<1>1. \A o \in Request : call'[o] = IF o = r THEN c ELSE call[o]
  BY DEF AuthTypeOK, CallBecomes
<1> QED  BY <1>1 DEF Verifying

LEMMA PassGuesses ==
    ASSUME AuthAssumption, AuthInv, AuthTypeOK', NEW r \in Request, PassRateLimit(r)
    PROVE  FailuresLock' /\ GuessesBounded'
<1> DEFINE key == call[r].key
<1>1. key \in Key /\ call[r].at \in Nat
  BY CallFields DEF AuthInv, PassRateLimit
<1>2. Len(failures'[key]) < MaxFailures
  <2>1. failures'[key] = IF lockedUntil[key] = NotLocked THEN failures[key] ELSE <<>>
    BY <1>1 DEF AuthInv, AuthTypeOK, PassRateLimit
  <2>2. CASE lockedUntil[key] = NotLocked
    <3>1. Len(failures[key]) \in Nat /\ ~(Len(failures[key]) >= MaxFailures)
      BY <1>1, <2>2 DEF AuthInv, AuthTypeOK, FailuresLock
    <3> QED  BY <2>1, <2>2, <3>1 DEF AuthAssumption
  <2>3. CASE lockedUntil[key] # NotLocked
    BY <2>1, <2>3 DEF AuthAssumption
  <2> QED  BY <2>2, <2>3
<1>3. ASSUME NEW k \in Key, k # key
      PROVE  failures'[k] = failures[k] /\ lockedUntil'[k] = lockedUntil[k]
  BY <1>1, <1>3 DEF AuthInv, AuthTypeOK, PassRateLimit
<1>4. FailuresLock'
  <2> SUFFICES ASSUME NEW k \in Key, Len(failures'[k]) >= MaxFailures
               PROVE  lockedUntil'[k] # NotLocked
    BY DEF FailuresLock, NotLocked
  <2>1. k # key
    <3>1. Len(failures'[k]) \in Nat
      BY DEF AuthTypeOK
    <3> QED  BY <1>2, <3>1 DEF AuthAssumption
  <2> QED  BY <1>3, <2>1 DEF AuthInv, FailuresLock
<1>5. GuessesBounded'
  <2> SUFFICES ASSUME NEW k \in Key
               PROVE  Len(failures'[k]) + Cardinality(Verifying(k)')
                        < MaxFailures + Cardinality(Request)
    BY DEF GuessesBounded
  <2>1. CASE k = key
    BY <1>2, <2>1, FewFailures
  <2>2. CASE k # key
    <3>1. Verifying(k)' = Verifying(k) \ {r}
      BY <2>2, OtherVerifying DEF AuthInv, PassRateLimit
    <3>2. Len(failures'[k]) <= Len(failures[k])
      <4>1. Len(failures[k]) \in Nat
        BY DEF AuthInv, AuthTypeOK
      <4> QED  BY <1>3, <2>2, <4>1
    <3>3. Verifying(k)' \subseteq Verifying(k)
      BY <3>1
    <3>4. Len(failures[k]) + Cardinality(Verifying(k)) < MaxFailures + Cardinality(Request)
      BY DEF AuthInv, GuessesBounded
    <3> QED  BY <3>2, <3>3, <3>4, NoNewGuess DEF AuthInv
  <2> QED  BY <2>1, <2>2
<1> QED  BY <1>4, <1>5

\* The guess that failed is counted as a failure and no longer as under way.
LEMMA FailureGuesses ==
    ASSUME AuthAssumption, AuthInv, AuthTypeOK', NEW r \in Request, RecordFailure(r)
    PROVE  FailuresLock' /\ GuessesBounded'
<1> DEFINE key == call[r].key
<1>1. key \in Key /\ call[r].at \in Nat
  BY CallFields DEF AuthInv, RecordFailure
<1>2. PICK n \in Dropped(failures[key], call[r].at) :
        LET attempts == Append(SubSeq(failures[key], n + 1, Len(failures[key])), call[r].at)
        IN  /\ failures' = [failures EXCEPT ![key] = attempts]
            /\ lockedUntil' = [lockedUntil EXCEPT
                  ![key] = IF Len(attempts) >= MaxFailures THEN call[r].at + LockoutTtl
                           ELSE @]
  BY DEF RecordFailure
<1>3. failures[key] \in Seq(Nat)
  BY <1>1 DEF AuthInv, AuthTypeOK
<1>4. Len(failures'[key]) <= Len(failures[key]) + 1
  BY <1>1, <1>2, <1>3, AttemptsType DEF AuthInv, AuthTypeOK
<1>5. Len(failures'[key]) >= MaxFailures => lockedUntil'[key] # NotLocked
  BY <1>1, <1>2 DEF AuthInv, AuthTypeOK, AuthAssumption, NotLocked
<1>6. ASSUME NEW k \in Key, k # key
      PROVE  failures'[k] = failures[k] /\ lockedUntil'[k] = lockedUntil[k]
  BY <1>1, <1>2, <1>6 DEF AuthInv, AuthTypeOK
<1>7. FailuresLock'
  BY <1>5, <1>6 DEF AuthInv, FailuresLock, NotLocked
<1>8. GuessesBounded'
  <2> SUFFICES ASSUME NEW k \in Key
               PROVE  Len(failures'[k]) + Cardinality(Verifying(k)')
                        < MaxFailures + Cardinality(Request)
    BY DEF GuessesBounded
  <2>1. Verifying(k)' = Verifying(k) \ {r}
    <3>1. Idling.pc # "verifying"
      BY DEF Idling
    <3> QED  BY <3>1, OtherVerifying DEF AuthInv, RecordFailure
  <2>2. Len(failures[k]) + Cardinality(Verifying(k)) < MaxFailures + Cardinality(Request)
    BY DEF AuthInv, GuessesBounded
  <2>3. CASE k = key
    <3>1. r \in Verifying(k) /\ Verifying(k) \in SUBSET Request
      BY <2>3 DEF RecordFailure, Verifying
    <3>2. IsFiniteSet(Verifying(k)) /\ Cardinality(Verifying(k)) \in Nat
          /\ Cardinality(Request) \in Nat
      BY <3>1, VerifyingBounded
    <3>3. Cardinality(Verifying(k)') = Cardinality(Verifying(k)) - 1
      BY <2>1, <3>1, <3>2, FS_RemoveElement
    <3>4. Len(failures[k]) \in Nat /\ Len(failures'[k]) \in Nat
      BY DEF AuthInv, AuthTypeOK
    <3> QED  BY <1>4, <2>2, <2>3, <3>2, <3>3, <3>4 DEF AuthAssumption
  <2>4. CASE k # key
    <3>1. Len(failures'[k]) <= Len(failures[k])
      <4>1. Len(failures[k]) \in Nat
        BY DEF AuthInv, AuthTypeOK
      <4> QED  BY <1>6, <2>4, <4>1
    <3>2. Verifying(k)' \subseteq Verifying(k)
      BY <2>1
    <3> QED  BY <2>2, <3>1, <3>2, NoNewGuess DEF AuthInv
  <2> QED  BY <2>3, <2>4
<1> QED  BY <1>7, <1>8

LEMMA StoreGuesses ==
    ASSUME AuthAssumption, AuthInv, AuthTypeOK', NEW r \in Request, NEW t \in Token,
           StoreSession(r, t)
    PROVE  FailuresLock' /\ GuessesBounded'
<1> DEFINE key == call[r].key
<1>1. key \in Key /\ call[r].at \in Nat
  BY CallFields DEF AuthInv, StoreSession
<1>2. failures'[key] = <<>>
  BY <1>1 DEF AuthInv, AuthTypeOK, StoreSession
<1>3. ASSUME NEW k \in Key, k # key
      PROVE  failures'[k] = failures[k] /\ lockedUntil'[k] = lockedUntil[k]
  BY <1>1, <1>3 DEF AuthInv, AuthTypeOK, StoreSession
<1>4. Len(failures'[key]) < MaxFailures
  BY <1>2 DEF AuthAssumption
<1>5. FailuresLock'
  <2> SUFFICES ASSUME NEW k \in Key, Len(failures'[k]) >= MaxFailures
               PROVE  lockedUntil'[k] # NotLocked
    BY DEF FailuresLock, NotLocked
  <2>1. k # key
    <3>1. Len(failures'[k]) \in Nat
      BY DEF AuthTypeOK
    <3> QED  BY <1>4, <3>1 DEF AuthAssumption
  <2> QED  BY <1>3, <2>1 DEF AuthInv, FailuresLock
<1>6. GuessesBounded'
  <2> SUFFICES ASSUME NEW k \in Key
               PROVE  Len(failures'[k]) + Cardinality(Verifying(k)')
                        < MaxFailures + Cardinality(Request)
    BY DEF GuessesBounded
  <2>1. CASE k = key
    BY <1>4, <2>1, FewFailures
  <2>2. CASE k # key
    <3>1. Verifying(k)' \subseteq Verifying(k)
      <4>1. Idling.pc # "verifying"
        BY DEF Idling
      <4> QED  BY <4>1, OtherVerifying DEF AuthInv, StoreSession
    <3>2. Len(failures'[k]) <= Len(failures[k])
      <4>1. Len(failures[k]) \in Nat
        BY DEF AuthInv, AuthTypeOK
      <4> QED  BY <1>3, <2>2, <4>1
    <3>3. Len(failures[k]) + Cardinality(Verifying(k)) < MaxFailures + Cardinality(Request)
      BY DEF AuthInv, GuessesBounded
    <3> QED  BY <3>1, <3>2, <3>3, NoNewGuess DEF AuthInv
  <2> QED  BY <2>1, <2>2
<1> QED  BY <1>5, <1>6

\* The steps that leave failures and locks alone and give nobody a guess.
LEMMA QuietGuesses ==
    ASSUME AuthAssumption, AuthInv, AuthTypeOK', UNCHANGED <<failures, lockedUntil>>,
           \A k \in Key : Verifying(k)' \subseteq Verifying(k)
    PROVE  FailuresLock' /\ GuessesBounded'
<1>1. FailuresLock'
  BY DEF AuthInv, FailuresLock, NotLocked
<1>2. GuessesBounded'
  <2> SUFFICES ASSUME NEW k \in Key
               PROVE  Len(failures'[k]) + Cardinality(Verifying(k)')
                        < MaxFailures + Cardinality(Request)
    BY DEF GuessesBounded
  <2>1. Len(failures'[k]) <= Len(failures[k])
    BY DEF AuthInv, AuthTypeOK
  <2>2. Len(failures[k]) + Cardinality(Verifying(k)) < MaxFailures + Cardinality(Request)
    BY DEF AuthInv, GuessesBounded
  <2> QED  BY <2>1, <2>2, NoNewGuess DEF AuthInv
<1> QED  BY <1>1, <1>2

LEMMA GuessesStep ==
    ASSUME AuthAssumption, AuthInv, AuthTypeOK', [AuthNext]_authVars
    PROVE  FailuresLock' /\ GuessesBounded'
<1>1. CASE Tick \/ UNCHANGED authVars
  <2>1. UNCHANGED <<failures, lockedUntil, call>>
    BY <1>1 DEF Tick, authVars
  <2>2. \A k \in Key : Verifying(k)' \subseteq Verifying(k)
    BY <2>1 DEF Verifying
  <2> QED  BY <2>1, <2>2, QuietGuesses
<1>2. CASE AuthRestart
  <2>1. \A k \in Key : failures'[k] = <<>>
    BY <1>2 DEF AuthRestart
  <2>2. \A k \in Key : Len(failures'[k]) < MaxFailures /\ ~(Len(failures'[k]) >= MaxFailures)
    BY <2>1 DEF AuthAssumption
  <2> QED  BY <2>2, FewFailures DEF FailuresLock, GuessesBounded
<1>3. ASSUME NEW r \in Request, NEW c, CallBecomes(r, c), c.pc # "verifying",
             UNCHANGED <<failures, lockedUntil>>
      PROVE  FailuresLock' /\ GuessesBounded'
  <2>1. \A k \in Key : Verifying(k)' \subseteq Verifying(k)
    BY <1>3, OtherVerifying DEF AuthInv
  <2> QED  BY <1>3, <2>1, QuietGuesses
<1>4. ASSUME NEW r \in Request, BeginAuth(r) PROVE FailuresLock' /\ GuessesBounded'
  <2>1. ASSUME NEW k \in Key, BeginLogin(r, k) PROVE FailuresLock' /\ GuessesBounded'
    BY <1>3, <2>1 DEF BeginLogin
  <2>2. ASSUME NEW t \in Token, BeginResolve(r, t) PROVE FailuresLock' /\ GuessesBounded'
    BY <1>3, <2>2 DEF BeginResolve
  <2>3. ASSUME NEW t \in Token, Revoke(r, t) PROVE FailuresLock' /\ GuessesBounded'
    <3>1. UNCHANGED <<failures, lockedUntil, call>>
      BY <2>3 DEF Revoke
    <3>2. \A k \in Key : Verifying(k)' \subseteq Verifying(k)
      BY <3>1 DEF Verifying
    <3> QED  BY <3>1, <3>2, QuietGuesses
  <2> QED  BY <1>4, <2>1, <2>2, <2>3 DEF BeginAuth
<1>5. ASSUME NEW r \in Request, ProceedAuth(r) \/ Leave(r)
      PROVE  FailuresLock' /\ GuessesBounded'
  <2>1. Idling.pc # "verifying"
    BY DEF Idling
  <2>2. CASE RefuseLocked(r) \/ ResolveNone(r) \/ Leave(r)
    BY <1>3, <2>1, <2>2 DEF RefuseLocked, ResolveNone, Leave
  <2>3. CASE Resolve(r)
    BY <1>3, <2>3 DEF Resolve
  <2> QED  BY <1>5, <2>2, <2>3, PassGuesses, FailureGuesses, StoreGuesses DEF ProceedAuth
<1> QED  BY <1>1, <1>2, <1>4, <1>5 DEF AuthNext

-----------------------------------------------------------------------------
(* Sessions. *)

\* The sweep leaves room for one, and adds nothing.
LEMMA SweepMakesRoom ==
    ASSUME AuthAssumption, AuthTypeOK, SessionsBounded, NEW at, NEW kept \in Swept(at),
           NEW t \in Token
    PROVE  kept \subseteq live /\ Cardinality(kept \union {t}) <= MaxSessions
<1> DEFINE alive == {s \in live : ~Expired(s, at)}
<1>1. IsFiniteSet(live) /\ Cardinality(live) \in Nat
  BY FS_Subset, FS_CardinalityType DEF AuthAssumption, AuthTypeOK
<1>2. IsFiniteSet(alive) /\ Cardinality(alive) \in Nat /\ Cardinality(alive) <= MaxSessions
  <2>1. IsFiniteSet(alive) /\ Cardinality(alive) <= Cardinality(live)
    BY <1>1, FS_Subset
  <2>2. Cardinality(alive) \in Nat
    BY <2>1, FS_CardinalityType
  <2> QED  BY <1>1, <2>1, <2>2 DEF AuthAssumption, SessionsBounded
<1>3. CASE Cardinality(alive) < MaxSessions
  <2>1. kept = alive
    BY <1>3 DEF Swept
  <2>2. Cardinality(kept \union {t}) <= Cardinality(alive) + 1
    <3>1. Cardinality(kept \union {t}) = IF t \in kept THEN Cardinality(kept)
                                         ELSE Cardinality(kept) + 1
      BY <1>2, <2>1, FS_AddElement
    <3> QED  BY <1>2, <2>1, <3>1
  <2>3. Cardinality(kept \union {t}) \in Nat
    BY <1>2, <2>1, FS_AddElement, FS_CardinalityType
  <2> QED  BY <1>2, <1>3, <2>1, <2>2, <2>3 DEF AuthAssumption
<1>4. CASE ~(Cardinality(alive) < MaxSessions)
  <2>1. PICK s \in Longest(alive) : kept = alive \ {s}
    BY <1>4 DEF Swept
  <2>2. s \in alive
    BY <2>1 DEF Longest
  <2>3. IsFiniteSet(kept) /\ Cardinality(kept) = Cardinality(alive) - 1
    BY <1>2, <2>1, <2>2, FS_RemoveElement
  <2>4. Cardinality(kept) \in Nat
    BY <2>3, FS_CardinalityType
  <2>5. Cardinality(kept \union {t}) <= Cardinality(kept) + 1
    <3>1. Cardinality(kept \union {t}) = IF t \in kept THEN Cardinality(kept)
                                         ELSE Cardinality(kept) + 1
      BY <2>3, FS_AddElement
    <3> QED  BY <2>4, <3>1
  <2>6. Cardinality(kept \union {t}) \in Nat
    BY <2>3, FS_AddElement, FS_CardinalityType
  <2>7. kept \subseteq live
    BY <2>1
  <2> QED  BY <1>2, <2>3, <2>4, <2>5, <2>6, <2>7 DEF AuthAssumption
<1> QED  BY <1>3, <1>4

\* Fewer sessions are within the bound.
LEMMA FewerSessions ==
    ASSUME AuthAssumption, AuthTypeOK, SessionsBounded, live' \subseteq live
    PROVE  SessionsBounded'
<1>1. IsFiniteSet(live) /\ Cardinality(live) \in Nat
  BY FS_Subset, FS_CardinalityType DEF AuthAssumption, AuthTypeOK
<1>2. Cardinality(live') <= Cardinality(live) /\ IsFiniteSet(live')
  BY <1>1, FS_Subset
<1>3. Cardinality(live') \in Nat
  BY <1>2, FS_CardinalityType
<1> QED  BY <1>1, <1>2, <1>3 DEF SessionsBounded, AuthAssumption

\* Only a sign-in adds a session.
LEMMA OnlySignInAdds ==
    ASSUME [AuthNext]_authVars
    PROVE  \/ live' \subseteq live
           \/ \E r \in Request, t \in Token : StoreSession(r, t)
BY DEF AuthNext, authVars, Tick, BeginAuth, BeginLogin, BeginResolve, Revoke, ProceedAuth,
       PassRateLimit, RefuseLocked, RecordFailure, Resolve, ResolveNone, Leave, AuthRestart

LEMMA SessionsStep ==
    ASSUME AuthAssumption, AuthTypeOK, SessionsBounded, [AuthNext]_authVars
    PROVE  SessionsBounded' /\ live' \cap issued \subseteq live
<1>1. CASE live' \subseteq live
  BY <1>1, FewerSessions
<1>2. ASSUME NEW r \in Request, NEW t \in Token, StoreSession(r, t)
      PROVE  SessionsBounded' /\ live' \cap issued \subseteq live
  <2>1. PICK kept \in Swept(call[r].at) : live' = kept \union {t}
    BY <1>2 DEF StoreSession
  <2>2. kept \subseteq live /\ Cardinality(kept \union {t}) <= MaxSessions
    BY <2>1, SweepMakesRoom
  <2>3. t \notin issued
    BY <1>2 DEF StoreSession
  <2> QED  BY <2>1, <2>2, <2>3 DEF SessionsBounded
<1> QED  BY <1>1, <1>2, OnlySignInAdds

-----------------------------------------------------------------------------
(* The theorems. *)

LEMMA AuthInvInit == AuthAssumption /\ AuthInit => AuthInv
<1> SUFFICES ASSUME AuthAssumption, AuthInit PROVE AuthInv
  OBVIOUS
<1>1. AuthTypeOK
  BY InitTypes
<1>2. \A k \in Key : Len(failures[k]) = 0
  BY DEF AuthInit
<1>3. FailuresLock
  BY <1>2 DEF FailuresLock, AuthAssumption
<1>4. \A k \in Key : Verifying(k) = {}
  BY DEF AuthInit, Verifying, Idling
<1>5. Cardinality({}) = 0 /\ Cardinality(Request) \in Nat
  BY FS_EmptySet, FS_CardinalityType DEF AuthAssumption
<1>6. GuessesBounded
  <2>1. \A k \in Key : Len(failures[k]) + Cardinality(Verifying(k)) = 0
    <3> SUFFICES ASSUME NEW k \in Key
                 PROVE  Len(failures[k]) + Cardinality(Verifying(k)) = 0
      OBVIOUS
    <3>1. Verifying(k) = {}
      BY <1>4
    <3>2. Cardinality(Verifying(k)) = 0
      BY <1>5, <3>1
    <3> QED  BY <1>2, <3>2
  <2> QED  BY <1>5, <2>1 DEF GuessesBounded, AuthAssumption
<1>7. SessionsBounded
  BY <1>5 DEF AuthInit, SessionsBounded, AuthAssumption
<1> QED  BY <1>1, <1>3, <1>6, <1>7 DEF AuthInv

LEMMA AuthInvStep == AuthAssumption /\ AuthInv /\ [AuthNext]_authVars => AuthInv'
<1> SUFFICES ASSUME AuthAssumption, AuthInv, [AuthNext]_authVars PROVE AuthInv'
  OBVIOUS
<1>1. AuthTypeOK'
  BY AuthTypesStep DEF AuthInv
<1>2. FailuresLock' /\ GuessesBounded'
  BY <1>1, GuessesStep
<1>3. SessionsBounded'
  BY SessionsStep DEF AuthInv
<1> QED  BY <1>1, <1>2, <1>3 DEF AuthInv

\* The service's invariant: types, locked keys, and both bounds.
THEOREM AuthInvariant == AuthSpec => []AuthInv
<1>1. AuthInit => AuthInv
  BY AuthInvInit, AuthAssumption
<1>2. AuthInv /\ [AuthNext]_authVars => AuthInv'
  BY AuthInvStep, AuthAssumption
<1> QED  BY <1>1, <1>2, PTL DEF AuthSpec

\* No more guesses at a password than the limit and the requests that run at once
\* (_check_rate_limit, _record_failure).
THEOREM GuessesBoundedTheorem == AuthSpec => []GuessesBounded
<1>1. AuthInv => GuessesBounded
  BY DEF AuthInv
<1> QED  BY <1>1, AuthInvariant, PTL

\* At most max_sessions sessions (_sweep_sessions).
THEOREM SessionsBoundedTheorem == AuthSpec => []SessionsBounded
<1>1. AuthInv => SessionsBounded
  BY DEF AuthInv
<1> QED  BY <1>1, AuthInvariant, PTL

\* A session that has ended never comes back (resolve_session, authenticate).
THEOREM EndedStaysEndedTheorem == AuthSpec => EndedStaysEnded
<1>1. AuthInv /\ [AuthNext]_authVars => [live' \cap issued \subseteq live]_authVars
  BY SessionsStep, AuthAssumption DEF AuthInv
<1> QED  BY <1>1, AuthInvariant, PTL DEF AuthSpec, EndedStaysEnded
-----------------------------------------------------------------------------
(* GovernedWorkflow                                                        *)

-----------------------------------------------------------------------------
(* Rows and operations. *)

LEMMA OperationFields ==
    ASSUME NEW op \in Operation
    PROVE  /\ op.kind \in {"assign", "disposition", "note"}
           /\ op.target \in Alert /\ op.actor \in User
           /\ op.kind = "assign" => op.arg \in User
           /\ op.kind = "disposition" => op.arg \in Disposition
           /\ op.kind = "note" => op.arg \in Note
           /\ Writes(op) \in Column
BY DEF Operation, Writes, Column

LEMMA ChangedType ==
    ASSUME NEW op \in Operation, NEW row \in QueueRow
    PROVE  Changed(op, row) \in QueueRow
<1>1. CASE op.kind = "assign"
  BY <1>1, OperationFields DEF Changed, Assign, QueueRow
<1>2. CASE op.kind = "disposition"
  <2>1. NextStatus[op.arg] \in {"in_review", "escalated", "closed"}
    BY <1>2, OperationFields DEF NextStatus, Disposition
  <2> QED  BY <1>2, <2>1, OperationFields DEF Changed, Disposed, QueueRow
<1>3. CASE op.kind = "note"
  <2>1. [by |-> op.actor, text |-> op.arg] \in NoteEntry
    BY <1>3, OperationFields DEF NoteEntry
  <2>2. Append(row.notes, [by |-> op.actor, text |-> op.arg]) \in Seq(NoteEntry)
    BY <2>1 DEF QueueRow
  <2> QED  BY <1>3, <2>2 DEF Changed, Noted, QueueRow
<1> QED  BY <1>1, <1>2, <1>3, OperationFields

\* What a transaction commits is what its operation does to the row as it is at that
\* time, if the columns it writes are still those of its snapshot.
LEMMA MergedIsChanged ==
    ASSUME NEW t \in Txn, t.op \in Operation, NEW row \in QueueRow,
           Writes(t.op) = "status" => /\ t.seen.status = row.status
                                      /\ t.seen.disposition = row.disposition
                                      /\ t.seen.assigned_to = row.assigned_to,
           Writes(t.op) = "notes" => t.seen.notes = row.notes
    PROVE  Merged(t, row) = Changed(t.op, row)
<1>1. t.seen \in QueueRow
  BY DEF Txn
<1>2. CASE t.op.kind = "assign"
  BY <1>1, <1>2 DEF Merged, Changed, Assign, Writes, QueueRow
<1>3. CASE t.op.kind = "disposition"
  BY <1>1, <1>3 DEF Merged, Changed, Disposed, Writes, QueueRow
<1>4. CASE t.op.kind = "note"
  BY <1>1, <1>4 DEF Merged, Changed, Noted, Writes, QueueRow
<1> QED  BY <1>2, <1>3, <1>4, OperationFields

\* Columns an operation does not write are as they were.
LEMMA ChangedKeeps ==
    ASSUME NEW op \in Operation, NEW row \in QueueRow
    PROVE  /\ Writes(op) = "status" => Changed(op, row).notes = row.notes
           /\ Writes(op) = "notes" => /\ Changed(op, row).status = row.status
                                      /\ Changed(op, row).disposition = row.disposition
                                      /\ Changed(op, row).assigned_to = row.assigned_to
           /\ Writes(op) \in {"status", "notes"}
<1>1. CASE op.kind = "assign"
  BY <1>1 DEF Changed, Assign, Writes, QueueRow
<1>2. CASE op.kind = "disposition"
  BY <1>2 DEF Changed, Disposed, Writes, QueueRow
<1>3. CASE op.kind = "note"
  BY <1>3 DEF Changed, Noted, Writes, QueueRow
<1> QED  BY <1>1, <1>2, <1>3, OperationFields

-----------------------------------------------------------------------------
(* What each kind of step does to the transactions. *)

LEMMA IdleType == Idle \in Txn /\ Idle.pc = "idle"
<1>1. NewRow \in QueueRow
  BY DEF NewRow, QueueRow, Unassigned
<1> QED  BY <1>1 DEF Idle, Txn, Column

LEMMA QueueInvInit == QueueInit => QueueInv
<1> SUFFICES ASSUME QueueInit PROVE QueueInv
  OBVIOUS
<1>1. NewRow \in QueueRow
  BY DEF NewRow, QueueRow, Unassigned
<1>2. QueueTypeOK
  BY <1>1, IdleType DEF QueueInit, CaseInit, QueueTypeOK
<1>3. \A r \in Request : txn[r].pc = "idle"
  BY IdleType DEF QueueInit
<1> QED  BY <1>2, <1>3 DEF QueueInv, Snapshot, NoConflict, PageTrue

\* Steps that leave the tables alone and make one transaction t.
LEMMA TxnStep ==
    ASSUME QueueInv, NEW r \in Request, NEW t \in Txn, TxnBecomes(r, t),
           UNCHANGED queue, log' \in Seq(Operation), Len(log) <= Len(log'),
           Snapshot(t), t.pc \in {"counting", "paged"} => t.total <= Len(log),
           t.pc = "paged" => t.shown >= Smaller(PageSize, t.total),
           t.pc = "written" => /\ Writes(t.op) \notin t.stale
                               /\ \A o \in Request \ {r} :
                                     txn[o].pc = "written" /\ txn[o].op.target = t.op.target
                                       => Writes(txn[o].op) # Writes(t.op)
    PROVE  QueueInv'
<1>1. \A o \in Request : txn'[o] = IF o = r THEN t ELSE txn[o]
  BY DEF QueueInv, QueueTypeOK, TxnBecomes
<1>2. QueueTypeOK'
  BY DEF QueueInv, QueueTypeOK, TxnBecomes
<1>3. \A o \in Request : Snapshot(txn[o])'
  BY <1>1 DEF QueueInv, Snapshot
<1>4. NoConflict'
  BY <1>1 DEF QueueInv, NoConflict
<1>5. PageTrue'
  <2>1. Len(log) \in Nat /\ Len(log') \in Nat
    BY DEF QueueInv, QueueTypeOK
  <2> QED  BY <1>1, <2>1 DEF QueueInv, PageTrue, QueueTypeOK, Txn
<1> QED  BY <1>2, <1>3, <1>4, <1>5 DEF QueueInv

LEMMA BeginKeeps ==
    ASSUME QueueInv, NEW r \in Request, NEW op \in Operation, BeginMutation(r, op)
    PROVE  QueueInv'
<1> DEFINE t == [Idle EXCEPT !.pc = "begun", !.op = op, !.seen = queue[op.target]]
<1>1. op.target \in Queued /\ queue[op.target] \in QueueRow
  BY DEF QueueInv, QueueTypeOK, BeginMutation
<1>2. t \in Txn /\ t.pc = "begun" /\ t.op = op /\ t.seen = queue[op.target]
  BY <1>1, IdleType DEF Txn, Idle
<1>3. Snapshot(t)
  BY <1>1, <1>2 DEF Snapshot
<1>4. UNCHANGED <<queue, log>> /\ TxnBecomes(r, t)
  BY DEF BeginMutation
<1>5. log' \in Seq(Operation) /\ Len(log) <= Len(log')
  BY <1>4 DEF QueueInv, QueueTypeOK
<1> HIDE DEF t
<1> QED  BY <1>2, <1>3, <1>4, <1>5, TxnStep

LEMMA UpdateKeeps ==
    ASSUME QueueInv, NEW r \in Request, UpdateRow(r)
    PROVE  QueueInv'
<1> DEFINE t == [txn[r] EXCEPT !.pc = IF Conflict(r) THEN "failed" ELSE "written"]
<1>1. txn[r] \in Txn /\ txn[r].pc = "begun" /\ Snapshot(txn[r])
  BY DEF QueueInv, QueueTypeOK, UpdateRow
<1>2. t \in Txn /\ t.op = txn[r].op /\ t.seen = txn[r].seen /\ t.stale = txn[r].stale
      /\ t.pc = (IF Conflict(r) THEN "failed" ELSE "written")
  BY <1>1 DEF Txn
<1>3. t.pc = "written" => ~Conflict(r)
  BY <1>2
<1>4. Snapshot(t)
  BY <1>1, <1>2 DEF Snapshot
<1>5. UNCHANGED <<queue, log>> /\ TxnBecomes(r, t)
  BY DEF UpdateRow
<1>6. log' \in Seq(Operation) /\ Len(log) <= Len(log')
  BY <1>5 DEF QueueInv, QueueTypeOK
<1>7. t.pc \notin {"counting", "paged"}
  BY <1>2
<1>8. t.pc = "written" => /\ Writes(t.op) \notin t.stale
                          /\ \A o \in Request \ {r} :
                               txn[o].pc = "written" /\ txn[o].op.target = t.op.target
                                 => Writes(txn[o].op) # Writes(t.op)
  BY <1>2, <1>3 DEF Conflict
<1> HIDE DEF t
<1> QED  BY <1>2, <1>4, <1>5, <1>6, <1>7, <1>8, TxnStep

\* Steps after which the request writes nothing any more.
LEMMA HarmlessStep ==
    ASSUME QueueInv, NEW r \in Request, NEW t \in Txn, TxnBecomes(r, t),
           UNCHANGED <<queue, log>>, t.pc \in {"idle", "failed", "counting", "paged"},
           t.pc \in {"counting", "paged"} => t.total <= Len(log),
           t.pc = "paged" => t.shown >= Smaller(PageSize, t.total)
    PROVE  QueueInv'
<1>1. log' \in Seq(Operation) /\ Len(log) <= Len(log')
  BY DEF QueueInv, QueueTypeOK
<1>2. Snapshot(t)
  BY DEF Snapshot
<1> QED  BY <1>1, <1>2, TxnStep

LEMMA FailKeeps ==
    ASSUME QueueInv, NEW r \in Request, StatementFails(r) \/ Rollback(r) \/ AnswerPage(r)
    PROVE  QueueInv'
<1>1. CASE StatementFails(r)
  <2>1. [txn[r] EXCEPT !.pc = "failed"] \in Txn /\ [txn[r] EXCEPT !.pc = "failed"].pc = "failed"
    BY DEF QueueInv, QueueTypeOK, Txn
  <2> QED  BY <1>1, <2>1, HarmlessStep DEF StatementFails
<1>2. CASE Rollback(r) \/ AnswerPage(r)
  BY <1>2, IdleType, HarmlessStep DEF Rollback, AnswerPage
<1> QED  BY <1>1, <1>2

LEMMA PageKeeps ==
    ASSUME QueueInv, NEW r \in Request, CountEvents(r) \/ SelectEvents(r)
    PROVE  QueueInv'
<1>1. Len(log) \in Nat
  BY DEF QueueInv, QueueTypeOK
<1>2. CASE CountEvents(r)
  <2> DEFINE t == [Idle EXCEPT !.pc = "counting", !.total = Len(log)]
  <2>1. t \in Txn /\ t.pc = "counting" /\ t.total = Len(log)
    BY <1>1, IdleType DEF Txn, Idle
  <2>2. TxnBecomes(r, t) /\ UNCHANGED <<queue, log>>
    BY <1>2 DEF CountEvents
  <2>3. t.total <= Len(log)
    BY <1>1, <2>1
  <2> HIDE DEF t
  <2> QED  BY <2>1, <2>2, <2>3, HarmlessStep
<1>3. CASE SelectEvents(r)
  <2> DEFINE t == [txn[r] EXCEPT !.pc = "paged", !.shown = Smaller(PageSize, Len(log))]
  <2>1. txn[r] \in Txn /\ txn[r].pc = "counting" /\ txn[r].total <= Len(log)
    BY <1>3 DEF QueueInv, QueueTypeOK, SelectEvents, PageTrue
  <2>2. Smaller(PageSize, Len(log)) \in Nat
    BY <1>1, PageAssumption DEF Smaller
  <2>3. t \in Txn /\ t.pc = "paged" /\ t.total = txn[r].total
        /\ t.shown = Smaller(PageSize, Len(log))
    BY <2>1, <2>2 DEF Txn
  <2>4. TxnBecomes(r, t) /\ UNCHANGED <<queue, log>>
    BY <1>3 DEF SelectEvents
  <2>5. t.total \in Nat
    BY <2>1, <2>3 DEF Txn
  <2>6. t.shown >= Smaller(PageSize, t.total)
    BY <1>1, <2>1, <2>3, <2>5, PageAssumption DEF Smaller
  <2> HIDE DEF t
  <2> QED  BY <2>1, <2>3, <2>4, <2>6, HarmlessStep
<1> QED  BY <1>2, <1>3

-----------------------------------------------------------------------------
(* A commit. *)

\* The transaction wrote nothing stale, so it commits what its operation does now.
LEMMA CommitChanges ==
    ASSUME QueueInv, NEW r \in Request, Commit(r)
    PROVE  /\ txn[r].op \in Operation /\ txn[r].op.target \in Queued
           /\ queue' = [queue EXCEPT ![txn[r].op.target] = Changed(txn[r].op, @)]
           /\ log' = Append(log, txn[r].op)
<1> DEFINE op == txn[r].op
           row == queue[op.target]
<1>1. txn[r] \in Txn /\ txn[r].pc = "written" /\ Snapshot(txn[r])
      /\ Writes(op) \notin txn[r].stale
  BY DEF QueueInv, QueueTypeOK, Commit, NoConflict
<1>2. op \in Operation /\ op.target \in Queued
  BY <1>1 DEF Snapshot
<1>3. row \in QueueRow
  BY <1>2 DEF QueueInv, QueueTypeOK
<1>4. Merged(txn[r], row) = Changed(op, row)
  <2>1. Writes(op) = "status" => /\ txn[r].seen.status = row.status
                                 /\ txn[r].seen.disposition = row.disposition
                                 /\ txn[r].seen.assigned_to = row.assigned_to
    BY <1>1 DEF Snapshot
  <2>2. Writes(op) = "notes" => txn[r].seen.notes = row.notes
    BY <1>1 DEF Snapshot
  <2> QED  BY <1>1, <1>2, <1>3, <2>1, <2>2, MergedIsChanged
<1>5. queue' = [queue EXCEPT ![op.target] = Merged(txn[r], row)] /\ log' = Append(log, op)
  BY DEF Commit
<1> QED  BY <1>2, <1>4, <1>5

\* The others learn which columns of their snapshot are stale now.
LEMMA CommitKeeps ==
    ASSUME QueueInv, NEW r \in Request, Commit(r)
    PROVE  QueueInv'
<1> DEFINE op == txn[r].op
<1>1. op \in Operation /\ op.target \in Queued
      /\ queue' = [queue EXCEPT ![op.target] = Changed(op, @)] /\ log' = Append(log, op)
  BY CommitChanges
<1>2. queue \in [Queued -> QueueRow] /\ log \in Seq(Operation) /\ txn \in [Request -> Txn]
  BY DEF QueueInv, QueueTypeOK
<1>3. Changed(op, queue[op.target]) \in QueueRow
  BY <1>1, <1>2, ChangedType
<1>4. txn' = [o \in Request |->
                IF o = r THEN Idle
                ELSE IF txn[o].pc \in {"begun", "written"} /\ txn[o].op.target = op.target
                     THEN [txn[o] EXCEPT !.stale = @ \union {Writes(op)}]
                     ELSE txn[o]]
  BY DEF Commit
<1>5. Writes(op) \in Column
  BY <1>1, OperationFields
<1>6. ASSUME NEW o \in Request, o # r, txn[o].pc \in {"begun", "written"},
             txn[o].op.target = op.target
      PROVE  /\ txn'[o] \in Txn
             /\ txn'[o].pc = txn[o].pc /\ txn'[o].op = txn[o].op
             /\ txn'[o].seen = txn[o].seen
             /\ txn'[o].stale = txn[o].stale \union {Writes(op)}
             /\ txn'[o].total = txn[o].total /\ txn'[o].shown = txn[o].shown
  BY <1>2, <1>4, <1>5, <1>6 DEF Txn
<1>7. ASSUME NEW o \in Request, o # r,
             ~(txn[o].pc \in {"begun", "written"} /\ txn[o].op.target = op.target)
      PROVE  txn'[o] = txn[o]
  BY <1>4, <1>7
<1>8. txn'[r] = Idle
  BY <1>4
<1>9. txn' \in [Request -> Txn]
  <2>1. \A o \in Request : txn'[o] \in Txn
    BY <1>2, <1>6, <1>7, <1>8, IdleType
  <2> QED  BY <1>4, <2>1
<1>10. QueueTypeOK'
  BY <1>1, <1>2, <1>3, <1>9 DEF QueueTypeOK
<1>11. \A o \in Request : Snapshot(txn[o])'
  <2> SUFFICES ASSUME NEW o \in Request PROVE Snapshot(txn[o])'
    OBVIOUS
  <2>1. CASE o = r
    BY <1>8, <2>1, IdleType DEF Snapshot
  <2>2. CASE o # r /\ txn[o].pc \in {"begun", "written"} /\ txn[o].op.target = op.target
    <3>1. Snapshot(txn[o])
      BY DEF QueueInv
    <3>2. txn'[o].pc = txn[o].pc /\ txn'[o].op = txn[o].op /\ txn'[o].seen = txn[o].seen
          /\ txn'[o].stale = txn[o].stale \union {Writes(op)}
      BY <1>6, <2>2
    <3>3. queue'[op.target] = Changed(op, queue[op.target])
      BY <1>1, <1>2
    <3>4. queue[op.target] \in QueueRow
      BY <1>1, <1>2
    <3>5. CASE Writes(op) = "status"
      <4>1. queue'[op.target].notes = queue[op.target].notes
        BY <1>1, <3>3, <3>4, <3>5, ChangedKeeps
      <4> QED  BY <2>2, <3>1, <3>2, <3>5, <4>1 DEF Snapshot
    <3>6. CASE Writes(op) = "notes"
      <4>1. /\ queue'[op.target].status = queue[op.target].status
            /\ queue'[op.target].disposition = queue[op.target].disposition
            /\ queue'[op.target].assigned_to = queue[op.target].assigned_to
        BY <1>1, <3>3, <3>4, <3>6, ChangedKeeps
      <4> QED  BY <2>2, <3>1, <3>2, <3>6, <4>1 DEF Snapshot
    <3> QED  BY <1>1, <3>5, <3>6, <3>4, ChangedKeeps
  <2>3. CASE o # r /\ ~(txn[o].pc \in {"begun", "written"} /\ txn[o].op.target = op.target)
    <3>1. Snapshot(txn[o]) /\ txn'[o] = txn[o]
      BY <1>7, <2>3 DEF QueueInv
    <3>2. CASE txn[o].pc \notin {"begun", "written"}
      BY <3>1, <3>2 DEF Snapshot
    <3>3. CASE txn[o].pc \in {"begun", "written"}
      <4>1. txn[o].op.target \in Queued /\ txn[o].op.target # op.target
        BY <2>3, <3>1, <3>3 DEF Snapshot
      <4>2. queue'[txn[o].op.target] = queue[txn[o].op.target]
        BY <1>1, <1>2, <4>1
      <4> QED  BY <3>1, <3>3, <4>2 DEF Snapshot
    <3> QED  BY <3>2, <3>3
  <2> QED  BY <2>1, <2>2, <2>3
<1>12. NoConflict'
  <2>1. ASSUME NEW o \in Request, txn'[o].pc = "written"
        PROVE  /\ o # r /\ txn[o].pc = "written" /\ txn'[o].op = txn[o].op
               /\ Writes(txn[o].op) \notin txn'[o].stale
    <3>1. o # r
      BY <1>8, <2>1, IdleType
    <3>2. txn[r].pc = "written"
      BY DEF Commit
    <3>3. CASE txn[o].pc \in {"begun", "written"} /\ txn[o].op.target = op.target
      <4>1. txn[o].pc = "written" /\ txn'[o].op = txn[o].op
            /\ txn'[o].stale = txn[o].stale \union {Writes(op)}
        BY <1>6, <2>1, <3>1, <3>3
      <4>2. Writes(txn[o].op) \notin txn[o].stale /\ Writes(txn[o].op) # Writes(op)
        BY <3>1, <3>2, <3>3, <4>1 DEF QueueInv, NoConflict
      <4> QED  BY <3>1, <4>1, <4>2
    <3>4. CASE ~(txn[o].pc \in {"begun", "written"} /\ txn[o].op.target = op.target)
      BY <1>7, <2>1, <3>1, <3>4 DEF QueueInv, NoConflict
    <3> QED  BY <3>3, <3>4
  <2> QED  BY <2>1 DEF QueueInv, NoConflict
<1>13. PageTrue'
  <2> SUFFICES ASSUME NEW o \in Request, txn'[o].pc \in {"counting", "paged"}
               PROVE  /\ txn'[o].total <= Len(log')
                      /\ txn'[o].pc = "paged"
                           => txn'[o].shown >= Smaller(PageSize, txn'[o].total)
    BY DEF PageTrue, Smaller
  <2>1. txn'[o] = txn[o]
    BY <1>6, <1>7, <1>8, IdleType
  <2>2. Len(log') = Len(log) + 1 /\ Len(log) \in Nat /\ txn[o].total \in Nat
    BY <1>1, <1>2 DEF Txn
  <2> QED  BY <2>1, <2>2 DEF QueueInv, PageTrue
<1> QED  BY <1>10, <1>11, <1>12, <1>13 DEF QueueInv

-----------------------------------------------------------------------------
(* The theorems. *)

LEMMA RestartKeeps == QueueInv /\ (QueueRestart \/ UNCHANGED queueVars) => QueueInv'
<1>1. ASSUME QueueInv, QueueRestart PROVE QueueInv'
  <2>1. \A o \in Request : txn'[o] = Idle
    BY <1>1 DEF QueueRestart
  <2>2. QueueTypeOK'
    BY <1>1, IdleType DEF QueueInv, QueueTypeOK, QueueRestart
  <2> QED  BY <2>1, <2>2, IdleType DEF QueueInv, Snapshot, NoConflict, PageTrue
<1>2. ASSUME QueueInv, UNCHANGED queueVars PROVE QueueInv'
  BY <1>2 DEF QueueInv, QueueTypeOK, Snapshot, NoConflict, PageTrue, queueVars
<1> QED  BY <1>1, <1>2

LEMMA QueueInvStep == QueueInv /\ [QueueNext]_queueVars => QueueInv'
<1> SUFFICES ASSUME QueueInv, [QueueNext]_queueVars PROVE QueueInv'
  OBVIOUS
<1>1. ASSUME NEW r \in Request, NEW op \in Operation, BeginMutation(r, op) \/ AlertNotFound(r, op)
      PROVE  QueueInv'
  BY <1>1, BeginKeeps, RestartKeeps DEF AlertNotFound
<1>2. ASSUME NEW r \in Request,
             CountEvents(r) \/ ProceedQueue(r) \/ StatementFails(r)
      PROVE  QueueInv'
  BY <1>2, UpdateKeeps, CommitKeeps, FailKeeps, PageKeeps DEF ProceedQueue
<1> QED  BY <1>1, <1>2, RestartKeeps DEF QueueNext

\* The invariant of the queue's transactions.
THEOREM QueueInvariant == QueueSpec => []QueueInv
BY QueueInvInit, QueueInvStep, PTL DEF QueueSpec

\* Only a commit changes the tables.
LEMMA OnlyCommitChanges ==
    ASSUME [QueueNext]_queueVars
    PROVE  UNCHANGED <<queue, log>> \/ \E r \in Request : Commit(r)
BY DEF QueueNext, ProceedQueue, BeginMutation, AlertNotFound, UpdateRow, StatementFails,
       Rollback, CountEvents, SelectEvents, AnswerPage, QueueRestart, queueVars

\* The abstract queue's operators are this module's.
LEMMA SameRules ==
    ASSUME NEW op, NEW row
    PROVE  Case!Changed(op, row) = Changed(op, row)
BY DEF Case!Changed, Changed, Case!Assign, Assign, Case!Disposed, Disposed,
       Case!NextStatus, NextStatus, Case!Noted, Noted

\* Interleaved, conflicting and failing transactions leave queue and log as if each
\* request had been one step (_mutate).
THEOREM QueueIsSerialTheorem == QueueSpec => QueueIsSerial
<1>1. QueueInit => Case!CaseInit
  BY DEF QueueInit, CaseInit, Case!CaseInit, NewRow, Case!NewRow, Unassigned, Case!Unassigned
<1>2. QueueInv /\ [QueueNext]_queueVars => [Case!CaseNext]_(Case!caseVars)
  <2> SUFFICES ASSUME QueueInv, [QueueNext]_queueVars
               PROVE  [Case!CaseNext]_(Case!caseVars)
    OBVIOUS
  <2>1. CASE UNCHANGED <<queue, log>>
    BY <2>1 DEF Case!caseVars
  <2>2. ASSUME NEW r \in Request, Commit(r) PROVE Case!CaseNext
    <3>1. /\ txn[r].op \in Operation /\ txn[r].op.target \in Queued
          /\ queue' = [queue EXCEPT ![txn[r].op.target] = Changed(txn[r].op, @)]
          /\ log' = Append(log, txn[r].op)
      BY <2>2, CommitChanges
    <3>2. Case!Operation = Operation
      BY DEF Case!Operation, Operation, Case!Disposition, Disposition
    <3>3. Case!Handle(txn[r].op)
      BY <3>1, SameRules DEF Case!Handle
    <3> QED  BY <3>1, <3>2, <3>3 DEF Case!CaseNext
  <2> QED  BY <2>1, <2>2, OnlyCommitChanges
<1> QED  BY <1>1, <1>2, QueueInvariant, PTL DEF QueueSpec, QueueIsSerial, Case!CaseSpec

\* The entries of a notes column stay, in their places, whoever adds to it (append_note).
THEOREM NotesOnlyGrowTheorem == QueueSpec => NotesOnlyGrow
<1>1. QueueInv /\ [QueueNext]_queueVars
        => [\A a \in Queued :
              /\ Len(queue[a].notes) <= Len(queue'[a].notes)
              /\ SubSeq(queue'[a].notes, 1, Len(queue[a].notes)) = queue[a].notes]_queueVars
  <2> SUFFICES ASSUME QueueInv, [QueueNext]_queueVars, NEW a \in Queued
               PROVE  /\ Len(queue[a].notes) <= Len(queue'[a].notes)
                      /\ SubSeq(queue'[a].notes, 1, Len(queue[a].notes)) = queue[a].notes
    BY DEF queueVars
  <2>1. queue[a] \in QueueRow /\ queue[a].notes \in Seq(NoteEntry)
    BY DEF QueueInv, QueueTypeOK, QueueRow
  <2>2. SubSeq(queue[a].notes, 1, Len(queue[a].notes)) = queue[a].notes
    BY <2>1
  <2>3. CASE queue'[a].notes = queue[a].notes
    BY <2>1, <2>2, <2>3
  <2>4. ASSUME NEW r \in Request, Commit(r), queue'[a].notes # queue[a].notes
        PROVE  \E e : queue'[a].notes = Append(queue[a].notes, e)
    <3> DEFINE op == txn[r].op
    <3>1. op \in Operation /\ op.target \in Queued
          /\ queue' = [queue EXCEPT ![op.target] = Changed(op, @)]
      BY <2>4, CommitChanges
    <3>2. a = op.target /\ queue'[a] = Changed(op, queue[a])
      BY <2>4, <3>1 DEF QueueInv, QueueTypeOK
    <3>3. op.kind # "assign" /\ op.kind # "disposition"
      <4>1. Writes(op) # "status"
        BY <2>1, <2>4, <3>1, <3>2, ChangedKeeps
      <4> QED  BY <3>1, <4>1, OperationFields DEF Writes
    <3>4. queue'[a] = [queue[a] EXCEPT !.notes =
                         Append(queue[a].notes, [by |-> op.actor, text |-> op.arg])]
      BY <3>2, <3>3 DEF Changed, Noted
    <3>5. queue'[a].notes = Append(queue[a].notes, [by |-> op.actor, text |-> op.arg])
      BY <2>1, <3>4 DEF QueueRow
    <3> QED  BY <3>5
  <2>5. ASSUME NEW e, queue'[a].notes = Append(queue[a].notes, e)
        PROVE  /\ Len(queue[a].notes) <= Len(queue'[a].notes)
               /\ SubSeq(queue'[a].notes, 1, Len(queue[a].notes)) = queue[a].notes
    <3> DEFINE n == queue[a].notes
               S == NoteEntry \union {e}
    <3>1. n \in Seq(S) /\ e \in S
      BY <2>1
    <3>2. Len(Append(n, e)) = Len(n) + 1 /\ Len(n) \in Nat
      BY <3>1
    <3>3. SubSeq(Append(n, e), 1, Len(n)) = n
      <4> HIDE DEF n, S
      <4> QED  BY <3>1
    <3> QED  BY <2>5, <3>2, <3>3
  <2>6. CASE UNCHANGED <<queue, log>>
    BY <2>3, <2>6
  <2> QED  BY <2>3, <2>4, <2>5, <2>6, OnlyCommitChanges
<1> QED  BY <1>1, QueueInvariant, PTL DEF QueueSpec, NotesOnlyGrow

\* A page of the audit log is as long as its total asks for (list_audit).
THEOREM PageNotShortTheorem == QueueSpec => []PageNotShort
<1>1. QueueInv => PageNotShort
  BY DEF QueueInv, PageTrue, PageNotShort
<1> QED  BY <1>1, QueueInvariant, PTL
-----------------------------------------------------------------------------
(* QueryService and the composition                                        *)

-----------------------------------------------------------------------------
(* Permits of the query service. *)

ServiceInv == ServiceTypeOK /\ PermitsConserved

Busy == {r \in Request : query[r] # "idle"}

LEMMA BusyFinite ==
    ASSUME NEW B \in SUBSET Request
    PROVE  IsFiniteSet(B) /\ Cardinality(B) \in Nat
BY ConcurrentAssumption, FS_Subset, FS_CardinalityType

LEMMA ServiceInit0 == ServiceInit => ServiceInv
<1> SUFFICES ASSUME ServiceInit PROVE ServiceInv
  OBVIOUS
<1>1. {r \in Request : query[r] # "idle"} = {}
  BY DEF ServiceInit
<1>2. Cardinality({}) = 0
  BY FS_EmptySet
<1>3. permits = MaxConcurrent /\ MaxConcurrent \in Nat
      /\ query \in [Request -> {"idle", "running", "persisting"}]
  BY ConcurrentAssumption DEF ServiceInit
<1> QED  BY <1>1, <1>2, <1>3 DEF ServiceInv, ServiceTypeOK, PermitsConserved

LEMMA ServiceStep == ServiceInv /\ [ServiceNext]_serviceVars => ServiceInv'
<1> SUFFICES ASSUME ServiceInv, [ServiceNext]_serviceVars PROVE ServiceInv'
  OBVIOUS
<1>1. Cardinality(Busy) \in Nat /\ IsFiniteSet(Busy)
      /\ permits + Cardinality(Busy) = MaxConcurrent /\ permits \in Nat
  BY BusyFinite DEF Busy, ServiceInv, ServiceTypeOK, PermitsConserved
<1>2. query \in [Request -> {"idle", "running", "persisting"}]
  BY DEF ServiceInv, ServiceTypeOK
<1>3. ASSUME NEW r \in Request, Acquire(r) PROVE ServiceInv'
  <2>1. {o \in Request : query'[o] # "idle"} = Busy \union {r} /\ r \notin Busy
    BY <1>2, <1>3 DEF Acquire, QueryBecomes, Busy
  <2>2. Cardinality(Busy \union {r}) = Cardinality(Busy) + 1
    BY <1>1, <2>1, FS_AddElement
  <2>3. permits' = permits - 1 /\ permits' \in Nat
    BY <1>1, <1>3 DEF Acquire
  <2>4. query' \in [Request -> {"idle", "running", "persisting"}]
    BY <1>2, <1>3 DEF Acquire, QueryBecomes
  <2> QED  BY <1>1, <2>1, <2>2, <2>3, <2>4 DEF ServiceInv, ServiceTypeOK, PermitsConserved
<1>4. ASSUME NEW r \in Request, Release(r) PROVE ServiceInv'
  <2>1. {o \in Request : query'[o] # "idle"} = Busy \ {r} /\ r \in Busy
    BY <1>2, <1>4 DEF Release, QueryBecomes, Busy
  <2>2. Cardinality(Busy \ {r}) = Cardinality(Busy) - 1
    BY <1>1, <2>1, FS_RemoveElement
  <2>3. permits' = permits + 1 /\ permits' \in Nat
    BY <1>1, <1>4 DEF Release
  <2>4. query' \in [Request -> {"idle", "running", "persisting"}]
    BY <1>2, <1>4 DEF Release, QueryBecomes
  <2>5. Cardinality({o \in Request : query'[o] # "idle"}) = Cardinality(Busy) - 1
    BY <2>1, <2>2
  <2>6. permits' + Cardinality({o \in Request : query'[o] # "idle"}) = MaxConcurrent
    BY <1>1, <2>3, <2>5
  <2> QED  BY <2>3, <2>4, <2>6 DEF ServiceInv, ServiceTypeOK, PermitsConserved
<1>5. ASSUME NEW r \in Request, PersistResponse(r) PROVE ServiceInv'
  <2>1. {o \in Request : query'[o] # "idle"} = Busy
    <3>1. \A o \in Request : query'[o] # "idle" <=> query[o] # "idle"
      BY <1>2, <1>5 DEF PersistResponse, QueryBecomes
    <3> QED  BY <3>1 DEF Busy
  <2>2. query' \in [Request -> {"idle", "running", "persisting"}] /\ permits' = permits
    BY <1>2, <1>5 DEF PersistResponse, QueryBecomes
  <2> QED  BY <1>1, <2>1, <2>2 DEF ServiceInv, ServiceTypeOK, PermitsConserved
<1>6. CASE ServiceRestart
  <2>1. {o \in Request : query'[o] # "idle"} = {}
    BY <1>6 DEF ServiceRestart
  <2>2. Cardinality({}) = 0
    BY FS_EmptySet
  <2>3. permits' = MaxConcurrent /\ MaxConcurrent \in Nat
        /\ query' \in [Request -> {"idle", "running", "persisting"}]
    BY <1>6, ConcurrentAssumption DEF ServiceRestart
  <2> QED  BY <2>1, <2>2, <2>3 DEF ServiceInv, ServiceTypeOK, PermitsConserved
<1>7. CASE UNCHANGED serviceVars
  BY <1>7 DEF serviceVars, ServiceInv, ServiceTypeOK, PermitsConserved
<1> QED  BY <1>3, <1>4, <1>5, <1>6, <1>7 DEF ServiceNext, RefuseQuery

\* Every exit from run gives back the permit it took, once.
THEOREM PermitsConservedTheorem == ServiceSpec => []PermitsConserved
<1>1. ServiceInv => PermitsConserved
  BY DEF ServiceInv
<1> QED  BY <1>1, ServiceInit0, ServiceStep, PTL DEF ServiceSpec

-----------------------------------------------------------------------------
(* The composition: a step of the API is a step, or none, of each service. *)

LEMMA ApiStepOfServices ==
    ASSUME [ApiNext]_apiVars
    PROVE  [AuthNext]_authVars /\ [QueueNext]_queueVars /\ [ServiceNext]_serviceVars
<1>1. CASE UNCHANGED apiVars
  BY <1>1 DEF apiVars
<1>2. ASSUME NEW r \in Request, Arrive(r) \/ Authenticate(r) \/ Forbid(r)
      PROVE  [AuthNext]_authVars /\ UNCHANGED <<queueVars, serviceVars>>
  BY <1>2 DEF Arrive, Authenticate, Forbid, AuthNext
<1>3. ASSUME NEW r \in Request, NEW op \in Operation, MutateAlert(r, op)
      PROVE  AuthNext /\ QueueNext /\ UNCHANGED serviceVars
  BY <1>3 DEF MutateAlert, AuthNext, QueueNext
<1>4. ASSUME NEW r \in Request, ReadAudit(r)
      PROVE  AuthNext /\ QueueNext /\ UNCHANGED serviceVars
  BY <1>4 DEF ReadAudit, AuthNext, QueueNext
<1>5. ASSUME NEW r \in Request, ExecuteQuery(r)
      PROVE  AuthNext /\ ServiceNext /\ UNCHANGED queueVars
  BY <1>5 DEF ExecuteQuery, AuthNext, ServiceNext
<1>6. ASSUME NEW r \in Request, WorkOnQueue(r)
      PROVE  QueueNext /\ UNCHANGED <<authVars, serviceVars>>
  BY <1>6 DEF WorkOnQueue, QueueNext
<1>7. ASSUME NEW r \in Request, WorkOnQuery(r)
      PROVE  ServiceNext /\ UNCHANGED <<authVars, queueVars>>
  BY <1>7 DEF WorkOnQuery, ServiceNext
<1>8. CASE ApiTick \/ ApiRestart
  BY <1>8 DEF ApiTick, ApiRestart, AuthNext, QueueNext, ServiceNext
<1> QED  BY <1>1, <1>2, <1>3, <1>4, <1>5, <1>6, <1>7, <1>8 DEF ApiNext, Quiet

\* The API keeps to the specifications of its services.
THEOREM ApiComposes == ApiSpec => AuthSpec /\ QueueSpec /\ ServiceSpec
<1>1. ApiInit => AuthInit /\ QueueInit /\ ServiceInit
  BY DEF ApiInit
<1>2. [ApiNext]_apiVars
        => [AuthNext]_authVars /\ [QueueNext]_queueVars /\ [ServiceNext]_serviceVars
  BY ApiStepOfServices
<1> QED  BY <1>1, <1>2, PTL DEF ApiSpec, AuthSpec, QueueSpec, ServiceSpec

-----------------------------------------------------------------------------
(* Who changes the queue. *)

\* Who had signed in keeps having done so.
LEMMA KnownStays ==
    ASSUME AuthTypeOK, [AuthNext]_authVars, NEW u, NEW t \in issued, session[t].user = u
    PROVE  t \in issued' /\ session'[t].user = u
<1>1. t \in Token /\ session \in [Token -> Record]
  BY DEF AuthTypeOK
<1>2. CASE UNCHANGED <<session, issued>>
  BY <1>2
<1>3. ASSUME NEW r \in Request, NEW s \in Token, StoreSession(r, s)
      PROVE  t \in issued' /\ session'[t].user = u
  BY <1>1, <1>3 DEF StoreSession
<1>4. ASSUME NEW r \in Request, Resolve(r)
      PROVE  t \in issued' /\ session'[t].user = u
  <2>1. session[t] \in Record
    BY <1>1
  <2> QED  BY <1>1, <1>4, <2>1 DEF Resolve, Record
<1> QED  BY <1>2, <1>3, <1>4 DEF AuthNext, authVars, Tick, BeginAuth, BeginLogin,
             BeginResolve, Revoke, ProceedAuth, PassRateLimit, RefuseLocked, RecordFailure,
             ResolveNone, Leave, AuthRestart

\* Only Resolve lets a request in, with the user of an issued token.
LEMMA AdmittedStep ==
    ASSUME AuthTypeOK, [AuthNext]_authVars, NEW r \in Request, call'[r].pc = "admitted",
           call[r].pc = "admitted" => \E t \in issued : session[t].user = call[r].user
    PROVE  \E t \in issued' : session'[t].user = call'[r].user
<1>1. CASE call'[r] = call[r]
  BY <1>1, KnownStays
<1>2. call \in [Request -> {Idling} \union Login \union Lookup \union Admission]
  BY DEF AuthTypeOK
<1>3. ASSUME NEW o \in Request, Resolve(o), o = r
      PROVE  \E t \in issued' : session'[t].user = call'[r].user
  <2>1. call[r].token \in issued
    BY <1>3 DEF Resolve, AuthTypeOK
  <2>2. call'[r].user = session[call[r].token].user
    BY <1>2, <1>3 DEF Resolve, CallBecomes
  <2> QED  BY <2>1, <2>2, KnownStays
<1>4. ASSUME NEW o \in Request, NEW c, CallBecomes(o, c), c.pc # "admitted"
      PROVE  call'[r] = call[r]
  BY <1>2, <1>4 DEF CallBecomes
<1>5. Idling.pc # "admitted"
  BY DEF Idling
<1>6. ASSUME NEW o \in Request, Resolve(o), o # r PROVE call'[r] = call[r]
  BY <1>2, <1>6 DEF Resolve, CallBecomes
<1>7. ASSUME NEW o \in Request, BeginAuth(o) \/ ProceedAuth(o) \/ Leave(o), ~Resolve(o)
      PROVE  call'[r] = call[r]
  BY <1>4, <1>5, <1>7 DEF BeginAuth, ProceedAuth, BeginLogin, BeginResolve, Revoke,
     PassRateLimit, RefuseLocked, RecordFailure, StoreSession, ResolveNone, Leave
<1>8. CASE AuthRestart
  BY <1>5, <1>8 DEF AuthRestart
<1>9. CASE Tick \/ UNCHANGED authVars
  BY <1>1, <1>9 DEF Tick, authVars
<1> QED  BY <1>1, <1>3, <1>6, <1>7, <1>8, <1>9 DEF AuthNext

\* Every step of the API keeps ActorsKnown.
LEMMA ActorsStep ==
    ASSUME AuthTypeOK, QueueInv, QueueInv', ActorsKnown, [ApiNext]_apiVars
    PROVE  ActorsKnown'
<1>1. [AuthNext]_authVars /\ [QueueNext]_queueVars
  BY ApiStepOfServices
<1>2. ASSUME NEW u, Known(u) PROVE Known(u)'
  BY <1>1, <1>2, KnownStays DEF Known
<1>3. \A r \in Request :
        call'[r].pc = "admitted" => \E t \in issued' : session'[t].user = call'[r].user
  BY <1>1, AdmittedStep DEF ActorsKnown
<1>4. ASSUME NEW r \in Request, txn'[r].pc \in {"begun", "written"},
             txn[r].pc \in {"begun", "written"}, txn'[r].op = txn[r].op
      PROVE  Known(txn[r].op.actor)'
  BY <1>2, <1>4 DEF ActorsKnown
<1>5. txn \in [Request -> Txn]
  BY DEF QueueInv, QueueTypeOK
<1>6. ASSUME NEW r \in Request, NEW t, TxnBecomes(r, t),
             t.pc \in {"begun", "written"} => Known(t.op.actor)'
      PROVE  \A o \in Request : txn'[o].pc \in {"begun", "written"} => Known(txn[o].op.actor)'
  <2> SUFFICES ASSUME NEW o \in Request, txn'[o].pc \in {"begun", "written"}
               PROVE  Known(txn[o].op.actor)'
    OBVIOUS
  <2>1. CASE o = r
    <3>1. txn'[o] = t
      BY <1>5, <1>6, <2>1 DEF TxnBecomes
    <3> QED  BY <1>6, <3>1 DEF Known
  <2>2. CASE o # r
    <3>1. txn'[o] = txn[o]
      BY <1>5, <1>6, <2>2 DEF TxnBecomes
    <3> QED  BY <1>4, <3>1
  <2> QED  BY <2>1, <2>2
<1>7. Idle.pc = "idle"
  BY IdleType
<1>8. ASSUME UNCHANGED log PROVE EventsByReviewers'
  BY <1>2, <1>8 DEF ActorsKnown, EventsByReviewers, Known
<1>9. ASSUME UNCHANGED <<log, txn>> PROVE ActorsKnown'
  <2>1. \A o \in Request : txn'[o].pc \in {"begun", "written"} => Known(txn[o].op.actor)'
    BY <1>4, <1>9
  <2> QED  BY <1>3, <1>8, <1>9, <2>1 DEF ActorsKnown
<1>10. ASSUME NEW r \in Request, NEW op \in Operation, MutateAlert(r, op)
       PROVE  ActorsKnown'
  <2>1. CASE AlertNotFound(r, op)
    BY <1>9, <2>1 DEF AlertNotFound, queueVars
  <2>2. CASE BeginMutation(r, op)
    <3> DEFINE t == [Idle EXCEPT !.pc = "begun", !.op = op, !.seen = queue[op.target]]
    <3>1. Known(op.actor)'
      <4>1. call[r].pc = "admitted" /\ call[r].user \in Reviewer /\ op.actor = call[r].user
        BY <1>10 DEF MutateAlert, MayReview
      <4>2. Known(op.actor)
        BY <4>1 DEF ActorsKnown, Known
      <4> QED  BY <1>2, <4>2
    <3>2. t.op = op
      BY IdleType DEF Txn, Idle
    <3>3. TxnBecomes(r, t) /\ UNCHANGED log
      BY <2>2 DEF BeginMutation
    <3>4. \A o \in Request : txn'[o].pc \in {"begun", "written"} => Known(txn[o].op.actor)'
      <4>1. Known(t.op.actor)'
        BY <3>1, <3>2 DEF Known
      <4>2. ASSUME NEW s, s = t
            PROVE  \A o \in Request :
                     txn'[o].pc \in {"begun", "written"} => Known(txn[o].op.actor)'
        <5>1. TxnBecomes(r, s) /\ (s.pc \in {"begun", "written"} => Known(s.op.actor)')
          BY <3>3, <4>1, <4>2 DEF Known
        <5> QED  BY <1>6, <5>1
      <4> QED  BY <4>2
    <3> QED  BY <1>3, <1>8, <3>3, <3>4 DEF ActorsKnown
  <2> QED  BY <1>10, <2>1, <2>2 DEF MutateAlert
<1>11. ASSUME NEW r \in Request, Commit(r) PROVE ActorsKnown'
  <2>1. txn[r].op \in Operation /\ log' = Append(log, txn[r].op)
    BY <1>11, CommitChanges
  <2>2. Known(txn[r].op.actor)
    BY <1>11 DEF ActorsKnown, Commit
  <2>3. EventsByReviewers'
    <3> SUFFICES ASSUME NEW i \in 1..Len(log') PROVE Known(log[i].actor)'
      BY DEF EventsByReviewers
    <3>1. log \in Seq(Operation)
      BY DEF QueueInv, QueueTypeOK
    <3>2. CASE i = Len(log) + 1
      <4>1. log'[i] = txn[r].op
        BY <2>1, <3>1, <3>2
      <4>2. Known(txn[r].op.actor) => \E t \in issued' : session'[t].user = txn[r].op.actor
        BY <1>1, KnownStays DEF Known
      <4> QED  BY <2>2, <4>1, <4>2 DEF Known
    <3>3. CASE i # Len(log) + 1
      <4>1. i \in 1..Len(log) /\ log'[i] = log[i]
        BY <2>1, <3>1, <3>3
      <4>2. Known(log[i].actor)
        BY <4>1 DEF ActorsKnown, EventsByReviewers
      <4>3. \E t \in issued' : session'[t].user = log[i].actor
        BY <1>1, <4>2, KnownStays DEF Known
      <4> QED  BY <4>1, <4>2, <4>3 DEF Known
    <3> QED  BY <3>2, <3>3
  <2>4. \A o \in Request : txn'[o].pc \in {"begun", "written"}
          => txn[o].pc \in {"begun", "written"} /\ txn'[o].op = txn[o].op
    <3> SUFFICES ASSUME NEW o \in Request, txn'[o].pc \in {"begun", "written"}
                 PROVE  txn[o].pc \in {"begun", "written"} /\ txn'[o].op = txn[o].op
      OBVIOUS
    <3>1. txn[o] \in Txn
      BY <1>5
    <3>2. o # r
      BY <1>7, <1>11 DEF Commit
    <3> QED  BY <1>11, <3>1, <3>2 DEF Commit, Txn
  <2>5. \A o \in Request : txn'[o].pc \in {"begun", "written"} => Known(txn[o].op.actor)'
    BY <1>4, <2>4
  <2> QED  BY <1>3, <2>3, <2>5 DEF ActorsKnown
<1>12. ASSUME NEW r \in Request, ReadAudit(r) \/ WorkOnQueue(r), ~Commit(r)
       PROVE  ActorsKnown'
  <2>1. PICK t : /\ TxnBecomes(r, t) /\ UNCHANGED log
                 /\ \/ t.pc \notin {"begun", "written"}
                    \/ txn[r].pc = "begun" /\ t.op = txn[r].op
    <3>1. txn[r] \in Txn
      BY <1>5
    <3>2. CASE UpdateRow(r)
      <4>1. [txn[r] EXCEPT !.pc = IF Conflict(r) THEN "failed" ELSE "written"].op = txn[r].op
        BY <3>1 DEF Txn
      <4> QED  BY <3>2, <4>1 DEF UpdateRow
    <3>3. CASE StatementFails(r)
      <4>1. [txn[r] EXCEPT !.pc = "failed"].pc = "failed"
        BY <3>1 DEF Txn
      <4> QED  BY <3>3, <4>1 DEF StatementFails
    <3>4. CASE Rollback(r) \/ AnswerPage(r)
      BY <1>7, <3>4 DEF Rollback, AnswerPage
    <3>5. CASE CountEvents(r)
      <4>1. [Idle EXCEPT !.pc = "counting", !.total = Len(log)].pc = "counting"
        BY IdleType DEF Txn, Idle
      <4> QED  BY <3>5, <4>1 DEF CountEvents
    <3>6. CASE SelectEvents(r)
      <4>1. [txn[r] EXCEPT !.pc = "paged", !.shown = Smaller(PageSize, Len(log))].pc = "paged"
        BY <3>1 DEF Txn
      <4> QED  BY <3>6, <4>1 DEF SelectEvents
    <3> QED  BY <1>12, <3>2, <3>3, <3>4, <3>5, <3>6 DEF ReadAudit, WorkOnQueue, ProceedQueue
  <2>2. t.pc \in {"begun", "written"} => Known(t.op.actor)'
    <3> SUFFICES ASSUME t.pc \in {"begun", "written"} PROVE Known(t.op.actor)'
      OBVIOUS
    <3>1. txn[r].pc = "begun" /\ t.op = txn[r].op
      BY <2>1
    <3>2. Known(txn[r].op.actor)
      BY <3>1 DEF ActorsKnown
    <3>3. \E s \in issued' : session'[s].user = txn[r].op.actor
      BY <1>1, <3>2, KnownStays DEF Known
    <3> QED  BY <2>1, <3>1, <3>2, <3>3 DEF Known
  <2>3. \A o \in Request : txn'[o].pc \in {"begun", "written"} => Known(txn[o].op.actor)'
    BY <1>6, <2>1, <2>2
  <2> QED  BY <1>3, <1>8, <2>1, <2>3 DEF ActorsKnown
<1>13. CASE ApiRestart
  <2>1. \A o \in Request : txn'[o].pc \notin {"begun", "written"}
    BY <1>7, <1>13 DEF ApiRestart, QueueRestart
  <2>2. UNCHANGED log
    BY <1>13 DEF ApiRestart, QueueRestart
  <2> QED  BY <1>3, <1>8, <2>1, <2>2 DEF ActorsKnown
<1>14. ASSUME NEW r \in Request,
              Arrive(r) \/ Authenticate(r) \/ Forbid(r) \/ ExecuteQuery(r) \/ WorkOnQuery(r)
       PROVE  ActorsKnown'
  BY <1>9, <1>14 DEF Arrive, Authenticate, Forbid, ExecuteQuery, WorkOnQuery, queueVars
<1>15. CASE ApiTick \/ Quiet \/ UNCHANGED apiVars
  BY <1>9, <1>15 DEF ApiTick, Quiet, apiVars, queueVars
<1> QED  BY <1>10, <1>11, <1>12, <1>13, <1>14, <1>15 DEF ApiNext

-----------------------------------------------------------------------------
(* The theorems about the API as a whole. *)

THEOREM ApiTypes == ApiSpec => []ApiTypeOK
<1>1. AuthInv => AuthTypeOK
  BY DEF AuthInv
<1>2. QueueInv => QueueTypeOK
  BY DEF QueueInv
<1>3. ServiceInv => ServiceTypeOK
  BY DEF ServiceInv
<1>4. ServiceSpec => []ServiceInv
  BY ServiceInit0, ServiceStep, PTL DEF ServiceSpec
<1>5. AuthTypeOK /\ QueueTypeOK /\ ServiceTypeOK => ApiTypeOK
  BY DEF ApiTypeOK
<1> QED  BY <1>1, <1>2, <1>3, <1>4, <1>5, ApiComposes, AuthInvariant, QueueInvariant, PTL

\* Only reviewers who signed in ever change the queue (workflow.py).
THEOREM EventsByReviewersTheorem == ApiSpec => []EventsByReviewers
<1>1. ApiInit => ActorsKnown
  <2> SUFFICES ASSUME ApiInit PROVE ActorsKnown
    OBVIOUS
  <2>1. log = <<>> /\ \A r \in Request : txn[r] = Idle /\ call[r] = Idling
    BY DEF ApiInit, QueueInit, CaseInit, AuthInit
  <2>2. Idling.pc = "idle"
    BY DEF Idling
  <2>3. EventsByReviewers
    BY <2>1 DEF EventsByReviewers
  <2> QED  BY <2>1, <2>2, <2>3, IdleType DEF ActorsKnown
<1>2. AuthInv /\ QueueInv /\ QueueInv' /\ ActorsKnown /\ [ApiNext]_apiVars => ActorsKnown'
  BY ActorsStep DEF AuthInv
<1>3. ActorsKnown => EventsByReviewers
  BY DEF ActorsKnown
<1> QED  BY <1>1, <1>2, <1>3, ApiComposes, AuthInvariant, QueueInvariant, PTL DEF ApiSpec

\* What the services promise, of the whole API: serial changes of the queue, bounded
\* guesses, sessions that stay ended, permits and pages.
THEOREM ApiPromises ==
    ApiSpec => /\ QueueIsSerial /\ EndedStaysEnded
               /\ [](GuessesBounded /\ SessionsBounded /\ PermitsConserved /\ PageNotShort)
BY ApiComposes, QueueIsSerialTheorem, EndedStaysEndedTheorem, GuessesBoundedTheorem,
   SessionsBoundedTheorem, PermitsConservedTheorem, PageNotShortTheorem, PTL
=============================================================================
