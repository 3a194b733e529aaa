---------------------------- MODULE QueryService ----------------------------
(***************************************************************************)
(* QueryService (src/api/services/query_service.py): at most MaxConcurrent *)
(* queries at a time, refused rather than queued beyond that.  What a      *)
(* query does is QueryPipeline.                                            *)
(***************************************************************************)
EXTENDS ApiRequests, Naturals, FiniteSets

CONSTANT MaxConcurrent  \* max_concurrent

ASSUME ConcurrentAssumption == MaxConcurrent \in Nat \ {0} /\ IsFiniteSet(Request)

VARIABLES
    permits,    \* what the semaphore has left
    query       \* where each request is in run

serviceVars == <<permits, query>>

-----------------------------------------------------------------------------

ServiceInit ==
    /\ permits = MaxConcurrent
    /\ query = [r \in Request |-> "idle"]

QueryBecomes(r, pc) == query' = [query EXCEPT ![r] = pc]

Acquire(r) ==
    /\ query[r] = "idle"
    /\ permits > 0
    /\ permits' = permits - 1
    /\ QueryBecomes(r, "running")

\* acquire(blocking=False) fails: 503 at once.
RefuseQuery(r) ==
    /\ query[r] = "idle"
    /\ permits = 0
    /\ UNCHANGED serviceVars

\* The executor answers; the answer validates and goes to the sink.
PersistResponse(r) ==
    /\ query[r] = "running"
    /\ QueryBecomes(r, "persisting")
    /\ UNCHANGED permits

\* Mutant: release only where the response is returned.
ReleaseOnSuccess(r) ==
    /\ query[r] \in {"running", "persisting"}
    /\ QueryBecomes(r, "idle")
    /\ permits' = IF query[r] = "persisting" THEN permits + 1 ELSE permits

\* run ends, from wherever an exception leaves it: finally: release().
Release(r) ==
    /\ query[r] \in {"running", "persisting"}
    /\ QueryBecomes(r, "idle")
    /\ permits' = permits + 1

ServiceRestart ==
    /\ permits' = MaxConcurrent
    /\ query' = [r \in Request |-> "idle"]

ServiceNext ==
    \/ \E r \in Request : Acquire(r) \/ RefuseQuery(r) \/ PersistResponse(r) \/ Release(r)
    \/ ServiceRestart

ServiceSpec == ServiceInit /\ [][ServiceNext]_serviceVars

-----------------------------------------------------------------------------

ServiceTypeOK ==
    /\ permits \in Nat
    /\ query \in [Request -> {"idle", "running", "persisting"}]

\* No exit from run keeps a permit, and none gives one back twice.
PermitsConserved ==
    permits + Cardinality({r \in Request : query[r] # "idle"}) = MaxConcurrent
=============================================================================
