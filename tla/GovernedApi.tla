---------------------------- MODULE GovernedApi ----------------------------
(***************************************************************************)
(* The governed API (src/api/routes/auth.py, workflow.py, query.py): each  *)
(* request is resolved to a session by a dependency, its user's roles are  *)
(* checked, and then its handler works on the review queue or on a query.  *)
(* The session may end while the handler works.                            *)
(***************************************************************************)
EXTENDS AuthSessions, GovernedWorkflow, QueryService

CONSTANTS
    Reviewer,   \* the users with a role of workflow.py's _ROLES, query.py's _QUERY_ROLES
    MaxCalls    \* bound: HTTP requests and restarts in all

ASSUME ReviewerAssumption == Reviewer \subseteq User

VARIABLE calls  \* HTTP requests and restarts so far

apiVars == <<authVars, queueVars, serviceVars, calls>>

-----------------------------------------------------------------------------

ApiInit == AuthInit /\ QueueInit /\ ServiceInit /\ calls = 0

\* r has no work in a service.
Free(r) == txn[r].pc = "idle" /\ query[r] = "idle"

Arrive(r) ==
    /\ Free(r)
    /\ calls < MaxCalls
    /\ calls' = calls + 1
    /\ BeginAuth(r)
    /\ UNCHANGED <<queueVars, serviceVars>>

Authenticate(r) ==
    /\ ProceedAuth(r)
    /\ UNCHANGED <<queueVars, serviceVars, calls>>

\* Mutant: the route asks for a session only (require_authenticated_session).
AnyUser(r) == call[r].pc = "admitted"

\* require_workflow_session, require_query_session.
MayReview(r) == call[r].pc = "admitted" /\ call[r].user \in Reviewer

\* 403.
Forbid(r) ==
    /\ call[r].pc = "admitted" /\ call[r].user \notin Reviewer
    /\ Leave(r)
    /\ UNCHANGED <<queueVars, serviceVars, calls>>

\* /workflow/queue/{alert_id}/assign, disposition and notes: the actor is the session's.
MutateAlert(r, op) ==
    /\ MayReview(r)
    /\ op.actor = call[r].user
    /\ BeginMutation(r, op) \/ AlertNotFound(r, op)
    /\ Leave(r)
    /\ UNCHANGED <<serviceVars, calls>>

\* /workflow/audit.
ReadAudit(r) ==
    /\ MayReview(r)
    /\ CountEvents(r)
    /\ Leave(r)
    /\ UNCHANGED <<serviceVars, calls>>

\* /query.
ExecuteQuery(r) ==
    /\ MayReview(r)
    /\ Acquire(r) \/ RefuseQuery(r)
    /\ Leave(r)
    /\ UNCHANGED <<queueVars, calls>>

WorkOnQueue(r) ==
    /\ ProceedQueue(r) \/ StatementFails(r)
    /\ UNCHANGED <<authVars, serviceVars, calls>>

WorkOnQuery(r) ==
    /\ PersistResponse(r) \/ Release(r)
    /\ UNCHANGED <<authVars, queueVars, calls>>

ApiTick == Tick /\ UNCHANGED <<queueVars, serviceVars, calls>>

ApiRestart ==
    /\ calls < MaxCalls
    /\ calls' = calls + 1
    /\ AuthRestart /\ QueueRestart /\ ServiceRestart

\* The bounds are reached and every request is done.
Quiet ==
    /\ calls = MaxCalls /\ clock = MaxClock
    /\ \A r \in Request : Free(r) /\ call[r].pc = "idle"
    /\ UNCHANGED apiVars

ApiNext ==
    \/ \E r \in Request :
          \/ Arrive(r)
          \/ Authenticate(r)
          \/ Forbid(r)
          \/ \E op \in Operation : MutateAlert(r, op)
          \/ ReadAudit(r)
          \/ ExecuteQuery(r)
          \/ WorkOnQueue(r)
          \/ WorkOnQuery(r)
    \/ ApiTick
    \/ Quiet
    \/ ApiRestart

ApiSpec == ApiInit /\ [][ApiNext]_apiVars

-----------------------------------------------------------------------------

ApiTypeOK == AuthTypeOK /\ QueueTypeOK /\ ServiceTypeOK

\* u is a reviewer and has signed in.
Known(u) == u \in Reviewer /\ \E t \in issued : session[t].user = u

\* Whoever stands in the audit log as the actor of a change is a reviewer who had signed
\* in, whatever became of the session while the request was under way
\* (dependencies.py, workflow.py _actor).
EventsByReviewers == \A i \in 1..Len(log) : Known(log[i].actor)

\* Why: so is everyone whose change is under way, and who was let in had signed in.
ActorsKnown ==
    /\ EventsByReviewers
    /\ \A r \in Request : txn[r].pc \in {"begun", "written"} => Known(txn[r].op.actor)
    /\ \A r \in Request :
          call[r].pc = "admitted" => \E t \in issued : session[t].user = call[r].user
=============================================================================
