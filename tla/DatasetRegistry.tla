-------------------------- MODULE DatasetRegistry --------------------------
(***************************************************************************)
(* The registry of datasets and their workspaces (src/tools/dataset_store.py) *)
(* under the requests that change and read it (src/api/main.py).           *)
(*                                                                         *)
(* A dataset is a row of dataset_registry, a DuckDB schema with its table  *)
(* and a stored file; its identifier is derived from the content, so one   *)
(* content is one dataset.  Registrations, activations and deletions hold  *)
(* _REGISTRY_LOCK; queries take no lock and use a statement at a time.     *)
(* Outside BEGIN .. COMMIT every statement commits on its own.             *)
(***************************************************************************)
EXTENDS Naturals, Sequences, FiniteSets

CONSTANTS
    Content,        \* contents of upload files
    Fits,           \* Fits[c]: the dataset types content c is accepted as
    Request,        \* requests that are served at the same time
    InitialTables,  \* the sets of built-in tables the first start may leave in "main"
    MaxEvents,      \* bound: no request starts once the audit log is this long
    Faults          \* which faults happen: "statement", "audit", "crash"

\* dataset_type; a kyc dataset is never active.
Type == {"primary", "knowledge", "kyc"}
Activatable == {"primary", "knowledge"}

\* The datasets of the tables transactions and saml_knowledge of schema main.
BuiltinId ==
    [t \in Activatable |-> IF t = "primary" THEN "ibm-hi-small-v1" ELSE "saml-d-knowledge-v1"]
Builtin == {BuiltinId[t] : t \in Activatable}

Id == Content \union Builtin

ASSUME FitsAssumption == Fits \in [Content -> SUBSET Type]
ASSUME BuiltinAssumption == Content \intersect Builtin = {}
ASSUME TablesAssumption == InitialTables \subseteq SUBSET Activatable
ASSUME BoundAssumption == MaxEvents \in Nat /\ Faults \subseteq {"statement", "audit", "crash"}

VARIABLES
    server,    \* "up", or what start-up makes next: the registry's table or a built-in row
    ready,     \* the registry's table exists
    main,      \* the built-in tables that exist
    registry,  \* committed rows of dataset_registry
    space,     \* the schema of each content and its table
    files,     \* contents stored under UPLOAD_DIR
    lock,      \* who holds _REGISTRY_LOCK
    req,       \* each request's progress
    log        \* the dataset events of audit_events

vars == <<server, ready, main, registry, space, files, lock, req, log>>

-----------------------------------------------------------------------------
(* Rows, workspaces and requests. *)

\* older: the rows that were there when this one was inserted (ORDER BY ingested_at).
Row == [type: Type \union {"none"}, active: BOOLEAN, older: SUBSET Id]

NoRow == [type |-> "none", active |-> FALSE, older |-> {}]

Registered == {i \in Id : registry[i].type # "none"}

Active(t) == {i \in Id : registry[i].type = t /\ registry[i].active}

\* The dataset active_dataset(t) finds, if any: the newest active one.
Current(t) == {i \in Active(t) : Active(t) \ {i} \subseteq registry[i].older}

\* Mutant: the values of source_file and dataset_type are swapped in the INSERT.
InsertedSwapped(rows, i, t) ==
    [rows EXCEPT ![i] = [type |-> "source file", active |-> t \in Activatable,
                         older |-> Registered \ {i}]]

Inserted(rows, i, t) ==
    [rows EXCEPT ![i] = [type |-> t, active |-> t \in Activatable,
                         older |-> Registered \ {i}]]

\* UPDATE dataset_registry SET is_active = false WHERE dataset_type = t.
Deactivated(rows, t) ==
    [i \in Id |-> IF rows[i].type = t THEN [rows[i] EXCEPT !.active = FALSE] ELSE rows[i]]

WithoutRow(rows, i) ==
    [j \in Id |-> IF j = i THEN NoRow ELSE [rows[j] EXCEPT !.older = @ \ {i}]]

\* A schema holds no table at first; whole: every chunk has been inserted.
Space == [table: Type \union {"none", "empty"}, whole: BOOLEAN]

NoSpace    == [table |-> "none",  whole |-> FALSE]
EmptySpace == [table |-> "empty", whole |-> FALSE]

\* _table_exists: a table of that name, in whatever schema.
TableExists(t) == t \in main \/ \E c \in Content : space[c].table = t

Free == "free"

ASSUME LockAssumption == Free \notin Request

NoOp == [kind |-> "none", id |-> "none", type |-> "none", force |-> FALSE]

Op == {NoOp}
        \union [kind: {"upload"}, id: Content, type: Type, force: BOOLEAN]
        \union [kind: {"activate"}, id: Id, type: Activatable \union {"none"}, force: {FALSE}]
        \union [kind: {"delete", "query"}, id: Id, type: {"none"}, force: {FALSE}]
        \union [kind: {"ingest"}, id: {"none"}, type: {"none"}, force: BOOLEAN]

\* pc: stored = the file is there and the handler off the event loop; waiting = for the
\* lock; creating .. seedKnowledge = initialising the registry; checking .. loaded = stages
\* of an upload, broken = to drop the schema it created; changed = committed and unaudited;
\* resolved .. answered = stages of a query.
Req == [pc: {"idle", "stored", "waiting", "creating", "seedPrimary", "seedKnowledge",
             "checking", "cleared", "filling", "loaded", "broken",
             "activating", "deleting", "unlinking", "changed",
             "resolved", "reading", "answered", "transactions", "knowledge"},
        op: Op,
        got: {"nothing", "part", "whole"}]

Idle == [pc |-> "idle", op |-> NoOp, got |-> "nothing"]

Init ==
    /\ server = "table"
    /\ ready = FALSE
    /\ main \in InitialTables
    /\ registry = [i \in Id |-> NoRow]
    /\ space = [c \in Content |-> NoSpace]
    /\ files = {}
    /\ lock = Free
    /\ req = [r \in Request |-> Idle]
    /\ log = <<>>

\* r goes on to pc.
Goes(r, pc) == req' = [req EXCEPT ![r].pc = pc]

\* r is answered, with a result or with an error.
Ends(r) == req' = [req EXCEPT ![r] = Idle]

\* r leaves the with statement, if it is in it.
Releases(r) == lock' = IF lock = r THEN Free ELSE lock

\* The async handlers of uploads and ingestion occupy the event loop between awaits, an
\* upload also while it waits for the lock (register_uploaded_dataset is called directly).
LoopFree ==
    \A r \in Request : req[r].op.kind \in {"upload", "ingest"} => req[r].pc = "stored"

\* The event loop takes a request in: r, idle so far, is op and reaches pc.
Starts(r, op, pc) ==
    /\ server = "up"
    /\ LoopFree
    /\ req[r].pc = "idle"
    /\ Len(log) < MaxEvents
    /\ req' = [req EXCEPT ![r] = [pc |-> pc, op |-> op, got |-> "nothing"]]

-----------------------------------------------------------------------------
(* initialize_dataset_registry: by the lifespan, and by ensure_dataset_registry for the *)
(* first request that finds no table.                                                   *)

\* One INSERT .. WHERE NOT EXISTS, if the built-in table exists.
Seeds(t) ==
    registry' = IF t \in main /\ BuiltinId[t] \notin Registered
                THEN Inserted(registry, BuiltinId[t], t) ELSE registry

\* A table of that name in an upload's schema only makes get_summary_stats fail.
Unreadable(t) == TableExists(t) /\ t \notin main

CreateRegistry ==
    /\ server = "table"
    /\ ready' = TRUE
    /\ server' = "primary"
    /\ UNCHANGED <<main, registry, space, files, lock, req, log>>

Initialize(t, next) ==
    /\ server = t
    /\ Seeds(t)
    /\ server' = IF Unreadable(t) THEN "up" ELSE next
    /\ UNCHANGED <<ready, main, space, files, lock, req, log>>

\* The lifespan logs the error and serves with what there is.
StartFails ==
    /\ "statement" \in Faults
    /\ server # "up"
    /\ server' = "up"
    /\ UNCHANGED <<ready, main, registry, space, files, lock, req, log>>

\* A request goes on after ensure_dataset_registry: with the lock if it was taken for more
\* than that.
Ensured(r) ==
    IF req[r].op.kind \in {"upload", "activate"}
    THEN Goes(r, "checking") /\ UNCHANGED lock
    ELSE Goes(r, "waiting") /\ Releases(r)

EnsureTable(r) ==
    /\ req[r].pc = "creating"
    /\ ready' = TRUE
    /\ Goes(r, "seedPrimary")
    /\ UNCHANGED <<server, main, registry, space, files, lock, log>>

\* Nobody tries again after an error, since the table exists.
EnsureRow(r, t, pc) ==
    /\ req[r].pc = pc
    /\ Seeds(t)
    /\ IF Unreadable(t) THEN Ends(r) /\ Releases(r)
       ELSE IF t = "primary" THEN Goes(r, "seedKnowledge") /\ UNCHANGED lock ELSE Ensured(r)
    /\ UNCHANGED <<server, ready, main, space, files, log>>

-----------------------------------------------------------------------------
(* _REGISTRY_LOCK. *)

\* Mutant: an activation does not wait for the lock.
TakeLockUnlessActivating(r) ==
    LET op == req[r].op
        open == op.kind = "activate"
    IN  /\ req[r].pc = "waiting"
        /\ lock = Free \/ open
        /\ op.kind = "query" => ~ready
        /\ IF op.kind = "upload" /\ op.id \notin files
           THEN Ends(r) /\ UNCHANGED lock
           ELSE Goes(r, IF ready THEN "checking" ELSE "creating") /\ lock' = IF open THEN lock ELSE r
        /\ UNCHANGED <<server, ready, main, registry, space, files, log>>

\* with _REGISTRY_LOCK, and for an upload path.is_file(); a reader takes the lock only
\* to initialise the registry.
TakeLock(r) ==
    LET op == req[r].op
    IN  /\ req[r].pc = "waiting"
        /\ lock = Free
        /\ op.kind = "query" => ~ready
        /\ IF op.kind = "upload" /\ op.id \notin files
           THEN Ends(r) /\ UNCHANGED lock
           ELSE Goes(r, IF ready THEN "checking" ELSE "creating") /\ lock' = r
        /\ UNCHANGED <<server, ready, main, registry, space, files, log>>

-----------------------------------------------------------------------------
(* POST /datasets/upload. *)

\* _store_upload: the file is renamed to its digest, or the stored one is kept.
StoreUpload(r, c, t, force) ==
    /\ Starts(r, [kind |-> "upload", id |-> c, type |-> t, force |-> force], "stored")
    /\ files' = files \union {c}
    /\ UNCHANGED <<server, ready, main, registry, space, lock, log>>

\* upload.close() was the last await: from here the handler keeps the event loop.
TakeLoop(r) ==
    /\ req[r].pc = "stored"
    /\ LoopFree
    /\ Goes(r, "waiting")
    /\ UNCHANGED <<server, ready, main, registry, space, files, lock, log>>

\* inspect_upload, the fingerprint's duplicate and, with force, its deletion.
CheckDuplicate(r) ==
    LET c == req[r].op.id
        duplicate == c \in Registered
    IN  /\ req[r].pc = "checking"
        /\ req[r].op.kind = "upload"
        /\ IF Fits[c] = {} \/ (duplicate /\ (~req[r].op.force \/ registry[c].active))
           THEN Ends(r) /\ Releases(r) /\ UNCHANGED <<registry, space>>
           ELSE /\ Goes(r, "cleared")
                /\ registry' = IF duplicate THEN WithoutRow(registry, c) ELSE registry
                /\ space' = IF duplicate THEN [space EXCEPT ![c] = NoSpace] ELSE space
                /\ UNCHANGED lock
        /\ UNCHANGED <<server, ready, main, files, log>>

\* CREATE SCHEMA, outside the try that drops it: an error leaves a schema there.
CreateSchema(r) ==
    LET c == req[r].op.id
    IN  /\ req[r].pc = "cleared"
        /\ IF space[c] = NoSpace
           THEN Goes(r, "filling") /\ space' = [space EXCEPT ![c] = EmptySpace] /\ UNCHANGED lock
           ELSE Ends(r) /\ Releases(r) /\ UNCHANGED space
        /\ UNCHANGED <<server, ready, main, registry, files, log>>

\* CREATE TABLE and the first chunks, unless the content has another schema.
CreateTable(r) ==
    LET op == req[r].op
    IN  /\ req[r].pc = "filling"
        /\ space[op.id] = EmptySpace
        /\ IF op.type \in Fits[op.id]
           THEN space' = [space EXCEPT ![op.id] = [table |-> op.type, whole |-> FALSE]]
                /\ UNCHANGED req
           ELSE Goes(r, "broken") /\ UNCHANGED space
        /\ UNCHANGED <<server, ready, main, registry, files, lock, log>>

\* The last chunk.
FillTable(r) ==
    LET c == req[r].op.id
    IN  /\ req[r].pc = "filling"
        /\ space[c] # EmptySpace
        /\ space' = [space EXCEPT ![c] = [table |-> space[c].table, whole |-> TRUE]]
        /\ Goes(r, "loaded")
        /\ UNCHANGED <<server, ready, main, registry, files, lock, log>>

\* Mutant: the datasets of every type are deactivated for the new one.
PublishDeactivatesAll(r) ==
    LET op == req[r].op
        cleared == Deactivated(Deactivated(registry, "primary"), "knowledge")
    IN  /\ req[r].pc = "loaded"
        /\ registry' = Inserted(cleared, op.id, op.type)
        /\ Goes(r, "changed")
        /\ Releases(r)
        /\ UNCHANGED <<server, ready, main, space, files, log>>

\* The registry transaction: the new dataset replaces the active one of its type.
Publish(r) ==
    LET op == req[r].op
        cleared == IF op.type \in Activatable THEN Deactivated(registry, op.type) ELSE registry
    IN  /\ req[r].pc = "loaded"
        /\ registry' = Inserted(cleared, op.id, op.type)
        /\ Goes(r, "changed")
        /\ Releases(r)
        /\ UNCHANGED <<server, ready, main, space, files, log>>

\* Mutant: the schema of a failed registration is left behind.
LeaveBroken(r) ==
    /\ req[r].pc = "broken"
    /\ Ends(r)
    /\ Releases(r)
    /\ UNCHANGED <<server, ready, main, registry, space, files, log>>

\* except: ROLLBACK and DROP SCHEMA.
DropBroken(r) ==
    /\ req[r].pc = "broken"
    /\ space' = [space EXCEPT ![req[r].op.id] = NoSpace]
    /\ Ends(r)
    /\ Releases(r)
    /\ UNCHANGED <<server, ready, main, registry, files, log>>

-----------------------------------------------------------------------------
(* POST /datasets/{id}/activate and DELETE /datasets/{id}. *)

Activate(r, i) ==
    /\ Starts(r, [kind |-> "activate", id |-> i, type |-> "none", force |-> FALSE], "waiting")
    /\ UNCHANGED <<server, ready, main, registry, space, files, lock, log>>

\* The row is read under the lock; without a row, or for kyc, nothing changes.
BeginActivate(r) ==
    LET type == registry[req[r].op.id].type
    IN  /\ req[r].pc = "checking"
        /\ req[r].op.kind = "activate"
        /\ IF type \in Activatable
           THEN req' = [req EXCEPT ![r].pc = "activating", ![r].op.type = type] /\ UNCHANGED lock
           ELSE Ends(r) /\ Releases(r)
        /\ UNCHANGED <<server, ready, main, registry, space, files, log>>

\* Mutant: the handler is async, and takes the transaction to a thread and back.
CommitActivateOnLoop(r) ==
    LET i == req[r].op.id
        cleared == Deactivated(registry, req[r].op.type)
    IN  /\ req[r].pc = "activating"
        /\ LoopFree
        /\ registry' = IF i \in Registered THEN [cleared EXCEPT ![i].active = TRUE]
                       ELSE cleared
        /\ Goes(r, "changed")
        /\ Releases(r)
        /\ UNCHANGED <<server, ready, main, space, files, log>>

\* The transaction of the two UPDATEs (the second finds no row if it is gone).
CommitActivate(r) ==
    LET i == req[r].op.id
        cleared == Deactivated(registry, req[r].op.type)
    IN  /\ req[r].pc = "activating"
        /\ registry' = IF i \in Registered THEN [cleared EXCEPT ![i].active = TRUE]
                       ELSE cleared
        /\ Goes(r, "changed")
        /\ Releases(r)
        /\ UNCHANGED <<server, ready, main, space, files, log>>

Delete(r, i) ==
    /\ Starts(r, [kind |-> "delete", id |-> i, type |-> "none", force |-> FALSE], "waiting")
    /\ UNCHANGED <<server, ready, main, registry, space, files, lock, log>>

\* An unknown, protected or active dataset is refused.
BeginDelete(r) ==
    LET i == req[r].op.id
    IN  /\ req[r].pc = "checking"
        /\ req[r].op.kind = "delete"
        /\ IF i \in Registered \ Builtin /\ ~registry[i].active
           THEN Goes(r, "deleting") /\ UNCHANGED lock
           ELSE Ends(r) /\ Releases(r)
        /\ UNCHANGED <<server, ready, main, registry, space, files, log>>

\* Mutant: the lock is released before the file is removed.
CommitDeleteAndRelease(r) ==
    LET c == req[r].op.id
    IN  /\ req[r].pc = "deleting"
        /\ registry' = WithoutRow(registry, c)
        /\ space' = [space EXCEPT ![c] = NoSpace]
        /\ Goes(r, "unlinking")
        /\ Releases(r)
        /\ UNCHANGED <<server, ready, main, files, log>>

\* DELETE and DROP SCHEMA in one transaction.
CommitDelete(r) ==
    LET c == req[r].op.id
    IN  /\ req[r].pc = "deleting"
        /\ registry' = WithoutRow(registry, c)
        /\ space' = [space EXCEPT ![c] = NoSpace]
        /\ Goes(r, "unlinking")
        /\ UNCHANGED <<server, ready, main, files, lock, log>>

\* stored.unlink(), still under the lock.
UnlinkFile(r) ==
    /\ req[r].pc = "unlinking"
    /\ files' = files \ {req[r].op.id}
    /\ Goes(r, "changed")
    /\ Releases(r)
    /\ UNCHANGED <<server, ready, main, registry, space, log>>

\* Mutant: only what happens to an active dataset is recorded.
RecordEventOfActive(r) ==
    /\ req[r].pc = "changed"
    /\ log' = IF registry[req[r].op.id].active
              THEN Append(log, [event |-> req[r].op.kind, id |-> req[r].op.id]) ELSE log
    /\ Ends(r)
    /\ UNCHANGED <<server, ready, main, registry, space, files, lock>>

\* record_audit_event of the handler, a statement of its own.
RecordEvent(r) ==
    /\ req[r].pc = "changed"
    /\ log' = Append(log, [event |-> req[r].op.kind, id |-> req[r].op.id])
    /\ Ends(r)
    /\ UNCHANGED <<server, ready, main, registry, space, files, lock>>

-----------------------------------------------------------------------------
(* POST /query: AgentRunner.run and its data_loader step, without the lock. *)

Query(r, i) ==
    /\ Starts(r, [kind |-> "query", id |-> i, type |-> "none", force |-> FALSE], "waiting")
    /\ UNCHANGED <<server, ready, main, registry, space, files, lock, log>>

\* resolve_dataset_context: the dataset asked for, or the active one; its identifier
\* is what the rest of the query uses.
ResolveContext(r) ==
    /\ req[r].pc = "waiting"
    /\ req[r].op.kind = "query"
    /\ ready
    /\ IF registry[req[r].op.id].type = "primary" THEN Goes(r, "resolved") ELSE Ends(r)
    /\ UNCHANGED <<server, ready, main, registry, space, files, lock, log>>

\* resolve_transaction_table in load.
ResolveTable(r) ==
    /\ req[r].pc = "resolved"
    /\ IF registry[req[r].op.id].type = "primary" THEN Goes(r, "reading") ELSE Ends(r)
    /\ UNCHANGED <<server, ready, main, registry, space, files, lock, log>>

\* The SELECT in load: an error if the table is gone.
SelectRows(r) ==
    LET i == req[r].op.id
        there == IF i \in Builtin THEN "primary" \in main ELSE space[i].table = "primary"
        rows == IF i \in Builtin \/ space[i].whole THEN "whole" ELSE "part"
    IN  /\ req[r].pc = "reading"
        /\ req' = [req EXCEPT ![r] = IF there THEN [@ EXCEPT !.pc = "answered", !.got = rows]
                                     ELSE Idle]
        /\ UNCHANGED <<server, ready, main, registry, space, files, lock, log>>

\* The response, attributed to the identifier resolved first.
AnswerQuery(r) ==
    /\ req[r].pc = "answered"
    /\ Ends(r)
    /\ UNCHANGED <<server, ready, main, registry, space, files, lock, log>>

-----------------------------------------------------------------------------
(* POST /ingest: ingest_csv and ingest_saml_knowledge. *)

BeginIngest(r, force) ==
    /\ Starts(r, [kind |-> "ingest", id |-> "none", type |-> "none", force |-> force],
              "transactions")
    /\ UNCHANGED <<server, ready, main, registry, space, files, lock, log>>

\* Skipped if _table_exists; but counting the rows of a table that exists only in an
\* upload's schema fails, and the request with it.
IngestTable(r, t, pc) ==
    /\ req[r].pc = pc
    /\ IF TableExists(t) /\ ~req[r].op.force
       THEN /\ IF t \in main /\ pc = "transactions" THEN Goes(r, "knowledge") ELSE Ends(r)
            /\ UNCHANGED main
       ELSE /\ main' = main \union {t}
            /\ IF pc = "transactions" THEN Goes(r, "knowledge") ELSE Ends(r)
    /\ UNCHANGED <<server, ready, registry, space, files, lock, log>>

-----------------------------------------------------------------------------
(* Failures. *)

\* A statement raises: a registration that has created its schema drops it, any other
\* request is answered with the error ("audit": the one of record_audit_event, after the
\* change).  The clean-up itself does not fail.
StatementFails(r) ==
    /\ (IF req[r].pc = "changed" THEN "audit" ELSE "statement") \in Faults
    /\ req[r].pc \notin {"idle", "stored", "waiting", "broken"}
    /\ IF req[r].pc \in {"filling", "loaded"}
       THEN Goes(r, "broken") /\ UNCHANGED lock
       ELSE Ends(r) /\ Releases(r)
    /\ UNCHANGED <<server, ready, main, registry, space, files, log>>

\* The process ends and starts again: what is committed or stored is kept.
Restart ==
    /\ "crash" \in Faults
    /\ server' = "table"
    /\ lock' = Free
    /\ req' = [r \in Request |-> Idle]
    /\ UNCHANGED <<ready, main, registry, space, files, log>>

-----------------------------------------------------------------------------

Boot ==
    CreateRegistry \/ Initialize("primary", "knowledge") \/ Initialize("knowledge", "up")

Accept(r) ==
    \/ \E c \in Content, t \in Type, force \in BOOLEAN : StoreUpload(r, c, t, force)
    \/ \E i \in Id : Activate(r, i) \/ Delete(r, i) \/ Query(r, i)
    \/ \E force \in BOOLEAN : BeginIngest(r, force)

Ensure(r) ==
    \/ EnsureTable(r)
    \/ EnsureRow(r, "primary", "seedPrimary") \/ EnsureRow(r, "knowledge", "seedKnowledge")

Proceed(r) ==
    \/ Ensure(r)
    \/ CheckDuplicate(r) \/ CreateSchema(r) \/ CreateTable(r) \/ FillTable(r)
    \/ Publish(r) \/ DropBroken(r)
    \/ BeginActivate(r) \/ CommitActivate(r)
    \/ BeginDelete(r) \/ CommitDelete(r) \/ UnlinkFile(r) \/ RecordEvent(r)
    \/ ResolveContext(r) \/ ResolveTable(r) \/ SelectRows(r) \/ AnswerQuery(r)
    \/ IngestTable(r, "primary", "transactions") \/ IngestTable(r, "knowledge", "knowledge")

\* The bound is reached and every request has been answered.
Quiet ==
    /\ server = "up"
    /\ Len(log) >= MaxEvents
    /\ \A r \in Request : req[r] = Idle
    /\ UNCHANGED vars

Next ==
    \/ Boot \/ StartFails
    \/ \E r \in Request :
          Accept(r) \/ TakeLoop(r) \/ TakeLock(r) \/ Proceed(r) \/ StatementFails(r)
    \/ Restart
    \/ Quiet

Spec == Init /\ [][Next]_vars

\* Handlers run to their end.  An upload whose file is stored gets its turn on the event
\* loop, whose queue is first in, first out; who waits for the lock gets it in the end, if
\* it is free again and again.
FairSpec ==
    /\ Spec
    /\ WF_vars(Boot)
    /\ \A r \in Request : WF_vars(Proceed(r)) /\ SF_vars(TakeLoop(r)) /\ SF_vars(TakeLock(r))

-----------------------------------------------------------------------------
(* Properties. *)

TypeOK ==
    /\ server \in {"table", "primary", "knowledge", "up"}
    /\ ready \in BOOLEAN
    /\ main \in SUBSET Activatable
    /\ registry \in [Id -> Row]
    /\ space \in [Content -> Space]
    /\ files \in SUBSET Content
    /\ lock \in Request \union {Free}
    /\ req \in [Request -> Req]
    /\ log \in Seq([event: {"upload", "activate", "delete"}, id: Id])

\* A row of the registry is only ever there with all it stands for: the whole table, of
\* a type the content is accepted as, and the stored file (register_uploaded_dataset
\* publishes last, delete_dataset removes the row first), through crashes as well.
RegisteredIsComplete ==
    /\ \A c \in Content \intersect Registered :
          /\ space[c] = [table |-> registry[c].type, whole |-> TRUE]
          /\ registry[c].type \in Fits[c]
          /\ c \in files
    /\ \A t \in Activatable : BuiltinId[t] \in Registered => t \in main

\* No interleaving leaves a type with datasets but without an active one, or with two
\* that requests made active ("test_activation_switches_exactly_one_primary_workspace").
\* What start-up inserts is active at once, so it may be the second, but then the newest,
\* which active_dataset prefers.  A type without any dataset has no active one: the table
\* was not ingested, or start-up failed and was not repeated.
OneActivePerType ==
    \A t \in Activatable :
        LET others == Active(t) \ {BuiltinId[t]}
        IN  /\ (\E i \in Id : registry[i].type = t) => Active(t) # {}
            /\ \A i, j \in others : i = j
            /\ BuiltinId[t] \in Active(t) => others \subseteq registry[BuiltinId[t]].older

\* Queries' default dataset changes only for a cause: an upload or an activation that
\* commits, to its own dataset, or a start, to the built-in one it had never inserted.  No
\* deletion, ingestion, failure or request that initialises the registry changes it.
DefaultChangesHaveCause ==
    [][\A t \in Activatable :
          Current(t) # {} /\ Current(t) # Current(t)' =>
             \/ \E r \in Request : /\ req[r].op.kind \in {"upload", "activate"}
                                   /\ req'[r].pc = "changed" /\ req[r].pc # "changed"
                                   /\ Current(t)' = {req[r].op.id}
             \/ /\ server # "up"
                /\ BuiltinId[t] \notin Registered
                /\ Current(t)' = {BuiltinId[t]}]_vars

\* While the process is not killed, an upload that fails leaves no schema behind: one
\* that no row names belongs to the registration that holds the lock.
FailedUploadLeavesNothing ==
    \A c \in Content \ Registered :
        space[c] # NoSpace =>
            /\ lock \in Request
            /\ req[lock].op.id = c
            /\ req[lock].pc \in {"filling", "loaded", "broken"}

\* Uploads and deletions in the audit log account for the datasets there are, once the
\* events still to be written are counted: none is there without an upload after its
\* last deletion, none was deleted more often than uploaded.
AuditAccountsForDatasets ==
    \A c \in Content :
        LET events(kind) ==
              Cardinality({n \in 1..Len(log) : log[n] = [event |-> kind, id |-> c]})
            pending(kind, pcs) ==
              Cardinality({r \in Request : /\ req[r].op.kind = kind
                                           /\ req[r].op.id = c
                                           /\ req[r].pc \in pcs})
            uploads == events("upload") + pending("upload", {"changed"})
            deletions == events("delete") + pending("delete", {"unlinking", "changed"})
        IN  IF c \in Registered THEN uploads > deletions ELSE uploads >= deletions

\* Every request is answered: no path keeps the lock, and whoever holds it goes on without
\* the event loop, which an upload may occupy while it waits for the lock.
EveryRequestAnswered == \A r \in Request : req[r].pc # "idle" ~> req[r].pc = "idle"

-----------------------------------------------------------------------------
(* What the code's documents say and the code does not do. *)

\* "Return a predicate-pushed slice from the selected primary dataset."
\* (tools/data_loader.py): a query sees the dataset, not a part of it.
QueriesSeeWholeDataset == \A r \in Request : req[r].got # "part"
=============================================================================
