----------------------- MODULE DatasetRegistryProofs -----------------------
(***************************************************************************)
(* What holds of the registry for any number of requests and contents:     *)
(* rows are complete, one dataset of a type is active, but for what a      *)
(* start inserts, the default changes for a cause, a failed upload leaves  *)
(* nothing, and the audit log accounts for the datasets there are.         *)
(***************************************************************************)
EXTENDS DatasetRegistry, FiniteSetTheorems, TLAPS

-----------------------------------------------------------------------------
(* The helpers of requests. *)

Stage == {"idle", "stored", "waiting", "creating", "seedPrimary", "seedKnowledge", "checking", "cleared", "filling", "loaded", "broken",
          "activating", "deleting", "unlinking", "changed",
          "resolved", "reading", "answered", "transactions", "knowledge"}

LEMMA IdleType == Idle \in Req
  BY DEF Idle, Req, Op, NoOp

\* A step of r within its request.
LEMMA GoesFacts ==
    ASSUME req \in [Request -> Req], NEW r \in Request, NEW pc \in Stage, Goes(r, pc)
    PROVE  /\ req' \in [Request -> Req]
           /\ req'[r].pc = pc /\ req'[r].op = req[r].op
           /\ \A s \in Request \ {r} : req'[s] = req[s]
  BY DEF Goes, Req, Stage

LEMMA EndsFacts ==
    ASSUME req \in [Request -> Req], NEW r \in Request, Ends(r)
    PROVE  /\ req' \in [Request -> Req]
           /\ req'[r] = Idle /\ req'[r].pc = "idle"
           /\ \A s \in Request \ {r} : req'[s] = req[s]
  <1>1. Idle.pc = "idle"
    BY DEF Idle
  <1> QED  BY <1>1, IdleType DEF Ends

LEMMA StartsFacts ==
    ASSUME req \in [Request -> Req], NEW r \in Request, NEW op \in Op, NEW pc \in Stage,
           Starts(r, op, pc)
    PROVE  /\ server = "up" /\ req[r].pc = "idle"
           /\ req' \in [Request -> Req]
           /\ req'[r].pc = pc /\ req'[r].op = op
           /\ \A s \in Request \ {r} : req'[s] = req[s]
  <1>1. [pc |-> pc, op |-> op, got |-> "nothing"] \in Req
    BY DEF Req, Stage
  <1> QED  BY <1>1 DEF Starts

\* What the kind of a request says of its arguments.
LEMMA OpFacts ==
    ASSUME NEW op \in Op
    PROVE  /\ op.kind = "upload" => op.id \in Content /\ op.type \in Type
           /\ op.kind = "activate" => op.id \in Id
           /\ op.kind = "delete" => op.id \in Id
           /\ op.kind = "query" => op.id \in Id
  <1>1. op = NoOp \/ op \in [kind: {"upload"}, id: Content, type: Type, force: BOOLEAN]
             \/ op \in [kind: {"activate"}, id: Id, type: Activatable \union {"none"}, force: {FALSE}]
             \/ op \in [kind: {"delete", "query"}, id: Id, type: {"none"}, force: {FALSE}]
             \/ op \in [kind: {"ingest"}, id: {"none"}, type: {"none"}, force: BOOLEAN]
    BY DEF Op
  <1>2. CASE op = NoOp
    BY <1>2 DEF NoOp
  <1>3. CASE op \in [kind: {"upload"}, id: Content, type: Type, force: BOOLEAN]
    BY <1>3
  <1>4. CASE op \in [kind: {"activate"}, id: Id, type: Activatable \union {"none"}, force: {FALSE}]
    BY <1>4
  <1>5. CASE op \in [kind: {"delete", "query"}, id: Id, type: {"none"}, force: {FALSE}]
    BY <1>5
  <1>6. CASE op \in [kind: {"ingest"}, id: {"none"}, type: {"none"}, force: BOOLEAN]
    BY <1>6
  <1> QED  BY <1>1, <1>2, <1>3, <1>4, <1>5, <1>6

-----------------------------------------------------------------------------
(* The statements on dataset_registry. *)

LEMMA BuiltinFacts ==
    /\ \A t \in Activatable : BuiltinId[t] \in Builtin
    /\ Builtin \subseteq Id /\ Content \subseteq Id
    /\ \A c \in Content : c \notin Builtin
    /\ \A i \in Id \ Builtin : i \in Content
    /\ BuiltinId["primary"] # BuiltinId["knowledge"]
  BY BuiltinAssumption DEF Builtin, Id, BuiltinId, Activatable

LEMMA InsertedFacts ==
    ASSUME NEW rows \in [Id -> Row], NEW i \in Id, NEW t \in Type
    PROVE  /\ Inserted(rows, i, t) \in [Id -> Row]
           /\ Inserted(rows, i, t)[i].type = t
           /\ Inserted(rows, i, t)[i].active <=> t \in Activatable
           /\ Inserted(rows, i, t)[i].older = Registered \ {i}
           /\ \A j \in Id \ {i} : Inserted(rows, i, t)[j] = rows[j]
  <1>1. [type |-> t, active |-> t \in Activatable, older |-> Registered \ {i}] \in Row
    BY DEF Row, Registered
  <1> QED  BY <1>1 DEF Inserted

LEMMA DeactivatedFacts ==
    ASSUME NEW rows \in [Id -> Row], NEW t \in Type
    PROVE  /\ Deactivated(rows, t) \in [Id -> Row]
           /\ \A i \in Id : /\ Deactivated(rows, t)[i].type = rows[i].type
                            /\ Deactivated(rows, t)[i].older = rows[i].older
                            /\ rows[i].type = t => Deactivated(rows, t)[i].active = FALSE
                            /\ rows[i].type # t => Deactivated(rows, t)[i] = rows[i]
  <1>1. \A i \in Id : rows[i] \in Row /\ [rows[i] EXCEPT !.active = FALSE] \in Row
    BY DEF Row
  <1>2. \A i \in Id : /\ [rows[i] EXCEPT !.active = FALSE].type = rows[i].type
                     /\ [rows[i] EXCEPT !.active = FALSE].older = rows[i].older
                     /\ [rows[i] EXCEPT !.active = FALSE].active = FALSE
    BY DEF Row
  <1> QED  BY <1>1, <1>2 DEF Deactivated

LEMMA ActivatedFacts ==
    ASSUME NEW rows \in [Id -> Row], NEW i \in Id
    PROVE  /\ [rows EXCEPT ![i].active = TRUE] \in [Id -> Row]
           /\ [rows EXCEPT ![i].active = TRUE][i].type = rows[i].type
           /\ [rows EXCEPT ![i].active = TRUE][i].older = rows[i].older
           /\ [rows EXCEPT ![i].active = TRUE][i].active
           /\ \A j \in Id \ {i} : [rows EXCEPT ![i].active = TRUE][j] = rows[j]
  <1> DEFINE new == [rows[i] EXCEPT !.active = TRUE]
  <1>1. new \in Row /\ new.type = rows[i].type /\ new.older = rows[i].older /\ new.active
    BY DEF Row
  <1>2. [rows EXCEPT ![i].active = TRUE] = [rows EXCEPT ![i] = new]
    OBVIOUS
  <1> HIDE DEF new
  <1> QED  BY <1>1, <1>2

LEMMA WithoutRowFacts ==
    ASSUME NEW rows \in [Id -> Row], NEW i \in Id
    PROVE  /\ WithoutRow(rows, i) \in [Id -> Row]
           /\ WithoutRow(rows, i)[i] = NoRow
           /\ \A j \in Id \ {i} : /\ WithoutRow(rows, i)[j].type = rows[j].type
                                  /\ WithoutRow(rows, i)[j].active = rows[j].active
                                  /\ WithoutRow(rows, i)[j].older = rows[j].older \ {i}
  <1>1. NoRow \in Row
    BY DEF NoRow, Row
  <1> QED  BY <1>1 DEF WithoutRow, Row

\* Only the rows of one content change their schema.
LEMMA SpaceFacts ==
    ASSUME space \in [Content -> Space], NEW c \in Content, NEW new \in Space,
           space' = [space EXCEPT ![c] = new]
    PROVE  /\ space' \in [Content -> Space]
           /\ space'[c] = new
           /\ \A d \in Content \ {c} : space'[d] = space[d]
  OBVIOUS

LEMMA SpaceTypes ==
    /\ NoSpace \in Space /\ EmptySpace \in Space
    /\ \A t \in Type, whole \in BOOLEAN : [table |-> t, whole |-> whole] \in Space
    /\ NoSpace # EmptySpace
    /\ \A t \in Type : EmptySpace # [table |-> t, whole |-> FALSE]
  BY DEF NoSpace, EmptySpace, Space, Type

-----------------------------------------------------------------------------
(* Types and the lock. *)

Holding == {"creating", "seedPrimary", "seedKnowledge", "checking", "cleared", "filling", "loaded", "broken", "activating",
            "deleting", "unlinking"}

\* Exactly the requests between with _REGISTRY_LOCK and its end hold the lock.
LockHeld == \A r \in Request : req[r].pc \in Holding <=> lock = r

\* No request is served while the server starts.
ServedWhenUp == server # "up" => \A r \in Request : req[r].pc = "idle"

\* What a request that waits for the lock or holds it relies on.
UploadStage(r) ==
    LET op == req[r].op
    IN  /\ req[r].pc \in {"stored", "cleared", "filling", "loaded", "broken"} =>
              op.kind = "upload"
        /\ op.kind = "upload" /\ req[r].pc \in Holding => op.id \in files
        /\ req[r].pc \in {"cleared", "filling", "loaded", "broken"} =>
              op.id \notin Registered
        /\ req[r].pc = "filling" =>
              \/ space[op.id] = EmptySpace
              \/ op.type \in Fits[op.id] /\ space[op.id].table = op.type
        /\ req[r].pc = "loaded" =>
              op.type \in Fits[op.id] /\ space[op.id] = [table |-> op.type, whole |-> TRUE]

OtherStage(r) ==
    LET op == req[r].op
    IN  /\ req[r].pc = "activating" =>
              /\ op.kind = "activate" /\ op.type \in Activatable
              /\ registry[op.id].type = op.type
        /\ req[r].pc \in {"deleting", "unlinking"} =>
              op.kind = "delete" /\ op.id \in Content
        /\ req[r].pc = "deleting" => op.id \in Registered /\ ~registry[op.id].active
        /\ req[r].pc = "unlinking" => op.id \notin Registered
        /\ req[r].pc = "changed" => op.kind \in {"upload", "activate", "delete"}

\* Who holds the lock has the registry's table, or creates it; nobody else adds rows
\* before it is initialised.
EnsureStage(r) ==
    /\ req[r].pc = "creating" => ~ready
    /\ req[r].pc \in Holding \ {"creating"} => ready
    /\ req[r].pc = "seedPrimary" => Registered = {}
    /\ req[r].pc = "seedKnowledge" => \A i \in Registered : registry[i].type = "primary"

StageOK(r) == UploadStage(r) /\ OtherStage(r) /\ EnsureStage(r)

\* No rows without the table.
TableThere ==
    /\ ~ready => Registered = {}
    /\ server \in {"primary", "knowledge"} => ready

\* What the steps preserve.
RInv ==
    /\ TypeOK
    /\ LockHeld
    /\ ServedWhenUp
    /\ TableThere
    /\ \A r \in Request : StageOK(r)
    /\ RegisteredIsComplete

-----------------------------------------------------------------------------
(* The other requests. *)

\* A request outside the lock relies on nothing that the others change, and one that
\* holds it changes nothing for the others.
LEMMA StagesOfOthers ==
    ASSUME TypeOK, LockHeld, \A s \in Request : StageOK(s),
           NEW r \in Request,
           \A s \in Request \ {r} : req'[s] = req[s],
           lock = r \/ (/\ registry' = registry /\ space' = space /\ files \subseteq files'
                        /\ ready' = ready),
           StageOK(r)'
    PROVE  \A s \in Request : StageOK(s)'
  <1> SUFFICES ASSUME NEW s \in Request \ {r} PROVE StageOK(s)'
    OBVIOUS
  <1>1. CASE lock = r
    <2>1. req[s].pc \notin Holding
      BY <1>1 DEF LockHeld
    <2> QED  BY <2>1 DEF StageOK, UploadStage, OtherStage, EnsureStage, Holding
  <1>2. CASE /\ registry' = registry /\ space' = space /\ files \subseteq files'
             /\ ready' = ready
    BY <1>2 DEF StageOK, UploadStage, OtherStage, EnsureStage, Holding, Registered
  <1> QED  BY <1>1, <1>2

\* The lock passes between nobody and r only.
LEMMA LockOfOthers ==
    ASSUME LockHeld, NEW r \in Request,
           \A s \in Request \ {r} : req'[s] = req[s],
           lock' = lock \/ (lock \in {r, Free} /\ lock' \in {r, Free}),
           req'[r].pc \in Holding <=> lock' = r
    PROVE  LockHeld'
  BY LockAssumption DEF LockHeld

\* A step of r in a server that is up.
LEMMA StepOfOne ==
    ASSUME RInv, NEW r \in Request, TypeOK',
           server = "up", server' = "up",
           \A s \in Request \ {r} : req'[s] = req[s],
           lock' = lock \/ (lock \in {r, Free} /\ lock' \in {r, Free}),
           req'[r].pc \in Holding <=> lock' = r,
           lock = r \/ (/\ registry' = registry /\ space' = space /\ files \subseteq files'
                        /\ ready' = ready),
           ready' \/ (registry' = registry /\ ready' = ready),
           StageOK(r)',
           RegisteredIsComplete'
    PROVE  RInv'
  <1>1. LockHeld'
    BY LockOfOthers DEF RInv
  <1>2. \A s \in Request : StageOK(s)'
    BY StagesOfOthers DEF RInv
  <1>3. TableThere'
    BY DEF RInv, TableThere, Registered
  <1> QED  BY <1>1, <1>2, <1>3 DEF RInv, ServedWhenUp

\* A step of r under the lock, once the registry's table is there.
LEMMA StepUnderLock ==
    ASSUME RInv, NEW r \in Request, TypeOK',
           req[r].pc \in {"checking", "cleared", "filling", "loaded", "broken", "activating",
                          "deleting", "unlinking", "seedPrimary", "seedKnowledge"},
           UNCHANGED <<server, ready>>,
           \A s \in Request \ {r} : req'[s] = req[s],
           lock' \in {r, Free}, req'[r].pc \in Holding <=> lock' = r,
           StageOK(r)',
           RegisteredIsComplete'
    PROVE  RInv'
  <1>1. /\ req[r].pc \in Holding /\ req[r].pc # "creating" /\ req[r].pc # "idle"
        /\ lock = r /\ ready
    BY DEF Holding, RInv, LockHeld, StageOK, EnsureStage
  <1>2. server = "up"
    BY <1>1 DEF RInv, ServedWhenUp
  <1> QED  BY <1>1, <1>2, StepOfOne

\* What a step has to keep for the rows to stay complete.
LEMMA CompleteKept ==
    ASSUME RegisteredIsComplete, main \subseteq main',
           \A c \in Content \intersect Registered' :
              /\ c \in Registered /\ registry'[c].type = registry[c].type
              /\ space'[c] = space[c]
              /\ c \in files => c \in files',
           \A t \in Activatable : BuiltinId[t] \in Registered' => BuiltinId[t] \in Registered
    PROVE  RegisteredIsComplete'
  BY DEF RegisteredIsComplete

\* A step of r that leaves the registry alone.
LEMMA StepOnItsOwn ==
    ASSUME RInv, NEW r \in Request, TypeOK',
           server = "up", server' = "up",
           \A s \in Request \ {r} : req'[s] = req[s],
           lock' = lock \/ (lock \in {r, Free} /\ lock' \in {r, Free}),
           req'[r].pc \in Holding <=> lock' = r,
           registry' = registry, space' = space, files \subseteq files', ready' = ready,
           main \subseteq main',
           StageOK(r)'
    PROVE  RInv'
  <1>1. Registered' = Registered
    BY DEF Registered
  <1>2. RegisteredIsComplete'
    BY <1>1, CompleteKept DEF RInv
  <1> QED  BY <1>2, StepOfOne

\* A request under way is served by a server that is up.
LEMMA UpFact ==
    ASSUME RInv, NEW r \in Request, req[r].pc # "idle"
    PROVE  server = "up"
  BY DEF RInv, ServedWhenUp

\* The end of a request, its error paths included.
LEMMA EndStep ==
    ASSUME RInv, NEW r \in Request, req[r].pc # "idle", Ends(r),
           Releases(r) \/ (lock' = lock /\ req[r].pc \notin Holding),
           UNCHANGED <<server, ready, main, registry, space, files>>,
           log' \in Seq([event: {"upload", "activate", "delete"}, id: Id])
    PROVE  RInv'
  <1>1. req \in [Request -> Req]
    BY DEF RInv, TypeOK
  <1>2. /\ req' \in [Request -> Req] /\ req'[r].pc = "idle"
        /\ \A s \in Request \ {r} : req'[s] = req[s]
    BY <1>1, EndsFacts
  <1>3. req[r].pc \in Holding <=> lock = r
    BY DEF RInv, LockHeld
  <1>4. /\ lock' # r /\ lock' \in Request \union {Free}
        /\ lock' = lock \/ (lock \in {r, Free} /\ lock' \in {r, Free})
    BY <1>3, LockAssumption DEF Releases, RInv, TypeOK
  <1>5. TypeOK'
    BY <1>2, <1>4 DEF RInv, TypeOK
  <1>6. StageOK(r)'
    BY <1>2 DEF StageOK, UploadStage, OtherStage, EnsureStage, Holding
  <1> QED  BY <1>2, <1>4, <1>5, <1>6, UpFact, StepOnItsOwn DEF Holding

-----------------------------------------------------------------------------
(* Arrivals, the event loop and the lock. *)

\* A request that arrives.
LEMMA ArrivesStep ==
    ASSUME RInv, NEW r \in Request, NEW op \in Op,
           NEW pc \in {"stored", "waiting", "transactions"},
           pc = "stored" => op.kind = "upload",
           Starts(r, op, pc),
           UNCHANGED <<server, ready, main, registry, space, lock, log>>,
           files \subseteq files', files' \in SUBSET Content
    PROVE  RInv'
  <1>1. pc \in Stage /\ req \in [Request -> Req]
    BY DEF Stage, RInv, TypeOK
  <1>2. /\ server = "up" /\ req[r].pc = "idle"
        /\ req' \in [Request -> Req] /\ req'[r].pc = pc /\ req'[r].op = op
        /\ \A s \in Request \ {r} : req'[s] = req[s]
    BY <1>1, StartsFacts
  <1>3. lock # r /\ pc \notin Holding
    BY <1>2 DEF RInv, LockHeld, Holding
  <1>4. TypeOK'
    BY <1>2 DEF RInv, TypeOK
  <1>5. StageOK(r)'
    BY <1>2 DEF StageOK, UploadStage, OtherStage, EnsureStage, Holding
  <1> QED  BY <1>2, <1>3, <1>4, <1>5, StepOnItsOwn

LEMMA AcceptStep ==
    ASSUME RInv, NEW r \in Request, Accept(r)
    PROVE  RInv'
  <1>1. files \in SUBSET Content
    BY DEF RInv, TypeOK
  <1>2. ASSUME NEW c \in Content, NEW t \in Type, NEW force \in BOOLEAN,
               StoreUpload(r, c, t, force)
        PROVE  RInv'
    <2> DEFINE op == [kind |-> "upload", id |-> c, type |-> t, force |-> force]
    <2>1. op \in Op /\ op.kind = "upload"
      BY DEF Op
    <2>2. Starts(r, op, "stored")
      BY <1>2 DEF StoreUpload
    <2>3. files \subseteq files' /\ files' \in SUBSET Content
      BY <1>1, <1>2 DEF StoreUpload
    <2> HIDE DEF op
    <2> QED  BY <1>2, <2>1, <2>2, <2>3, ArrivesStep DEF StoreUpload
  <1>3. ASSUME NEW i \in Id, Activate(r, i) \/ Delete(r, i) \/ Query(r, i) PROVE RInv'
    <2>1. PICK kind \in {"activate", "delete", "query"} :
             Starts(r, [kind |-> kind, id |-> i, type |-> "none", force |-> FALSE], "waiting")
      BY <1>3 DEF Activate, Delete, Query
    <2> DEFINE op == [kind |-> kind, id |-> i, type |-> "none", force |-> FALSE]
    <2>2. op \in Op
      BY DEF Op
    <2>3. Starts(r, op, "waiting")
      BY <2>1
    <2> HIDE DEF op
    <2> QED  BY <1>1, <1>3, <2>2, <2>3, ArrivesStep DEF Activate, Delete, Query
  <1>4. ASSUME NEW force \in BOOLEAN, BeginIngest(r, force) PROVE RInv'
    <2> DEFINE op == [kind |-> "ingest", id |-> "none", type |-> "none", force |-> force]
    <2>1. op \in Op
      BY DEF Op
    <2>2. Starts(r, op, "transactions")
      BY <1>4 DEF BeginIngest
    <2> HIDE DEF op
    <2> QED  BY <1>1, <1>4, <2>1, <2>2, ArrivesStep DEF BeginIngest
  <1> QED  BY <1>2, <1>3, <1>4 DEF Accept

LEMMA TakeLoopStep ==
    ASSUME RInv, NEW r \in Request, TakeLoop(r)
    PROVE  RInv'
  <1>1. /\ req \in [Request -> Req] /\ req[r].pc = "stored" /\ "waiting" \in Stage
        /\ UNCHANGED <<server, ready, main, registry, space, files, lock, log>>
    BY DEF Stage, RInv, TypeOK, TakeLoop
  <1>2. /\ req' \in [Request -> Req] /\ req'[r].pc = "waiting"
        /\ \A s \in Request \ {r} : req'[s] = req[s]
    BY <1>1, GoesFacts DEF TakeLoop
  <1>3. lock # r /\ "waiting" \notin Holding
    BY <1>1 DEF RInv, LockHeld, Holding
  <1>4. TypeOK'
    BY <1>1, <1>2 DEF RInv, TypeOK
  <1>5. StageOK(r)'
    BY <1>2 DEF StageOK, UploadStage, OtherStage, EnsureStage, Holding
  <1> QED  BY <1>1, <1>2, <1>3, <1>4, <1>5, UpFact, StepOnItsOwn

LEMMA TakeLockStep ==
    ASSUME RInv, NEW r \in Request, TakeLock(r)
    PROVE  RInv'
  <1> USE DEF TakeLock
  <1>1. /\ {"checking", "creating"} \subseteq Stage /\ req \in [Request -> Req]
        /\ req[r].pc = "waiting" /\ req[r].pc \notin Holding
    BY DEF Stage, Holding, RInv, TypeOK
  <1>2. CASE /\ req[r].op.kind = "upload" => req[r].op.id \in files
             /\ Goes(r, IF ready THEN "checking" ELSE "creating") /\ lock' = r
    <2> DEFINE pc == IF ready THEN "checking" ELSE "creating"
    <2>1. /\ req' \in [Request -> Req] /\ req'[r].pc = pc
          /\ req'[r].op = req[r].op
          /\ \A s \in Request \ {r} : req'[s] = req[s]
      BY <1>1, <1>2, GoesFacts
    <2>2. TypeOK'
      BY <1>2, <2>1 DEF RInv, TypeOK
    <2>3. StageOK(r)'
      BY <1>2, <2>1 DEF StageOK, UploadStage, OtherStage, EnsureStage
    <2>4. req'[r].pc \in Holding
      BY <2>1 DEF Holding
    <2> QED  BY <1>1, <1>2, <2>1, <2>2, <2>3, <2>4, UpFact, StepOnItsOwn
  <1>3. CASE Ends(r) /\ UNCHANGED lock
    BY <1>1, <1>3, EndStep DEF RInv, TypeOK
  <1> QED  BY <1>2, <1>3

-----------------------------------------------------------------------------
(* The registry is initialised. *)

\* At most the row of the built-in dataset is new.
LEMMA SeedsFacts ==
    ASSUME TypeOK, NEW t \in Activatable, Seeds(t)
    PROVE  /\ registry' \in [Id -> Row]
           /\ \/ registry' = registry
              \/ /\ t \in main /\ BuiltinId[t] \notin Registered
                 /\ registry'[BuiltinId[t]].type = t
                 /\ registry'[BuiltinId[t]].active
                 /\ registry'[BuiltinId[t]].older = Registered \ {BuiltinId[t]}
                 /\ \A i \in Id \ {BuiltinId[t]} : registry'[i] = registry[i]
  <1>1. t \in Type /\ BuiltinId[t] \in Id /\ registry \in [Id -> Row]
    BY BuiltinFacts DEF TypeOK, Type, Activatable
  <1>2. registry' = registry
        \/ (/\ t \in main /\ BuiltinId[t] \notin Registered
            /\ registry' = Inserted(registry, BuiltinId[t], t))
    BY DEF Seeds
  <1> QED  BY <1>1, <1>2, InsertedFacts

LEMMA SeedsComplete ==
    ASSUME TypeOK, RegisteredIsComplete, NEW t \in Activatable, Seeds(t),
           UNCHANGED <<main, space, files>>
    PROVE  RegisteredIsComplete'
  <1>1. BuiltinId[t] \in Id /\ BuiltinId[t] \notin Content
    BY BuiltinFacts
  <1>2. CASE registry' = registry
    BY <1>2 DEF RegisteredIsComplete, Registered
  <1>3. CASE /\ t \in main
             /\ \A i \in Id \ {BuiltinId[t]} : registry'[i] = registry[i]
    <2>1. \A i \in Id \ {BuiltinId[t]} : i \in Registered' <=> i \in Registered
      BY <1>3 DEF Registered
    <2>2. \A u \in Activatable : BuiltinId[u] \in Registered' => u \in main
      <3> SUFFICES ASSUME NEW u \in Activatable, BuiltinId[u] \in Registered'
                   PROVE  u \in main
        OBVIOUS
      <3>1. CASE u = t
        BY <1>3, <3>1
      <3>2. CASE u # t
        <4>1. BuiltinId[u] # BuiltinId[t] /\ BuiltinId[u] \in Id
          BY <3>2, BuiltinFacts DEF Activatable
        <4> QED  BY <2>1, <4>1 DEF RegisteredIsComplete
      <3> QED  BY <3>1, <3>2
    <2> QED  BY <1>1, <1>3, <2>1, <2>2, BuiltinFacts DEF RegisteredIsComplete
  <1> QED  BY <1>2, <1>3, SeedsFacts

LEMMA EnsureTableStep ==
    ASSUME RInv, NEW r \in Request, EnsureTable(r)
    PROVE  RInv'
  <1>1. /\ req \in [Request -> Req] /\ req[r].pc = "creating" /\ "seedPrimary" \in Stage
        /\ ready' /\ UNCHANGED <<server, main, registry, space, files, lock, log>>
    BY DEF Stage, RInv, TypeOK, EnsureTable
  <1>2. /\ req' \in [Request -> Req] /\ req'[r].pc = "seedPrimary"
        /\ req'[r].op = req[r].op
        /\ \A s \in Request \ {r} : req'[s] = req[s]
    BY <1>1, GoesFacts DEF EnsureTable
  <1>3. lock = r /\ "seedPrimary" \in Holding
    BY <1>1 DEF RInv, LockHeld, Holding
  <1>4. Registered' = Registered /\ Registered = {}
    BY <1>1 DEF RInv, TableThere, StageOK, EnsureStage, Registered
  <1>5. TypeOK'
    BY <1>1, <1>2 DEF RInv, TypeOK, EnsureTable
  <1>6. StageOK(r)'
    BY <1>1, <1>2, <1>3, <1>4
       DEF RInv, StageOK, UploadStage, OtherStage, EnsureStage, Holding
  <1>7. RegisteredIsComplete'
    BY <1>1, <1>4, CompleteKept DEF RInv
  <1> QED  BY <1>1, <1>2, <1>3, <1>5, <1>6, <1>7, UpFact, StepOfOne

LEMMA EnsureRowStep ==
    ASSUME RInv, NEW r \in Request, NEW t \in Activatable,
           NEW pc \in {"seedPrimary", "seedKnowledge"},
           pc = IF t = "primary" THEN "seedPrimary" ELSE "seedKnowledge",
           EnsureRow(r, t, pc)
    PROVE  RInv'
  <1>1. /\ req \in [Request -> Req] /\ req[r].pc = pc /\ Seeds(t) /\ TypeOK
        /\ {"seedKnowledge", "checking", "waiting"} \subseteq Stage
        /\ UNCHANGED <<server, ready, main, space, files, log>>
        /\ req[r].pc \in Holding /\ req[r].pc # "idle" /\ req[r].pc # "creating"
    BY DEF Stage, Holding, RInv, TypeOK, EnsureRow
  <1>2. lock = r /\ ready
    BY <1>1 DEF RInv, LockHeld, StageOK, EnsureStage
  <1>3. RegisteredIsComplete' /\ registry' \in [Id -> Row]
    BY <1>1, SeedsFacts, SeedsComplete DEF RInv
  <1>4. t = "primary" => \A i \in Registered' : registry'[i].type = "primary"
    <2> SUFFICES ASSUME t = "primary", NEW i \in Registered'
                 PROVE  registry'[i].type = "primary"
      OBVIOUS
    <2>1. Registered = {} /\ i \in Id /\ registry'[i].type # "none"
      BY <1>1 DEF RInv, StageOK, EnsureStage, Registered
    <2> QED  BY <1>1, <2>1, SeedsFacts DEF Registered
  <1>5. ASSUME NEW q \in {"seedKnowledge", "checking", "waiting"}, Goes(r, q),
               q = "seedKnowledge" => t = "primary",
               IF q = "waiting" THEN Releases(r) ELSE UNCHANGED lock
        PROVE  RInv'
    <2>1. /\ req' \in [Request -> Req] /\ req'[r].pc = q /\ req'[r].op = req[r].op
          /\ \A s \in Request \ {r} : req'[s] = req[s]
      BY <1>1, <1>5, GoesFacts
    <2>2. lock' = (IF q = "waiting" THEN Free ELSE r) /\ (q \in Holding <=> q # "waiting")
      BY <1>2, <1>5 DEF Releases, Holding
    <2>3. TypeOK'
      BY <1>1, <1>3, <2>1, <2>2 DEF TypeOK
    <2>4. UploadStage(r)
      BY DEF RInv, StageOK
    <2>5. StageOK(r)'
      <3>1. UploadStage(r)'
        BY <1>1, <1>5, <2>1, <2>2, <2>4 DEF UploadStage, Holding
      <3>2. OtherStage(r)'
        BY <2>1 DEF OtherStage
      <3>3. EnsureStage(r)'
        BY <1>1, <1>2, <1>4, <1>5, <2>1 DEF EnsureStage
      <3> QED  BY <3>1, <3>2, <3>3 DEF StageOK
    <2>6. req'[r].pc \in Holding <=> lock' = r
      BY <2>1, <2>2, LockAssumption
    <2> QED  BY <1>1, <1>3, <2>1, <2>2, <2>3, <2>5, <2>6, StepUnderLock
  <1>6. ASSUME Ends(r), Releases(r) PROVE RInv'
    <2>1. /\ req' \in [Request -> Req] /\ req'[r].pc = "idle"
          /\ \A s \in Request \ {r} : req'[s] = req[s]
      BY <1>1, <1>6, EndsFacts
    <2>2. lock' = Free
      BY <1>2, <1>6 DEF Releases
    <2>3. TypeOK'
      BY <1>1, <1>3, <2>1, <2>2 DEF TypeOK
    <2>4. StageOK(r)'
      BY <2>1 DEF StageOK, UploadStage, OtherStage, EnsureStage, Holding
    <2>5. req'[r].pc \notin Holding /\ lock' # r
      BY <2>1, <2>2, LockAssumption DEF Holding
    <2> QED  BY <1>1, <1>3, <2>1, <2>2, <2>3, <2>4, <2>5, StepUnderLock
  <1>7. \/ Ends(r) /\ Releases(r)
        \/ Goes(r, "seedKnowledge") /\ UNCHANGED lock /\ t = "primary"
        \/ Goes(r, "checking") /\ UNCHANGED lock
        \/ Goes(r, "waiting") /\ Releases(r)
    BY DEF EnsureRow, Ensured
  <1> QED  BY <1>5, <1>6, <1>7

-----------------------------------------------------------------------------
(* Uploads. *)

LEMMA CheckDuplicateStep ==
    ASSUME RInv, NEW r \in Request, CheckDuplicate(r)
    PROVE  RInv'
  <1> DEFINE c == req[r].op.id
             duplicate == c \in Registered
  <1>1. /\ req \in [Request -> Req] /\ registry \in [Id -> Row]
        /\ space \in [Content -> Space] /\ req[r].pc = "checking"
        /\ "cleared" \in Stage
    BY DEF Stage, RInv, TypeOK, CheckDuplicate
  <1>2. c \in Content /\ c \in Id /\ c \in files
    BY <1>1, OpFacts, BuiltinFacts
       DEF RInv, StageOK, UploadStage, Req, Holding, CheckDuplicate
  <1>3. lock = r
    BY <1>1 DEF RInv, LockHeld, Holding
  <1>4. CASE Ends(r) /\ Releases(r) /\ UNCHANGED <<registry, space>>
    BY <1>1, <1>4, EndStep DEF RInv, TypeOK, CheckDuplicate
  <1>5. CASE /\ Goes(r, "cleared")
             /\ registry' = IF duplicate THEN WithoutRow(registry, c) ELSE registry
             /\ space' = IF duplicate THEN [space EXCEPT ![c] = NoSpace] ELSE space
             /\ UNCHANGED lock
    <2>1. /\ req' \in [Request -> Req] /\ req'[r].pc = "cleared"
          /\ req'[r].op = req[r].op
          /\ \A s \in Request \ {r} : req'[s] = req[s]
      BY <1>1, <1>5, GoesFacts
    <2>2. /\ registry' \in [Id -> Row] /\ registry'[c].type = "none"
          /\ \A i \in Id \ {c} : registry'[i].type = registry[i].type
      BY <1>1, <1>2, <1>5, WithoutRowFacts DEF NoRow, Registered
    <2>3. space' \in [Content -> Space] /\ \A d \in Content \ {c} : space'[d] = space[d]
      BY <1>1, <1>2, <1>5, SpaceFacts, SpaceTypes
    <2>4. Registered' = Registered \ {c}
      BY <1>2, <2>2 DEF Registered
    <2>5. TypeOK'
      BY <1>5, <2>1, <2>2, <2>3 DEF RInv, TypeOK, CheckDuplicate
    <2>6. StageOK(r)'
      BY <1>1, <1>2, <2>1, <2>4
         DEF RInv, StageOK, UploadStage, OtherStage, EnsureStage, Holding, CheckDuplicate
    <2>7. RegisteredIsComplete'
      BY <2>2, <2>3, <2>4, CompleteKept, BuiltinFacts DEF RInv, CheckDuplicate
    <2>8. req'[r].pc \in Holding
      BY <2>1 DEF Holding
    <2> QED  BY <1>1, <1>3, <1>5, <2>1, <2>5, <2>6, <2>7, <2>8, StepUnderLock
             DEF CheckDuplicate
  <1> QED  BY <1>4, <1>5 DEF CheckDuplicate

LEMMA CreateSchemaStep ==
    ASSUME RInv, NEW r \in Request, CreateSchema(r)
    PROVE  RInv'
  <1> DEFINE c == req[r].op.id
  <1>1. /\ req \in [Request -> Req] /\ space \in [Content -> Space]
        /\ req[r].pc = "cleared" /\ "filling" \in Stage
    BY DEF Stage, RInv, TypeOK, CreateSchema
  <1>2. c \in Content /\ c \notin Registered
    BY <1>1, OpFacts DEF RInv, StageOK, UploadStage, Req
  <1>3. lock = r
    BY <1>1 DEF RInv, LockHeld, Holding
  <1>4. CASE Ends(r) /\ Releases(r) /\ UNCHANGED space
    BY <1>1, <1>4, EndStep DEF RInv, TypeOK, CreateSchema
  <1>5. CASE /\ Goes(r, "filling") /\ space' = [space EXCEPT ![c] = EmptySpace]
             /\ UNCHANGED lock
    <2>1. /\ req' \in [Request -> Req] /\ req'[r].pc = "filling"
          /\ req'[r].op = req[r].op
          /\ \A s \in Request \ {r} : req'[s] = req[s]
      BY <1>1, <1>5, GoesFacts
    <2>2. /\ space' \in [Content -> Space] /\ space'[c] = EmptySpace
          /\ \A d \in Content \ {c} : space'[d] = space[d]
      BY <1>1, <1>2, <1>5, SpaceFacts, SpaceTypes
    <2>3. Registered' = Registered
      BY DEF Registered, CreateSchema
    <2>4. TypeOK'
      BY <1>5, <2>1, <2>2 DEF RInv, TypeOK, CreateSchema
    <2>5. StageOK(r)'
      BY <1>1, <1>2, <2>1, <2>2, <2>3
         DEF RInv, StageOK, UploadStage, OtherStage, EnsureStage, Holding, CreateSchema
    <2>6. RegisteredIsComplete'
      BY <1>2, <2>2, <2>3, CompleteKept DEF RInv, CreateSchema
    <2>7. req'[r].pc \in Holding
      BY <2>1 DEF Holding
    <2> QED  BY <1>1, <1>3, <1>5, <2>1, <2>4, <2>5, <2>6, <2>7, StepUnderLock
             DEF CreateSchema
  <1> QED  BY <1>4, <1>5 DEF CreateSchema

LEMMA CreateTableStep ==
    ASSUME RInv, NEW r \in Request, CreateTable(r)
    PROVE  RInv'
  <1> DEFINE op == req[r].op
  <1>1. /\ req \in [Request -> Req] /\ space \in [Content -> Space]
        /\ req[r].pc = "filling" /\ "broken" \in Stage
    BY DEF Stage, RInv, TypeOK, CreateTable
  <1>2. op.id \in Content /\ op.type \in Type /\ op.id \notin Registered
    BY <1>1, OpFacts DEF RInv, StageOK, UploadStage, Req
  <1>3. lock = r
    BY <1>1 DEF RInv, LockHeld, Holding
  <1>4. Registered' = Registered
    BY DEF Registered, CreateTable
  <1>5. CASE /\ op.type \in Fits[op.id]
             /\ space' = [space EXCEPT ![op.id] = [table |-> op.type, whole |-> FALSE]]
             /\ UNCHANGED req
    <2>1. [table |-> op.type, whole |-> FALSE] \in Space
      BY <1>2, SpaceTypes
    <2>2. /\ space' \in [Content -> Space]
          /\ space'[op.id] = [table |-> op.type, whole |-> FALSE]
          /\ \A d \in Content \ {op.id} : space'[d] = space[d]
      BY <1>1, <1>2, <1>5, <2>1, SpaceFacts
    <2>3. TypeOK'
      BY <1>5, <2>2 DEF RInv, TypeOK, CreateTable
    <2>4. StageOK(r)'
      BY <1>1, <1>4, <1>5, <2>2 DEF RInv, StageOK, UploadStage, OtherStage, EnsureStage, Holding, CreateTable
    <2>5. RegisteredIsComplete'
      BY <1>2, <1>4, <2>2, CompleteKept DEF RInv, CreateTable
    <2>6. req'[r].pc \in Holding
      BY <1>1, <1>5 DEF Holding
    <2> QED  BY <1>1, <1>3, <1>5, <2>3, <2>4, <2>5, <2>6, StepUnderLock
             DEF CreateTable
  <1>6. CASE Goes(r, "broken") /\ UNCHANGED space
    <2>1. /\ req' \in [Request -> Req] /\ req'[r].pc = "broken"
          /\ req'[r].op = req[r].op
          /\ \A s \in Request \ {r} : req'[s] = req[s]
      BY <1>1, <1>6, GoesFacts
    <2>2. TypeOK'
      BY <1>6, <2>1 DEF RInv, TypeOK, CreateTable
    <2>3. StageOK(r)'
      BY <1>1, <1>4, <2>1 DEF RInv, StageOK, UploadStage, OtherStage, EnsureStage, Holding, CreateTable
    <2>4. req'[r].pc \in Holding
      BY <2>1 DEF Holding
    <2> QED  BY <1>1, <1>3, <1>6, <2>1, <2>2, <2>3, <2>4, UpFact, StepOnItsOwn
             DEF CreateTable
  <1> QED  BY <1>5, <1>6 DEF CreateTable

LEMMA FillTableStep ==
    ASSUME RInv, NEW r \in Request, FillTable(r)
    PROVE  RInv'
  <1> DEFINE op == req[r].op
  <1>1. /\ req \in [Request -> Req] /\ space \in [Content -> Space]
        /\ req[r].pc = "filling" /\ "loaded" \in Stage
    BY DEF Stage, RInv, TypeOK, FillTable
  <1>2. /\ op.id \in Content /\ op.type \in Type /\ op.id \notin Registered
        /\ op.type \in Fits[op.id] /\ space[op.id].table = op.type
    BY <1>1, OpFacts DEF RInv, StageOK, UploadStage, Req, FillTable
  <1>3. lock = r
    BY <1>1 DEF RInv, LockHeld, Holding
  <1>4. Registered' = Registered
    BY DEF Registered, FillTable
  <1>5. /\ req' \in [Request -> Req] /\ req'[r].pc = "loaded" /\ req'[r].op = req[r].op
        /\ \A s \in Request \ {r} : req'[s] = req[s]
    BY <1>1, GoesFacts DEF FillTable
  <1>7. [table |-> op.type, whole |-> TRUE] \in Space
    BY <1>2, SpaceTypes
  <1>8. space' = [space EXCEPT ![op.id] = [table |-> op.type, whole |-> TRUE]]
    BY <1>2 DEF FillTable
  <1>9. /\ space' \in [Content -> Space]
        /\ space'[op.id] = [table |-> op.type, whole |-> TRUE]
        /\ \A d \in Content \ {op.id} : space'[d] = space[d]
    BY <1>1, <1>2, <1>7, <1>8, SpaceFacts
  <1>10. TypeOK'
    BY <1>5, <1>9 DEF RInv, TypeOK, FillTable
  <1>11. StageOK(r)'
    BY <1>1, <1>2, <1>4, <1>5, <1>9 DEF RInv, StageOK, UploadStage, OtherStage, EnsureStage, Holding, FillTable
  <1>12. RegisteredIsComplete'
    BY <1>2, <1>4, <1>9, CompleteKept DEF RInv, FillTable
  <1>13. req'[r].pc \in Holding
    BY <1>5 DEF Holding
  <1> QED  BY <1>1, <1>3, <1>5, <1>10, <1>11, <1>12, <1>13, StepUnderLock
           DEF FillTable

\* What the registry transaction of an upload does, whatever else is registered.
LEMMA PublishFacts ==
    ASSUME RInv, NEW r \in Request, Publish(r)
    PROVE  LET op == req[r].op
           IN  /\ op.id \in Content /\ op.type \in Type
               /\ op.id \notin Registered
               /\ registry' \in [Id -> Row]
               /\ registry'[op.id].type = op.type
               /\ registry'[op.id].active <=> op.type \in Activatable
               /\ registry'[op.id].older \subseteq Registered
               /\ \A i \in Id \ {op.id} :
                     /\ registry'[i].type = registry[i].type
                     /\ registry'[i].older = registry[i].older
                     /\ registry[i].type = op.type /\ op.type \in Activatable =>
                           registry'[i].active = FALSE
                     /\ registry[i].type # op.type \/ op.type \notin Activatable =>
                           registry'[i] = registry[i]
  <1> DEFINE op == req[r].op
             cleared == IF op.type \in Activatable THEN Deactivated(registry, op.type)
                        ELSE registry
  <1>1. registry \in [Id -> Row] /\ req \in [Request -> Req] /\ req[r].pc = "loaded"
    BY DEF RInv, TypeOK, Publish
  <1>2. op.id \in Content /\ op.type \in Type /\ op.id \in Id /\ op.id \notin Registered
    BY <1>1, OpFacts, BuiltinFacts DEF RInv, StageOK, UploadStage, Req
  <1>3. /\ cleared \in [Id -> Row]
        /\ \A i \in Id :
              /\ cleared[i].type = registry[i].type
              /\ cleared[i].older = registry[i].older
              /\ registry[i].type = op.type /\ op.type \in Activatable =>
                    cleared[i].active = FALSE
              /\ registry[i].type # op.type \/ op.type \notin Activatable =>
                    cleared[i] = registry[i]
    BY <1>1, <1>2, DeactivatedFacts
  <1>4. registry' = Inserted(cleared, op.id, op.type)
    BY DEF Publish
  <1> HIDE DEF cleared
  <1>5. /\ registry' \in [Id -> Row]
        /\ registry'[op.id].type = op.type
        /\ registry'[op.id].active <=> op.type \in Activatable
        /\ registry'[op.id].older = Registered \ {op.id}
        /\ \A i \in Id \ {op.id} : registry'[i] = cleared[i]
    BY <1>2, <1>3, <1>4, InsertedFacts
  <1> QED  BY <1>2, <1>3, <1>5

LEMMA PublishStep ==
    ASSUME RInv, NEW r \in Request, Publish(r)
    PROVE  RInv'
  <1> DEFINE op == req[r].op
  <1>1. /\ req \in [Request -> Req] /\ req[r].pc = "loaded" /\ "changed" \in Stage
    BY DEF Stage, RInv, TypeOK, Publish
  <1>2. /\ op.id \in Content /\ op.type \in Type
        /\ registry' \in [Id -> Row] /\ registry'[op.id].type = op.type
        /\ \A i \in Id \ {op.id} : registry'[i].type = registry[i].type
    BY PublishFacts
  <1>3. /\ op.kind = "upload" /\ op.id \in files /\ op.type \in Fits[op.id]
        /\ space[op.id] = [table |-> op.type, whole |-> TRUE]
    BY <1>1 DEF RInv, StageOK, UploadStage, Holding
  <1>4. lock = r /\ lock' = Free
    BY <1>1 DEF RInv, LockHeld, Holding, Publish, Releases
  <1>5. /\ req' \in [Request -> Req] /\ req'[r].pc = "changed" /\ req'[r].op = op
        /\ \A s \in Request \ {r} : req'[s] = req[s]
    BY <1>1, GoesFacts DEF Publish
  <1>6. TypeOK'
    BY <1>2, <1>4, <1>5 DEF RInv, TypeOK, Publish
  <1>7. StageOK(r)'
    BY <1>3, <1>5 DEF StageOK, UploadStage, OtherStage, EnsureStage, Holding
  <1>8. RegisteredIsComplete'
    <2>1. \A i \in Id \ {op.id} : i \in Registered' <=> i \in Registered
      BY <1>2 DEF Registered
    <2> QED  BY <1>2, <1>3, <2>1, BuiltinFacts DEF RInv, RegisteredIsComplete, Publish
  <1>9. req'[r].pc \notin Holding /\ lock' # r
    BY <1>4, <1>5, LockAssumption DEF Holding
  <1> QED  BY <1>1, <1>4, <1>5, <1>6, <1>7, <1>8, <1>9, StepUnderLock DEF Publish

LEMMA DropBrokenStep ==
    ASSUME RInv, NEW r \in Request, DropBroken(r)
    PROVE  RInv'
  <1> DEFINE c == req[r].op.id
  <1>1. /\ req \in [Request -> Req] /\ space \in [Content -> Space] /\ req[r].pc = "broken"
    BY DEF RInv, TypeOK, DropBroken
  <1>2. c \in Content /\ c \notin Registered
    BY <1>1, OpFacts DEF RInv, StageOK, UploadStage, Req
  <1>3. lock = r /\ lock' = Free
    BY <1>1 DEF RInv, LockHeld, Holding, DropBroken, Releases
  <1>4. /\ space' \in [Content -> Space] /\ \A d \in Content \ {c} : space'[d] = space[d]
    BY <1>1, <1>2, SpaceFacts, SpaceTypes DEF DropBroken
  <1>5. /\ req' \in [Request -> Req] /\ req'[r].pc = "idle"
        /\ \A s \in Request \ {r} : req'[s] = req[s]
    BY <1>1, EndsFacts DEF DropBroken
  <1>6. TypeOK'
    BY <1>3, <1>4, <1>5 DEF RInv, TypeOK, DropBroken
  <1>7. StageOK(r)'
    BY <1>5 DEF StageOK, UploadStage, OtherStage, EnsureStage, Holding
  <1>8. Registered' = Registered
    BY DEF Registered, DropBroken
  <1>9. RegisteredIsComplete'
    BY <1>2, <1>4, <1>8, CompleteKept DEF RInv, DropBroken
  <1>10. req'[r].pc \notin Holding /\ lock' # r
    BY <1>3, <1>5, LockAssumption DEF Holding
  <1> QED  BY <1>1, <1>3, <1>5, <1>6, <1>7, <1>9, <1>10, StepUnderLock DEF DropBroken

-----------------------------------------------------------------------------
(* Activations and deletions. *)

\* The row's type is what the activation goes on with.
LEMMA ActivatingFacts ==
    ASSUME req \in [Request -> Req], NEW r \in Request, NEW t \in Activatable,
           req[r].op.kind = "activate",
           req' = [req EXCEPT ![r].pc = "activating", ![r].op.type = t]
    PROVE  /\ req' \in [Request -> Req]
           /\ req'[r].pc = "activating"
           /\ req'[r].op.kind = "activate" /\ req'[r].op.id = req[r].op.id
           /\ req'[r].op.type = t
           /\ \A s \in Request \ {r} : req'[s] = req[s]
  <1> DEFINE op == req[r].op
             new == [op EXCEPT !.type = t]
             row == [req[r] EXCEPT !.pc = "activating", !.op = new]
  <1>1. op \in [kind: {"activate"}, id: Id, type: Activatable \union {"none"}, force: {FALSE}]
    <2>1. op \in Op
      BY DEF Req
    <2>2. op.kind # NoOp.kind
      BY DEF NoOp
    <2> QED  BY <2>1, <2>2 DEF Op
  <1>2. new \in Op /\ new.kind = "activate" /\ new.id = op.id /\ new.type = t
    BY <1>1 DEF Op
  <1>3. req' = [req EXCEPT ![r] = row]
    OBVIOUS
  <1> HIDE DEF new
  <1>4. row \in Req /\ row.pc = "activating" /\ row.op = new
    BY <1>2 DEF Req
  <1> HIDE DEF row
  <1> QED  BY <1>2, <1>3, <1>4

LEMMA BeginActivateStep ==
    ASSUME RInv, NEW r \in Request, BeginActivate(r)
    PROVE  RInv'
  <1> DEFINE t == registry[req[r].op.id].type
  <1>1. /\ req \in [Request -> Req] /\ req[r].pc = "checking" /\ req[r].op.kind = "activate"
        /\ UNCHANGED <<server, ready, main, registry, space, files, log>>
    BY DEF RInv, TypeOK, BeginActivate
  <1>2. CASE /\ t \in Activatable
             /\ req' = [req EXCEPT ![r].pc = "activating", ![r].op.type = t]
             /\ UNCHANGED lock
    <2>1. /\ req' \in [Request -> Req] /\ req'[r].pc = "activating"
          /\ req'[r].op.kind = "activate" /\ req'[r].op.id = req[r].op.id
          /\ req'[r].op.type = t
          /\ \A s \in Request \ {r} : req'[s] = req[s]
      BY <1>1, <1>2, ActivatingFacts
    <2>2. TypeOK'
      BY <1>1, <1>2, <2>1 DEF RInv, TypeOK
    <2>3. registry'[req'[r].op.id].type = t
      BY <1>1, <2>1
    <2>4. StageOK(r)'
      <3>1. ready'
        BY <1>1 DEF RInv, StageOK, EnsureStage, Holding
      <3> HIDE DEF t
      <3> QED  BY <1>2, <2>1, <2>3, <3>1 DEF StageOK, UploadStage, OtherStage, EnsureStage
    <2>5. lock = r /\ req'[r].pc \in Holding
      BY <1>1, <2>1 DEF RInv, LockHeld, Holding
    <2>6. Registered' = Registered /\ RegisteredIsComplete'
      BY <1>1 DEF RInv, RegisteredIsComplete, Registered
    <2> QED  BY <1>1, <1>2, <2>1, <2>2, <2>4, <2>5, <2>6, StepUnderLock
  <1>3. CASE Ends(r) /\ Releases(r)
    BY <1>1, <1>3, EndStep DEF RInv, TypeOK
  <1> QED  BY <1>2, <1>3 DEF BeginActivate

\* What the transaction of an activation does.
LEMMA CommitActivateFacts ==
    ASSUME RInv, NEW r \in Request, CommitActivate(r)
    PROVE  LET op == req[r].op
           IN  /\ op.kind = "activate" /\ op.id \in Id /\ op.type \in Activatable
               /\ registry[op.id].type = op.type
               /\ registry' \in [Id -> Row]
               /\ registry'[op.id].active
               /\ \A i \in Id : /\ registry'[i].type = registry[i].type
                                /\ registry'[i].older = registry[i].older
               /\ \A i \in Id \ {op.id} :
                     /\ registry[i].type = op.type => registry'[i].active = FALSE
                     /\ registry[i].type # op.type => registry'[i] = registry[i]
  <1> DEFINE op == req[r].op
             cleared == Deactivated(registry, op.type)
  <1>1. registry \in [Id -> Row] /\ req \in [Request -> Req] /\ req[r].pc = "activating"
    BY DEF RInv, TypeOK, CommitActivate
  <1>2. /\ op.kind = "activate" /\ op.id \in Id /\ op.type \in Activatable /\ op.type \in Type
        /\ registry[op.id].type = op.type
    BY <1>1, OpFacts DEF RInv, StageOK, OtherStage, Req, Activatable, Type
  <1>3. op.id \in Registered
    BY <1>2 DEF Registered, Activatable
  <1>4. /\ cleared \in [Id -> Row]
        /\ \A i \in Id : /\ cleared[i].type = registry[i].type
                         /\ cleared[i].older = registry[i].older
                         /\ registry[i].type = op.type => cleared[i].active = FALSE
                         /\ registry[i].type # op.type => cleared[i] = registry[i]
    BY <1>1, <1>2, DeactivatedFacts
  <1>5. registry' = [cleared EXCEPT ![op.id].active = TRUE]
    BY <1>3 DEF CommitActivate
  <1> HIDE DEF cleared
  <1>6. /\ registry' \in [Id -> Row] /\ registry'[op.id].active
        /\ registry'[op.id].type = cleared[op.id].type
        /\ registry'[op.id].older = cleared[op.id].older
        /\ \A i \in Id \ {op.id} : registry'[i] = cleared[i]
    BY <1>2, <1>4, <1>5, ActivatedFacts
  <1> QED  BY <1>2, <1>4, <1>6

LEMMA CommitActivateStep ==
    ASSUME RInv, NEW r \in Request, CommitActivate(r)
    PROVE  RInv'
  <1>1. /\ req \in [Request -> Req] /\ req[r].pc = "activating" /\ "changed" \in Stage
    BY DEF Stage, RInv, TypeOK, CommitActivate
  <1>2. /\ req[r].op.kind = "activate" /\ registry' \in [Id -> Row]
        /\ \A i \in Id : registry'[i].type = registry[i].type
    BY CommitActivateFacts
  <1>3. lock = r /\ lock' = Free
    BY <1>1 DEF RInv, LockHeld, Holding, CommitActivate, Releases
  <1>4. /\ req' \in [Request -> Req] /\ req'[r].pc = "changed" /\ req'[r].op = req[r].op
        /\ \A s \in Request \ {r} : req'[s] = req[s]
    BY <1>1, GoesFacts DEF CommitActivate
  <1>5. TypeOK'
    BY <1>2, <1>3, <1>4 DEF RInv, TypeOK, CommitActivate
  <1>6. StageOK(r)'
    BY <1>2, <1>4 DEF StageOK, UploadStage, OtherStage, EnsureStage, Holding
  <1>7. Registered' = Registered
    BY <1>2 DEF Registered
  <1>8. RegisteredIsComplete'
    BY <1>2, <1>7, CompleteKept, BuiltinFacts DEF RInv, CommitActivate
  <1>9. req'[r].pc \notin Holding /\ lock' # r
    BY <1>3, <1>4, LockAssumption DEF Holding
  <1> QED  BY <1>1, <1>3, <1>4, <1>5, <1>6, <1>8, <1>9, StepUnderLock
           DEF CommitActivate

LEMMA BeginDeleteStep ==
    ASSUME RInv, NEW r \in Request, BeginDelete(r)
    PROVE  RInv'
  <1> DEFINE i == req[r].op.id
  <1>1. /\ req \in [Request -> Req] /\ req[r].pc = "checking" /\ req[r].op.kind = "delete"
        /\ UNCHANGED <<server, ready, main, registry, space, files, log>>
        /\ "deleting" \in Stage
    BY DEF Stage, RInv, TypeOK, BeginDelete
  <1>2. CASE i \in Registered \ Builtin /\ ~registry[i].active /\ Goes(r, "deleting")
             /\ UNCHANGED lock
    <2>1. /\ req' \in [Request -> Req] /\ req'[r].pc = "deleting" /\ req'[r].op = req[r].op
          /\ \A s \in Request \ {r} : req'[s] = req[s]
      BY <1>1, <1>2, GoesFacts
    <2>2. TypeOK'
      BY <1>1, <1>2, <2>1 DEF RInv, TypeOK
    <2>3. i \in Content /\ i \in Registered' /\ ~registry'[i].active
      BY <1>1, <1>2, BuiltinFacts DEF Registered
    <2>4. StageOK(r)'
      <3>1. ready'
        BY <1>1 DEF RInv, StageOK, EnsureStage, Holding
      <3> QED  BY <1>1, <2>1, <2>3, <3>1 DEF StageOK, UploadStage, OtherStage, EnsureStage
    <2>5. lock = r /\ req'[r].pc \in Holding
      BY <1>1, <2>1 DEF RInv, LockHeld, Holding
    <2>6. RegisteredIsComplete'
      BY <1>1 DEF RInv, RegisteredIsComplete, Registered
    <2> QED  BY <1>1, <1>2, <2>1, <2>2, <2>4, <2>5, <2>6, StepUnderLock
  <1>3. CASE Ends(r) /\ Releases(r)
    BY <1>1, <1>3, EndStep DEF RInv, TypeOK
  <1> QED  BY <1>2, <1>3 DEF BeginDelete

LEMMA CommitDeleteStep ==
    ASSUME RInv, NEW r \in Request, CommitDelete(r)
    PROVE  RInv'
  <1> DEFINE c == req[r].op.id
  <1>1. /\ req \in [Request -> Req] /\ registry \in [Id -> Row] /\ space \in [Content -> Space]
        /\ req[r].pc = "deleting" /\ "unlinking" \in Stage
    BY DEF Stage, RInv, TypeOK, CommitDelete
  <1>2. req[r].op.kind = "delete" /\ c \in Content /\ c \in Id
    BY <1>1, BuiltinFacts DEF RInv, StageOK, OtherStage
  <1>3. lock = r
    BY <1>1 DEF RInv, LockHeld, Holding
  <1>4. /\ req' \in [Request -> Req] /\ req'[r].pc = "unlinking" /\ req'[r].op = req[r].op
        /\ \A s \in Request \ {r} : req'[s] = req[s]
    BY <1>1, GoesFacts DEF CommitDelete
  <1>5. /\ registry' \in [Id -> Row] /\ registry'[c].type = "none"
        /\ \A i \in Id \ {c} : registry'[i].type = registry[i].type
    BY <1>1, <1>2, WithoutRowFacts DEF NoRow, CommitDelete
  <1>6. /\ space' \in [Content -> Space] /\ \A d \in Content \ {c} : space'[d] = space[d]
    BY <1>1, <1>2, SpaceFacts, SpaceTypes DEF CommitDelete
  <1>7. Registered' = Registered \ {c}
    BY <1>2, <1>5 DEF Registered
  <1>8. TypeOK'
    BY <1>4, <1>5, <1>6 DEF RInv, TypeOK, CommitDelete
  <1>9. StageOK(r)'
    BY <1>1, <1>2, <1>4, <1>7
       DEF RInv, StageOK, UploadStage, OtherStage, EnsureStage, Holding, CommitDelete
  <1>10. RegisteredIsComplete'
    BY <1>5, <1>6, <1>7, CompleteKept, BuiltinFacts DEF RInv, CommitDelete
  <1>11. req'[r].pc \in Holding
    BY <1>4 DEF Holding
  <1> QED  BY <1>1, <1>3, <1>4, <1>8, <1>9, <1>10, <1>11, StepUnderLock
           DEF CommitDelete

LEMMA UnlinkFileStep ==
    ASSUME RInv, NEW r \in Request, UnlinkFile(r)
    PROVE  RInv'
  <1> DEFINE c == req[r].op.id
  <1>1. req \in [Request -> Req] /\ req[r].pc = "unlinking" /\ "changed" \in Stage
    BY DEF Stage, RInv, TypeOK, UnlinkFile
  <1>2. req[r].op.kind = "delete" /\ c \notin Registered
    BY <1>1 DEF RInv, StageOK, OtherStage
  <1>3. lock = r /\ lock' = Free
    BY <1>1 DEF RInv, LockHeld, Holding, UnlinkFile, Releases
  <1>4. /\ req' \in [Request -> Req] /\ req'[r].pc = "changed" /\ req'[r].op = req[r].op
        /\ \A s \in Request \ {r} : req'[s] = req[s]
    BY <1>1, GoesFacts DEF UnlinkFile
  <1>5. TypeOK'
    BY <1>3, <1>4 DEF RInv, TypeOK, UnlinkFile
  <1>6. StageOK(r)'
    BY <1>2, <1>4 DEF StageOK, UploadStage, OtherStage, EnsureStage, Holding
  <1>7. Registered' = Registered
    BY DEF Registered, UnlinkFile
  <1>8. RegisteredIsComplete'
    BY <1>2, <1>7, CompleteKept DEF RInv, UnlinkFile
  <1>9. req'[r].pc \notin Holding /\ lock' # r
    BY <1>3, <1>4, LockAssumption DEF Holding
  <1> QED  BY <1>1, <1>3, <1>4, <1>5, <1>6, <1>8, <1>9, StepUnderLock DEF UnlinkFile

LEMMA RecordEventStep ==
    ASSUME RInv, NEW r \in Request, RecordEvent(r)
    PROVE  RInv'
  <1> DEFINE event == [event |-> req[r].op.kind, id |-> req[r].op.id]
  <1>1. req \in [Request -> Req] /\ req[r].pc = "changed"
    BY DEF RInv, TypeOK, RecordEvent
  <1>2. event \in [event: {"upload", "activate", "delete"}, id: Id]
    BY <1>1, OpFacts, BuiltinFacts DEF RInv, StageOK, OtherStage, Req
  <1>3. log' = Append(log, event)
    BY DEF RecordEvent
  <1> HIDE DEF event
  <1>4. log' \in Seq([event: {"upload", "activate", "delete"}, id: Id])
    BY <1>2, <1>3 DEF RInv, TypeOK
  <1> QED  BY <1>1, <1>4, EndStep DEF RecordEvent, Holding

-----------------------------------------------------------------------------
(* Queries, ingestion and failures. *)

\* A step of a request without the lock that changes nothing else.
LEMMA GoesOn ==
    ASSUME RInv, NEW r \in Request,
           req[r].pc # "idle", req[r].pc \notin Holding,
           NEW pc \in {"resolved", "reading", "answered", "transactions", "knowledge"},
           req' \in [Request -> Req], req'[r].pc = pc,
           \A s \in Request \ {r} : req'[s] = req[s],
           UNCHANGED <<server, ready, registry, space, files, lock, log>>,
           main \subseteq main', main' \in SUBSET Activatable
    PROVE  RInv'
  <1>1. TypeOK'
    BY DEF RInv, TypeOK
  <1>2. StageOK(r)'
    BY DEF StageOK, UploadStage, OtherStage, EnsureStage, Holding
  <1>3. lock # r /\ pc \notin Holding
    BY DEF RInv, LockHeld, Holding
  <1> QED  BY <1>1, <1>2, <1>3, UpFact, StepOnItsOwn

LEMMA ReadStep ==
    ASSUME RInv, NEW r \in Request,
           ResolveContext(r) \/ ResolveTable(r) \/ SelectRows(r) \/ AnswerQuery(r)
    PROVE  RInv'
  <1>1. /\ req \in [Request -> Req] /\ {"resolved", "reading"} \subseteq Stage
        /\ log \in Seq([event: {"upload", "activate", "delete"}, id: Id])
        /\ main \in SUBSET Activatable
    BY DEF RInv, TypeOK, Stage
  <1>0. CASE ResolveContext(r)
    <2>1. CASE Goes(r, "resolved")
      BY <1>1, <1>0, <2>1, GoesFacts, GoesOn DEF ResolveContext, Holding
    <2>2. CASE Ends(r)
      BY <1>1, <1>0, <2>2, EndStep DEF ResolveContext, Holding
    <2> QED  BY <1>0, <2>1, <2>2 DEF ResolveContext
  <1>2. CASE ResolveTable(r)
    <2>1. CASE Goes(r, "reading")
      BY <1>1, <1>2, <2>1, GoesFacts, GoesOn DEF ResolveTable, Holding
    <2>2. CASE Ends(r)
      BY <1>1, <1>2, <2>2, EndStep DEF ResolveTable, Holding
    <2> QED  BY <1>2, <2>1, <2>2 DEF ResolveTable
  <1>3. CASE SelectRows(r)
    <2> DEFINE i == req[r].op.id
               rows == IF i \in Builtin \/ space[i].whole THEN "whole" ELSE "part"
    <2>1. CASE req' = [req EXCEPT ![r] = Idle]
      BY <1>1, <1>3, <2>1, EndStep DEF SelectRows, Holding, Ends
    <2>2. CASE req' = [req EXCEPT ![r] = [@ EXCEPT !.pc = "answered", !.got = rows]]
      <3>1. /\ req' \in [Request -> Req] /\ req'[r].pc = "answered"
            /\ \A s \in Request \ {r} : req'[s] = req[s]
        BY <1>1, <2>2 DEF Req
      <3> QED  BY <1>1, <1>3, <3>1, GoesOn DEF SelectRows, Holding
    <2> QED  BY <1>3, <2>1, <2>2 DEF SelectRows
  <1>4. CASE AnswerQuery(r)
    BY <1>1, <1>4, EndStep DEF AnswerQuery, Holding
  <1> QED  BY <1>0, <1>2, <1>3, <1>4

LEMMA IngestTableStep ==
    ASSUME RInv, NEW r \in Request, NEW t \in Activatable,
           NEW pc \in {"transactions", "knowledge"}, IngestTable(r, t, pc)
    PROVE  RInv'
  <1>1. /\ req \in [Request -> Req] /\ "knowledge" \in Stage /\ req[r].pc = pc
        /\ log \in Seq([event: {"upload", "activate", "delete"}, id: Id])
        /\ req[r].pc \notin Holding /\ req[r].pc # "idle"
    BY DEF RInv, TypeOK, Stage, IngestTable, Holding
  <1>2. main \subseteq main' /\ main' \in SUBSET Activatable
    BY DEF RInv, TypeOK, IngestTable
  <1>3. UNCHANGED <<server, ready, registry, space, files, lock, log>>
    BY DEF IngestTable
  <1>4. CASE Goes(r, "knowledge")
    BY <1>1, <1>2, <1>3, <1>4, GoesFacts, GoesOn
  <1>5. CASE Ends(r)
    <2>1. /\ req' \in [Request -> Req] /\ req'[r].pc = "idle"
          /\ \A s \in Request \ {r} : req'[s] = req[s]
      BY <1>1, <1>5, EndsFacts
    <2>2. TypeOK'
      BY <1>2, <1>3, <2>1 DEF RInv, TypeOK
    <2>3. StageOK(r)'
      BY <2>1 DEF StageOK, UploadStage, OtherStage, EnsureStage, Holding
    <2>4. lock # r /\ req'[r].pc \notin Holding
      BY <1>1, <2>1 DEF RInv, LockHeld, Holding
    <2> QED  BY <1>1, <1>2, <1>3, <2>1, <2>2, <2>3, <2>4, UpFact, StepOnItsOwn
  <1> QED  BY <1>4, <1>5 DEF IngestTable

LEMMA StatementFailsStep ==
    ASSUME RInv, NEW r \in Request, StatementFails(r)
    PROVE  RInv'
  <1>1. /\ req \in [Request -> Req] /\ "broken" \in Stage
        /\ log \in Seq([event: {"upload", "activate", "delete"}, id: Id])
        /\ req[r].pc # "idle"
    BY DEF RInv, TypeOK, Stage, StatementFails
  <1>2. CASE req[r].pc \in {"filling", "loaded"} /\ Goes(r, "broken") /\ UNCHANGED lock
    <2>1. /\ req' \in [Request -> Req] /\ req'[r].pc = "broken" /\ req'[r].op = req[r].op
          /\ \A s \in Request \ {r} : req'[s] = req[s]
      BY <1>1, <1>2, GoesFacts
    <2>2. TypeOK'
      BY <1>2, <2>1 DEF RInv, TypeOK, StatementFails
    <2>3. Registered' = Registered
      BY DEF Registered, StatementFails
    <2>4. StageOK(r)'
      BY <1>2, <2>1, <2>3 DEF RInv, StageOK, UploadStage, OtherStage, EnsureStage, Holding, StatementFails
    <2>5. lock = r /\ req'[r].pc \in Holding
      BY <1>2, <2>1 DEF RInv, LockHeld, Holding
    <2> QED  BY <1>1, <1>2, <2>1, <2>2, <2>4, <2>5, UpFact, StepOnItsOwn
             DEF StatementFails
  <1>3. CASE Ends(r) /\ Releases(r)
    BY <1>1, <1>3, EndStep DEF StatementFails
  <1> QED  BY <1>2, <1>3 DEF StatementFails

LEMMA RestartStep ==
    ASSUME RInv, Restart
    PROVE  RInv'
  <1>1. /\ req' \in [Request -> Req]
        /\ \A r \in Request : req'[r].pc = "idle"
    BY IdleType DEF Restart, Idle
  <1>2. TypeOK'
    BY <1>1 DEF RInv, TypeOK, Restart
  <1>3. LockHeld' /\ ServedWhenUp'
    BY <1>1, LockAssumption DEF LockHeld, ServedWhenUp, Restart, Holding
  <1>4. \A r \in Request : StageOK(r)'
    BY <1>1 DEF StageOK, UploadStage, OtherStage, EnsureStage, Holding
  <1>5. Registered' = Registered
    BY DEF Registered, Restart
  <1>6. RegisteredIsComplete'
    BY <1>5, CompleteKept DEF RInv, Restart
  <1>7. TableThere'
    BY <1>5 DEF RInv, TableThere, Restart
  <1> QED  BY <1>2, <1>3, <1>4, <1>6, <1>7 DEF RInv

-----------------------------------------------------------------------------
(* Start-up and the whole. *)

LEMMA InitRInv == Init => RInv
  <1> SUFFICES ASSUME Init PROVE RInv
    OBVIOUS
  <1>1. registry \in [Id -> Row] /\ \A i \in Id : registry[i].type = "none"
    BY DEF Init, NoRow, Row
  <1>2. space \in [Content -> Space]
    BY SpaceTypes DEF Init
  <1>3. req \in [Request -> Req] /\ \A r \in Request : req[r].pc = "idle"
    BY IdleType DEF Init, Idle
  <1>4. main \in SUBSET Activatable
    BY TablesAssumption DEF Init
  <1>5. TypeOK
    <2>1. /\ server \in {"table", "primary", "knowledge", "up"} /\ ready \in BOOLEAN
          /\ files \in SUBSET Content /\ lock \in Request \union {Free}
      BY DEF Init
    <2>2. log \in Seq([event: {"upload", "activate", "delete"}, id: Id])
      BY DEF Init
    <2> QED  BY <1>1, <1>2, <1>3, <1>4, <2>1, <2>2 DEF TypeOK
  <1>6. LockHeld /\ ServedWhenUp
    BY <1>3, LockAssumption DEF Init, LockHeld, ServedWhenUp, Holding
  <1>7. \A r \in Request : StageOK(r)
    BY <1>3 DEF StageOK, UploadStage, OtherStage, EnsureStage, Holding
  <1>8. Registered = {}
    BY <1>1 DEF Registered
  <1>9. RegisteredIsComplete
    BY <1>8 DEF RegisteredIsComplete
  <1>10. TableThere
    BY <1>8 DEF Init, TableThere
  <1> QED  BY <1>5, <1>6, <1>7, <1>9, <1>10 DEF RInv

\* While the server starts, no request is under way.
LEMMA BootStep ==
    ASSUME RInv, server # "up", UNCHANGED <<lock, req>>, TypeOK', TableThere',
           RegisteredIsComplete'
    PROVE  RInv'
  <1>1. \A r \in Request : req[r].pc = "idle"
    BY DEF RInv, ServedWhenUp
  <1>2. LockHeld' /\ ServedWhenUp'
    BY <1>1 DEF RInv, LockHeld, ServedWhenUp
  <1>3. \A r \in Request : StageOK(r)'
    BY <1>1 DEF StageOK, UploadStage, OtherStage, EnsureStage, Holding
  <1> QED  BY <1>2, <1>3 DEF RInv

LEMMA CreateRegistryStep ==
    ASSUME RInv, CreateRegistry \/ StartFails
    PROVE  RInv'
  <1>1. /\ server # "up" /\ UNCHANGED <<main, registry, space, files, lock, req, log>>
        /\ ready' = TRUE \/ (ready' = ready /\ server' = "up")
    BY DEF CreateRegistry, StartFails
  <1>2. TypeOK'
    BY <1>1 DEF RInv, TypeOK, CreateRegistry, StartFails
  <1>3. TableThere'
    BY <1>1 DEF RInv, TableThere, Registered
  <1>4. RegisteredIsComplete'
    BY <1>1 DEF RInv, RegisteredIsComplete, Registered
  <1> QED  BY <1>1, <1>2, <1>3, <1>4, BootStep

LEMMA InitializeStep ==
    ASSUME RInv, NEW t \in Activatable, NEW next \in {"knowledge", "up"}, Initialize(t, next)
    PROVE  RInv'
  <1>1. /\ server \in {"primary", "knowledge"} /\ server' \in {"knowledge", "up"}
        /\ Seeds(t) /\ TypeOK
        /\ UNCHANGED <<ready, main, space, files, lock, req, log>>
    BY DEF Initialize, Activatable, RInv
  <1>2. TypeOK'
    BY <1>1, SeedsFacts DEF TypeOK
  <1>3. ready'
    BY <1>1 DEF RInv, TableThere
  <1>4. RegisteredIsComplete'
    BY <1>1, SeedsComplete DEF RInv
  <1> QED  BY <1>1, <1>2, <1>3, <1>4, BootStep DEF TableThere

\* Every step keeps the invariant.
LEMMA StepRInv == RInv /\ [Next]_vars => RInv'
  <1> SUFFICES ASSUME RInv, [Next]_vars PROVE RInv'
    OBVIOUS
  <1>1. CASE UNCHANGED vars
    BY <1>1 DEF vars, RInv, TypeOK, LockHeld, ServedWhenUp, TableThere, StageOK, UploadStage,
       OtherStage, EnsureStage, Holding, Registered, RegisteredIsComplete
  <1>2. CASE Boot \/ StartFails
    BY <1>2, CreateRegistryStep, InitializeStep DEF Boot, Activatable
  <1>3. ASSUME NEW r \in Request, Accept(r) \/ TakeLoop(r) \/ TakeLock(r) PROVE RInv'
    BY <1>3, AcceptStep, TakeLoopStep, TakeLockStep
  <1>4. ASSUME NEW r \in Request, Proceed(r) PROVE RInv'
    <2>1. IngestTable(r, "primary", "transactions") \/ IngestTable(r, "knowledge", "knowledge")
          => RInv'
      BY IngestTableStep DEF Activatable
    <2>2. Ensure(r) => RInv'
      BY EnsureTableStep, EnsureRowStep DEF Ensure, Activatable
    <2> QED
      BY <1>4, <2>1, <2>2, CheckDuplicateStep, CreateSchemaStep, CreateTableStep,
         FillTableStep, PublishStep, DropBrokenStep, BeginActivateStep, CommitActivateStep,
         BeginDeleteStep, CommitDeleteStep, UnlinkFileStep, RecordEventStep, ReadStep
      DEF Proceed
  <1>5. ASSUME NEW r \in Request, StatementFails(r) PROVE RInv'
    BY <1>5, StatementFailsStep
  <1>6. CASE Restart
    BY <1>6, RestartStep
  <1>7. CASE Quiet
    BY <1>1, <1>7 DEF Quiet
  <1> QED  BY <1>1, <1>2, <1>3, <1>4, <1>5, <1>6, <1>7 DEF Next

\* The invariant that everything else rests on: the lock is held by exactly those who
\* should, and what they rely on stays as they found it.
THEOREM RegistryInvariant == Spec => []RInv
  BY InitRInv, StepRInv, PTL DEF Spec

\* Type correctness, with any failures and restarts.
THEOREM RegistryTypes == Spec => []TypeOK
  <1>1. RInv => TypeOK
    BY DEF RInv
  <1> QED  BY <1>1, RegistryInvariant, PTL

\* A row of the registry is never there without its whole table, of a type its content is
\* accepted as, and its file: not after crashes, failed statements or forced re-uploads.
THEOREM RegisteredIsCompleteTheorem == Spec => []RegisteredIsComplete
  <1>1. RInv => RegisteredIsComplete
    BY DEF RInv
  <1> QED  BY <1>1, RegistryInvariant, PTL
-----------------------------------------------------------------------------
(* The active dataset of a type. *)

\* Steps that change neither rows, schemas nor the log.
Passive(r) ==
    \/ Accept(r) \/ TakeLoop(r) \/ TakeLock(r) \/ EnsureTable(r)
    \/ BeginActivate(r) \/ BeginDelete(r) \/ ResolveContext(r)

LEMMA PassiveFacts ==
    ASSUME TypeOK, NEW r \in Request, Passive(r)
    PROVE  /\ req[r].pc \in {"idle", "stored", "waiting", "creating", "checking"}
           /\ req'[r].pc \notin {"unlinking", "changed"}
           /\ \A s \in Request \ {r} : req'[s] = req[s]
           /\ UNCHANGED <<registry, space, log>>
           /\ lock' = lock \/ lock = Free \/ lock = r
  <1>1. req \in [Request -> Req] /\ Idle.pc = "idle"
    BY DEF TypeOK, Idle
  <1>2. CASE Accept(r)
    BY <1>1, <1>2 DEF Accept, Starts, StoreUpload, Activate, Delete, Query, BeginIngest
  <1>3. CASE BeginActivate(r)
    <2>1. /\ req[r].pc = "checking" /\ req[r].op.kind = "activate"
          /\ UNCHANGED <<registry, space, log>> /\ (lock' = lock \/ lock = r)
      BY <1>3 DEF BeginActivate, Releases
    <2>2. Ends(r) \/ \E t \in Activatable :
             req' = [req EXCEPT ![r].pc = "activating", ![r].op.type = t]
      BY <1>3 DEF BeginActivate
    <2>3. CASE Ends(r)
      BY <1>1, <2>1, <2>3, EndsFacts
    <2>4. ASSUME NEW t \in Activatable,
                 req' = [req EXCEPT ![r].pc = "activating", ![r].op.type = t]
          PROVE  req'[r].pc = "activating" /\ \A s \in Request \ {r} : req'[s] = req[s]
      BY <1>1, <2>1, <2>4, ActivatingFacts
    <2> QED  BY <2>1, <2>2, <2>3, <2>4
  <1>4. ASSUME \/ TakeLoop(r) \/ TakeLock(r) \/ EnsureTable(r)
               \/ BeginDelete(r) \/ ResolveContext(r)
        PROVE  /\ req[r].pc \in {"stored", "waiting", "creating", "checking"}
               /\ UNCHANGED <<registry, space, log>>
               /\ lock' = lock \/ lock = Free \/ lock = r
               /\ Ends(r) \/ \E pc \in Stage \ {"unlinking", "changed"} : Goes(r, pc)
    BY <1>4 DEF TakeLoop, TakeLock, EnsureTable, BeginDelete, ResolveContext, Releases, Stage
  <1>5. CASE Ends(r)
    BY <1>1, <1>2, <1>3, <1>4, <1>5, EndsFacts DEF Passive
  <1>6. ASSUME NEW pc \in Stage \ {"unlinking", "changed"}, Goes(r, pc)
        PROVE  /\ req'[r].pc \notin {"unlinking", "changed"}
               /\ \A s \in Request \ {r} : req'[s] = req[s]
    BY <1>1, <1>6, GoesFacts
  <1> QED  BY <1>2, <1>3, <1>4, <1>5, <1>6 DEF Passive

\* The statements that change rows.  A request that initialises the registry finds no
\* active dataset of the type it inserts.
LEMMA RegistrySteps ==
    ASSUME RInv, [Next]_vars
    PROVE  \/ registry' = registry
           \/ \E t \in Activatable : Seeds(t) /\ (server # "up" \/ Active(t) = {})
           \/ \E r \in Request :
                 Publish(r) \/ CommitActivate(r) \/ CheckDuplicate(r) \/ CommitDelete(r)
  <1>1. CASE Boot \/ StartFails
    BY <1>1 DEF Boot, CreateRegistry, Initialize, StartFails, Activatable
  <1>2. ASSUME NEW r \in Request, NEW t \in Activatable,
               NEW pc \in {"seedPrimary", "seedKnowledge"},
               pc = IF t = "primary" THEN "seedPrimary" ELSE "seedKnowledge",
               EnsureRow(r, t, pc)
        PROVE  Seeds(t) /\ Active(t) = {}
    BY <1>2 DEF EnsureRow, RInv, StageOK, EnsureStage, Registered, Active, Activatable
  <1>3. ASSUME NEW r \in Request, Ensure(r)
        PROVE  registry' = registry \/ \E t \in Activatable : Seeds(t) /\ Active(t) = {}
    BY <1>2, <1>3 DEF Ensure, EnsureTable, Activatable
  <1>4. ASSUME NEW r \in Request, Passive(r) PROVE registry' = registry
    BY <1>4, PassiveFacts DEF RInv
  <1>5. ASSUME NEW r \in Request, Proceed(r)
        PROVE  \/ Ensure(r) \/ Passive(r) \/ registry' = registry
               \/ Publish(r) \/ CommitActivate(r) \/ CheckDuplicate(r) \/ CommitDelete(r)
    BY <1>5 DEF Proceed, Passive, CreateSchema, CreateTable, FillTable, DropBroken,
       UnlinkFile, RecordEvent, ResolveTable, SelectRows, AnswerQuery, IngestTable
  <1>6. CASE Restart \/ Quiet \/ UNCHANGED vars
    BY <1>6 DEF Restart, Quiet, vars
  <1>7. ASSUME NEW r \in Request, StatementFails(r) PROVE registry' = registry
    BY <1>7 DEF StatementFails
  <1> QED  BY <1>1, <1>3, <1>4, <1>5, <1>6, <1>7 DEF Next, Passive

\* r commits an upload or an activation, and its dataset is now the only active one.
Switches(r, t) ==
    /\ req[r].op.kind \in {"upload", "activate"}
    /\ req'[r].pc = "changed" /\ req[r].pc # "changed"
    /\ req[r].op.id \in Id
    /\ Active(t)' = {req[r].op.id}

\* The active datasets of type t and the order they came in stay as they are.
Kept(t) ==
    /\ Active(t)' = Active(t)
    /\ \A i \in Id : registry'[i].type = t => registry[i].type = t
    /\ \A i \in Active(t) : registry'[i].older \intersect Active(t)
                              = registry[i].older \intersect Active(t)

\* The built-in dataset joins them, as the newest.
Joined(t) ==
    /\ server # "up" \/ Active(t) = {}
    /\ BuiltinId[t] \in Id \ Registered
    /\ Active(t)' = Active(t) \union {BuiltinId[t]}
    /\ Active(t) \subseteq registry'[BuiltinId[t]].older
    /\ \A i \in Active(t) : registry'[i] = registry[i]

\* The three things a step can do to the active datasets of type t.
ActiveStep(t) == Kept(t) \/ Joined(t) \/ \E r \in Request : Switches(r, t)

LEMMA SameRegistryKeeps ==
    ASSUME registry' = registry, NEW t \in Activatable
    PROVE  Kept(t)
  BY DEF Kept, Active

LEMMA PublishSwitches ==
    ASSUME RInv, NEW r \in Request, NEW t \in Activatable, Publish(r)
    PROVE  ActiveStep(t)
  <1> DEFINE op == req[r].op
  <1>0. op.id \in Content /\ op.id \notin Registered
    BY PublishFacts
  <1>1. /\ op.id \in Content /\ op.id \in Id /\ op.type \in Type
        /\ registry[op.id].type = "none"
        /\ registry'[op.id].type = op.type
        /\ registry'[op.id].active <=> op.type \in Activatable
        /\ \A i \in Id \ {op.id} :
              /\ registry'[i].type = registry[i].type
              /\ registry[i].type = op.type /\ op.type \in Activatable =>
                    registry'[i].active = FALSE
              /\ registry[i].type # op.type \/ op.type \notin Activatable =>
                    registry'[i] = registry[i]
    <2>1. op.id \in Id /\ registry[op.id].type = "none"
      BY <1>0, BuiltinFacts DEF Registered
    <2> QED  BY <2>1, PublishFacts
  <1>2. t # "none"
    BY DEF Activatable
  <1>3. CASE op.type = t
    <2>1. Active(t)' = {op.id}
      BY <1>1, <1>3 DEF Active
    <2>2. op.kind = "upload" /\ req[r].pc # "changed"
      BY DEF RInv, StageOK, UploadStage, Publish
    <2>3. req'[r].pc = "changed"
      BY GoesFacts DEF Publish, Stage, RInv, TypeOK
    <2> QED  BY <1>1, <2>1, <2>2, <2>3 DEF ActiveStep, Switches
  <1>4. CASE op.type # t
    <2>1. \A i \in Id : registry[i].type = t \/ registry'[i].type = t =>
             i # op.id /\ registry'[i] = registry[i]
      BY <1>1, <1>2, <1>4
    <2>2. Active(t)' = Active(t)
      BY <2>1 DEF Active
    <2> QED  BY <2>1, <2>2 DEF ActiveStep, Kept, Active
  <1> QED  BY <1>3, <1>4

LEMMA CommitActivateSwitches ==
    ASSUME RInv, NEW r \in Request, NEW t \in Activatable, CommitActivate(r)
    PROVE  ActiveStep(t)
  <1> DEFINE op == req[r].op
  <1>1. /\ op.kind = "activate" /\ op.id \in Id
        /\ registry[op.id].type = op.type
        /\ registry'[op.id].active
        /\ \A i \in Id : registry'[i].type = registry[i].type
        /\ \A i \in Id \ {op.id} :
              /\ registry[i].type = op.type => registry'[i].active = FALSE
              /\ registry[i].type # op.type => registry'[i] = registry[i]
    BY CommitActivateFacts
  <1>2. CASE op.type = t
    <2>1. Active(t)' = {op.id}
      BY <1>1, <1>2 DEF Active
    <2>2. req[r].pc # "changed"
      BY DEF CommitActivate
    <2>3. req'[r].pc = "changed"
      BY GoesFacts DEF CommitActivate, Stage, RInv, TypeOK
    <2> QED  BY <1>1, <2>1, <2>2, <2>3 DEF ActiveStep, Switches
  <1>3. CASE op.type # t
    <2>1. \A i \in Id : registry[i].type = t \/ registry'[i].type = t =>
             i # op.id /\ registry'[i] = registry[i]
      BY <1>1, <1>3
    <2>2. Active(t)' = Active(t)
      BY <2>1 DEF Active
    <2> QED  BY <2>1, <2>2 DEF ActiveStep, Kept, Active
  <1> QED  BY <1>2, <1>3

\* What a forced re-upload or a deletion removes.
LEMMA RemovalFacts ==
    ASSUME RInv, NEW r \in Request, CheckDuplicate(r) \/ CommitDelete(r)
    PROVE  \/ registry' = registry
           \/ /\ req[r].op.id \in Content /\ req[r].op.id \in Id
              /\ ~registry[req[r].op.id].active
              /\ registry' = WithoutRow(registry, req[r].op.id)
  <1> DEFINE c == req[r].op.id
  <1>1. req \in [Request -> Req]
    BY DEF RInv, TypeOK
  <1>2. c \in Content /\ c \in Id
    <2>1. req[r].op \in Op
      BY <1>1 DEF Req
    <2>2. CASE CheckDuplicate(r)
      BY <2>1, <2>2, OpFacts, BuiltinFacts DEF CheckDuplicate
    <2>3. CASE CommitDelete(r)
      BY <2>3, BuiltinFacts DEF RInv, StageOK, OtherStage, CommitDelete
    <2> QED  BY <2>2, <2>3
  <1>3. CASE CheckDuplicate(r)
    BY <1>2, <1>3 DEF CheckDuplicate
  <1>4. CASE CommitDelete(r)
    BY <1>2, <1>4 DEF RInv, StageOK, OtherStage, CommitDelete
  <1> QED  BY <1>3, <1>4

\* Only inactive uploads lose their row.
LEMMA RemovalKeeps ==
    ASSUME RInv, NEW r \in Request, NEW t \in Activatable, CheckDuplicate(r) \/ CommitDelete(r)
    PROVE  Kept(t)
  <1> DEFINE c == req[r].op.id
  <1>1. registry \in [Id -> Row] /\ t # "none"
    BY DEF RInv, TypeOK, Activatable
  <1>2. CASE /\ c \in Id /\ ~registry[c].active /\ registry' = WithoutRow(registry, c)
    <2>1. /\ registry'[c].type = "none"
          /\ \A i \in Id \ {c} : /\ registry'[i].type = registry[i].type
                                 /\ registry'[i].active = registry[i].active
                                 /\ registry'[i].older = registry[i].older \ {c}
      BY <1>1, <1>2, WithoutRowFacts DEF NoRow
    <2>2. c \notin Active(t)
      BY <1>2 DEF Active
    <2>3. Active(t)' = Active(t)
      BY <1>1, <1>2, <2>1 DEF Active
    <2>4. \A i \in Active(t) : registry'[i].older = registry[i].older \ {c}
      BY <2>1, <2>2 DEF Active
    <2> QED  BY <1>1, <2>1, <2>2, <2>3, <2>4 DEF Kept
  <1> QED  BY <1>2, RemovalFacts, SameRegistryKeeps

LEMMA SeedsActive ==
    ASSUME RInv, NEW u \in Activatable, Seeds(u), server # "up" \/ Active(u) = {},
           NEW t \in Activatable
    PROVE  ActiveStep(t)
  <1>1. BuiltinId[u] \in Id /\ (u # t => BuiltinId[u] # BuiltinId[t]) /\ TypeOK
        /\ u # "none" /\ t # "none"
    BY BuiltinFacts DEF Activatable, RInv
  <1>2. CASE registry' = registry
    BY <1>2, SameRegistryKeeps DEF ActiveStep
  <1>3. CASE /\ BuiltinId[u] \notin Registered
             /\ registry'[BuiltinId[u]].type = u
             /\ registry'[BuiltinId[u]].active
             /\ registry'[BuiltinId[u]].older = Registered \ {BuiltinId[u]}
             /\ \A i \in Id \ {BuiltinId[u]} : registry'[i] = registry[i]
    <2>1. registry[BuiltinId[u]].type = "none"
      BY <1>1, <1>3 DEF Registered
    <2>2. CASE u = t
      <3>1. Active(t)' = Active(t) \union {BuiltinId[t]}
        BY <1>1, <1>3, <2>1, <2>2 DEF Active
      <3>2. Active(t) \subseteq Registered /\ BuiltinId[t] \notin Active(t)
        BY <1>1, <2>1, <2>2 DEF Active, Registered
      <3>3. \A i \in Active(t) : registry'[i] = registry[i]
        BY <1>3, <2>2, <3>2 DEF Active
      <3> QED  BY <1>1, <1>3, <2>2, <3>1, <3>2, <3>3 DEF ActiveStep, Joined
    <2>3. CASE u # t
      <3>1. \A i \in Id : registry[i].type = t \/ registry'[i].type = t =>
               registry'[i] = registry[i]
        BY <1>1, <1>3, <2>1, <2>3
      <3>2. Active(t)' = Active(t)
        BY <3>1 DEF Active
      <3> QED  BY <3>1, <3>2 DEF ActiveStep, Kept, Active
    <2> QED  BY <2>2, <2>3
  <1> QED  BY <1>1, <1>2, <1>3, SeedsFacts

LEMMA EveryStepIsActiveStep ==
    ASSUME RInv, [Next]_vars, NEW t \in Activatable
    PROVE  ActiveStep(t)
  <1>1. CASE registry' = registry
    BY <1>1, SameRegistryKeeps DEF ActiveStep
  <1>2. ASSUME NEW u \in Activatable, Seeds(u), server # "up" \/ Active(u) = {}
        PROVE  ActiveStep(t)
    BY <1>2, SeedsActive
  <1>3. ASSUME NEW r \in Request,
               Publish(r) \/ CommitActivate(r) \/ CheckDuplicate(r) \/ CommitDelete(r)
        PROVE  ActiveStep(t)
    BY <1>3, PublishSwitches, CommitActivateSwitches, RemovalKeeps DEF ActiveStep
  <1> QED  BY <1>1, <1>2, <1>3, RegistrySteps

LEMMA StepOneActive == RInv /\ OneActivePerType /\ [Next]_vars => OneActivePerType'
  <1> SUFFICES ASSUME RInv, OneActivePerType, [Next]_vars, NEW t \in Activatable
               PROVE  LET others == Active(t)' \ {BuiltinId[t]}
                      IN  /\ (\E i \in Id : registry'[i].type = t) => Active(t)' # {}
                          /\ \A i, j \in others : i = j
                          /\ BuiltinId[t] \in Active(t)' =>
                                others \subseteq registry'[BuiltinId[t]].older
    BY DEF OneActivePerType
  <1>1. /\ (\E i \in Id : registry[i].type = t) => Active(t) # {}
        /\ \A i, j \in Active(t) \ {BuiltinId[t]} : i = j
        /\ BuiltinId[t] \in Active(t) =>
              Active(t) \ {BuiltinId[t]} \subseteq registry[BuiltinId[t]].older
    BY DEF OneActivePerType
  <1>2. CASE Kept(t)
    BY <1>1, <1>2 DEF Kept
  <1>3. CASE Joined(t)
    <2>1. BuiltinId[t] \notin Active(t)
      BY <1>3 DEF Joined, Active, Registered, Activatable
    <2>2. Active(t)' \ {BuiltinId[t]} = Active(t) /\ Active(t)' # {}
      BY <1>3, <2>1 DEF Joined
    <2> QED  BY <1>1, <1>3, <2>1, <2>2 DEF Joined
  <1>4. CASE \E r \in Request : Switches(r, t)
    BY <1>4 DEF Switches
  <1> QED  BY <1>2, <1>3, <1>4, EveryStepIsActiveStep DEF ActiveStep

\* Whatever fails, start-up included, and whichever tables the first start finds, a type
\* with datasets has an active one, and only one that requests made active; what a start
\* adds is the newest.
THEOREM OneActivePerTypeTheorem == Spec => []OneActivePerType
  <1>1. Init => OneActivePerType
    BY DEF Init, OneActivePerType, Active, NoRow, Activatable
  <1> QED
    BY <1>1, StepOneActive, RegistryInvariant, PTL DEF Spec

-----------------------------------------------------------------------------
(* The default dataset. *)

\* A row is newer only than rows that are there.
OlderRegistered == \A i \in Id : registry[i].older \subseteq Registered

LEMMA StepOlder == RInv /\ OlderRegistered /\ [Next]_vars => OlderRegistered'
  <1> SUFFICES ASSUME RInv, OlderRegistered, [Next]_vars PROVE OlderRegistered'
    OBVIOUS
  <1>1. registry \in [Id -> Row] /\ TypeOK
    BY DEF RInv, TypeOK
  <1>2. CASE registry' = registry
    BY <1>2 DEF OlderRegistered, Registered
  <1>3. ASSUME NEW j \in Id, registry'[j].type # "none",
               \A i \in Id \ {j} : /\ registry'[i].type = registry[i].type
                                   /\ registry'[i].older = registry[i].older,
               registry'[j].older \subseteq Registered
        PROVE  OlderRegistered'
    BY <1>3 DEF OlderRegistered, Registered
  <1>4. ASSUME NEW t \in Activatable, Seeds(t) PROVE OlderRegistered'
    <2>1. BuiltinId[t] \in Id /\ t # "none"
      BY BuiltinFacts DEF Activatable
    <2> QED  BY <1>1, <1>2, <1>3, <1>4, <2>1, SeedsFacts
  <1>5. ASSUME NEW r \in Request, Publish(r) PROVE OlderRegistered'
    <2> DEFINE op == req[r].op
    <2>1. op.id \in Content /\ op.type \in Type /\ registry'[op.id].type = op.type
      BY <1>5, PublishFacts
    <2>2. op.id \in Id /\ registry'[op.id].type # "none"
      BY <2>1, BuiltinFacts DEF Type
    <2>3. /\ registry'[op.id].older \subseteq Registered
          /\ \A i \in Id \ {op.id} : /\ registry'[i].type = registry[i].type
                                     /\ registry'[i].older = registry[i].older
      BY <1>5, PublishFacts
    <2> QED  BY <1>3, <2>2, <2>3
  <1>6. ASSUME NEW r \in Request, CommitActivate(r) PROVE OlderRegistered'
    <2>1. \A i \in Id : /\ registry'[i].type = registry[i].type
                        /\ registry'[i].older = registry[i].older
      BY <1>6, CommitActivateFacts
    <2> QED  BY <2>1 DEF OlderRegistered, Registered
  <1>7. ASSUME NEW c \in Id, registry' = WithoutRow(registry, c) PROVE OlderRegistered'
    <2>1. /\ registry'[c].type = "none" /\ registry'[c].older = {}
          /\ \A i \in Id \ {c} : /\ registry'[i].type = registry[i].type
                                 /\ registry'[i].older = registry[i].older \ {c}
      BY <1>1, <1>7, WithoutRowFacts DEF NoRow
    <2> QED  BY <2>1 DEF OlderRegistered, Registered
  <1>8. ASSUME NEW r \in Request, CheckDuplicate(r) \/ CommitDelete(r) PROVE OlderRegistered'
    BY <1>2, <1>7, <1>8, RemovalFacts
  <1> QED  BY <1>2, <1>4, <1>5, <1>6, <1>8, RegistrySteps

\* Queries' default dataset changes only by an upload or an activation that commits, to
\* its own dataset, or while the server starts, to a built-in one that had never been
\* inserted: no deletion, ingestion, failure or late initialisation changes it.
THEOREM DefaultChangesHaveCauseTheorem == Spec => DefaultChangesHaveCause
  <1> DEFINE Cause ==
               \A t \in Activatable :
                  Current(t) # {} /\ Current(t) # Current(t)' =>
                     \/ \E r \in Request : /\ req[r].op.kind \in {"upload", "activate"}
                                           /\ req'[r].pc = "changed" /\ req[r].pc # "changed"
                                           /\ Current(t)' = {req[r].op.id}
                     \/ /\ server # "up"
                        /\ BuiltinId[t] \notin Registered
                        /\ Current(t)' = {BuiltinId[t]}
  <1>1. RInv /\ OlderRegistered /\ [Next]_vars => Cause
    <2> SUFFICES ASSUME RInv, OlderRegistered, [Next]_vars, NEW t \in Activatable,
                        Current(t) # {}, Current(t) # Current(t)'
                 PROVE  \/ \E r \in Request :
                              /\ req[r].op.kind \in {"upload", "activate"}
                              /\ req'[r].pc = "changed" /\ req[r].pc # "changed"
                              /\ Current(t)' = {req[r].op.id}
                        \/ /\ server # "up"
                           /\ BuiltinId[t] \notin Registered
                           /\ Current(t)' = {BuiltinId[t]}
      OBVIOUS
    <2>1. ActiveStep(t)
      BY EveryStepIsActiveStep
    <2>2. CASE Kept(t)
      <3>1. \A i \in Active(t) : Active(t) \ {i} \subseteq registry'[i].older
                                   <=> Active(t) \ {i} \subseteq registry[i].older
        BY <2>2 DEF Kept
      <3>2. Current(t)' = {i \in Active(t) : Active(t) \ {i} \subseteq registry'[i].older}
        BY <2>2 DEF Kept, Current
      <3>3. Current(t)' = Current(t)
        BY <3>1, <3>2 DEF Current
      <3> QED  BY <3>3
    <2>3. CASE Joined(t)
      <3> DEFINE b == BuiltinId[t]
      <3>1. /\ server # "up" /\ b \notin Registered /\ b \in Id
            /\ Active(t)' = Active(t) \union {b}
            /\ Active(t) \subseteq registry'[b].older
            /\ \A i \in Active(t) : registry'[i] = registry[i]
        BY <2>3 DEF Joined, Current
      <3>2. b \notin Active(t) /\ Active(t) \subseteq Id
        BY <3>1 DEF Active, Registered, Activatable
      <3>3. \A i \in Active(t) : b \notin registry'[i].older
        BY <3>1, <3>2 DEF OlderRegistered
      <3>4. Current(t)' = {i \in Active(t)' : Active(t)' \ {i} \subseteq registry'[i].older}
        BY DEF Current
      <3> HIDE DEF b
      <3>5. Current(t)' = {b}
        BY <3>1, <3>2, <3>3, <3>4
      <3> QED  BY <3>1, <3>5 DEF b
    <2>4. ASSUME NEW r \in Request, Switches(r, t)
          PROVE  /\ req[r].op.kind \in {"upload", "activate"}
                 /\ req'[r].pc = "changed" /\ req[r].pc # "changed"
                 /\ Current(t)' = {req[r].op.id}
      <3>1. Current(t)' = {i \in Active(t)' : Active(t)' \ {i} \subseteq registry'[i].older}
        BY DEF Current
      <3> QED  BY <2>4, <3>1 DEF Switches
    <2> QED  BY <2>1, <2>2, <2>3, <2>4 DEF ActiveStep
  <1>2. Init => OlderRegistered
    BY DEF Init, OlderRegistered, NoRow
  <1> QED
    BY <1>1, <1>2, StepOlder, RegistryInvariant, PTL DEF Spec, DefaultChangesHaveCause

-----------------------------------------------------------------------------
(* Failed uploads. *)

\* The content of a schema without a row is the one being registered: what every step
\* keeps unless it kills the process.
LEMMA StepLeavesNothing ==
    "crash" \notin Faults /\ RInv /\ FailedUploadLeavesNothing /\ [Next]_vars
        => FailedUploadLeavesNothing'
  <1> SUFFICES ASSUME "crash" \notin Faults, RInv, FailedUploadLeavesNothing, [Next]_vars,
                      NEW c \in Content, c \notin Registered', space'[c] # NoSpace
               PROVE  /\ lock' \in Request
                      /\ req'[lock'].op.id = c
                      /\ req'[lock'].pc \in {"filling", "loaded", "broken"}
    BY DEF FailedUploadLeavesNothing
  <1> DEFINE Mine(r) == req[r].pc \in {"filling", "loaded", "broken"} /\ req[r].op.id = c
             MineNext(r) == req'[r].pc \in {"filling", "loaded", "broken"} /\ req'[r].op.id = c
  <1>1. c \notin Registered /\ space[c] # NoSpace => lock \in Request /\ Mine(lock)
    BY DEF FailedUploadLeavesNothing
  <1>2. /\ req \in [Request -> Req] /\ space \in [Content -> Space] /\ registry \in [Id -> Row]
        /\ c \in Id
    BY BuiltinFacts DEF RInv, TypeOK
  <1>3. ASSUME NEW r \in Request, req[r].pc \in {"filling", "loaded", "broken"}
        PROVE  lock = r /\ req[r].op.id \notin Registered /\ req[r].op.id \in Content
    BY <1>2, <1>3, OpFacts DEF RInv, LockHeld, Holding, StageOK, UploadStage, Req
  \* A step of a request that is not filling a schema, and touches neither registry nor schemas.
  <1>4. ASSUME NEW r \in Request, req[r].pc \notin {"filling", "loaded", "broken"},
               \A s \in Request \ {r} : req'[s] = req[s],
               UNCHANGED <<registry, space>>, lock' = lock \/ lock = Free \/ lock = r
        PROVE  lock' \in Request /\ MineNext(lock')
    BY <1>1, <1>4, LockAssumption DEF Registered
  <1>5. CASE UNCHANGED vars \/ Quiet
    BY <1>1, <1>5 DEF vars, Quiet, Registered
  <1>6. CASE Restart
    BY <1>6 DEF Restart
  <1>0. ASSUME NEW t \in Activatable, Seeds(t) PROVE c \notin Registered
    BY <1>0, <1>2, SeedsFacts, BuiltinFacts DEF RInv, Registered
  <1>7. CASE Boot \/ StartFails
    <2>1. UNCHANGED <<space, lock, req>>
      BY <1>7 DEF Boot, CreateRegistry, Initialize, StartFails
    <2>2. registry' = registry \/ \E t \in Activatable : Seeds(t)
      BY <1>7 DEF Boot, CreateRegistry, Initialize, StartFails, Activatable
    <2>3. c \notin Registered
      BY <1>0, <2>2 DEF Registered
    <2> QED  BY <1>1, <2>1, <2>3
  <1>8. ASSUME NEW r \in Request, Passive(r)
        PROVE  lock' \in Request /\ MineNext(lock')
    <2>1. /\ req[r].pc \notin {"filling", "loaded", "broken"} /\ UNCHANGED <<registry, space>>
          /\ \A s \in Request \ {r} : req'[s] = req[s]
          /\ lock' = lock \/ lock = Free \/ lock = r
      BY <1>8, PassiveFacts DEF RInv
    <2> QED  BY <1>4, <2>1
  \* Steps under the lock before a schema is there: no schema lacks its row yet.
  <1>9. ASSUME NEW r \in Request, lock = r, req[r].pc \notin {"filling", "loaded", "broken"}
        PROVE  c \notin Registered => space[c] = NoSpace
    BY <1>1, <1>9
  <1>14. ASSUME NEW r \in Request, Ensure(r), ~EnsureTable(r)
         PROVE  lock' \in Request /\ MineNext(lock')
    <2>1. /\ req[r].pc \in {"seedPrimary", "seedKnowledge"} /\ space' = space
          /\ \E t \in Activatable : Seeds(t)
      BY <1>14 DEF Ensure, EnsureRow, Activatable
    <2>2. lock = r
      BY <2>1 DEF RInv, LockHeld, Holding
    <2>3. c \notin Registered
      BY <1>0, <2>1
    <2> QED  BY <1>9, <2>1, <2>2, <2>3
  <1>10. ASSUME NEW r \in Request,
                CheckDuplicate(r) \/ CreateSchema(r) \/ CommitDelete(r) \/ CommitActivate(r)
         PROVE  lock' \in Request /\ MineNext(lock')
    <2> DEFINE o == req[r].op.id
    <2>1. /\ lock = r /\ req[r].pc \notin {"filling", "loaded", "broken"}
          /\ \A s \in Request \ {r} : req'[s] = req[s]
      BY <1>2, <1>10 DEF RInv, LockHeld, Holding, CheckDuplicate, CreateSchema, CommitDelete,
         CommitActivate, Goes, Ends
    <2>2. c \notin Registered => space[c] = NoSpace
      BY <1>9, <2>1
    <2>3. CASE UNCHANGED <<registry, space>>
      BY <1>4, <2>1, <2>3
    <2>4. CASE /\ registry' = IF o \in Registered THEN WithoutRow(registry, o) ELSE registry
               /\ space' = [space EXCEPT ![o] = NoSpace]
      <3>1. c # o
        BY <1>2, <2>4
      <3>2. c \notin Registered
        BY <1>2, <2>4, <3>1, WithoutRowFacts DEF Registered
      <3> QED  BY <1>2, <2>2, <2>4, <3>1, <3>2
    <2>5. CASE CheckDuplicate(r)
      BY <2>3, <2>4, <2>5 DEF CheckDuplicate
    <2>6. CASE CommitDelete(r)
      <3>1. o \in Id
        BY <1>2, <2>6, BuiltinFacts DEF RInv, StageOK, OtherStage, CommitDelete
      <3>2. registry' = WithoutRow(registry, o) /\ space' = [space EXCEPT ![o] = NoSpace]
        BY <2>6 DEF CommitDelete
      <3>3. c # o
        BY <1>2, <3>2
      <3>4. c \notin Registered
        BY <1>2, <3>1, <3>2, <3>3, WithoutRowFacts DEF Registered
      <3> QED  BY <1>2, <2>2, <3>2, <3>3, <3>4
    <2>7. CASE CommitActivate(r)
      <3>1. c \notin Registered /\ space' = space
        BY <1>2, <2>7, CommitActivateFacts DEF Registered, CommitActivate
      <3> QED  BY <2>2, <3>1
    <2>8. CASE CreateSchema(r) /\ space[o] = NoSpace
      <3>1. /\ lock' = r /\ Goes(r, "filling") /\ UNCHANGED registry
            /\ space' = [space EXCEPT ![o] = EmptySpace]
        BY <2>1, <2>8 DEF CreateSchema
      <3>2. req'[r].pc = "filling" /\ req'[r].op = req[r].op
        BY <1>2, <3>1, GoesFacts DEF Stage
      <3>3. c = o
        BY <1>2, <2>2, <2>8, <3>1 DEF Registered
      <3> QED  BY <3>1, <3>2, <3>3
    <2>9. CASE CreateSchema(r) /\ space[o] # NoSpace
      BY <2>3, <2>9 DEF CreateSchema
    <2> QED  BY <1>10, <2>5, <2>6, <2>7, <2>8, <2>9
  <1>11. ASSUME NEW r \in Request, CreateTable(r) \/ FillTable(r) \/ Publish(r) \/ DropBroken(r)
         PROVE  lock' \in Request /\ MineNext(lock')
    <2> DEFINE o == req[r].op.id
    <2>1. /\ lock = r /\ o \notin Registered /\ o \in Content
          /\ req[r].pc \in {"filling", "loaded", "broken"}
      BY <1>3, <1>11 DEF CreateTable, FillTable, Publish, DropBroken
    <2>2. c \notin Registered /\ space[c] # NoSpace => c = o
      BY <1>1, <2>1
    <2>3. CASE CreateTable(r) \/ FillTable(r)
      <3>1. lock' = r /\ registry' = registry
        BY <2>1, <2>3 DEF CreateTable, FillTable
      <3>2. c = o
        BY <1>2, <2>1, <2>2, <2>3, <3>1 DEF CreateTable, FillTable, Registered
      <3>3. req'[r].pc \in {"filling", "loaded", "broken"} /\ req'[r].op = req[r].op
        BY <1>2, <2>1, <2>3, GoesFacts DEF CreateTable, FillTable, Stage
      <3> QED  BY <3>1, <3>2, <3>3
    <2>4. CASE Publish(r)
      <3>3. /\ req[r].op.type \in Type /\ registry'[o].type = req[r].op.type
            /\ \A i \in Id \ {o} : registry'[i].type = registry[i].type
        BY <2>4, PublishFacts
      <3>1. c # o /\ c \notin Registered
        BY <1>2, <3>3 DEF Registered, Type
      <3>2. space' = space
        BY <2>4 DEF Publish
      <3> QED  BY <2>2, <3>1, <3>2
    <2>5. CASE DropBroken(r)
      <3>1. space' = [space EXCEPT ![o] = NoSpace] /\ registry' = registry
        BY <2>5 DEF DropBroken
      <3>2. c # o
        BY <1>2, <2>1, <3>1
      <3> QED  BY <1>2, <2>2, <3>1, <3>2 DEF Registered
    <2> QED  BY <1>11, <2>3, <2>4, <2>5
  <1>12. ASSUME NEW r \in Request,
                UnlinkFile(r) \/ RecordEvent(r) \/ ResolveTable(r) \/ SelectRows(r)
                  \/ AnswerQuery(r) \/ IngestTable(r, "primary", "transactions")
                  \/ IngestTable(r, "knowledge", "knowledge")
         PROVE  lock' \in Request /\ MineNext(lock')
    <2>1. /\ req[r].pc \notin {"filling", "loaded", "broken"} /\ UNCHANGED <<registry, space>>
          /\ lock' = lock \/ lock = r
      BY <1>12 DEF UnlinkFile, RecordEvent, ResolveTable, SelectRows, AnswerQuery, IngestTable,
         Releases
    <2>2. \A s \in Request \ {r} : req'[s] = req[s]
      BY <1>2, <1>12 DEF UnlinkFile, RecordEvent, ResolveTable, SelectRows, AnswerQuery,
         IngestTable, Goes, Ends
    <2> QED  BY <1>4, <2>1, <2>2
  <1>13. ASSUME NEW r \in Request, StatementFails(r)
         PROVE  lock' \in Request /\ MineNext(lock')
    <2>1. UNCHANGED <<registry, space>> /\ \A s \in Request \ {r} : req'[s] = req[s]
      BY <1>2, <1>13 DEF StatementFails, Goes, Ends
    <2>2. CASE req[r].pc \in {"filling", "loaded"}
      <3>1. lock' = r /\ Goes(r, "broken")
        BY <1>3, <1>13, <2>2 DEF StatementFails
      <3>2. c = req[r].op.id
        BY <1>1, <1>3, <2>1, <2>2 DEF Registered
      <3>3. req'[r].pc = "broken" /\ req'[r].op = req[r].op
        BY <1>2, <3>1, GoesFacts DEF Stage
      <3> QED  BY <3>1, <3>2, <3>3
    <2>3. CASE req[r].pc \notin {"filling", "loaded"}
      BY <1>4, <1>13, <2>1, <2>3 DEF StatementFails, Releases
    <2> QED  BY <2>2, <2>3
  <1> QED
    BY <1>5, <1>6, <1>7, <1>8, <1>10, <1>11, <1>12, <1>13, <1>14
    DEF Next, Proceed, Ensure, Passive

\* Unless the process is killed, an upload that fails leaves no schema behind: whatever
\* statement fails, the content can be uploaded again.
THEOREM FailedUploadLeavesNothingTheorem ==
    "crash" \notin Faults /\ Spec => []FailedUploadLeavesNothing
  <1> SUFFICES ASSUME "crash" \notin Faults
               PROVE  Spec => []FailedUploadLeavesNothing
    OBVIOUS
  <1>1. Init => FailedUploadLeavesNothing
    BY DEF Init, FailedUploadLeavesNothing
  <1>2. RInv /\ FailedUploadLeavesNothing /\ [Next]_vars => FailedUploadLeavesNothing'
    BY StepLeavesNothing
  <1> QED
    BY <1>1, <1>2, RegistryInvariant, PTL DEF Spec

-----------------------------------------------------------------------------
(* The audit log and the registry. *)

Logged(kind, c) == {n \in 1..Len(log) : log[n] = [event |-> kind, id |-> c]}

Pending(kind, c, pcs) ==
    {r \in Request : /\ req[r].op.kind = kind
                     /\ req[r].op.id = c
                     /\ req[r].pc \in pcs}

\* The events of c, written or still to be written.
Uploads(c) == Cardinality(Logged("upload", c)) + Cardinality(Pending("upload", c, {"changed"}))

Deletions(c) ==
    Cardinality(Logged("delete", c))
      + Cardinality(Pending("delete", c, {"unlinking", "changed"}))

Account(c) == IF c \in Registered THEN Uploads(c) > Deletions(c) ELSE Uploads(c) >= Deletions(c)

LEMMA AuditIsAccount == AuditAccountsForDatasets <=> \A c \in Content : Account(c)
  BY DEF AuditAccountsForDatasets, Account, Uploads, Deletions, Logged, Pending

\* The events are finitely many.
LEMMA LoggedFinite ==
    ASSUME TypeOK, NEW kind, NEW c
    PROVE  IsFiniteSet(Logged(kind, c)) /\ Cardinality(Logged(kind, c)) \in Nat
  <1>1. Len(log) \in Nat
    BY DEF TypeOK
  <1>2. IsFiniteSet(1..Len(log))
    BY <1>1, FS_Interval
  <1>3. Logged(kind, c) \in SUBSET (1..Len(log))
    BY DEF Logged
  <1> QED  BY <1>2, <1>3, FS_Subset, FS_CardinalityType

LEMMA PendingFinite ==
    ASSUME IsFiniteSet(Request), NEW kind, NEW c, NEW pcs
    PROVE  IsFiniteSet(Pending(kind, c, pcs)) /\ Cardinality(Pending(kind, c, pcs)) \in Nat
  <1>1. Pending(kind, c, pcs) \in SUBSET Request
    BY DEF Pending
  <1> QED  BY <1>1, FS_Subset, FS_CardinalityType

\* A step of r adds r to the requests with an event to write, or takes it out.
LEMMA PendingStep ==
    ASSUME IsFiniteSet(Request), NEW r \in Request, \A s \in Request \ {r} : req'[s] = req[s],
           NEW kind, NEW c, NEW pcs
    PROVE  Cardinality(Pending(kind, c, pcs))' =
             IF r \in Pending(kind, c, pcs)
             THEN IF r \in Pending(kind, c, pcs)' THEN Cardinality(Pending(kind, c, pcs))
                  ELSE Cardinality(Pending(kind, c, pcs)) - 1
             ELSE IF r \in Pending(kind, c, pcs)' THEN Cardinality(Pending(kind, c, pcs)) + 1
                  ELSE Cardinality(Pending(kind, c, pcs))
  <1> DEFINE P == Pending(kind, c, pcs)
             Q == Pending(kind, c, pcs)'
  <1>1. IsFiniteSet(P) /\ Cardinality(P) \in Nat
    BY PendingFinite
  <1>2. Q = IF r \in Q THEN P \cup {r} ELSE P \ {r}
    BY DEF Pending
  <1>3. Cardinality(P \cup {r}) = IF r \in P THEN Cardinality(P) ELSE Cardinality(P) + 1
    BY <1>1, FS_AddElement
  <1>4. Cardinality(P \ {r}) = IF r \in P THEN Cardinality(P) - 1 ELSE Cardinality(P)
    BY <1>1, FS_RemoveElement
  <1>5. Cardinality(P)' = Cardinality(Q)
    OBVIOUS
  <1> HIDE DEF P, Q
  <1>6. Cardinality(Q) =
             IF r \in P
             THEN IF r \in Q THEN Cardinality(P) ELSE Cardinality(P) - 1
             ELSE IF r \in Q THEN Cardinality(P) + 1 ELSE Cardinality(P)
    BY <1>2, <1>3, <1>4
  <1> QED  BY <1>5, <1>6 DEF P, Q

\* An event that is written is one more of its kind.
LEMMA LoggedStep ==
    ASSUME TypeOK, NEW event, log' = Append(log, event), NEW kind, NEW c
    PROVE  Cardinality(Logged(kind, c))' =
             IF event = [event |-> kind, id |-> c] THEN Cardinality(Logged(kind, c)) + 1
             ELSE Cardinality(Logged(kind, c))
  <1> DEFINE L == Logged(kind, c)
             K == Logged(kind, c)'
             m == Len(log) + 1
  <1>1. IsFiniteSet(L) /\ Cardinality(L) \in Nat
    BY LoggedFinite
  <1>2. /\ log \in Seq([event: {"upload", "activate", "delete"}, id: Id])
        /\ Len(log) \in Nat /\ Len(log') = m
        /\ \A n \in 1..Len(log) : log'[n] = log[n]
        /\ log'[m] = event
    BY DEF TypeOK
  <1>3. K = {n \in 1..m : log'[n] = [event |-> kind, id |-> c]}
    BY <1>2 DEF Logged
  <1>4. m \notin L /\ L = {n \in 1..Len(log) : log'[n] = [event |-> kind, id |-> c]}
    BY <1>2 DEF Logged
  <1>5. K = IF event = [event |-> kind, id |-> c] THEN L \cup {m} ELSE L
    BY <1>2, <1>3, <1>4
  <1>6. Cardinality(L \cup {m}) = Cardinality(L) + 1
    BY <1>1, <1>4, FS_AddElement
  <1>7. Cardinality(L)' = Cardinality(K)
    OBVIOUS
  <1> HIDE DEF L, K, m
  <1>8. Cardinality(K) =
             IF event = [event |-> kind, id |-> c] THEN Cardinality(L) + 1 ELSE Cardinality(L)
    BY <1>5, <1>6
  <1> QED  BY <1>7, <1>8 DEF L, K

LEMMA CountTypes ==
    ASSUME TypeOK, IsFiniteSet(Request), NEW c
    PROVE  Uploads(c) \in Nat /\ Deletions(c) \in Nat
  BY LoggedFinite, PendingFinite DEF Uploads, Deletions

\* What r still has to write about c.
UploadPending(r, c) == req[r].op.kind = "upload" /\ req[r].op.id = c /\ req[r].pc = "changed"

DeletePending(r, c) ==
    req[r].op.kind = "delete" /\ req[r].op.id = c /\ req[r].pc \in {"unlinking", "changed"}

\* The counts after a step of r that writes no event.
LEMMA SilentStep ==
    ASSUME TypeOK, IsFiniteSet(Request), NEW r \in Request,
           \A s \in Request \ {r} : req'[s] = req[s], log' = log, NEW c
    PROVE  /\ Uploads(c)' = IF UploadPending(r, c)
                            THEN IF UploadPending(r, c)' THEN Uploads(c) ELSE Uploads(c) - 1
                            ELSE IF UploadPending(r, c)' THEN Uploads(c) + 1 ELSE Uploads(c)
           /\ Deletions(c)' = IF DeletePending(r, c)
                              THEN IF DeletePending(r, c)' THEN Deletions(c)
                                   ELSE Deletions(c) - 1
                              ELSE IF DeletePending(r, c)' THEN Deletions(c) + 1
                                   ELSE Deletions(c)
  <1> DEFINE P == Pending("upload", c, {"changed"})
             D == Pending("delete", c, {"unlinking", "changed"})
             LU == Cardinality(Logged("upload", c))
             LD == Cardinality(Logged("delete", c))
  <1>1. /\ r \in P <=> UploadPending(r, c)
        /\ r \in P' <=> UploadPending(r, c)'
        /\ r \in D <=> DeletePending(r, c)
        /\ r \in D' <=> DeletePending(r, c)'
    BY DEF Pending, UploadPending, DeletePending
  <1>2. LU' = LU /\ LD' = LD /\ LU \in Nat /\ LD \in Nat
    BY LoggedFinite DEF Logged
  <1>3. Cardinality(P)' = IF r \in P THEN IF r \in P' THEN Cardinality(P) ELSE Cardinality(P) - 1
                          ELSE IF r \in P' THEN Cardinality(P) + 1 ELSE Cardinality(P)
    BY PendingStep
  <1>4. Cardinality(D)' = IF r \in D THEN IF r \in D' THEN Cardinality(D) ELSE Cardinality(D) - 1
                          ELSE IF r \in D' THEN Cardinality(D) + 1 ELSE Cardinality(D)
    BY PendingStep
  <1>5. Cardinality(P) \in Nat /\ Cardinality(D) \in Nat
    BY PendingFinite
  <1>6. /\ Uploads(c) = LU + Cardinality(P) /\ Uploads(c)' = LU' + Cardinality(P)'
        /\ Deletions(c) = LD + Cardinality(D) /\ Deletions(c)' = LD' + Cardinality(D)'
    BY DEF Uploads, Deletions
  <1> DEFINE NP == Cardinality(P)
             ND == Cardinality(D)
             NQ == Cardinality(P)'
             NE == Cardinality(D)'
  <1>7. /\ NQ = IF UploadPending(r, c) THEN IF UploadPending(r, c)' THEN NP ELSE NP - 1
                ELSE IF UploadPending(r, c)' THEN NP + 1 ELSE NP
        /\ NE = IF DeletePending(r, c) THEN IF DeletePending(r, c)' THEN ND ELSE ND - 1
                ELSE IF DeletePending(r, c)' THEN ND + 1 ELSE ND
    BY <1>1, <1>3, <1>4
  <1>8. /\ Uploads(c) = LU + NP /\ Uploads(c)' = LU + NQ
        /\ Deletions(c) = LD + ND /\ Deletions(c)' = LD + NE
        /\ NP \in Nat /\ ND \in Nat
    BY <1>2, <1>5, <1>6
  <1> HIDE DEF LU, LD, NP, ND, NQ, NE
  <1> QED  BY <1>2, <1>7, <1>8

\* A step of r that writes no event and owes no new one keeps the account, if the content
\* is no more registered than before.
LEMMA QuietAccount ==
    ASSUME TypeOK, IsFiniteSet(Request), NEW r \in Request,
           \A s \in Request \ {r} : req'[s] = req[s], log' = log,
           NEW c, Account(c),
           UploadPending(r, c) <=> UploadPending(r, c)',
           DeletePending(r, c)' => DeletePending(r, c),
           c \in Registered' => c \in Registered
    PROVE  Account(c)'
  <1>1. Uploads(c) \in Nat /\ Deletions(c) \in Nat
    BY CountTypes
  <1>2. Uploads(c)' = Uploads(c) /\ Deletions(c)' <= Deletions(c)
    BY <1>1, SilentStep
  <1>3. Account(c)' <=> IF c \in Registered' THEN Uploads(c)' > Deletions(c)'
                        ELSE Uploads(c)' >= Deletions(c)'
    BY DEF Account
  <1>4. Deletions(c)' \in Int
    BY <1>1, SilentStep
  <1> QED  BY <1>1, <1>2, <1>3, <1>4 DEF Account

\* A step of r that is not about what it has changed.
LEMMA PlainAccount ==
    ASSUME TypeOK, IsFiniteSet(Request), NEW r \in Request,
           \A s \in Request \ {r} : req'[s] = req[s], log' = log,
           req[r].pc # "changed", req'[r].pc \notin {"unlinking", "changed"},
           NEW c, Account(c),
           c \in Registered' => c \in Registered
    PROVE  Account(c)'
  BY QuietAccount DEF UploadPending, DeletePending

LEMMA PublishAccount ==
    ASSUME RInv, IsFiniteSet(Request), NEW r \in Request, Publish(r),
           NEW c \in Content, Account(c)
    PROVE  Account(c)'
  <1> DEFINE o == req[r].op.id
  <1>1. /\ req \in [Request -> Req] /\ registry \in [Id -> Row] /\ TypeOK
        /\ req[r].pc = "loaded" /\ "changed" \in Stage /\ log' = log /\ c \in Id
    BY BuiltinFacts DEF Stage, RInv, TypeOK, Publish
  <1>2. req[r].op.kind = "upload" /\ o \notin Registered /\ o \in Content
    BY <1>1, OpFacts DEF RInv, StageOK, UploadStage, Req
  <1>3. /\ req'[r].pc = "changed" /\ req'[r].op = req[r].op
        /\ \A s \in Request \ {r} : req'[s] = req[s]
    BY <1>1, GoesFacts DEF Publish
  <1>4. c # o => (c \in Registered' => c \in Registered)
    BY <1>1, PublishFacts DEF Registered, Type
  <1>5. CASE c = o
    <2>1. ~UploadPending(r, c) /\ UploadPending(r, c)'
      BY <1>1, <1>2, <1>3, <1>5 DEF UploadPending
    <2>2. ~DeletePending(r, c) /\ ~DeletePending(r, c)'
      BY <1>2, <1>3 DEF DeletePending
    <2>3. Uploads(c) \in Nat /\ Deletions(c) \in Nat /\ Uploads(c) >= Deletions(c)
      BY <1>1, <1>2, <1>5, CountTypes DEF Account
    <2>4. Uploads(c)' = Uploads(c) + 1 /\ Deletions(c)' = Deletions(c)
      BY <1>1, <1>3, <2>1, <2>2, SilentStep
    <2>5. Uploads(c)' > Deletions(c)' /\ Uploads(c)' >= Deletions(c)'
      BY <2>3, <2>4
    <2> QED  BY <2>5 DEF Account
  <1>6. CASE c # o
    BY <1>1, <1>2, <1>3, <1>4, <1>6, QuietAccount DEF UploadPending, DeletePending
  <1> QED  BY <1>5, <1>6

LEMMA CommitDeleteAccount ==
    ASSUME RInv, IsFiniteSet(Request), NEW r \in Request, CommitDelete(r),
           NEW c \in Content, Account(c)
    PROVE  Account(c)'
  <1> DEFINE o == req[r].op.id
  <1>1. /\ req \in [Request -> Req] /\ registry \in [Id -> Row] /\ TypeOK
        /\ req[r].pc = "deleting" /\ "unlinking" \in Stage /\ log' = log
    BY DEF Stage, RInv, TypeOK, CommitDelete
  <1>2. req[r].op.kind = "delete" /\ o \in Content /\ o \in Registered /\ o \in Id /\ c \in Id
    BY <1>1, BuiltinFacts DEF RInv, StageOK, OtherStage
  <1>3. /\ req'[r].pc = "unlinking" /\ req'[r].op = req[r].op
        /\ \A s \in Request \ {r} : req'[s] = req[s]
    BY <1>1, GoesFacts DEF CommitDelete
  <1>4. o \notin Registered' /\ (c # o => (c \in Registered' => c \in Registered))
    BY <1>1, <1>2, WithoutRowFacts DEF Registered, CommitDelete, NoRow
  <1>5. CASE c = o
    <2>1. ~DeletePending(r, c) /\ DeletePending(r, c)'
      BY <1>1, <1>2, <1>3, <1>5 DEF DeletePending
    <2>2. ~UploadPending(r, c) /\ ~UploadPending(r, c)'
      BY <1>2, <1>3 DEF UploadPending
    <2>3. Uploads(c) \in Nat /\ Deletions(c) \in Nat /\ Uploads(c) > Deletions(c)
      BY <1>1, <1>2, <1>5, CountTypes DEF Account
    <2>4. Uploads(c)' = Uploads(c) /\ Deletions(c)' = Deletions(c) + 1
      BY <1>1, <1>3, <2>1, <2>2, SilentStep
    <2>5. Uploads(c)' >= Deletions(c)' /\ c \notin Registered'
      BY <1>4, <1>5, <2>3, <2>4
    <2> QED  BY <2>5 DEF Account
  <1>6. CASE c # o
    BY <1>1, <1>2, <1>3, <1>4, <1>6, QuietAccount DEF UploadPending, DeletePending
  <1> QED  BY <1>5, <1>6

\* The event that was owed is written.
LEMMA RecordEventAccount ==
    ASSUME RInv, IsFiniteSet(Request), NEW r \in Request, RecordEvent(r),
           NEW c \in Content, Account(c)
    PROVE  Account(c)'
  <1> DEFINE o == req[r].op.id
             event == [event |-> req[r].op.kind, id |-> req[r].op.id]
             P == Pending("upload", c, {"changed"})
             D == Pending("delete", c, {"unlinking", "changed"})
             up == req[r].op.kind = "upload" /\ o = c
             down == req[r].op.kind = "delete" /\ o = c
  <1>1. /\ req \in [Request -> Req] /\ TypeOK
        /\ req[r].pc = "changed" /\ log' = Append(log, event) /\ registry' = registry
    BY DEF RInv, TypeOK, RecordEvent
  <1>2. req'[r].pc = "idle" /\ \A s \in Request \ {r} : req'[s] = req[s]
    BY <1>1, EndsFacts DEF RecordEvent
  <1>3. /\ r \in P <=> up
        /\ r \in D <=> down
        /\ r \notin P' /\ r \notin D'
    BY <1>1, <1>2 DEF Pending
  <1>4. /\ event = [event |-> "upload", id |-> c] <=> up
        /\ event = [event |-> "delete", id |-> c] <=> down
    OBVIOUS
  <1> DEFINE LU == Cardinality(Logged("upload", c))
             LD == Cardinality(Logged("delete", c))
             NP == Cardinality(P)
             ND == Cardinality(D)
  <1>5. LU \in Nat /\ LD \in Nat /\ NP \in Nat /\ ND \in Nat
    BY <1>1, LoggedFinite, PendingFinite
  <1> HIDE DEF event, up, down
  <1>6. LU' = (IF up THEN LU + 1 ELSE LU) /\ LD' = (IF down THEN LD + 1 ELSE LD)
    BY <1>1, <1>4, LoggedStep
  <1>7. Cardinality(P)' = (IF r \in P THEN IF r \in P' THEN NP ELSE NP - 1
                           ELSE IF r \in P' THEN NP + 1 ELSE NP)
    BY <1>2, PendingStep
  <1>8. Cardinality(D)' = (IF r \in D THEN IF r \in D' THEN ND ELSE ND - 1
                           ELSE IF r \in D' THEN ND + 1 ELSE ND)
    BY <1>2, PendingStep
  <1>9. NP' = (IF up THEN NP - 1 ELSE NP) /\ ND' = (IF down THEN ND - 1 ELSE ND)
    BY <1>3, <1>7, <1>8
  <1>10. /\ Uploads(c) = LU + NP /\ Uploads(c)' = LU' + NP'
         /\ Deletions(c) = LD + ND /\ Deletions(c)' = LD' + ND'
    BY DEF Uploads, Deletions
  <1> HIDE DEF LU, LD, NP, ND
  <1>11. Uploads(c)' = Uploads(c) /\ Deletions(c)' = Deletions(c)
    BY <1>5, <1>6, <1>9, <1>10
  <1> QED  BY <1>1, <1>11 DEF Account, Registered

\* Without a crash and without a failing record_audit_event, every step keeps the account.
LEMMA StepAccount ==
    ASSUME IsFiniteSet(Request), Faults \subseteq {"statement"},
           RInv, [Next]_vars, NEW c \in Content, Account(c)
    PROVE  Account(c)'
  <1>1. /\ req \in [Request -> Req] /\ registry \in [Id -> Row] /\ TypeOK
        /\ c \in Id /\ c \notin Builtin
    BY BuiltinFacts DEF RInv, TypeOK
  <1>2. CASE UNCHANGED <<registry, req, log>>
    BY <1>2 DEF Account, Uploads, Deletions, Logged, Pending, Registered
  <1>3. CASE UNCHANGED vars \/ Quiet
    BY <1>2, <1>3 DEF vars, Quiet
  <1>4. CASE Restart
    BY <1>4 DEF Restart
  <1>11. ASSUME NEW t \in Activatable, Seeds(t) PROVE c \in Registered' <=> c \in Registered
    BY <1>1, <1>11, SeedsFacts, BuiltinFacts DEF Registered
  <1>5. CASE Boot \/ StartFails
    <2>1. UNCHANGED <<req, log>>
      BY <1>5 DEF Boot, CreateRegistry, Initialize, StartFails
    <2>2. registry' = registry \/ \E t \in Activatable : Seeds(t)
      BY <1>5 DEF Boot, CreateRegistry, Initialize, StartFails, Activatable
    <2>3. c \in Registered' <=> c \in Registered
      BY <1>11, <2>2 DEF Registered
    <2> QED  BY <2>1, <2>3 DEF Account, Uploads, Deletions, Logged, Pending
  <1>6. ASSUME NEW r \in Request, Passive(r) PROVE Account(c)'
    BY <1>1, <1>6, PassiveFacts, PlainAccount DEF Registered
  <1>12. ASSUME NEW r \in Request, Ensure(r), ~EnsureTable(r) PROVE Account(c)'
    <2>1. /\ req[r].pc \in {"seedPrimary", "seedKnowledge"} /\ log' = log
          /\ \E t \in Activatable : Seeds(t)
          /\ Ends(r) \/ \E pc \in {"seedKnowledge", "checking", "waiting"} : Goes(r, pc)
      BY <1>12 DEF Ensure, EnsureRow, Ensured, Activatable
    <2>2. /\ \A s \in Request \ {r} : req'[s] = req[s]
          /\ req'[r].pc \notin {"unlinking", "changed"}
      BY <1>1, <2>1, GoesFacts, EndsFacts DEF Stage
    <2>3. c \in Registered' => c \in Registered
      BY <1>11, <2>1
    <2> QED  BY <1>1, <2>1, <2>2, <2>3, PlainAccount
  <1>7. ASSUME NEW r \in Request,
               CheckDuplicate(r) \/ CreateSchema(r) \/ CreateTable(r) \/ FillTable(r)
                 \/ DropBroken(r) \/ StatementFails(r)
        PROVE  Account(c)'
    <2>1. /\ req[r].pc # "changed" /\ log' = log
          /\ \A s \in Request \ {r} : req'[s] = req[s]
      BY <1>1, <1>7 DEF CheckDuplicate, CreateSchema, CreateTable, FillTable, DropBroken,
         StatementFails, Goes, Ends
    <2>2. req'[r].pc \notin {"unlinking", "changed"}
      BY <1>1, <1>7 DEF CheckDuplicate, CreateSchema, CreateTable, FillTable, DropBroken,
         StatementFails, Goes, Ends, Idle, Req
    <2>3. \/ registry' = registry
          \/ req[r].op.id \in Registered /\ registry' = WithoutRow(registry, req[r].op.id)
      BY <1>7 DEF CheckDuplicate, CreateSchema, CreateTable, FillTable, DropBroken,
         StatementFails
    <2>4. c \in Registered' => c \in Registered
      BY <1>1, <2>3, WithoutRowFacts DEF Registered, NoRow
    <2> QED  BY <1>1, <2>1, <2>2, <2>4, PlainAccount
  <1>8. ASSUME NEW r \in Request, CommitActivate(r) PROVE Account(c)'
    <2>1. /\ req[r].pc = "activating" /\ log' = log /\ req[r].op.kind = "activate"
      BY <1>8 DEF RInv, StageOK, OtherStage, CommitActivate
    <2>2. req'[r].op = req[r].op /\ \A s \in Request \ {r} : req'[s] = req[s]
      BY <1>1, <1>8, GoesFacts DEF CommitActivate, Stage
    <2>3. c \in Registered' => c \in Registered
      BY <1>1, <1>8, CommitActivateFacts DEF Registered
    <2> QED
      BY <1>1, <2>1, <2>2, <2>3, QuietAccount DEF UploadPending, DeletePending
  <1>9. ASSUME NEW r \in Request, UnlinkFile(r) PROVE Account(c)'
    <2>1. /\ req[r].pc = "unlinking" /\ log' = log /\ registry' = registry
          /\ req[r].op.kind = "delete"
      BY <1>9 DEF RInv, StageOK, OtherStage, UnlinkFile
    <2>2. /\ req'[r].op = req[r].op /\ req'[r].pc = "changed"
          /\ \A s \in Request \ {r} : req'[s] = req[s]
      BY <1>1, <1>9, GoesFacts DEF UnlinkFile, Stage
    <2> QED
      BY <1>1, <2>1, <2>2, QuietAccount DEF UploadPending, DeletePending, Registered
  <1>10. ASSUME NEW r \in Request,
                ResolveTable(r) \/ SelectRows(r) \/ AnswerQuery(r)
                  \/ IngestTable(r, "primary", "transactions")
                  \/ IngestTable(r, "knowledge", "knowledge")
         PROVE  Account(c)'
    <2>1. req[r].pc # "changed" /\ UNCHANGED <<registry, log>>
      BY <1>10 DEF ResolveTable, SelectRows, AnswerQuery, IngestTable
    <2>2. \A s \in Request \ {r} : req'[s] = req[s]
      BY <1>1, <1>10 DEF ResolveTable, SelectRows, AnswerQuery, IngestTable, Goes, Ends
    <2>3. req'[r].pc \notin {"unlinking", "changed"}
      <3>1. \A x \in Req, rows \in {"part", "whole"} :
               [x EXCEPT !.pc = "answered", !.got = rows].pc = "answered"
        BY DEF Req
      <3>2. CASE SelectRows(r)
        BY <1>1, <3>1, <3>2 DEF SelectRows, Idle
      <3>3. CASE ~SelectRows(r)
        BY <1>1, <1>10, <3>3 DEF ResolveTable, AnswerQuery, IngestTable, Goes, Ends, Idle, Req
      <3> QED  BY <3>2, <3>3
    <2> QED  BY <1>1, <2>1, <2>2, <2>3, PlainAccount DEF Registered
  <1> QED
    BY <1>3, <1>4, <1>5, <1>6, <1>7, <1>8, <1>9, <1>10, <1>12, PublishAccount,
       CommitDeleteAccount, RecordEventAccount DEF Next, Proceed, Ensure, Passive

\* The audit log of a server that is not killed and whose record_audit_event does not fail
\* accounts for the datasets: whatever else fails, and however many requests are served
\* at a time, a dataset is there only after more uploads than deletions.
THEOREM AuditAccountsTheorem ==
    IsFiniteSet(Request) /\ Faults \subseteq {"statement"} /\ Spec
        => []AuditAccountsForDatasets
  <1> SUFFICES ASSUME IsFiniteSet(Request), Faults \subseteq {"statement"}
               PROVE  Spec => []AuditAccountsForDatasets
    OBVIOUS
  <1>1. Init => AuditAccountsForDatasets
    <2> SUFFICES ASSUME Init, NEW c \in Content PROVE Account(c)
      BY AuditIsAccount
    <2>1. c \notin Registered
      BY BuiltinFacts DEF Init, NoRow, Registered
    <2>2. Logged("upload", c) = {} /\ Logged("delete", c) = {}
      BY DEF Init, Logged
    <2>3. /\ Pending("upload", c, {"changed"}) = {}
          /\ Pending("delete", c, {"unlinking", "changed"}) = {}
      BY DEF Init, Pending, Idle
    <2>4. Uploads(c) = 0 /\ Deletions(c) = 0
      BY <2>2, <2>3, FS_EmptySet DEF Uploads, Deletions
    <2> QED  BY <2>1, <2>4 DEF Account
  <1>2. RInv /\ AuditAccountsForDatasets /\ [Next]_vars => AuditAccountsForDatasets'
    <2> SUFFICES ASSUME RInv, AuditAccountsForDatasets, [Next]_vars
                 PROVE  AuditAccountsForDatasets'
      OBVIOUS
    <2>1. \A c \in Content : Account(c)
      BY AuditIsAccount
    <2>2. \A c \in Content : Account(c)'
      BY <2>1, StepAccount
    <2>3. AuditAccountsForDatasets' <=> \A c \in Content : Account(c)'
      BY DEF AuditAccountsForDatasets, Account, Uploads, Deletions, Logged, Pending
    <2> QED  BY <2>2, <2>3
  <1> QED
    BY <1>1, <1>2, RegistryInvariant, PTL DEF Spec
=============================================================================
