----------------------------- MODULE ModelCache -----------------------------
(***************************************************************************)
(* The process-local cache of anomaly models (src/tools/ml_engine.py).     *)
(* A query scores its rows with the model cached under its primary         *)
(* dataset; the model card and the drift report use the one cached under   *)
(* the active knowledge dataset.  A model is trained on first use, on the  *)
(* knowledge dataset that was active when the call began.  Activating a    *)
(* dataset clears the cache; uploading one, which activates it as well,    *)
(* does not (src/api/main.py).                                             *)
(***************************************************************************)
EXTENDS Naturals, FiniteSets

CONSTANTS
    Knowledge,    \* knowledge datasets
    FirstActive,  \* the built-in one, active at the start
    Stored,       \* knowledge datasets stored at the start
    Primary,      \* primary datasets
    Request,      \* requests that run at the same time
    Uploads,      \* TRUE: knowledge datasets are uploaded
    MaxChanges    \* bound: how often the active knowledge dataset changes

ASSUME FirstAssumption == FirstActive \in Stored /\ Stored \subseteq Knowledge
ASSUME KeysAssumption == Knowledge \intersect Primary = {}
ASSUME ChangesAssumption == MaxChanges \in Nat /\ Uploads \in BOOLEAN

VARIABLES
    tables,    \* knowledge datasets whose table exists
    active,    \* the active knowledge dataset
    changes,   \* how often it has changed
    bundles,   \* _MODEL_BUNDLES: what each key's model was trained on
    lock,      \* who holds _MODEL_LOCK
    req        \* each request's progress

vars == <<tables, active, changes, bundles, lock, req>>

\* Keys: a primary dataset's identifier, or "active:" and a knowledge dataset's.
Key == Knowledge \union Primary

NoModel == "no model"
Free == "free"
Nothing == "nothing"

ASSUME LockAssumption == Free \notin Request

\* pc: found = context and key known, waiting = not cached,
\* training = baseline about to be read, returning = key was seen in the cache,
\* clearing = an activation has committed.
Req == [pc: {"idle", "found", "waiting", "training", "trained", "returning",
             "clearing"},
        key: Key \union {Nothing},
        source: Knowledge \union {Nothing}]

Idle == [pc |-> "idle", key |-> Nothing, source |-> Nothing]

Init ==
    /\ tables = Stored
    /\ active = FirstActive
    /\ changes = 0
    /\ bundles = [k \in Key |-> NoModel]
    /\ lock = Free
    /\ req = [r \in Request |-> Idle]

Goes(r, pc) == req' = [req EXCEPT ![r].pc = pc]
Ends(r) == req' = [req EXCEPT ![r] = Idle]

-----------------------------------------------------------------------------
(* get_model_bundle. *)

\* The model card or the drift report (d = Nothing), or a query on dataset d.
\* _active_knowledge_context: the table and identifier of the active dataset.
FindContext(r, d) ==
    /\ req[r].pc = "idle"
    /\ req' = [req EXCEPT ![r] = [pc |-> "found",
                                  key |-> IF d = Nothing THEN active ELSE d,
                                  source |-> active]]
    /\ UNCHANGED <<tables, active, changes, bundles, lock>>

\* The first look at the cache, without the lock.
LookUp(r) ==
    /\ req[r].pc = "found"
    /\ Goes(r, IF bundles[req[r].key] = NoModel THEN "waiting" ELSE "returning")
    /\ UNCHANGED <<tables, active, changes, bundles, lock>>

\* Mutant: whether another request has trained the model meanwhile is not asked.
LockWithoutLooking(r) ==
    /\ req[r].pc = "waiting"
    /\ lock = Free
    /\ Goes(r, "training") /\ lock' = r
    /\ UNCHANGED <<tables, active, changes, bundles>>

\* with _MODEL_LOCK and the second look.
LockAndLookUp(r) ==
    /\ req[r].pc = "waiting"
    /\ lock = Free
    /\ IF bundles[req[r].key] = NoModel
       THEN Goes(r, "training") /\ lock' = r
       ELSE Goes(r, "returning") /\ UNCHANGED lock
    /\ UNCHANGED <<tables, active, changes, bundles>>

\* Mutant: the lock is not released when the baseline cannot be read.
LoadKeepingLock(r) ==
    /\ req[r].pc = "training"
    /\ IF req[r].source \in tables THEN Goes(r, "trained") ELSE Ends(r)
    /\ UNCHANGED <<tables, active, changes, bundles, lock>>

\* _load_saml_normal_baseline: an error if the table has been dropped since.
LoadBaseline(r) ==
    /\ req[r].pc = "training"
    /\ IF req[r].source \in tables
       THEN Goes(r, "trained") /\ UNCHANGED lock
       ELSE Ends(r) /\ lock' = Free
    /\ UNCHANGED <<tables, active, changes, bundles>>

\* Mutant: the model is stored under the dataset that is active by now.
StoreUnderActive(r) ==
    /\ req[r].pc = "trained"
    /\ bundles' = [bundles EXCEPT
                     ![IF req[r].key \in Primary THEN req[r].key ELSE active] = req[r].source]
    /\ Goes(r, "returning")
    /\ lock' = Free
    /\ UNCHANGED <<tables, active, changes>>

\* train_isolation_forest and the assignment.
StoreModel(r) ==
    /\ req[r].pc = "trained"
    /\ bundles' = [bundles EXCEPT ![req[r].key] = req[r].source]
    /\ Goes(r, "returning")
    /\ lock' = Free
    /\ UNCHANGED <<tables, active, changes>>

\* return _MODEL_BUNDLES[key]: a KeyError if the cache has been cleared since.
ReturnModel(r) ==
    /\ req[r].pc = "returning"
    /\ Ends(r)
    /\ UNCHANGED <<tables, active, changes, bundles, lock>>

-----------------------------------------------------------------------------
(* Requests that change the active knowledge dataset. *)

\* activate_dataset, committed; the handler has yet to clear the cache.  Activating a
\* primary dataset (k is active already) clears it too.
ActivateDataset(r, k) ==
    /\ req[r].pc = "idle"
    /\ k \in tables
    /\ changes < MaxChanges
    /\ active' = k
    /\ changes' = changes + 1
    /\ Goes(r, "clearing")
    /\ UNCHANGED <<tables, bundles, lock>>

\* clear_model_cache.
ClearModelCache(r) ==
    /\ req[r].pc = "clearing"
    /\ lock = Free
    /\ bundles' = [k \in Key |-> NoModel]
    /\ Ends(r)
    /\ UNCHANGED <<tables, active, changes, lock>>

\* register_uploaded_dataset of a knowledge dataset, committed: it becomes active.
UploadKnowledge(k) ==
    /\ Uploads
    /\ k \notin tables
    /\ changes < MaxChanges
    /\ tables' = tables \union {k}
    /\ active' = k
    /\ changes' = changes + 1
    /\ UNCHANGED <<bundles, lock, req>>

\* delete_dataset of an inactive upload.
DeleteKnowledge(k) ==
    /\ k \in tables \ {active, FirstActive}
    /\ tables' = tables \ {k}
    /\ UNCHANGED <<active, changes, bundles, lock, req>>

-----------------------------------------------------------------------------

Proceed(r) ==
    \/ LookUp(r) \/ LockAndLookUp(r) \/ LoadBaseline(r) \/ StoreModel(r)
    \/ ReturnModel(r) \/ ClearModelCache(r)

Next ==
    \/ \E r \in Request :
          \/ Proceed(r)
          \/ \E d \in Primary \union {Nothing} : FindContext(r, d)
          \/ \E k \in Knowledge : ActivateDataset(r, k)
    \/ \E k \in Knowledge : UploadKnowledge(k) \/ DeleteKnowledge(k)

Spec == Init /\ [][Next]_vars

\* Handlers run to their end.  A thread that waits for the lock gets it once nobody
\* wants it for long: with MaxChanges changes it is held only finitely often.
FairSpec == Spec /\ \A r \in Request : WF_vars(Proceed(r))

-----------------------------------------------------------------------------
(* Properties. *)

TypeOK ==
    /\ tables \in SUBSET Knowledge
    /\ active \in Knowledge
    /\ changes \in 0..MaxChanges
    /\ bundles \in [Key -> Knowledge \union {NoModel}]
    /\ lock \in Request \union {Free}
    /\ req \in [Request -> Req]

\* What the model card and the drift report show of knowledge dataset k is a model
\* trained on k, however activations, deletions and trainings interleave: the key and
\* the table come from one read of the registry (_active_knowledge_context).
CardShowsItsDataset == \A k \in Knowledge : bundles[k] \in {k, NoModel}

\* A model in the cache is never replaced, only cleared: requests that score at the
\* same time share one model, which is trained once (the second look under the lock).
TrainedOnce == [][\A k \in Key : bundles[k] # NoModel => bundles'[k] \in {bundles[k], NoModel}]_vars

\* Every call of get_model_bundle and of clear_model_cache returns or raises.
EveryCallEnds == \A r \in Request : req[r].pc # "idle" ~> req[r].pc = "idle"

\* "Return truthful, reproducible metadata for the active anomaly model." (api/main.py):
\* the model the card shows is the one that queries are scored with.
CardDescribesScoringModel ==
    (\A r \in Request : req[r] = Idle) =>
        \A d \in Primary : bundles[active] = NoModel \/ bundles[d] \in {bundles[active], NoModel}
=============================================================================
