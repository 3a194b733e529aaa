-------------------------- MODULE ModelCacheProofs --------------------------
(***************************************************************************)
(* What holds of the model cache for any number of requests, datasets and  *)
(* changes of the active one.                                              *)
(***************************************************************************)
EXTENDS ModelCache, TLAPS

\* A call on behalf of the card or the drift report trains on the dataset it caches
\* under: both come from one read of the registry.
KeyIsSource ==
    \A r \in Request : req[r].key \in Knowledge => req[r].key = req[r].source

\* A call under way knows its key and its dataset.
CallsKnowTheirs ==
    \A r \in Request :
        req[r].pc \in {"found", "waiting", "training", "trained", "returning"} =>
            req[r].key \in Key /\ req[r].source \in Knowledge

\* Whoever trains holds the lock, and nobody else fills the key meanwhile.
TrainingExclusive ==
    \A r \in Request :
        req[r].pc \in {"training", "trained"} =>
            lock = r /\ bundles[req[r].key] = NoModel

IInv ==
    /\ TypeOK
    /\ KeyIsSource
    /\ CallsKnowTheirs
    /\ TrainingExclusive
    /\ CardShowsItsDataset

-----------------------------------------------------------------------------

\* The cache is empty, so no key has a model.
LEMMA InitInvariant == Init => IInv
PROOF
<1> SUFFICES ASSUME Init PROVE IInv
    OBVIOUS
<1> USE DEF Init, Idle
<1>1. TypeOK
    BY FirstAssumption, ChangesAssumption DEF TypeOK, Req, Key
<1>2. KeyIsSource
    BY DEF KeyIsSource
<1>3. CallsKnowTheirs /\ TrainingExclusive
    BY DEF CallsKnowTheirs, TrainingExclusive
<1>4. CardShowsItsDataset
    BY DEF CardShowsItsDataset, Key
<1> QED BY <1>1, <1>2, <1>3, <1>4 DEF IInv

\* Every step of a request or of an upload keeps the invariant.
LEMMA StepInvariant == IInv /\ [Next]_vars => IInv'
PROOF
<1> SUFFICES ASSUME IInv, [Next]_vars PROVE IInv'
    OBVIOUS
<1> USE DEF IInv
<1>1. CASE UNCHANGED vars
    BY <1>1 DEF vars, TypeOK, KeyIsSource, CallsKnowTheirs, TrainingExclusive,
       CardShowsItsDataset
<1>2. ASSUME NEW r \in Request, NEW d \in Primary \union {Nothing}, FindContext(r, d)
      PROVE IInv'
    <2> USE <1>2 DEF FindContext
    <2>1. req'[r].key \in Key /\ req'[r].source = active /\ req'[r].pc = "found"
        BY DEF TypeOK, Key
    <2>2. req'[r].key \in Knowledge => req'[r].key = active
        BY KeysAssumption DEF TypeOK
    <2>3. \A s \in Request \ {r} : req'[s] = req[s]
        BY DEF TypeOK
    <2>4. TypeOK'
        BY DEF TypeOK, Req, Key
    <2>5. (KeyIsSource /\ CallsKnowTheirs /\ TrainingExclusive)'
        BY <2>1, <2>2, <2>3 DEF KeyIsSource, CallsKnowTheirs, TrainingExclusive, TypeOK
    <2>6. CardShowsItsDataset'
        BY DEF CardShowsItsDataset
    <2> QED BY <2>4, <2>5, <2>6
<1>3. ASSUME NEW r \in Request, LookUp(r) PROVE IInv'
    <2> USE <1>3 DEF LookUp, Goes
    <2>1. TypeOK'
        BY DEF TypeOK, Req
    <2>2. (KeyIsSource /\ CallsKnowTheirs /\ TrainingExclusive)'
        BY DEF KeyIsSource, CallsKnowTheirs, TrainingExclusive, TypeOK, Req
    <2>3. CardShowsItsDataset'
        BY DEF CardShowsItsDataset
    <2> QED BY <2>1, <2>2, <2>3
<1>4. ASSUME NEW r \in Request, LockAndLookUp(r) PROVE IInv'
    <2> USE <1>4 DEF LockAndLookUp, Goes
    <2>1. TypeOK'
        BY DEF TypeOK, Req
    <2>2. (KeyIsSource /\ CallsKnowTheirs)'
        BY DEF KeyIsSource, CallsKnowTheirs, TypeOK, Req
    <2>3. \A s \in Request : req[s].pc \notin {"training", "trained"}
        BY LockAssumption DEF TrainingExclusive
    <2>4. TrainingExclusive'
        BY <2>3 DEF TrainingExclusive, TypeOK, Req
    <2>5. CardShowsItsDataset'
        BY DEF CardShowsItsDataset
    <2> QED BY <2>1, <2>2, <2>4, <2>5
<1>5. ASSUME NEW r \in Request, LoadBaseline(r) PROVE IInv'
    <2> USE <1>5 DEF LoadBaseline, Goes, Ends, Idle
    <2>1. TypeOK'
        BY DEF TypeOK, Req
    <2>2. KeyIsSource'
        BY DEF KeyIsSource, TypeOK, Req
    <2>3. CallsKnowTheirs'
        BY DEF CallsKnowTheirs, TypeOK, Req
    <2>4. lock = r /\ \A s \in Request \ {r} : req[s].pc \notin {"training", "trained"}
        BY DEF TrainingExclusive
    <2>5. TrainingExclusive'
        BY <2>4 DEF TrainingExclusive, TypeOK, Req
    <2>6. CardShowsItsDataset'
        BY DEF CardShowsItsDataset
    <2> QED BY <2>1, <2>2, <2>3, <2>5, <2>6
<1>6. ASSUME NEW r \in Request, StoreModel(r) PROVE IInv'
    <2> USE <1>6 DEF StoreModel, Goes
    <2>1. req[r].key \in Key /\ req[r].source \in Knowledge
        BY DEF CallsKnowTheirs
    <2>2. TypeOK'
        BY <2>1 DEF TypeOK, Req
    <2>3. (KeyIsSource /\ CallsKnowTheirs)'
        BY DEF KeyIsSource, CallsKnowTheirs, TypeOK, Req
    <2>4. \A s \in Request \ {r} : req[s].pc \notin {"training", "trained"}
        BY DEF TrainingExclusive
    <2>5. TrainingExclusive'
        BY <2>4 DEF TrainingExclusive, TypeOK, Req
    <2>6. CardShowsItsDataset'
        BY <2>1 DEF CardShowsItsDataset, KeyIsSource, TypeOK, Key
    <2> QED BY <2>2, <2>3, <2>5, <2>6
<1>7. ASSUME NEW r \in Request, ReturnModel(r) PROVE IInv'
    <2> USE <1>7 DEF ReturnModel, Ends, Idle
    <2>1. TypeOK'
        BY DEF TypeOK, Req
    <2>2. KeyIsSource'
        BY DEF KeyIsSource, TypeOK, Req
    <2>3. (CallsKnowTheirs /\ TrainingExclusive)'
        BY DEF CallsKnowTheirs, TrainingExclusive, TypeOK, Req
    <2>4. CardShowsItsDataset'
        BY DEF CardShowsItsDataset
    <2> QED BY <2>1, <2>2, <2>3, <2>4
<1>8. ASSUME NEW r \in Request, ClearModelCache(r) PROVE IInv'
    <2> USE <1>8 DEF ClearModelCache, Ends, Idle
    <2>1. TypeOK'
        BY DEF TypeOK, Req
    <2>2. KeyIsSource'
        BY DEF KeyIsSource, TypeOK, Req
    <2>3. CallsKnowTheirs'
        BY DEF CallsKnowTheirs, TypeOK, Req
    <2>4. \A s \in Request : req[s].pc \notin {"training", "trained"}
        BY LockAssumption DEF TrainingExclusive
    <2>5. TrainingExclusive'
        BY <2>4 DEF TrainingExclusive, TypeOK, Req
    <2>6. CardShowsItsDataset'
        BY DEF CardShowsItsDataset, Key
    <2> QED BY <2>1, <2>2, <2>3, <2>5, <2>6
<1>9. ASSUME NEW r \in Request, NEW k \in Knowledge, ActivateDataset(r, k) PROVE IInv'
    <2> USE <1>9 DEF ActivateDataset, Goes
    <2>1. TypeOK'
        BY ChangesAssumption DEF TypeOK, Req
    <2>2. (KeyIsSource /\ CallsKnowTheirs /\ TrainingExclusive)'
        BY DEF KeyIsSource, CallsKnowTheirs, TrainingExclusive, TypeOK, Req
    <2>3. CardShowsItsDataset'
        BY DEF CardShowsItsDataset
    <2> QED BY <2>1, <2>2, <2>3
<1>10. ASSUME NEW k \in Knowledge, UploadKnowledge(k) \/ DeleteKnowledge(k) PROVE IInv'
    <2> USE <1>10 DEF UploadKnowledge, DeleteKnowledge
    <2>1. TypeOK'
        BY ChangesAssumption DEF TypeOK
    <2>2. (KeyIsSource /\ CallsKnowTheirs /\ TrainingExclusive)'
        BY DEF KeyIsSource, CallsKnowTheirs, TrainingExclusive
    <2>3. CardShowsItsDataset'
        BY DEF CardShowsItsDataset
    <2> QED BY <2>1, <2>2, <2>3
<1> QED BY <1>1, <1>2, <1>3, <1>4, <1>5, <1>6, <1>7, <1>8, <1>9, <1>10 DEF Next, Proceed

\* The cache's state is always well typed and its inductive invariant holds.
THEOREM ModelCacheInvariant == Spec => []IInv
PROOF
<1> QED BY InitInvariant, StepInvariant, PTL DEF Spec

\* The model card and the drift report of a knowledge dataset show a model trained on
\* that dataset, whatever activations, uploads and deletions come in between.
THEOREM CardShowsItsDatasetTheorem == Spec => []CardShowsItsDataset
PROOF
<1>1. IInv => CardShowsItsDataset
    BY DEF IInv
<1> QED BY <1>1, ModelCacheInvariant, PTL

\* A cached model is cleared but never replaced: requests that miss together wait for one
\* training.
THEOREM TrainedOnceTheorem == Spec => TrainedOnce
PROOF
<1> DEFINE Kept == \A k \in Key : bundles[k] # NoModel => bundles'[k] \in {bundles[k], NoModel}
<1>1. ASSUME IInv, [Next]_vars PROVE [Kept]_vars
    <2> SUFFICES ASSUME Next PROVE Kept
        BY <1>1
    <2>1. ASSUME NEW r \in Request, StoreModel(r) PROVE Kept
        <3>1. bundles[req[r].key] = NoModel
            BY <1>1, <2>1 DEF IInv, TrainingExclusive, StoreModel
        <3> QED BY <1>1, <2>1, <3>1 DEF IInv, TypeOK, StoreModel
    <2>2. ASSUME NEW r \in Request, ClearModelCache(r) PROVE Kept
        BY <2>2 DEF ClearModelCache
    <2>3. ASSUME UNCHANGED bundles PROVE Kept
        BY <2>3
    <2>4. ASSUME NEW r \in Request, LookUp(r) \/ LockAndLookUp(r) \/ LoadBaseline(r) \/ ReturnModel(r)
          PROVE UNCHANGED bundles
        BY <2>4 DEF LookUp, LockAndLookUp, LoadBaseline, ReturnModel
    <2>5. ASSUME NEW r \in Request, NEW d \in Primary \union {Nothing}, FindContext(r, d)
          PROVE UNCHANGED bundles
        BY <2>5 DEF FindContext
    <2>6. ASSUME NEW r \in Request, NEW k \in Knowledge, ActivateDataset(r, k)
          PROVE UNCHANGED bundles
        BY <2>6 DEF ActivateDataset
    <2>7. ASSUME NEW k \in Knowledge, UploadKnowledge(k) \/ DeleteKnowledge(k)
          PROVE UNCHANGED bundles
        BY <2>7 DEF UploadKnowledge, DeleteKnowledge
    <2> QED BY <2>1, <2>2, <2>3, <2>4, <2>5, <2>6, <2>7 DEF Next, Proceed
<1> QED BY <1>1, ModelCacheInvariant, PTL DEF Spec, TrainedOnce
=============================================================================
