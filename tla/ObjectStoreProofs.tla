-------------------------- MODULE ObjectStoreProofs --------------------------
(***************************************************************************)
(* The object store keeps its promise for any set of keys and any sequence *)
(* of calls.                                                               *)
(***************************************************************************)
EXTENDS ObjectStore, TLAPS

(* A call of the store keeps its types.                                    *)
LEMMA StoreTypes == StoreTypeOK /\ [StoreNext]_storeVars => StoreTypeOK'
<1> SUFFICES ASSUME StoreTypeOK, [StoreNext]_storeVars
             PROVE  StoreTypeOK'
    OBVIOUS
<1> USE MaxVerAssumption
<1>1. ASSUME NEW k \in Keys, NEW o \in Object, NEW s \in Status, record(k, s, o)
      PROVE  StoreTypeOK'
  <2>1. FirstOld(k) \in Object
    BY DEF FirstOld, StoreTypeOK, Update
  <2>2. [status |-> s, old |-> FirstOld(k), new |-> o] \in Update
    BY <2>1 DEF Update
  <2>. QED BY <1>1, <2>2 DEF record, StoreTypeOK
<1>2. CASE \E k \in Keys, o \in Object : upsert(k, o) \/ delete(k, o)
  BY <1>1, <1>2 DEF upsert, delete, Status
<1>3. CASE resetUpdates
  BY <1>3 DEF resetUpdates, StoreTypeOK, NoUpdate, Nil, Update, Object, Status
<1>4. CASE UNCHANGED storeVars
  BY <1>4 DEF storeVars, StoreTypeOK
<1>. QED BY <1>2, <1>3, <1>4 DEF StoreNext

(* The store stays in its types.                                           *)
THEOREM StoreTypeCorrect == StoreSpec => []StoreTypeOK
<1>1. StoreInit => StoreTypeOK
  BY MaxVerAssumption DEF StoreInit, StoreTypeOK, NoUpdate, Nil, Update, Object, Status
<1>. QED BY <1>1, StoreTypes, PTL DEF StoreSpec

(* An update always describes the stored object: its new object is the one *)
(* in the store, its status says whether there is one.                     *)
THEOREM UpdatesDescribe == StoreSpec => []UpdatesDescribeStore
<1>1. StoreInit => UpdatesDescribeStore
  <2>1. StoreInit => Touched = {}
    BY DEF StoreInit, Touched, NoUpdate
  <2>. QED BY <2>1 DEF UpdatesDescribeStore
<1>2. StoreTypeOK /\ UpdatesDescribeStore /\ [StoreNext]_storeVars
        => UpdatesDescribeStore'
  <2> SUFFICES ASSUME StoreTypeOK, UpdatesDescribeStore, [StoreNext]_storeVars
               PROVE  UpdatesDescribeStore'
      OBVIOUS
  <2>1. ASSUME NEW k \in Keys, NEW o \in Object, upsert(k, o) \/ delete(k, o)
        PROVE  UpdatesDescribeStore'
    <3> DEFINE s == IF o.live THEN StatusUpserted ELSE StatusDeleted
    <3>1. /\ objects' = [objects EXCEPT ![k] = o]
          /\ updates' = [updates EXCEPT ![k] =
                           [status |-> s, old |-> FirstOld(k), new |-> o]]
      BY <2>1 DEF upsert, delete, record
    <3>2. /\ updates'[k].new = objects'[k]
          /\ updates'[k].status = s
          /\ objects'[k] = o
      BY <3>1 DEF StoreTypeOK
    <3>3. updates'[k].status = StatusUpserted <=> objects'[k].live
      BY <3>2 DEF StatusUpserted, StatusDeleted
    <3>4. \A j \in Keys \ {k} : updates'[j] = updates[j] /\ objects'[j] = objects[j]
      BY <3>1 DEF StoreTypeOK
    <3>5. ASSUME NEW j \in Touched', j # k
          PROVE  /\ updates'[j].new = objects'[j]
                 /\ updates'[j].status = StatusUpserted <=> objects'[j].live
      <4>1. j \in Keys \ {k} /\ j \in Touched
        BY <3>4, <3>5 DEF Touched
      <4>. QED BY <4>1, <3>4 DEF UpdatesDescribeStore
    <3>. QED BY <3>2, <3>3, <3>5 DEF UpdatesDescribeStore
  <2>2. CASE resetUpdates
    <3>1. Touched' = {}
      BY <2>2 DEF resetUpdates, Touched, NoUpdate
    <3>. QED BY <3>1 DEF UpdatesDescribeStore
  <2>3. CASE UNCHANGED storeVars
    BY <2>3 DEF storeVars, UpdatesDescribeStore, Touched
  <2>. QED BY <2>1, <2>2, <2>3 DEF StoreNext
<1>. QED BY <1>1, <1>2, StoreTypeCorrect, PTL DEF StoreSpec

(* The store implements BatchDiff: read as a snapshot of the batch's       *)
(* beginning (Base) and the keys written since (Touched), every call of    *)
(* the store is a step of BatchDiff or leaves it alone.                    *)
THEOREM StoreImplementsBatchDiff == StoreSpec => ImplementsBatchDiff
<1>1. StoreInit => Diff!Init
  BY DEF StoreInit, Diff!Init, Base, Touched, FirstOld, NoUpdate
<1>2. StoreTypeOK /\ [StoreNext]_storeVars => [Diff!Next]_(Diff!vars)
  <2> SUFFICES ASSUME StoreTypeOK, [StoreNext]_storeVars
               PROVE  [Diff!Next]_(Diff!vars)
      OBVIOUS
  <2>1. ASSUME NEW k \in Keys, NEW o \in Object, upsert(k, o) \/ delete(k, o)
        PROVE  Diff!Write(k)
    <3>1. PICK s \in {StatusUpserted, StatusDeleted} : record(k, s, o)
      BY <2>1 DEF upsert, delete
    <3>2. objects' = [objects EXCEPT ![k] = objects'[k]]
      BY <3>1 DEF record, StoreTypeOK
    <3>a. updates'[k].status # StatusUnchanged /\ updates'[k].old = FirstOld(k)
      BY <3>1 DEF record, StoreTypeOK, StatusUpserted, StatusDeleted, StatusUnchanged
    <3>b. \A j \in Keys \ {k} : updates'[j] = updates[j] /\ objects'[j] = objects[j]
      BY <3>1 DEF record, StoreTypeOK
    <3>3. Touched' = Touched \cup {k}
      BY <3>a, <3>b DEF Touched
    <3>4. \A j \in Keys : FirstOld(j)' = FirstOld(j)
      BY <3>a, <3>b DEF FirstOld
    <3>5. Base' = Base
      BY <3>4 DEF Base
    <3>. QED BY <3>2, <3>3, <3>5 DEF Diff!Write
  <2>2. ASSUME resetUpdates PROVE Diff!NewBatch
    <3>1. Touched' = {}
      BY <2>2 DEF resetUpdates, Touched, NoUpdate
    <3>2. Base' = objects
      BY <2>2 DEF resetUpdates, Base, FirstOld, NoUpdate, StoreTypeOK
    <3>. QED BY <2>2, <3>1, <3>2 DEF resetUpdates, Diff!NewBatch
  <2>3. CASE UNCHANGED storeVars
    <3>1. Base' = Base /\ Touched' = Touched
      BY <2>3 DEF storeVars, Base, FirstOld, Touched
    <3>. QED BY <2>3, <3>1 DEF storeVars, Diff!vars
  <2>. QED BY <2>1, <2>2, <2>3 DEF StoreNext, Diff!Next
<1>. QED BY <1>1, <1>2, StoreTypeCorrect, PTL DEF StoreSpec, ImplementsBatchDiff, Diff!Spec
=============================================================================
