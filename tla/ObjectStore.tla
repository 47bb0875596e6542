----------------------------- MODULE ObjectStore -----------------------------
(***************************************************************************)
(* The cluster store of one resource kind (k8s/gate/store): the objects    *)
(* the controller knows, and what the batch being handled changed in them. *)
(*                                                                         *)
(* Go keeps two maps, objects[key] and updates[key].  Here both are total  *)
(* functions: an object that is not live stands for a key missing from     *)
(* objects (nil), and an update of status StatusUnchanged for a key        *)
(* missing from updates.  The field ver is a ghost: it numbers the changes *)
(* of an object, its removals included, so that properties can tell an old *)
(* state of an object from a newer one.  No action reads it.               *)
(***************************************************************************)
EXTENDS Naturals

CONSTANTS Keys,               \* the NamespacedNames of the objects
          MaxVer              \* bound: changes of one object in a behaviour

ASSUME MaxVerAssumption == MaxVer \in Nat

VARIABLES objects,            \* objectStoreImpl.objects
          updates             \* objectStoreImpl.updates

storeVars == <<objects, updates>>

StatusUpserted  == "UPSERTED"
StatusDeleted   == "DELETED"
StatusUnchanged == ""
Status          == {StatusUpserted, StatusDeleted, StatusUnchanged}

Object == [ver : 0..MaxVer, live : BOOLEAN]
Nil    == [ver |-> 0, live |-> FALSE]
Update == [status : Status, old : Object, new : Object]

NoUpdate == [status |-> StatusUnchanged, old |-> Nil, new |-> Nil]

StoreTypeOK == /\ objects \in [Keys -> Object]
               /\ updates \in [Keys -> Update]

StoreInit == /\ objects = [k \in Keys |-> Nil]
             /\ updates = [k \in Keys |-> NoUpdate]
-----------------------------------------------------------------------------
(* A variant of FirstOld: every update remembers the object before it, not *)
(* the one before the batch.                                               *)
LatestOld(k) == objects[k]

(* The first update of a key in a batch keeps the object as it was before  *)
(* the batch; the later ones leave that object alone.                      *)
FirstOld(k) == IF updates[k].status = StatusUnchanged
               THEN objects[k]
               ELSE updates[k].old

(* A variant of record: a deletion leaves the new object of an earlier     *)
(* upsert in the update.                                                   *)
recordStaleNew(k, status, o) ==
    /\ objects' = [objects EXCEPT ![k] = o]
    /\ updates' = [updates EXCEPT
                     ![k] = [status |-> status, old |-> FirstOld(k),
                             new |-> IF o.live THEN o ELSE updates[k].new]]

record(k, status, o) ==
    /\ objects' = [objects EXCEPT ![k] = o]
    /\ updates' = [updates EXCEPT
                     ![k] = [status |-> status, old |-> FirstOld(k), new |-> o]]

upsert(k, o) == o.live /\ record(k, StatusUpserted, o)

delete(k, o) == ~o.live /\ record(k, StatusDeleted, o)

resetUpdates == /\ updates' = [k \in Keys |-> NoUpdate]
                /\ UNCHANGED objects
-----------------------------------------------------------------------------
(* The store on its own, driven with any sequence of calls.                *)
StoreNext == \/ \E k \in Keys, o \in Object : upsert(k, o) \/ delete(k, o)
             \/ resetUpdates

StoreSpec == StoreInit /\ [][StoreNext]_storeVars
-----------------------------------------------------------------------------
Touched == {k \in Keys : updates[k].status # StatusUnchanged}

(* What the store looked like when the batch began.                        *)
Base == [k \in Keys |-> FirstOld(k)]

(* What the tree builders rely on when they read updates instead of        *)
(* comparing two snapshots: the new object of an update is the stored one, *)
(* and the status says whether it is there.                                *)
UpdatesDescribeStore ==
    \A k \in Touched : /\ updates[k].new = objects[k]
                       /\ updates[k].status = StatusUpserted <=> objects[k].live

(* A key that a batch deletes was known before the batch: the code that    *)
(* computes servers takes the service of a deleted EndpointSlice from its  *)
(* old object (endpointSliceUpdatedByService) without a nil check.         *)
DeletedWasKnown ==
    \A k \in Touched : updates[k].status = StatusDeleted => updates[k].old.live

(* The promise of the store, as a specification of its own: a batch is a   *)
(* snapshot (base), the store now, and the keys that were written between. *)
Diff == INSTANCE BatchDiff WITH base <- Base, touched <- Touched

(* However often a key is upserted and deleted within one batch, the       *)
(* update keeps the object as it was before the batch, and only written    *)
(* keys have an update: the store implements BatchDiff.                    *)
ImplementsBatchDiff == Diff!Spec
=============================================================================
