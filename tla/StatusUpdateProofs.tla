------------------------- MODULE StatusUpdateProofs -------------------------
(***************************************************************************)
(* What the status updater reports as written is on the API server, and no *)
(* write destroys what others wrote, for any sets of objects and any       *)
(* number of batches, failures and concurrent changes.                     *)
(***************************************************************************)
EXTENDS StatusUpdate, TLAPS

Conditions == Statuses \cup {NoStatus}
Object     == [version : Nat, own : Conditions, others : SUBSET Others]

TypeOK ==
    /\ conditions \in [Objects -> Conditions]
    /\ api \in [Objects -> Object]
    /\ cache \in [Objects -> Object]
    /\ changes \in Nat
    /\ todo \in SUBSET Objects
    /\ current \in Objects \cup {Nobody}
    /\ read \in Object \cup {Unread}
    /\ done \in SUBSET Objects
    /\ stale \in SUBSET Objects

(* A copy is of the past: it has an earlier version than the server, or it *)
(* is what the server has, or the object is gone.                          *)
CopyOf(copy, obj) == copy = obj \/ obj = Absent \/ copy.version < obj.version

CopiesOld ==
    /\ \A o \in Objects : CopyOf(cache[o], api[o])
    /\ read # Unread => current \in Objects \ {Nobody} /\ CopyOf(read, api[current])
-----------------------------------------------------------------------------
(* What SetStatus and the server make of an object is an object.           *)
LEMMA WrittenType ==
    ASSUME TypeOK, current \in Objects, read # Unread
    PROVE  /\ Written(current) \in Object
           /\ Written(current).version = api[current].version + 1
           /\ Written(current).own = conditions[current]
           /\ Written(current).others = read.others
<1>1. read \in Object /\ api[current] \in Object /\ conditions[current] \in Conditions
  BY DEF TypeOK
<1>2. SetStatus(read) \in Object /\ SetStatus(read).own = conditions[current]
                                 /\ SetStatus(read).others = read.others
  BY <1>1 DEF SetStatus, Object
<1>3. api[current].version + 1 \in Nat
  BY <1>1 DEF Object
<1>. QED BY <1>2, <1>3 DEF Written, Object

(* Others leave the conditions of this controller, and a new version.      *)
LEMMA ChangedObject ==
    ASSUME TypeOK, NEW o \in Objects
    PROVE  /\ Changed(o) \subseteq Object
           /\ \A new \in Changed(o) : \/ new = Absent
                                     \/ /\ new.version = api[o].version + 1
                                        /\ new.own = api[o].own
<1>1. api[o] \in Object
  BY DEF TypeOK
<1>2. Absent \in Object
  BY DEF Absent, Object, Conditions
<1>3. api[o].version + 1 \in Nat /\ api[o].own \in Conditions /\ api[o].others \subseteq Others
  BY <1>1 DEF Object
<1>4. ASSUME NEW new \in Changed(o) \ {Absent}
      PROVE  /\ new \in Object
             /\ new.version = api[o].version + 1
             /\ new.own = api[o].own
  <2>1. new.others \in SUBSET Others
    BY <1>3, <1>4 DEF Changed
  <2>. QED BY <1>3, <1>4, <2>1 DEF Changed, Object
<1>. QED BY <1>2, <1>4

(* The state of the updater, and of the API server it writes to, keeps its *)
(* types.                                                                  *)
THEOREM TypeCorrect == Spec => []TypeOK
<1>1. Init => TypeOK
  BY DEF Init, TypeOK, Object, Conditions, Absent, Unread
<1>2. TypeOK /\ [Next]_vars => TypeOK'
  <2> SUFFICES ASSUME TypeOK, [Next]_vars PROVE TypeOK'
      OBVIOUS
  <2>1. CASE UNCHANGED vars
    BY <2>1 DEF vars, updaterVars, TypeOK
  <2>2. CASE HandleEventBatch
    BY <2>2 DEF HandleEventBatch, TypeOK, Conditions
  <2>3. CASE UpdateStatus
    BY <2>3 DEF UpdateStatus, NextInOrder, TypeOK
  <2>4. CASE getClusterObj
    BY <2>4 DEF getClusterObj, Finish, TypeOK
  <2>5. CASE WriteSucceeds
    <3>1. current \in Objects /\ Written(current) \in Object
      BY <2>5, WrittenType DEF WriteSucceeds, TypeOK
    <3>. QED BY <2>5, <3>1 DEF WriteSucceeds, Finish, TypeOK
  <2>6. CASE WriteFails
    BY <2>6 DEF WriteFails, Finish, TypeOK
  <2>7. ASSUME NEW o \in Objects, Change(o) PROVE TypeOK'
    <3>1. Changed(o) \subseteq Object
      BY ChangedObject
    <3>. QED BY <2>7, <3>1 DEF Change, TypeOK
  <2>8. ASSUME NEW o \in Objects, CacheSync(o) PROVE TypeOK'
    BY <2>8 DEF CacheSync, updaterVars, TypeOK
  <2>9. CASE Stop
    BY <2>9 DEF Stop, updaterVars, TypeOK
  <2>. QED BY <2>1, <2>2, <2>3, <2>4, <2>5, <2>6, <2>7, <2>8, <2>9 DEF Next, Updater
<1>. QED BY <1>1, <1>2, PTL DEF Spec
-----------------------------------------------------------------------------
(* What the updater reported as a success is what the server holds, though *)
(* attempts fail and others write to the same objects: StatusPublished is  *)
(* inductive on states of the right types.                                 *)
THEOREM SuccessIsPublished == Spec => []StatusPublished
<1>1. Init => StatusPublished
  BY DEF Init, StatusPublished
<1>2. TypeOK /\ StatusPublished /\ [Next]_vars => StatusPublished'
  <2> SUFFICES ASSUME TypeOK, StatusPublished, [Next]_vars,
                      NEW o \in (done \ stale)'
               PROVE  api'[o].own = conditions'[o]
      BY DEF StatusPublished
  <2>0. /\ done \subseteq Objects
        /\ o \in done \ stale => api[o].own = conditions[o]
    BY DEF TypeOK, StatusPublished
  <2>1. CASE UNCHANGED vars
    BY <2>0, <2>1 DEF vars, updaterVars
  <2>2. CASE HandleEventBatch
    BY <2>0, <2>2 DEF HandleEventBatch
  <2>3. CASE UpdateStatus
    BY <2>0, <2>3 DEF UpdateStatus
  <2>4. CASE getClusterObj
    <3>1. CASE o \in done \ stale
      BY <2>0, <2>4, <3>1 DEF getClusterObj
    <3>2. CASE o \notin done \ stale
      BY <2>4, <3>2 DEF getClusterObj, Finish, StatusEqual
    <3>. QED BY <3>1, <3>2
  <2>5. CASE WriteSucceeds
    <3>1. current \in Objects /\ Written(current).own = conditions[current]
      BY <2>5, WrittenType DEF WriteSucceeds, TypeOK
    <3>2. CASE o = current
      BY <2>5, <3>1, <3>2 DEF WriteSucceeds, TypeOK
    <3>3. CASE o # current
      BY <2>0, <2>5, <3>3 DEF WriteSucceeds, Finish, TypeOK
    <3>. QED BY <3>2, <3>3
  <2>6. CASE WriteFails
    BY <2>0, <2>6 DEF WriteFails, Finish
  <2>7. ASSUME NEW p \in Objects, Change(p) PROVE api'[o].own = conditions'[o]
    <3>1. PICK new \in Changed(p) :
            /\ api' = [api EXCEPT ![p] = new]
            /\ done' = IF new = Absent THEN done \ {p} ELSE done
      BY <2>7 DEF Change
    <3>2. conditions' = conditions /\ stale' = stale
      BY <2>7 DEF Change
    <3>3. new = Absent \/ new.own = api[p].own
      BY ChangedObject
    <3>. QED BY <2>0, <3>1, <3>2, <3>3 DEF TypeOK
  <2>8. ASSUME NEW p \in Objects, CacheSync(p) PROVE api'[o].own = conditions'[o]
    BY <2>0, <2>8 DEF CacheSync, updaterVars
  <2>9. CASE Stop
    BY <2>0, <2>9 DEF Stop, updaterVars
  <2>. QED BY <2>1, <2>2, <2>3, <2>4, <2>5, <2>6, <2>7, <2>8, <2>9 DEF Next, Updater
<1>. QED BY <1>1, <1>2, TypeCorrect, PTL DEF Spec

(* Every step but a change by others leaves the server alone, or is the    *)
(* write of the object the updater is at.                                  *)
LEMMA OnlyCurrentWritten ==
    ASSUME TypeOK, [Next]_vars, changes' = changes
    PROVE  \/ api' = api
           \/ /\ current \in Objects /\ read # Unread /\ Accepts(current)
              /\ api' = [api EXCEPT ![current] = Written(current)]
<1>1. CASE UNCHANGED vars
  BY <1>1 DEF vars
<1>2. CASE HandleEventBatch \/ UpdateStatus \/ getClusterObj \/ WriteFails \/ Stop
  BY <1>2 DEF HandleEventBatch, UpdateStatus, getClusterObj, WriteFails, Stop
<1>3. CASE WriteSucceeds
  BY <1>3 DEF WriteSucceeds, TypeOK
<1>4. ASSUME NEW o \in Objects, Change(o) PROVE FALSE
  BY <1>4 DEF Change, TypeOK
<1>5. ASSUME NEW o \in Objects, CacheSync(o) PROVE api' = api
  BY <1>5 DEF CacheSync
<1>. QED BY <1>1, <1>2, <1>3, <1>4, <1>5 DEF Next, Updater

(* SetStatus starts from the entries of others, so that a write to a route *)
(* keeps those it read and the server still has.                           *)
THEOREM OthersAreKept == Spec => OthersKept
<1>1. TypeOK /\ [Next]_vars =>
        [changes' = changes =>
           \A o \in Routes : o = current =>
             read.others \cap api[o].others \subseteq api'[o].others]_vars
  <2> SUFFICES ASSUME TypeOK, [Next]_vars, changes' = changes, NEW o \in Routes, o = current
               PROVE  read.others \cap api[o].others \subseteq api'[o].others
      OBVIOUS
  <2>1. CASE api' = api
    BY <2>1
  <2>2. CASE /\ current \in Objects /\ read # Unread
             /\ api' = [api EXCEPT ![current] = Written(current)]
    BY <2>2, WrittenType DEF TypeOK
  <2>. QED BY <2>1, <2>2, OnlyCurrentWritten
<1>. QED BY <1>1, TypeCorrect, PTL DEF Spec, OthersKept

(* The copies in the cache and in the hands of the updater are of the past *)
(* or of the present, never of another history of the object.              *)
LEMMA CopiesAreOld == Spec => []CopiesOld
<1>1. Init => CopiesOld
  BY DEF Init, CopiesOld, CopyOf
<1>2. TypeOK /\ CopiesOld /\ [Next]_vars => CopiesOld'
  <2> SUFFICES ASSUME TypeOK, CopiesOld, [Next]_vars PROVE CopiesOld'
      OBVIOUS
  <2>1. CASE UNCHANGED vars
    BY <2>1 DEF vars, updaterVars, CopiesOld, CopyOf
  <2>2. CASE HandleEventBatch
    BY <2>2 DEF HandleEventBatch, CopiesOld, CopyOf
  <2>3. CASE UpdateStatus
    BY <2>3 DEF UpdateStatus, CopiesOld, CopyOf
  <2>4. CASE getClusterObj
    BY <2>4 DEF getClusterObj, Finish, CopiesOld, CopyOf, TypeOK
  <2>5. CASE WriteSucceeds
    <3>1. /\ current \in Objects
          /\ Written(current).version = api[current].version + 1
      BY <2>5, WrittenType DEF WriteSucceeds, TypeOK
    <3>2. \A o \in Objects : cache[o].version \in Nat /\ api[o].version \in Nat
      BY DEF TypeOK, Object
    <3>3. ASSUME NEW o \in Objects PROVE CopyOf(cache[o], api'[o])
      BY <2>5, <3>1, <3>2 DEF WriteSucceeds, Accepts, CopiesOld, CopyOf, TypeOK
    <3>. QED BY <2>5, <3>3 DEF WriteSucceeds, Finish, CopiesOld, CopyOf
  <2>6. CASE WriteFails
    BY <2>6 DEF WriteFails, Finish, CopiesOld, CopyOf
  <2>7. ASSUME NEW o \in Objects, Change(o) PROVE CopiesOld'
    <3>1. PICK new \in Changed(o) : api' = [api EXCEPT ![o] = new]
      BY <2>7 DEF Change
    <3>2. new = Absent \/ new.version = api[o].version + 1
      BY ChangedObject
    <3>3. ASSUME NEW copy \in Object, CopyOf(copy, api[o]) PROVE CopyOf(copy, new)
      BY <2>7, <3>2, <3>3 DEF Change, CopyOf, TypeOK, Object
    <3>. QED BY <2>7, <3>1, <3>3 DEF Change, CopiesOld, CopyOf, TypeOK
  <2>8. ASSUME NEW o \in Objects, CacheSync(o) PROVE CopiesOld'
    BY <2>8 DEF CacheSync, updaterVars, CopiesOld, CopyOf, TypeOK
  <2>9. CASE Stop
    BY <2>9 DEF Stop, updaterVars, CopiesOld, CopyOf
  <2>. QED BY <2>1, <2>2, <2>3, <2>4, <2>5, <2>6, <2>7, <2>8, <2>9 DEF Next, Updater
<1>. QED BY <1>1, <1>2, TypeCorrect, PTL DEF Spec

(* The version of an update makes sure that it is applied only to the copy *)
(* the updater read.                                                       *)
THEOREM NoUpdateLost == Spec => NothingOverwritten
<1>1. TypeOK /\ CopiesOld /\ [Next]_vars =>
        [changes' = changes =>
           \A o \in Objects \ Routes :
             api'[o] # api[o] => o = current /\ read = api[o]]_vars
  <2> SUFFICES ASSUME TypeOK, CopiesOld, [Next]_vars, changes' = changes,
                      NEW o \in Objects \ Routes, api'[o] # api[o]
               PROVE  o = current /\ read = api[o]
      OBVIOUS
  <2>1. /\ current \in Objects /\ read # Unread /\ Accepts(current)
        /\ api' = [api EXCEPT ![current] = Written(current)]
    BY OnlyCurrentWritten
  <2>2. o = current
    BY <2>1 DEF TypeOK
  <2>3. CopyOf(read, api[o]) /\ api[o] # Absent /\ api[o].version = read.version
    BY <2>1, <2>2 DEF CopiesOld, Accepts
  <2>4. api[o].version \in Nat
    BY DEF TypeOK, Object
  <2>. QED BY <2>2, <2>3, <2>4 DEF CopyOf
<1>. QED BY <1>1, TypeCorrect, CopiesAreOld, PTL DEF Spec, NothingOverwritten
=============================================================================
