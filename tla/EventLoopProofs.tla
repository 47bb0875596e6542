--------------------------- MODULE EventLoopProofs ---------------------------
(***************************************************************************)
(* The event loop never leaves events behind without a timer or a handler, *)
(* never touches the batch a handler reads, never moves the store back in  *)
(* time and loses no change: for any set of objects and kinds and any      *)
(* interleaving of the goroutines.                                         *)
(***************************************************************************)
EXTENDS EventLoop, ObjectStoreProofs

(* Every step of every goroutine keeps the types of the loop's state, and  *)
(* the handler stays within its batch.                                     *)
THEOREM TypeCorrect == Spec => []TypeOK
<1> USE MaxVerAssumption
<1>1. Init => TypeOK
  <2> SUFFICES ASSUME Init PROVE TypeOK
      OBVIOUS
  <2>1. StoreTypeOK /\ cache \in [Keys -> Object]
    BY DEF Init, StoreInit, StoreTypeOK, Object, Nil, Update, NoUpdate, Status
  <2>2. buf \in [{0, 1} -> Seq(Event)] /\ curBatch = <<>>
    BY DEF Init, curBatch, curBuf
  <2>. QED BY <2>1, <2>2 DEF Init, TypeOK
<1>2. TypeOK /\ [Next]_vars => TypeOK'
  <2> SUFFICES ASSUME TypeOK, [Next]_vars PROVE TypeOK'
      OBVIOUS
  <2> USE DEF TypeOK, curBatch, curBuf
  <2>1. ASSUME NEW k \in Keys, CacheChange(k) PROVE TypeOK'
    <3>1. cache' \in [Keys -> Object]
      BY <2>1 DEF CacheChange, Object
    <3>. QED BY <2>1, <3>1 DEF CacheChange, storeVars, loopVars, hVars, StoreTypeOK
  <2>2. ASSUME NEW k \in Keys, Reconcile(k) PROVE TypeOK'
    <3>1. [key |-> k, obj |-> cache[k]] \in Event
      BY DEF Event
    <3>. QED BY <2>2, <3>1 DEF Reconcile, storeVars, loopVars, hVars, StoreTypeOK
  <2>3. ASSUME NEW e \in sending, ReconcileCanceled(e) PROVE TypeOK'
    BY <2>3 DEF ReconcileCanceled, storeVars, loopVars, hVars, StoreTypeOK
  <2>4. ASSUME NEW e \in sending, ReceiveEvent(e) PROVE TypeOK'
    <3>1. buf' \in [{0, 1} -> Seq(Event)] /\ buf'[1 - nextBuf] = buf[1 - nextBuf]
      BY <2>4 DEF ReceiveEvent
    <3>2. timer' \in {"none", "startup", "sync"} /\ isStartup' \in BOOLEAN
      BY <2>4 DEF ReceiveEvent, startTimer
    <3>. QED BY <2>4, <3>1, <3>2 DEF ReceiveEvent, storeVars, hVars, StoreTypeOK
  <2>5. CASE Cancel
    BY <2>5 DEF Cancel, storeVars, reconVars, loopVars, hVars, StoreTypeOK
  <2>6. CASE TimerHandles
    <3>1. buf' \in [{0, 1} -> Seq(Event)] /\ nextBuf' \in {0, 1}
      BY <2>6 DEF TimerHandles, swapBatches
    <3>. QED BY <2>6, <3>1 DEF TimerHandles, swapBatches, handleBatch, storeVars,
                               reconVars, StoreTypeOK
  <2>7. CASE TimerRestarts
    BY <2>7 DEF TimerRestarts, startTimer, storeVars, reconVars, hVars, StoreTypeOK
  <2>8. CASE HandlingDone
    BY <2>8 DEF HandlingDone, startTimer, storeVars, reconVars, StoreTypeOK
  <2>9. CASE LoopCanceled
    BY <2>9 DEF LoopCanceled, storeVars, reconVars, hVars, StoreTypeOK
  <2>10. CASE Drained
    BY <2>10 DEF Drained, storeVars, reconVars, StoreTypeOK
  <2>11. CASE ResetUpdates
    <3>1. StoreTypeOK'
      BY <2>11, StoreTypes DEF ResetUpdates, StoreNext
    <3>. QED BY <2>11, <3>1 DEF ResetUpdates, reconVars, loopVars
  <2>12. CASE UpdateClusterStore
    <3> DEFINE e == curBatch[hidx + 1]
    <3>1. e \in Event
      BY <2>12 DEF UpdateClusterStore
    <3>2. e.key \in Keys /\ e.obj \in Object
      BY <3>1 DEF Event
    <3>3. StoreNext
      BY <2>12, <3>2 DEF UpdateClusterStore, StoreNext
    <3>4. StoreTypeOK'
      BY <3>3, StoreTypes
    <3>. QED BY <2>12, <3>4 DEF UpdateClusterStore, reconVars, loopVars
  <2>13. CASE ProcessBatchEnds
    BY <2>13 DEF ProcessBatchEnds, storeVars, reconVars, loopVars, StoreTypeOK
  <2>14. CASE HandleRest
    BY <2>14 DEF HandleRest, storeVars, reconVars, loopVars, StoreTypeOK
  <2>15. CASE UNCHANGED vars
    BY <2>15 DEF vars, storeVars, reconVars, loopVars, hVars, StoreTypeOK
  <2>. QED BY <2>1, <2>2, <2>3, <2>4, <2>5, <2>6, <2>7, <2>8, <2>9, <2>10, <2>11,
              <2>12, <2>13, <2>14, <2>15 DEF Next, Handler
<1>. QED BY <1>1, <1>2, PTL DEF Spec
-----------------------------------------------------------------------------
(* The strengthening of NoStuckBatch.  Without a shutdown, handling says   *)
(* exactly whether there is a handler goroutine; and once the first event  *)
(* has arrived, a timer runs or a batch is being handled.                  *)
HandlingExact == /\ hpc # "none" => handling
                 /\ loop = "select" /\ handling => hpc # "none"
Armed == loop = "select" /\ (nextID # 1 \/ nextBatch # <<>>)
           => timer # "none" \/ handling
LoopInv == HandlingExact /\ Armed

(* The strengthening is inductive.                                         *)
LEMMA LoopInvInductive == TypeOK /\ LoopInv /\ [Next]_vars => LoopInv'
<1> SUFFICES ASSUME TypeOK, LoopInv, [Next]_vars PROVE LoopInv'
    OBVIOUS
<1> USE DEF LoopInv, HandlingExact, Armed, nextBatch
<1>1. ASSUME NEW k \in Keys, CacheChange(k) \/ Reconcile(k) PROVE LoopInv'
  BY <1>1 DEF CacheChange, Reconcile, loopVars, hVars
<1>2. ASSUME NEW e \in sending, ReconcileCanceled(e) PROVE LoopInv'
  BY <1>2 DEF ReconcileCanceled, loopVars, hVars
<1>3. ASSUME NEW e \in sending, ReceiveEvent(e) PROVE LoopInv'
  <2>1. HandlingExact'
    BY <1>3 DEF ReceiveEvent, hVars
  <2>2. Armed'
    BY <1>3 DEF ReceiveEvent, startTimer
  <2>. QED BY <2>1, <2>2
<1>4. CASE TimerHandles
  BY <1>4 DEF TimerHandles, handleBatch
<1>5. CASE TimerRestarts
  BY <1>5 DEF TimerRestarts, startTimer, hVars
<1>6. CASE HandlingDone
  BY <1>6 DEF HandlingDone, startTimer
<1>7. CASE LoopCanceled \/ Drained
  BY <1>7 DEF LoopCanceled, Drained, hVars
<1>8. CASE Cancel \/ Handler
  BY <1>8 DEF Cancel, Handler, ResetUpdates, UpdateClusterStore, ProcessBatchEnds,
              HandleRest, loopVars, hVars
<1>9. CASE UNCHANGED vars
  BY <1>9 DEF vars, loopVars, hVars
<1>. QED BY <1>1, <1>2, <1>3, <1>4, <1>5, <1>6, <1>7, <1>8, <1>9 DEF Next

(* It holds in every reachable state.                                      *)
LEMMA LoopInvHolds == Spec => [](TypeOK /\ LoopInv)
<1>1. Init => LoopInv
  BY DEF Init, LoopInv, HandlingExact, Armed, nextBatch
<1>. QED BY <1>1, TypeCorrect, LoopInvInductive, PTL DEF Spec

(* Events that arrived never wait without a timer or a handler: the loop   *)
(* arms the timer on an arrival only for batch 1, and that is enough.      *)
THEOREM NothingStuck == Spec => []NoStuckBatch
<1>1. LoopInv => NoStuckBatch
  BY DEF LoopInv, Armed, NoStuckBatch
<1>. QED BY <1>1, LoopInvHolds, PTL

(* The slice a handler goroutine reads is never written while it runs,     *)
(* although the two batches trade their slices.                            *)
THEOREM BatchesIsolated == Spec => BatchIsolation
<1>1. TypeOK /\ LoopInv /\ [Next]_vars
        => [hpc # "none" => buf[curBuf]' = buf[curBuf]]_vars
  <2> SUFFICES ASSUME TypeOK, LoopInv, Next, hpc # "none"
               PROVE  buf[curBuf]' = buf[curBuf]
      OBVIOUS
  <2> USE DEF curBuf
  <2>1. ASSUME NEW k \in Keys, CacheChange(k) \/ Reconcile(k)
        PROVE  buf[curBuf]' = buf[curBuf]
    BY <2>1 DEF CacheChange, Reconcile, loopVars
  <2>2. ASSUME NEW e \in sending, ReconcileCanceled(e)
        PROVE  buf[curBuf]' = buf[curBuf]
    BY <2>2 DEF ReconcileCanceled, loopVars
  <2>3. ASSUME NEW e \in sending, ReceiveEvent(e)
        PROVE  buf[curBuf]' = buf[curBuf]
    BY <2>3 DEF ReceiveEvent, TypeOK
  <2>4. ~TimerHandles
    BY DEF TimerHandles, CanHandle, LoopInv, HandlingExact
  <2>5. CASE TimerRestarts \/ HandlingDone \/ LoopCanceled \/ Drained \/ Cancel
    BY <2>5 DEF TimerRestarts, HandlingDone, LoopCanceled, Drained, Cancel, loopVars
  <2>6. CASE Handler
    BY <2>6 DEF Handler, ResetUpdates, UpdateClusterStore, ProcessBatchEnds,
                HandleRest, loopVars
  <2>. QED BY <2>1, <2>2, <2>3, <2>4, <2>5, <2>6 DEF Next
<1>. QED BY <1>1, LoopInvHolds, PTL DEF Spec, BatchIsolation
-----------------------------------------------------------------------------
(* What the loop does to the store are calls of the store, so that it      *)
(* keeps the store's promises: UpdatesDescribeStore and BatchDiff.         *)
THEOREM LoopImplementsStore == Spec => StoreSpec
<1>1. Init => StoreInit
  BY DEF Init
<1>2. TypeOK /\ [Next]_vars => [StoreNext]_storeVars
  <2> SUFFICES ASSUME TypeOK, [Next]_vars PROVE [StoreNext]_storeVars
      OBVIOUS
  <2>1. CASE UpdateClusterStore
    <3> DEFINE e == curBatch[hidx + 1]
    <3>1. e \in Event
      BY <2>1 DEF UpdateClusterStore, TypeOK, curBatch, curBuf
    <3>2. e.key \in Keys /\ e.obj \in Object
      BY <3>1 DEF Event
    <3>. QED BY <2>1, <3>2 DEF UpdateClusterStore, StoreNext
  <2>2. CASE ResetUpdates
    BY <2>2 DEF ResetUpdates, StoreNext
  <2>3. CASE UNCHANGED vars \/ Cancel \/ TimerHandles \/ TimerRestarts \/ HandlingDone
             \/ LoopCanceled \/ Drained \/ ProcessBatchEnds \/ HandleRest
    BY <2>3 DEF vars, Cancel, TimerHandles, TimerRestarts, HandlingDone, LoopCanceled,
                Drained, ProcessBatchEnds, HandleRest
  <2>4. ASSUME NEW k \in Keys, CacheChange(k) \/ Reconcile(k) PROVE UNCHANGED storeVars
    BY <2>4 DEF CacheChange, Reconcile
  <2>5. ASSUME NEW e \in sending, ReconcileCanceled(e) \/ ReceiveEvent(e)
        PROVE  UNCHANGED storeVars
    BY <2>5 DEF ReconcileCanceled, ReceiveEvent
  <2>. QED BY <2>1, <2>2, <2>3, <2>4, <2>5 DEF Next, Handler
<1>. QED BY <1>1, <1>2, TypeCorrect, PTL DEF Spec, StoreSpec

(* So the updates a handler reads describe the store, in every reachable   *)
(* state of the loop, and are the difference the batch made.               *)
THEOREM LoopKeepsPromises == Spec => []UpdatesDescribeStore /\ ImplementsBatchDiff
BY LoopImplementsStore, UpdatesDescribe, StoreImplementsBatchDiff, PTL
-----------------------------------------------------------------------------
(* The strengthening of StoreMonotonic.  The states of an object move from *)
(* the cache to the store in the order of their versions: what a worker    *)
(* holds is not older than what is batched, which is not older than what   *)
(* the handler has yet to apply, which is not older than the store.        *)
Older(e, f) == e.key = f.key => e.obj.ver <= f.obj.ver

Current(e) == objects[e.key].ver <= e.obj.ver /\ e.obj.ver <= cache[e.key].ver

OneWorker == \A e, f \in sending : KindOf[e.key] = KindOf[f.key] => e = f

InOrder ==
    /\ \A k \in Keys : objects[k].ver <= cache[k].ver
    /\ \A e \in sending : Current(e)
    /\ \A i \in 1..Len(nextBatch) : /\ Current(nextBatch[i])
                                    /\ \A e \in sending : Older(nextBatch[i], e)
                                    /\ \A j \in i..Len(nextBatch) : Older(nextBatch[i], nextBatch[j])
    /\ \A i \in unapplied..Len(curBatch) :
          /\ Current(curBatch[i])
          /\ \A e \in sending : Older(curBatch[i], e)
          /\ \A j \in i..Len(curBatch) : Older(curBatch[i], curBatch[j])
          /\ \A j \in 1..Len(nextBatch) : Older(curBatch[i], nextBatch[j])

OrderInv == OneWorker /\ InOrder

(* Versions are numbers, and events are about objects.                     *)
LEMMA Versions ==
    ASSUME TypeOK
    PROVE  /\ \A k \in Keys : cache[k].ver \in Nat /\ objects[k].ver \in Nat
           /\ \A e \in sending : e.key \in Keys /\ e.obj.ver \in Nat
           /\ \A b \in {0, 1} : \A i \in 1..Len(buf[b]) :
                buf[b][i] \in Event /\ buf[b][i].key \in Keys /\ buf[b][i].obj.ver \in Nat
<1>1. \A o \in Object : o.ver \in Nat
  BY MaxVerAssumption DEF Object
<1>2. \A e \in Event : e.key \in Keys /\ e.obj.ver \in Nat
  BY <1>1 DEF Event
<1>. QED BY <1>1, <1>2 DEF TypeOK, StoreTypeOK

(* The order is kept by every step.                                        *)
LEMMA OrderInvInductive == TypeOK /\ TypeOK' /\ LoopInv /\ OrderInv /\ [Next]_vars => OrderInv'
<1> SUFFICES ASSUME TypeOK, TypeOK', LoopInv, OrderInv, [Next]_vars PROVE OrderInv'
    OBVIOUS
<1> DEFINE Same == UNCHANGED <<buf, nextBuf, unapplied>>
           Current1(e) == objects'[e.key].ver <= e.obj.ver /\ e.obj.ver <= cache'[e.key].ver
<1>0. Same => UNCHANGED <<curBatch, nextBatch>>
  BY DEF curBatch, nextBatch, curBuf
<1>1. ASSUME NEW k \in Keys, CacheChange(k) PROVE OrderInv'
  <2>1. UNCHANGED <<objects, sending>> /\ Same
    BY <1>1 DEF CacheChange, storeVars, loopVars, hVars, unapplied, curBatch, curBuf
  <2>2. \A l \in Keys : cache[l].ver <= cache'[l].ver
    BY <1>1, Versions DEF CacheChange, TypeOK
  <2>3. \A e \in Event : Current(e) => Current1(e)
    BY <2>1, <2>2, MaxVerAssumption DEF Current, Event, TypeOK, StoreTypeOK, Object
  <2>4. \A l \in Keys : objects[l].ver <= cache'[l].ver
    BY <2>1, <2>2, MaxVerAssumption DEF OrderInv, InOrder, TypeOK, StoreTypeOK, Object
  <2>5. /\ \A i \in 1..Len(nextBatch) : nextBatch[i] \in Event
        /\ \A i \in unapplied..Len(curBatch) : curBatch[i] \in Event
    BY Versions DEF TypeOK, curBatch, nextBatch, curBuf, unapplied
  <2>6. UNCHANGED <<curBatch, nextBatch, unapplied>>
    BY <1>0, <2>1
  <2>7. sending \subseteq Event
    BY DEF TypeOK
  <2>8. OneWorker'
    BY <2>1 DEF OrderInv, OneWorker
  <2>9. InOrder'
    BY <2>1, <2>3, <2>4, <2>5, <2>6, <2>7 DEF OrderInv, InOrder, Older, Current
  <2>. QED BY <2>8, <2>9 DEF OrderInv
<1>2. ASSUME Same, UNCHANGED <<objects, cache>>, sending' \subseteq sending PROVE OrderInv'
  <2>1. UNCHANGED <<curBatch, nextBatch, unapplied>>
    BY <1>0, <1>2
  <2>. QED BY <1>2, <2>1 DEF OrderInv, OneWorker, InOrder, Older, Current
<1>3. ASSUME NEW k \in Keys, Reconcile(k) PROVE OrderInv'
  <2> DEFINE new == [key |-> k, obj |-> cache[k]]
  <2>1. UNCHANGED <<objects, cache>> /\ Same /\ sending' = sending \cup {new}
    BY <1>3 DEF Reconcile, storeVars, loopVars, hVars, unapplied, curBatch, curBuf
  <2>2. UNCHANGED <<curBatch, nextBatch, unapplied>>
    BY <1>0, <2>1
  <2>3. OneWorker'
    BY <1>3, <2>1 DEF Reconcile, WorkerIdle, OrderInv, OneWorker
  <2>4. Current(new)
    BY Versions DEF Current, OrderInv, InOrder
  <2>5. \A e : Current(e) => Older(e, new) /\ Current1(e)
    BY <2>1 DEF Current, Older
  <2>. QED BY <2>1, <2>2, <2>3, <2>4, <2>5 DEF OrderInv, InOrder, Current, Older
<1>4. ASSUME NEW e \in sending, ReceiveEvent(e) PROVE OrderInv'
  <2>1. /\ UNCHANGED <<objects, cache, curBatch, unapplied>>
        /\ sending' = sending \ {e}
        /\ nextBatch' = Append(nextBatch, e)
    BY <1>4 DEF ReceiveEvent, storeVars, hVars, unapplied, curBatch, curBuf, nextBatch, TypeOK
  <2>2. nextBatch \in Seq(Event)
    BY DEF nextBatch, TypeOK
  <2>3. /\ Len(nextBatch') = Len(nextBatch) + 1 /\ Len(nextBatch) \in Nat
        /\ \A i \in 1..Len(nextBatch) : nextBatch'[i] = nextBatch[i]
        /\ nextBatch'[Len(nextBatch) + 1] = e
    BY <2>1, <2>2 DEF TypeOK
  <2>4. OneWorker'
    BY <2>1 DEF OrderInv, OneWorker
  <2>5. \A f : Current1(f) <=> Current(f)
    BY <2>1 DEF Current
  <2>6. \A f \in sending' : Older(e, f)
    BY <2>1 DEF Older, OrderInv, OneWorker
  <2>7. Older(e, e)
    BY Versions DEF Older
  <2>8. ASSUME NEW i \in 1..Len(nextBatch')
        PROVE  /\ Current1(nextBatch'[i])
               /\ \A f \in sending' : Older(nextBatch'[i], f)
               /\ \A j \in i..Len(nextBatch') : Older(nextBatch'[i], nextBatch'[j])
    <3>1. CASE i \in 1..Len(nextBatch)
      <4>1. nextBatch'[i] = nextBatch[i]
        BY <2>3, <3>1
      <4>2. ASSUME NEW j \in i..Len(nextBatch') PROVE Older(nextBatch[i], nextBatch'[j])
        <5>1. CASE j = Len(nextBatch) + 1
          BY <2>3, <3>1, <5>1 DEF OrderInv, InOrder
        <5>2. CASE j # Len(nextBatch) + 1
          <6>1. j \in i..Len(nextBatch) /\ j \in 1..Len(nextBatch)
            BY <2>3, <3>1, <4>2, <5>2
          <6>2. nextBatch'[j] = nextBatch[j]
            BY <2>3, <6>1
          <6>. QED BY <3>1, <6>1, <6>2 DEF OrderInv, InOrder
        <5>. QED BY <5>1, <5>2
      <4>. QED BY <2>1, <2>5, <3>1, <4>1, <4>2 DEF OrderInv, InOrder
    <3>2. CASE i = Len(nextBatch) + 1
      BY <2>3, <2>5, <2>6, <2>7, <3>2 DEF OrderInv, InOrder
    <3>. QED BY <2>3, <2>8, <3>1, <3>2
  <2>9. ASSUME NEW i \in unapplied..Len(curBatch), NEW j \in 1..Len(nextBatch')
        PROVE  Older(curBatch[i], nextBatch'[j])
    <3>1. CASE j \in 1..Len(nextBatch)
      BY <2>3, <2>9, <3>1 DEF OrderInv, InOrder
    <3>2. CASE j = Len(nextBatch) + 1
      BY <2>3, <2>9, <3>2 DEF OrderInv, InOrder
    <3>. QED BY <2>3, <2>9, <3>1, <3>2
  <2>10. InOrder'
    BY <2>1, <2>8, <2>9 DEF OrderInv, InOrder, Older, Current
  <2>. QED BY <2>4, <2>10 DEF OrderInv
<1>5. CASE TimerHandles
  <2>1. hpc = "none"
    BY <1>5 DEF TimerHandles, CanHandle, LoopInv, HandlingExact
  <2>2. /\ UNCHANGED <<objects, cache, sending>>
        /\ curBatch' = nextBatch /\ nextBatch' = <<>> /\ unapplied' = 1
    BY <1>5 DEF TimerHandles, swapBatches, handleBatch, storeVars, reconVars, TypeOK,
                curBatch, nextBatch, curBuf, unapplied
  <2>. QED BY <2>2 DEF OrderInv, OneWorker, InOrder, Older, Current
<1>6. CASE UpdateClusterStore
  <2> DEFINE e == curBatch[hidx + 1]
  <2>1. /\ hpc = "store" /\ hpc' = "store" /\ hidx \in Nat /\ hidx' = hidx + 1
        /\ unapplied = hidx + 1 /\ unapplied' = unapplied + 1
        /\ unapplied \in 1..Len(curBatch)
    BY <1>6 DEF UpdateClusterStore, unapplied, TypeOK, curBatch, curBuf
  <2>2. UNCHANGED <<cache, sending, curBatch, nextBatch>>
    BY <1>6 DEF UpdateClusterStore, reconVars, loopVars, curBatch, nextBatch, curBuf
  <2>3. e.key \in Keys /\ objects' = [objects EXCEPT ![e.key] = e.obj]
    BY <1>6, <2>1, Versions DEF UpdateClusterStore, upsert, delete, record, curBatch, curBuf, TypeOK
  <2>4. \A k \in Keys : objects'[k] = IF k = e.key THEN e.obj ELSE objects[k]
    BY <2>3 DEF TypeOK, StoreTypeOK
  <2>5. /\ Current(e)
        /\ \A f \in sending : Older(e, f)
        /\ \A j \in unapplied..Len(curBatch) : Older(e, curBatch[j])
        /\ \A j \in 1..Len(nextBatch) : Older(e, nextBatch[j])
    BY <2>1 DEF OrderInv, InOrder
  <2>6. ASSUME NEW f, f.key \in Keys, Older(e, f), Current(f) PROVE Current1(f)
    BY <2>2, <2>4, <2>6 DEF Older, Current
  <2>7. \A k \in Keys : objects'[k].ver <= cache'[k].ver
    BY <2>2, <2>4, <2>5 DEF OrderInv, InOrder, Current
  <2>8. \A f \in sending' : Current1(f)
    BY <2>2, <2>5, <2>6, Versions DEF OrderInv, InOrder
  <2>9. \A i \in 1..Len(nextBatch) : Current1(nextBatch[i])
    <3> SUFFICES ASSUME NEW i \in 1..Len(nextBatch) PROVE Current1(nextBatch[i])
        OBVIOUS
    <3>1. nextBatch[i].key \in Keys
      BY Versions DEF nextBatch, TypeOK
    <3>2. Current(nextBatch[i]) /\ Older(e, nextBatch[i])
      BY <2>5 DEF OrderInv, InOrder
    <3>. QED BY <2>6, <3>1, <3>2
  <2>10. \A i \in unapplied'..Len(curBatch) : Current1(curBatch[i]) /\ i \in unapplied..Len(curBatch)
    <3> SUFFICES ASSUME NEW i \in unapplied'..Len(curBatch)
                 PROVE  Current1(curBatch[i]) /\ i \in unapplied..Len(curBatch)
        OBVIOUS
    <3>1. i \in unapplied..Len(curBatch) /\ i \in 1..Len(curBatch)
      BY <2>1
    <3>2. curBatch[i].key \in Keys
      BY <3>1, Versions DEF curBatch, curBuf, TypeOK
    <3>3. Current(curBatch[i]) /\ Older(e, curBatch[i])
      BY <2>5, <3>1 DEF OrderInv, InOrder
    <3>. QED BY <2>6, <3>1, <3>2, <3>3
  <2>11. OneWorker' /\ InOrder'
    BY <2>2, <2>7, <2>8, <2>9, <2>10 DEF OrderInv, OneWorker, InOrder, Older, Current
  <2>. QED BY <2>11 DEF OrderInv
<1>7. CASE ResetUpdates \/ ProcessBatchEnds \/ HandleRest \/ HandlingDone \/ Drained
  <2>1. UNCHANGED <<objects, cache, sending, buf, nextBuf>>
    BY <1>7 DEF ResetUpdates, ProcessBatchEnds, HandleRest, HandlingDone, Drained,
                resetUpdates, storeVars, reconVars, loopVars
  <2>2. UNCHANGED unapplied
    BY <1>7, <2>1 DEF ResetUpdates, ProcessBatchEnds, HandleRest, HandlingDone, Drained,
                      unapplied, curBatch, curBuf, TypeOK
  <2>. QED BY <1>2, <2>1, <2>2
<1>8. CASE Cancel \/ TimerRestarts \/ LoopCanceled \/ UNCHANGED vars
  <2>1. UNCHANGED <<objects, cache, sending, buf, nextBuf, hpc, hidx>>
    BY <1>8 DEF Cancel, TimerRestarts, LoopCanceled, vars, storeVars, reconVars, loopVars, hVars
  <2>. QED BY <1>2, <2>1 DEF unapplied, curBatch, curBuf
<1>9. ASSUME NEW e \in sending, ReconcileCanceled(e) PROVE OrderInv'
  <2>1. UNCHANGED <<objects, cache, buf, nextBuf, hpc, hidx>> /\ sending' \subseteq sending
    BY <1>9 DEF ReconcileCanceled, storeVars, loopVars, hVars
  <2>. QED BY <1>2, <2>1 DEF unapplied, curBatch, curBuf
<1>. QED BY <1>1, <1>3, <1>4, <1>5, <1>6, <1>7, <1>8, <1>9 DEF Next, Handler

(* It holds in every reachable state.                                      *)
LEMMA OrderInvHolds == Spec => []OrderInv
<1>1. Init => OrderInv
  BY DEF Init, StoreInit, OrderInv, OneWorker, InOrder, nextBatch, curBatch, curBuf, unapplied, Nil
<1>. QED BY <1>1, LoopInvHolds, OrderInvInductive, PTL DEF Spec

(* The store never goes back to an older state of an object, whichever     *)
(* worker read first and however the batches were cut.                     *)
THEOREM StoreNeverGoesBack == Spec => StoreMonotonic
<1>1. TypeOK /\ OrderInv /\ [Next]_vars
        => [\A k \in Keys : objects'[k].ver >= objects[k].ver]_objects
  <2> SUFFICES ASSUME TypeOK, OrderInv, [Next]_vars, NEW k \in Keys
               PROVE  objects'[k].ver >= objects[k].ver
      OBVIOUS
  <2>0. objects[k].ver \in Nat
    BY Versions
  <2>1. CASE UpdateClusterStore
    <3> DEFINE e == curBatch[hidx + 1]
    <3>1. hidx + 1 \in unapplied..Len(curBatch) /\ hidx + 1 \in 1..Len(curBatch)
      BY <2>1 DEF UpdateClusterStore, unapplied, TypeOK, curBatch, curBuf
    <3>2. e.key \in Keys /\ e.obj.ver \in Nat
      BY <3>1, Versions DEF curBatch, curBuf, TypeOK
    <3>3. objects' = [objects EXCEPT ![e.key] = e.obj]
      BY <2>1 DEF UpdateClusterStore, upsert, delete, record
    <3>4. objects[e.key].ver <= e.obj.ver
      BY <3>1 DEF OrderInv, InOrder, Current
    <3>. QED BY <2>0, <3>2, <3>3, <3>4 DEF TypeOK, StoreTypeOK
  <2>2. CASE UNCHANGED objects
    BY <2>0, <2>2
  <2>3. ASSUME NEW l \in Keys, CacheChange(l) \/ Reconcile(l) PROVE UNCHANGED objects
    BY <2>3 DEF CacheChange, Reconcile, storeVars
  <2>4. ASSUME NEW e \in sending, ReconcileCanceled(e) \/ ReceiveEvent(e)
        PROVE  UNCHANGED objects
    BY <2>4 DEF ReconcileCanceled, ReceiveEvent, storeVars
  <2>5. CASE UNCHANGED vars \/ Cancel \/ TimerHandles \/ TimerRestarts \/ HandlingDone
             \/ LoopCanceled \/ Drained \/ ResetUpdates \/ ProcessBatchEnds \/ HandleRest
    BY <2>2, <2>5 DEF vars, Cancel, TimerHandles, TimerRestarts, HandlingDone, LoopCanceled,
                Drained, ResetUpdates, resetUpdates, ProcessBatchEnds, HandleRest, storeVars
  <2>. QED BY <2>1, <2>2, <2>3, <2>4, <2>5 DEF Next, Handler
<1>. QED BY <1>1, TypeCorrect, OrderInvHolds, PTL DEF Spec, StoreMonotonic
-----------------------------------------------------------------------------
(* An appended event is the last one about its object, and leaves what the *)
(* batch says of others.                                                   *)
LEMMA Appended ==
    ASSUME NEW s \in Seq(Event), NEW e \in Event, NEW k, NEW o
    PROVE  /\ Mentions(Append(s, e), 1, e.key) /\ LastIs(Append(s, e), 1, e.key, e.obj)
           /\ k # e.key => /\ Mentions(Append(s, e), 1, k) <=> Mentions(s, 1, k)
                           /\ LastIs(s, 1, k, o) => LastIs(Append(s, e), 1, k, o)
<1> DEFINE t == Append(s, e)
<1>1. /\ Len(s) \in Nat /\ Len(t) = Len(s) + 1 /\ t[Len(s) + 1] = e
      /\ \A i \in 1..Len(s) : t[i] = s[i]
  OBVIOUS
<1> HIDE DEF t
<1>2. Mentions(t, 1, e.key) /\ LastIs(t, 1, e.key, e.obj)
  <2>1. Len(t) \in 1..Len(t) /\ \A j \in (Len(t) + 1)..Len(t) : FALSE
    BY <1>1
  <2>. QED BY <1>1, <2>1 DEF Mentions, LastIs
<1>3. ASSUME k # e.key PROVE Mentions(t, 1, k) <=> Mentions(s, 1, k)
  BY <1>1, <1>3 DEF Mentions
<1>4. ASSUME k # e.key, LastIs(s, 1, k, o) PROVE LastIs(t, 1, k, o)
  <2>1. PICK i \in 1..Len(s) : /\ s[i].key = k /\ s[i].obj = o
                               /\ \A j \in (i+1)..Len(s) : s[j].key # k
    BY <1>4 DEF LastIs
  <2>2. i \in 1..Len(t) /\ t[i] = s[i]
    BY <1>1
  <2>3. ASSUME NEW j \in (i+1)..Len(t) PROVE t[j].key # k
    <3>1. CASE j = Len(s) + 1
      BY <1>1, <1>4, <3>1
    <3>2. CASE j # Len(s) + 1
      <4>1. j \in (i+1)..Len(s) /\ j \in 1..Len(s)
        BY <1>1, <3>2
      <4>. QED BY <1>1, <2>1, <4>1
    <3>. QED BY <3>1, <3>2
  <2>. QED BY <2>1, <2>2, <2>3 DEF LastIs
<1>. QED BY <1>2, <1>3, <1>4 DEF t

(* No change of an object is lost on its way from the cache to the store:  *)
(* a worker reads the newest state, and a later event about an object      *)
(* replaces an earlier one wherever they meet.                             *)
THEOREM NothingLost == Spec => []NoChangeLost
<1> DEFINE Known(k) == IF \E e \in sending : e.key = k
                       THEN \A e \in sending : e.key = k => e.obj = cache[k]
                       ELSE Settled(k)
<1>1. Init => NoChangeLost
  <2> SUFFICES ASSUME Init, NEW k \in Keys PROVE Settled(k) /\ sending = {}
      BY DEF NoChangeLost
  <2>1. nextBatch = <<>> /\ curBatch = <<>> /\ unapplied = 1 /\ objects[k] = cache[k]
    BY DEF Init, StoreInit, nextBatch, curBatch, curBuf, unapplied
  <2>2. ~Mentions(nextBatch, 1, k) /\ ~Mentions(curBatch, unapplied, k)
    BY <2>1 DEF Mentions
  <2>. QED BY <2>1, <2>2 DEF Init, Settled
<1>2. TypeOK /\ TypeOK' /\ LoopInv /\ OrderInv /\ NoChangeLost /\ [Next]_vars => NoChangeLost'
  <2> SUFFICES ASSUME TypeOK, TypeOK', LoopInv, OrderInv, NoChangeLost, [Next]_vars,
                      ~ctxDone', NEW k \in Keys \ dirty'
               PROVE  Known(k)'
      BY DEF NoChangeLost
  <2>0. k \in Keys /\ (~ctxDone /\ k \notin dirty => Known(k))
    BY DEF NoChangeLost
  <2> DEFINE Same == /\ UNCHANGED <<nextBatch, curBatch, unapplied>>
                     /\ objects'[k] = objects[k] /\ cache'[k] = cache[k]
  <2>1. ASSUME Same PROVE Settled(k)' = Settled(k)
    BY <2>1 DEF Settled, Mentions, LastIs
  <2>2. ASSUME NEW l \in Keys, CacheChange(l) PROVE Known(k)'
    <3>1. k # l /\ k \notin dirty /\ UNCHANGED <<sending, ctxDone>>
      BY <2>2 DEF CacheChange
    <3>2. Same
      BY <2>2, <3>1 DEF CacheChange, storeVars, loopVars, hVars, nextBatch, curBatch, curBuf,
                        unapplied, TypeOK
    <3>. QED BY <2>0, <2>1, <3>1, <3>2
  <2>3. ASSUME NEW l \in Keys, Reconcile(l) PROVE Known(k)'
    <3>1. /\ UNCHANGED ctxDone /\ dirty' = dirty \ {l}
          /\ sending' = sending \cup {[key |-> l, obj |-> cache[l]]}
          /\ cache' = cache
      BY <2>3 DEF Reconcile
    <3>2. Same
      BY <2>3 DEF Reconcile, storeVars, loopVars, hVars, nextBatch, curBatch, curBuf, unapplied
    <3>3. CASE k = l
      <4>1. \A e \in sending : e.key # k
        BY <2>3, <3>3 DEF Reconcile, WorkerIdle
      <4>2. \A e \in sending' : e.key = k => e.obj = cache'[k]
        BY <3>1, <3>3, <4>1
      <4>3. [key |-> l, obj |-> cache[l]] \in sending' /\ [key |-> l, obj |-> cache[l]].key = k
        BY <3>1, <3>3
      <4>. QED BY <4>2, <4>3
    <3>4. CASE k # l
      <4>1. k \notin dirty /\ \A e : e.key = k => (e \in sending' <=> e \in sending)
        BY <3>1, <3>4
      <4>. QED BY <2>0, <2>1, <3>1, <3>2, <4>1
    <3>. QED BY <3>3, <3>4
  <2>4. ASSUME NEW e \in sending, ReceiveEvent(e) PROVE Known(k)'
    <3>1. /\ UNCHANGED <<ctxDone, dirty, objects, cache, curBatch, unapplied>>
          /\ sending' = sending \ {e}
          /\ nextBatch' = Append(nextBatch, e)
      BY <2>4 DEF ReceiveEvent, storeVars, hVars, unapplied, curBatch, curBuf, nextBatch, TypeOK
    <3>2. nextBatch \in Seq(Event) /\ e \in Event
      BY DEF nextBatch, TypeOK
    <3>3. Known(k)
      BY <2>0, <3>1
    <3>4. CASE e.key = k
      <4>1. \A f \in sending' : f.key # k
        BY <3>1, <3>4 DEF OrderInv, OneWorker
      <4>2. e.obj = cache[k]
        BY <3>3, <3>4
      <4>3. Settled(k)'
        BY <3>1, <3>2, <3>4, <4>2, Appended DEF Settled
      <4>. QED BY <4>1, <4>3
    <3>5. CASE e.key # k
      <4>1. \A f : f.key = k => (f \in sending' <=> f \in sending)
        BY <3>1, <3>5
      <4>2. /\ Mentions(nextBatch', 1, k) <=> Mentions(nextBatch, 1, k)
            /\ \A o : LastIs(nextBatch, 1, k, o) => LastIs(nextBatch', 1, k, o)
        BY <3>1, <3>2, <3>5, Appended
      <4>3. Settled(k) => Settled(k)'
        BY <3>1, <4>2 DEF Settled
      <4>. QED BY <3>1, <3>3, <4>1, <4>3
    <3>. QED BY <3>4, <3>5
  <2>5. CASE TimerHandles
    <3>1. hpc = "none"
      BY <2>5 DEF TimerHandles, CanHandle, LoopInv, HandlingExact
    <3>2. /\ UNCHANGED <<ctxDone, dirty, objects, cache, sending>>
          /\ curBatch' = nextBatch /\ nextBatch' = <<>> /\ unapplied' = 1
          /\ unapplied = Len(curBatch) + 1 /\ Len(curBatch) \in Nat
      BY <2>5, <3>1 DEF TimerHandles, swapBatches, handleBatch, storeVars, reconVars, TypeOK,
                  curBatch, nextBatch, curBuf, unapplied
    <3>3. ~Mentions(nextBatch', 1, k) /\ ~Mentions(curBatch, unapplied, k)
      BY <3>2 DEF Mentions
    <3>4. Settled(k) => Settled(k)'
      BY <3>2, <3>3 DEF Settled
    <3>. QED BY <2>0, <3>2, <3>4
  <2>6. CASE UpdateClusterStore
    <3> DEFINE e == curBatch[hidx + 1]
               n == unapplied
    <3>1. /\ hidx \in Nat /\ n = hidx + 1 /\ unapplied' = n + 1 /\ n \in 1..Len(curBatch)
          /\ Len(curBatch) \in Nat
      BY <2>6 DEF UpdateClusterStore, unapplied, TypeOK, curBatch, curBuf
    <3>2. UNCHANGED <<ctxDone, dirty, cache, sending, curBatch, nextBatch>>
      BY <2>6 DEF UpdateClusterStore, reconVars, loopVars, curBatch, nextBatch, curBuf
    <3>3. objects'[k] = IF e.key = k THEN e.obj ELSE objects[k]
      BY <2>6 DEF UpdateClusterStore, upsert, delete, record, TypeOK, StoreTypeOK
    <3> HIDE DEF n
    <3>4. Mentions(curBatch, n, k) <=> e.key = k \/ Mentions(curBatch, n + 1, k)
      <4>1. \A i \in n..Len(curBatch) : i = n \/ i \in (n+1)..Len(curBatch)
        BY <3>1
      <4>2. \A i \in (n+1)..Len(curBatch) : i \in n..Len(curBatch)
        BY <3>1
      <4>3. n \in n..Len(curBatch) /\ curBatch[n] = e
        BY <3>1
      <4>. QED BY <4>1, <4>2, <4>3 DEF Mentions
    <3>5. ASSUME Mentions(curBatch, n + 1, k), LastIs(curBatch, n, k, cache[k])
          PROVE  LastIs(curBatch, n + 1, k, cache[k])
      <4>1. PICK i \in n..Len(curBatch) : /\ curBatch[i].key = k /\ curBatch[i].obj = cache[k]
                                          /\ \A j \in (i+1)..Len(curBatch) : curBatch[j].key # k
        BY <3>5 DEF LastIs
      <4>2. i # n
        BY <3>5, <4>1 DEF Mentions
      <4>3. i \in (n+1)..Len(curBatch)
        BY <3>1, <4>2
      <4>. QED BY <4>1, <4>3 DEF LastIs
    <3>6. ASSUME ~Mentions(curBatch, n + 1, k), LastIs(curBatch, n, k, cache[k])
          PROVE  objects'[k] = cache[k]
      <4>1. PICK i \in n..Len(curBatch) : curBatch[i].key = k /\ curBatch[i].obj = cache[k]
        BY <3>6 DEF LastIs
      <4>2. i = n
        BY <3>1, <3>6, <4>1 DEF Mentions
      <4>. QED BY <3>1, <3>3, <4>1, <4>2
    <3>7. Settled(k) => Settled(k)'
      BY <3>1, <3>2, <3>3, <3>4, <3>5, <3>6 DEF Settled, n
    <3>. QED BY <2>0, <3>2, <3>7
  <2>7. CASE ResetUpdates \/ ProcessBatchEnds \/ HandleRest \/ HandlingDone \/ Drained
    <3>1. UNCHANGED <<ctxDone, dirty, objects, cache, sending, buf, nextBuf>>
      BY <2>7 DEF ResetUpdates, ProcessBatchEnds, HandleRest, HandlingDone, Drained,
                  resetUpdates, storeVars, reconVars, loopVars
    <3>2. UNCHANGED unapplied
      BY <2>7, <3>1 DEF ResetUpdates, ProcessBatchEnds, HandleRest, HandlingDone, Drained,
                        unapplied, curBatch, curBuf, TypeOK
    <3>3. Same
      BY <3>1, <3>2 DEF nextBatch, curBatch, curBuf
    <3>. QED BY <2>0, <2>1, <3>1, <3>3
  <2>8. CASE TimerRestarts \/ LoopCanceled \/ UNCHANGED vars
    <3>1. UNCHANGED <<ctxDone, dirty, objects, cache, sending, buf, nextBuf, hpc, hidx>>
      BY <2>8 DEF TimerRestarts, LoopCanceled, vars, storeVars, reconVars, loopVars, hVars
    <3>2. Same
      BY <3>1 DEF nextBatch, curBatch, curBuf, unapplied
    <3>. QED BY <2>0, <2>1, <3>1, <3>2
  <2>9. ~Cancel /\ \A e \in sending : ~ReconcileCanceled(e)
    BY DEF Cancel, ReconcileCanceled
  <2>. QED BY <2>2, <2>3, <2>4, <2>5, <2>6, <2>7, <2>8, <2>9 DEF Next, Handler
<1>. QED BY <1>1, <1>2, LoopInvHolds, OrderInvHolds, PTL DEF Spec
=============================================================================
