------------------------------ MODULE EventLoop ------------------------------
(***************************************************************************)
(* From the informer cache to the cluster store: the reconcilers           *)
(* (k8s/gate/reconciler.go), the event loop that batches their events      *)
(* (k8s/gate/handler/monitor.go) and the part of the batch handler that    *)
(* writes the store (k8s/gate/handler/batch.go).                           *)
(*                                                                         *)
(* Goroutines: one reconciler worker per kind, the loop, and at most one   *)
(* batch handler.  A send on an unbuffered channel and its receive are one *)
(* step.  What follows the store update in HandleEventBatch (tree,         *)
(* configuration, status) is the step HandleRest.                          *)
(***************************************************************************)
EXTENDS ObjectStore, Sequences, FiniteSets

CONSTANT KindOf       \* KindOf[k] is the kind of object k

ASSUME KindAssumption == KindOf \in [Keys -> {KindOf[k] : k \in Keys}]

VARIABLES cache,      \* the informer cache the reconcilers Get from
          dirty,      \* keys waiting in the work queues
          sending,    \* events whose reconciler is blocked on eventCh
          ctxDone,    \* the context has been canceled
          loop,       \* where the loop is: in its select, draining, returned
          timer,      \* the running timer: none, startup or sync period
          isStartup,  \* the package variable of monitor.go
          buf,        \* the two event slices the batches alternate between
          nextBuf,    \* the slice of nextBatch; the other is currentBatch's
          nextID,     \* nextBatch.BatchID; currentBatch has the one before
          handling,   \* EventLoop.handling
          hpc,        \* the handler goroutine: none, reset, store, rest, done
          hidx        \* events of the batch already applied to the store

reconVars == <<cache, dirty, sending>>
loopVars  == <<loop, timer, isStartup, buf, nextBuf, nextID, handling>>
hVars     == <<hpc, hidx>>
vars      == <<storeVars, reconVars, ctxDone, loopVars, hVars>>

Event == [key : Keys, obj : Object]

curBuf    == 1 - nextBuf
curBatch  == buf[curBuf]
nextBatch == buf[nextBuf]

Init ==
    /\ StoreInit
    /\ cache = [k \in Keys |-> Nil]
    /\ dirty = {}
    /\ sending = {}
    /\ ctxDone = FALSE
    /\ loop = "select"
    /\ timer = "none"
    /\ isStartup = TRUE
    /\ buf = [b \in {0, 1} |-> <<>>]
    /\ nextBuf = 1
    /\ nextID = 1
    /\ handling = FALSE
    /\ hpc = "none"
    /\ hidx = 0
-----------------------------------------------------------------------------
(* The cluster and the work queues (external).                             *)

(* An object changes: the informer updates its cache and puts the key into *)
(* the work queue, where a key is present at most once.                    *)
CacheChange(k) ==
    /\ cache[k].ver < MaxVer
    /\ \E live \in BOOLEAN :
         /\ live \/ cache[k].live
         /\ cache' = [cache EXCEPT ![k] = [ver |-> @.ver + 1, live |-> live]]
    /\ dirty' = dirty \cup {k}
    /\ UNCHANGED <<storeVars, sending, ctxDone, loopVars, hVars>>

(* SIGTERM: the context every goroutine selects on is canceled.            *)
Cancel ==
    /\ ~ctxDone
    /\ ctxDone' = TRUE
    /\ UNCHANGED <<storeVars, reconVars, loopVars, hVars>>
-----------------------------------------------------------------------------
(* Reconciler.Reconcile                                                    *)

(* A variant of WorkerIdle: a controller with more than one worker.        *)
ManyWorkers(k) == TRUE

(* A controller runs one worker, so a kind with an event in hand waits.    *)
WorkerIdle(k) == \A e \in sending : KindOf[e.key] # KindOf[k]

(* The worker takes a key, reads the object as it is now, and builds an    *)
(* upsert event, or a delete event if the object is gone.  A Get that      *)
(* fails puts the key back into the queue, which changes nothing here.     *)
Reconcile(k) ==
    /\ k \in dirty
    /\ WorkerIdle(k)
    /\ dirty' = dirty \ {k}
    /\ sending' = sending \cup {[key |-> k, obj |-> cache[k]]}
    /\ UNCHANGED <<storeVars, cache, ctxDone, loopVars, hVars>>

(* The select of Reconcile prefers neither case: once the context is done  *)
(* the event may be dropped.                                               *)
ReconcileCanceled(e) ==
    /\ ctxDone
    /\ e \in sending
    /\ sending' = sending \ {e}
    /\ UNCHANGED <<storeVars, cache, dirty, ctxDone, loopVars, hVars>>
-----------------------------------------------------------------------------
(* EventLoop.Start                                                         *)

(* startTimer, with sleepTime: the first timer of the process runs for the *)
(* startup period, every later one for the sync period.                    *)
startTimer(t) ==
    IF t = "none"
    THEN /\ timer' = IF isStartup THEN "startup" ELSE "sync"
         /\ isStartup' = FALSE
    ELSE /\ timer' = t
         /\ UNCHANGED isStartup

(* A variant of ReceiveEvent: no arrival arms the timer.                   *)
ReceiveEventNoTimer(e) ==
    /\ loop = "select"
    /\ e \in sending
    /\ sending' = sending \ {e}
    /\ buf' = [buf EXCEPT ![nextBuf] = Append(@, e)]
    /\ UNCHANGED <<storeVars, cache, dirty, ctxDone, loop, timer, isStartup, nextBuf,
                   nextID, handling, hVars>>

(* case e := <-el.eventCh                                                  *)
ReceiveEvent(e) ==
    /\ loop = "select"
    /\ e \in sending
    /\ sending' = sending \ {e}
    /\ buf' = [buf EXCEPT ![nextBuf] = Append(@, e)]
    /\ IF nextID = 1 THEN startTimer(timer) ELSE UNCHANGED <<timer, isStartup>>
    /\ UNCHANGED <<storeVars, cache, dirty, ctxDone, loop, nextBuf, nextID,
                   handling, hVars>>

(* A variant of swapBatches: the slice of the batch to handle is emptied.  *)
swapBatchesDropping ==
    /\ buf' = [buf EXCEPT ![nextBuf] = <<>>]
    /\ nextBuf' = curBuf
    /\ nextID' = nextID + 1

(* swapBatches: the batches trade places and nextBatch reuses the slice of *)
(* the batch handled last.                                                 *)
swapBatches ==
    /\ buf' = [buf EXCEPT ![curBuf] = <<>>]
    /\ nextBuf' = curBuf
    /\ nextID' = nextID + 1

(* A variant of handleBatch: the new batch is taken up where the last ended. *)
handleBatchNoRestart ==
    /\ handling' = TRUE
    /\ hpc' = "reset"
    /\ UNCHANGED hidx

(* handleBatch: the flag is set before the handler goroutine starts.       *)
handleBatch ==
    /\ handling' = TRUE
    /\ hpc' = "reset"
    /\ hidx' = 0

CanHandle == ~handling /\ nextBatch # <<>>

(* case <-el.timerC, with a batch to handle and nobody handling one        *)
TimerHandles ==
    /\ loop = "select" /\ timer # "none"
    /\ CanHandle
    /\ timer' = "none"
    /\ swapBatches
    /\ handleBatch
    /\ UNCHANGED <<storeVars, reconVars, ctxDone, loop, isStartup>>

(* case <-el.timerC otherwise                                              *)
TimerRestarts ==
    /\ loop = "select" /\ timer # "none"
    /\ ~CanHandle
    /\ startTimer("none")
    /\ UNCHANGED <<storeVars, reconVars, ctxDone, loop, buf, nextBuf, nextID,
                   handling, hVars>>

(* A variant of HandlingDone: the timer is not started again.              *)
HandlingDoneNoTimer ==
    /\ loop = "select" /\ hpc = "done"
    /\ hpc' = "none"
    /\ handling' = FALSE
    /\ UNCHANGED <<storeVars, reconVars, ctxDone, loop, timer, isStartup, buf,
                   nextBuf, nextID, hidx>>

(* A variant of HandlingDone: the goroutine reports before it has finished. *)
HandlingDoneEarly ==
    /\ loop = "select" /\ hpc # "none" /\ handling
    /\ handling' = FALSE
    /\ startTimer(timer)
    /\ UNCHANGED <<storeVars, reconVars, ctxDone, loop, buf, nextBuf, nextID, hVars>>

(* case <-handlingDone                                                     *)
HandlingDone ==
    /\ loop = "select" /\ hpc = "done"
    /\ hpc' = "none"
    /\ handling' = FALSE
    /\ startTimer(timer)
    /\ UNCHANGED <<storeVars, reconVars, ctxDone, loop, buf, nextBuf, nextID, hidx>>

(* A variant of LoopCanceled: a handler is waited for, running or not.     *)
LoopCanceledWaiting ==
    /\ loop = "select" /\ ctxDone
    /\ timer' = "none"
    /\ loop' = "draining"
    /\ UNCHANGED <<storeVars, reconVars, ctxDone, isStartup, buf, nextBuf, nextID,
                   handling, hVars>>

(* case <-ctx.Done(): the timer is stopped, then a handler is waited for.  *)
LoopCanceled ==
    /\ loop = "select" /\ ctxDone
    /\ timer' = "none"
    /\ loop' = IF handling THEN "draining" ELSE "returned"
    /\ UNCHANGED <<storeVars, reconVars, ctxDone, isStartup, buf, nextBuf, nextID,
                   handling, hVars>>

Drained ==
    /\ loop = "draining" /\ hpc = "done"
    /\ hpc' = "none"
    /\ loop' = "returned"
    /\ UNCHANGED <<storeVars, reconVars, ctxDone, timer, isStartup, buf, nextBuf,
                   nextID, handling, hidx>>
-----------------------------------------------------------------------------
(* HandleEventBatch, in the handler goroutine                              *)

ResetUpdates ==
    /\ hpc = "reset"
    /\ resetUpdates
    /\ hpc' = "store"
    /\ UNCHANGED <<reconVars, ctxDone, loopVars, hidx>>

(* updateClusterStore of the next event: the goroutine reads its slice     *)
(* while the loop goes on appending to the other one.                      *)
UpdateClusterStore ==
    /\ hpc = "store" /\ hidx < Len(curBatch)
    /\ LET e == curBatch[hidx + 1]
       IN  upsert(e.key, e.obj) \/ delete(e.key, e.obj)
    /\ hidx' = hidx + 1
    /\ UNCHANGED <<reconVars, ctxDone, loopVars, hpc>>

ProcessBatchEnds ==
    /\ hpc = "store" /\ hidx = Len(curBatch)
    /\ hpc' = "rest"
    /\ UNCHANGED <<storeVars, reconVars, ctxDone, loopVars, hidx>>

HandleRest ==
    /\ hpc = "rest"
    /\ hpc' = "done"
    /\ UNCHANGED <<storeVars, reconVars, ctxDone, loopVars, hidx>>
-----------------------------------------------------------------------------
Handler == ResetUpdates \/ UpdateClusterStore \/ ProcessBatchEnds \/ HandleRest

Next ==
    \/ \E k \in Keys : CacheChange(k) \/ Reconcile(k)
    \/ \E e \in sending : ReconcileCanceled(e) \/ ReceiveEvent(e)
    \/ Cancel
    \/ TimerHandles \/ TimerRestarts \/ HandlingDone
    \/ LoopCanceled \/ Drained
    \/ Handler

Spec == Init /\ [][Next]_vars

(* Every goroutine that can run eventually does, a running timer fires,    *)
(* and no case of a select is starved for ever.  Nothing makes an object   *)
(* change or the context end.                                              *)
Fairness ==
    /\ \A k \in Keys : SF_vars(Reconcile(k))
    /\ \A k \in Keys : WF_vars(\E e \in sending : e.key = k /\ ReceiveEvent(e))
    /\ WF_vars(TimerHandles)
    /\ WF_vars(HandlingDone)
    /\ WF_vars(LoopCanceled)
    /\ WF_vars(Drained)
    /\ WF_vars(Handler)

FairSpec == Spec /\ Fairness
-----------------------------------------------------------------------------
TypeOK ==
    /\ StoreTypeOK
    /\ cache \in [Keys -> Object]
    /\ dirty \subseteq Keys
    /\ sending \subseteq Event
    /\ ctxDone \in BOOLEAN
    /\ loop \in {"select", "draining", "returned"}
    /\ timer \in {"none", "startup", "sync"}
    /\ isStartup \in BOOLEAN
    /\ buf \in [{0, 1} -> Seq(Event)]
    /\ nextBuf \in {0, 1}
    /\ nextID \in Nat \ {0}
    /\ handling \in BOOLEAN
    /\ hpc \in {"none", "reset", "store", "rest", "done"}
    /\ hidx \in Nat /\ hidx <= Len(curBatch)

(* Events that arrived are never left behind without a timer or a running  *)
(* handler that will lead to them: Start arms the timer on an arrival only *)
(* for batch 1 and relies on the timer and handlingDone cases after that.  *)
NoStuckBatch ==
    loop = "select" /\ nextBatch # <<>> => timer # "none" \/ handling

(* While a handler goroutine runs, the slice it reads keeps its length and *)
(* contents, although nextBatch reuses the slice of the batch before.      *)
BatchIsolation == [][hpc # "none" => buf[curBuf]' = buf[curBuf]]_vars

(* Whether a batch names object k from its nth event on, and what the last *)
(* of these events says of k.                                              *)
Mentions(s, n, k)  == \E i \in n..Len(s) : s[i].key = k
LastIs(s, n, k, o) == \E i \in n..Len(s) :
                        /\ s[i].key = k /\ s[i].obj = o
                        /\ \A j \in (i+1)..Len(s) : s[j].key # k

(* The events of the current batch that the handler has yet to apply begin *)
(* here.                                                                   *)
unapplied == IF hpc \in {"reset", "store"} THEN hidx + 1 ELSE Len(curBatch) + 1

(* Applying everything that is batched would leave object k as in cache.   *)
Settled(k) ==
    IF Mentions(nextBatch, 1, k) THEN LastIs(nextBatch, 1, k, cache[k])
    ELSE IF Mentions(curBatch, unapplied, k) THEN LastIs(curBatch, unapplied, k, cache[k])
    ELSE objects[k] = cache[k]

(* No change of an object is lost between Get and the store: unless its    *)
(* key waits in a queue, the newest state of an object is in a blocked     *)
(* reconciler, or last in a batch, or already in the store.                *)
NoChangeLost ==
    ~ctxDone =>
      \A k \in Keys \ dirty :
        IF \E e \in sending : e.key = k
        THEN \A e \in sending : e.key = k => e.obj = cache[k]
        ELSE Settled(k)

(* The store never goes back to an older state of an object, and so never  *)
(* revives a deleted one: a reconciler that read before a change cannot    *)
(* deliver after one that read behind it.                                  *)
StoreMonotonic == [][\A k \in Keys : objects'[k].ver >= objects[k].ver]_objects

(* Once the objects stop changing the store holds what the cache holds,    *)
(* unless the process is being shut down.                                  *)
Converges == <>[](ctxDone \/ objects = cache)

(* After SIGTERM the loop returns, whatever it was doing.                  *)
ShutdownCompletes == ctxDone ~> loop = "returned"
=============================================================================
