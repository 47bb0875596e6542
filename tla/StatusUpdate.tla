---------------------------- MODULE StatusUpdate ----------------------------
(***************************************************************************)
(* The status updater (k8s/gate/status), which ends every batch: it writes *)
(* the conditions the tree has for the objects the batch touched.          *)
(*                                                                         *)
(* An object is read from the cache of the client, which may be behind the *)
(* API server; a status that differs from the wanted one is written back,  *)
(* a class or a gateway by an update that the server refuses if the copy   *)
(* is not current, a route by a merge patch, which is applied to whatever  *)
(* the server holds.  A write that fails is tried again, Steps times in    *)
(* all.  Other controllers write their own entries into routes meanwhile.  *)
(***************************************************************************)
EXTENDS Naturals, FiniteSets

CONSTANTS Classes, Gateways, HTTPRoutes, TLSRoutes,  \* objects, by kind
          Others,      \* the other controllers that write to routes
          Statuses,    \* what this controller's conditions can be
          MaxBatches,  \* bound: batches
          MaxChanges   \* bound: changes of objects by others

Routes  == HTTPRoutes \cup TLSRoutes
Objects == UNION {Classes, Gateways, Routes}

ASSUME StatusAssumption ==
    /\ \A K, L \in {Classes, Gateways, HTTPRoutes, TLSRoutes} : K = L \/ K \cap L = {}
    /\ MaxBatches \in Nat /\ MaxChanges \in Nat

NoStatus == "no status"
Nobody   == "nobody"
Absent   == [version |-> 0, own |-> NoStatus, others |-> {}]
Unread   == [version |-> 0, own |-> "unread", others |-> {}]

VARIABLES conditions,  \* the conditions of the objects of the tree
          api,         \* the API server: version, own conditions, other controllers
          cache,       \* the client's copy of api
          batches, changes,
          todo,        \* the objects UpdateStatus has not come to
          current,     \* the object it is at
          read,        \* the copy that was read, or Unread
          steps,       \* attempts left for the current object
          stopped,     \* ctx.Done()
          done,        \* history: objects whose last update was reported as a success
          stale        \* history: ... after a copy that was not current

updaterVars == <<todo, current, read, steps, done, stale>>
vars == <<conditions, api, cache, batches, changes, updaterVars, stopped>>

Steps == 4  \* wait.Backoff
-----------------------------------------------------------------------------
(* The end of a batch: UpdateStatus is given the objects the batch         *)
(* upserted, not those it deleted, nor classes that are not managed.       *)
HandleEventBatch ==
    /\ todo = {} /\ current = Nobody /\ ~ stopped
    /\ batches < MaxBatches
    /\ batches' = batches + 1
    /\ \E upserted \in SUBSET Objects : \E unmanaged \in SUBSET (Classes \cap upserted) :
          /\ conditions' \in {f \in [Objects -> Statuses] :
                                \A o \in Objects \ upserted : f[o] = conditions[o]}
          /\ todo' = upserted \ unmanaged
          /\ done' = done \ upserted
          /\ stale' = stale \ upserted
    /\ UNCHANGED <<api, cache, changes, current, read, steps, stopped>>

(* UpdateStatus takes classes, gateways, HTTPRoutes and TLSRoutes in turn. *)
NextInOrder ==
    LET Rest(earlier) == todo \cap UNION earlier = {}
    IN  {o \in todo : /\ o \in Gateways => Rest({Classes})
                      /\ o \in HTTPRoutes => Rest({Classes, Gateways})
                      /\ o \in TLSRoutes => Rest({Classes, Gateways, HTTPRoutes})}

(* It goes on to the next object, or returns if the program stops.         *)
UpdateStatus ==
    /\ current = Nobody /\ todo # {}
    /\ IF stopped THEN todo' = {} /\ UNCHANGED <<current, steps>>
       ELSE \E o \in NextInOrder : todo' = todo \ {o} /\ current' = o /\ steps' = Steps
    /\ UNCHANGED <<conditions, api, cache, batches, changes, read, stopped, done, stale>>

(* The wait.Backoff loop is over.                                          *)
Finish(reported, outdated) ==
    /\ current' = Nobody
    /\ read' = Unread
    /\ done' = IF reported THEN done \cup {current} ELSE done
    /\ stale' = IF outdated THEN stale \cup {current} ELSE stale
    /\ UNCHANGED <<todo, steps>>

(* StatusEqual: of a route only the entries of this controller count       *)
StatusEqual(obj) == obj.own = conditions[current]

(* A variant of SetStatus: the entries of a route are replaced.            *)
SetOnlyStatus(obj) == [obj EXCEPT !.own = conditions[current], !.others = {}]

(* SetStatus: a route keeps the entries of other controllers               *)
SetStatus(obj) == [obj EXCEPT !.own = conditions[current]]

(* An attempt starts: getClusterObj and StatusEqual.  An object the cache  *)
(* has not is taken to be empty; any other error, and the end of the       *)
(* program, ends the attempts.                                             *)
getClusterObj ==
    /\ current # Nobody /\ read = Unread
    /\ UNCHANGED <<conditions, api, cache, batches, changes, stopped>>
    /\ \/ Finish(FALSE, FALSE)
       \/ /\ ~ stopped
          /\ StatusEqual(cache[current])
          /\ Finish(TRUE, cache[current] # api[current])
       \/ /\ ~ stopped
          /\ ~ StatusEqual(cache[current])
          /\ read' = cache[current]
          /\ UNCHANGED <<todo, current, steps, done, stale>>

(* A variant of Accepts: classes and gateways are patched as well.         *)
AcceptsOutdated(o) == api[o] # Absent /\ read # Absent

(* Whether the server applies the write, and what it then holds: an update *)
(* needs the version that was read; a merge patch replaces the entries of  *)
(* a route, all of them, and nothing else.                                 *)
Accepts(o) == /\ api[o] # Absent /\ read # Absent
              /\ o \in Routes \/ api[o].version = read.version

Written(o) == [version |-> api[o].version + 1,
               own |-> SetStatus(read).own, others |-> SetStatus(read).others]

(* TryUpdateStatusFunc and TryPatchStatusFunc, the write.  It may fail for *)
(* any reason; the next attempt reads again, if there is one.              *)
WriteSucceeds ==
    /\ current # Nobody /\ read # Unread
    /\ Accepts(current)
    /\ api' = [api EXCEPT ![current] = Written(current)]
    /\ Finish(TRUE, FALSE)
    /\ UNCHANGED <<conditions, cache, batches, changes, stopped>>

(* Variants of WriteFails: a failure ends the attempts like a success; the *)
(* attempts are not counted.                                               *)
WriteFailureIgnored ==
    /\ current # Nobody /\ read # Unread
    /\ Finish(TRUE, FALSE)
    /\ UNCHANGED <<conditions, api, cache, batches, changes, stopped>>

WriteFailsForever ==
    /\ current # Nobody /\ read # Unread
    /\ read' = Unread
    /\ UNCHANGED <<todo, current, steps, done, stale>>
    /\ UNCHANGED <<conditions, api, cache, batches, changes, stopped>>

WriteFails ==
    /\ current # Nobody /\ read # Unread
    /\ IF steps = 1 \/ stopped THEN Finish(FALSE, FALSE)
       ELSE /\ steps' = steps - 1 /\ read' = Unread
            /\ UNCHANGED <<todo, current, done, stale>>
    /\ UNCHANGED <<conditions, api, cache, batches, changes, stopped>>
-----------------------------------------------------------------------------
(* The rest of the world.  A user deletes or changes an object; another    *)
(* controller adds its entry to a route or takes it away.                  *)
Changed(o) ==
    LET Other(x) == IF x \in api[o].others THEN api[o].others \ {x}
                    ELSE api[o].others \cup {x}
    IN  {Absent} \cup [version : {api[o].version + 1}, own : {api[o].own},
                       others : {api[o].others} \cup
                                {Other(x) : x \in IF o \in Routes THEN Others ELSE {}}]

Change(o) ==
    /\ changes < MaxChanges
    /\ changes' = changes + 1
    /\ api[o] # Absent
    /\ \E new \in Changed(o) :
          /\ api' = [api EXCEPT ![o] = new]
          /\ done' = IF new = Absent THEN done \ {o} ELSE done
    /\ UNCHANGED <<conditions, cache, batches, todo, current, read, steps, stopped, stale>>

(* The cache catches up with the server, on one object.                    *)
CacheSync(o) ==
    /\ cache[o] # api[o]
    /\ cache' = [cache EXCEPT ![o] = api[o]]
    /\ UNCHANGED <<conditions, api, batches, changes, updaterVars, stopped>>

Stop ==
    /\ ~ stopped
    /\ stopped' = TRUE
    /\ UNCHANGED <<conditions, api, cache, batches, changes, updaterVars>>

Init ==
    /\ conditions = [o \in Objects |-> NoStatus]
    /\ api = [o \in Objects |-> [Absent EXCEPT !.version = 1]]
    /\ cache = api
    /\ batches = 0 /\ changes = 0
    /\ todo = {} /\ current = Nobody /\ read = Unread /\ steps = Steps
    /\ stopped = FALSE
    /\ done = {} /\ stale = {}

Updater == UpdateStatus \/ getClusterObj \/ WriteSucceeds \/ WriteFails

Next == \/ HandleEventBatch
        \/ Updater
        \/ \E o \in Objects : Change(o) \/ CacheSync(o)
        \/ Stop

(* The updater runs in the goroutine of the batch.                         *)
Spec == Init /\ [][Next]_vars /\ WF_vars(Updater)
-----------------------------------------------------------------------------
(* If the updater reported a success for an object and did not skip it for *)
(* an outdated copy, the server has the conditions the tree has, however   *)
(* many attempts failed and whatever others wrote to the object.           *)
StatusPublished ==
    \A o \in done \ stale : api[o].own = conditions[o]

(* A write to a route never takes away an entry of another controller that *)
(* was there when the route was read and still is: SetStatus starts from   *)
(* the statuses of other controllers.                                      *)
OthersKept ==
    [][changes' = changes =>
         \A o \in Routes : o = current => read.others \cap api[o].others \subseteq api'[o].others]_vars

(* A class or a gateway is written only from the copy the server has: what *)
(* others changed after the read is not overwritten.                       *)
NothingOverwritten ==
    [][changes' = changes =>
         \A o \in Objects \ Routes : api'[o] # api[o] => o = current /\ read = api[o]]_vars

(* The event loop waits for the updater, so it has to end, even if no      *)
(* write ever succeeds.                                                    *)
UpdateEnds == (todo # {} \/ current # Nobody) ~> (todo = {} /\ current = Nobody)
=============================================================================
