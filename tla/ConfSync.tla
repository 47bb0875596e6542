------------------------------ MODULE ConfSync ------------------------------
(***************************************************************************)
(* From a batch to the running HAProxy.                                    *)
(*                                                                         *)
(* The batch handler (k8s/gate) keeps the wanted configuration in          *)
(* structured and, batch by batch, computes the diffs that lead to it; it  *)
(* sends them on TransferHaproxyConfChannel.  The AppManager (hug/haproxy) *)
(* is another goroutine: it applies each diff to the configuration file in *)
(* a transaction, commits, and reloads HAProxy when the reload manager     *)
(* asks for it.  The reload manager (hug/reload) is a singleton that both  *)
(* goroutines read and write without a lock.                               *)
(*                                                                         *)
(* A section is abstracted to its settings (cfg, its metadata included)    *)
(* and, for a backend, the names of its servers.  A frontend is a section  *)
(* without servers.                                                        *)
(***************************************************************************)
EXTENDS Naturals, Sequences, FiniteSets

CONSTANTS Frontends, Backends,  \* section names
          Cfgs,                 \* the settings a section can have
          Servers,              \* server names
          Startups,             \* configurations HAProxy may be started with
          CertChanges,          \* what a batch can change of certificates
          ChanCap,              \* capacity of TransferHaproxyConfChannel
          MaxCycles,            \* bound: batches in a behaviour
          MaxCalls,             \* bound: changes of sections in a behaviour
          MaxFails,             \* bound: failures of the configuration client
          Overlap               \* may a batch begin before the diffs of the
                                \* one before have been applied?

Names   == Frontends \cup Backends
Section == [cfg : Cfgs, servers : SUBSET Servers]
Absent  == [cfg |-> "absent", servers |-> {}]
Conf    == [Names -> Section \cup {Absent}]

ASSUME ConfAssumption ==
    /\ Frontends \cap Backends = {} /\ IsFiniteSet(Names)
    /\ "absent" \notin Cfgs
    /\ Startups \subseteq Conf
    /\ CertChanges \subseteq {"none", "certs", "crtlists"}
    /\ ChanCap \in Nat \ {0}
    /\ MaxCycles \in Nat /\ MaxCalls \in Nat /\ MaxFails \in Nat
    /\ Overlap \in BOOLEAN

(* An entry of a diff.  Go keeps a pointer: shared says that structured    *)
(* holds the same pointer, so that a write in place reaches the entry.     *)
Entry   == [sec : Section \cup {Absent}, shared : BOOLEAN]
NoEntry == [sec |-> Absent, shared |-> FALSE]

(* HaproxyConfDiffs, by section name.                                      *)
NameDiff == [created : Entry, updated : Entry, deleted : BOOLEAN]
NoDiff   == [created |-> NoEntry, updated |-> NoEntry, deleted |-> FALSE]
Diff     == [sections : [Names -> NameDiff], reloadNeed : BOOLEAN]

NoDiffs == [sections |-> [n \in Names |-> NoDiff], reloadNeed |-> FALSE]

Created(d) == {n \in Names : d.sections[n].created # NoEntry}
Updated(d) == {n \in Names : d.sections[n].updated # NoEntry}
Deleted(d) == {n \in Names : d.sections[n].deleted}
IsEmpty(d) == Created(d) \cup Updated(d) \cup Deleted(d) = {}

VARIABLES
    \* the reload manager
    reload, attempted, failed,
    \* the batch handler
    hpc,          \* where it is in its batch
    structured,   \* Configuration.structured
    diffs,        \* Configuration.diffs
    firstSync,    \* FirstSync.flag
    kept,         \* FirstSync.frontends and FirstSync.backends
    certWork,     \* what changed: nothing, certificates, or whole crt-lists
    todo,         \* backends whose servers are still to be computed
    cycles,       \* batches begun
    budget,       \* changes of sections left
    \* the channel and the AppManager
    chan,         \* TransferHaproxyConfChannel
    apc,          \* where applyCfgUpdates is
    cur,          \* the diffs being applied
    pend,         \* names left in the current loop of applyCfgUpdates
    applyErr,     \* the loop has collected an error
    tx,           \* the configuration in the active transaction
    fails,        \* failures of the configuration client so far
    \* HAProxy
    file,         \* the committed configuration file
    running,      \* what the process serves
    stale         \* batches whose certificates the process does not use yet

reloadMgr == <<reload, attempted, failed>>
hVars     == <<hpc, structured, diffs, firstSync, kept, certWork, todo,
               cycles, budget>>
aVars     == <<apc, cur, pend, applyErr, tx, fails>>
haproxy   == <<file, running, stale>>
vars      == <<reloadMgr, hVars, chan, aVars, haproxy>>

TypeOK ==
    /\ reload \in BOOLEAN /\ attempted \in BOOLEAN /\ failed \in BOOLEAN
    /\ hpc \in {"idle", "tree", "gateways", "certs", "routes",
               "cleanup", "servers", "send"}
    /\ structured \in Conf
    /\ diffs \in Diff
    /\ firstSync \in BOOLEAN
    /\ kept \subseteq Names
    /\ certWork \in {"none", "certs", "crtlists"}
    /\ todo \subseteq Backends
    /\ cycles \in 0..MaxCycles /\ budget \in 0..MaxCalls
    /\ chan \in Seq(Diff) /\ Len(chan) <= ChanCap
    /\ apc \in {"recv", "start", "create", "update", "delete", "commit", "reload"}
    /\ cur \in Diff
    /\ pend \subseteq Names
    /\ applyErr \in BOOLEAN
    /\ tx \in Conf
    /\ fails \in 0..MaxFails
    /\ file \in Conf /\ running \in Conf
    /\ stale \subseteq 1..MaxCycles

(* The controller starts beside a HAProxy that runs the file, and parses   *)
(* the file into structured.                                               *)
Init ==
    /\ reload = FALSE /\ attempted = FALSE /\ failed = FALSE
    /\ hpc = "idle"
    /\ file \in Startups
    /\ structured = file /\ running = file
    /\ diffs = NoDiffs
    /\ firstSync = TRUE
    /\ kept = {} /\ certWork = "none" /\ todo = {}
    /\ cycles = 0 /\ budget = MaxCalls
    /\ chan = <<>>
    /\ apc = "recv"
    /\ cur = NoDiffs
    /\ pend = {}
    /\ applyErr = FALSE
    /\ tx = file
    /\ fails = 0
    /\ stale = {}
-----------------------------------------------------------------------------
(* Configuration: what one call does to one section and its diff.  A cell  *)
(* is the section in structured, its diff, and whether structured holds a  *)
(* new pointer for it.                                                     *)

Cell(n) == [now |-> structured[n], diff |-> diffs.sections[n], fresh |-> FALSE]

Owned(s)  == [sec |-> s, shared |-> FALSE]
Shared(s) == [sec |-> s, shared |-> TRUE]

(* upsertBackend (and upsertFrontend): a changed section gets a new        *)
(* pointer and keeps its servers, the diff a deep copy; a new section is   *)
(* copied once, and structured and the diff share the copy.                *)
upsertBackend(c, cfg) ==
    IF c.now = Absent
    THEN LET s == [cfg |-> cfg, servers |-> {}]
         IN  [now |-> s, fresh |-> TRUE,
              diff |-> [created |-> Shared(s), updated |-> c.diff.updated,
                        deleted |-> c.diff.deleted]]
    ELSE IF c.now.cfg = cfg THEN c
    ELSE LET s == [cfg |-> cfg, servers |-> c.now.servers]
         IN  [now |-> s, fresh |-> TRUE,
              diff |-> [created |-> Owned(c.diff.created.sec), updated |-> Owned(s),
                        deleted |-> c.diff.deleted]]

upsertFrontend(c, cfg) == upsertBackend(c, cfg)

deleteBackend(c) ==
    IF c.now = Absent THEN c
    ELSE [now |-> Absent, fresh |-> TRUE,
          diff |-> [created |-> Owned(c.diff.created.sec),
                    updated |-> Owned(c.diff.updated.sec),
                    deleted |-> TRUE]]

deleteFrontend(c) == deleteBackend(c)

(* What an entry is after a call left its section as in cell c: a write in *)
(* place shows in every entry that shares the pointer, a new pointer ends  *)
(* the sharing.                                                            *)
Through(e, c) == IF ~e.shared THEN e
                 ELSE IF c.fresh THEN Owned(e.sec)
                 ELSE Shared(c.now)

(* upsertBackendMetadata writes through the pointer structured holds, then *)
(* gives the diff a deep copy.                                             *)
upsertBackendMetadata(c, cfg) ==
    IF c.now = Absent THEN c
    ELSE LET s == [cfg |-> cfg, servers |-> c.now.servers]
         IN  [now |-> s, fresh |-> FALSE,
              diff |-> [created |-> Through(c.diff.created, [now |-> s, fresh |-> FALSE]),
                        updated |-> Owned(s),
                        deleted |-> c.diff.deleted]]

(* Diffs that were sent share pointers with structured too.                *)
SeenIn(d, cells) ==
    [sections |-> [n \in Names |->
        [created |-> Through(d.sections[n].created, cells[n]),
         updated |-> Through(d.sections[n].updated, cells[n]),
         deleted |-> d.sections[n].deleted]],
     reloadNeed |-> d.reloadNeed]

(* The calls one batch can make on a section.  A backend of Upserted that  *)
(* is also in Deleted is upserted and deleted by processHTTPRoutes, and    *)
(* once more by processTLSRoutes, which finds the same impacted sets.      *)
None          == [op |-> "none", cfg |-> "absent"]
FrontendCalls == {None, [op |-> "delete", cfg |-> "absent"]}
                   \cup [op : {"upsert"}, cfg : Cfgs]
BackendCalls  == FrontendCalls \cup [op : {"metadata", "upsertAndDelete"}, cfg : Cfgs]

FrontendEffect(c, call) ==
    CASE call.op = "none"   -> c
      [] call.op = "upsert" -> upsertFrontend(c, call.cfg)
      [] call.op = "delete" -> deleteFrontend(c)

BackendEffect(c, call) ==
    CASE call.op = "none"     -> c
      [] call.op = "upsert"   -> upsertBackend(c, call.cfg)
      [] call.op = "metadata" -> upsertBackendMetadata(c, call.cfg)
      [] call.op = "delete"   -> deleteBackend(c)
      [] call.op = "upsertAndDelete" ->
           LET once == deleteBackend(upsertBackend(c, call.cfg))
           IN  deleteBackend(upsertBackend(once, call.cfg))

(* The sections and their diffs become those of cells.                     *)
Store(cells, reloadNeed) ==
    /\ structured' = [n \in Names |-> cells[n].now]
    /\ diffs' = [sections |-> [n \in Names |-> cells[n].diff],
                 reloadNeed |-> reloadNeed]
    /\ chan' = [i \in DOMAIN chan |-> SeenIn(chan[i], cells)]
    /\ cur' = SeenIn(cur, cells)

(* One phase of a batch: its calls, by section.  The first sync notes the  *)
(* sections that are still wanted.                                         *)
Configure(calls) ==
    LET cells == [n \in Names |-> IF n \notin DOMAIN calls THEN Cell(n)
                                 ELSE IF n \in Frontends THEN FrontendEffect(Cell(n), calls[n])
                                 ELSE BackendEffect(Cell(n), calls[n])]
        used  == {n \in DOMAIN calls : calls[n] # None}
    IN  /\ Cardinality(used) <= budget
        /\ budget' = budget - Cardinality(used)
        /\ Store(cells, diffs.reloadNeed)
        /\ kept' = IF ~firstSync THEN kept
                   ELSE kept \cup {n \in used : calls[n].op \in {"upsert", "metadata"}}
-----------------------------------------------------------------------------
(* The batch handler                                                       *)

(* startBuild resets the reload manager.                                   *)
StartBuild ==
    /\ hpc = "idle" /\ cycles < MaxCycles
    /\ Overlap \/ (chan = <<>> /\ apc = "recv")
    /\ reload' = FALSE /\ attempted' = FALSE /\ failed' = FALSE
    /\ hpc' = "tree"
    /\ cycles' = cycles + 1
    /\ UNCHANGED <<structured, diffs, firstSync, kept, certWork, todo, budget, chan,
                   aVars, haproxy>>

(* The certificate builder writes what changed to disk.                    *)
BuildCertificates ==
    /\ hpc = "tree"
    /\ hpc' = "gateways"
    /\ certWork' \in CertChanges
    /\ stale' = IF certWork' = "none" THEN stale ELSE stale \cup {cycles}
    /\ UNCHANGED <<reloadMgr, structured, diffs, firstSync, kept, todo, cycles,
                   budget, chan, aVars, file, running>>

(* processGateways: a frontend is left alone, upserted or deleted.         *)
ProcessGateways ==
    /\ hpc = "gateways"
    /\ \E calls \in [Frontends -> FrontendCalls] : Configure(calls)
    /\ hpc' = "certs"
    /\ UNCHANGED <<reloadMgr, firstSync, certWork, todo, cycles, apc, pend,
                   applyErr, tx, fails, haproxy>>

(* processCertificates asks for a reload if a crt-list comes or goes.      *)
(* Unless a reload is due anyway it then brings the process up to date     *)
(* through the runtime socket, and asks for a reload if a command fails.   *)
ProcessCertificates ==
    /\ hpc = "certs"
    /\ hpc' = "routes"
    /\ \/ /\ certWork = "none" \/ (certWork = "certs" /\ reload)
          /\ UNCHANGED <<reload, stale>>
       \/ /\ certWork = "certs" /\ ~reload
          /\ stale' = stale \ {cycles}
          /\ UNCHANGED reload
       \/ /\ certWork = "crtlists" \/ (certWork = "certs" /\ ~reload)
          /\ reload' = TRUE
          /\ UNCHANGED stale
    /\ UNCHANGED <<attempted, failed, structured, diffs, firstSync, kept,
                   certWork, todo, cycles, budget, chan, aVars, file, running>>

(* processHTTPRoutes and processTLSRoutes.                                 *)
ProcessBackends ==
    /\ hpc = "routes"
    /\ \E calls \in [Backends -> BackendCalls] : Configure(calls)
    /\ hpc' = "cleanup"
    /\ UNCHANGED <<reloadMgr, firstSync, certWork, todo, cycles, apc, pend,
                   applyErr, tx, fails, haproxy>>

(* ReloadNeed is read.  The first sync then deletes the sections found at  *)
(* startup that no object of the cluster asked for.                        *)
CleanupAfterFirstSync ==
    /\ hpc = "cleanup"
    /\ LET unwanted == IF firstSync THEN Names \ kept ELSE {}
           cells    == [n \in Names |-> IF n \notin unwanted THEN Cell(n)
                                       ELSE IF n \in Frontends THEN deleteFrontend(Cell(n))
                                       ELSE deleteBackend(Cell(n))]
       IN  Store(cells, reload)
    /\ firstSync' = FALSE
    /\ kept' = {}
    /\ todo' = Backends
    /\ hpc' = "servers"
    /\ UNCHANGED <<reloadMgr, certWork, cycles, budget, apc, pend, applyErr, tx,
                   fails, haproxy>>
-----------------------------------------------------------------------------
(* processEndpointSlices                                                   *)

(* A variant of WithServers: the change is not put into the diff.          *)
WithServersUnreported(c, servers) ==
    LET cell == [now |-> [cfg |-> c.now.cfg, servers |-> servers], fresh |-> FALSE]
    IN  [now |-> cell.now, fresh |-> FALSE,
         diff |-> [created |-> Through(c.diff.created, cell),
                   updated |-> Through(c.diff.updated, cell),
                   deleted |-> c.diff.deleted]]

(* upsertBackendWithServers writes the servers through the pointer of      *)
(* structured.  A map is compared with a copy that has nil for an empty    *)
(* map, so an empty set of servers always counts as a change.              *)
WithServers(c, servers) ==
    LET cell == [now |-> [cfg |-> c.now.cfg, servers |-> servers], fresh |-> FALSE]
        same == servers = c.now.servers /\ servers # {}
    IN  [now |-> cell.now, fresh |-> FALSE,
         diff |-> [created |-> Through(c.diff.created, cell),
                   updated |-> IF same THEN Through(c.diff.updated, cell)
                               ELSE Shared(cell.now),
                   deleted |-> c.diff.deleted]]

(* RuntimeSetServerAddrAndState sends the process the commands that set    *)
(* the servers in gone to maintenance.  All of them run, but runRaw looks  *)
(* at the first reply only: that a server is missing may go unnoticed if   *)
(* another one is there.  Or the socket fails after some of the commands.  *)
Without(sec, gone) == [cfg |-> sec.cfg, servers |-> sec.servers \ gone]

SetServerState(n, gone) ==
    LET known == gone \cap running[n].servers
    IN  \/ /\ running' = [running EXCEPT ![n] = Without(running[n], gone)]
           /\ \/ known # gone /\ failed' = TRUE
              \/ (gone = {} \/ known # {}) /\ UNCHANGED failed
        \/ /\ gone # {}
           /\ failed' = TRUE
           /\ \E done \in SUBSET gone :
                running' = [running EXCEPT ![n] = Without(running[n], done)]

(* The servers of backend n are computed again.                            *)
UpsertBackendWithServers(n) ==
    /\ hpc = "servers" /\ n \in todo
    /\ structured[n] # Absent
    /\ budget > 0
    /\ budget' = budget - 1
    /\ todo' = todo \ {n}
    /\ \E servers \in SUBSET Servers :
         LET cells == [m \in Names |-> IF m = n THEN WithServers(Cell(n), servers)
                                      ELSE Cell(m)]
             gone  == structured[n].servers \ servers
         IN  /\ Store(cells, diffs.reloadNeed)
             /\ attempted' = (attempted \/ gone # {})
             /\ SetServerState(n, gone)
    /\ UNCHANGED <<reload, hpc, firstSync, kept, certWork, cycles, apc, pend,
                   applyErr, tx, fails, file, stale>>

(* The other backends are skipped: their service did not change, or it or  *)
(* its endpoints could not be read.                                        *)
EndpointSlicesDone ==
    /\ hpc = "servers"
    /\ todo' = {}
    /\ hpc' = "send"
    /\ UNCHANGED <<reloadMgr, structured, diffs, firstSync, kept, certWork,
                   cycles, budget, chan, aVars, haproxy>>

(* A variant of SendDiffs: a full channel is not waited for.               *)
SendDiffsUnbounded ==
    /\ hpc = "send"
    /\ chan' = IF IsEmpty(diffs) /\ ~diffs.reloadNeed THEN chan ELSE Append(chan, diffs)
    /\ hpc' = "idle"
    /\ diffs' = NoDiffs
    /\ UNCHANGED <<reloadMgr, structured, firstSync, kept, certWork, todo, cycles,
                   budget, aVars, haproxy>>

(* A variant of SendDiffs: ReloadNeed is forgotten when no section changed. *)
SendDiffsNoReload ==
    /\ hpc = "send"
    /\ IF IsEmpty(diffs) THEN UNCHANGED chan
       ELSE Len(chan) < ChanCap /\ chan' = Append(chan, diffs)
    /\ hpc' = "idle"
    /\ diffs' = NoDiffs
    /\ UNCHANGED <<reloadMgr, structured, firstSync, kept, certWork, todo, cycles,
                   budget, aVars, haproxy>>

(* HandleEventBatch sends what there is to send, and blocks while the      *)
(* channel is full.  The diffs then belong to the receiver: the resetDiffs *)
(* of the next batch is anticipated here.                                  *)
SendDiffs ==
    /\ hpc = "send"
    /\ IF IsEmpty(diffs) /\ ~diffs.reloadNeed
       THEN UNCHANGED chan
       ELSE Len(chan) < ChanCap /\ chan' = Append(chan, diffs)
    /\ hpc' = "idle"
    /\ diffs' = NoDiffs
    /\ UNCHANGED <<reloadMgr, structured, firstSync, kept, certWork, todo, cycles,
                   budget, aVars, haproxy>>
-----------------------------------------------------------------------------
(* The AppManager                                                          *)

Receive ==
    /\ apc = "recv" /\ chan # <<>>
    /\ cur' = Head(chan)
    /\ chan' = Tail(chan)
    /\ apc' = "start"
    /\ UNCHANGED <<reloadMgr, hVars, pend, applyErr, tx, fails, haproxy>>

(* confUpdateProcessed drops the transaction id, whatever the outcome.     *)
Dispose == /\ apc' = "recv"
           /\ cur' = NoDiffs
           /\ pend' = {}
           /\ applyErr' = FALSE

(* A call of the configuration client may fail.                            *)
ClientFails == fails < MaxFails /\ fails' = fails + 1

(* A create or an edit of section n that fails at its first call leaves    *)
(* everything alone.  One that fails later has written the section but not *)
(* its servers, and reload has a value of flags.                           *)
FailsOn(n, sec, flags) ==
    /\ ClientFails
    /\ applyErr' = TRUE
    /\ \/ UNCHANGED <<reload, tx>>
       \/ /\ reload' \in flags
          /\ tx' = [tx EXCEPT ![n] = [cfg |-> sec.cfg, servers |-> tx[n].servers]]

(* An edit or a delete of a section that is not there is an error.         *)
IsMissing(n) == tx[n] = Absent /\ applyErr' = TRUE /\ UNCHANGED <<tx, fails>>

(* APIStartTransaction                                                     *)
StartTransaction ==
    /\ apc = "start"
    /\ \/ /\ tx' = file
          /\ apc' = "create"
          /\ pend' = Created(cur)
          /\ UNCHANGED <<cur, applyErr, fails>>
       \/ ClientFails /\ Dispose /\ UNCHANGED tx
    /\ UNCHANGED <<reloadMgr, hVars, chan, haproxy>>

(* FrontendCreate and BackendCreate edit a section that exists already.    *)
Create(n) ==
    /\ apc = "create" /\ n \in pend
    /\ pend' = pend \ {n}
    /\ \/ /\ reload' = TRUE
          /\ tx' = [tx EXCEPT ![n] = cur.sections[n].created.sec]
          /\ UNCHANGED <<applyErr, fails>>
       \/ FailsOn(n, cur.sections[n].created.sec, {TRUE})
    /\ UNCHANGED <<attempted, failed, hVars, chan, apc, cur, haproxy>>

FrontendEdit(n) ==
    /\ apc = "update" /\ n \in pend /\ n \in Frontends
    /\ pend' = pend \ {n}
    /\ \/ /\ tx[n] # Absent
          /\ reload' = TRUE
          /\ tx' = [tx EXCEPT ![n] = cur.sections[n].updated.sec]
          /\ UNCHANGED <<applyErr, fails>>
       \/ tx[n] # Absent /\ FailsOn(n, cur.sections[n].updated.sec, {TRUE})
       \/ IsMissing(n) /\ UNCHANGED reload
    /\ UNCHANGED <<attempted, failed, hVars, chan, apc, cur, haproxy>>

(* A variant of EditNeedsReload: the settings are not compared.            *)
EditNeedsReloadAnyCfg(n) == ~attempted \/ failed

(* A variant of EditNeedsReload: a failed runtime command is forgotten.    *)
EditNeedsReloadNoFailure(n) ==
    tx[n].cfg # cur.sections[n].updated.sec.cfg \/ ~attempted

(* BackendEdit: no reload if only the servers changed and the runtime      *)
(* socket was used with success.                                           *)
EditNeedsReload(n) ==
    \/ tx[n].cfg # cur.sections[n].updated.sec.cfg
    \/ ~attempted
    \/ failed

BackendEdit(n) ==
    /\ apc = "update" /\ n \in pend /\ n \in Backends
    /\ pend' = pend \ {n}
    /\ \/ /\ tx[n] # Absent
          /\ reload' = (reload \/ EditNeedsReload(n))
          /\ tx' = [tx EXCEPT ![n] = cur.sections[n].updated.sec]
          /\ UNCHANGED <<applyErr, fails>>
       \/ /\ tx[n] # Absent
          /\ FailsOn(n, cur.sections[n].updated.sec,
                     {reload, reload \/ EditNeedsReload(n)})
       \/ IsMissing(n) /\ UNCHANGED reload
    /\ UNCHANGED <<attempted, failed, hVars, chan, apc, cur, haproxy>>

(* FrontendDelete and BackendDelete ask for the reload first.              *)
Delete(n) ==
    /\ apc = "delete" /\ n \in pend
    /\ pend' = pend \ {n}
    /\ \/ /\ tx[n] # Absent
          /\ reload' = TRUE
          /\ tx' = [tx EXCEPT ![n] = Absent]
          /\ UNCHANGED <<applyErr, fails>>
       \/ /\ ClientFails
          /\ applyErr' = TRUE
          /\ reload' \in {reload, TRUE}
          /\ UNCHANGED tx
       \/ IsMissing(n) /\ reload' = TRUE
    /\ UNCHANGED <<attempted, failed, hVars, chan, apc, cur, haproxy>>

(* A variant of LoopEnds: deletes come before updates.                     *)
LoopEndsDeleteFirst ==
    /\ apc \in {"create", "update", "delete"} /\ pend = {}
    /\ IF applyErr THEN Dispose
       ELSE /\ apc' = CASE apc = "create" -> "delete"
                        [] apc = "delete" -> "update"
                        [] apc = "update" -> "commit"
            /\ pend' = CASE apc = "create" -> Deleted(cur)
                         [] apc = "delete" -> Updated(cur)
                         [] apc = "update" -> {}
            /\ UNCHANGED <<cur, applyErr>>
    /\ UNCHANGED <<reloadMgr, hVars, chan, tx, fails, haproxy>>

(* A variant of LoopEnds: the errors of a loop are logged only.            *)
LoopEndsLogging ==
    /\ apc \in {"create", "update", "delete"} /\ pend = {}
    /\ apc' = CASE apc = "create" -> "update"
                [] apc = "update" -> "delete"
                [] apc = "delete" -> "commit"
    /\ pend' = CASE apc = "create" -> Updated(cur)
                 [] apc = "update" -> Deleted(cur)
                 [] apc = "delete" -> {}
    /\ UNCHANGED <<reloadMgr, hVars, chan, cur, applyErr, tx, fails, haproxy>>

(* A variant of LoopEnds: an error ends the goroutine.                     *)
LoopEndsStopping ==
    /\ apc \in {"create", "update", "delete"} /\ pend = {} /\ ~applyErr
    /\ apc' = CASE apc = "create" -> "update"
                [] apc = "update" -> "delete"
                [] apc = "delete" -> "commit"
    /\ pend' = CASE apc = "create" -> Updated(cur)
                 [] apc = "update" -> Deleted(cur)
                 [] apc = "delete" -> {}
    /\ UNCHANGED <<reloadMgr, hVars, chan, cur, applyErr, tx, fails, haproxy>>

(* The loops of processCreate, processUpdate and processDelete go on after *)
(* an error; at its end a loop with an error ends applyCfgUpdates.         *)
LoopEnds ==
    /\ apc \in {"create", "update", "delete"} /\ pend = {}
    /\ IF applyErr THEN Dispose
       ELSE /\ apc' = CASE apc = "create" -> "update"
                        [] apc = "update" -> "delete"
                        [] apc = "delete" -> "commit"
            /\ pend' = CASE apc = "create" -> Updated(cur)
                         [] apc = "update" -> Deleted(cur)
                         [] apc = "delete" -> {}
            /\ UNCHANGED <<cur, applyErr>>
    /\ UNCHANGED <<reloadMgr, hVars, chan, tx, fails, haproxy>>

(* APIFinalCommitTransaction                                               *)
Commit ==
    /\ apc = "commit"
    /\ \/ /\ file' = tx
          /\ apc' = "reload"
          /\ UNCHANGED <<cur, pend, applyErr, fails>>
       \/ ClientFails /\ Dispose /\ UNCHANGED file
    /\ UNCHANGED <<reloadMgr, hVars, chan, tx, running, stale>>

(* NeedReload decides.  A reload makes the process read everything again.  *)
Reload ==
    /\ apc = "reload"
    /\ Dispose
    /\ \/ /\ reload
          /\ running' = file
          /\ stale' = {}
          /\ UNCHANGED fails
       \/ reload /\ ClientFails /\ UNCHANGED <<running, stale>>
       \/ ~reload /\ UNCHANGED <<running, stale, fails>>
    /\ UNCHANGED <<reloadMgr, hVars, chan, tx, file>>
-----------------------------------------------------------------------------
HandleBatch ==
    \/ BuildCertificates \/ ProcessGateways \/ ProcessCertificates
    \/ ProcessBackends \/ CleanupAfterFirstSync
    \/ \E n \in Backends : UpsertBackendWithServers(n)
    \/ EndpointSlicesDone \/ SendDiffs

AppManager ==
    \/ Receive \/ StartTransaction \/ LoopEnds \/ Commit \/ Reload
    \/ \E n \in Names : Create(n) \/ FrontendEdit(n) \/ BackendEdit(n) \/ Delete(n)

Next == StartBuild \/ HandleBatch \/ AppManager

Spec == Init /\ [][Next]_vars

(* Both goroutines run: a batch that has begun goes on, and so does the    *)
(* AppManager as long as it has something to do.                           *)
FairSpec == Spec /\ WF_vars(HandleBatch) /\ WF_vars(AppManager)
-----------------------------------------------------------------------------
(* Nothing is on its way to HAProxy.                                       *)
Quiet == hpc = "idle" /\ chan = <<>> /\ apc = "recv"

(* Unless the configuration client fails, the file becomes what the batch  *)
(* handler wants, however batches and applications overlap and although    *)
(* later batches write into diffs that were sent.                          *)
FileConverges == Quiet /\ fails = 0 => file = structured

(* A diff is never rejected because of what the file holds: every edit and *)
(* every delete finds its section, whatever came before in the channel.    *)
NoApplyError == fails = 0 => ~applyErr

(* Everything ends: the handler never waits for ever for room in the       *)
(* channel and every diff is taken, whatever fails on the way.             *)
Settles == <>[]Quiet

Present(conf) == {n \in Names : conf[n] # Absent}

(* A commit writes a whole diff or nothing: the sections of the new file   *)
(* are those of the old one, with all the diff creates and updates and     *)
(* without all it deletes.                                                 *)
CommitIsWholeDiff ==
    [][file' # file =>
         Present(file') = (Present(file) \cup Created(cur) \cup Updated(cur))
                            \ Deleted(cur)]_vars

(* The process has loaded the settings of every committed section.         *)
SettingsLoaded ==
    Quiet /\ fails = 0 =>
      \A n \in Names : running[n].cfg = file[n].cfg

(* A server that left the configuration gets no traffic.                   *)
RemovedServersStop ==
    Quiet /\ fails = 0 => \A n \in Backends : running[n].servers \subseteq file[n].servers

(* A server that was added to the configuration gets traffic.              *)
AddedServersServe ==
    Quiet /\ fails = 0 => \A n \in Backends : file[n].servers \subseteq running[n].servers

(* The process uses the certificates on disk.                              *)
CertificatesLoaded == Quiet /\ fails = 0 => stale = {}
=============================================================================
