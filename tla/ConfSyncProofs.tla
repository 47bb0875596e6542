--------------------------- MODULE ConfSyncProofs ---------------------------
(***************************************************************************)
(* What ConfSync promises for every set of sections, settings and servers, *)
(* every capacity of the channel and every interleaving of the two         *)
(* goroutines: a commit holds a whole diff, and without failures of the    *)
(* configuration client every diff applies and the file ends as the batch  *)
(* handler wants it.                                                       *)
(***************************************************************************)
EXTENDS ConfSync, FiniteSetTheorems, TLAPS

(* structured holds the pointer of a shared entry: the entry shows what    *)
(* structured has, and there is something.                                 *)
SoundEntry(e, now) == e.shared => e.sec = now /\ e.sec # Absent
SoundDiff(d, conf) ==
    \A n \in Names : /\ SoundEntry(d.sections[n].created, conf[n])
                     /\ SoundEntry(d.sections[n].updated, conf[n])
PointersSound ==
    /\ SoundDiff(diffs, structured)
    /\ SoundDiff(cur, structured)
    /\ \A i \in DOMAIN chan : SoundDiff(chan[i], structured)

(* A batch begins with empty diffs, and no call on a backend precedes      *)
(* ProcessBackends.                                                        *)
DiffsBegin ==
    /\ hpc \in {"idle", "tree", "gateways"} =>
         \A n \in Frontends : diffs.sections[n] = NoDiff
    /\ hpc \in {"idle", "tree", "gateways", "certs", "routes"} =>
         \A n \in Backends : diffs.sections[n] = NoDiff

HandlerInv == TypeOK /\ PointersSound /\ DiffsBegin /\ (hpc # "idle" => cycles # 0)

(* How far a transaction is: its sections are those of the file with what  *)
(* the loops have created, updated and deleted so far.                     *)
Progress ==
    /\ apc = "create" => pend \subseteq Created(cur)
    /\ apc = "update" => pend \subseteq Updated(cur)
    /\ apc = "delete" => pend \subseteq Deleted(cur)
    /\ apc = "commit" => ~applyErr
    /\ ~applyErr =>
        /\ apc = "create" => Present(tx) = Present(file) \cup (Created(cur) \ pend)
        /\ apc = "update" => Present(tx) = Present(file) \cup Created(cur)
                                             \cup (Updated(cur) \ pend)
        /\ apc = "delete" => Present(tx) = (Present(file) \cup Created(cur) \cup Updated(cur))
                                             \ (Deleted(cur) \ pend)
        /\ apc = "commit" => Present(tx) = (Present(file) \cup Created(cur) \cup Updated(cur))
                                             \ Deleted(cur)

(* What a diff does to a set of sections, and whether its edits and        *)
(* deletes find theirs.                                                    *)
After(d, secs) == (secs \cup Created(d) \cup Updated(d)) \ Deleted(d)
Fits(d, secs)  == Updated(d) \cup Deleted(d) \subseteq secs \cup Created(d)

(* The section a name diff leads to.                                       *)
Touched(nd) == nd.created # NoEntry \/ nd.updated # NoEntry \/ nd.deleted
Final(nd)   == IF nd.deleted THEN Absent
               ELSE IF nd.updated # NoEntry THEN nd.updated.sec ELSE nd.created.sec

(* The diff of a cell leads from a configuration that holds the section,   *)
(* or does not, to the cell.                                               *)
Accounts(c, before) ==
    /\ c.now # Absent <=> /\ before \/ c.diff.created # NoEntry \/ c.diff.updated # NoEntry
                          /\ ~c.diff.deleted
    /\ c.diff.updated # NoEntry \/ c.diff.deleted => before \/ c.diff.created # NoEntry
    /\ Touched(c.diff) => Final(c.diff) = c.now

(* The sections along the way, from the file through the diffs that are    *)
(* applied or wait to the batch handler.                                   *)
Path(p) ==
    /\ p \in [0..Len(chan) -> SUBSET Names]
    /\ IF apc \in {"recv", "reload"} THEN p[0] = Present(file)
       ELSE p[0] = After(cur, Present(file)) /\ Fits(cur, Present(file))
    /\ \A i \in 1..Len(chan) : p[i] = After(chan[i], p[i-1]) /\ Fits(chan[i], p[i-1])
    /\ \A n \in Names : Accounts(Cell(n), n \in p[Len(chan)])

PathExists == \E p \in [0..Len(chan) -> SUBSET Names] : Path(p)

(* What the file will hold of a section once cur is applied.               *)
Eventual(n) ==
    IF apc \in {"recv", "reload"} THEN file[n]
    ELSE IF /\ n \in Deleted(cur)
            /\ apc \in {"start", "create", "update"} \/ (apc = "delete" /\ n \in pend)
         THEN Absent
    ELSE IF /\ n \in Updated(cur)
            /\ apc \in {"start", "create"} \/ (apc = "update" /\ n \in pend)
         THEN cur.sections[n].updated.sec
    ELSE IF /\ n \in Created(cur)
            /\ apc = "start" \/ (apc = "create" /\ n \in pend)
         THEN cur.sections[n].created.sec
    ELSE IF apc = "start" THEN file[n] ELSE tx[n]

(* The last that touches a section leads to what the handler wants.        *)
LastIn(n, i) ==
    /\ Touched(chan[i].sections[n])
    /\ Final(chan[i].sections[n]) = structured[n]
    /\ \A j \in 1..Len(chan) : j > i => ~Touched(chan[j].sections[n])
Leads(n) ==
    \/ Touched(diffs.sections[n])
    \/ \E i \in 1..Len(chan) : LastIn(n, i)
    \/ /\ \A i \in 1..Len(chan) : ~Touched(chan[i].sections[n])
       /\ Eventual(n) = structured[n]

SyncInv == fails = 0 => ~applyErr /\ PathExists /\ \A n \in Names : Leads(n)
-----------------------------------------------------------------------------
(* Cells and entries.                                                      *)

Sec   == Section \cup {Absent}
Cells == [now : Sec, diff : NameDiff, fresh : BOOLEAN]

CellOK(c) == /\ c \in Cells
             /\ SoundEntry(c.diff.created, c.now)
             /\ SoundEntry(c.diff.updated, c.now)

(* A call turns c into d: only a new pointer lets a section disappear.     *)
Turns(c, d) == CellOK(d) /\ (~d.fresh => (c.now = Absent <=> d.now = Absent))

(* From c to d the diff goes on accounting for the section, and no change  *)
(* of the section goes unreported.                                         *)
Carries(c, d) ==
    /\ \A before \in BOOLEAN : Accounts(c, before) => Accounts(d, before)
    /\ c.diff.created # NoEntry => d.diff.created # NoEntry
    /\ c.diff.updated # NoEntry => d.diff.updated # NoEntry
    /\ c.diff.deleted => d.diff.deleted
    /\ d.now # c.now => Touched(d.diff)

(* A section keeps its servers unless it is created or deleted.            *)
KeepsServers(c, d) ==
    d.diff.created # NoEntry \/ d.diff.deleted \/ d.now.servers = c.now.servers

(* What a call may do; the servers change at the end of a batch only.      *)
Legal(c, d) == Turns(c, d) /\ Carries(c, d) /\ (hpc # "servers" => KeepsServers(c, d))

(* A section with settings of Cfgs is there.                               *)
LEMMA SectionsExist ==
    ASSUME NEW cfg \in Cfgs, NEW servers \in SUBSET Servers
    PROVE  /\ [cfg |-> cfg, servers |-> servers] \in Section
           /\ [cfg |-> cfg, servers |-> servers] # Absent
  BY ConfAssumption DEF Section, Absent

(* Names of cells, entries and sections.                                   *)
LEMMA Fields ==
    /\ Absent \in Sec
    /\ Absent.servers = {}
    /\ NoEntry \in Entry /\ NoEntry.sec = Absent /\ NoEntry.shared = FALSE
    /\ \A s \in Sec : s.servers \in SUBSET Servers
    /\ \A s \in Sec : s # Absent => s \in Section /\ s.cfg \in Cfgs
    /\ \A s \in Sec : Owned(s) \in Entry /\ Owned(s).sec = s /\ ~Owned(s).shared
    /\ \A s \in Sec : Shared(s) \in Entry /\ Shared(s).sec = s /\ Shared(s).shared
    /\ \A s \in Sec : Owned(s) = NoEntry <=> s = Absent
    /\ \A s \in Sec : Shared(s) # NoEntry
    /\ \A e \in Entry : e.sec \in Sec /\ e.shared \in BOOLEAN
    /\ \A e \in Entry : e = NoEntry <=> (e.sec = Absent /\ ~e.shared)
    /\ \A e \in Entry : ~e.shared => e = Owned(e.sec)
<1>1. Absent \in Sec /\ Absent.servers = {}
  BY DEF Sec, Absent
<1>2. \A s \in Sec : s.servers \in SUBSET Servers
  BY DEF Sec, Absent, Section
<1>3. \A s \in Sec : s # Absent => s \in Section /\ s.cfg \in Cfgs
  BY DEF Sec, Section
<1>4. NoEntry \in Entry /\ NoEntry.sec = Absent /\ NoEntry.shared = FALSE
  BY <1>1 DEF NoEntry, Entry, Sec
<1>5. \A s \in Sec : /\ Owned(s) \in Entry /\ Owned(s).sec = s /\ ~Owned(s).shared
                     /\ Shared(s) \in Entry /\ Shared(s).sec = s /\ Shared(s).shared
  BY DEF Owned, Shared, Entry, Sec
<1>6. \A s \in Sec : (Owned(s) = NoEntry <=> s = Absent) /\ Shared(s) # NoEntry
  BY <1>4, <1>5 DEF Owned, NoEntry
<1>7. \A e \in Entry : e.sec \in Sec /\ e.shared \in BOOLEAN
  BY DEF Entry, Sec
<1>8. \A e \in Entry : e = [sec |-> e.sec, shared |-> e.shared]
  BY DEF Entry
<1>9. \A e \in Entry : e = NoEntry <=> (e.sec = Absent /\ ~e.shared)
  BY <1>4, <1>7, <1>8 DEF NoEntry
<1>10. \A e \in Entry : ~e.shared => e = Owned(e.sec)
  BY <1>7, <1>8 DEF Owned
<1> QED
  BY <1>1, <1>2, <1>3, <1>4, <1>5, <1>6, <1>7, <1>9, <1>10

(* A write through a shared pointer leaves an entry sound, and none comes  *)
(* or goes.                                                                *)
LEMMA SeenThrough ==
    ASSUME NEW e \in Entry, NEW now, SoundEntry(e, now),
           NEW d, d.now \in Sec, d.fresh \in BOOLEAN,
           ~d.fresh => (now = Absent <=> d.now = Absent)
    PROVE  /\ Through(e, d) \in Entry
           /\ SoundEntry(Through(e, d), d.now)
           /\ Through(e, d) = NoEntry <=> e = NoEntry
           /\ Through(e, d).sec \in {e.sec, d.now}
           /\ ~d.fresh => (Through(e, d).shared <=> e.shared)
  BY Fields DEF Through, SoundEntry

(* What each call does to a cell.                                          *)
LEMMA CellFields ==
    \A c \in Cells : /\ c.now \in Sec /\ c.diff \in NameDiff /\ c.fresh \in BOOLEAN
                     /\ c.diff.created \in Entry /\ c.diff.updated \in Entry
                     /\ c.diff.deleted \in BOOLEAN
  BY DEF Cells, NameDiff

LEMMA UpsertTurns ==
    ASSUME NEW c, CellOK(c), NEW cfg \in Cfgs
    PROVE  Turns(c, upsertBackend(c, cfg)) /\ upsertBackend(c, cfg).now # Absent
<1> DEFINE d == upsertBackend(c, cfg)
<1>1. c \in Cells /\ c.now \in Sec
  BY CellFields DEF CellOK
<1>2. CASE c.now = Absent
  <2> DEFINE s == [cfg |-> cfg, servers |-> {}]
  <2>1. s \in Sec /\ s # Absent
    BY SectionsExist DEF Sec
  <2>2. d = [now |-> s, fresh |-> TRUE,
             diff |-> [created |-> Shared(s), updated |-> c.diff.updated,
                       deleted |-> c.diff.deleted]]
    BY <1>2 DEF upsertBackend
  <2> HIDE DEF s, d
  <2>3. Shared(s) \in Entry /\ Shared(s).sec = s
    BY <2>1, Fields
  <2>4. /\ d \in Cells /\ d.now = s /\ d.fresh
        /\ d.diff.created = Shared(s) /\ d.diff.updated = c.diff.updated
    BY <1>1, <2>1, <2>2, <2>3, CellFields DEF Cells, NameDiff
  <2>5. CellOK(d)
    BY <1>2, <2>1, <2>3, <2>4, Fields, CellFields DEF CellOK, SoundEntry
  <2> QED
    BY <2>1, <2>4, <2>5 DEF Turns, d
<1>3. CASE c.now # Absent /\ c.now.cfg = cfg
  BY <1>3 DEF Turns, upsertBackend
<1>4. CASE c.now # Absent /\ c.now.cfg # cfg
  <2> DEFINE s == [cfg |-> cfg, servers |-> c.now.servers]
  <2>1. s \in Sec /\ s # Absent
    BY <1>1, SectionsExist, Fields DEF Sec
  <2>2. d = [now |-> s, fresh |-> TRUE,
             diff |-> [created |-> Owned(c.diff.created.sec), updated |-> Owned(s),
                       deleted |-> c.diff.deleted]]
    BY <1>4 DEF upsertBackend
  <2> HIDE DEF s, d
  <2>3. c.diff.created.sec \in Sec
    BY <1>1, Fields, CellFields
  <2>4. /\ Owned(s) \in Entry /\ ~Owned(s).shared
        /\ Owned(c.diff.created.sec) \in Entry /\ ~Owned(c.diff.created.sec).shared
    BY <2>1, <2>3, Fields
  <2>5. /\ d \in Cells /\ d.now = s /\ d.fresh
        /\ d.diff.created = Owned(c.diff.created.sec) /\ d.diff.updated = Owned(s)
    BY <1>1, <2>1, <2>2, <2>4, CellFields DEF Cells, NameDiff
  <2> QED
    BY <2>1, <2>4, <2>5 DEF Turns, CellOK, SoundEntry, d
<1> QED
  BY <1>2, <1>3, <1>4

LEMMA DeleteTurns ==
    ASSUME NEW c, CellOK(c)
    PROVE  /\ Turns(c, deleteBackend(c))
           /\ deleteBackend(c).now = Absent
           /\ c.now # Absent => deleteBackend(c).fresh
<1> DEFINE d == deleteBackend(c)
<1>1. c \in Cells /\ c.now \in Sec
  BY CellFields DEF CellOK
<1>2. CASE c.now = Absent
  BY <1>2 DEF Turns, deleteBackend
<1>3. CASE c.now # Absent
  <2>1. d = [now |-> Absent, fresh |-> TRUE,
             diff |-> [created |-> Owned(c.diff.created.sec),
                       updated |-> Owned(c.diff.updated.sec), deleted |-> TRUE]]
    BY <1>3 DEF deleteBackend
  <2> HIDE DEF d
  <2>2. c.diff.created.sec \in Sec /\ c.diff.updated.sec \in Sec
    BY <1>1, Fields, CellFields
  <2>3. /\ Owned(c.diff.created.sec) \in Entry /\ ~Owned(c.diff.created.sec).shared
        /\ Owned(c.diff.updated.sec) \in Entry /\ ~Owned(c.diff.updated.sec).shared
    BY <2>2, Fields
  <2>4. /\ d \in Cells /\ d.now = Absent /\ d.fresh
        /\ d.diff.created = Owned(c.diff.created.sec)
        /\ d.diff.updated = Owned(c.diff.updated.sec)
    BY <2>1, <2>3, Fields DEF Cells, NameDiff
  <2> QED
    BY <2>3, <2>4 DEF Turns, CellOK, SoundEntry, d
<1> QED
  BY <1>2, <1>3

LEMMA WriteTurns ==
    ASSUME NEW c, CellOK(c), NEW s \in Sec, s # Absent, c.now # Absent,
           NEW updated \in Entry, SoundEntry(updated, s),
           NEW d, d = [now |-> s, fresh |-> FALSE,
                       diff |-> [created |-> Through(c.diff.created,
                                                     [now |-> s, fresh |-> FALSE]),
                                 updated |-> updated, deleted |-> c.diff.deleted]]
    PROVE  Turns(c, d)
<1>1. c \in Cells /\ c.diff.created \in Entry /\ c.diff.deleted \in BOOLEAN
  BY CellFields DEF CellOK
<1> DEFINE w == [now |-> s, fresh |-> FALSE]
           t == Through(c.diff.created, w)
<1>2. w.now = s /\ w.fresh = FALSE
  OBVIOUS
<1> HIDE DEF w
<1>3. t \in Entry /\ SoundEntry(t, s)
  BY <1>1, <1>2, SeenThrough DEF CellOK
<1>4. d = [now |-> s, fresh |-> FALSE,
           diff |-> [created |-> t, updated |-> updated, deleted |-> c.diff.deleted]]
  BY DEF w
<1> HIDE DEF t
<1>5. /\ d \in Cells /\ d.now = s /\ ~d.fresh
      /\ d.diff.created = t /\ d.diff.updated = updated
  BY <1>1, <1>3, <1>4 DEF Cells, NameDiff
<1> QED
  BY <1>3, <1>5 DEF Turns, CellOK

LEMMA MetadataTurns ==
    ASSUME NEW c, CellOK(c), NEW cfg \in Cfgs
    PROVE  Turns(c, upsertBackendMetadata(c, cfg))
<1>1. c \in Cells /\ c.now \in Sec
  BY CellFields DEF CellOK
<1>2. CASE c.now = Absent
  BY <1>2 DEF Turns, upsertBackendMetadata
<1>3. CASE c.now # Absent
  <2> DEFINE s == [cfg |-> cfg, servers |-> c.now.servers]
  <2>1. s \in Sec /\ s # Absent
    BY <1>1, SectionsExist, Fields DEF Sec
  <2>2. upsertBackendMetadata(c, cfg) =
          [now |-> s, fresh |-> FALSE,
           diff |-> [created |-> Through(c.diff.created, [now |-> s, fresh |-> FALSE]),
                     updated |-> Owned(s), deleted |-> c.diff.deleted]]
    BY <1>3 DEF upsertBackendMetadata
  <2> HIDE DEF s
  <2>3. Owned(s) \in Entry /\ SoundEntry(Owned(s), s)
    BY <2>1, Fields DEF SoundEntry
  <2> QED
    BY <1>3, <2>1, <2>2, <2>3, WriteTurns
<1> QED
  BY <1>2, <1>3

LEMMA ServersTurn ==
    ASSUME NEW c, CellOK(c), c.now # Absent, NEW servers \in SUBSET Servers
    PROVE  Turns(c, WithServers(c, servers))
<1> DEFINE s    == [cfg |-> c.now.cfg, servers |-> servers]
           w    == [now |-> s, fresh |-> FALSE]
           same == servers = c.now.servers /\ servers # {}
           u    == IF same THEN Through(c.diff.updated, w) ELSE Shared(s)
<1>1. c \in Cells /\ c.now \in Sec /\ c.diff.updated \in Entry
  BY CellFields DEF CellOK
<1>2. s \in Sec /\ s # Absent
  BY <1>1, SectionsExist, Fields DEF Sec
<1>3. w.now = s /\ w.fresh = FALSE
  OBVIOUS
<1>4. WithServers(c, servers) =
        [now |-> s, fresh |-> FALSE,
         diff |-> [created |-> Through(c.diff.created, [now |-> s, fresh |-> FALSE]),
                   updated |-> u, deleted |-> c.diff.deleted]]
  BY DEF WithServers
<1> HIDE DEF s, w, same
<1>5. u \in Entry /\ SoundEntry(u, s)
  <2>1. CASE same
    <3>1. u = Through(c.diff.updated, w)
      BY <2>1
    <3> HIDE DEF u
    <3>2. SoundEntry(c.diff.updated, c.now)
      BY DEF CellOK
    <3> QED
      BY <1>1, <1>2, <1>3, <3>1, <3>2, SeenThrough
  <2>2. CASE ~same
    BY <1>2, <2>2, Fields DEF SoundEntry
  <2> QED
    BY <2>1, <2>2
<1> HIDE DEF u
<1> QED
  BY <1>2, <1>4, <1>5, WriteTurns

LEMMA FrontendTurns ==
    ASSUME NEW c, CellOK(c), NEW call \in FrontendCalls
    PROVE  Turns(c, FrontendEffect(c, call))
<1>1. CASE call = None
  BY <1>1 DEF None, FrontendEffect, Turns
<1>2. CASE call = [op |-> "delete", cfg |-> "absent"]
  BY <1>2, DeleteTurns DEF FrontendEffect, deleteFrontend
<1>3. CASE call \in [op : {"upsert"}, cfg : Cfgs]
  <2>1. call.op = "upsert" /\ call.cfg \in Cfgs
    BY <1>3
  <2> QED
    BY <2>1, UpsertTurns DEF FrontendEffect, upsertFrontend
<1> QED
  BY <1>1, <1>2, <1>3 DEF FrontendCalls

LEMMA BackendTurns ==
    ASSUME NEW c, CellOK(c), NEW call \in BackendCalls
    PROVE  Turns(c, BackendEffect(c, call))
<1>1. CASE call = None
  BY <1>1 DEF None, BackendEffect, Turns
<1>2. CASE call = [op |-> "delete", cfg |-> "absent"]
  BY <1>2, DeleteTurns DEF BackendEffect
<1>3. CASE call \in [op : {"upsert"}, cfg : Cfgs]
  <2>1. call.op = "upsert" /\ call.cfg \in Cfgs
    BY <1>3
  <2> QED
    BY <2>1, UpsertTurns DEF BackendEffect
<1>4. CASE call \in [op : {"metadata", "upsertAndDelete"}, cfg : Cfgs] /\ call.op = "metadata"
  <2>1. call.op = "metadata" /\ call.cfg \in Cfgs
    BY <1>4
  <2> QED
    BY <2>1, MetadataTurns DEF BackendEffect
<1>5. CASE call \in [op : {"metadata", "upsertAndDelete"}, cfg : Cfgs] /\ call.op # "metadata"
  <2>1. call.op = "upsertAndDelete" /\ call.cfg \in Cfgs
    BY <1>5
  <2> DEFINE up1  == upsertBackend(c, call.cfg)
             once == deleteBackend(up1)
             up2  == upsertBackend(once, call.cfg)
  <2>2. BackendEffect(c, call) = deleteBackend(up2)
    BY <2>1 DEF BackendEffect
  <2>3. CellOK(up1)
    BY <2>1, UpsertTurns DEF Turns
  <2> HIDE DEF up1
  <2>4. CellOK(once)
    BY <2>3, DeleteTurns DEF Turns
  <2> HIDE DEF once
  <2>5. CellOK(up2) /\ up2.now # Absent
    BY <2>1, <2>4, UpsertTurns DEF Turns
  <2> HIDE DEF up2
  <2> QED
    BY <2>2, <2>5, DeleteTurns DEF Turns
<1> QED
  BY <1>1, <1>2, <1>3, <1>4, <1>5 DEF FrontendCalls, BackendCalls

LEMMA CellsAreOK ==
    ASSUME TypeOK, PointersSound, NEW n \in Names
    PROVE  /\ CellOK(Cell(n)) /\ Turns(Cell(n), Cell(n))
           /\ Cell(n).now = structured[n] /\ Cell(n).diff = diffs.sections[n]
           /\ ~Cell(n).fresh
<1>1. structured[n] \in Sec /\ diffs.sections[n] \in NameDiff
  BY DEF TypeOK, Conf, Sec, Diff
<1>2. SoundEntry(diffs.sections[n].created, structured[n])
  BY DEF PointersSound, SoundDiff
<1>3. SoundEntry(diffs.sections[n].updated, structured[n])
  BY DEF PointersSound, SoundDiff
<1>4. Cell(n) \in Cells /\ Cell(n).now = structured[n] /\ Cell(n).diff = diffs.sections[n]
      /\ ~Cell(n).fresh
  BY <1>1 DEF Cell, Cells
<1> QED
  BY <1>2, <1>3, <1>4 DEF CellOK, Turns

(* A diff that was sent shows what is written in place; no entry comes or  *)
(* goes, and one that changes shows the section as the handler has it.     *)
LEMMA SeenInSent ==
    ASSUME NEW cells, structured' = [n \in Names |-> cells[n].now],
           \A n \in Names : /\ cells[n].now \in Sec /\ cells[n].fresh \in BOOLEAN
                            /\ ~cells[n].fresh =>
                                 (structured[n] = Absent <=> cells[n].now = Absent),
           NEW d \in Diff, SoundDiff(d, structured)
    PROVE  /\ SeenIn(d, cells) \in Diff
           /\ SoundDiff(SeenIn(d, cells), structured')
           /\ Created(SeenIn(d, cells)) = Created(d)
           /\ Updated(SeenIn(d, cells)) = Updated(d)
           /\ Deleted(SeenIn(d, cells)) = Deleted(d)
           /\ \A n \in Names :
                /\ SeenIn(d, cells).sections[n].created.sec
                     \in {d.sections[n].created.sec, structured'[n]}
                /\ SeenIn(d, cells).sections[n].updated.sec
                     \in {d.sections[n].updated.sec, structured'[n]}
<1> DEFINE s == SeenIn(d, cells)
<1>1. \A n \in Names : /\ d.sections[n].created \in Entry
                       /\ d.sections[n].updated \in Entry
                       /\ d.sections[n].deleted \in BOOLEAN
  BY DEF Diff, NameDiff
<1>2. d.reloadNeed \in BOOLEAN
  BY DEF Diff
<1>3. /\ s.reloadNeed = d.reloadNeed
      /\ s.sections = [n \in Names |-> [created |-> Through(d.sections[n].created, cells[n]),
                                        updated |-> Through(d.sections[n].updated, cells[n]),
                                        deleted |-> d.sections[n].deleted]]
      /\ s = [sections |-> s.sections, reloadNeed |-> s.reloadNeed]
  BY DEF SeenIn
<1> HIDE DEF s
<1>4. \A n \in Names : /\ s.sections[n].created = Through(d.sections[n].created, cells[n])
                       /\ s.sections[n].updated = Through(d.sections[n].updated, cells[n])
                       /\ s.sections[n].deleted = d.sections[n].deleted
  BY <1>3
<1>5. \A n \in Names : SoundEntry(d.sections[n].created, structured[n])
                       /\ SoundEntry(d.sections[n].updated, structured[n])
  BY DEF SoundDiff
<1>6. \A n \in Names :
        /\ s.sections[n].created \in Entry
        /\ SoundEntry(s.sections[n].created, structured'[n])
        /\ s.sections[n].created = NoEntry <=> d.sections[n].created = NoEntry
        /\ s.sections[n].created.sec \in {d.sections[n].created.sec, structured'[n]}
  <2> TAKE n \in Names
  <2> QED
    BY <1>1, <1>4, <1>5, SeenThrough
<1>7. \A n \in Names :
        /\ s.sections[n].updated \in Entry
        /\ SoundEntry(s.sections[n].updated, structured'[n])
        /\ s.sections[n].updated = NoEntry <=> d.sections[n].updated = NoEntry
        /\ s.sections[n].updated.sec \in {d.sections[n].updated.sec, structured'[n]}
  <2> TAKE n \in Names
  <2> QED
    BY <1>1, <1>4, <1>5, SeenThrough
<1>8. s \in Diff
  <2>1. s.sections \in [Names -> NameDiff]
    BY <1>1, <1>3, <1>4, <1>6, <1>7 DEF NameDiff
  <2> QED
    BY <1>2, <1>3, <2>1 DEF Diff
<1>9. SoundDiff(s, structured')
  BY <1>6, <1>7 DEF SoundDiff
<1>10. Created(s) = Created(d) /\ Updated(s) = Updated(d) /\ Deleted(s) = Deleted(d)
  BY <1>4, <1>6, <1>7 DEF Created, Updated, Deleted
<1> QED
  BY <1>6, <1>7, <1>8, <1>9, <1>10 DEF s

(* What a call of Configuration leaves: well-typed state, sound pointers,  *)
(* and diffs on their way that do the same.                                *)
LEMMA StoreKeeps ==
    ASSUME TypeOK, PointersSound, NEW cells, NEW r \in BOOLEAN, Store(cells, r),
           \A n \in Names : Legal(Cell(n), cells[n])
    PROVE  /\ structured' \in Conf /\ diffs' \in Diff /\ cur' \in Diff
           /\ chan' \in Seq(Diff) /\ Len(chan') = Len(chan)
           /\ PointersSound'
           /\ Created(cur') = Created(cur) /\ Updated(cur') = Updated(cur)
           /\ Deleted(cur') = Deleted(cur)
           /\ \A n \in Names :
                /\ cur'.sections[n].created.sec
                     \in {cur.sections[n].created.sec, structured'[n]}
                /\ cur'.sections[n].updated.sec
                     \in {cur.sections[n].updated.sec, structured'[n]}
           /\ \A i \in 1..Len(chan) :
                /\ Created(chan'[i]) = Created(chan[i])
                /\ Updated(chan'[i]) = Updated(chan[i])
                /\ Deleted(chan'[i]) = Deleted(chan[i])
                /\ \A n \in Names :
                     /\ chan'[i].sections[n].created.sec
                          \in {chan[i].sections[n].created.sec, structured'[n]}
                     /\ chan'[i].sections[n].updated.sec
                          \in {chan[i].sections[n].updated.sec, structured'[n]}
<1>1. \A n \in Names :
        /\ cells[n].now \in Sec /\ cells[n].fresh \in BOOLEAN
        /\ ~cells[n].fresh => (structured[n] = Absent <=> cells[n].now = Absent)
  BY CellsAreOK, CellFields DEF Legal, Turns, CellOK
<1>0. \A n \in Names :
        /\ cells[n].diff \in NameDiff
        /\ SoundEntry(cells[n].diff.created, cells[n].now)
        /\ SoundEntry(cells[n].diff.updated, cells[n].now)
  BY CellFields DEF Legal, Turns, CellOK
<1>2. structured' = [n \in Names |-> cells[n].now]
  BY DEF Store
<1>3. diffs'.sections = [n \in Names |-> cells[n].diff] /\ diffs' \in Diff
  BY <1>0 DEF Store, Diff
<1>4. SoundDiff(diffs', structured')
  BY <1>0, <1>2, <1>3 DEF SoundDiff
<1>5. cur' = SeenIn(cur, cells) /\ cur \in Diff /\ SoundDiff(cur, structured)
  BY DEF Store, TypeOK, PointersSound
<1>6. /\ chan' = [i \in DOMAIN chan |-> SeenIn(chan[i], cells)]
      /\ chan \in Seq(Diff) /\ DOMAIN chan = 1..Len(chan) /\ Len(chan) \in Nat
  BY DEF Store, TypeOK
<1>7. \A i \in 1..Len(chan) : /\ chan'[i] = SeenIn(chan[i], cells)
                              /\ chan[i] \in Diff /\ SoundDiff(chan[i], structured)
  BY <1>6 DEF PointersSound
<1>8. /\ cur' \in Diff /\ SoundDiff(cur', structured')
      /\ Created(cur') = Created(cur) /\ Updated(cur') = Updated(cur)
      /\ Deleted(cur') = Deleted(cur)
      /\ \A n \in Names :
           /\ cur'.sections[n].created.sec
                \in {cur.sections[n].created.sec, structured'[n]}
           /\ cur'.sections[n].updated.sec
                \in {cur.sections[n].updated.sec, structured'[n]}
  BY <1>1, <1>2, <1>5, SeenInSent
<1>9. ASSUME NEW i \in 1..Len(chan)
      PROVE  /\ chan'[i] \in Diff /\ SoundDiff(chan'[i], structured')
             /\ Created(chan'[i]) = Created(chan[i])
             /\ Updated(chan'[i]) = Updated(chan[i])
             /\ Deleted(chan'[i]) = Deleted(chan[i])
             /\ \A n \in Names :
                  /\ chan'[i].sections[n].created.sec
                       \in {chan[i].sections[n].created.sec, structured'[n]}
                  /\ chan'[i].sections[n].updated.sec
                       \in {chan[i].sections[n].updated.sec, structured'[n]}
  <2>1. chan'[i] = SeenIn(chan[i], cells) /\ chan[i] \in Diff /\ SoundDiff(chan[i], structured)
    BY <1>7
  <2> DEFINE d == chan[i]
  <2>2. d \in Diff /\ SoundDiff(d, structured)
    BY <2>1
  <2>3. chan'[i] = SeenIn(d, cells)
    BY <2>1
  <2> HIDE DEF d
  <2>4. /\ SeenIn(d, cells) \in Diff /\ SoundDiff(SeenIn(d, cells), structured')
        /\ Created(SeenIn(d, cells)) = Created(d)
        /\ Updated(SeenIn(d, cells)) = Updated(d)
        /\ Deleted(SeenIn(d, cells)) = Deleted(d)
        /\ \A n \in Names :
             /\ SeenIn(d, cells).sections[n].created.sec
                  \in {d.sections[n].created.sec, structured'[n]}
             /\ SeenIn(d, cells).sections[n].updated.sec
                  \in {d.sections[n].updated.sec, structured'[n]}
    BY <1>1, <1>2, <2>2, SeenInSent
  <2> QED
    BY <2>3, <2>4 DEF d
<1>10. chan' \in Seq(Diff) /\ Len(chan') = Len(chan) /\ DOMAIN chan' = 1..Len(chan)
  BY <1>6, <1>9
<1>11. structured' \in Conf
  BY <1>1, <1>2 DEF Conf, Sec
<1>12. PointersSound'
  BY <1>4, <1>8, <1>9, <1>10 DEF PointersSound
<1> QED
  BY <1>3, <1>8, <1>9, <1>10, <1>11, <1>12

-----------------------------------------------------------------------------
(* What the calls of a batch do to the account a diff gives.               *)

LEMMA NothingYet ==
    /\ NoDiff \in NameDiff /\ NoDiff.created = NoEntry /\ NoDiff.updated = NoEntry
    /\ NoDiff.deleted = FALSE
    /\ ~Touched(NoDiff)
  BY Fields DEF NoDiff, NameDiff, Touched

LEMMA UpsertCarries ==
    ASSUME NEW c, CellOK(c), c.diff = NoDiff, NEW cfg \in Cfgs
    PROVE  /\ Carries(c, upsertBackend(c, cfg))
           /\ KeepsServers(c, upsertBackend(c, cfg))
<1> DEFINE d == upsertBackend(c, cfg)
<1>1. c.now \in Sec
  BY CellFields DEF CellOK
<1>2. CASE c.now = Absent
  <2> DEFINE s == [cfg |-> cfg, servers |-> {}]
  <2>1. s \in Sec /\ s # Absent
    BY SectionsExist DEF Sec
  <2>2. /\ d.now = s
        /\ d.diff.created = Shared(s) /\ d.diff.updated = NoEntry /\ d.diff.deleted = FALSE
    BY <1>2, NothingYet DEF upsertBackend
  <2> HIDE DEF s, d
  <2>3. Shared(s) # NoEntry /\ Shared(s).sec = s
    BY <2>1, Fields
  <2>4. Carries(c, d)
    BY <1>2, <2>1, <2>2, <2>3, NothingYet DEF Carries, Accounts, Touched, Final
  <2>5. KeepsServers(c, d)
    BY <2>2, <2>3 DEF KeepsServers
  <2> QED
    BY <2>4, <2>5 DEF d
<1>3. CASE c.now # Absent /\ c.now.cfg = cfg
  BY <1>3 DEF Carries, KeepsServers, upsertBackend
<1>4. CASE c.now # Absent /\ c.now.cfg # cfg
  <2> DEFINE s == [cfg |-> cfg, servers |-> c.now.servers]
  <2>1. s \in Sec /\ s # Absent
    BY <1>1, SectionsExist, Fields DEF Sec
  <2>2. /\ d.now = s /\ d.diff.created = Owned(Absent) /\ d.diff.updated = Owned(s)
        /\ d.diff.deleted = FALSE /\ s.servers = c.now.servers
    BY <1>4, NothingYet, Fields DEF upsertBackend
  <2> HIDE DEF s, d
  <2>3. Owned(Absent) = NoEntry /\ Owned(s) # NoEntry /\ Owned(s).sec = s
    BY <2>1, Fields
  <2>4. \A before \in BOOLEAN : Accounts(c, before) => before
    BY <1>4, NothingYet DEF Accounts
  <2>5. Carries(c, d)
    BY <2>1, <2>2, <2>3, <2>4, NothingYet DEF Carries, Accounts, Touched, Final
  <2>6. KeepsServers(c, d)
    BY <2>2 DEF KeepsServers
  <2> QED
    BY <2>5, <2>6 DEF d
<1> QED
  BY <1>2, <1>3, <1>4

LEMMA MetadataCarries ==
    ASSUME NEW c, CellOK(c), c.diff = NoDiff, NEW cfg \in Cfgs
    PROVE  /\ Carries(c, upsertBackendMetadata(c, cfg))
           /\ KeepsServers(c, upsertBackendMetadata(c, cfg))
<1> DEFINE d == upsertBackendMetadata(c, cfg)
<1>1. c.now \in Sec
  BY CellFields DEF CellOK
<1>2. CASE c.now = Absent
  BY <1>2 DEF Carries, KeepsServers, upsertBackendMetadata
<1>3. CASE c.now # Absent
  <2> DEFINE s == [cfg |-> cfg, servers |-> c.now.servers]
  <2>1. s \in Sec /\ s # Absent
    BY <1>1, SectionsExist, Fields DEF Sec
  <2>2. Through(NoEntry, [now |-> s, fresh |-> FALSE]) = NoEntry
    BY Fields DEF Through
  <2>3. /\ d.now = s /\ d.diff.created = NoEntry /\ d.diff.updated = Owned(s)
        /\ d.diff.deleted = FALSE /\ s.servers = c.now.servers
    BY <1>3, <2>2, NothingYet DEF upsertBackendMetadata
  <2> HIDE DEF s, d
  <2>4. Owned(s) # NoEntry /\ Owned(s).sec = s
    BY <2>1, Fields
  <2>5. \A before \in BOOLEAN : Accounts(c, before) => before
    BY <1>3, NothingYet DEF Accounts
  <2>6. Carries(c, d)
    BY <2>1, <2>3, <2>4, <2>5, NothingYet DEF Carries, Accounts, Touched, Final
  <2>7. KeepsServers(c, d)
    BY <2>3 DEF KeepsServers
  <2> QED
    BY <2>6, <2>7 DEF d
<1> QED
  BY <1>2, <1>3

LEMMA DeleteCarries ==
    ASSUME NEW c, CellOK(c)
    PROVE  /\ Carries(c, deleteBackend(c))
           /\ KeepsServers(c, deleteBackend(c))
<1> DEFINE d == deleteBackend(c)
<1>1. c.now \in Sec /\ c.diff.created \in Entry /\ c.diff.updated \in Entry
  BY CellFields DEF CellOK
<1>2. CASE c.now = Absent
  BY <1>2 DEF Carries, KeepsServers, deleteBackend
<1>3. CASE c.now # Absent
  <2>1. /\ d.now = Absent /\ d.diff.deleted = TRUE
        /\ d.diff.created = Owned(c.diff.created.sec)
        /\ d.diff.updated = Owned(c.diff.updated.sec)
    BY <1>3 DEF deleteBackend
  <2> HIDE DEF d
  <2>2. /\ d.diff.created = NoEntry <=> c.diff.created = NoEntry
        /\ d.diff.updated = NoEntry <=> c.diff.updated = NoEntry
    BY <1>1, <2>1, Fields DEF CellOK, SoundEntry
  <2> QED
    BY <1>3, <2>1, <2>2 DEF Carries, KeepsServers, Accounts, Touched, Final, d
<1> QED
  BY <1>2, <1>3

(* Upserted and deleted, twice: the section is gone, and if the file does  *)
(* not have it the diff creates it first.                                  *)
LEMMA BothCarries ==
    ASSUME NEW c, CellOK(c), c.diff = NoDiff, NEW cfg \in Cfgs,
           NEW once, once = deleteBackend(upsertBackend(c, cfg))
    PROVE  /\ Carries(c, deleteBackend(upsertBackend(once, cfg)))
           /\ KeepsServers(c, deleteBackend(upsertBackend(once, cfg)))
<1> DEFINE s   == [cfg |-> cfg, servers |-> {}]
           up1 == upsertBackend(c, cfg)
           up2 == upsertBackend(once, cfg)
           d   == deleteBackend(up2)
<1>1. s \in Sec /\ s # Absent
  BY SectionsExist DEF Sec
<1>2. CellOK(up1) /\ up1.now # Absent
  BY UpsertTurns DEF Turns
<1>3. CellOK(once) /\ once.now = Absent
  BY <1>2, DeleteTurns DEF Turns
<1>4. once.diff.deleted = TRUE
  BY <1>2 DEF deleteBackend
<1>5. up2.now = s /\ up2.diff.created = Shared(s) /\ up2.diff.deleted = TRUE
  BY <1>3, <1>4 DEF upsertBackend
<1> HIDE DEF s, up1, up2
<1>6. Shared(s).sec = s
  BY <1>1, Fields
<1>7. d.now = Absent /\ d.diff.deleted = TRUE /\ d.diff.created = Owned(s)
  BY <1>1, <1>5, <1>6 DEF deleteBackend
<1> HIDE DEF d
<1>8. d.diff.created # NoEntry
  BY <1>1, <1>7, Fields
<1>9. Carries(c, d)
  BY <1>7, <1>8, NothingYet DEF Carries, Accounts, Touched, Final
<1>10. KeepsServers(c, d)
  BY <1>7 DEF KeepsServers
<1> QED
  BY <1>9, <1>10 DEF d, up2

LEMMA ServersCarry ==
    ASSUME NEW c, CellOK(c), c.now # Absent, NEW servers \in SUBSET Servers
    PROVE  Carries(c, WithServers(c, servers))
<1> DEFINE d    == WithServers(c, servers)
           s    == [cfg |-> c.now.cfg, servers |-> servers]
           w    == [now |-> s, fresh |-> FALSE]
           same == servers = c.now.servers /\ servers # {}
<1>1. c.now \in Sec /\ c.diff.created \in Entry /\ c.diff.updated \in Entry
  BY CellFields DEF CellOK
<1>2. s \in Sec /\ s # Absent
  BY <1>1, SectionsExist, Fields DEF Sec
<1>3. w.now = s /\ w.fresh = FALSE
  OBVIOUS
<1>4. /\ d.now = s /\ d.diff.deleted = c.diff.deleted
      /\ d.diff.created = Through(c.diff.created, w)
      /\ d.diff.updated = IF same THEN Through(c.diff.updated, w) ELSE Shared(s)
  BY DEF WithServers
<1>5. same => s = c.now
  <2>1. c.now = [cfg |-> c.now.cfg, servers |-> c.now.servers]
    BY <1>1, Fields DEF Section
  <2> QED
    BY <2>1
<1>6. CellOK(d) /\ SoundEntry(c.diff.created, c.now) /\ SoundEntry(c.diff.updated, c.now)
  BY ServersTurn DEF Turns, CellOK
<1> HIDE DEF d, s, w, same
<1>7. /\ d.diff.created = NoEntry <=> c.diff.created = NoEntry
      /\ d.diff.created.sec \in {c.diff.created.sec, s}
  BY <1>1, <1>2, <1>3, <1>4, <1>6, Fields DEF Through, SoundEntry
<1>8. CASE same
  <2>1. /\ d.diff.updated = NoEntry <=> c.diff.updated = NoEntry
        /\ d.diff.updated.sec \in {c.diff.updated.sec, s}
    BY <1>1, <1>2, <1>3, <1>4, <1>6, <1>8, Fields DEF Through, SoundEntry
  <2> QED
    BY <1>4, <1>5, <1>7, <1>8, <2>1 DEF Carries, Accounts, Touched, Final, d
<1>9. CASE ~same
  <2>1. d.diff.updated = Shared(s) /\ Shared(s) # NoEntry /\ Shared(s).sec = s
    BY <1>2, <1>4, <1>9, Fields
  <2> QED
    BY <1>2, <1>4, <1>7, <2>1 DEF Carries, Accounts, Touched, Final, d
<1> QED
  BY <1>8, <1>9

(* A step of the handler that writes sections: what it leaves in           *)
(* structured and diffs are legal cells.                                   *)
Stores == \E cells \in [Names -> Cells], r \in BOOLEAN :
            /\ Store(cells, r)
            /\ \A n \in Names : Legal(Cell(n), cells[n])

LEMMA StoresIntro ==
    ASSUME NEW cells, NEW r \in BOOLEAN, Store(cells, r),
           cells = [n \in Names |-> cells[n]],
           \A n \in Names : Legal(Cell(n), cells[n])
    PROVE  Stores
<1>1. \A n \in Names : cells[n] \in Cells
  BY DEF Legal, Turns, CellOK
<1>2. cells \in [Names -> Cells]
  BY <1>1
<1> QED
  BY <1>2 DEF Stores

LEMMA CellStays == \A n \in Names : Carries(Cell(n), Cell(n)) /\ KeepsServers(Cell(n), Cell(n))
  BY DEF Carries, KeepsServers

LEMMA ConfigureStores ==
    ASSUME HandlerInv, NEW calls, Configure(calls),
           \/ hpc = "gateways" /\ calls \in [Frontends -> FrontendCalls]
           \/ hpc = "routes" /\ calls \in [Backends -> BackendCalls]
    PROVE  /\ Stores
           /\ budget' \in 0..MaxCalls /\ kept' \subseteq Names
           /\ \A n \in Names \ DOMAIN calls : diffs'.sections[n] = diffs.sections[n]
<1> DEFINE cells == [n \in Names |-> IF n \notin DOMAIN calls THEN Cell(n)
                                    ELSE IF n \in Frontends THEN FrontendEffect(Cell(n), calls[n])
                                    ELSE BackendEffect(Cell(n), calls[n])]
           used  == {n \in DOMAIN calls : calls[n] # None}
<1>1. TypeOK /\ PointersSound /\ DiffsBegin
  BY DEF HandlerInv
<1>2. DOMAIN calls \subseteq Names /\ used \subseteq Names
  BY DEF Names
<1>3. Cardinality(used) \in Nat
  BY <1>2, ConfAssumption, FS_Subset, FS_CardinalityType
<1>4. /\ Cardinality(used) <= budget
      /\ budget' = budget - Cardinality(used)
      /\ Store(cells, diffs.reloadNeed)
      /\ kept' = IF ~firstSync THEN kept
                 ELSE kept \cup {n \in used : calls[n].op \in {"upsert", "metadata"}}
  BY DEF Configure
<1>5. \A n \in Names : cells[n] = IF n \notin DOMAIN calls THEN Cell(n)
                                  ELSE IF n \in Frontends THEN FrontendEffect(Cell(n), calls[n])
                                  ELSE BackendEffect(Cell(n), calls[n])
  OBVIOUS
<1>6. cells = [n \in Names |-> cells[n]]
  OBVIOUS
<1> HIDE DEF cells
<1>7. ASSUME NEW n \in Names
      PROVE  Legal(Cell(n), cells[n])
  <2>1. CellOK(Cell(n)) /\ Cell(n).diff = diffs.sections[n]
    BY <1>1, CellsAreOK
  <2>2. CASE n \notin DOMAIN calls
    BY <1>1, <1>5, <2>2, CellsAreOK, CellStays DEF Legal
  <2>3. CASE n \in DOMAIN calls /\ n \in Frontends
    <3>1. hpc = "gateways" /\ calls[n] \in FrontendCalls
      BY <2>3, ConfAssumption
    <3>2. cells[n] = FrontendEffect(Cell(n), calls[n])
      BY <1>5, <2>3
    <3>3. Cell(n).diff = NoDiff
      BY <1>1, <2>1, <2>3, <3>1 DEF DiffsBegin
    <3>4. Turns(Cell(n), cells[n])
      BY <2>1, <3>1, <3>2, FrontendTurns
    <3>5. /\ Carries(Cell(n), FrontendEffect(Cell(n), calls[n]))
          /\ KeepsServers(Cell(n), FrontendEffect(Cell(n), calls[n]))
      <4>1. CASE calls[n] = None
        BY <4>1, CellStays DEF None, FrontendEffect
      <4>2. CASE calls[n] = [op |-> "delete", cfg |-> "absent"]
        BY <2>1, <4>2, DeleteCarries DEF FrontendEffect, deleteFrontend
      <4>3. CASE calls[n] \in [op : {"upsert"}, cfg : Cfgs]
        <5>1. calls[n].op = "upsert" /\ calls[n].cfg \in Cfgs
          BY <4>3
        <5> QED
          BY <2>1, <3>3, <5>1, UpsertCarries DEF FrontendEffect, upsertFrontend
      <4> QED
        BY <3>1, <4>1, <4>2, <4>3 DEF FrontendCalls
    <3> QED
      BY <3>2, <3>4, <3>5 DEF Legal
  <2>4. CASE n \in DOMAIN calls /\ n \notin Frontends
    <3>1. hpc = "routes" /\ calls[n] \in BackendCalls /\ n \in Backends
      BY <2>4, ConfAssumption
    <3>2. cells[n] = BackendEffect(Cell(n), calls[n])
      BY <1>5, <2>4
    <3>3. Cell(n).diff = NoDiff
      BY <1>1, <2>1, <3>1 DEF DiffsBegin
    <3>4. Turns(Cell(n), cells[n])
      BY <2>1, <3>1, <3>2, BackendTurns
    <3>5. /\ Carries(Cell(n), BackendEffect(Cell(n), calls[n]))
          /\ KeepsServers(Cell(n), BackendEffect(Cell(n), calls[n]))
      <4>1. CASE calls[n] = None
        BY <4>1, CellStays DEF None, BackendEffect
      <4>2. CASE calls[n] = [op |-> "delete", cfg |-> "absent"]
        BY <2>1, <4>2, DeleteCarries DEF BackendEffect
      <4>3. CASE calls[n] \in [op : {"upsert"}, cfg : Cfgs]
        <5>1. calls[n].op = "upsert" /\ calls[n].cfg \in Cfgs
          BY <4>3
        <5> QED
          BY <2>1, <3>3, <5>1, UpsertCarries DEF BackendEffect
      <4>4. CASE calls[n] \in [op : {"metadata", "upsertAndDelete"}, cfg : Cfgs]
        <5>1. calls[n].op \in {"metadata", "upsertAndDelete"} /\ calls[n].cfg \in Cfgs
          BY <4>4
        <5>2. CASE calls[n].op = "metadata"
          BY <2>1, <3>3, <5>1, <5>2, MetadataCarries DEF BackendEffect
        <5>3. CASE calls[n].op = "upsertAndDelete"
          <6> DEFINE once == deleteBackend(upsertBackend(Cell(n), calls[n].cfg))
          <6>1. BackendEffect(Cell(n), calls[n])
                  = deleteBackend(upsertBackend(once, calls[n].cfg))
            BY <5>3 DEF BackendEffect
          <6>2. /\ Carries(Cell(n), deleteBackend(upsertBackend(once, calls[n].cfg)))
                /\ KeepsServers(Cell(n), deleteBackend(upsertBackend(once, calls[n].cfg)))
            BY <2>1, <3>3, <5>1, BothCarries
          <6> QED
            BY <6>1, <6>2
        <5> QED
          BY <5>1, <5>2, <5>3
      <4> QED
        BY <3>1, <4>1, <4>2, <4>3, <4>4 DEF FrontendCalls, BackendCalls
    <3> QED
      BY <3>2, <3>4, <3>5 DEF Legal
  <2> QED
    BY <2>2, <2>3, <2>4
<1>8. Stores
  <2>1. diffs.reloadNeed \in BOOLEAN
    BY <1>1 DEF TypeOK, Diff
  <2> QED
    BY <1>4, <1>6, <1>7, <2>1, StoresIntro
<1>9. budget' \in 0..MaxCalls /\ kept' \subseteq Names
  BY <1>1, <1>2, <1>3, <1>4, ConfAssumption DEF TypeOK
<1>10. \A n \in Names \ DOMAIN calls : diffs'.sections[n] = diffs.sections[n]
  <2>1. diffs'.sections = [n \in Names |-> cells[n].diff]
    BY <1>4 DEF Store
  <2> QED
    BY <1>1, <1>5, <2>1, CellsAreOK
<1> QED
  BY <1>8, <1>9, <1>10

LEMMA CleanupStores ==
    ASSUME HandlerInv, CleanupAfterFirstSync
    PROVE  Stores
<1> DEFINE unwanted == IF firstSync THEN Names \ kept ELSE {}
           cells    == [n \in Names |-> IF n \notin unwanted THEN Cell(n)
                                       ELSE IF n \in Frontends THEN deleteFrontend(Cell(n))
                                       ELSE deleteBackend(Cell(n))]
<1>1. TypeOK /\ PointersSound /\ reload \in BOOLEAN
  BY DEF HandlerInv, TypeOK
<1>2. Store(cells, reload)
  BY DEF CleanupAfterFirstSync
<1>3. \A n \in Names : cells[n] \in {Cell(n), deleteBackend(Cell(n))}
  BY DEF deleteFrontend
<1>4. cells = [n \in Names |-> cells[n]]
  OBVIOUS
<1> HIDE DEF cells
<1>5. ASSUME NEW n \in Names
      PROVE  Legal(Cell(n), cells[n])
  BY <1>1, <1>3, CellsAreOK, CellStays, DeleteTurns, DeleteCarries DEF Legal
<1> QED
  BY <1>1, <1>2, <1>4, <1>5, StoresIntro

LEMMA UpsertServersStores ==
    ASSUME HandlerInv, NEW n \in Backends, UpsertBackendWithServers(n)
    PROVE  Stores
<1>1. TypeOK /\ PointersSound /\ n \in Names /\ structured[n] # Absent /\ hpc = "servers"
  BY DEF HandlerInv, UpsertBackendWithServers, Names
<1>2. PICK servers \in SUBSET Servers :
        Store([m \in Names |-> IF m = n THEN WithServers(Cell(n), servers) ELSE Cell(m)],
              diffs.reloadNeed)
  BY DEF UpsertBackendWithServers
<1> DEFINE cells == [m \in Names |-> IF m = n THEN WithServers(Cell(n), servers) ELSE Cell(m)]
<1>3. Store(cells, diffs.reloadNeed)
  BY <1>2
<1>4. \A m \in Names : cells[m] = IF m = n THEN WithServers(Cell(n), servers) ELSE Cell(m)
  OBVIOUS
<1>5. cells = [m \in Names |-> cells[m]]
  OBVIOUS
<1> HIDE DEF cells
<1>6. CellOK(Cell(n)) /\ Cell(n).now # Absent
  BY <1>1, CellsAreOK
<1>7. ASSUME NEW m \in Names
      PROVE  Legal(Cell(m), cells[m])
  BY <1>1, <1>4, <1>6, CellsAreOK, CellStays, ServersTurn, ServersCarry DEF Legal
<1>8. diffs.reloadNeed \in BOOLEAN
  BY <1>1 DEF TypeOK, Diff
<1> QED
  BY <1>3, <1>5, <1>7, <1>8, StoresIntro

-----------------------------------------------------------------------------
(* The state is well typed, and pointers are sound.                        *)

LEMMA NothingSent ==
    /\ NoDiffs \in Diff
    /\ \A n \in Names : NoDiffs.sections[n] = NoDiff
    /\ \A conf : SoundDiff(NoDiffs, conf)
<1>1. \A n \in Names : NoDiffs.sections[n] = NoDiff
  BY DEF NoDiffs
<1>2. NoDiffs \in Diff
  BY NothingYet DEF NoDiffs, Diff
<1> QED
  BY <1>1, <1>2, NothingYet, Fields DEF SoundDiff, SoundEntry

LEMMA HandlerStarts == Init => HandlerInv
<1> SUFFICES ASSUME Init PROVE HandlerInv
  OBVIOUS
<1>1. file \in Conf
  BY ConfAssumption DEF Init
<1>2. TypeOK
  <2>1. chan \in Seq(Diff) /\ Len(chan) <= ChanCap
    BY ConfAssumption DEF Init
  <2>2. /\ cycles \in 0..MaxCycles /\ budget \in 0..MaxCalls /\ fails \in 0..MaxFails
    BY ConfAssumption DEF Init
  <2> QED
    BY <1>1, <2>1, <2>2, NothingSent DEF Init, TypeOK
<1>3. PointersSound
  BY NothingSent DEF Init, PointersSound
<1>4. DiffsBegin
  BY NothingSent DEF Init, DiffsBegin, Names
<1> QED
  BY <1>2, <1>3, <1>4 DEF HandlerInv, Init

(* A create or an edit that fails half way leaves a section all the same.  *)
LEMMA FailedSection ==
    ASSUME TypeOK, NEW n \in Names, NEW sec \in Sec, sec # Absent, NEW flags,
           FailsOn(n, sec, flags), flags \subseteq BOOLEAN
    PROVE  /\ tx' \in Conf /\ reload' \in BOOLEAN /\ applyErr' = TRUE
           /\ fails' \in 0..MaxFails /\ fails' # 0
<1>1. tx \in Conf /\ tx[n] \in Sec
  BY DEF TypeOK, Conf, Sec
<1>2. [cfg |-> sec.cfg, servers |-> tx[n].servers] \in Sec
  BY <1>1, Fields, SectionsExist DEF Sec
<1> QED
  BY <1>1, <1>2, ConfAssumption DEF FailsOn, ClientFails, TypeOK, Conf, Sec

(* What Created and Updated name is there to be written.                   *)
LEMMA EntriesExist ==
    ASSUME TypeOK, PointersSound, NEW n \in Names
    PROVE  /\ cur.sections[n].created.sec \in Sec /\ cur.sections[n].updated.sec \in Sec
           /\ n \in Created(cur) <=> cur.sections[n].created.sec # Absent
           /\ n \in Updated(cur) <=> cur.sections[n].updated.sec # Absent
<1>1. cur.sections[n].created \in Entry /\ cur.sections[n].updated \in Entry
  BY DEF TypeOK, Diff, NameDiff
<1>2. /\ SoundEntry(cur.sections[n].created, structured[n])
      /\ SoundEntry(cur.sections[n].updated, structured[n])
  BY DEF PointersSound, SoundDiff
<1> QED
  BY <1>1, <1>2, Fields DEF SoundEntry, Created, Updated

(* The steps of the AppManager that work on the transaction.               *)
LEMMA ApplySteps ==
    ASSUME TypeOK, PointersSound, Progress, NEW n \in Names,
           Create(n) \/ FrontendEdit(n) \/ BackendEdit(n) \/ Delete(n)
    PROVE  /\ tx' \in Conf /\ reload' \in BOOLEAN /\ applyErr' \in BOOLEAN
           /\ fails' \in 0..MaxFails /\ pend' = pend \ {n} /\ n \in pend
<1>0. reload \in BOOLEAN /\ attempted \in BOOLEAN /\ failed \in BOOLEAN
      /\ applyErr \in BOOLEAN /\ fails \in 0..MaxFails /\ tx \in Conf
  BY DEF TypeOK
<1>1. CASE Create(n)
  <2>1. n \in pend /\ pend' = pend \ {n} /\ n \in Created(cur)
    BY <1>1 DEF Create, Progress
  <2>2. cur.sections[n].created.sec \in Sec /\ cur.sections[n].created.sec # Absent
    BY <2>1, EntriesExist
  <2>3. CASE FailsOn(n, cur.sections[n].created.sec, {TRUE})
    BY <2>1, <2>2, <2>3, FailedSection
  <2>4. CASE ~FailsOn(n, cur.sections[n].created.sec, {TRUE})
    BY <1>0, <1>1, <2>1, <2>2, <2>4 DEF Create, Conf, Sec
  <2> QED
    BY <2>3, <2>4
<1>2. CASE FrontendEdit(n)
  <2>1. n \in pend /\ pend' = pend \ {n} /\ n \in Updated(cur)
    BY <1>2 DEF FrontendEdit, Progress
  <2>2. cur.sections[n].updated.sec \in Sec /\ cur.sections[n].updated.sec # Absent
    BY <2>1, EntriesExist
  <2>3. CASE FailsOn(n, cur.sections[n].updated.sec, {TRUE})
    BY <2>1, <2>2, <2>3, FailedSection
  <2>4. CASE ~FailsOn(n, cur.sections[n].updated.sec, {TRUE})
    BY <1>0, <1>2, <2>1, <2>2, <2>4 DEF FrontendEdit, IsMissing, Conf, Sec
  <2> QED
    BY <2>3, <2>4
<1>3. CASE BackendEdit(n)
  <2> DEFINE flags == {reload, reload \/ EditNeedsReload(n)}
  <2>1. n \in pend /\ pend' = pend \ {n} /\ n \in Updated(cur)
    BY <1>3 DEF BackendEdit, Progress
  <2>2. cur.sections[n].updated.sec \in Sec /\ cur.sections[n].updated.sec # Absent
    BY <2>1, EntriesExist
  <2>3. EditNeedsReload(n) \in BOOLEAN
    BY DEF EditNeedsReload
  <2>4. CASE FailsOn(n, cur.sections[n].updated.sec, flags)
    <3>1. flags \subseteq BOOLEAN
      BY <1>0, <2>3
    <3> HIDE DEF flags
    <3> QED
      BY <2>1, <2>2, <2>4, <3>1, FailedSection
  <2>5. CASE ~FailsOn(n, cur.sections[n].updated.sec, flags)
    BY <1>0, <1>3, <2>1, <2>2, <2>3, <2>5 DEF BackendEdit, IsMissing, Conf, Sec
  <2> QED
    BY <2>4, <2>5
<1>4. CASE Delete(n)
  <2>1. n \in pend /\ pend' = pend \ {n}
    BY <1>4 DEF Delete
  <2>2. CASE tx' = [tx EXCEPT ![n] = Absent] /\ reload' = TRUE /\ UNCHANGED <<applyErr, fails>>
    BY <1>0, <2>1, <2>2 DEF Conf
  <2>3. CASE ClientFails /\ applyErr' = TRUE /\ reload' \in {reload, TRUE} /\ UNCHANGED tx
    <3>1. fails' \in 0..MaxFails
      BY <1>0, <2>3, ConfAssumption DEF ClientFails
    <3>2. reload' \in BOOLEAN
      BY <1>0, <2>3, Zenon
    <3> QED
      BY <1>0, <2>1, <2>3, <3>1, <3>2
  <2>4. CASE IsMissing(n) /\ reload' = TRUE
    BY <1>0, <2>1, <2>4 DEF IsMissing
  <2> QED
    BY <1>4, <2>2, <2>3, <2>4 DEF Delete
<1> QED
  BY <1>1, <1>2, <1>3, <1>4

(* What a step that writes sections leaves, and what it does to the diffs  *)
(* on their way.                                                           *)
LEMMA StoresKeep ==
    ASSUME HandlerInv, Stores
    PROVE  /\ structured' \in Conf /\ diffs' \in Diff /\ cur' \in Diff
           /\ chan' \in Seq(Diff) /\ Len(chan') = Len(chan)
           /\ PointersSound'
           /\ Created(cur') = Created(cur) /\ Updated(cur') = Updated(cur)
           /\ Deleted(cur') = Deleted(cur)
<1>1. PICK cells \in [Names -> Cells], r \in BOOLEAN :
        /\ Store(cells, r)
        /\ \A n \in Names : Legal(Cell(n), cells[n])
  BY DEF Stores
<1> QED
  BY <1>1, StoreKeeps DEF HandlerInv

LEMMA HandlerKeeps ==
    ASSUME HandlerInv, HandleBatch \/ StartBuild
    PROVE  HandlerInv'
<1> USE DEF HandlerInv
<1>1. CASE StartBuild
  <2>1. TypeOK'
    <3>1. cycles' \in 0..MaxCycles
      BY <1>1, ConfAssumption DEF StartBuild, TypeOK
    <3> QED
      BY <1>1, <3>1 DEF StartBuild, TypeOK, aVars, haproxy
  <2>2. PointersSound' /\ DiffsBegin'
    BY <1>1 DEF StartBuild, PointersSound, DiffsBegin, aVars
  <2> QED
    BY <1>1, <2>1, <2>2 DEF StartBuild, TypeOK
<1>2. CASE BuildCertificates
  <2>1. stale' \subseteq 1..MaxCycles
    BY <1>2 DEF BuildCertificates, TypeOK
  <2>2. certWork' \in {"none", "certs", "crtlists"}
    BY <1>2, ConfAssumption DEF BuildCertificates
  <2>3. TypeOK'
    BY <1>2, <2>1, <2>2 DEF BuildCertificates, TypeOK, aVars, reloadMgr
  <2>4. PointersSound' /\ DiffsBegin'
    BY <1>2 DEF BuildCertificates, PointersSound, DiffsBegin, aVars
  <2> QED
    BY <1>2, <2>3, <2>4 DEF BuildCertificates
<1>3. CASE ProcessGateways
  <2>1. PICK calls \in [Frontends -> FrontendCalls] : Configure(calls)
    BY <1>3 DEF ProcessGateways
  <2>2. /\ Stores /\ budget' \in 0..MaxCalls /\ kept' \subseteq Names
        /\ \A n \in Names \ Frontends : diffs'.sections[n] = diffs.sections[n]
    BY <1>3, <2>1, ConfigureStores DEF ProcessGateways
  <2>3. /\ structured' \in Conf /\ diffs' \in Diff /\ cur' \in Diff
        /\ chan' \in Seq(Diff) /\ Len(chan') = Len(chan) /\ PointersSound'
    BY <2>2, StoresKeep
  <2>4. TypeOK'
    BY <1>3, <2>2, <2>3 DEF ProcessGateways, TypeOK, reloadMgr, haproxy
  <2>5. DiffsBegin'
    BY <1>3, <2>2, ConfAssumption DEF ProcessGateways, DiffsBegin, Names
  <2> QED
    BY <1>3, <2>3, <2>4, <2>5 DEF ProcessGateways
<1>4. CASE ProcessCertificates
  <2>1. TypeOK'
    <3>1. reload' \in BOOLEAN
      BY <1>4, Zenon DEF ProcessCertificates, TypeOK
    <3>2. stale' \subseteq 1..MaxCycles
      BY <1>4 DEF ProcessCertificates, TypeOK
    <3> QED
      BY <1>4, <3>1, <3>2 DEF ProcessCertificates, TypeOK, aVars
  <2>2. PointersSound' /\ DiffsBegin'
    BY <1>4 DEF ProcessCertificates, PointersSound, DiffsBegin, aVars
  <2> QED
    BY <1>4, <2>1, <2>2 DEF ProcessCertificates
<1>5. CASE ProcessBackends
  <2>1. PICK calls \in [Backends -> BackendCalls] : Configure(calls)
    BY <1>5 DEF ProcessBackends
  <2>2. Stores /\ budget' \in 0..MaxCalls /\ kept' \subseteq Names
    BY <1>5, <2>1, ConfigureStores DEF ProcessBackends
  <2>3. /\ structured' \in Conf /\ diffs' \in Diff /\ cur' \in Diff
        /\ chan' \in Seq(Diff) /\ Len(chan') = Len(chan) /\ PointersSound'
    BY <2>2, StoresKeep
  <2>4. TypeOK'
    BY <1>5, <2>2, <2>3 DEF ProcessBackends, TypeOK, reloadMgr, haproxy
  <2>5. DiffsBegin'
    BY <1>5 DEF ProcessBackends, DiffsBegin
  <2> QED
    BY <1>5, <2>3, <2>4, <2>5 DEF ProcessBackends
<1>6. CASE CleanupAfterFirstSync
  <2>1. Stores
    BY <1>6, CleanupStores
  <2>2. /\ structured' \in Conf /\ diffs' \in Diff /\ cur' \in Diff
        /\ chan' \in Seq(Diff) /\ Len(chan') = Len(chan) /\ PointersSound'
    BY <2>1, StoresKeep
  <2>3. TypeOK'
    BY <1>6, <2>2 DEF CleanupAfterFirstSync, TypeOK, reloadMgr, haproxy
  <2>4. DiffsBegin'
    BY <1>6 DEF CleanupAfterFirstSync, DiffsBegin
  <2> QED
    BY <1>6, <2>2, <2>3, <2>4 DEF CleanupAfterFirstSync
<1>7. ASSUME NEW n \in Backends, UpsertBackendWithServers(n)
      PROVE  HandlerInv'
  <2>1. Stores
    BY <1>7, UpsertServersStores
  <2>2. /\ structured' \in Conf /\ diffs' \in Diff /\ cur' \in Diff
        /\ chan' \in Seq(Diff) /\ Len(chan') = Len(chan) /\ PointersSound'
    BY <2>1, StoresKeep
  <2>3. PICK gone : attempted' = (attempted \/ gone # {}) /\ SetServerState(n, gone)
    BY <1>7 DEF UpsertBackendWithServers
  <2>4. running' \in Conf
    <3>1. running[n] \in Sec
      BY DEF TypeOK, Conf, Sec, Names
    <3>2. ASSUME NEW g PROVE Without(running[n], g) \in Section \cup {Absent}
      <4>1. CASE running[n] = Absent
        <5>1. {} \ g = {}
          OBVIOUS
        <5> QED
          BY <4>1, <5>1 DEF Without, Absent
      <4>2. CASE running[n] \in Section
        BY <4>2 DEF Without, Section
      <4> QED
        BY <3>1, <4>1, <4>2 DEF Sec
    <3> QED
      BY <2>3, <3>2 DEF SetServerState, TypeOK, Conf
  <2>5. attempted' \in BOOLEAN /\ failed' \in BOOLEAN
    BY <2>3, Zenon DEF SetServerState, TypeOK
  <2>6. budget' \in 0..MaxCalls
    BY <1>7, ConfAssumption DEF UpsertBackendWithServers, TypeOK
  <2>7. TypeOK'
    BY <1>7, <2>2, <2>4, <2>5, <2>6 DEF UpsertBackendWithServers, TypeOK
  <2>8. DiffsBegin'
    BY <1>7 DEF UpsertBackendWithServers, DiffsBegin
  <2> QED
    BY <1>7, <2>2, <2>7, <2>8 DEF UpsertBackendWithServers
<1>8. CASE EndpointSlicesDone
  <2>1. TypeOK'
    BY <1>8 DEF EndpointSlicesDone, TypeOK, reloadMgr, aVars, haproxy
  <2>2. PointersSound' /\ DiffsBegin'
    BY <1>8 DEF EndpointSlicesDone, PointersSound, DiffsBegin, aVars
  <2> QED
    BY <1>8, <2>1, <2>2 DEF EndpointSlicesDone
<1>9. CASE SendDiffs
  <2>1. /\ chan' \in Seq(Diff) /\ Len(chan') <= ChanCap
        /\ \A i \in DOMAIN chan' : SoundDiff(chan'[i], structured)
    <3>1. CASE UNCHANGED chan
      BY <3>1 DEF TypeOK, PointersSound
    <3>2. CASE Len(chan) < ChanCap /\ chan' = Append(chan, diffs)
      <4>1. chan \in Seq(Diff) /\ diffs \in Diff /\ Len(chan) \in Nat
        BY DEF TypeOK
      <4>2. chan' \in Seq(Diff) /\ Len(chan') = Len(chan) + 1
        BY <3>2, <4>1
      <4>3. \A i \in 1..Len(chan) + 1 :
              chan'[i] = IF i = Len(chan) + 1 THEN diffs ELSE chan[i]
        BY <3>2, <4>1
      <4>4. \A i \in 1..Len(chan) : SoundDiff(chan[i], structured)
        BY <4>1 DEF PointersSound
      <4>5. SoundDiff(diffs, structured)
        BY DEF PointersSound
      <4>6. \A i \in DOMAIN chan' : SoundDiff(chan'[i], structured)
        BY <4>1, <4>2, <4>3, <4>4, <4>5
      <4> QED
        BY <3>2, <4>1, <4>2, <4>6, ConfAssumption
    <3> QED
      BY <1>9, <3>1, <3>2 DEF SendDiffs
  <2>2. TypeOK'
    BY <1>9, <2>1, NothingSent DEF SendDiffs, TypeOK, reloadMgr, aVars, haproxy
  <2>3. PointersSound'
    BY <1>9, <2>1, NothingSent DEF SendDiffs, PointersSound, aVars
  <2>4. DiffsBegin'
    BY <1>9, NothingSent DEF SendDiffs, DiffsBegin, Names
  <2> QED
    BY <1>9, <2>2, <2>3, <2>4 DEF SendDiffs
<1> QED
  BY <1>1, <1>2, <1>3, <1>4, <1>5, <1>6, <1>7, <1>8, <1>9 DEF HandleBatch

LEMMA ManagerKeeps ==
    ASSUME HandlerInv, Progress, AppManager
    PROVE  HandlerInv'
<1> USE DEF HandlerInv
<1>0. UNCHANGED <<hpc, structured, diffs, firstSync, kept, certWork, todo, cycles, budget,
                  attempted, failed>>
  BY DEF AppManager, Receive, StartTransaction, LoopEnds, Commit, Reload, Create,
         FrontendEdit, BackendEdit, Delete, hVars, reloadMgr
<1>1. DiffsBegin' /\ (hpc # "idle" => cycles # 0)'
  BY <1>0 DEF DiffsBegin
<1>2. TypeOK' /\ PointersSound'
  <2>1. CASE Receive
    <3>1. chan \in Seq(Diff) /\ chan # <<>> /\ Len(chan) \in Nat /\ Len(chan) <= ChanCap
      BY <2>1 DEF Receive, TypeOK
    <3>2. /\ cur' = chan[1] /\ chan' = Tail(chan) /\ chan' \in Seq(Diff)
          /\ Len(chan') = Len(chan) - 1 /\ 1 \in DOMAIN chan
      BY <2>1, <3>1 DEF Receive
    <3>3. \A i \in DOMAIN chan' : chan'[i] = chan[i+1] /\ i+1 \in DOMAIN chan
      BY <3>1, <3>2
    <3>4. cur' \in Diff
      BY <3>1, <3>2
    <3>5. Len(chan') <= ChanCap
      BY <3>1, <3>2, ConfAssumption
    <3>6. TypeOK'
      BY <1>0, <2>1, <3>2, <3>4, <3>5 DEF Receive, TypeOK, reloadMgr, haproxy
    <3>7. PointersSound'
      BY <1>0, <3>2, <3>3 DEF PointersSound
    <3> QED
      BY <3>6, <3>7
  <2>2. CASE StartTransaction
    <3>1. fails' \in 0..MaxFails
      BY <2>2, ConfAssumption DEF StartTransaction, ClientFails, TypeOK
    <3>2. /\ tx' \in Conf /\ pend' \subseteq Names /\ cur' \in {cur, NoDiffs}
          /\ apc' \in {"create", "recv"} /\ applyErr' \in BOOLEAN /\ UNCHANGED chan
          /\ UNCHANGED <<reload, file, running, stale>>
      BY <2>2 DEF StartTransaction, Dispose, TypeOK, Created, reloadMgr, haproxy
    <3>3. TypeOK'
      BY <1>0, <3>1, <3>2, NothingSent DEF TypeOK
    <3>4. PointersSound'
      BY <1>0, <3>2, NothingSent DEF PointersSound
    <3> QED
      BY <3>3, <3>4
  <2>3. CASE LoopEnds
    <3>1. /\ pend' \subseteq Names /\ cur' \in {cur, NoDiffs}
          /\ apc' \in {"update", "delete", "commit", "recv"} /\ applyErr' \in BOOLEAN
          /\ UNCHANGED <<chan, tx, fails, reload, file, running, stale>>
      BY <2>3 DEF LoopEnds, Dispose, TypeOK, Updated, Deleted, reloadMgr, haproxy
    <3>2. TypeOK'
      BY <1>0, <3>1, NothingSent DEF TypeOK
    <3>3. PointersSound'
      BY <1>0, <3>1, NothingSent DEF PointersSound
    <3> QED
      BY <3>2, <3>3
  <2>4. CASE Commit
    <3>1. fails' \in 0..MaxFails
      BY <2>4, ConfAssumption DEF Commit, ClientFails, TypeOK
    <3>2. /\ pend' \subseteq Names /\ cur' \in {cur, NoDiffs} /\ file' \in Conf
          /\ apc' \in {"reload", "recv"} /\ applyErr' \in BOOLEAN
          /\ UNCHANGED <<chan, tx, reload, running, stale>>
      BY <2>4 DEF Commit, Dispose, TypeOK, reloadMgr
    <3>3. TypeOK'
      BY <1>0, <3>1, <3>2, NothingSent DEF TypeOK
    <3>4. PointersSound'
      BY <1>0, <3>2, NothingSent DEF PointersSound
    <3> QED
      BY <3>3, <3>4
  <2>5. CASE Reload
    <3>1. fails' \in 0..MaxFails
      BY <2>5, ConfAssumption DEF Reload, ClientFails, TypeOK
    <3>2. /\ pend' = {} /\ cur' = NoDiffs /\ apc' = "recv" /\ applyErr' = FALSE
          /\ UNCHANGED <<chan, tx, reload, file>>
          /\ running' \in Conf /\ stale' \subseteq 1..MaxCycles
      BY <2>5 DEF Reload, Dispose, TypeOK, reloadMgr
    <3>3. TypeOK'
      BY <1>0, <3>1, <3>2, NothingSent DEF TypeOK
    <3>4. PointersSound'
      BY <1>0, <3>2, NothingSent DEF PointersSound
    <3> QED
      BY <3>3, <3>4
  <2>6. ASSUME NEW n \in Names, Create(n) \/ FrontendEdit(n) \/ BackendEdit(n) \/ Delete(n)
        PROVE  TypeOK' /\ PointersSound'
    <3>1. /\ tx' \in Conf /\ reload' \in BOOLEAN /\ applyErr' \in BOOLEAN
          /\ fails' \in 0..MaxFails /\ pend' = pend \ {n}
      BY <2>6, ApplySteps
    <3>2. UNCHANGED <<chan, apc, cur, file, running, stale>>
      BY <2>6 DEF Create, FrontendEdit, BackendEdit, Delete, haproxy
    <3>3. TypeOK'
      BY <1>0, <3>1, <3>2 DEF TypeOK
    <3>4. PointersSound'
      BY <1>0, <3>2 DEF PointersSound
    <3> QED
      BY <3>3, <3>4
  <2> QED
    BY <2>1, <2>2, <2>3, <2>4, <2>5, <2>6 DEF AppManager
<1> QED
  BY <1>1, <1>2

(* The handler leaves the transaction alone.                               *)
LEMMA HandlerProgress ==
    ASSUME HandlerInv, Progress, HandleBatch \/ StartBuild
    PROVE  /\ Progress' /\ UNCHANGED <<apc, pend, applyErr, tx, fails, file>>
           /\ UNCHANGED cur \/ Stores
<1>1. CASE StartBuild \/ BuildCertificates \/ ProcessCertificates \/ EndpointSlicesDone \/ SendDiffs
  <2>1. UNCHANGED <<apc, cur, pend, applyErr, tx, fails, file>>
    BY <1>1 DEF StartBuild, BuildCertificates, ProcessCertificates, EndpointSlicesDone,
                SendDiffs, aVars, haproxy
  <2> QED
    BY <2>1 DEF Progress, Present, Created, Updated, Deleted
<1>2. CASE ProcessGateways \/ ProcessBackends \/ CleanupAfterFirstSync
              \/ \E n \in Backends : UpsertBackendWithServers(n)
  <2>1. Stores
    BY <1>2, ConfigureStores, CleanupStores, UpsertServersStores
       DEF ProcessGateways, ProcessBackends
  <2>2. UNCHANGED <<apc, pend, applyErr, tx, fails, file>>
    BY <1>2 DEF ProcessGateways, ProcessBackends, CleanupAfterFirstSync,
                UpsertBackendWithServers, haproxy
  <2>3. /\ Created(cur') = Created(cur) /\ Updated(cur') = Updated(cur)
        /\ Deleted(cur') = Deleted(cur)
    BY <2>1, StoresKeep
  <2> QED
    BY <2>1, <2>2, <2>3 DEF Progress, Present
<1> QED
  BY <1>1, <1>2 DEF HandleBatch

LEMMA WriteSection ==
    ASSUME TypeOK, NEW n \in Names, NEW s, tx' = [tx EXCEPT ![n] = s]
    PROVE  /\ s # Absent => Present(tx') = Present(tx) \cup {n}
           /\ s = Absent => Present(tx') = Present(tx) \ {n}
  BY DEF TypeOK, Conf, Present

LEMMA ManagerProgress ==
    ASSUME HandlerInv, Progress, AppManager
    PROVE  Progress'
<1>0. TypeOK /\ PointersSound
  BY DEF HandlerInv
<1>1. CASE Receive
  BY <1>1 DEF Receive, Progress
<1>2. CASE StartTransaction
  <2>1. CASE apc' = "recv"
    BY <2>1 DEF Progress
  <2>2. CASE apc' # "recv"
    <3>1. tx' = file /\ apc' = "create" /\ pend' = Created(cur) /\ UNCHANGED <<cur, file>>
      BY <1>2, <2>2 DEF StartTransaction, Dispose, haproxy
    <3>2. Created(cur') = Created(cur) /\ Present(tx') = Present(file) /\ Present(file') = Present(file)
      BY <3>1
    <3> QED
      BY <3>1, <3>2 DEF Progress
  <2> QED
    BY <2>1, <2>2
<1>3. CASE LoopEnds
  <2>1. CASE applyErr
    BY <1>3, <2>1 DEF LoopEnds, Dispose, Progress
  <2>2. CASE ~applyErr
    <3>1. UNCHANGED <<cur, tx, file, applyErr>> /\ pend = {}
      BY <1>3, <2>2 DEF LoopEnds, haproxy
    <3>2. CASE apc = "create"
      <4>1. apc' = "update" /\ pend' = Updated(cur)
        BY <1>3, <2>2, <3>2 DEF LoopEnds
      <4> QED
        BY <2>2, <3>1, <3>2, <4>1 DEF Progress
    <3>3. CASE apc = "update"
      <4>1. apc' = "delete" /\ pend' = Deleted(cur)
        BY <1>3, <2>2, <3>3 DEF LoopEnds
      <4> QED
        BY <2>2, <3>1, <3>3, <4>1 DEF Progress
    <3>4. CASE apc = "delete"
      <4>1. apc' = "commit"
        BY <1>3, <2>2, <3>4 DEF LoopEnds
      <4> QED
        BY <2>2, <3>1, <3>4, <4>1 DEF Progress
    <3> QED
      BY <1>3, <3>2, <3>3, <3>4 DEF LoopEnds
  <2> QED
    BY <2>1, <2>2
<1>4. CASE Commit
  BY <1>4 DEF Commit, Dispose, Progress
<1>5. CASE Reload
  BY <1>5 DEF Reload, Dispose, Progress
<1>6. ASSUME NEW n \in Names, Create(n)
      PROVE  Progress'
  <2>1. /\ apc = "create" /\ n \in pend /\ pend' = pend \ {n}
        /\ UNCHANGED <<apc, cur, file>>
    BY <1>6 DEF Create, haproxy
  <2>2. n \in Created(cur) /\ cur.sections[n].created.sec # Absent
    BY <1>0, <2>1, EntriesExist DEF Progress
  <2>3. CASE applyErr'
    BY <2>1, <2>3 DEF Progress
  <2>4. CASE ~applyErr'
    <3>1. ~applyErr /\ tx' = [tx EXCEPT ![n] = cur.sections[n].created.sec]
      <4>1. applyErr' = TRUE \/ (applyErr' = applyErr /\ tx' = [tx EXCEPT ![n] = cur.sections[n].created.sec])
        BY <1>6 DEF Create, FailsOn
      <4>2. applyErr \in BOOLEAN
        BY <1>0 DEF TypeOK
      <4> QED
        BY <2>4, <4>1, <4>2
    <3>2. Present(tx') = Present(tx) \cup {n}
      BY <1>0, <2>2, <3>1, WriteSection
    <3>3. Present(tx) = Present(file) \cup (Created(cur) \ pend) /\ pend \subseteq Created(cur)
      BY <2>1, <3>1 DEF Progress
    <3>4. Present(tx') = Present(file) \cup (Created(cur) \ pend')
      BY <2>1, <2>2, <3>2, <3>3
    <3> QED
      BY <2>1, <3>3, <3>4 DEF Progress
  <2> QED
    BY <2>3, <2>4
<1>7. ASSUME NEW n \in Names, FrontendEdit(n) \/ BackendEdit(n)
      PROVE  Progress'
  <2>1. /\ apc = "update" /\ n \in pend /\ pend' = pend \ {n}
        /\ UNCHANGED <<apc, cur, file>>
    BY <1>7 DEF FrontendEdit, BackendEdit, haproxy
  <2>2. n \in Updated(cur) /\ cur.sections[n].updated.sec # Absent
    BY <1>0, <2>1, EntriesExist DEF Progress
  <2>3. CASE applyErr'
    BY <2>1, <2>3 DEF Progress
  <2>4. CASE ~applyErr'
    <3>1. ~applyErr /\ tx' = [tx EXCEPT ![n] = cur.sections[n].updated.sec]
      <4>1. applyErr' = TRUE \/ (applyErr' = applyErr /\ tx' = [tx EXCEPT ![n] = cur.sections[n].updated.sec])
        BY <1>7 DEF FrontendEdit, BackendEdit, FailsOn, IsMissing
      <4>2. applyErr \in BOOLEAN
        BY <1>0 DEF TypeOK
      <4> QED
        BY <2>4, <4>1, <4>2
    <3>2. Present(tx') = Present(tx) \cup {n}
      BY <1>0, <2>2, <3>1, WriteSection
    <3>3. /\ Present(tx) = Present(file) \cup Created(cur) \cup (Updated(cur) \ pend)
          /\ pend \subseteq Updated(cur)
      BY <2>1, <3>1 DEF Progress
    <3>4. Present(tx') = Present(file) \cup Created(cur) \cup (Updated(cur) \ pend')
      BY <2>1, <2>2, <3>2, <3>3
    <3> QED
      BY <2>1, <3>3, <3>4 DEF Progress
  <2> QED
    BY <2>3, <2>4
<1>8. ASSUME NEW n \in Names, Delete(n)
      PROVE  Progress'
  <2>1. /\ apc = "delete" /\ n \in pend /\ pend' = pend \ {n}
        /\ UNCHANGED <<apc, cur, file>>
    BY <1>8 DEF Delete, haproxy
  <2>2. n \in Deleted(cur)
    BY <2>1 DEF Progress
  <2>3. CASE applyErr'
    BY <2>1, <2>3 DEF Progress
  <2>4. CASE ~applyErr'
    <3>1. ~applyErr /\ tx' = [tx EXCEPT ![n] = Absent]
      <4>1. applyErr' = TRUE \/ (applyErr' = applyErr /\ tx' = [tx EXCEPT ![n] = Absent])
        BY <1>8 DEF Delete, IsMissing
      <4>2. applyErr \in BOOLEAN
        BY <1>0 DEF TypeOK
      <4> QED
        BY <2>4, <4>1, <4>2
    <3>2. Present(tx') = Present(tx) \ {n}
      BY <1>0, <3>1, WriteSection
    <3>3. /\ Present(tx) = (Present(file) \cup Created(cur) \cup Updated(cur))
                             \ (Deleted(cur) \ pend)
          /\ pend \subseteq Deleted(cur)
      BY <2>1, <3>1 DEF Progress
    <3>4. Present(tx') = (Present(file) \cup Created(cur) \cup Updated(cur))
                            \ (Deleted(cur) \ pend')
      BY <2>1, <2>2, <3>2, <3>3
    <3> QED
      BY <2>1, <3>3, <3>4 DEF Progress
  <2> QED
    BY <2>3, <2>4
<1> QED
  BY <1>1, <1>2, <1>3, <1>4, <1>5, <1>6, <1>7, <1>8 DEF AppManager

(* A step of either goroutine keeps HandlerInv and Progress.               *)
LEMMA StepKeeps ==
    ASSUME HandlerInv, Progress, [Next]_vars
    PROVE  HandlerInv' /\ Progress'
<1>1. CASE HandleBatch \/ StartBuild
  BY <1>1, HandlerKeeps, HandlerProgress
<1>2. CASE AppManager
  BY <1>2, ManagerKeeps, ManagerProgress
<1>3. CASE UNCHANGED vars
  <2>1. HandlerInv'
    BY <1>3 DEF HandlerInv, TypeOK, PointersSound, DiffsBegin, vars, reloadMgr, hVars, aVars,
                haproxy
  <2>2. Progress'
    BY <1>3 DEF Progress, vars, aVars, haproxy
  <2> QED
    BY <2>1, <2>2
<1> QED
  BY <1>1, <1>2, <1>3 DEF Next

LEMMA BaseHolds == Spec => [](HandlerInv /\ Progress)
<1>1. Init => HandlerInv /\ Progress
  BY HandlerStarts DEF Init, Progress
<1>2. HandlerInv /\ Progress /\ [Next]_vars => (HandlerInv /\ Progress)'
  BY StepKeeps
<1> QED
  BY <1>1, <1>2, PTL DEF Spec

(* Whatever fails and however the goroutines interleave, the state stays   *)
(* within its types: no diff holds an entry without a section, the channel *)
(* never exceeds its capacity.                                             *)
THEOREM TypeCorrect == Spec => []TypeOK
<1>1. HandlerInv => TypeOK
  BY DEF HandlerInv
<1> QED
  BY <1>1, BaseHolds, PTL

(* APIFinalCommitTransaction writes a whole diff or nothing, however the   *)
(* calls of the client fail and although the handler goes on writing into  *)
(* the sections the diff shares.                                           *)
THEOREM CommitsAreWhole == Spec => CommitIsWholeDiff
<1>1. ASSUME HandlerInv, Progress, [Next]_vars, file' # file
      PROVE  Present(file') = (Present(file) \cup Created(cur) \cup Updated(cur))
                                \ Deleted(cur)
  <2>1. CASE HandleBatch \/ StartBuild
    BY <1>1, <2>1, HandlerProgress
  <2>2. CASE AppManager
    <3>1. apc = "commit" /\ file' = tx
      BY <1>1, <2>2 DEF AppManager, Receive, StartTransaction, LoopEnds, Commit, Reload,
                        Create, FrontendEdit, BackendEdit, Delete, haproxy
    <3> QED
      BY <1>1, <3>1 DEF Progress
  <2>3. CASE UNCHANGED vars
    BY <1>1, <2>3 DEF vars, haproxy
  <2> QED
    BY <1>1, <2>1, <2>2, <2>3 DEF Next
<1>2. HandlerInv /\ Progress /\ [Next]_vars
        => [file' # file =>
              Present(file') = (Present(file) \cup Created(cur) \cup Updated(cur))
                                 \ Deleted(cur)]_vars
  BY <1>1
<1> QED
  BY <1>2, BaseHolds, PTL DEF Spec, CommitIsWholeDiff

-----------------------------------------------------------------------------
(* Without failures of the client the diffs on their way lead from the     *)
(* file to what the handler wants.                                         *)

LEMMA TouchedIn ==
    ASSUME NEW d, NEW n \in Names
    PROVE  Touched(d.sections[n]) <=> n \in Created(d) \cup Updated(d) \cup Deleted(d)
  BY DEF Touched, Created, Updated, Deleted

LEMMA SeenLeads ==
    ASSUME NEW d, NEW e, NEW v, NEW n \in Names,
           Created(e) = Created(d), Updated(e) = Updated(d), Deleted(e) = Deleted(d),
           e.sections[n].created.sec \in {d.sections[n].created.sec, v},
           e.sections[n].updated.sec \in {d.sections[n].updated.sec, v}
    PROVE  /\ Touched(e.sections[n]) <=> Touched(d.sections[n])
           /\ Final(e.sections[n]) \in {Final(d.sections[n]), v}
<1>1. Touched(e.sections[n]) <=> Touched(d.sections[n])
  BY TouchedIn
<1>2. n \in Deleted(d) <=> d.sections[n].deleted
  BY DEF Deleted
<1>3. n \in Deleted(d) <=> e.sections[n].deleted
  BY DEF Deleted
<1>4. n \in Updated(d) <=> d.sections[n].updated # NoEntry
  BY DEF Updated
<1>5. n \in Updated(d) <=> e.sections[n].updated # NoEntry
  BY DEF Updated
<1>6. CASE n \in Deleted(d)
  BY <1>1, <1>2, <1>3, <1>6 DEF Final
<1>7. CASE n \notin Deleted(d)
  BY <1>1, <1>2, <1>3, <1>4, <1>5, <1>7 DEF Final
<1> QED
  BY <1>6, <1>7

(* A batch writes sections: the path stays, only its end moves.            *)
LEMMA StoresPath ==
    ASSUME HandlerInv, Stores, UNCHANGED <<apc, file>>, PathExists
    PROVE  PathExists'
<1>0. TypeOK /\ PointersSound
  BY DEF HandlerInv
<1>1. PICK cells \in [Names -> Cells], r \in BOOLEAN :
        /\ Store(cells, r)
        /\ \A n \in Names : Legal(Cell(n), cells[n])
  BY DEF Stores
<1>2. PICK p \in [0..Len(chan) -> SUBSET Names] : Path(p)
  BY DEF PathExists
<1>3. /\ Len(chan') = Len(chan)
      /\ Created(cur') = Created(cur) /\ Updated(cur') = Updated(cur)
      /\ Deleted(cur') = Deleted(cur)
      /\ \A i \in 1..Len(chan) : /\ Created(chan'[i]) = Created(chan[i])
                                 /\ Updated(chan'[i]) = Updated(chan[i])
                                 /\ Deleted(chan'[i]) = Deleted(chan[i])
  BY <1>0, <1>1, StoreKeeps
<1>4. Present(file') = Present(file)
  OBVIOUS
<1>5. /\ After(cur', Present(file)) = After(cur, Present(file))
      /\ Fits(cur', Present(file)) <=> Fits(cur, Present(file))
  BY <1>3 DEF After, Fits
<1>6. \A i \in 1..Len(chan) : /\ After(chan'[i], p[i-1]) = After(chan[i], p[i-1])
                              /\ Fits(chan'[i], p[i-1]) <=> Fits(chan[i], p[i-1])
  BY <1>3 DEF After, Fits
<1>7. ASSUME NEW n \in Names
      PROVE  Accounts(Cell(n)', n \in p[Len(chan)])
  <2>1. Accounts(Cell(n), n \in p[Len(chan)])
    BY <1>2 DEF Path
  <2>2. (n \in p[Len(chan)]) \in BOOLEAN
    OBVIOUS
  <2>3. Accounts(cells[n], n \in p[Len(chan)])
    BY <1>1, <2>1, <2>2 DEF Legal, Carries
  <2>4. Cell(n)'.now = cells[n].now /\ Cell(n)'.diff = cells[n].diff
    BY <1>1 DEF Store, Cell
  <2> QED
    BY <2>3, <2>4 DEF Accounts
<1>8. Path(p)'
  BY <1>2, <1>3, <1>4, <1>5, <1>6, <1>7 DEF Path
<1> QED
  BY <1>2, <1>3, <1>8 DEF PathExists

LEMMA StoresLead ==
    ASSUME HandlerInv, Stores, UNCHANGED <<apc, file, pend, tx>>, NEW n \in Names, Leads(n)
    PROVE  Leads(n)'
<1>0. TypeOK /\ PointersSound /\ Len(chan) \in Nat
  BY DEF HandlerInv, TypeOK
<1>1. PICK cells \in [Names -> Cells], r \in BOOLEAN :
        /\ Store(cells, r)
        /\ \A m \in Names : Legal(Cell(m), cells[m])
  BY DEF Stores
<1>2. structured'[n] = cells[n].now /\ diffs'.sections[n] = cells[n].diff
  BY <1>1 DEF Store
<1>3. /\ Touched(diffs.sections[n]) => Touched(diffs'.sections[n])
      /\ structured'[n] # structured[n] => Touched(diffs'.sections[n])
  BY <1>0, <1>1, <1>2, CellsAreOK DEF Legal, Carries, Touched
<1>4. /\ Len(chan') = Len(chan)
      /\ Created(cur') = Created(cur) /\ Updated(cur') = Updated(cur)
      /\ Deleted(cur') = Deleted(cur)
      /\ cur'.sections[n].created.sec \in {cur.sections[n].created.sec, structured'[n]}
      /\ cur'.sections[n].updated.sec \in {cur.sections[n].updated.sec, structured'[n]}
  BY <1>0, <1>1, StoreKeeps
<1>5. \A i \in 1..Len(chan) :
        /\ Created(chan'[i]) = Created(chan[i])
        /\ Updated(chan'[i]) = Updated(chan[i])
        /\ Deleted(chan'[i]) = Deleted(chan[i])
        /\ chan'[i].sections[n].created.sec
             \in {chan[i].sections[n].created.sec, structured'[n]}
        /\ chan'[i].sections[n].updated.sec
             \in {chan[i].sections[n].updated.sec, structured'[n]}
  BY <1>0, <1>1, StoreKeeps
<1>6. ASSUME NEW i \in 1..Len(chan)
      PROVE  /\ Touched(chan'[i].sections[n]) <=> Touched(chan[i].sections[n])
             /\ Final(chan'[i].sections[n]) \in {Final(chan[i].sections[n]), structured'[n]}
  <2> DEFINE d == chan[i]
             e == chan'[i]
  <2>1. /\ Created(e) = Created(d) /\ Updated(e) = Updated(d) /\ Deleted(e) = Deleted(d)
        /\ e.sections[n].created.sec \in {d.sections[n].created.sec, structured'[n]}
        /\ e.sections[n].updated.sec \in {d.sections[n].updated.sec, structured'[n]}
    BY <1>5
  <2> HIDE DEF d, e
  <2>2. /\ Touched(e.sections[n]) <=> Touched(d.sections[n])
        /\ Final(e.sections[n]) \in {Final(d.sections[n]), structured'[n]}
    BY <2>1, SeenLeads
  <2> QED
    BY <2>2 DEF d, e
<1>7. Eventual(n)' \in {Eventual(n), structured'[n]}
  BY <1>4 DEF Eventual
<1>8. CASE Touched(diffs'.sections[n])
  BY <1>8 DEF Leads
<1>9. CASE ~Touched(diffs'.sections[n])
  <2>1. structured'[n] = structured[n] /\ ~Touched(diffs.sections[n])
    BY <1>3, <1>9
  <2>2. CASE \E i \in 1..Len(chan) : LastIn(n, i)
    <3>1. PICK i \in 1..Len(chan) : LastIn(n, i)
      BY <2>2
    <3>2. Touched(chan'[i].sections[n]) /\ Final(chan'[i].sections[n]) = structured'[n]
      BY <1>6, <2>1, <3>1 DEF LastIn
    <3>3. \A j \in 1..Len(chan') : j > i => ~Touched(chan'[j].sections[n])
      BY <1>4, <1>6, <3>1 DEF LastIn
    <3>4. LastIn(n, i)' /\ i \in 1..Len(chan')
      BY <1>4, <3>2, <3>3 DEF LastIn
    <3> QED
      BY <3>4 DEF Leads
  <2>3. CASE /\ \A i \in 1..Len(chan) : ~Touched(chan[i].sections[n])
             /\ Eventual(n) = structured[n]
    BY <1>4, <1>6, <1>7, <2>1, <2>3 DEF Leads
  <2> QED
    BY <2>1, <2>2, <2>3 DEF Leads
<1> QED
  BY <1>8, <1>9

(* SendDiffs: the path gets longer by what the diffs account for.          *)
LEMMA SendPath ==
    ASSUME HandlerInv, SendDiffs, PathExists
    PROVE  PathExists'
<1>0. /\ TypeOK /\ chan \in Seq(Diff) /\ Len(chan) \in Nat
      /\ UNCHANGED <<structured, apc, cur, file>> /\ diffs' = NoDiffs
  BY DEF HandlerInv, TypeOK, SendDiffs, aVars, haproxy
<1>1. PICK p \in [0..Len(chan) -> SUBSET Names] : Path(p)
  BY DEF PathExists
<1> DEFINE last == p[Len(chan)]
<1>2. \A n \in Names : Accounts(Cell(n), n \in last)
  BY <1>1 DEF Path
<1>3. \A n \in Names : Cell(n).now = structured[n] /\ Cell(n).diff = diffs.sections[n]
  BY DEF Cell
<1>4. \A n \in Names : /\ Cell(n)'.now = structured[n]
                       /\ Cell(n)'.diff = NoDiff
  BY <1>0, NothingSent DEF Cell
<1>5. last \subseteq Names
  BY <1>0
<1> HIDE DEF last
<1>6. After(diffs, last) = Present(structured)
  <2>1. \A n \in Names : n \in After(diffs, last) <=> structured[n] # Absent
    BY <1>2, <1>3 DEF Accounts, After, Created, Updated, Deleted
  <2>2. After(diffs, last) \subseteq Names
    BY <1>5 DEF After, Created, Updated
  <2> QED
    BY <2>1, <2>2 DEF Present
<1>7. Fits(diffs, last)
  BY <1>2, <1>3 DEF Accounts, Fits, Created, Updated, Deleted
<1>8. \A n \in Names : Accounts(Cell(n)', n \in Present(structured))
  BY <1>4, NothingYet DEF Accounts, Present
<1>9. CASE UNCHANGED chan /\ IsEmpty(diffs)
  <2>1. last = Present(structured)
    BY <1>5, <1>6, <1>9 DEF IsEmpty, After
  <2>2. Path(p)'
    BY <1>0, <1>1, <1>8, <1>9, <2>1 DEF Path, last, Present
  <2> QED
    BY <1>9, <2>2 DEF PathExists
<1>10. CASE chan' = Append(chan, diffs)
  <2>0. PICK q : q = [i \in 0..Len(chan) + 1 |->
                       IF i = Len(chan) + 1 THEN Present(structured) ELSE p[i]]
    OBVIOUS
  <2>1. /\ Len(chan') = Len(chan) + 1 /\ chan'[Len(chan) + 1] = diffs
        /\ \A i \in 1..Len(chan) : chan'[i] = chan[i]
    BY <1>0, <1>10
  <2>2. q \in [0..Len(chan) + 1 -> SUBSET Names]
    BY <1>0, <2>0 DEF Present
  <2>3. /\ \A i \in 0..Len(chan) : q[i] = p[i]
        /\ q[Len(chan) + 1] = Present(structured) /\ q[Len(chan)] = last
    BY <1>0, <2>0 DEF last
  <2>4. ASSUME NEW i \in 1..Len(chan) + 1
        PROVE  q[i] = After(chan'[i], q[i-1]) /\ Fits(chan'[i], q[i-1])
    <3>1. CASE i = Len(chan) + 1
      <4>1. i - 1 = Len(chan)
        BY <1>0, <3>1
      <4> QED
        BY <1>6, <1>7, <2>1, <2>3, <3>1, <4>1
    <3>2. CASE i \in 1..Len(chan)
      <4>1. q[i] = p[i] /\ q[i-1] = p[i-1] /\ chan'[i] = chan[i]
        BY <1>0, <2>1, <2>3, <3>2
      <4> QED
        BY <1>1, <3>2, <4>1 DEF Path
    <3> QED
      BY <1>0, <3>1, <3>2
  <2>5. q[0] = p[0]
    BY <1>0, <2>3
  <2>6. IF apc' \in {"recv", "reload"} THEN q[0] = Present(file')
        ELSE q[0] = After(cur', Present(file')) /\ Fits(cur', Present(file'))
    BY <1>0, <1>1, <2>5 DEF Path
  <2>7. Path(q)'
    BY <1>8, <2>1, <2>2, <2>3, <2>4, <2>6 DEF Path
  <2> QED
    BY <2>1, <2>2, <2>7 DEF PathExists
<1> QED
  BY <1>9, <1>10 DEF SendDiffs

LEMMA SendLeads ==
    ASSUME HandlerInv, SendDiffs, PathExists, NEW n \in Names, Leads(n)
    PROVE  Leads(n)'
<1>0. /\ TypeOK /\ chan \in Seq(Diff) /\ Len(chan) \in Nat
      /\ UNCHANGED <<structured, apc, cur, pend, tx, file>> /\ diffs' = NoDiffs
  BY DEF HandlerInv, TypeOK, SendDiffs, aVars, haproxy
<1>1. Eventual(n)' = Eventual(n)
  BY <1>0 DEF Eventual
<1>2. Touched(diffs.sections[n]) => Final(diffs.sections[n]) = structured[n]
  BY DEF PathExists, Path, Accounts, Cell
<1>3. CASE UNCHANGED chan /\ IsEmpty(diffs)
  <2>1. ~Touched(diffs.sections[n])
    BY <1>3, TouchedIn DEF IsEmpty
  <2> QED
    BY <1>0, <1>1, <1>3, <2>1 DEF Leads, LastIn
<1>4. CASE chan' = Append(chan, diffs)
  <2>1. /\ Len(chan') = Len(chan) + 1 /\ chan'[Len(chan) + 1] = diffs
        /\ \A i \in 1..Len(chan) : chan'[i] = chan[i]
    BY <1>0, <1>4
  <2>2. CASE Touched(diffs.sections[n])
    <3>1. PICK k : k = Len(chan) + 1
      OBVIOUS
    <3>2. LastIn(n, k)' /\ k \in 1..Len(chan')
      BY <1>0, <1>2, <2>1, <2>2, <3>1 DEF LastIn
    <3> QED
      BY <3>2 DEF Leads
  <2>3. CASE ~Touched(diffs.sections[n])
    <3>1. ~Touched(chan'[Len(chan) + 1].sections[n])
      BY <2>1, <2>3
    <3>2. CASE \E i \in 1..Len(chan) : LastIn(n, i)
      <4>1. PICK i \in 1..Len(chan) : LastIn(n, i)
        BY <3>2
      <4>2. \A j \in 1..Len(chan') : j > i => ~Touched(chan'[j].sections[n])
        <5> TAKE j \in 1..Len(chan')
        <5>1. CASE j = Len(chan) + 1
          BY <3>1, <5>1
        <5>2. CASE j # Len(chan) + 1
          <6>1. j \in 1..Len(chan)
            BY <1>0, <2>1, <5>2
          <6> QED
            BY <2>1, <4>1, <6>1 DEF LastIn
        <5> QED
          BY <5>1, <5>2
      <4>3. Touched(chan'[i].sections[n]) /\ Final(chan'[i].sections[n]) = structured'[n]
        BY <1>0, <2>1, <4>1 DEF LastIn
      <4>4. LastIn(n, i)' /\ i \in 1..Len(chan')
        BY <1>0, <2>1, <4>2, <4>3 DEF LastIn
      <4> QED
        BY <4>4 DEF Leads
    <3>3. CASE /\ \A i \in 1..Len(chan) : ~Touched(chan[i].sections[n])
               /\ Eventual(n) = structured[n]
      <4>1. \A j \in 1..Len(chan') : ~Touched(chan'[j].sections[n])
        <5> TAKE j \in 1..Len(chan')
        <5>1. CASE j = Len(chan) + 1
          BY <3>1, <5>1
        <5>2. CASE j # Len(chan) + 1
          <6>1. j \in 1..Len(chan)
            BY <1>0, <2>1, <5>2
          <6> QED
            BY <2>1, <3>3, <6>1
        <5> QED
          BY <5>1, <5>2
      <4> QED
        BY <1>0, <1>1, <3>3, <4>1 DEF Leads
    <3> QED
      BY <2>3, <3>2, <3>3 DEF Leads
  <2> QED
    BY <2>2, <2>3
<1> QED
  BY <1>3, <1>4 DEF SendDiffs

(* Receive: the path loses its first step to cur.                          *)
LEMMA ReceivePath ==
    ASSUME HandlerInv, Receive, PathExists
    PROVE  PathExists'
<1>0. /\ chan \in Seq(Diff) /\ chan # <<>> /\ Len(chan) \in Nat \ {0}
      /\ UNCHANGED <<structured, diffs, file>> /\ apc = "recv" /\ apc' = "start"
  BY DEF HandlerInv, TypeOK, Receive, hVars, haproxy
<1>1. /\ Len(chan') = Len(chan) - 1 /\ cur' = chan[1]
      /\ \A i \in 1..Len(chan) - 1 : chan'[i] = chan[i+1]
  BY <1>0 DEF Receive
<1>2. PICK p \in [0..Len(chan) -> SUBSET Names] : Path(p)
  BY DEF PathExists
<1>10. PICK q : q = [i \in 0..Len(chan) - 1 |-> p[i+1]]
  OBVIOUS
<1>3. q \in [0..Len(chan) - 1 -> SUBSET Names] /\ \A i \in 0..Len(chan) - 1 : q[i] = p[i+1]
  BY <1>0, <1>10
<1>4. q[0] = p[1] /\ p[1] = After(chan[1], p[0]) /\ Fits(chan[1], p[0]) /\ p[0] = Present(file)
  <2>1. 0 \in 0..Len(chan) - 1 /\ 1 \in 1..Len(chan) /\ 0 + 1 = 1 /\ 1 - 1 = 0
    BY <1>0
  <2>2. q[0] = p[1]
    BY <1>3, <2>1
  <2>3. p[1] = After(chan[1], p[1-1]) /\ Fits(chan[1], p[1-1])
    BY <1>2, <2>1 DEF Path
  <2>4. p[0] = Present(file)
    BY <1>0, <1>2 DEF Path
  <2> QED
    BY <2>1, <2>2, <2>3, <2>4
<1>5. ASSUME NEW i \in 1..Len(chan) - 1
      PROVE  q[i] = After(chan'[i], q[i-1]) /\ Fits(chan'[i], q[i-1])
  <2>1. /\ q[i] = p[i+1] /\ q[i-1] = p[i] /\ chan'[i] = chan[i+1]
        /\ i+1 \in 1..Len(chan) /\ (i+1)-1 = i
    BY <1>0, <1>1, <1>3
  <2>2. p[i+1] = After(chan[i+1], p[(i+1)-1]) /\ Fits(chan[i+1], p[(i+1)-1])
    BY <1>2, <2>1 DEF Path
  <2> QED
    BY <2>1, <2>2
<1>6. q[Len(chan) - 1] = p[Len(chan)]
  BY <1>0, <1>3
<1>7. \A n \in Names : Accounts(Cell(n)', n \in q[Len(chan) - 1])
  <2>1. \A n \in Names : Cell(n)' = Cell(n)
    BY <1>0 DEF Cell
  <2> QED
    BY <1>2, <1>6, <2>1 DEF Path
<1>8. Present(file') = Present(file)
  BY <1>0
<1>9. Path(q)'
  BY <1>0, <1>1, <1>3, <1>4, <1>5, <1>7, <1>8 DEF Path
<1> QED
  BY <1>1, <1>3, <1>9 DEF PathExists

LEMMA ReceiveLeads ==
    ASSUME HandlerInv, Receive, NEW n \in Names, Leads(n)
    PROVE  Leads(n)'
<1>0. /\ chan \in Seq(Diff) /\ chan # <<>> /\ Len(chan) \in Nat \ {0}
      /\ UNCHANGED <<structured, diffs, file>> /\ apc = "recv" /\ apc' = "start"
  BY DEF HandlerInv, TypeOK, Receive, hVars, haproxy
<1>1. /\ Len(chan') = Len(chan) - 1 /\ cur' = chan[1]
      /\ \A i \in 1..Len(chan) - 1 : chan'[i] = chan[i+1] /\ i+1 \in 1..Len(chan)
  BY <1>0 DEF Receive
<1>2. CASE Touched(diffs.sections[n])
  BY <1>0, <1>2 DEF Leads
<1>3. ASSUME NEW i \in 1..Len(chan), LastIn(n, i)
      PROVE  Leads(n)'
  <2>1. CASE i = 1
    <3>1. ASSUME NEW j \in 1..Len(chan')
          PROVE  ~Touched(chan'[j].sections[n])
      <4>1. j \in 1..Len(chan) - 1 /\ j+1 > i
        BY <1>0, <1>1, <2>1
      <4>2. chan'[j] = chan[j+1] /\ j+1 \in 1..Len(chan)
        BY <1>1, <4>1
      <4>. QED
        BY <1>3, <4>1, <4>2 DEF LastIn
    <3>2. Touched(cur'.sections[n]) /\ Final(cur'.sections[n]) = structured[n]
      BY <1>1, <1>3, <2>1 DEF LastIn
    <3>3. Eventual(n)' = Final(cur'.sections[n])
      BY <1>0, <3>2 DEF Eventual, Final, Touched, Created, Updated, Deleted
    <3> QED
      BY <1>0, <3>1, <3>2, <3>3 DEF Leads
  <2>2. CASE i # 1
    <3>1. i-1 \in 1..Len(chan') /\ chan'[i-1] = chan[i]
      BY <1>0, <1>1, <2>2
    <3>2. ASSUME NEW j \in 1..Len(chan'), j > i-1
          PROVE  ~Touched(chan'[j].sections[n])
      <4>1. j \in 1..Len(chan) - 1 /\ j+1 > i
        BY <1>0, <1>1, <3>2
      <4>2. chan'[j] = chan[j+1] /\ j+1 \in 1..Len(chan)
        BY <1>1, <4>1
      <4>. QED
        BY <1>3, <4>1, <4>2 DEF LastIn
    <3>3. LastIn(n, i-1)'
      BY <1>0, <1>3, <3>1, <3>2 DEF LastIn
    <3> QED
      BY <3>1, <3>3 DEF Leads
  <2> QED
    BY <2>1, <2>2
<1>4. CASE /\ \A i \in 1..Len(chan) : ~Touched(chan[i].sections[n])
           /\ Eventual(n) = structured[n]
  <2>1. \A i \in 1..Len(chan') : ~Touched(chan'[i].sections[n])
    BY <1>0, <1>1, <1>4
  <2>2. ~Touched(cur'.sections[n])
    BY <1>0, <1>1, <1>4
  <2>3. Eventual(n)' = file[n] /\ Eventual(n) = file[n]
    BY <1>0, <2>2 DEF Eventual, Touched, Created, Updated, Deleted
  <2> QED
    BY <1>0, <1>4, <2>1, <2>3 DEF Leads
<1> QED
  BY <1>2, <1>3, <1>4 DEF Leads

(* Only apc, the transaction and the file change: the path stays if its    *)
(* beginning does.                                                         *)
LEMMA PathStays ==
    ASSUME PathExists, UNCHANGED <<structured, diffs, chan>>,
           \/ /\ UNCHANGED <<cur, file>>
              /\ apc \notin {"recv", "reload"} /\ apc' \notin {"recv", "reload"}
           \/ /\ apc \notin {"recv", "reload"} /\ apc' \in {"recv", "reload"}
              /\ Present(file') = After(cur, Present(file))
           \/ /\ apc \in {"recv", "reload"} /\ apc' \in {"recv", "reload"}
              /\ UNCHANGED file
    PROVE  PathExists'
<1>1. PICK p \in [0..Len(chan) -> SUBSET Names] : Path(p)
  BY DEF PathExists
<1>2. \A n \in Names : Cell(n)' = Cell(n)
  BY DEF Cell
<1>3. IF apc' \in {"recv", "reload"} THEN p[0] = Present(file')
      ELSE p[0] = After(cur', Present(file')) /\ Fits(cur', Present(file'))
  BY <1>1 DEF Path
<1>4. Path(p)'
  BY <1>1, <1>2, <1>3 DEF Path
<1> QED
  BY <1>1, <1>4 DEF PathExists

LEMMA LeadsStay ==
    ASSUME NEW n \in Names, Leads(n), UNCHANGED <<structured, diffs, chan>>,
           Eventual(n)' = Eventual(n)
    PROVE  Leads(n)'
  BY DEF Leads, LastIn

(* While cur is applied its edits and deletes find their sections.         *)
LEMMA SectionsFound ==
    ASSUME HandlerInv, Progress, PathExists, ~applyErr, NEW n \in pend,
           apc \in {"update", "delete"}
    PROVE  tx[n] # Absent
<1>1. Fits(cur, Present(file))
  BY DEF PathExists, Path
<1>2. n \in Names
  BY DEF HandlerInv, TypeOK
<1>3. CASE apc = "update"
  <2>1. n \in Updated(cur) /\ Present(file) \cup Created(cur) \subseteq Present(tx)
    BY <1>3 DEF Progress
  <2> QED
    BY <1>1, <2>1 DEF Fits, Present
<1>4. CASE apc = "delete"
  <2>1. /\ n \in Deleted(cur)
        /\ Present(tx) = (Present(file) \cup Created(cur) \cup Updated(cur))
                           \ (Deleted(cur) \ pend)
    BY <1>4 DEF Progress
  <2> QED
    BY <1>1, <2>1 DEF Fits, Present
<1> QED
  BY <1>3, <1>4

(* A section written to the transaction is the one Eventual expects.       *)
LEMMA WrittenLeads ==
    ASSUME HandlerInv, Progress, UNCHANGED <<apc, cur, file>>, ~applyErr,
           NEW m \in pend, pend' = pend \ {m}, NEW s, tx' = [tx EXCEPT ![m] = s],
           \/ apc = "create" /\ s = cur.sections[m].created.sec
           \/ apc = "update" /\ s = cur.sections[m].updated.sec
           \/ apc = "delete" /\ s = Absent,
           NEW n \in Names
    PROVE  Eventual(n)' = Eventual(n)
<1>1. m \in Names /\ tx \in Conf
  BY DEF HandlerInv, TypeOK
<1>2. CASE n # m
  <2>1. tx'[n] = tx[n] /\ (n \in pend' <=> n \in pend)
    BY <1>1, <1>2 DEF Conf
  <2> QED
    BY <2>1 DEF Eventual
<1>3. CASE n = m
  <2>1. tx'[n] = s /\ n \in pend /\ n \notin pend'
    BY <1>1, <1>3 DEF Conf
  <2>2. CASE apc = "create"
    <3>1. n \in Created(cur)
      BY <2>1, <2>2 DEF Progress
    <3> QED
      BY <1>3, <2>1, <2>2, <3>1 DEF Eventual
  <2>3. CASE apc = "update"
    <3>1. n \in Updated(cur)
      BY <2>1, <2>3 DEF Progress
    <3> QED
      BY <1>3, <2>1, <2>3, <3>1 DEF Eventual
  <2>4. CASE apc = "delete"
    <3>1. n \in Deleted(cur)
      BY <2>1, <2>4 DEF Progress
    <3> QED
      BY <1>3, <2>1, <2>4, <3>1 DEF Eventual
  <2> QED
    BY <2>2, <2>3, <2>4
<1> QED
  BY <1>2, <1>3

LEMMA ManagerSync ==
    ASSUME HandlerInv, Progress, SyncInv, AppManager, fails' = 0
    PROVE  SyncInv'
<1>0. UNCHANGED <<structured, diffs>> /\ fails \in Nat /\ applyErr \in BOOLEAN
  <2>1. UNCHANGED <<structured, diffs>>
    BY DEF AppManager, Receive, StartTransaction, LoopEnds, Commit, Reload, Create,
           FrontendEdit, BackendEdit, Delete, hVars
  <2>2. fails \in Nat /\ applyErr \in BOOLEAN
    BY ConfAssumption DEF HandlerInv, TypeOK
  <2> QED
    BY <2>1, <2>2
<1>1. ~ClientFails
  BY <1>0 DEF ClientFails
<1>2. fails = 0
  BY <1>1 DEF AppManager, Receive, StartTransaction, LoopEnds, Commit, Reload, Create,
              FrontendEdit, BackendEdit, Delete, FailsOn, IsMissing
<1>3. ~applyErr /\ PathExists /\ \A n \in Names : Leads(n)
  BY <1>2 DEF SyncInv
<1>4. CASE Receive
  <2>1. ~applyErr'
    BY <1>0, <1>3, <1>4 DEF Receive
  <2> QED
    BY <1>3, <1>4, <2>1, ReceivePath, ReceiveLeads DEF SyncInv
<1>5. CASE StartTransaction
  <2>1. /\ apc = "start" /\ tx' = file /\ apc' = "create" /\ pend' = Created(cur)
        /\ UNCHANGED <<cur, applyErr, file, chan>>
    BY <1>1, <1>5 DEF StartTransaction, haproxy
  <2>2. \A n \in Names : Eventual(n)' = Eventual(n)
    BY <2>1 DEF Eventual
  <2>3. PathExists'
    BY <1>0, <1>3, <2>1, PathStays
  <2>4. ~applyErr'
    BY <1>0, <1>3, <2>1
  <2> QED
    BY <1>0, <1>3, <2>1, <2>2, <2>3, <2>4, LeadsStay DEF SyncInv
<1>6. CASE LoopEnds
  <2>1. /\ apc \in {"create", "update", "delete"} /\ pend = {}
        /\ apc' = CASE apc = "create" -> "update"
                    [] apc = "update" -> "delete"
                    [] apc = "delete" -> "commit"
        /\ pend' = CASE apc = "create" -> Updated(cur)
                     [] apc = "update" -> Deleted(cur)
                     [] apc = "delete" -> {}
        /\ UNCHANGED <<cur, applyErr, file, tx, chan>>
    BY <1>3, <1>6 DEF LoopEnds, haproxy
  <2>2. \A n \in Names : Eventual(n)' = Eventual(n)
    <3>1. CASE apc = "create"
      BY <2>1, <3>1 DEF Eventual
    <3>2. CASE apc = "update"
      BY <2>1, <3>2 DEF Eventual
    <3>3. CASE apc = "delete"
      BY <2>1, <3>3 DEF Eventual
    <3> QED
      BY <2>1, <3>1, <3>2, <3>3
  <2>3. PathExists'
    <3>1. apc \notin {"recv", "reload"} /\ apc' \notin {"recv", "reload"}
      BY <2>1
    <3> QED
      BY <1>0, <1>3, <2>1, <3>1, PathStays
  <2>4. ~applyErr'
    BY <1>0, <1>3, <2>1
  <2> QED
    BY <1>0, <1>3, <2>1, <2>2, <2>3, <2>4, LeadsStay DEF SyncInv
<1>7. CASE Commit
  <2>1. /\ apc = "commit" /\ file' = tx /\ apc' = "reload"
        /\ UNCHANGED <<cur, pend, applyErr, chan>>
    BY <1>1, <1>7 DEF Commit
  <2>2. \A n \in Names : Eventual(n)' = Eventual(n)
    BY <2>1 DEF Eventual
  <2>3. Present(file') = After(cur, Present(file))
    BY <1>3, <2>1 DEF Progress, After
  <2>4. PathExists'
    BY <1>0, <1>3, <2>1, <2>3, PathStays
  <2>5. ~applyErr'
    BY <1>0, <1>3, <2>1
  <2> QED
    BY <1>0, <1>3, <2>1, <2>2, <2>4, <2>5, LeadsStay DEF SyncInv
<1>8. CASE Reload
  <2>1. apc = "reload" /\ apc' = "recv" /\ applyErr' = FALSE /\ UNCHANGED <<file, chan>>
    BY <1>8 DEF Reload, Dispose
  <2>2. \A n \in Names : Eventual(n)' = Eventual(n)
    BY <2>1 DEF Eventual
  <2>3. PathExists'
    BY <1>0, <1>3, <2>1, PathStays
  <2> QED
    BY <1>0, <1>3, <2>1, <2>2, <2>3, LeadsStay DEF SyncInv
<1>9. ASSUME NEW m \in Names, Create(m) \/ FrontendEdit(m) \/ BackendEdit(m) \/ Delete(m)
      PROVE  SyncInv'
  <2>1. /\ m \in pend /\ pend' = pend \ {m} /\ UNCHANGED <<apc, cur, file, chan>>
        /\ apc \in {"create", "update", "delete"}
    BY <1>9 DEF Create, FrontendEdit, BackendEdit, Delete, haproxy
  <2>2. /\ applyErr' = applyErr
        /\ \/ /\ apc = "create" /\ tx' = [tx EXCEPT ![m] = cur.sections[m].created.sec]
           \/ /\ apc = "update" /\ tx' = [tx EXCEPT ![m] = cur.sections[m].updated.sec]
           \/ /\ apc = "delete" /\ tx' = [tx EXCEPT ![m] = Absent]
    <3>1. CASE Create(m)
      BY <1>1, <3>1 DEF Create, FailsOn
    <3>2. CASE FrontendEdit(m) \/ BackendEdit(m)
      <4>1. tx[m] # Absent
        BY <1>3, <2>1, <3>2, SectionsFound DEF FrontendEdit, BackendEdit
      <4> QED
        BY <1>1, <3>2, <4>1 DEF FrontendEdit, BackendEdit, FailsOn, IsMissing
    <3>3. CASE Delete(m)
      <4>1. tx[m] # Absent
        BY <1>3, <2>1, <3>3, SectionsFound DEF Delete
      <4> QED
        BY <1>1, <3>3, <4>1 DEF Delete, IsMissing
    <3> QED
      BY <1>9, <3>1, <3>2, <3>3
  <2>3. ASSUME NEW n \in Names
        PROVE  Eventual(n)' = Eventual(n)
    BY <1>3, <2>1, <2>2, WrittenLeads
  <2>4. PathExists'
    BY <1>0, <1>3, <2>1, PathStays
  <2>5. ~applyErr'
    BY <1>0, <1>3, <2>2
  <2> QED
    BY <1>0, <1>3, <2>1, <2>3, <2>4, <2>5, LeadsStay DEF SyncInv
<1> QED
  BY <1>4, <1>5, <1>6, <1>7, <1>8, <1>9 DEF AppManager

LEMMA HandlerSync ==
    ASSUME HandlerInv, Progress, SyncInv, HandleBatch \/ StartBuild
    PROVE  SyncInv'
<1>1. UNCHANGED <<apc, pend, applyErr, tx, fails, file>>
  BY HandlerProgress
<1>2. SUFFICES ASSUME fails = 0, ~applyErr, PathExists, \A n \in Names : Leads(n)
               PROVE  PathExists' /\ \A n \in Names : Leads(n)'
  <2>1. applyErr \in BOOLEAN
    BY DEF HandlerInv, TypeOK
  <2> QED
    BY <1>1, <2>1 DEF SyncInv
<1>3. CASE StartBuild \/ BuildCertificates \/ ProcessCertificates \/ EndpointSlicesDone
  <2>1. UNCHANGED <<structured, diffs, chan, cur>>
    BY <1>3 DEF StartBuild, BuildCertificates, ProcessCertificates, EndpointSlicesDone, aVars
  <2>2. \A n \in Names : Cell(n)' = Cell(n) /\ Eventual(n)' = Eventual(n)
    BY <1>1, <2>1 DEF Cell, Eventual
  <2>3. PICK p \in [0..Len(chan) -> SUBSET Names] : Path(p)
    BY <1>2 DEF PathExists
  <2>4. Path(p)'
    BY <1>1, <2>1, <2>2, <2>3 DEF Path
  <2>5. PathExists'
    BY <2>1, <2>3, <2>4 DEF PathExists
  <2> QED
    BY <1>2, <2>1, <2>2, <2>5, LeadsStay
<1>4. CASE ProcessGateways \/ ProcessBackends \/ CleanupAfterFirstSync
              \/ \E n \in Backends : UpsertBackendWithServers(n)
  <2>1. Stores
    BY <1>4, ConfigureStores, CleanupStores, UpsertServersStores
       DEF ProcessGateways, ProcessBackends
  <2> QED
    BY <1>1, <1>2, <2>1, StoresPath, StoresLead
<1>5. CASE SendDiffs
  BY <1>2, <1>5, SendPath, SendLeads
<1> QED
  BY <1>3, <1>4, <1>5 DEF HandleBatch

LEMMA SyncStarts == Init => SyncInv
<1> SUFFICES ASSUME Init PROVE SyncInv
  OBVIOUS
<1>1. chan = <<>> /\ apc = "recv" /\ Len(chan) = 0 /\ structured = file /\ diffs = NoDiffs
  BY DEF Init
<1>2. PICK p : p = [i \in 0..0 |-> Present(file)]
  OBVIOUS
<1>3. p \in [0..Len(chan) -> SUBSET Names] /\ p[0] = Present(file)
  BY <1>1, <1>2 DEF Present
<1>4. \A n \in Names : Cell(n).now = file[n] /\ Cell(n).diff = NoDiff
  BY <1>1, NothingSent DEF Cell
<1>5. \A n \in Names : Accounts(Cell(n), n \in p[Len(chan)])
  BY <1>1, <1>3, <1>4, NothingYet DEF Accounts, Present
<1>6. Path(p)
  BY <1>1, <1>3, <1>5 DEF Path
<1>7. \A n \in Names : Leads(n)
  BY <1>1 DEF Leads, Eventual
<1> QED
  BY <1>3, <1>6, <1>7 DEF SyncInv, PathExists, Init

LEMMA SyncHolds == Spec => [](HandlerInv /\ Progress /\ SyncInv)
<1>1. Init => HandlerInv /\ Progress /\ SyncInv
  BY HandlerStarts, SyncStarts DEF Init, Progress
<1>2. ASSUME HandlerInv, Progress, SyncInv, [Next]_vars
      PROVE  SyncInv'
  <2>1. CASE HandleBatch \/ StartBuild
    BY <1>2, <2>1, HandlerSync
  <2>2. CASE AppManager
    BY <1>2, <2>2, ManagerSync DEF SyncInv
  <2>3. CASE UNCHANGED vars
    BY <1>2, <2>3 DEF SyncInv, PathExists, Path, Leads, LastIn, Eventual, Cell, vars, hVars,
                      aVars, haproxy
  <2> QED
    BY <1>2, <2>1, <2>2, <2>3 DEF Next
<1>3. HandlerInv /\ Progress /\ SyncInv /\ [Next]_vars => (HandlerInv /\ Progress /\ SyncInv)'
  BY <1>2, StepKeeps
<1> QED
  BY <1>1, <1>3, PTL DEF Spec

(* processUpdate and processDelete find every section of a diff, whatever  *)
(* the diffs before it did and however the batches overlap with them: an   *)
(* error of applyCfgUpdates comes from the configuration client.           *)
THEOREM DiffsApply == Spec => []NoApplyError
<1>1. SyncInv => NoApplyError
  BY DEF SyncInv, NoApplyError
<1> QED
  BY <1>1, SyncHolds, PTL

(* Nothing on its way, and the file is what the handler wants.             *)
LEMMA QuietFile ==
    ASSUME HandlerInv, SyncInv, fails = 0,
           hpc = "idle", chan = <<>>, apc \in {"recv", "reload"}
    PROVE  file = structured
<1>1. Len(chan) = 0
  OBVIOUS
<1>2. \A n \in Names : diffs.sections[n] = NoDiff
  BY DEF HandlerInv, DiffsBegin, Names
<1>3. \A n \in Names : file[n] = structured[n]
  <2> TAKE n \in Names
  <2>1. Leads(n) /\ ~Touched(diffs.sections[n])
    BY <1>2, NothingYet DEF SyncInv
  <2> QED
    BY <1>1, <2>1 DEF Leads, Eventual
<1>4. file \in Conf /\ structured \in Conf
  BY DEF HandlerInv, TypeOK
<1> QED
  BY <1>3, <1>4 DEF Conf

(* Once nothing is on its way and unless a call of the configuration       *)
(* client failed, the file is what the batch handler wants, although       *)
(* batches write into diffs that were sent.                                *)
THEOREM FileFollows == Spec => []FileConverges
<1>1. HandlerInv /\ SyncInv => FileConverges
  BY QuietFile DEF FileConverges, Quiet
<1> QED
  BY <1>1, SyncHolds, PTL
-----------------------------------------------------------------------------
(* One batch at a time: what the process serves once it is applied.        *)

(* Nothing is sent or applied during a batch, and one diff at a time       *)
(* after it.                                                               *)
Spaced ==
    /\ hpc # "idle" => chan = <<>> /\ apc = "recv"
    /\ apc # "recv" => chan = <<>>
    /\ Len(chan) <= 1

(* The process has the settings of the file, and those of the transaction  *)
(* unless a reload is due.                                                 *)
Loads(conf) == \A n \in Names : running[n].cfg = conf[n].cfg
SettingsInv ==
    fails = 0 => /\ apc # "reload" => Loads(file)
                 /\ apc \in {"create", "update", "delete", "commit"} => reload \/ Loads(tx)
                 /\ apc = "reload" => reload \/ Loads(file)

(* Certificates the process does not use yet make it reload.               *)
CertificatesInv ==
    fails = 0 => /\ hpc = "tree" => ~reload /\ stale = {}
                 /\ hpc \in {"gateways", "certs"} =>
                      ~reload /\ stale = IF certWork = "none" THEN {} ELSE {cycles}
                 /\ stale # {} =>
                      /\ hpc \notin {"gateways", "certs"} => reload
                      /\ hpc \in {"servers", "send"} => diffs.reloadNeed
                      /\ hpc = "idle" => chan # <<>> \/ apc # "recv"

(* A diff that makes the process reload, and what is left of cur that does. *)
MakesReload(d) == \/ Created(d) \cup Deleted(d) # {}
                  \/ failed /\ Updated(d) \cap Backends # {}
WillReload ==
    \/ reload
    \/ apc = "start" /\ MakesReload(cur)
    \/ apc = "create" /\ (pend # {} \/ Deleted(cur) # {}
                            \/ (failed /\ Updated(cur) \cap Backends # {}))
    \/ apc = "update" /\ (Deleted(cur) # {} \/ (failed /\ pend \cap Backends # {}))
    \/ apc = "delete" /\ pend # {}

(* The process sends traffic to servers the handler wants only, unless the *)
(* diffs on their way make it reload.                                      *)
Serves(conf) == \A n \in Backends : running[n].servers \subseteq conf[n].servers
ServersInv ==
    fails = 0 => \/ Serves(structured)
                 \/ hpc # "idle" /\ MakesReload(diffs)
                 \/ chan # <<>> /\ MakesReload(chan[1])
                 \/ apc # "recv" /\ WillReload

SpacedInv == Spaced /\ SettingsInv /\ CertificatesInv /\ ServersInv

(* What a step of the AppManager does that is not a failure.               *)
Applies(m) ==
    /\ m \in pend /\ pend' = pend \ {m}
    /\ \/ apc \in {"create", "update", "delete"} /\ reload' = TRUE
       \/ /\ apc = "update" /\ m \in Backends
          /\ reload' = (reload \/ EditNeedsReload(m))
          /\ tx' = [tx EXCEPT ![m] = cur.sections[m].updated.sec]
    /\ UNCHANGED <<apc, cur, chan, file, running, stale>>
Succeeds ==
    \/ /\ apc = "recv" /\ apc' = "start"
       /\ chan # <<>> /\ cur' = chan[1] /\ chan' = Tail(chan)
       /\ UNCHANGED <<reload, file, running, stale>>
    \/ /\ apc = "start" /\ apc' = "create"
       /\ pend' = Created(cur) /\ tx' = file
       /\ UNCHANGED <<cur, chan, reload, file, running, stale>>
    \/ \E m \in Names : Applies(m)
    \/ /\ pend = {}
       /\ \/ apc = "create" /\ apc' = "update" /\ pend' = Updated(cur)
          \/ apc = "update" /\ apc' = "delete" /\ pend' = Deleted(cur)
          \/ apc = "delete" /\ apc' = "commit"
       /\ UNCHANGED <<cur, chan, tx, reload, file, running, stale>>
    \/ /\ apc = "commit" /\ apc' = "reload" /\ file' = tx
       /\ UNCHANGED <<chan, reload, running, stale>>
    \/ /\ apc = "reload" /\ apc' = "recv"
       /\ IF reload THEN running' = file /\ stale' = {} ELSE UNCHANGED <<running, stale>>
       /\ UNCHANGED <<chan, reload, file>>

LEMMA ManagerSucceeds ==
    ASSUME HandlerInv, Progress, SyncInv, AppManager, fails' = 0
    PROVE  Succeeds /\ fails = 0
<1>0. fails \in Nat
  BY ConfAssumption DEF HandlerInv, TypeOK
<1>1. ~ClientFails
  BY <1>0 DEF ClientFails
<1>2. fails = 0
  BY <1>1 DEF AppManager, Receive, StartTransaction, LoopEnds, Commit, Reload, Create,
              FrontendEdit, BackendEdit, Delete, FailsOn, IsMissing
<1>3. ~applyErr /\ PathExists
  BY <1>2 DEF SyncInv
<1>4. CASE Receive
  <2>1. cur' = chan[1]
    BY <1>4 DEF Receive, HandlerInv, TypeOK
  <2> QED
    BY <1>2, <1>4, <2>1 DEF Receive, Succeeds, reloadMgr, haproxy
<1>5. CASE StartTransaction
  BY <1>1, <1>2, <1>5 DEF StartTransaction, Succeeds, reloadMgr, haproxy
<1>6. CASE LoopEnds
  <2>1. /\ apc \in {"create", "update", "delete"} /\ pend = {}
        /\ apc' = CASE apc = "create" -> "update"
                    [] apc = "update" -> "delete"
                    [] apc = "delete" -> "commit"
        /\ pend' = CASE apc = "create" -> Updated(cur)
                     [] apc = "update" -> Deleted(cur)
                     [] apc = "delete" -> {}
        /\ UNCHANGED <<cur, chan, tx, reload, file, running, stale>>
    BY <1>3, <1>6 DEF LoopEnds, reloadMgr, haproxy
  <2> QED
    BY <1>2, <2>1 DEF Succeeds
<1>7. CASE Commit
  BY <1>1, <1>2, <1>7 DEF Commit, Succeeds, reloadMgr
<1>8. CASE Reload
  BY <1>1, <1>2, <1>8 DEF Reload, Dispose, Succeeds, reloadMgr
<1>9. ASSUME NEW m \in Names, Create(m) \/ FrontendEdit(m) \/ BackendEdit(m) \/ Delete(m)
      PROVE  Applies(m)
  <2>1. m \in pend /\ pend' = pend \ {m} /\ UNCHANGED <<apc, cur, chan, file, running, stale>>
    BY <1>9 DEF Create, FrontendEdit, BackendEdit, Delete, haproxy
  <2>2. CASE Create(m)
    <3>1. apc = "create" /\ reload' = TRUE
      BY <1>1, <2>2 DEF Create, FailsOn
    <3> QED
      BY <2>1, <3>1 DEF Applies
  <2>3. CASE FrontendEdit(m) \/ BackendEdit(m)
    <3>1. tx[m] # Absent /\ apc = "update"
      BY <1>3, <2>1, <2>3, SectionsFound DEF FrontendEdit, BackendEdit
    <3>2. CASE FrontendEdit(m)
      <4>1. reload' = TRUE
        BY <1>1, <3>1, <3>2 DEF FrontendEdit, FailsOn, IsMissing
      <4> QED
        BY <2>1, <3>1, <4>1 DEF Applies
    <3>3. CASE BackendEdit(m)
      <4>1. /\ m \in Backends /\ reload' = (reload \/ EditNeedsReload(m))
            /\ tx' = [tx EXCEPT ![m] = cur.sections[m].updated.sec]
        BY <1>1, <3>1, <3>3 DEF BackendEdit, FailsOn, IsMissing
      <4> QED
        BY <2>1, <3>1, <4>1 DEF Applies
    <3> QED
      BY <2>3, <3>2, <3>3
  <2>4. CASE Delete(m)
    <3>1. apc = "delete" /\ reload' = TRUE
      BY <1>1, <2>4 DEF Delete
    <3> QED
      BY <2>1, <3>1 DEF Applies
  <2> QED
    BY <1>9, <2>2, <2>3, <2>4
<1> QED
  BY <1>2, <1>4, <1>5, <1>6, <1>7, <1>8, <1>9 DEF AppManager, Succeeds

LEMMA SpacedKeeps ==
    ASSUME Overlap = FALSE, HandlerInv, Progress, Spaced, [Next]_vars
    PROVE  Spaced'
<1>0. chan \in Seq(Diff) /\ Len(chan) \in Nat
  BY DEF HandlerInv, TypeOK
<1>1. CASE StartBuild
  BY <1>1 DEF StartBuild, Spaced, aVars
<1>2. CASE BuildCertificates \/ ProcessCertificates \/ EndpointSlicesDone
  BY <1>2 DEF BuildCertificates, ProcessCertificates, EndpointSlicesDone, Spaced, aVars
<1>3. CASE ProcessGateways \/ ProcessBackends \/ CleanupAfterFirstSync
              \/ \E n \in Backends : UpsertBackendWithServers(n)
  <2>1. Stores /\ UNCHANGED apc
    BY <1>3, ConfigureStores, CleanupStores, UpsertServersStores
       DEF ProcessGateways, ProcessBackends, CleanupAfterFirstSync, UpsertBackendWithServers
  <2>2. chan' \in Seq(Diff) /\ Len(chan') = Len(chan)
    BY <2>1, StoresKeep
  <2>3. chan = <<>> /\ apc = "recv"
    BY <1>3 DEF ProcessGateways, ProcessBackends, CleanupAfterFirstSync,
                UpsertBackendWithServers, Spaced
  <2>4. chan' = <<>>
    BY <2>2, <2>3
  <2> QED
    BY <2>1, <2>3, <2>4 DEF Spaced
<1>4. CASE SendDiffs
  <2>1. chan = <<>> /\ apc = "recv" /\ apc' = apc /\ hpc' = "idle"
    BY <1>4 DEF SendDiffs, Spaced, aVars
  <2>2. diffs \in Diff
    BY DEF HandlerInv, TypeOK
  <2>3. Len(chan') <= 1
    <3>1. chan' = chan \/ chan' = Append(chan, diffs)
      BY <1>4 DEF SendDiffs
    <3>2. Len(chan) = 0 /\ Len(Append(chan, diffs)) = 1
      BY <1>0, <2>1, <2>2
    <3> QED
      BY <3>1, <3>2
  <2> QED
    BY <2>1, <2>3 DEF Spaced
<1>5. CASE Receive
  <2>1. hpc' = hpc /\ hpc = "idle" /\ apc' = "start" /\ chan' = Tail(chan) /\ chan # <<>>
    BY <1>5 DEF Receive, Spaced, hVars
  <2>2. Len(chan) = 1
    <3>1. Len(chan) # 0
      BY <1>0, <2>1
    <3>2. Len(chan) <= 1
      BY DEF Spaced
    <3>3. \A k \in Nat : k # 0 /\ k <= 1 => k = 1
      OBVIOUS
    <3> QED
      BY <1>0, <3>1, <3>2, <3>3
  <2>3. chan' = <<>> /\ Len(chan') = 0
    BY <1>0, <2>1, <2>2
  <2> QED
    BY <2>1, <2>3 DEF Spaced
<1>6. CASE StartTransaction \/ LoopEnds \/ Commit \/ Reload
              \/ \E n \in Names : Create(n) \/ FrontendEdit(n) \/ BackendEdit(n) \/ Delete(n)
  <2>1. apc # "recv" /\ UNCHANGED <<hpc, chan>>
    BY <1>6 DEF StartTransaction, LoopEnds, Commit, Reload, Create, FrontendEdit,
                BackendEdit, Delete, hVars
  <2> QED
    BY <2>1 DEF Spaced
<1>7. CASE UNCHANGED vars
  BY <1>7 DEF vars, hVars, aVars, Spaced
<1> QED
  BY <1>1, <1>2, <1>3, <1>4, <1>5, <1>6, <1>7 DEF Next, HandleBatch, AppManager

(* During a batch the process keeps its settings.                          *)
LEMMA SettingsStay ==
    ASSUME HandlerInv, HandleBatch
    PROVE  \A n \in Names : running'[n].cfg = running[n].cfg
<1>1. CASE UNCHANGED running
  BY <1>1
<1>2. ASSUME NEW m \in Backends, UpsertBackendWithServers(m)
      PROVE  \A n \in Names : running'[n].cfg = running[n].cfg
  <2>1. PICK gone : SetServerState(m, gone)
    BY <1>2 DEF UpsertBackendWithServers
  <2>2. PICK done : running' = [running EXCEPT ![m] = Without(running[m], done)]
    BY <2>1 DEF SetServerState
  <2>3. running \in [Names -> Section \cup {Absent}] /\ m \in Names
    BY DEF HandlerInv, TypeOK, Conf, Names
  <2>4. Without(running[m], done).cfg = running[m].cfg
    BY DEF Without
  <2> QED
    BY <2>2, <2>3, <2>4
<1> QED
  BY <1>1, <1>2 DEF HandleBatch, BuildCertificates, ProcessGateways, ProcessCertificates,
     ProcessBackends, CleanupAfterFirstSync, EndpointSlicesDone, SendDiffs, haproxy

LEMMA SettingsKeep ==
    ASSUME Overlap = FALSE, HandlerInv, Progress, SyncInv, Spaced, SettingsInv, [Next]_vars
    PROVE  SettingsInv'
<1>0. tx \in Conf /\ reload \in BOOLEAN
  BY DEF HandlerInv, TypeOK
<1>1. CASE StartBuild
  BY <1>1 DEF StartBuild, SettingsInv, Loads, aVars, haproxy
<1>2. CASE HandleBatch
  <2>1. apc = "recv"
    BY <1>2 DEF HandleBatch, BuildCertificates, ProcessGateways, ProcessCertificates,
       ProcessBackends, CleanupAfterFirstSync, EndpointSlicesDone, SendDiffs,
       UpsertBackendWithServers, Spaced
  <2>2. UNCHANGED <<apc, fails, file>>
    BY <1>2, HandlerProgress
  <2> QED
    BY <1>2, <2>1, <2>2, SettingsStay DEF SettingsInv, Loads
<1>3. CASE AppManager /\ fails' = 0
  <2>0. Succeeds /\ fails = 0
    BY <1>3, ManagerSucceeds
  <2>1. ASSUME NEW m \in Names, Applies(m)
        PROVE  SettingsInv'
    <3>1. apc \in {"create", "update", "delete"} /\ UNCHANGED <<apc, file, running>>
      BY <2>1 DEF Applies
    <3>2. Loads(file)' /\ (reload \/ Loads(tx))
      BY <2>0, <3>1 DEF SettingsInv, Loads
    <3>3. CASE reload' = TRUE
      BY <3>1, <3>2, <3>3 DEF SettingsInv
    <3>4. CASE /\ reload' = (reload \/ EditNeedsReload(m))
               /\ tx' = [tx EXCEPT ![m] = cur.sections[m].updated.sec]
      <4>1. CASE EditNeedsReload(m) \/ reload
        BY <3>1, <3>2, <3>4, <4>1 DEF SettingsInv
      <4>2. CASE ~(EditNeedsReload(m) \/ reload)
        <5>1. tx[m].cfg = cur.sections[m].updated.sec.cfg
          BY <4>2 DEF EditNeedsReload
        <5>2. \A n \in Names : tx'[n].cfg = tx[n].cfg
          BY <1>0, <3>4, <5>1 DEF Conf
        <5>3. Loads(tx)'
          BY <3>1, <3>2, <4>2, <5>2 DEF Loads
        <5> QED
          BY <3>1, <3>2, <5>3 DEF SettingsInv
      <4> QED
        BY <4>1, <4>2
    <3> QED
      BY <2>1, <3>3, <3>4 DEF Applies
  <2>2. CASE ~\E m \in Names : Applies(m)
    BY <2>0, <2>2 DEF Succeeds, SettingsInv, Loads
  <2> QED
    BY <2>1, <2>2
<1>4. CASE AppManager /\ fails' # 0
  BY <1>4 DEF SettingsInv
<1>5. CASE UNCHANGED vars
  BY <1>5 DEF SettingsInv, Loads, vars, reloadMgr, aVars, haproxy
<1> QED
  BY <1>1, <1>2, <1>3, <1>4, <1>5 DEF Next

LEMMA CertificatesKeep ==
    ASSUME Overlap = FALSE, HandlerInv, Progress, SyncInv, Spaced, CertificatesInv,
           [Next]_vars
    PROVE  CertificatesInv'
<1>0. reload \in BOOLEAN /\ diffs.reloadNeed \in BOOLEAN
  BY DEF HandlerInv, TypeOK, Diff
<1>1. CASE StartBuild
  BY <1>1 DEF StartBuild, CertificatesInv, aVars, haproxy
<1>2. CASE BuildCertificates
  <2>1. /\ hpc = "tree" /\ hpc' = "gateways" /\ UNCHANGED <<reload, cycles, fails>>
        /\ stale' = IF certWork' = "none" THEN stale ELSE stale \cup {cycles}
    BY <1>2 DEF BuildCertificates, reloadMgr, aVars
  <2>2. fails = 0 => ~reload /\ stale = {}
    BY <2>1 DEF CertificatesInv
  <2> QED
    BY <1>0, <2>1, <2>2 DEF CertificatesInv
<1>3. CASE ProcessGateways
  BY <1>0, <1>3 DEF ProcessGateways, CertificatesInv, reloadMgr, haproxy
<1>4. CASE ProcessCertificates
  <2>1. hpc = "certs" /\ hpc' = "routes" /\ UNCHANGED <<fails, certWork, cycles>>
    BY <1>4 DEF ProcessCertificates, aVars
  <2>2. fails = 0 => ~reload /\ stale = IF certWork = "none" THEN {} ELSE {cycles}
    BY <2>1 DEF CertificatesInv
  <2>3. fails = 0 => stale' = {} \/ reload' = TRUE
    <3>1. CASE certWork = "none" \/ (certWork = "certs" /\ reload)
      BY <1>4, <2>2, <3>1 DEF ProcessCertificates
    <3>2. CASE certWork = "certs" /\ ~reload
      BY <1>4, <2>2, <3>2 DEF ProcessCertificates
    <3>3. CASE certWork = "crtlists"
      BY <1>4, <3>3 DEF ProcessCertificates
    <3> QED
      BY <1>4, <3>1, <3>2, <3>3 DEF ProcessCertificates
  <2> QED
    BY <2>1, <2>3 DEF CertificatesInv
<1>5. CASE ProcessBackends
  BY <1>0, <1>5 DEF ProcessBackends, CertificatesInv, reloadMgr, haproxy
<1>6. CASE CleanupAfterFirstSync
  <2>1. /\ hpc = "cleanup" /\ hpc' = "servers" /\ UNCHANGED <<reload, fails, stale>>
        /\ diffs'.reloadNeed = reload
    BY <1>6 DEF CleanupAfterFirstSync, Store, reloadMgr, haproxy
  <2> QED
    BY <1>0, <2>1 DEF CertificatesInv
<1>7. CASE \E n \in Backends : UpsertBackendWithServers(n)
  <2>1. /\ hpc = "servers" /\ hpc' = hpc /\ UNCHANGED <<reload, fails, stale>>
        /\ diffs'.reloadNeed = diffs.reloadNeed
    BY <1>7 DEF UpsertBackendWithServers, Store
  <2> QED
    BY <1>0, <2>1 DEF CertificatesInv
<1>8. CASE EndpointSlicesDone
  BY <1>0, <1>8 DEF EndpointSlicesDone, CertificatesInv, reloadMgr, aVars, haproxy
<1>9. CASE SendDiffs
  <2>1. hpc = "send" /\ hpc' = "idle" /\ UNCHANGED <<reload, fails, stale>>
    BY <1>9 DEF SendDiffs, reloadMgr, aVars, haproxy
  <2>2. ASSUME diffs.reloadNeed PROVE chan' # <<>>
    <3>1. chan' = Append(chan, diffs) /\ chan \in Seq(Diff) /\ diffs \in Diff
      BY <1>9, <2>2 DEF SendDiffs, HandlerInv, TypeOK
    <3> QED
      BY <3>1
  <2> QED
    BY <1>0, <2>1, <2>2 DEF CertificatesInv
<1>10. CASE AppManager /\ fails' = 0
  <2>0. Succeeds /\ fails = 0 /\ UNCHANGED <<hpc, certWork, cycles, diffs>>
    BY <1>10, ManagerSucceeds DEF AppManager, Receive, StartTransaction, LoopEnds, Commit,
       Reload, Create, FrontendEdit, BackendEdit, Delete, hVars
  <2>1. hpc = "idle"
    BY <2>0 DEF Succeeds, Applies, Spaced
  <2>2. stale' = {} \/ (stale' = stale /\ (reload => reload') /\ apc' # "recv")
    <3>1. ASSUME NEW m \in Names, Applies(m)
          PROVE  stale' = stale /\ (reload => reload') /\ apc' # "recv"
      BY <1>0, <3>1 DEF Applies
    <3>2. CASE apc = "reload" /\ apc' = "recv"
      <4>1. stale # {} => reload
        BY <2>0, <2>1 DEF CertificatesInv
      <4> QED
        BY <2>0, <3>2, <4>1 DEF Succeeds, Applies
    <3>3. CASE ~(apc = "reload" /\ apc' = "recv") /\ ~\E m \in Names : Applies(m)
      BY <1>0, <2>0, <3>3 DEF Succeeds
    <3> QED
      BY <3>1, <3>2, <3>3
  <2> QED
    BY <2>0, <2>1, <2>2 DEF CertificatesInv
<1>11. CASE AppManager /\ fails' # 0
  BY <1>11 DEF CertificatesInv
<1>12. CASE UNCHANGED vars
  BY <1>12 DEF CertificatesInv, vars, reloadMgr, hVars, aVars, haproxy
<1> QED
  BY <1>1, <1>2, <1>3, <1>4, <1>5, <1>6, <1>7, <1>8, <1>9, <1>10, <1>11, <1>12
     DEF Next, HandleBatch

(* A write of sections only adds to the diffs, and outside                 *)
(* processEndpointSlices a section that is neither created nor deleted     *)
(* keeps its servers.                                                      *)
LEMMA StoresGrow ==
    ASSUME HandlerInv, Stores
    PROVE  /\ Created(diffs) \subseteq Created(diffs')
           /\ Updated(diffs) \subseteq Updated(diffs')
           /\ Deleted(diffs) \subseteq Deleted(diffs')
           /\ hpc # "servers" =>
                \A n \in Names : \/ n \in Created(diffs') \cup Deleted(diffs')
                                 \/ structured'[n].servers = structured[n].servers
<1>1. PICK cells \in [Names -> Cells], r \in BOOLEAN :
        Store(cells, r) /\ \A n \in Names : Legal(Cell(n), cells[n])
  BY DEF Stores
<1>2. \A n \in Names : structured'[n] = cells[n].now /\ diffs'.sections[n] = cells[n].diff
  BY <1>1 DEF Store
<1>3. \A n \in Names : Cell(n).now = structured[n] /\ Cell(n).diff = diffs.sections[n]
  BY DEF Cell
<1>4. \A n \in Names :
        /\ diffs.sections[n].created # NoEntry => diffs'.sections[n].created # NoEntry
        /\ diffs.sections[n].updated # NoEntry => diffs'.sections[n].updated # NoEntry
        /\ diffs.sections[n].deleted => diffs'.sections[n].deleted
  BY <1>1, <1>2, <1>3 DEF Legal, Carries
<1>5. hpc # "servers" =>
        \A n \in Names : \/ diffs'.sections[n].created # NoEntry
                         \/ diffs'.sections[n].deleted
                         \/ structured'[n].servers = structured[n].servers
  BY <1>1, <1>2, <1>3 DEF Legal, KeepsServers
<1> QED
  BY <1>4, <1>5 DEF Created, Updated, Deleted

(* The servers of a backend change: those that are gone get no traffic, or *)
(* the failure is noted and the backend is in the diff.                    *)
LEMMA ServersServe ==
    ASSUME HandlerInv, NEW n \in Backends, UpsertBackendWithServers(n),
           Serves(structured)
    PROVE  \/ Serves(structured)'
           \/ failed' = TRUE /\ n \in Updated(diffs')
<1>1. n \in Names /\ running \in Conf /\ structured \in Conf /\ Backends \subseteq Names
  BY DEF HandlerInv, TypeOK, Names
<1>2. PICK servers \in SUBSET Servers :
        /\ Store([m \in Names |-> IF m = n THEN WithServers(Cell(n), servers) ELSE Cell(m)],
                 diffs.reloadNeed)
        /\ SetServerState(n, structured[n].servers \ servers)
  BY DEF UpsertBackendWithServers
<1> DEFINE gone == structured[n].servers \ servers
<1>3. \A m \in Names : structured'[m] = IF m = n THEN WithServers(Cell(n), servers).now
                                        ELSE structured[m]
  BY <1>1, <1>2 DEF Store, Cell
<1>4. structured'[n].servers = servers
  BY <1>1, <1>3 DEF WithServers
<1>5. CASE running' = [running EXCEPT ![n] = Without(running[n], gone)]
  <2>1. ASSUME NEW m \in Backends
        PROVE  running'[m].servers \subseteq structured'[m].servers
    <3>1. running[m].servers \subseteq structured[m].servers /\ m \in Names
      BY <1>1 DEF Serves
    <3>2. CASE m = n
      <4>1. running'[n].servers = running[n].servers \ gone
        BY <1>1, <1>5 DEF Conf, Without
      <4> QED
        BY <1>4, <3>1, <3>2, <4>1
    <3>3. CASE m # n
      <4>1. running'[m] = running[m] /\ structured'[m] = structured[m]
        BY <1>1, <1>3, <1>5, <3>1, <3>3 DEF Conf
      <4> QED
        BY <3>1, <4>1
    <3> QED
      BY <3>2, <3>3
  <2> QED
    BY <2>1 DEF Serves
<1>6. CASE gone # {} /\ failed' = TRUE
  <2>1. WithServers(Cell(n), servers).diff.updated
          = Shared([cfg |-> structured[n].cfg, servers |-> servers])
    BY <1>6 DEF WithServers, Cell
  <2>2. Shared([cfg |-> structured[n].cfg, servers |-> servers]) # NoEntry
    BY DEF Shared, NoEntry
  <2>3. diffs'.sections[n] = WithServers(Cell(n), servers).diff
    BY <1>1, <1>2 DEF Store
  <2> QED
    BY <1>1, <1>6, <2>1, <2>2, <2>3 DEF Updated
<1> QED
  BY <1>2, <1>5, <1>6 DEF SetServerState

LEMMA ServersKeep ==
    ASSUME Overlap = FALSE, HandlerInv, Progress, SyncInv, Spaced, ServersInv,
           [Next]_vars
    PROVE  ServersInv'
<1>0. chan \in Seq(Diff) /\ failed \in BOOLEAN /\ reload \in BOOLEAN /\ Backends \subseteq Names
  BY DEF HandlerInv, TypeOK, Names
<1>1. CASE StartBuild
  <2>1. chan = <<>> /\ apc = "recv" /\ hpc = "idle" /\ UNCHANGED <<fails, structured, running>>
    BY <1>1 DEF StartBuild, aVars, haproxy
  <2>2. fails = 0 => Serves(structured)
    BY <2>1 DEF ServersInv
  <2> QED
    BY <2>1, <2>2 DEF ServersInv, Serves
<1>2. CASE BuildCertificates \/ ProcessCertificates \/ EndpointSlicesDone
  <2>1. /\ chan = <<>> /\ apc = "recv" /\ hpc # "idle" /\ hpc' # "idle"
        /\ UNCHANGED <<fails, structured, running, diffs, failed>>
    BY <1>2 DEF BuildCertificates, ProcessCertificates, EndpointSlicesDone, Spaced,
                reloadMgr, aVars, haproxy
  <2>2. fails = 0 => Serves(structured) \/ MakesReload(diffs)
    BY <2>1 DEF ServersInv
  <2> QED
    BY <2>1, <2>2 DEF ServersInv, Serves, MakesReload
<1>3. CASE ProcessGateways \/ ProcessBackends \/ CleanupAfterFirstSync
  <2>1. /\ chan = <<>> /\ apc = "recv" /\ hpc # "idle" /\ hpc' # "idle" /\ hpc # "servers"
        /\ UNCHANGED <<fails, running, failed>>
    BY <1>3 DEF ProcessGateways, ProcessBackends, CleanupAfterFirstSync, Spaced,
                reloadMgr, haproxy
  <2>2. fails = 0 => Serves(structured) \/ MakesReload(diffs)
    BY <2>1 DEF ServersInv
  <2>3. Stores
    BY <1>3, ConfigureStores, CleanupStores DEF ProcessGateways, ProcessBackends
  <2>4. /\ Created(diffs) \subseteq Created(diffs')
        /\ Updated(diffs) \subseteq Updated(diffs')
        /\ Deleted(diffs) \subseteq Deleted(diffs')
        /\ \A n \in Names : \/ n \in Created(diffs') \cup Deleted(diffs')
                            \/ structured'[n].servers = structured[n].servers
    BY <2>1, <2>3, StoresGrow
  <2>5. MakesReload(diffs) => MakesReload(diffs)'
    BY <1>0, <2>1, <2>4 DEF MakesReload
  <2>6. Serves(structured) => Serves(structured)' \/ MakesReload(diffs)'
    <3>1. CASE Created(diffs') \cup Deleted(diffs') = {}
      BY <1>0, <2>1, <2>4, <3>1 DEF Serves
    <3>2. CASE Created(diffs') \cup Deleted(diffs') # {}
      BY <3>2 DEF MakesReload
    <3> QED
      BY <3>1, <3>2
  <2> QED
    BY <2>1, <2>2, <2>5, <2>6 DEF ServersInv
<1>4. ASSUME NEW n \in Backends, UpsertBackendWithServers(n)
      PROVE  ServersInv'
  <2>1. chan = <<>> /\ apc = "recv" /\ hpc = "servers" /\ hpc' = hpc /\ UNCHANGED fails
    BY <1>4 DEF UpsertBackendWithServers, Spaced
  <2>2. fails = 0 => Serves(structured) \/ MakesReload(diffs)
    BY <2>1 DEF ServersInv
  <2>3. Stores
    BY <1>4, UpsertServersStores
  <2>4. /\ Created(diffs) \subseteq Created(diffs')
        /\ Updated(diffs) \subseteq Updated(diffs')
        /\ Deleted(diffs) \subseteq Deleted(diffs')
    BY <2>3, StoresGrow
  <2>5. failed' = TRUE \/ failed' = failed
    BY <1>4 DEF UpsertBackendWithServers, SetServerState
  <2>6. MakesReload(diffs) => MakesReload(diffs)'
    BY <1>0, <2>4, <2>5 DEF MakesReload
  <2>7. Serves(structured) => Serves(structured)' \/ MakesReload(diffs)'
    BY <1>4, ServersServe DEF MakesReload
  <2> QED
    BY <2>1, <2>2, <2>6, <2>7 DEF ServersInv
<1>5. CASE SendDiffs
  <2>1. /\ chan = <<>> /\ apc = "recv" /\ hpc = "send"
        /\ UNCHANGED <<fails, structured, running, failed>> /\ diffs \in Diff
    BY <1>5 DEF SendDiffs, Spaced, reloadMgr, aVars, haproxy, HandlerInv, TypeOK
  <2>2. fails = 0 => Serves(structured) \/ MakesReload(diffs)
    BY <2>1 DEF ServersInv
  <2>3. ASSUME MakesReload(diffs)
        PROVE  chan' # <<>> /\ MakesReload(chan[1])'
    <3>1. ~IsEmpty(diffs)
      BY <2>3 DEF MakesReload, IsEmpty
    <3>2. chan' = Append(chan, diffs)
      BY <1>5, <3>1 DEF SendDiffs
    <3>3. chan' # <<>> /\ chan'[1] = diffs
      BY <2>1, <3>2
    <3> QED
      BY <2>1, <2>3, <3>3 DEF MakesReload
  <2> QED
    BY <2>1, <2>2, <2>3 DEF ServersInv, Serves
<1>6. CASE AppManager /\ fails' = 0
  <2>0. Succeeds /\ fails = 0 /\ UNCHANGED <<hpc, structured, diffs, failed>>
    BY <1>6, ManagerSucceeds DEF AppManager, Receive, StartTransaction, LoopEnds, Commit,
       Reload, Create, FrontendEdit, BackendEdit, Delete, hVars, reloadMgr
  <2>1. hpc = "idle"
    BY <2>0 DEF Succeeds, Applies, Spaced
  <2>2. \/ Serves(structured)
        \/ chan # <<>> /\ MakesReload(chan[1])
        \/ apc # "recv" /\ WillReload
    BY <2>0, <2>1 DEF ServersInv
  <2>3. CASE apc = "recv"
    <3>1. cur' = chan[1] /\ apc' = "start" /\ UNCHANGED running
      BY <2>0, <2>3 DEF Succeeds, Applies
    <3>2. MakesReload(chan[1]) => WillReload'
      BY <2>0, <3>1 DEF WillReload, MakesReload
    <3> QED
      BY <2>0, <2>2, <2>3, <3>1, <3>2 DEF ServersInv, Serves
  <2>4. CASE apc = "reload"
    <3>1. /\ chan = <<>> /\ UNCHANGED <<chan, file>> /\ apc' = "recv"
          /\ IF reload THEN running' = file ELSE UNCHANGED running
      BY <2>0, <2>4 DEF Succeeds, Applies, Spaced
    <3>2. CASE reload
      <4>1. file = structured
        BY <2>0, <2>1, <2>4, <3>1, QuietFile
      <4> QED
        BY <2>0, <3>1, <3>2, <4>1 DEF ServersInv, Serves
    <3>3. CASE ~reload
      <4>1. Serves(structured)
        BY <2>2, <2>4, <3>1, <3>3 DEF WillReload
      <4> QED
        BY <2>0, <3>1, <3>3, <4>1 DEF ServersInv, Serves
    <3> QED
      BY <3>2, <3>3
  <2>5. CASE apc \notin {"recv", "reload"}
    <3>1. chan = <<>> /\ apc' # "recv" /\ UNCHANGED running
      BY <2>0, <2>5 DEF Succeeds, Applies, Spaced
    <3>2. WillReload => WillReload'
      <4>1. ASSUME NEW m \in Names, Applies(m), WillReload
            PROVE  WillReload'
        <5>1. CASE reload' = TRUE
          BY <5>1 DEF WillReload
        <5>2. CASE reload' # TRUE
          <6>1. apc = "update" /\ reload' = (reload \/ EditNeedsReload(m))
                /\ UNCHANGED <<apc, cur>>
            BY <4>1, <5>2 DEF Applies
          <6>2. ~reload /\ ~failed
            BY <1>0, <5>2, <6>1 DEF EditNeedsReload
          <6>3. Deleted(cur) # {}
            BY <4>1, <6>1, <6>2 DEF WillReload
          <6> QED
            BY <6>1, <6>3 DEF WillReload
        <5> QED
          BY <5>1, <5>2
      <4>2. CASE ~\E m \in Names : Applies(m)
        BY <2>0, <2>5, <4>2 DEF Succeeds, WillReload, MakesReload
      <4> QED
        BY <4>1, <4>2
    <3> QED
      BY <2>0, <2>2, <2>5, <3>1, <3>2 DEF ServersInv, Serves
  <2> QED
    BY <2>3, <2>4, <2>5
<1>7. CASE AppManager /\ fails' # 0
  BY <1>7 DEF ServersInv
<1>8. CASE UNCHANGED vars
  BY <1>8 DEF ServersInv, Serves, MakesReload, WillReload, vars, reloadMgr, hVars, aVars, haproxy
<1> QED
  BY <1>1, <1>2, <1>3, <1>4, <1>5, <1>6, <1>7, <1>8 DEF Next, HandleBatch

LEMMA SpacedHolds ==
    ASSUME Overlap = FALSE
    PROVE  Spec => [](HandlerInv /\ SyncInv /\ SpacedInv)
<1>1. Init => SpacedInv
  <2> SUFFICES ASSUME Init PROVE SpacedInv
    OBVIOUS
  <2>1. chan = <<>> /\ Len(chan) = 0 /\ Len(chan) <= 1
    BY DEF Init
  <2>2. Spaced
    BY <2>1 DEF Init, Spaced
  <2>3. SettingsInv /\ CertificatesInv /\ ServersInv
    BY DEF Init, SettingsInv, Loads, CertificatesInv, ServersInv, Serves
  <2> QED
    BY <2>2, <2>3 DEF SpacedInv
<1>2. HandlerInv /\ Progress /\ SyncInv /\ SpacedInv /\ [Next]_vars => SpacedInv'
  BY SpacedKeeps, SettingsKeep, CertificatesKeep, ServersKeep DEF SpacedInv
<1> QED
  BY <1>1, <1>2, SyncHolds, PTL DEF Spec

(* If no batch begins before the diffs of the one before are applied, the  *)
(* process has loaded the settings of every committed section: the edits   *)
(* BackendEdit leaves to the runtime socket change none.                   *)
THEOREM SettingsAreLoaded ==
    ASSUME Overlap = FALSE
    PROVE  Spec => []SettingsLoaded
<1>1. SpacedInv => SettingsLoaded
  BY DEF SpacedInv, SettingsInv, Loads, SettingsLoaded, Quiet
<1> QED
  BY <1>1, SpacedHolds, PTL

(* In that case a server that left the configuration gets no traffic: the  *)
(* runtime socket stopped it, or the failure made the process reload.      *)
THEOREM RemovedServersAreStopped ==
    ASSUME Overlap = FALSE
    PROVE  Spec => []RemovedServersStop
<1>1. ASSUME HandlerInv, SyncInv, SpacedInv, Quiet, fails = 0
      PROVE  \A n \in Backends : running[n].servers \subseteq file[n].servers
  <2>1. hpc = "idle" /\ chan = <<>> /\ apc = "recv"
    BY <1>1 DEF Quiet
  <2>2. Serves(structured)
    BY <1>1, <2>1 DEF SpacedInv, ServersInv
  <2>3. file = structured
    BY <1>1, <2>1, QuietFile
  <2> QED
    BY <2>2, <2>3 DEF Serves
<1>2. HandlerInv /\ SyncInv /\ SpacedInv => RemovedServersStop
  BY <1>1 DEF RemovedServersStop
<1> QED
  BY <1>2, SpacedHolds, PTL

(* In that case the process uses the certificates on disk: those the       *)
(* runtime socket did not update made it reload.                           *)
THEOREM CertificatesAreLoaded ==
    ASSUME Overlap = FALSE
    PROVE  Spec => []CertificatesLoaded
<1>1. SpacedInv => CertificatesLoaded
  BY DEF SpacedInv, CertificatesInv, CertificatesLoaded, Quiet
<1> QED
  BY <1>1, SpacedHolds, PTL
=============================================================================
