----------------------------- MODULE DiskCache -----------------------------
(***************************************************************************)
(* The disk cache's index and its leases: resolvers of .lnk blobs look an  *)
(* entry up, check the file, pin the entry and use the file; the collector *)
(* reaps the leases of dead processes, lists the entries nobody pins and   *)
(* evicts them; a daemon that starts reconciles index and disk.            *)
(*                                                                         *)
(* Every statement on the SQLite index is a step of its own: no operation  *)
(* of CacheIndex opens a transaction, and each DiskCache has a connection  *)
(* of its own, so its mutex excludes nobody else.  The pin count of an     *)
(* entry is abstracted to zero or not, the order of eviction to any order  *)
(* and the budget to the collector stopping at any point.                  *)
(***************************************************************************)
EXTENDS Integers, FiniteSets

CONSTANTS Resolvers,  \* calls of lnk::resolve
          Procs,      \* processes
          ProcOf,     \* the process of a resolver
          Blobs,      \* (url, sha256) pairs
          None,
          MaxId,      \* bound: row ids
          MaxPasses,  \* bound: passes of the collector
          MaxStarts,  \* bound: daemon starts
          MaxFaults   \* bound: processes that die

Ids == 1..MaxId
Victims == [id : Ids, blob : Blobs]

ASSUME ProcAssumption == ProcOf \in [Resolvers -> Procs]
ASSUME FiniteAssumption == IsFiniteSet(Resolvers)
ASSUME RowAssumption == None \notin Ids \cup Blobs \cup Victims
ASSUME BoundAssumption ==
  /\ MaxId \in Nat /\ MaxPasses \in Nat /\ MaxStarts \in Nat
  /\ MaxFaults \in Nat

VARIABLES pc,        \* where a resolver is
          blob,      \* what it resolves
          entry,     \* the row id it has read
          row,       \* table entries: the blob of an id, None for no row
          archived,  \* ids whose archive_path is not NULL
          pinned,    \* ids whose pinned is not 0
          leases,    \* table leases: refcount by id and process (0: no row)
          disk,      \* blobs whose file is in its archive directory
          staging,   \* blobs with a file in the staging directory
          dead,      \* processes that died
          recycled,  \* of those, the ones whose pid is in use again
          gc,        \* where the collector is
          victims,   \* what it has listed
          cur,       \* the one it evicts
          uncounted, \* history: it died between its reaping and its recount
          recon,     \* where reconcile is
          seen,      \* what it has listed
          gone,      \* of that, what it found without a file
          kept,      \* history: resolvers with a lease when victims was listed
          displaced, \* history: a row was deleted under someone who knew its id
          passes, starts, faults

resolver == <<pc, blob, entry>>
table == <<row, archived, pinned>>
index == <<table, leases>>
files == <<disk, staging>>
collector == <<gc, victims, cur, uncounted>>
reconciler == <<recon, seen, gone>>
history == <<kept, displaced>>
bounds == <<passes, starts, faults>>
fate == <<dead, recycled>>

\* What no step of a resolver changes.
world == <<fate, collector, reconciler, history, bounds>>
vars == <<resolver, index, files, world>>

Holding == {"hold", "using"}

Init ==
  /\ pc = [r \in Resolvers |-> "idle"]
  /\ blob = [r \in Resolvers |-> None]
  /\ entry = [r \in Resolvers |-> None]
  /\ row = [i \in Ids |-> None] /\ archived = {} /\ pinned = {}
  /\ leases = [i \in Ids |-> [p \in Procs |-> 0]]
  /\ disk = {} /\ staging = {}
  /\ dead = {} /\ recycled = {}
  /\ gc = "idle" /\ victims = {} /\ cur = None /\ uncounted = FALSE
  /\ recon = "idle" /\ seen = {} /\ gone = {}
  /\ kept = {} /\ displaced = FALSE
  /\ passes = 0 /\ starts = 0 /\ faults = 0

\* Resolver r is at s and its process runs.
At(r, s) == pc[r] = s /\ ProcOf[r] \notin dead
Goto(r, s) == pc' = [pc EXCEPT ![r] = s]

\* The rows of a blob (at most one: UNIQUE(kind, hash, version)).
IdsOf(b) == {i \in Ids : row[i] = b}
Leased(i) == \E p \in Procs : leases[i][p] > 0

\* UPDATE entries SET pinned = SUM(refcount), for the rows of ids that exist.
Recount(ids) ==
  pinned' = (pinned \ ids) \cup {i \in ids : row[i] # None /\ Leased(i)}

-----------------------------------------------------------------------------
(* lnk::resolve. *)

Lookup(r, b) ==
  /\ At(r, "idle")
  /\ blob' = [blob EXCEPT ![r] = b]
  /\ \/ \E i \in IdsOf(b) :
          /\ entry' = [entry EXCEPT ![r] = i]
          /\ Goto(r, IF i \in archived THEN "verify" ELSE "download")
     \/ IdsOf(b) = {} /\ Goto(r, "download") /\ UNCHANGED entry
  /\ UNCHANGED <<index, files, world>>

\* The file is there and has the right hash, or it is fetched again.
Verify(r) ==
  /\ At(r, "verify")
  /\ Goto(r, IF blob[r] \in disk THEN "pin" ELSE "download")
  /\ UNCHANGED <<blob, entry, index, files, world>>

\* download_file, into the staging directory all resolvers of a blob share.
Download(r) ==
  /\ At(r, "download")
  /\ \/ Goto(r, "failed") /\ UNCHANGED staging
     \/ Goto(r, "promote") /\ staging' = staging \cup {blob[r]}
  /\ UNCHANGED <<blob, entry, index, disk, world>>

\* The hash of the staged file and the rename: an error when it is not there.
Promote(r) ==
  /\ At(r, "promote")
  /\ IF blob[r] \in staging
     THEN /\ disk' = disk \cup {blob[r]}
          /\ staging' = staging \ {blob[r]}
          /\ Goto(r, "record")
     ELSE Goto(r, "failed") /\ UNCHANGED files
  /\ UNCHANGED <<blob, entry, index, world>>

\* record_archive's upsert: a new row gets the largest id plus one.
IsNewId(i) ==
  /\ \A j \in Ids : j >= i => row[j] = None
  /\ i > 1 => row[i - 1] # None

Record(r) ==
  /\ At(r, "record")
  /\ \E i \in Ids :
       /\ \/ i \in IdsOf(blob[r])
          \/ IdsOf(blob[r]) = {} /\ IsNewId(i)
       /\ row' = [row EXCEPT ![i] = blob[r]]
       /\ archived' = archived \cup {i}
  /\ Goto(r, "reread")
  /\ UNCHANGED <<blob, entry, pinned, leases, files, world>>

\* record_archive's lookup of the row it wrote: expect("entry must exist").
Reread(r) ==
  /\ At(r, "reread")
  /\ \/ \E i \in IdsOf(blob[r]) :
          entry' = [entry EXCEPT ![r] = i] /\ Goto(r, "pin")
     \/ IdsOf(blob[r]) = {} /\ Goto(r, "panicked") /\ UNCHANGED entry
  /\ UNCHANGED <<blob, index, files, world>>

-----------------------------------------------------------------------------
(* pin and unpin. *)

Refcount(r) == leases[entry[r]][ProcOf[r]]
SetLease(r, n) ==
  leases' = [leases EXCEPT ![entry[r]][ProcOf[r]] = n]

\* UPDATE leases SET refcount = refcount + 1.
PinUpdate(r) ==
  /\ At(r, "pin")
  /\ IF Refcount(r) > 0
     THEN /\ SetLease(r, Refcount(r) + 1)
          /\ Goto(r, "count")
     ELSE Goto(r, "insert") /\ UNCHANGED leases
  /\ UNCHANGED <<blob, entry, table, files, world>>

\* INSERT INTO leases: refused when the entry is gone (foreign key) or a
\* task of the same process has inserted the row meanwhile (primary key).
PinInsert(r) ==
  /\ At(r, "insert")
  /\ IF row[entry[r]] # None /\ Refcount(r) = 0
     THEN SetLease(r, 1) /\ Goto(r, "count")
     ELSE Goto(r, "failed") /\ UNCHANGED leases
  /\ UNCHANGED <<blob, entry, table, files, world>>

\* Mutant: the lease is written and the entry's pin count is not.
PinSkipsCount(r) ==
  /\ At(r, "count")
  /\ Goto(r, "hold")
  /\ UNCHANGED <<blob, entry, index, files, world>>

PinCount(r) ==
  /\ At(r, "count")
  /\ Recount({entry[r]})
  /\ Goto(r, "hold")
  /\ UNCHANGED <<blob, entry, row, archived, leases, files, world>>

\* materialize_one places or extracts the file, if it is still there.
Materialize(r) ==
  /\ At(r, "hold")
  /\ blob[r] \in disk
  /\ Goto(r, "using")
  /\ UNCHANGED <<blob, entry, index, files, world>>

\* Mutant: the process's lease goes with the first of its guards.
UnpinDropsRow(r) ==
  /\ \E s \in Holding : At(r, s)
  /\ SetLease(r, 0)
  /\ Goto(r, "uncount")
  /\ UNCHANGED <<blob, entry, table, files, world>>

\* Mutant: a decrement without a row to decrement.
UnpinBelowZero(r) ==
  /\ \E s \in Holding : At(r, s)
  /\ SetLease(r, Refcount(r) - 1)
  /\ Goto(r, "uncount")
  /\ UNCHANGED <<blob, entry, table, files, world>>

\* Drop of the Lease: the decrement, and the removal of a row at zero.  The
\* second statement changes nothing another step can tell from its absence.
UnpinUpdate(r) ==
  /\ \E s \in Holding : At(r, s)
  /\ LET n == Refcount(r)
     IN  SetLease(r, IF n > 0 THEN n - 1 ELSE 0)
  /\ Goto(r, "uncount")
  /\ UNCHANGED <<blob, entry, table, files, world>>

UnpinCount(r) ==
  /\ At(r, "uncount")
  /\ Recount({entry[r]})
  /\ Goto(r, "done")
  /\ UNCHANGED <<blob, entry, row, archived, leases, files, world>>

-----------------------------------------------------------------------------
(* run_gc, in the daemon (under gc_mutex) or in a CLI without one. *)

Reapable(p) == p \in dead \ recycled /\ \E i \in Ids : leases[i][p] > 0

\* reap_dead_leases, up to the deletions: by pid, the nonce is not looked at.
GcReap ==
  /\ gc = "idle"
  /\ passes < MaxPasses
  /\ passes' = passes + 1
  /\ leases' = [i \in Ids |-> [p \in Procs |->
                  IF p \in dead \ recycled THEN 0 ELSE leases[i][p]]]
  /\ gc' = IF \E p \in Procs : Reapable(p) THEN "recount" ELSE "list"
  /\ UNCHANGED <<resolver, table, files, fate, victims, cur, uncounted,
                 reconciler, history, starts, faults>>

\* ... and its recount of every entry, only after a reaping.
GcRecount ==
  /\ gc = "recount"
  /\ Recount(Ids)
  /\ gc' = "list"
  /\ uncounted' = FALSE
  /\ UNCHANGED <<resolver, row, archived, leases, files, fate, victims, cur,
                 reconciler, history, bounds>>

\* What a query for these ids returns.
Entries(ids) == {[id |-> i, blob |-> row[i]] : i \in ids}

\* Resolvers with a lease and a file behind it.
Protected == {r \in Resolvers : /\ \E s \in Holding : At(r, s)
                                /\ blob[r] \in disk}

\* Mutant: pinned entries are listed too.
GcListAll ==
  /\ gc = "list"
  /\ victims' = Entries(archived)
  /\ kept' = Protected
  /\ gc' = "evict"
  /\ UNCHANGED <<resolver, index, files, fate, cur, uncounted, reconciler,
                 displaced, bounds>>

\* lru_archive_entries: archived and not pinned, read once for the whole pass.
GcList ==
  /\ gc = "list"
  /\ victims' = Entries(archived \ pinned)
  /\ kept' = Protected
  /\ gc' = "evict"
  /\ UNCHANGED <<resolver, index, files, fate, cur, uncounted, reconciler,
                 displaced, bounds>>

\* remove_path of the next victim, which may fail; or enough has been freed.
GcRemove ==
  /\ gc = "evict"
  /\ \/ \E v \in victims :
          /\ victims' = victims \ {v}
          /\ \/ disk' = disk \ {v.blob} /\ cur' = v /\ gc' = "clear"
             \/ UNCHANGED <<disk, cur, gc>>
     \/ victims' = {} /\ gc' = "idle" /\ UNCHANGED <<disk, cur>>
  /\ UNCHANGED <<resolver, index, staging, fate, uncounted, reconciler,
                 history, bounds>>

\* clear_archive of the victim's id.
GcClear ==
  /\ gc = "clear"
  /\ archived' = archived \ {cur.id}
  /\ gc' = "delete"
  /\ UNCHANGED <<resolver, row, pinned, leases, files, fate, victims, cur,
                 uncounted, reconciler, history, bounds>>

\* delete_entry of the victim's id, its leases with it.
GcDelete ==
  /\ gc = "delete"
  /\ row' = [row EXCEPT ![cur.id] = None]
  /\ archived' = archived \ {cur.id}
  /\ pinned' = pinned \ {cur.id}
  /\ leases' = [leases EXCEPT ![cur.id] = [p \in Procs |-> 0]]
  /\ displaced' = (displaced \/ \E r \in Resolvers :
                                  /\ entry[r] = cur.id
                                  /\ pc[r] \notin {"done", "failed"})
  /\ gc' = "evict"
  /\ cur' = None
  /\ UNCHANGED <<resolver, files, fate, victims, uncounted, reconciler, kept,
                 bounds>>

-----------------------------------------------------------------------------
(* reconcile, when a daemon starts. *)

ReconList ==
  /\ recon = "idle"
  /\ starts < MaxStarts
  /\ starts' = starts + 1
  /\ seen' = Entries(archived)
  /\ recon' = "check"
  /\ UNCHANGED <<resolver, index, files, fate, collector, gone, history,
                 passes, faults>>

\* Phase 1: an entry whose file is missing...
ReconCheck ==
  /\ recon = "check"
  /\ gone = {}
  /\ \/ \E v \in seen :
          /\ seen' = seen \ {v}
          /\ gone' = IF v.blob \in disk THEN {} ELSE {v}
          /\ UNCHANGED recon
     \/ /\ seen = {}
        /\ recon' = "sweep"
        /\ UNCHANGED <<seen, gone>>
  /\ UNCHANGED <<resolver, index, files, fate, collector, history, bounds>>

\* ... loses its path.
ReconClear ==
  /\ recon = "check"
  /\ \E v \in gone : archived' = archived \ {v.id}
  /\ gone' = {}
  /\ UNCHANGED <<resolver, row, pinned, leases, files, fate, collector, recon,
                 seen, history, bounds>>

(***************************************************************************)
(* Phase 2 removes the staging directories, and every leaf directory that  *)
(* is not itself a recorded path: a blob's recorded path is the file, so   *)
(* its directory never is one.                                             *)
(***************************************************************************)
ReconSweep ==
  /\ recon = "sweep"
  /\ \/ \E b \in Blobs :
          /\ b \in disk \cup staging
          /\ \/ disk' = disk \ {b} /\ UNCHANGED staging
             \/ staging' = staging \ {b} /\ UNCHANGED disk
          /\ kept' = {}
          /\ UNCHANGED recon
     \/ recon' = "idle" /\ UNCHANGED <<files, kept>>
  /\ UNCHANGED <<resolver, index, fate, collector, seen, gone, displaced,
                 bounds>>

-----------------------------------------------------------------------------
(* Faults. *)

Crash(p) ==
  /\ p \notin dead
  /\ faults < MaxFaults
  /\ faults' = faults + 1
  /\ dead' = dead \cup {p}
  /\ kept' = {r \in kept : ProcOf[r] # p}
  /\ UNCHANGED <<resolver, index, files, recycled, collector, reconciler,
                 displaced, passes, starts>>

Recycle(p) ==
  /\ p \in dead \ recycled
  /\ recycled' = recycled \cup {p}
  /\ UNCHANGED <<resolver, index, files, dead, collector, reconciler, history,
                 bounds>>

\* The process of the collector dies.
GcDies ==
  /\ gc # "idle"
  /\ faults < MaxFaults
  /\ faults' = faults + 1
  /\ gc' = "idle"
  /\ uncounted' = (uncounted \/ gc = "recount")
  /\ victims' = {}
  /\ cur' = None
  /\ UNCHANGED <<resolver, index, files, fate, reconciler, history, passes,
                 starts>>

Resolve(r) ==
  \/ \E b \in Blobs : Lookup(r, b)
  \/ Verify(r) \/ Download(r) \/ Promote(r) \/ Record(r) \/ Reread(r)
  \/ PinUpdate(r) \/ PinInsert(r) \/ PinCount(r) \/ Materialize(r)
  \/ UnpinUpdate(r) \/ UnpinCount(r)

Collect ==
  GcReap \/ GcRecount \/ GcList \/ GcRemove \/ GcClear \/ GcDelete \/ GcDies

Next ==
  \/ \E r \in Resolvers : Resolve(r)
  \/ Collect
  \/ ReconList \/ ReconCheck \/ ReconClear \/ ReconSweep
  \/ \E p \in Procs : Crash(p) \/ Recycle(p)

Spec == Init /\ [][Next]_vars
-----------------------------------------------------------------------------
(* Properties. *)

ResolversOK ==
  /\ pc \in [Resolvers -> {"idle", "verify", "download", "promote", "record",
                           "reread", "pin", "insert", "count", "uncount",
                           "done", "failed", "panicked"} \cup Holding]
  /\ blob \in [Resolvers -> Blobs \cup {None}]
  /\ entry \in [Resolvers -> Ids \cup {None}]

IndexOK ==
  /\ row \in [Ids -> Blobs \cup {None}]
  /\ archived \subseteq Ids /\ pinned \subseteq Ids
  /\ leases \in [Ids -> [Procs -> Nat]]

DiskOK == disk \subseteq Blobs /\ staging \subseteq Blobs

FateOK == dead \subseteq Procs /\ recycled \subseteq dead

CollectorOK ==
  /\ gc \in {"idle", "recount", "list", "evict", "clear", "delete"}
  /\ victims \subseteq Victims
  /\ cur \in Victims \cup {None}
  /\ gc \in {"clear", "delete"} => cur \in Victims
  /\ uncounted \in BOOLEAN

ReconcilerOK ==
  /\ recon \in {"idle", "check", "sweep"}
  /\ seen \subseteq Victims /\ gone \subseteq Victims

HistoryOK ==
  /\ kept \subseteq Resolvers /\ displaced \in BOOLEAN
  /\ passes \in 0..MaxPasses /\ starts \in 0..MaxStarts
  /\ faults \in 0..MaxFaults

\* TypeOK: resolvers, index, files, collector and reconciler have their types;
\* in particular no refcount goes below zero (queries.rs:158-169).
TypeOK ==
  /\ ResolversOK /\ IndexOK /\ DiskOK /\ FateOK /\ CollectorOK
  /\ ReconcilerOK /\ HistoryOK

\* A recount of entry i is due, or the process that owed it is dead.
Owed(i) ==
  \/ \E r \in Resolvers : entry[r] = i /\ pc[r] \in {"count", "uncount"}
  \/ gc = "recount" \/ uncounted

(***************************************************************************)
(* The pin count of an entry tells whether it has leases, except between a *)
(* write of a lease and the recount that follows it in pin, unpin or       *)
(* reap_dead_leases, and after a process that died in between (queries.rs  *)
(* pin, unpin, reap_dead_leases).                                          *)
(***************************************************************************)
PinsAreCounted ==
  \A i \in Ids :
    row[i] # None /\ ~(i \in pinned <=> Leased(i)) => Owed(i)

\* The Lease guards of process p for entry i.
Guards(i, p) == {r \in Resolvers : /\ ProcOf[r] = p /\ entry[r] = i
                                   /\ pc[r] \in Holding \cup {"count"}}

(***************************************************************************)
(* Each Lease guard counts: as long as the collector has not deleted a row *)
(* under a resolver that knew its id, the refcount of a running process on *)
(* an entry is the number of its guards for that entry (lease.rs:4-5,      *)
(* queries.rs:129-175).                                                    *)
(***************************************************************************)
RefcountsMatchGuards ==
  ~displaced => \A i \in Ids : \A p \in Procs \ dead :
    leases[i][p] = Cardinality(Guards(i, p))

(***************************************************************************)
(* A lease that was there when the collector listed its victims keeps its  *)
(* file until it is dropped, unless a row was deleted under a resolver or  *)
(* a daemon that starts swept the archives (gc.rs:100-125).                *)
(***************************************************************************)
LeasesAreRespected ==
  ~displaced => \A r \in kept : pc[r] \in Holding => blob[r] \in disk
=============================================================================
