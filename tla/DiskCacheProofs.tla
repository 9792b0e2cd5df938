-------------------------- MODULE DiskCacheProofs --------------------------
(***************************************************************************)
(* Theorems about DiskCache.  PinsAreCounted needs that an id without a    *)
(* row has neither lease nor pin (RowsKnown), or a row that is inserted    *)
(* would inherit them.  RefcountsMatchGuards is inductive over the types.  *)
(* LeasesAreRespected needs more: that a row read by a resolver is still   *)
(* the row of its blob (EntryCurrent, OneRow), that a running guard's      *)
(* entry stays pinned (HeldArePinned), and that no victim still to be      *)
(* evicted is a protected file (KeptSafe).  Theorems about PackageInstall  *)
(* follow.                                                                 *)
(***************************************************************************)
EXTENDS DiskCache, PackageInstall, FiniteSetTheorems, TLAPS

\* Where a resolver uses the row id it has read.
Knowing == {"verify", "pin", "insert", "count", "uncount"} \cup Holding

\* A resolver past its lookup knows its blob, and from the pin on its row id.
EntryKnown ==
  \A r \in Resolvers :
    /\ pc[r] # "idle" => blob[r] \in Blobs
    /\ pc[r] \in Knowing => entry[r] \in Ids

\* An id without a row has no archive, no pin and no lease.
RowsKnown ==
  \A i \in Ids : row[i] = None =>
    /\ i \notin archived /\ i \notin pinned
    /\ \A p \in Procs : leases[i][p] = 0

\* UNIQUE(kind, hash, version): at most one row for a blob.
OneRow ==
  \A i, j \in Ids : row[i] = row[j] /\ row[i] # None => i = j

\* Unless rows were deleted under resolvers, the row a resolver has read is
\* still the row of its blob.
EntryCurrent ==
  ~displaced => \A r \in Resolvers :
    pc[r] \in Knowing => row[entry[r]] = blob[r]

\* What a write of a lease does to the table.
LEMMA LeaseWrite ==
  ASSUME IndexOK, NEW r \in Resolvers, NEW n \in Nat,
         entry[r] \in Ids, SetLease(r, n)
  PROVE  /\ leases' \in [Ids -> [Procs -> Nat]]
         /\ \A i \in Ids, p \in Procs :
              leases'[i][p] = IF i = entry[r] /\ p = ProcOf[r] THEN n
                              ELSE leases[i][p]
BY ProcAssumption DEF IndexOK, SetLease

\* The refcount a step reads.
LEMMA RefcountType ==
  ASSUME IndexOK, NEW r \in Resolvers, entry[r] \in Ids
  PROVE  Refcount(r) \in Nat
BY ProcAssumption DEF IndexOK, Refcount

\* A step of a resolver that owes no recount leaves the others' owing theirs.
LEMMA StillOwed ==
  ASSUME NEW r \in Resolvers, NEW i \in Ids, Owed(i),
         pc[r] \notin {"count", "uncount"},
         \A q \in Resolvers \ {r} : pc'[q] = pc[q] /\ entry'[q] = entry[q],
         UNCHANGED <<gc, uncounted>>
  PROVE  Owed(i)'
BY DEF Owed

\* Every action keeps the types of the resolvers' state.
LEMMA ResolversStep ==
  ResolversOK /\ EntryKnown /\ [Next]_vars => ResolversOK'
<1> SUFFICES ASSUME ResolversOK, EntryKnown, [Next]_vars
             PROVE  ResolversOK'
  OBVIOUS
<1> USE ProcAssumption, RowAssumption
    DEF resolver, table, index, files, fate, collector, reconciler,
        history, bounds, world
<1>1. ASSUME NEW r \in Resolvers, NEW b \in Blobs, Lookup(r, b)
      PROVE  ResolversOK'
  BY <1>1 DEF ResolversOK, Holding, Lookup, At, Goto, IdsOf
<1>2. ASSUME NEW r \in Resolvers, Verify(r) PROVE ResolversOK'
  BY <1>2 DEF ResolversOK, Holding, Verify, At, Goto
<1>3. ASSUME NEW r \in Resolvers, Download(r) PROVE ResolversOK'
  BY <1>3 DEF ResolversOK, Holding, Download, At, Goto
<1>4. ASSUME NEW r \in Resolvers, Promote(r) PROVE ResolversOK'
  BY <1>4 DEF ResolversOK, Holding, Promote, At, Goto
<1>5. ASSUME NEW r \in Resolvers, Record(r) PROVE ResolversOK'
  BY <1>5 DEF ResolversOK, Holding, Record, At, Goto, IdsOf, IsNewId
<1>6. ASSUME NEW r \in Resolvers, Reread(r) PROVE ResolversOK'
  BY <1>6 DEF ResolversOK, Holding, Reread, At, Goto, IdsOf
<1>7. ASSUME NEW r \in Resolvers, PinUpdate(r) PROVE ResolversOK'
  BY <1>7 DEF ResolversOK, Holding, PinUpdate, At, Goto, Refcount
<1>8. ASSUME NEW r \in Resolvers, PinInsert(r) PROVE ResolversOK'
  BY <1>8 DEF ResolversOK, Holding, PinInsert, At, Goto, Refcount
<1>9. ASSUME NEW r \in Resolvers, PinCount(r) PROVE ResolversOK'
  BY <1>9 DEF ResolversOK, Holding, PinCount, At, Goto, Recount
<1>10. ASSUME NEW r \in Resolvers, Materialize(r) PROVE ResolversOK'
  BY <1>10 DEF ResolversOK, Holding, Materialize, At, Goto
<1>11. ASSUME NEW r \in Resolvers, UnpinUpdate(r) PROVE ResolversOK'
  BY <1>11 DEF ResolversOK, Holding, UnpinUpdate, At, Goto, Refcount
<1>12. ASSUME NEW r \in Resolvers, UnpinCount(r) PROVE ResolversOK'
  BY <1>12 DEF ResolversOK, Holding, UnpinCount, At, Goto, Recount
<1>13. ASSUME UNCHANGED <<pc, blob, entry>> PROVE ResolversOK'
  BY <1>13 DEF ResolversOK, Holding
<1>14. QED
  BY <1>1, <1>2, <1>3, <1>4, <1>5, <1>6, <1>7, <1>8, <1>9, <1>10, <1>11,
     <1>12, <1>13
  DEF Next, Resolve, Collect, vars, Crash, Recycle, GcReap, GcRecount,
      GcList, GcRemove, GcClear, GcDelete, GcDies, ReconList, ReconCheck,
      ReconClear, ReconSweep

\* A resolver past its lookup knows what it resolves.
LEMMA EntryStep ==
  ResolversOK /\ EntryKnown /\ [Next]_vars => EntryKnown'
<1> SUFFICES ASSUME ResolversOK, EntryKnown, [Next]_vars
             PROVE  EntryKnown'
  OBVIOUS
<1> USE ProcAssumption, RowAssumption
    DEF resolver, table, index, files, fate, collector, reconciler,
        history, bounds, world
<1>1. ASSUME NEW r \in Resolvers, NEW b \in Blobs, Lookup(r, b)
      PROVE  EntryKnown'
  BY <1>1
  DEF ResolversOK, Knowing, Holding, EntryKnown, Lookup, At, Goto, IdsOf
<1>2. ASSUME NEW r \in Resolvers, Verify(r) PROVE EntryKnown'
  BY <1>2 DEF ResolversOK, Knowing, Holding, EntryKnown, Verify, At, Goto
<1>3. ASSUME NEW r \in Resolvers, Download(r) PROVE EntryKnown'
  BY <1>3 DEF ResolversOK, Knowing, Holding, EntryKnown, Download, At, Goto
<1>4. ASSUME NEW r \in Resolvers, Promote(r) PROVE EntryKnown'
  BY <1>4 DEF ResolversOK, Knowing, Holding, EntryKnown, Promote, At, Goto
<1>5. ASSUME NEW r \in Resolvers, Record(r) PROVE EntryKnown'
  BY <1>5
  DEF ResolversOK, Knowing, Holding, EntryKnown, Record, At, Goto, IdsOf,
      IsNewId
<1>6. ASSUME NEW r \in Resolvers, Reread(r) PROVE EntryKnown'
  BY <1>6
  DEF ResolversOK, Knowing, Holding, EntryKnown, Reread, At, Goto, IdsOf
<1>7. ASSUME NEW r \in Resolvers, PinUpdate(r) PROVE EntryKnown'
  BY <1>7
  DEF ResolversOK, Knowing, Holding, EntryKnown, PinUpdate, At, Goto,
      Refcount
<1>8. ASSUME NEW r \in Resolvers, PinInsert(r) PROVE EntryKnown'
  BY <1>8
  DEF ResolversOK, Knowing, Holding, EntryKnown, PinInsert, At, Goto,
      Refcount
<1>9. ASSUME NEW r \in Resolvers, PinCount(r) PROVE EntryKnown'
  BY <1>9
  DEF ResolversOK, Knowing, Holding, EntryKnown, PinCount, At, Goto, Recount
<1>10. ASSUME NEW r \in Resolvers, Materialize(r) PROVE EntryKnown'
  BY <1>10 DEF ResolversOK, Knowing, Holding, EntryKnown, Materialize, At, Goto
<1>11. ASSUME NEW r \in Resolvers, UnpinUpdate(r) PROVE EntryKnown'
  BY <1>11
  DEF ResolversOK, Knowing, Holding, EntryKnown, UnpinUpdate, At, Goto,
      Refcount
<1>12. ASSUME NEW r \in Resolvers, UnpinCount(r) PROVE EntryKnown'
  BY <1>12
  DEF ResolversOK, Knowing, Holding, EntryKnown, UnpinCount, At, Goto,
      Recount
<1>13. ASSUME UNCHANGED <<pc, blob, entry>> PROVE EntryKnown'
  BY <1>13 DEF ResolversOK, Knowing, Holding, EntryKnown
<1>14. QED
  BY <1>1, <1>2, <1>3, <1>4, <1>5, <1>6, <1>7, <1>8, <1>9, <1>10, <1>11,
     <1>12, <1>13
  DEF Next, Resolve, Collect, vars, Crash, Recycle, GcReap, GcRecount,
      GcList, GcRemove, GcClear, GcDelete, GcDies, ReconList, ReconCheck,
      ReconClear, ReconSweep

\* Every action keeps the types of the index.
LEMMA IndexStep ==
  ResolversOK /\ EntryKnown /\ IndexOK /\ [Next]_vars => IndexOK'
<1> SUFFICES ASSUME ResolversOK, EntryKnown, IndexOK, [Next]_vars
             PROVE  IndexOK'
  OBVIOUS
<1> USE ProcAssumption, RowAssumption
    DEF resolver, table, index, files, fate, collector, reconciler,
        history, bounds, world
<1>1. ASSUME NEW r \in Resolvers, Record(r) PROVE IndexOK'
  BY <1>1
  DEF ResolversOK, IndexOK, Knowing, Holding, EntryKnown, Record, At, Goto,
      IdsOf, IsNewId
<1>2. ASSUME NEW r \in Resolvers, PinUpdate(r) PROVE IndexOK'
  <2>1. CASE Refcount(r) > 0
    <3>1. entry[r] \in Ids /\ Refcount(r) + 1 \in Nat
      BY <1>2, RefcountType DEF PinUpdate, At, EntryKnown, Knowing
    <3>2. SetLease(r, Refcount(r) + 1)
      BY <1>2, <2>1 DEF PinUpdate
    <3>3. QED
      BY <1>2, <3>1, <3>2, LeaseWrite
      DEF ResolversOK, IndexOK, Knowing, Holding, EntryKnown, PinUpdate,
          At, Goto, Refcount
  <2>2. CASE ~(Refcount(r) > 0)
    BY <1>2, <2>2
    DEF ResolversOK, IndexOK, Knowing, Holding, EntryKnown, PinUpdate, At,
        Goto, Refcount
  <2>3. QED
    BY <2>1, <2>2
<1>3. ASSUME NEW r \in Resolvers, PinInsert(r) PROVE IndexOK'
  <2>1. CASE row[entry[r]] # None /\ Refcount(r) = 0
    <3>1. entry[r] \in Ids
      BY <1>3 DEF PinInsert, At, EntryKnown, Knowing
    <3>2. SetLease(r, 1)
      BY <1>3, <2>1 DEF PinInsert
    <3>3. QED
      BY <1>3, <2>1, <3>1, <3>2, LeaseWrite
      DEF ResolversOK, IndexOK, Knowing, Holding, EntryKnown, PinInsert,
          At, Goto, Refcount
  <2>2. CASE ~(row[entry[r]] # None /\ Refcount(r) = 0)
    BY <1>3, <2>2
    DEF ResolversOK, IndexOK, Knowing, Holding, EntryKnown, PinInsert, At,
        Goto, Refcount
  <2>3. QED
    BY <2>1, <2>2
<1>4. ASSUME NEW r \in Resolvers, PinCount(r) PROVE IndexOK'
  BY <1>4
  DEF ResolversOK, IndexOK, Knowing, Holding, EntryKnown, PinCount, At, Goto,
      Recount
<1>5. ASSUME NEW r \in Resolvers, UnpinUpdate(r) PROVE IndexOK'
  <2> DEFINE n == IF Refcount(r) > 0 THEN Refcount(r) - 1 ELSE 0
  <2>1. entry[r] \in Ids /\ n \in Nat
    BY <1>5, RefcountType DEF UnpinUpdate, At, EntryKnown, Knowing, Holding
  <2>2. SetLease(r, n)
    BY <1>5 DEF UnpinUpdate
  <2>3. QED
    BY <1>5, <2>1, <2>2, LeaseWrite
    DEF ResolversOK, IndexOK, Knowing, Holding, EntryKnown, UnpinUpdate,
        At, Goto, Refcount
<1>6. ASSUME NEW r \in Resolvers, UnpinCount(r) PROVE IndexOK'
  BY <1>6
  DEF ResolversOK, IndexOK, Knowing, Holding, EntryKnown, UnpinCount, At,
      Goto, Recount
<1>7. CASE GcReap
  BY <1>7
  DEF ResolversOK, IndexOK, Knowing, Holding, EntryKnown, GcReap, Reapable
<1>8. CASE GcRecount
  BY <1>8
  DEF ResolversOK, IndexOK, Knowing, Holding, EntryKnown, GcRecount, Recount
<1>9. CASE GcClear
  BY <1>9 DEF ResolversOK, IndexOK, Knowing, Holding, EntryKnown, GcClear
<1>10. CASE GcDelete
  BY <1>10 DEF ResolversOK, IndexOK, Knowing, Holding, EntryKnown, GcDelete
<1>11. CASE ReconClear
  BY <1>11 DEF ResolversOK, IndexOK, Knowing, Holding, EntryKnown, ReconClear
<1>12. ASSUME UNCHANGED <<row, archived, pinned, leases>> PROVE IndexOK'
  BY <1>12 DEF ResolversOK, IndexOK, Knowing, Holding, EntryKnown
<1>13. QED
  BY <1>1, <1>2, <1>3, <1>4, <1>5, <1>6, <1>7, <1>8, <1>9, <1>10, <1>11, <1>12
  DEF Next, Resolve, Collect, vars, Lookup, Verify, Download, Promote,
      Reread, Materialize, Crash, Recycle, GcList, GcRemove, GcDies,
      ReconList, ReconCheck, ReconSweep

\* A lease or a pin has a row.
LEMMA RowsStep ==
  ResolversOK /\ EntryKnown /\ IndexOK /\ RowsKnown /\ [Next]_vars
  => RowsKnown'
<1> SUFFICES ASSUME ResolversOK, EntryKnown, IndexOK, RowsKnown, [Next]_vars
             PROVE  RowsKnown'
  OBVIOUS
<1> USE ProcAssumption, RowAssumption
    DEF resolver, table, index, files, fate, collector, reconciler,
        history, bounds, world
<1>1. ASSUME NEW r \in Resolvers, Record(r) PROVE RowsKnown'
  BY <1>1
  DEF ResolversOK, IndexOK, RowsKnown, Leased, Knowing, Holding, EntryKnown,
      Record, At, Goto, IdsOf, IsNewId
<1>2. ASSUME NEW r \in Resolvers, PinUpdate(r) PROVE RowsKnown'
  <2>1. CASE Refcount(r) > 0
    <3>1. entry[r] \in Ids /\ Refcount(r) + 1 \in Nat
      BY <1>2, RefcountType DEF PinUpdate, At, EntryKnown, Knowing
    <3>2. SetLease(r, Refcount(r) + 1)
      BY <1>2, <2>1 DEF PinUpdate
    <3>3. QED
      BY <1>2, <3>1, <3>2, LeaseWrite
      DEF ResolversOK, IndexOK, RowsKnown, Leased, Knowing, Holding,
          EntryKnown, PinUpdate, At, Goto, Refcount
  <2>2. CASE ~(Refcount(r) > 0)
    BY <1>2, <2>2
    DEF ResolversOK, IndexOK, RowsKnown, Leased, Knowing, Holding,
        EntryKnown, PinUpdate, At, Goto, Refcount
  <2>3. QED
    BY <2>1, <2>2
<1>3. ASSUME NEW r \in Resolvers, PinInsert(r) PROVE RowsKnown'
  <2>1. CASE row[entry[r]] # None /\ Refcount(r) = 0
    <3>1. entry[r] \in Ids
      BY <1>3 DEF PinInsert, At, EntryKnown, Knowing
    <3>2. SetLease(r, 1)
      BY <1>3, <2>1 DEF PinInsert
    <3>3. QED
      <4>1. \A i \in Ids, p \in Procs :
              row[i] = None => leases'[i][p] = leases[i][p]
        BY <2>1, <3>1, <3>2, LeaseWrite
      <4>2. QED
        BY <1>3, <4>1 DEF RowsKnown, PinInsert
  <2>2. CASE ~(row[entry[r]] # None /\ Refcount(r) = 0)
    BY <1>3, <2>2
    DEF ResolversOK, IndexOK, RowsKnown, Leased, Knowing, Holding,
        EntryKnown, PinInsert, At, Goto, Refcount
  <2>3. QED
    BY <2>1, <2>2
<1>4. ASSUME NEW r \in Resolvers, PinCount(r) PROVE RowsKnown'
  BY <1>4
  DEF ResolversOK, IndexOK, RowsKnown, Leased, Knowing, Holding, EntryKnown,
      PinCount, At, Goto, Recount
<1>5. ASSUME NEW r \in Resolvers, UnpinUpdate(r) PROVE RowsKnown'
  <2> DEFINE n == IF Refcount(r) > 0 THEN Refcount(r) - 1 ELSE 0
  <2>1. entry[r] \in Ids /\ n \in Nat
    BY <1>5, RefcountType DEF UnpinUpdate, At, EntryKnown, Knowing, Holding
  <2>2. SetLease(r, n)
    BY <1>5 DEF UnpinUpdate
  <2>3. QED
    BY <1>5, <2>1, <2>2, LeaseWrite
    DEF ResolversOK, IndexOK, RowsKnown, Leased, Knowing, Holding,
        EntryKnown, UnpinUpdate, At, Goto, Refcount
<1>6. ASSUME NEW r \in Resolvers, UnpinCount(r) PROVE RowsKnown'
  BY <1>6
  DEF ResolversOK, IndexOK, RowsKnown, Leased, Knowing, Holding, EntryKnown,
      UnpinCount, At, Goto, Recount
<1>7. CASE GcReap
  BY <1>7
  DEF ResolversOK, IndexOK, RowsKnown, Leased, Knowing, Holding, EntryKnown,
      GcReap, Reapable
<1>8. CASE GcRecount
  BY <1>8
  DEF ResolversOK, IndexOK, RowsKnown, Leased, Knowing, Holding, EntryKnown,
      GcRecount, Recount
<1>9. CASE GcClear
  BY <1>9
  DEF ResolversOK, IndexOK, RowsKnown, Leased, Knowing, Holding, EntryKnown,
      GcClear
<1>10. CASE GcDelete
  BY <1>10
  DEF ResolversOK, IndexOK, RowsKnown, Leased, Knowing, Holding, EntryKnown,
      GcDelete
<1>11. CASE ReconClear
  BY <1>11
  DEF ResolversOK, IndexOK, RowsKnown, Leased, Knowing, Holding, EntryKnown,
      ReconClear
<1>12. ASSUME UNCHANGED <<row, archived, pinned, leases>> PROVE RowsKnown'
  BY <1>12
  DEF ResolversOK, IndexOK, RowsKnown, Leased, Knowing, Holding, EntryKnown
<1>13. QED
  BY <1>1, <1>2, <1>3, <1>4, <1>5, <1>6, <1>7, <1>8, <1>9, <1>10, <1>11, <1>12
  DEF Next, Resolve, Collect, vars, Lookup, Verify, Download, Promote,
      Reread, Materialize, Crash, Recycle, GcList, GcRemove, GcDies,
      ReconList, ReconCheck, ReconSweep

\* No action makes a second row for a blob.
LEMMA OneRowStep ==
  ResolversOK /\ EntryKnown /\ IndexOK /\ OneRow /\ [Next]_vars => OneRow'
<1> SUFFICES ASSUME ResolversOK, EntryKnown, IndexOK, OneRow, [Next]_vars
             PROVE  OneRow'
  OBVIOUS
<1> USE ProcAssumption, RowAssumption
    DEF resolver, table, index, files, fate, collector, reconciler,
        history, bounds, world
<1>1. ASSUME NEW r \in Resolvers, Record(r) PROVE OneRow'
  BY <1>1
  DEF ResolversOK, IndexOK, OneRow, Knowing, Holding, EntryKnown, Record, At,
      Goto, IdsOf, IsNewId
<1>2. CASE GcDelete
  BY <1>2
  DEF ResolversOK, IndexOK, OneRow, Knowing, Holding, EntryKnown, GcDelete
<1>3. ASSUME UNCHANGED <<row>> PROVE OneRow'
  BY <1>3 DEF ResolversOK, IndexOK, OneRow, Knowing, Holding, EntryKnown
<1>4. QED
  BY <1>1, <1>2, <1>3
  DEF Next, Resolve, Collect, vars, Lookup, Verify, Download, Promote,
      Reread, PinUpdate, PinInsert, PinCount, Materialize, UnpinUpdate,
      UnpinCount, Crash, Recycle, GcReap, GcRecount, GcList, GcRemove,
      GcClear, GcDies, ReconList, ReconCheck, ReconClear, ReconSweep

\* Every action keeps what a resolver knows current.
LEMMA CurrentStep ==
  ResolversOK /\ EntryKnown /\ IndexOK /\ OneRow /\ EntryCurrent
  /\ [Next]_vars => EntryCurrent'
<1> SUFFICES ASSUME ResolversOK, EntryKnown, IndexOK,
                    OneRow, EntryCurrent, [Next]_vars
             PROVE  EntryCurrent'
  OBVIOUS
<1> USE ProcAssumption, RowAssumption
    DEF resolver, table, index, files, fate, collector, reconciler,
        history, bounds, world
<1>1. ASSUME NEW r \in Resolvers, NEW b \in Blobs, Lookup(r, b)
      PROVE  EntryCurrent'
  BY <1>1
  DEF ResolversOK, IndexOK, OneRow, EntryCurrent, Knowing, Holding,
      EntryKnown, Lookup, At, Goto, IdsOf
<1>2. ASSUME NEW r \in Resolvers, Verify(r) PROVE EntryCurrent'
  BY <1>2
  DEF ResolversOK, IndexOK, OneRow, EntryCurrent, Knowing, Holding,
      EntryKnown, Verify, At, Goto
<1>3. ASSUME NEW r \in Resolvers, Download(r) PROVE EntryCurrent'
  BY <1>3
  DEF ResolversOK, IndexOK, OneRow, EntryCurrent, Knowing, Holding,
      EntryKnown, Download, At, Goto
<1>4. ASSUME NEW r \in Resolvers, Promote(r) PROVE EntryCurrent'
  BY <1>4
  DEF ResolversOK, IndexOK, OneRow, EntryCurrent, Knowing, Holding,
      EntryKnown, Promote, At, Goto
<1>5. ASSUME NEW r \in Resolvers, Record(r) PROVE EntryCurrent'
  <2>1. \A i \in Ids : row[i] # None => row'[i] = row[i]
    BY <1>5, BoundAssumption DEF Record, IdsOf, IsNewId, IndexOK, Ids
  <2>2. \A q \in Resolvers : pc'[q] \in Knowing =>
          pc[q] \in Knowing /\ entry[q] \in Ids /\ blob[q] # None
    BY <1>5 DEF Record, At, Goto, ResolversOK, EntryKnown, Knowing, Holding
  <2>3. QED
    BY <1>5, <2>1, <2>2 DEF EntryCurrent, Record
<1>6. ASSUME NEW r \in Resolvers, Reread(r) PROVE EntryCurrent'
  BY <1>6
  DEF ResolversOK, IndexOK, OneRow, EntryCurrent, Knowing, Holding,
      EntryKnown, Reread, At, Goto, IdsOf
<1>7. ASSUME NEW r \in Resolvers, PinUpdate(r) PROVE EntryCurrent'
  BY <1>7
  DEF ResolversOK, IndexOK, OneRow, EntryCurrent, Knowing, Holding,
      EntryKnown, PinUpdate, At, Goto, Refcount
<1>8. ASSUME NEW r \in Resolvers, PinInsert(r) PROVE EntryCurrent'
  BY <1>8
  DEF ResolversOK, IndexOK, OneRow, EntryCurrent, Knowing, Holding,
      EntryKnown, PinInsert, At, Goto, Refcount
<1>9. ASSUME NEW r \in Resolvers, PinCount(r) PROVE EntryCurrent'
  BY <1>9
  DEF ResolversOK, IndexOK, OneRow, EntryCurrent, Knowing, Holding,
      EntryKnown, PinCount, At, Goto, Recount
<1>10. ASSUME NEW r \in Resolvers, Materialize(r) PROVE EntryCurrent'
  BY <1>10
  DEF ResolversOK, IndexOK, OneRow, EntryCurrent, Knowing, Holding,
      EntryKnown, Materialize, At, Goto
<1>11. ASSUME NEW r \in Resolvers, UnpinUpdate(r) PROVE EntryCurrent'
  BY <1>11
  DEF ResolversOK, IndexOK, OneRow, EntryCurrent, Knowing, Holding,
      EntryKnown, UnpinUpdate, At, Goto, Refcount
<1>12. ASSUME NEW r \in Resolvers, UnpinCount(r) PROVE EntryCurrent'
  BY <1>12
  DEF ResolversOK, IndexOK, OneRow, EntryCurrent, Knowing, Holding,
      EntryKnown, UnpinCount, At, Goto, Recount
<1>13. CASE GcDelete
  BY <1>13
  DEF ResolversOK, IndexOK, OneRow, EntryCurrent, Knowing, Holding,
      EntryKnown, GcDelete
<1>14. ASSUME UNCHANGED <<pc, blob, entry, row, displaced>>
       PROVE EntryCurrent'
  BY <1>14
  DEF ResolversOK, IndexOK, OneRow, EntryCurrent, Knowing, Holding,
      EntryKnown
<1>15. QED
  BY <1>1, <1>2, <1>3, <1>4, <1>5, <1>6, <1>7, <1>8, <1>9, <1>10, <1>11,
     <1>12, <1>13, <1>14
  DEF Next, Resolve, Collect, vars, Crash, Recycle, GcReap, GcRecount,
      GcList, GcRemove, GcClear, GcDies, ReconList, ReconCheck, ReconClear,
      ReconSweep

\* Every write of a lease is followed by its recount.
LEMMA PinsStep ==
  ResolversOK /\ EntryKnown /\ IndexOK /\ RowsKnown /\ PinsAreCounted
  /\ [Next]_vars => PinsAreCounted'
<1> SUFFICES ASSUME ResolversOK, EntryKnown, IndexOK,
                    RowsKnown, PinsAreCounted, [Next]_vars
             PROVE  PinsAreCounted'
  OBVIOUS
<1> USE ProcAssumption, RowAssumption
    DEF resolver, table, index, files, fate, collector, reconciler,
        history, bounds, world
<1>1. ASSUME NEW r \in Resolvers, NEW b \in Blobs, Lookup(r, b)
      PROVE  PinsAreCounted'
  <2>1. /\ pc[r] \notin {"count", "uncount"}
        /\ \A q \in Resolvers \ {r} : pc'[q] = pc[q] /\ entry'[q] = entry[q]
        /\ UNCHANGED <<row, pinned, leases, gc, uncounted>>
    BY <1>1 DEF ResolversOK, Holding, Lookup, At, Goto
  <2>2. QED
    BY <2>1, StillOwed DEF PinsAreCounted, Leased
<1>2. ASSUME NEW r \in Resolvers, Verify(r) PROVE PinsAreCounted'
  <2>1. /\ pc[r] \notin {"count", "uncount"}
        /\ \A q \in Resolvers \ {r} : pc'[q] = pc[q] /\ entry'[q] = entry[q]
        /\ UNCHANGED <<row, pinned, leases, gc, uncounted>>
    BY <1>2 DEF ResolversOK, Holding, Verify, At, Goto
  <2>2. QED
    BY <2>1, StillOwed DEF PinsAreCounted, Leased
<1>3. ASSUME NEW r \in Resolvers, Download(r) PROVE PinsAreCounted'
  <2>1. /\ pc[r] \notin {"count", "uncount"}
        /\ \A q \in Resolvers \ {r} : pc'[q] = pc[q] /\ entry'[q] = entry[q]
        /\ UNCHANGED <<row, pinned, leases, gc, uncounted>>
    BY <1>3 DEF ResolversOK, Holding, Download, At, Goto
  <2>2. QED
    BY <2>1, StillOwed DEF PinsAreCounted, Leased
<1>4. ASSUME NEW r \in Resolvers, Promote(r) PROVE PinsAreCounted'
  <2>1. /\ pc[r] \notin {"count", "uncount"}
        /\ \A q \in Resolvers \ {r} : pc'[q] = pc[q] /\ entry'[q] = entry[q]
        /\ UNCHANGED <<row, pinned, leases, gc, uncounted>>
    BY <1>4 DEF ResolversOK, Holding, Promote, At, Goto
  <2>2. QED
    BY <2>1, StillOwed DEF PinsAreCounted, Leased
<1>5. ASSUME NEW r \in Resolvers, Record(r) PROVE PinsAreCounted'
  <2>1. /\ pc[r] \notin {"count", "uncount"}
        /\ \A q \in Resolvers \ {r} : pc'[q] = pc[q] /\ entry'[q] = entry[q]
        /\ UNCHANGED <<pinned, leases, gc, uncounted>>
    BY <1>5 DEF ResolversOK, Record, At, Goto
  <2>2. ASSUME NEW i \in Ids, row'[i] # None, ~(i \in pinned <=> Leased(i))
        PROVE  row[i] # None
    <3>1. SUFFICES ASSUME row[i] = None PROVE FALSE
      OBVIOUS
    <3>2. i \notin pinned /\ \A p \in Procs : leases[i][p] = 0
      BY <3>1 DEF RowsKnown
    <3>3. ~Leased(i)
      BY <3>2 DEF Leased, IndexOK
    <3>4. QED
      BY <2>2, <3>2, <3>3
  <2>3. QED
    BY <2>1, <2>2, StillOwed DEF PinsAreCounted, Leased
<1>6. ASSUME NEW r \in Resolvers, Reread(r) PROVE PinsAreCounted'
  <2>1. /\ pc[r] \notin {"count", "uncount"}
        /\ \A q \in Resolvers \ {r} : pc'[q] = pc[q] /\ entry'[q] = entry[q]
        /\ UNCHANGED <<row, pinned, leases, gc, uncounted>>
    BY <1>6 DEF ResolversOK, Holding, Reread, At, Goto
  <2>2. QED
    BY <2>1, StillOwed DEF PinsAreCounted, Leased
<1>7. ASSUME NEW r \in Resolvers, PinUpdate(r) PROVE PinsAreCounted'
  <2>0. /\ pc[r] \notin {"count", "uncount"}
        /\ \A q \in Resolvers \ {r} : pc'[q] = pc[q] /\ entry'[q] = entry[q]
        /\ entry[r] \in Ids
        /\ UNCHANGED <<row, pinned, gc, uncounted, entry>>
    BY <1>7 DEF ResolversOK, Holding, EntryKnown, Knowing, PinUpdate, At, Goto
  <2>1. CASE Refcount(r) > 0
    <3>1. Refcount(r) + 1 \in Nat
      BY <2>0, RefcountType
    <3>2. SetLease(r, Refcount(r) + 1) /\ pc'[r] = "count"
      BY <1>7, <2>1 DEF PinUpdate, Goto, ResolversOK
    <3>3. Owed(entry[r])'
      BY <2>0, <3>2 DEF Owed
    <3>4. \A i \in Ids \ {entry[r]} : Leased(i)' <=> Leased(i)
      <4>1. \A i \in Ids \ {entry[r]}, p \in Procs :
              leases'[i][p] = leases[i][p]
        BY <2>0, <3>1, <3>2, LeaseWrite DEF IndexOK
      <4>2. QED
        BY <4>1 DEF Leased
    <3>5. QED
      BY <2>0, <3>3, <3>4, StillOwed DEF PinsAreCounted
  <2>2. CASE ~(Refcount(r) > 0)
    <3>1. UNCHANGED leases
      BY <1>7, <2>2 DEF PinUpdate
    <3>2. QED
      BY <2>0, <3>1, StillOwed DEF PinsAreCounted, Leased
  <2>3. QED
    BY <2>1, <2>2
<1>8. ASSUME NEW r \in Resolvers, PinInsert(r) PROVE PinsAreCounted'
  <2>0. /\ pc[r] \notin {"count", "uncount"}
        /\ \A q \in Resolvers \ {r} : pc'[q] = pc[q] /\ entry'[q] = entry[q]
        /\ entry[r] \in Ids
        /\ UNCHANGED <<row, pinned, gc, uncounted, entry>>
    BY <1>8 DEF ResolversOK, Holding, EntryKnown, Knowing, PinInsert, At, Goto
  <2>1. CASE row[entry[r]] # None /\ Refcount(r) = 0
    <3>2. SetLease(r, 1) /\ pc'[r] = "count"
      BY <1>8, <2>1 DEF PinInsert, Goto, ResolversOK
    <3>3. Owed(entry[r])'
      BY <2>0, <3>2 DEF Owed
    <3>4. \A i \in Ids \ {entry[r]} : Leased(i)' <=> Leased(i)
      <4>1. \A i \in Ids \ {entry[r]}, p \in Procs :
              leases'[i][p] = leases[i][p]
        BY <2>0, <3>2, LeaseWrite DEF IndexOK
      <4>2. QED
        BY <4>1 DEF Leased
    <3>5. QED
      BY <2>0, <3>3, <3>4, StillOwed DEF PinsAreCounted
  <2>2. CASE ~(row[entry[r]] # None /\ Refcount(r) = 0)
    <3>1. UNCHANGED leases
      BY <1>8, <2>2 DEF PinInsert
    <3>2. QED
      BY <2>0, <3>1, StillOwed DEF PinsAreCounted, Leased
  <2>3. QED
    BY <2>1, <2>2
<1>9. ASSUME NEW r \in Resolvers, PinCount(r) PROVE PinsAreCounted'
  BY <1>9
  DEF ResolversOK, IndexOK, RowsKnown, PinsAreCounted, Leased, Owed, Knowing,
      Holding, EntryKnown, PinCount, At, Goto, Recount
<1>10. ASSUME NEW r \in Resolvers, Materialize(r) PROVE PinsAreCounted'
  <2>1. /\ pc[r] \notin {"count", "uncount"}
        /\ \A q \in Resolvers \ {r} : pc'[q] = pc[q] /\ entry'[q] = entry[q]
        /\ UNCHANGED <<row, pinned, leases, gc, uncounted>>
    BY <1>10 DEF ResolversOK, Holding, Materialize, At, Goto
  <2>2. QED
    BY <2>1, StillOwed DEF PinsAreCounted, Leased
<1>11. ASSUME NEW r \in Resolvers, UnpinUpdate(r) PROVE PinsAreCounted'
  <2>0. /\ pc[r] \notin {"count", "uncount"}
        /\ \A q \in Resolvers \ {r} : pc'[q] = pc[q] /\ entry'[q] = entry[q]
        /\ entry[r] \in Ids
        /\ UNCHANGED <<row, pinned, gc, uncounted, entry>>
    BY <1>11
    DEF ResolversOK, Holding, EntryKnown, Knowing, UnpinUpdate, At, Goto
  <2> DEFINE n == IF Refcount(r) > 0 THEN Refcount(r) - 1 ELSE 0
  <2>1. n \in Nat
    BY <2>0, RefcountType
  <2>2. SetLease(r, n) /\ pc'[r] = "uncount"
    BY <1>11 DEF UnpinUpdate, Goto, ResolversOK
  <2>3. Owed(entry[r])'
    BY <2>0, <2>2 DEF Owed
  <2>4. \A i \in Ids \ {entry[r]} : Leased(i)' <=> Leased(i)
    <3>1. \A i \in Ids \ {entry[r]}, p \in Procs : leases'[i][p] = leases[i][p]
      BY <2>0, <2>1, <2>2, LeaseWrite DEF IndexOK
    <3>2. QED
      BY <3>1 DEF Leased
  <2>5. QED
    BY <2>0, <2>3, <2>4, StillOwed DEF PinsAreCounted
<1>12. ASSUME NEW r \in Resolvers, UnpinCount(r) PROVE PinsAreCounted'
  BY <1>12
  DEF ResolversOK, IndexOK, RowsKnown, PinsAreCounted, Leased, Owed, Knowing,
      Holding, EntryKnown, UnpinCount, At, Goto, Recount
<1>13. CASE GcReap
  <2>1. CASE \E p \in Procs : Reapable(p)
    BY <1>13, <2>1 DEF GcReap, PinsAreCounted, Owed
  <2>2. CASE ~\E p \in Procs : Reapable(p)
    <3>1. \A i \in Ids : Leased(i)' <=> Leased(i)
      <4>1. \A i \in Ids, p \in Procs : leases'[i][p] = leases[i][p]
        BY <1>13, <2>2 DEF GcReap, Reapable, IndexOK
      <4>2. QED
        BY <4>1 DEF Leased
    <3>2. \A i \in Ids : Owed(i) => Owed(i)'
      BY <1>13 DEF GcReap, Owed
    <3>3. QED
      BY <1>13, <3>1, <3>2 DEF GcReap, PinsAreCounted
  <2>3. QED
    BY <2>1, <2>2
<1>14. CASE GcRecount
  BY <1>14
  DEF ResolversOK, IndexOK, RowsKnown, PinsAreCounted, Leased, Owed, Knowing,
      Holding, EntryKnown, GcRecount, Recount
<1>15. CASE GcList
  BY <1>15
  DEF ResolversOK, IndexOK, RowsKnown, PinsAreCounted, Leased, Owed, Knowing,
      Holding, EntryKnown, GcList, Protected, Entries
<1>16. CASE GcRemove
  BY <1>16
  DEF ResolversOK, IndexOK, RowsKnown, PinsAreCounted, Leased, Owed, Knowing,
      Holding, EntryKnown, GcRemove
<1>17. CASE GcClear
  BY <1>17
  DEF ResolversOK, IndexOK, RowsKnown, PinsAreCounted, Leased, Owed, Knowing,
      Holding, EntryKnown, GcClear
<1>18. CASE GcDelete
  <2>1. \A i \in Ids : i # cur.id => (Leased(i)' <=> Leased(i))
    BY <1>18 DEF GcDelete, Leased
  <2>2. \A i \in Ids : Owed(i) => Owed(i)'
    BY <1>18 DEF GcDelete, Owed
  <2>3. \A i \in Ids : row'[i] # None => i # cur.id /\ row[i] # None
    BY <1>18 DEF GcDelete, IndexOK
  <2>4. QED
    BY <1>18, <2>1, <2>2, <2>3 DEF GcDelete, PinsAreCounted
<1>19. CASE GcDies
  BY <1>19
  DEF ResolversOK, IndexOK, RowsKnown, PinsAreCounted, Leased, Owed, Knowing,
      Holding, EntryKnown, GcDies
<1>20. ASSUME UNCHANGED <<pc, entry, row, pinned, leases, gc, uncounted>>
       PROVE PinsAreCounted'
  BY <1>20
  DEF ResolversOK, IndexOK, RowsKnown, PinsAreCounted, Leased, Owed, Knowing,
      Holding, EntryKnown
<1>21. QED
  BY <1>1, <1>2, <1>3, <1>4, <1>5, <1>6, <1>7, <1>8, <1>9, <1>10, <1>11,
     <1>12, <1>13, <1>14, <1>15, <1>16, <1>17, <1>18, <1>19, <1>20
  DEF Next, Resolve, Collect, vars, Crash, Recycle, ReconList, ReconCheck,
      ReconClear, ReconSweep

\* Every action keeps the types of the files...
LEMMA DiskStep ==
  EntryKnown /\ DiskOK /\ [Next]_vars => DiskOK'
<1> SUFFICES ASSUME EntryKnown, DiskOK, [Next]_vars
             PROVE  DiskOK'
  OBVIOUS
<1> USE ProcAssumption, RowAssumption
    DEF resolver, table, index, files, fate, collector, reconciler,
        history, bounds, world
<1>1. ASSUME NEW r \in Resolvers, Download(r) PROVE DiskOK'
  BY <1>1 DEF DiskOK, EntryKnown, Download, At, Goto
<1>2. ASSUME NEW r \in Resolvers, Promote(r) PROVE DiskOK'
  BY <1>2 DEF DiskOK, EntryKnown, Promote, At, Goto
<1>3. CASE GcRemove
  BY <1>3 DEF DiskOK, EntryKnown, GcRemove
<1>4. CASE ReconSweep
  BY <1>4 DEF DiskOK, EntryKnown, ReconSweep
<1>5. ASSUME UNCHANGED <<disk, staging>> PROVE DiskOK'
  BY <1>5 DEF DiskOK, EntryKnown
<1>6. QED
  BY <1>1, <1>2, <1>3, <1>4, <1>5
  DEF Next, Resolve, Collect, vars, Lookup, Verify, Record, Reread,
      PinUpdate, PinInsert, PinCount, Materialize, UnpinUpdate, UnpinCount,
      Crash, Recycle, GcReap, GcRecount, GcList, GcClear, GcDelete, GcDies,
      ReconList, ReconCheck, ReconClear

\* ... of the fate of the processes...
LEMMA FateStep ==
  FateOK /\ [Next]_vars => FateOK'
<1> SUFFICES ASSUME FateOK, [Next]_vars
             PROVE  FateOK'
  OBVIOUS
<1> USE ProcAssumption, RowAssumption
    DEF resolver, table, index, files, fate, collector, reconciler,
        history, bounds, world
<1>1. ASSUME NEW p \in Procs, Crash(p) PROVE FateOK'
  BY <1>1 DEF FateOK, Crash
<1>2. ASSUME NEW p \in Procs, Recycle(p) PROVE FateOK'
  BY <1>2 DEF FateOK, Recycle
<1>3. ASSUME UNCHANGED <<dead, recycled>> PROVE FateOK'
  BY <1>3 DEF FateOK
<1>4. QED
  BY <1>1, <1>2, <1>3
  DEF Next, Resolve, Collect, vars, Lookup, Verify, Download, Promote,
      Record, Reread, PinUpdate, PinInsert, PinCount, Materialize,
      UnpinUpdate, UnpinCount, GcReap, GcRecount, GcList, GcRemove, GcClear,
      GcDelete, GcDies, ReconList, ReconCheck, ReconClear, ReconSweep

\* ... of the collector...
LEMMA CollectorStep ==
  IndexOK /\ RowsKnown /\ CollectorOK /\ [Next]_vars => CollectorOK'
<1> SUFFICES ASSUME IndexOK, RowsKnown, CollectorOK, [Next]_vars
             PROVE  CollectorOK'
  OBVIOUS
<1> USE ProcAssumption, RowAssumption
    DEF resolver, table, index, files, fate, collector, reconciler,
        history, bounds, world
<1>1. CASE GcReap
  BY <1>1 DEF IndexOK, RowsKnown, CollectorOK, Victims, GcReap, Reapable
<1>2. CASE GcRecount
  BY <1>2 DEF IndexOK, RowsKnown, CollectorOK, Victims, GcRecount, Recount
<1>3. CASE GcList
  BY <1>3
  DEF IndexOK, RowsKnown, CollectorOK, Victims, GcList, Protected, Entries
<1>4. CASE GcRemove
  BY <1>4 DEF IndexOK, RowsKnown, CollectorOK, Victims, GcRemove
<1>5. CASE GcClear
  BY <1>5 DEF IndexOK, RowsKnown, CollectorOK, Victims, GcClear
<1>6. CASE GcDelete
  BY <1>6 DEF IndexOK, RowsKnown, CollectorOK, Victims, GcDelete
<1>7. CASE GcDies
  BY <1>7 DEF IndexOK, RowsKnown, CollectorOK, Victims, GcDies
<1>8. ASSUME UNCHANGED <<gc, victims, cur, uncounted>> PROVE CollectorOK'
  BY <1>8 DEF IndexOK, RowsKnown, CollectorOK, Victims
<1>9. QED
  BY <1>1, <1>2, <1>3, <1>4, <1>5, <1>6, <1>7, <1>8
  DEF Next, Resolve, Collect, vars, Lookup, Verify, Download, Promote,
      Record, Reread, PinUpdate, PinInsert, PinCount, Materialize,
      UnpinUpdate, UnpinCount, Crash, Recycle, ReconList, ReconCheck,
      ReconClear, ReconSweep

\* ... of reconcile...
LEMMA ReconcilerStep ==
  IndexOK /\ RowsKnown /\ ReconcilerOK /\ [Next]_vars => ReconcilerOK'
<1> SUFFICES ASSUME IndexOK, RowsKnown, ReconcilerOK, [Next]_vars
             PROVE  ReconcilerOK'
  OBVIOUS
<1> USE ProcAssumption, RowAssumption
    DEF resolver, table, index, files, fate, collector, reconciler,
        history, bounds, world
<1>1. CASE ReconList
  BY <1>1 DEF IndexOK, RowsKnown, ReconcilerOK, Victims, ReconList, Entries
<1>2. CASE ReconCheck
  BY <1>2 DEF IndexOK, RowsKnown, ReconcilerOK, Victims, ReconCheck
<1>3. CASE ReconClear
  BY <1>3 DEF IndexOK, RowsKnown, ReconcilerOK, Victims, ReconClear
<1>4. CASE ReconSweep
  BY <1>4 DEF IndexOK, RowsKnown, ReconcilerOK, Victims, ReconSweep
<1>5. ASSUME UNCHANGED <<recon, seen, gone>> PROVE ReconcilerOK'
  BY <1>5 DEF IndexOK, RowsKnown, ReconcilerOK, Victims
<1>6. QED
  BY <1>1, <1>2, <1>3, <1>4, <1>5
  DEF Next, Resolve, Collect, vars, Lookup, Verify, Download, Promote,
      Record, Reread, PinUpdate, PinInsert, PinCount, Materialize,
      UnpinUpdate, UnpinCount, Crash, Recycle, GcReap, GcRecount, GcList,
      GcRemove, GcClear, GcDelete, GcDies

\* ... and of the history.
LEMMA HistoryStep ==
  HistoryOK /\ [Next]_vars => HistoryOK'
<1> SUFFICES ASSUME HistoryOK, [Next]_vars
             PROVE  HistoryOK'
  OBVIOUS
<1> USE BoundAssumption
    DEF resolver, table, index, files, fate, collector, reconciler,
        history, bounds, world
<1>1. ASSUME NEW p \in Procs, Crash(p) PROVE HistoryOK'
  BY <1>1 DEF HistoryOK, Crash
<1>2. CASE GcReap
  BY <1>2 DEF HistoryOK, GcReap, Reapable
<1>3. CASE GcList
  BY <1>3 DEF HistoryOK, GcList, Protected, Entries
<1>4. CASE GcDelete
  BY <1>4 DEF HistoryOK, GcDelete
<1>5. CASE GcDies
  BY <1>5 DEF HistoryOK, GcDies
<1>6. CASE ReconList
  BY <1>6 DEF HistoryOK, ReconList, Entries
<1>7. CASE ReconSweep
  BY <1>7 DEF HistoryOK, ReconSweep
<1>8. ASSUME UNCHANGED <<kept, displaced, passes, starts, faults>>
       PROVE HistoryOK'
  BY <1>8 DEF HistoryOK
<1>9. QED
  BY <1>1, <1>2, <1>3, <1>4, <1>5, <1>6, <1>7, <1>8
  DEF Next, Resolve, Collect, vars, Lookup, Verify, Download, Promote,
      Record, Reread, PinUpdate, PinInsert, PinCount, Materialize,
      UnpinUpdate, UnpinCount, Recycle, GcRecount, GcRemove, GcClear,
      ReconCheck, ReconClear

\* The guards of a process are finitely many.
LEMMA GuardsFinite ==
  ASSUME NEW i, NEW p
  PROVE  IsFiniteSet(Guards(i, p))
<1>1. Guards(i, p) \in SUBSET Resolvers
  BY DEF Guards
<1>2. QED
  BY <1>1, FiniteAssumption, FS_Subset

\* Where a resolver has a guard.
Guarding == Holding \cup {"count"}

\* A step of r that neither makes nor drops a guard.
LEMMA SameGuards ==
  ASSUME NEW r \in Resolvers,
         \A q \in Resolvers \ {r} : pc'[q] = pc[q] /\ entry'[q] = entry[q],
         \/ pc[r] \notin Guarding /\ pc'[r] \notin Guarding
         \/ pc[r] \in Guarding /\ pc'[r] \in Guarding /\ entry'[r] = entry[r]
  PROVE  \A i, p : Guards(i, p)' = Guards(i, p)
BY DEF Guards, Guarding

\* A running guard has a refcount.
LEMMA GuardCounts ==
  ASSUME RefcountsMatchGuards, ~displaced, NEW r \in Resolvers,
         pc[r] \in Guarding, entry[r] \in Ids, ProcOf[r] \notin dead
  PROVE  /\ Refcount(r) = Cardinality(Guards(entry[r], ProcOf[r]))
         /\ Refcount(r) \in Nat \ {0}
<1>1. r \in Guards(entry[r], ProcOf[r])
  BY DEF Guards, Guarding
<1>2. Refcount(r) = Cardinality(Guards(entry[r], ProcOf[r]))
  BY ProcAssumption DEF RefcountsMatchGuards, Refcount
<1>3. QED
  BY <1>1, <1>2, GuardsFinite, FS_CardinalityType, FS_EmptySet

\* Every guard counts.
LEMMA RefcountStep ==
  ResolversOK /\ EntryKnown /\ IndexOK /\ RefcountsMatchGuards
  /\ [Next]_vars => RefcountsMatchGuards'
<1> SUFFICES ASSUME ResolversOK, EntryKnown, IndexOK,
                    RefcountsMatchGuards, [Next]_vars
             PROVE  RefcountsMatchGuards'
  OBVIOUS
<1> USE ProcAssumption, RowAssumption
    DEF resolver, table, index, files, fate, collector, reconciler,
        history, bounds, world
<1>1. ASSUME NEW r \in Resolvers, NEW b \in Blobs, Lookup(r, b)
      PROVE  RefcountsMatchGuards'
  <2>1. /\ \A q \in Resolvers \ {r} : pc'[q] = pc[q] /\ entry'[q] = entry[q]
        /\ \/ pc[r] \notin Guarding /\ pc'[r] \notin Guarding
           \/ pc[r] \in Guarding /\ pc'[r] \in Guarding /\ entry'[r] = entry[r]
        /\ UNCHANGED <<leases, dead, displaced>>
    BY <1>1 DEF ResolversOK, Holding, Guarding, Lookup, At, Goto
  <2>2. QED
    BY <2>1, SameGuards DEF RefcountsMatchGuards
<1>2. ASSUME NEW r \in Resolvers, Verify(r) PROVE RefcountsMatchGuards'
  <2>1. /\ \A q \in Resolvers \ {r} : pc'[q] = pc[q] /\ entry'[q] = entry[q]
        /\ \/ pc[r] \notin Guarding /\ pc'[r] \notin Guarding
           \/ pc[r] \in Guarding /\ pc'[r] \in Guarding /\ entry'[r] = entry[r]
        /\ UNCHANGED <<leases, dead, displaced>>
    BY <1>2 DEF ResolversOK, Holding, Guarding, Verify, At, Goto
  <2>2. QED
    BY <2>1, SameGuards DEF RefcountsMatchGuards
<1>3. ASSUME NEW r \in Resolvers, Download(r) PROVE RefcountsMatchGuards'
  <2>1. /\ \A q \in Resolvers \ {r} : pc'[q] = pc[q] /\ entry'[q] = entry[q]
        /\ \/ pc[r] \notin Guarding /\ pc'[r] \notin Guarding
           \/ pc[r] \in Guarding /\ pc'[r] \in Guarding /\ entry'[r] = entry[r]
        /\ UNCHANGED <<leases, dead, displaced>>
    BY <1>3 DEF ResolversOK, Holding, Guarding, Download, At, Goto
  <2>2. QED
    BY <2>1, SameGuards DEF RefcountsMatchGuards
<1>4. ASSUME NEW r \in Resolvers, Promote(r) PROVE RefcountsMatchGuards'
  <2>1. /\ \A q \in Resolvers \ {r} : pc'[q] = pc[q] /\ entry'[q] = entry[q]
        /\ \/ pc[r] \notin Guarding /\ pc'[r] \notin Guarding
           \/ pc[r] \in Guarding /\ pc'[r] \in Guarding /\ entry'[r] = entry[r]
        /\ UNCHANGED <<leases, dead, displaced>>
    BY <1>4 DEF ResolversOK, Holding, Guarding, Promote, At, Goto
  <2>2. QED
    BY <2>1, SameGuards DEF RefcountsMatchGuards
<1>5. ASSUME NEW r \in Resolvers, Record(r) PROVE RefcountsMatchGuards'
  <2>1. /\ \A q \in Resolvers \ {r} : pc'[q] = pc[q] /\ entry'[q] = entry[q]
        /\ \/ pc[r] \notin Guarding /\ pc'[r] \notin Guarding
           \/ pc[r] \in Guarding /\ pc'[r] \in Guarding /\ entry'[r] = entry[r]
        /\ UNCHANGED <<leases, dead, displaced>>
    BY <1>5 DEF ResolversOK, Holding, Guarding, Record, At, Goto
  <2>2. QED
    BY <2>1, SameGuards DEF RefcountsMatchGuards
<1>6. ASSUME NEW r \in Resolvers, Reread(r) PROVE RefcountsMatchGuards'
  <2>1. /\ \A q \in Resolvers \ {r} : pc'[q] = pc[q] /\ entry'[q] = entry[q]
        /\ \/ pc[r] \notin Guarding /\ pc'[r] \notin Guarding
           \/ pc[r] \in Guarding /\ pc'[r] \in Guarding /\ entry'[r] = entry[r]
        /\ UNCHANGED <<leases, dead, displaced>>
    BY <1>6 DEF ResolversOK, Holding, Guarding, Reread, At, Goto
  <2>2. QED
    BY <2>1, SameGuards DEF RefcountsMatchGuards
<1>7. ASSUME NEW r \in Resolvers, PinUpdate(r) PROVE RefcountsMatchGuards'
  <2>0. /\ \A q \in Resolvers \ {r} : pc'[q] = pc[q] /\ entry'[q] = entry[q]
        /\ entry[r] \in Ids /\ entry'[r] = entry[r] /\ ProcOf[r] \notin dead
        /\ UNCHANGED <<dead, displaced>>
    BY <1>7 DEF ResolversOK, Holding, EntryKnown, Knowing, PinUpdate, At, Goto
  <2>1. CASE Refcount(r) > 0
    <3>1. Refcount(r) + 1 \in Nat
      BY <2>0, RefcountType
    <3>2. SetLease(r, Refcount(r) + 1)
      BY <1>7, <2>1 DEF PinUpdate
    <3>3. pc[r] \notin Guarding /\ pc'[r] \in Guarding
      BY <1>7, <2>1 DEF ResolversOK, PinUpdate, At, Goto, Guarding, Holding
    <3>4. /\ Guards(entry[r], ProcOf[r])' =
               Guards(entry[r], ProcOf[r]) \cup {r}
          /\ r \notin Guards(entry[r], ProcOf[r])
          /\ \A i, p : i # entry[r] \/ p # ProcOf[r] =>
               Guards(i, p)' = Guards(i, p)
      BY <2>0, <3>3 DEF Guards, Guarding
    <3>5. Cardinality(Guards(entry[r], ProcOf[r]))' =
            Cardinality(Guards(entry[r], ProcOf[r])) + 1
      BY <3>4, GuardsFinite, FS_AddElement
    <3>6. ~displaced => Refcount(r) = Cardinality(Guards(entry[r], ProcOf[r]))
      BY <2>0, ProcAssumption DEF RefcountsMatchGuards, Refcount
    <3>7. \A i \in Ids, p \in Procs : leases'[i][p] =
            IF i = entry[r] /\ p = ProcOf[r] THEN Refcount(r) + 1
            ELSE leases[i][p]
      BY <2>0, <2>1, <3>1, <3>2, LeaseWrite
    <3>8. QED
      <4> SUFFICES ASSUME ~displaced', NEW i \in Ids, NEW p \in Procs \ dead'
                   PROVE  leases'[i][p] = Cardinality(Guards(i, p))'
        BY DEF RefcountsMatchGuards
      <4>1. CASE i = entry[r] /\ p = ProcOf[r]
        BY <2>0, <3>4, <3>5, <3>6, <3>7, <4>1
      <4>2. CASE ~(i = entry[r] /\ p = ProcOf[r])
        <5>1. leases'[i][p] = leases[i][p] /\ Guards(i, p)' = Guards(i, p)
          BY <2>0, <3>4, <3>5, <3>6, <3>7, <4>2
        <5>2. QED
          BY <2>0, <3>4, <3>5, <3>6, <3>7, <5>1 DEF RefcountsMatchGuards
      <4>3. QED
        BY <4>1, <4>2
  <2>2. CASE ~(Refcount(r) > 0)
    <3>1. pc[r] \notin Guarding /\ pc'[r] \notin Guarding /\ UNCHANGED leases
      BY <1>7, <2>2 DEF ResolversOK, PinUpdate, At, Goto, Guarding, Holding
    <3>2. QED
      BY <2>0, <3>1, SameGuards DEF RefcountsMatchGuards
  <2>3. QED
    BY <2>1, <2>2
<1>8. ASSUME NEW r \in Resolvers, PinInsert(r) PROVE RefcountsMatchGuards'
  <2>0. /\ \A q \in Resolvers \ {r} : pc'[q] = pc[q] /\ entry'[q] = entry[q]
        /\ entry[r] \in Ids /\ entry'[r] = entry[r] /\ ProcOf[r] \notin dead
        /\ UNCHANGED <<dead, displaced>>
    BY <1>8 DEF ResolversOK, Holding, EntryKnown, Knowing, PinInsert, At, Goto
  <2>1. CASE row[entry[r]] # None /\ Refcount(r) = 0
    <3>1. Refcount(r) + 1 \in Nat
      BY <2>0, RefcountType
    <3>2. SetLease(r, Refcount(r) + 1)
      BY <1>8, <2>1 DEF PinInsert
    <3>3. pc[r] \notin Guarding /\ pc'[r] \in Guarding
      BY <1>8, <2>1 DEF ResolversOK, PinInsert, At, Goto, Guarding, Holding
    <3>4. /\ Guards(entry[r], ProcOf[r])' =
               Guards(entry[r], ProcOf[r]) \cup {r}
          /\ r \notin Guards(entry[r], ProcOf[r])
          /\ \A i, p : i # entry[r] \/ p # ProcOf[r] =>
               Guards(i, p)' = Guards(i, p)
      BY <2>0, <3>3 DEF Guards, Guarding
    <3>5. Cardinality(Guards(entry[r], ProcOf[r]))' =
            Cardinality(Guards(entry[r], ProcOf[r])) + 1
      BY <3>4, GuardsFinite, FS_AddElement
    <3>6. ~displaced => Refcount(r) = Cardinality(Guards(entry[r], ProcOf[r]))
      BY <2>0, ProcAssumption DEF RefcountsMatchGuards, Refcount
    <3>7. \A i \in Ids, p \in Procs : leases'[i][p] =
            IF i = entry[r] /\ p = ProcOf[r] THEN Refcount(r) + 1
            ELSE leases[i][p]
      BY <2>0, <2>1, <3>1, <3>2, LeaseWrite
    <3>8. QED
      <4> SUFFICES ASSUME ~displaced', NEW i \in Ids, NEW p \in Procs \ dead'
                   PROVE  leases'[i][p] = Cardinality(Guards(i, p))'
        BY DEF RefcountsMatchGuards
      <4>1. CASE i = entry[r] /\ p = ProcOf[r]
        BY <2>0, <3>4, <3>5, <3>6, <3>7, <4>1
      <4>2. CASE ~(i = entry[r] /\ p = ProcOf[r])
        <5>1. leases'[i][p] = leases[i][p] /\ Guards(i, p)' = Guards(i, p)
          BY <2>0, <3>4, <3>5, <3>6, <3>7, <4>2
        <5>2. QED
          BY <2>0, <3>4, <3>5, <3>6, <3>7, <5>1 DEF RefcountsMatchGuards
      <4>3. QED
        BY <4>1, <4>2
  <2>2. CASE ~(row[entry[r]] # None /\ Refcount(r) = 0)
    <3>1. pc[r] \notin Guarding /\ pc'[r] \notin Guarding /\ UNCHANGED leases
      BY <1>8, <2>2 DEF ResolversOK, PinInsert, At, Goto, Guarding, Holding
    <3>2. QED
      BY <2>0, <3>1, SameGuards DEF RefcountsMatchGuards
  <2>3. QED
    BY <2>1, <2>2
<1>9. ASSUME NEW r \in Resolvers, PinCount(r) PROVE RefcountsMatchGuards'
  <2>1. /\ \A q \in Resolvers \ {r} : pc'[q] = pc[q] /\ entry'[q] = entry[q]
        /\ \/ pc[r] \notin Guarding /\ pc'[r] \notin Guarding
           \/ pc[r] \in Guarding /\ pc'[r] \in Guarding /\ entry'[r] = entry[r]
        /\ UNCHANGED <<leases, dead, displaced>>
    BY <1>9 DEF ResolversOK, Holding, Guarding, PinCount, At, Goto
  <2>2. QED
    BY <2>1, SameGuards DEF RefcountsMatchGuards
<1>10. ASSUME NEW r \in Resolvers, Materialize(r) PROVE RefcountsMatchGuards'
  <2>1. /\ \A q \in Resolvers \ {r} : pc'[q] = pc[q] /\ entry'[q] = entry[q]
        /\ \/ pc[r] \notin Guarding /\ pc'[r] \notin Guarding
           \/ pc[r] \in Guarding /\ pc'[r] \in Guarding /\ entry'[r] = entry[r]
        /\ UNCHANGED <<leases, dead, displaced>>
    BY <1>10 DEF ResolversOK, Holding, Guarding, Materialize, At, Goto
  <2>2. QED
    BY <2>1, SameGuards DEF RefcountsMatchGuards
<1>11. ASSUME NEW r \in Resolvers, UnpinUpdate(r) PROVE RefcountsMatchGuards'
  <2>0. /\ \A q \in Resolvers \ {r} : pc'[q] = pc[q] /\ entry'[q] = entry[q]
        /\ entry[r] \in Ids /\ entry'[r] = entry[r] /\ ProcOf[r] \notin dead
        /\ UNCHANGED <<dead, displaced>>
    BY <1>11
    DEF ResolversOK, Holding, EntryKnown, Knowing, UnpinUpdate, At, Goto
  <2>1. pc[r] \in Guarding /\ pc'[r] \notin Guarding
    BY <1>11 DEF ResolversOK, UnpinUpdate, At, Goto, Guarding, Holding
  <2>2. SUFFICES ASSUME ~displaced PROVE RefcountsMatchGuards'
    BY <2>0 DEF RefcountsMatchGuards
  <2>3. /\ Refcount(r) = Cardinality(Guards(entry[r], ProcOf[r]))
        /\ Refcount(r) \in Nat \ {0}
    BY <2>0, <2>1, <2>2, GuardCounts
  <2>4. SetLease(r, Refcount(r) - 1) /\ Refcount(r) - 1 \in Nat
    BY <1>11, <2>3 DEF UnpinUpdate
  <2>5. /\ Guards(entry[r], ProcOf[r])' = Guards(entry[r], ProcOf[r]) \ {r}
        /\ r \in Guards(entry[r], ProcOf[r])
        /\ \A i, p : i # entry[r] \/ p # ProcOf[r] =>
               Guards(i, p)' = Guards(i, p)
    BY <2>0, <2>1 DEF Guards, Guarding
  <2>6. Cardinality(Guards(entry[r], ProcOf[r]))' =
          Cardinality(Guards(entry[r], ProcOf[r])) - 1
    BY <2>5, GuardsFinite, FS_RemoveElement
  <2>7. \A i \in Ids, p \in Procs : leases'[i][p] =
          IF i = entry[r] /\ p = ProcOf[r] THEN Refcount(r) - 1
          ELSE leases[i][p]
    BY <2>0, <2>4, LeaseWrite
  <2>8. QED
    <3> SUFFICES ASSUME ~displaced', NEW i \in Ids, NEW p \in Procs \ dead'
                 PROVE  leases'[i][p] = Cardinality(Guards(i, p))'
      BY DEF RefcountsMatchGuards
    <3>1. CASE i = entry[r] /\ p = ProcOf[r]
      BY <2>0, <2>2, <2>3, <2>5, <2>6, <2>7, <3>1
    <3>2. CASE ~(i = entry[r] /\ p = ProcOf[r])
      <4>1. leases'[i][p] = leases[i][p] /\ Guards(i, p)' = Guards(i, p)
        BY <2>0, <2>2, <2>3, <2>5, <2>6, <2>7, <3>2
      <4>2. QED
        BY <2>0, <2>2, <2>3, <2>5, <2>6, <2>7, <4>1 DEF RefcountsMatchGuards
    <3>3. QED
      BY <3>1, <3>2
<1>12. ASSUME NEW r \in Resolvers, UnpinCount(r) PROVE RefcountsMatchGuards'
  <2>1. /\ \A q \in Resolvers \ {r} : pc'[q] = pc[q] /\ entry'[q] = entry[q]
        /\ \/ pc[r] \notin Guarding /\ pc'[r] \notin Guarding
           \/ pc[r] \in Guarding /\ pc'[r] \in Guarding /\ entry'[r] = entry[r]
        /\ UNCHANGED <<leases, dead, displaced>>
    BY <1>12 DEF ResolversOK, Holding, Guarding, UnpinCount, At, Goto
  <2>2. QED
    BY <2>1, SameGuards DEF RefcountsMatchGuards
<1>13. ASSUME NEW p \in Procs, Crash(p) PROVE RefcountsMatchGuards'
  <2>1. \A i, q : Guards(i, q)' = Guards(i, q)
    BY <1>13 DEF Crash, Guards
  <2>2. QED
    BY <1>13, <2>1 DEF Crash, RefcountsMatchGuards
<1>14. CASE GcReap
  <2>1. \A i, p : Guards(i, p)' = Guards(i, p)
    BY <1>14 DEF GcReap, Guards
  <2>2. \A i \in Ids : \A p \in Procs \ dead : leases'[i][p] = leases[i][p]
    BY <1>14 DEF GcReap
  <2>3. QED
    BY <1>14, <2>1, <2>2 DEF GcReap, RefcountsMatchGuards
<1>15. CASE GcDelete
  <2>1. SUFFICES ASSUME ~displaced' PROVE RefcountsMatchGuards'
    BY DEF RefcountsMatchGuards
  <2>2. \A i, p : Guards(i, p)' = Guards(i, p)
    BY <1>15 DEF GcDelete, Guards
  <2>3. ~displaced /\ \A p : Guards(cur.id, p) = {}
    BY <1>15, <2>1 DEF GcDelete, Guards, Holding
  <2>4. \A i \in Ids, p \in Procs :
          leases'[i][p] = IF i = cur.id THEN 0 ELSE leases[i][p]
    BY <1>15 DEF GcDelete, IndexOK
  <2>5. QED
    <3> SUFFICES ASSUME NEW i \in Ids, NEW p \in Procs \ dead'
                 PROVE  leases'[i][p] = Cardinality(Guards(i, p))'
      BY DEF RefcountsMatchGuards
    <3>1. CASE i = cur.id
      BY <2>2, <2>3, <2>4, <3>1, FS_EmptySet
    <3>2. CASE i # cur.id
      <4>1. leases'[i][p] = leases[i][p] /\ dead' = dead
            /\ Guards(i, p)' = Guards(i, p)
        BY <1>15, <2>2, <2>4, <3>2 DEF GcDelete
      <4>2. QED
        BY <2>3, <4>1 DEF RefcountsMatchGuards
    <3>3. QED
      BY <3>1, <3>2
<1>16. ASSUME UNCHANGED <<pc, entry, leases, dead, displaced>>
       PROVE RefcountsMatchGuards'
  BY <1>16 DEF RefcountsMatchGuards, Guards
<1>17. QED
  BY <1>1, <1>2, <1>3, <1>4, <1>5, <1>6, <1>7, <1>8, <1>9, <1>10, <1>11,
     <1>12, <1>13, <1>14, <1>15, <1>16
  DEF Next, Resolve, Collect, vars, Recycle, GcRecount, GcList, GcRemove,
      GcClear, GcDies, ReconList, ReconCheck, ReconClear, ReconSweep

\* A running guard's entry has a row and a lease.
LEMMA GuardHasRow ==
  ASSUME IndexOK, EntryKnown, EntryCurrent, RefcountsMatchGuards, ~displaced,
         NEW r \in Resolvers, pc[r] \in Guarding, ProcOf[r] \notin dead
  PROVE  entry[r] \in Ids /\ row[entry[r]] # None /\ Leased(entry[r])
<1>1. entry[r] \in Ids /\ row[entry[r]] = blob[r] /\ blob[r] \in Blobs
  BY DEF EntryKnown, EntryCurrent, Guarding, Knowing, Holding
<1>2. Refcount(r) \in Nat \ {0}
  BY <1>1, GuardCounts
<1>3. QED
  BY <1>1, <1>2, ProcAssumption, RowAssumption DEF Refcount, Leased

\* No recount lowers the pin count of an entry that is held, and the deletion
\* of its row is a displacement.
HeldArePinned ==
  ~displaced => \A r \in Resolvers :
    pc[r] \in Holding /\ ProcOf[r] \notin dead => entry[r] \in pinned

\* Every action keeps the entries of running guards pinned.
LEMMA HeldStep ==
  ResolversOK /\ EntryKnown /\ IndexOK /\ EntryCurrent
  /\ RefcountsMatchGuards /\ HeldArePinned /\ [Next]_vars => HeldArePinned'
<1> SUFFICES ASSUME ResolversOK, EntryKnown, IndexOK,
                    EntryCurrent, RefcountsMatchGuards,
                    HeldArePinned, [Next]_vars
             PROVE  HeldArePinned'
  OBVIOUS
<1> USE ProcAssumption, RowAssumption
    DEF resolver, table, index, files, fate, collector, reconciler,
        history, bounds, world
<1>1. ASSUME NEW r \in Resolvers, NEW b \in Blobs, Lookup(r, b)
      PROVE  HeldArePinned'
  <2>1. /\ \A q \in Resolvers :
              /\ pc'[q] \in Holding => pc[q] \in Holding
              /\ pc[q] \in Holding => entry'[q] = entry[q]
        /\ UNCHANGED <<dead, displaced, pinned>>
    BY <1>1 DEF ResolversOK, Holding, Lookup, At, Goto
  <2>2. QED
    BY <2>1 DEF HeldArePinned
<1>2. ASSUME NEW r \in Resolvers, Verify(r) PROVE HeldArePinned'
  <2>1. /\ \A q \in Resolvers :
              /\ pc'[q] \in Holding => pc[q] \in Holding
              /\ pc[q] \in Holding => entry'[q] = entry[q]
        /\ UNCHANGED <<dead, displaced, pinned>>
    BY <1>2 DEF ResolversOK, Holding, Verify, At, Goto
  <2>2. QED
    BY <2>1 DEF HeldArePinned
<1>3. ASSUME NEW r \in Resolvers, Download(r) PROVE HeldArePinned'
  <2>1. /\ \A q \in Resolvers :
              /\ pc'[q] \in Holding => pc[q] \in Holding
              /\ pc[q] \in Holding => entry'[q] = entry[q]
        /\ UNCHANGED <<dead, displaced, pinned>>
    BY <1>3 DEF ResolversOK, Holding, Download, At, Goto
  <2>2. QED
    BY <2>1 DEF HeldArePinned
<1>4. ASSUME NEW r \in Resolvers, Promote(r) PROVE HeldArePinned'
  <2>1. /\ \A q \in Resolvers :
              /\ pc'[q] \in Holding => pc[q] \in Holding
              /\ pc[q] \in Holding => entry'[q] = entry[q]
        /\ UNCHANGED <<dead, displaced, pinned>>
    BY <1>4 DEF ResolversOK, Holding, Promote, At, Goto
  <2>2. QED
    BY <2>1 DEF HeldArePinned
<1>5. ASSUME NEW r \in Resolvers, Record(r) PROVE HeldArePinned'
  <2>1. /\ \A q \in Resolvers :
              /\ pc'[q] \in Holding => pc[q] \in Holding
              /\ pc[q] \in Holding => entry'[q] = entry[q]
        /\ UNCHANGED <<dead, displaced, pinned>>
    BY <1>5 DEF ResolversOK, Holding, Record, At, Goto
  <2>2. QED
    BY <2>1 DEF HeldArePinned
<1>6. ASSUME NEW r \in Resolvers, Reread(r) PROVE HeldArePinned'
  <2>1. /\ \A q \in Resolvers :
              /\ pc'[q] \in Holding => pc[q] \in Holding
              /\ pc[q] \in Holding => entry'[q] = entry[q]
        /\ UNCHANGED <<dead, displaced, pinned>>
    BY <1>6 DEF ResolversOK, Holding, Reread, At, Goto
  <2>2. QED
    BY <2>1 DEF HeldArePinned
<1>7. ASSUME NEW r \in Resolvers, PinUpdate(r) PROVE HeldArePinned'
  <2>1. /\ \A q \in Resolvers :
              /\ pc'[q] \in Holding => pc[q] \in Holding
              /\ pc[q] \in Holding => entry'[q] = entry[q]
        /\ UNCHANGED <<dead, displaced, pinned>>
    BY <1>7 DEF ResolversOK, Holding, PinUpdate, At, Goto
  <2>2. QED
    BY <2>1 DEF HeldArePinned
<1>8. ASSUME NEW r \in Resolvers, PinInsert(r) PROVE HeldArePinned'
  <2>1. /\ \A q \in Resolvers :
              /\ pc'[q] \in Holding => pc[q] \in Holding
              /\ pc[q] \in Holding => entry'[q] = entry[q]
        /\ UNCHANGED <<dead, displaced, pinned>>
    BY <1>8 DEF ResolversOK, Holding, PinInsert, At, Goto
  <2>2. QED
    BY <2>1 DEF HeldArePinned
<1>9. ASSUME NEW r \in Resolvers, PinCount(r) PROVE HeldArePinned'
  <2> SUFFICES ASSUME ~displaced, NEW q \in Resolvers, pc'[q] \in Holding,
                      ProcOf[q] \notin dead
               PROVE  entry[q] \in pinned'
    BY <1>9 DEF HeldArePinned, PinCount
  <2>1. pc[q] \in Guarding /\ (q # r => pc[q] \in Holding)
    BY <1>9 DEF ResolversOK, PinCount, At, Goto, Guarding, Holding
  <2>2. entry[q] \in Ids /\ row[entry[q]] # None /\ Leased(entry[q])
    BY <2>1, GuardHasRow
  <2>3. QED
    BY <1>9, <2>1, <2>2 DEF PinCount, Recount, HeldArePinned
<1>10. ASSUME NEW r \in Resolvers, Materialize(r) PROVE HeldArePinned'
  <2>1. /\ \A q \in Resolvers :
              /\ pc'[q] \in Holding => pc[q] \in Holding
              /\ pc[q] \in Holding => entry'[q] = entry[q]
        /\ UNCHANGED <<dead, displaced, pinned>>
    BY <1>10 DEF ResolversOK, Holding, Materialize, At, Goto
  <2>2. QED
    BY <2>1 DEF HeldArePinned
<1>11. ASSUME NEW r \in Resolvers, UnpinUpdate(r) PROVE HeldArePinned'
  <2>1. /\ \A q \in Resolvers :
              /\ pc'[q] \in Holding => pc[q] \in Holding
              /\ pc[q] \in Holding => entry'[q] = entry[q]
        /\ UNCHANGED <<dead, displaced, pinned>>
    BY <1>11 DEF ResolversOK, Holding, UnpinUpdate, At, Goto
  <2>2. QED
    BY <2>1 DEF HeldArePinned
<1>12. ASSUME NEW r \in Resolvers, UnpinCount(r) PROVE HeldArePinned'
  <2> SUFFICES ASSUME ~displaced, NEW q \in Resolvers, pc'[q] \in Holding,
                      ProcOf[q] \notin dead
               PROVE  entry[q] \in pinned'
    BY <1>12 DEF HeldArePinned, UnpinCount
  <2>1. pc[q] \in Guarding /\ (q # r => pc[q] \in Holding)
    BY <1>12 DEF ResolversOK, UnpinCount, At, Goto, Guarding, Holding
  <2>2. entry[q] \in Ids /\ row[entry[q]] # None /\ Leased(entry[q])
    BY <2>1, GuardHasRow
  <2>3. QED
    BY <1>12, <2>1, <2>2 DEF UnpinCount, Recount, HeldArePinned
<1>13. ASSUME NEW p \in Procs, Crash(p) PROVE HeldArePinned'
  BY <1>13 DEF Crash, HeldArePinned
<1>14. CASE GcRecount
  <2> SUFFICES ASSUME ~displaced, NEW q \in Resolvers, pc[q] \in Holding,
                      ProcOf[q] \notin dead
               PROVE  entry[q] \in pinned'
    BY <1>14 DEF HeldArePinned, GcRecount
  <2>1. entry[q] \in Ids /\ row[entry[q]] # None /\ Leased(entry[q])
    BY GuardHasRow DEF Guarding
  <2>2. QED
    BY <1>14, <2>1 DEF GcRecount, Recount
<1>15. CASE GcDelete
  BY <1>15 DEF GcDelete, HeldArePinned, Holding
<1>16. ASSUME UNCHANGED <<pc, entry, pinned, dead, displaced>>
       PROVE HeldArePinned'
  BY <1>16 DEF Holding, HeldArePinned
<1>17. QED
  BY <1>1, <1>2, <1>3, <1>4, <1>5, <1>6, <1>7, <1>8, <1>9, <1>10, <1>11,
     <1>12, <1>13, <1>14, <1>15, <1>16
  DEF Next, Resolve, Collect, vars, Recycle, GcReap, GcList, GcRemove,
      GcClear, GcDies, ReconList, ReconCheck, ReconClear, ReconSweep

\* Where a resolver that has had its lease can be.
Past == Holding \cup {"uncount", "done"}

(***************************************************************************)
(* A resolver that was protected when the victims were listed does not     *)
(* hold again once it let go; while it holds, its process runs, its file   *)
(* is there and no victim left to evict is that file.                      *)
(***************************************************************************)
KeptSafe ==
  /\ \A r \in kept : pc[r] \in Past
  /\ ~displaced => \A r \in kept : pc[r] \in Holding =>
       /\ ProcOf[r] \notin dead /\ blob[r] \in disk
       /\ \A v \in victims : v.blob # blob[r]

\* A pass evicts no file that was leased when it listed its victims.
LEMMA KeptStep ==
  ResolversOK /\ EntryKnown /\ IndexOK /\ HistoryOK /\ OneRow
  /\ EntryCurrent /\ HeldArePinned /\ KeptSafe /\ [Next]_vars => KeptSafe'
<1> SUFFICES ASSUME ResolversOK, EntryKnown, IndexOK,
                    HistoryOK, OneRow, EntryCurrent,
                    HeldArePinned, KeptSafe, [Next]_vars
             PROVE  KeptSafe'
  OBVIOUS
<1> USE ProcAssumption, RowAssumption
    DEF resolver, table, index, files, fate, collector, reconciler,
        history, bounds, world
<1>1. ASSUME NEW r \in Resolvers, NEW b \in Blobs, Lookup(r, b)
      PROVE  KeptSafe'
  <2>1. /\ \A q \in kept :
              /\ pc'[q] \in Past /\ blob'[q] = blob[q]
              /\ pc'[q] \in Holding => pc[q] \in Holding
        /\ UNCHANGED <<dead, kept, victims, displaced>>
        /\ disk \subseteq disk'
    BY <1>1
    DEF KeptSafe, ResolversOK, HistoryOK, Past, Holding, Lookup, At, Goto
  <2>2. QED
    BY <2>1 DEF KeptSafe
<1>2. ASSUME NEW r \in Resolvers, Verify(r) PROVE KeptSafe'
  <2>1. /\ \A q \in kept :
              /\ pc'[q] \in Past /\ blob'[q] = blob[q]
              /\ pc'[q] \in Holding => pc[q] \in Holding
        /\ UNCHANGED <<dead, kept, victims, displaced>>
        /\ disk \subseteq disk'
    BY <1>2
    DEF KeptSafe, ResolversOK, HistoryOK, Past, Holding, Verify, At, Goto
  <2>2. QED
    BY <2>1 DEF KeptSafe
<1>3. ASSUME NEW r \in Resolvers, Download(r) PROVE KeptSafe'
  <2>1. /\ \A q \in kept :
              /\ pc'[q] \in Past /\ blob'[q] = blob[q]
              /\ pc'[q] \in Holding => pc[q] \in Holding
        /\ UNCHANGED <<dead, kept, victims, displaced>>
        /\ disk \subseteq disk'
    BY <1>3
    DEF KeptSafe, ResolversOK, HistoryOK, Past, Holding, Download, At, Goto
  <2>2. QED
    BY <2>1 DEF KeptSafe
<1>4. ASSUME NEW r \in Resolvers, Promote(r) PROVE KeptSafe'
  <2>1. /\ \A q \in kept :
              /\ pc'[q] \in Past /\ blob'[q] = blob[q]
              /\ pc'[q] \in Holding => pc[q] \in Holding
        /\ UNCHANGED <<dead, kept, victims, displaced>>
        /\ disk \subseteq disk'
    BY <1>4
    DEF KeptSafe, ResolversOK, HistoryOK, Past, Holding, Promote, At, Goto
  <2>2. QED
    BY <2>1 DEF KeptSafe
<1>5. ASSUME NEW r \in Resolvers, Record(r) PROVE KeptSafe'
  <2>1. /\ \A q \in kept :
              /\ pc'[q] \in Past /\ blob'[q] = blob[q]
              /\ pc'[q] \in Holding => pc[q] \in Holding
        /\ UNCHANGED <<dead, kept, victims, displaced>>
        /\ disk \subseteq disk'
    BY <1>5
    DEF KeptSafe, ResolversOK, HistoryOK, Past, Holding, Record, At, Goto
  <2>2. QED
    BY <2>1 DEF KeptSafe
<1>6. ASSUME NEW r \in Resolvers, Reread(r) PROVE KeptSafe'
  <2>1. /\ \A q \in kept :
              /\ pc'[q] \in Past /\ blob'[q] = blob[q]
              /\ pc'[q] \in Holding => pc[q] \in Holding
        /\ UNCHANGED <<dead, kept, victims, displaced>>
        /\ disk \subseteq disk'
    BY <1>6
    DEF KeptSafe, ResolversOK, HistoryOK, Past, Holding, Reread, At, Goto
  <2>2. QED
    BY <2>1 DEF KeptSafe
<1>7. ASSUME NEW r \in Resolvers, PinUpdate(r) PROVE KeptSafe'
  <2>1. /\ \A q \in kept :
              /\ pc'[q] \in Past /\ blob'[q] = blob[q]
              /\ pc'[q] \in Holding => pc[q] \in Holding
        /\ UNCHANGED <<dead, kept, victims, displaced>>
        /\ disk \subseteq disk'
    BY <1>7
    DEF KeptSafe, ResolversOK, HistoryOK, Past, Holding, PinUpdate, At,
        Goto
  <2>2. QED
    BY <2>1 DEF KeptSafe
<1>8. ASSUME NEW r \in Resolvers, PinInsert(r) PROVE KeptSafe'
  <2>1. /\ \A q \in kept :
              /\ pc'[q] \in Past /\ blob'[q] = blob[q]
              /\ pc'[q] \in Holding => pc[q] \in Holding
        /\ UNCHANGED <<dead, kept, victims, displaced>>
        /\ disk \subseteq disk'
    BY <1>8
    DEF KeptSafe, ResolversOK, HistoryOK, Past, Holding, PinInsert, At,
        Goto
  <2>2. QED
    BY <2>1 DEF KeptSafe
<1>9. ASSUME NEW r \in Resolvers, PinCount(r) PROVE KeptSafe'
  <2>1. /\ \A q \in kept :
              /\ pc'[q] \in Past /\ blob'[q] = blob[q]
              /\ pc'[q] \in Holding => pc[q] \in Holding
        /\ UNCHANGED <<dead, kept, victims, displaced>>
        /\ disk \subseteq disk'
    BY <1>9
    DEF KeptSafe, ResolversOK, HistoryOK, Past, Holding, PinCount, At, Goto
  <2>2. QED
    BY <2>1 DEF KeptSafe
<1>10. ASSUME NEW r \in Resolvers, Materialize(r) PROVE KeptSafe'
  <2>1. /\ \A q \in kept :
              /\ pc'[q] \in Past /\ blob'[q] = blob[q]
              /\ pc'[q] \in Holding => pc[q] \in Holding
        /\ UNCHANGED <<dead, kept, victims, displaced>>
        /\ disk \subseteq disk'
    BY <1>10
    DEF KeptSafe, ResolversOK, HistoryOK, Past, Holding, Materialize, At,
        Goto
  <2>2. QED
    BY <2>1 DEF KeptSafe
<1>11. ASSUME NEW r \in Resolvers, UnpinUpdate(r) PROVE KeptSafe'
  <2>1. /\ \A q \in kept :
              /\ pc'[q] \in Past /\ blob'[q] = blob[q]
              /\ pc'[q] \in Holding => pc[q] \in Holding
        /\ UNCHANGED <<dead, kept, victims, displaced>>
        /\ disk \subseteq disk'
    BY <1>11
    DEF KeptSafe, ResolversOK, HistoryOK, Past, Holding, UnpinUpdate, At,
        Goto
  <2>2. QED
    BY <2>1 DEF KeptSafe
<1>12. ASSUME NEW r \in Resolvers, UnpinCount(r) PROVE KeptSafe'
  <2>1. /\ \A q \in kept :
              /\ pc'[q] \in Past /\ blob'[q] = blob[q]
              /\ pc'[q] \in Holding => pc[q] \in Holding
        /\ UNCHANGED <<dead, kept, victims, displaced>>
        /\ disk \subseteq disk'
    BY <1>12
    DEF KeptSafe, ResolversOK, HistoryOK, Past, Holding, UnpinCount, At,
        Goto
  <2>2. QED
    BY <2>1 DEF KeptSafe
<1>13. ASSUME NEW p \in Procs, Crash(p) PROVE KeptSafe'
  BY <1>13 DEF Crash, KeptSafe, Past
<1>14. CASE GcList
  <2>1. \A q \in kept' : /\ q \in Resolvers /\ ProcOf[q] \notin dead
                        /\ pc[q] \in Holding /\ blob[q] \in disk
    BY <1>14 DEF GcList, Protected, At
  <2>2. ASSUME ~displaced, NEW q \in kept', NEW v \in victims'
        PROVE  v.blob # blob[q]
    <3>1. PICK i \in archived \ pinned : v = [id |-> i, blob |-> row[i]]
      BY <1>14 DEF GcList, Entries
    <3>2. /\ entry[q] \in pinned /\ entry[q] \in Ids
          /\ row[entry[q]] = blob[q] /\ blob[q] # None
      BY <2>1, <2>2
      DEF HeldArePinned, EntryKnown, EntryCurrent, Knowing, Holding
    <3>3. i \in Ids /\ i # entry[q]
      BY <3>1, <3>2 DEF IndexOK
    <3>4. QED
      BY <3>1, <3>2, <3>3 DEF OneRow
  <2>3. QED
    BY <1>14, <2>1, <2>2 DEF GcList, KeptSafe, Past
<1>15. CASE GcRemove
  <2>1. /\ victims' \subseteq victims
        /\ UNCHANGED <<pc, blob, dead, kept, displaced>>
        /\ disk' = disk \/ \E v \in victims : disk' = disk \ {v.blob}
    BY <1>15 DEF GcRemove
  <2>2. QED
    BY <2>1 DEF KeptSafe
<1>16. CASE GcDelete
  BY <1>16 DEF GcDelete, KeptSafe, Past
<1>17. CASE GcDies
  BY <1>17 DEF GcDies, KeptSafe, Past
<1>18. CASE ReconSweep
  BY <1>18 DEF ReconSweep, KeptSafe, Past
<1>19. ASSUME UNCHANGED <<pc, blob, dead, disk, victims, kept, displaced>>
       PROVE KeptSafe'
  BY <1>19 DEF KeptSafe
<1>20. QED
  BY <1>1, <1>2, <1>3, <1>4, <1>5, <1>6, <1>7, <1>8, <1>9, <1>10, <1>11,
     <1>12, <1>13, <1>14, <1>15, <1>16, <1>17, <1>18, <1>19
  DEF Next, Resolve, Collect, vars, Recycle, GcReap, GcRecount, GcClear,
      ReconList, ReconCheck, ReconClear

-----------------------------------------------------------------------------
(* The theorems. *)

Inv ==
  /\ TypeOK /\ EntryKnown /\ RowsKnown /\ OneRow /\ EntryCurrent
  /\ PinsAreCounted /\ RefcountsMatchGuards /\ HeldArePinned /\ KeptSafe

\* The empty cache satisfies the invariant.
LEMMA InvInit == Init => Inv
<1> SUFFICES ASSUME Init PROVE Inv
  OBVIOUS
<1> USE ProcAssumption, RowAssumption, BoundAssumption DEF Init
<1>1. TypeOK
  <2>1. ResolversOK
    BY DEF ResolversOK
  <2>2. IndexOK
    BY DEF IndexOK
  <2>3. DiskOK /\ FateOK /\ CollectorOK /\ ReconcilerOK
    BY DEF DiskOK, FateOK, CollectorOK, ReconcilerOK
  <2>4. HistoryOK
    <3>1. kept \subseteq Resolvers /\ displaced \in BOOLEAN
      OBVIOUS
    <3>2. passes = 0 /\ starts = 0 /\ faults = 0
      OBVIOUS
    <3>3. QED
      BY <3>1, <3>2, BoundAssumption DEF HistoryOK
  <2>5. QED
    BY <2>1, <2>2, <2>3, <2>4 DEF TypeOK
<1>2. EntryKnown /\ RowsKnown /\ OneRow /\ EntryCurrent
  BY DEF EntryKnown, RowsKnown, OneRow, EntryCurrent, Knowing, Holding
<1>3. PinsAreCounted /\ HeldArePinned /\ KeptSafe
  BY DEF PinsAreCounted, HeldArePinned, KeptSafe, Holding
<1>4. \A i, p : Guards(i, p) = {}
  BY DEF Guards, Holding
<1>5. RefcountsMatchGuards
  BY <1>4, FS_EmptySet DEF RefcountsMatchGuards
<1>6. QED
  BY <1>1, <1>2, <1>3, <1>5 DEF Inv

\* Every step keeps the invariant.
LEMMA InvNext == Inv /\ [Next]_vars => Inv'
BY ResolversStep, EntryStep, IndexStep, RowsStep, OneRowStep, CurrentStep,
   PinsStep, DiskStep, FateStep, CollectorStep, ReconcilerStep, HistoryStep,
   RefcountStep, HeldStep, KeptStep
DEF Inv, TypeOK

\* The invariant holds in every state of every behaviour.
LEMMA InvHolds == Spec => []Inv
BY InvInit, InvNext, PTL DEF Spec

(***************************************************************************)
(* Type correctness of resolvers, index, files, collector and reconcile    *)
(* (lnk/resolver.rs, disk_cache/index/queries.rs, gc.rs); in particular no *)
(* refcount falls below zero.                                              *)
(***************************************************************************)
THEOREM TypeCorrect == Spec => []TypeOK
<1>1. Inv => TypeOK
  BY DEF Inv
<1>2. QED
  BY <1>1, InvHolds, PTL

(***************************************************************************)
(* pinned tells whether an entry has leases, up to a recount that is due   *)
(* or was lost with its process (queries.rs pin, unpin, reap_dead_leases), *)
(* for any number of processes, resolvers, entries, passes and crashes.    *)
(***************************************************************************)
THEOREM PinsCounted == Spec => []PinsAreCounted
<1>1. Inv => PinsAreCounted
  BY DEF Inv
<1>2. QED
  BY <1>1, InvHolds, PTL

(***************************************************************************)
(* The refcount of a running process is the number of its Lease guards     *)
(* until a row is deleted under a resolver (lease.rs, queries.rs).         *)
(***************************************************************************)
THEOREM RefcountsExact == Spec => []RefcountsMatchGuards
<1>1. Inv => RefcountsMatchGuards
  BY DEF Inv
<1>2. QED
  BY <1>1, InvHolds, PTL

(***************************************************************************)
(* A pass of the collector evicts no file that was under a lease when it   *)
(* listed its victims (gc.rs run_gc).                                      *)
(***************************************************************************)
THEOREM LeasesRespected == Spec => []LeasesAreRespected
<1>1. Inv => LeasesAreRespected
  BY DEF Inv, KeptSafe, LeasesAreRespected
<1>2. QED
  BY <1>1, InvHolds, PTL
-----------------------------------------------------------------------------
(***************************************************************************)
(* The same cache, installing: theorems about PackageInstall, for every    *)
(* number of processes, mishaps and sweeps.                                *)
(***************************************************************************)
\* A process that is about to remove a lock has a reason to, and nobody else.
VerdictGiven == \A p \in Installers : at[p] = "tear" <=> verdict[p] # Nothing

\* Until something is torn, a process under the lock made the lock directory
\* that is there, and no other name is written in it.
LockIsMine ==
  torn = Nothing =>
    /\ \A p \in Installers : at[p] \in Section => lock # Nothing /\ lock.by = p
    /\ lock # Nothing => lock.owner \in {lock.by, Nothing}

\* Until something is torn, "its owner is dead" stays true of the lock that is
\* there.
DeadIsDead ==
  torn = Nothing =>
    \A p \in Installers : verdict[p] = "dead" => lock # Nothing /\ at[lock.by] = "dead"

\* A live owner loses its lock in three ways only.
TornBy == torn \in {Nothing, "old", "missing", "outdated"}

\* From the moment it makes its staging directory until the rename, that
\* directory is its own, with what its own steps put there.
StagingIsMine ==
  torn = Nothing =>
    \A p \in Installers :
      /\ at[p] \in {"download", "extract", "commit"} => mine[p]
      /\ at[p] = "commit" => stage = "whole"

InstallInv ==
  /\ InstallTypeOK /\ VerdictGiven /\ LockIsMine /\ DeadIsDead /\ TornBy
  /\ StagingIsMine /\ TreeIsWhole

\* What the removal of a lock directory does: a guard's drop and a justified
\* verdict tear nothing, and every other verdict is about a directory that is
\* gone.
LEMMA RemovalKeeps ==
  ASSUME InstallInv, NEW p \in Installers, NEW s \in Over \cup {"create"},
         Move(p, s), s # "dead", s # "idle", NEW why,
         \/ at[p] = "tear" /\ why = verdict[p]
         \/ at[p] \in Section /\ why = "release",
         RemoveLock(p, why),
         UNCHANGED <<stageVars, treeVars, sweepVars, faultVars, spoilt>>
  PROVE  InstallInv'
<1> USE NothingAssumption, BoundsAssumption
<1> USE DEF InstallInv, InstallTypeOK
<1>1. /\ at' = [at EXCEPT ![p] = s] /\ lock' = Nothing
      /\ verdict' = [q \in Installers |-> IF q = p \/ verdict[q] = Nothing
                                          THEN Nothing ELSE "outdated"]
      /\ torn' = IF /\ torn = Nothing /\ lock # Nothing
                    /\ lock.by # p /\ at[lock.by] \in Section
                 THEN why ELSE torn
      /\ UNCHANGED <<stage, mine, final, sentinel, recorded, evictor, purger,
                     sweeps, reused, mishaps, spoilt>>
  BY DEF Move, RemoveLock, stageVars, treeVars, sweepVars, faultVars
<1>2. s \notin Section /\ s # "tear"
  BY DEF Over, Section
<1>3. VerdictGiven'
  BY <1>1, <1>2 DEF VerdictGiven, Verdicts
<1>4. torn' = torn \/ torn' \in {"old", "missing", "outdated"}
  <2>1. CASE at[p] \in Section
    BY <1>1, <2>1 DEF LockIsMine
  <2>2. CASE at[p] = "tear" /\ why = verdict[p]
    <3>1. why \in Verdicts /\ why # Nothing
      BY <2>2 DEF VerdictGiven
    <3>2. CASE why = "dead" /\ torn = Nothing
      <4>1. lock # Nothing /\ at[lock.by] = "dead"
        BY <2>2, <3>2 DEF DeadIsDead
      <4> QED BY <1>1, <4>1 DEF Section
    <3>3. CASE torn # Nothing
      BY <1>1, <3>3
    <3> QED BY <1>1, <3>1, <3>2, <3>3 DEF Verdicts
  <2> QED BY <2>1, <2>2
<1>5. TornBy'
  BY <1>4 DEF TornBy
<1>6. torn' = Nothing => torn = Nothing /\ \A q \in Installers : at'[q] \notin Section
  <2> SUFFICES ASSUME torn' = Nothing, NEW q \in Installers, at'[q] \in Section
               PROVE  FALSE
    BY <1>4, <1>1 DEF Verdicts
  <2>1. torn = Nothing
    BY <1>4 DEF Verdicts
  <2>2. q # p /\ at[q] \in Section
    BY <1>1, <1>2
  <2>3. lock # Nothing /\ lock.by = q
    BY <2>1, <2>2 DEF LockIsMine
  <2>4. torn' = why
    BY <1>1, <2>1, <2>2, <2>3
  <2>5. why # Nothing
    BY DEF VerdictGiven
  <2> QED BY <2>4, <2>5
<1>7. LockIsMine' /\ StagingIsMine'
  BY <1>1, <1>6 DEF LockIsMine, StagingIsMine, Section
<1>8. DeadIsDead'
  <2>1. \A q \in Installers : verdict'[q] # "dead"
    BY <1>1 DEF Verdicts
  <2> QED BY <2>1 DEF DeadIsDead
<1>9. TreeIsWhole'
  BY <1>1, <1>4 DEF TreeIsWhole
<1>10. InstallTypeOK'
  <2>1. at' \in [Installers -> Over \cup Section \cup {"check", "create", "judge", "tear"}]
    BY <1>1
  <2>2. verdict' \in [Installers -> Verdicts \cup {Nothing}]
    BY <1>1 DEF Verdicts
  <2>3. torn' \in Verdicts \cup {"release", Nothing}
    BY <1>4 DEF Verdicts
  <2> QED BY <1>1, <2>1, <2>2, <2>3
<1> QED BY <1>3, <1>5, <1>7, <1>8, <1>9, <1>10

\* Every step of an installer, of a crash or of the daemon keeps it.
LEMMA InstallStep ==
  ASSUME InstallInv, [InstallNext]_installVars
  PROVE  InstallInv'
<1> USE NothingAssumption, BoundsAssumption
<1> USE DEF InstallInv, InstallTypeOK, LockRecords, Verdicts, Over, Section,
        VerdictGiven, LockIsMine, DeadIsDead, TornBy, StagingIsMine, TreeIsWhole,
        stageVars, treeVars, sweepVars, faultVars, pastVars
<1>1. ASSUME NEW p \in Installers, IsCached(p) PROVE InstallInv'
  BY <1>1 DEF IsCached, Move
<1>2. ASSUME NEW p \in Installers, Check(p) PROVE InstallInv'
  BY <1>2 DEF Check, Move
<1>3. ASSUME NEW p \in Installers, CreateLock(p) PROVE InstallInv'
  BY <1>3 DEF CreateLock, Move
<1>4. ASSUME NEW p \in Installers, WriteOwner(p) PROVE InstallInv'
  <2>1. CASE Move(p, "recheck") /\ lock # Nothing
    <3>1. /\ lock' = [lock EXCEPT !.owner = p, !.age = IF lock.owner = Nothing THEN 0 ELSE @]
          /\ UNCHANGED <<verdict, stage, mine, final, sentinel, recorded, evictor,
                         purger, sweeps, reused, mishaps, torn, spoilt>>
          /\ at' = [at EXCEPT ![p] = "recheck"]
          /\ at[p] = "own"
      BY <1>4, <2>1 DEF WriteOwner, Move
    <3>2. lock' \in LockRecords /\ lock'.by = lock.by /\ lock'.owner = p
      <4>1. lock \in [owner : Installers \cup {Nothing}, by : Installers, age : 0..1]
        BY <2>1
      <4>2. CASE lock.owner = Nothing
        <5>1. lock' = [lock EXCEPT !.owner = p, !.age = 0]
          BY <3>1, <4>2
        <5>2. lock' = [owner |-> p, by |-> lock.by, age |-> 0]
          BY <4>1, <5>1
        <5> QED BY <4>1, <5>2
      <4>3. CASE lock.owner # Nothing
        <5>1. lock' = [lock EXCEPT !.owner = p, !.age = lock.age]
          BY <3>1, <4>1, <4>3
        <5> QED BY <4>1, <5>1
      <4> QED BY <4>2, <4>3
    <3>3. InstallTypeOK'
      BY <3>1, <3>2
    <3>4. lock' # Nothing
      BY <3>2
    <3>5. VerdictGiven' /\ TornBy' /\ StagingIsMine' /\ TreeIsWhole'
      BY <3>1
    <3>6. LockIsMine'
      BY <3>1, <3>2, <3>4, <2>1
    <3>7. DeadIsDead'
      BY <3>1, <3>2, <3>4, <2>1
    <3> QED BY <3>3, <3>5, <3>6, <3>7
  <2>2. CASE Move(p, "abandon") /\ UNCHANGED lock
    BY <1>4, <2>2 DEF WriteOwner, Move
  <2> QED BY <1>4, <2>1, <2>2 DEF WriteOwner
<1>5. ASSUME NEW p \in Installers, Judge(p) PROVE InstallInv'
  BY <1>5 DEF Judge, Move, StaleBecause, OwnerIsDead
<1>6. ASSUME NEW p \in Installers, Tear(p) PROVE InstallInv'
  BY <1>6, RemovalKeeps DEF Tear
<1>7. ASSUME NEW p \in Installers, Recheck(p) PROVE InstallInv'
  BY <1>7 DEF Recheck, Move
<1>8. ASSUME NEW p \in Installers, Stage(p) PROVE InstallInv'
  <2>1. InstallTypeOK' /\ VerdictGiven' /\ DeadIsDead' /\ TornBy' /\ TreeIsWhole'
    BY <1>8 DEF Stage, Move
  <2>2. /\ at[p] = "stage" /\ UNCHANGED <<lock, torn>>
        /\ \A q \in Installers : at'[q] = IF q = p THEN "download" ELSE at[q]
        /\ \A q \in Installers : mine'[q] = (q = p)
    BY <1>8 DEF Stage, Move
  <2>3. LockIsMine'
    BY <2>2
  <2>4. torn = Nothing => \A q \in Installers : at[q] \in Section => q = p
    BY <2>2
  <2>5. StagingIsMine'
    <3> SUFFICES ASSUME torn' = Nothing, NEW q \in Installers,
                        at'[q] \in {"download", "extract", "commit"}
                 PROVE  q = p /\ at'[q] # "commit" /\ mine'[q]
      OBVIOUS
    <3>1. q = p
      BY <2>2, <2>4
    <3> QED BY <2>2, <3>1
  <2> QED BY <2>1, <2>3, <2>5
<1>9. ASSUME NEW p \in Installers, Fetch(p) PROVE InstallInv'
  BY <1>9 DEF Fetch, Move
<1>10. ASSUME NEW p \in Installers, Extract(p) PROVE InstallInv'
  BY <1>10 DEF Extract, Move
<1>11. ASSUME NEW p \in Installers, Commit(p) PROVE InstallInv'
  <2>1. mine' \in [Installers -> BOOLEAN]
    BY <1>11 DEF Commit
  <2>2. InstallTypeOK'
    BY <1>11, <2>1 DEF Commit, Move
  <2>3. CASE stage # "none" /\ final = "none"
    <3>1. \A q \in Installers : at'[q] = IF q = p THEN "sentinel" ELSE at[q]
      BY <1>11, <2>3 DEF Commit, Move
    <3>2. VerdictGiven' /\ LockIsMine' /\ DeadIsDead' /\ TornBy'
      BY <1>11, <3>1 DEF Commit
    <3>3. StagingIsMine'
      <4>1. torn = Nothing => \A q \in Installers : at[q] \in Section => q = p
        BY <1>11 DEF Commit
      <4>2. torn' = torn
        BY <1>11 DEF Commit
      <4> QED BY <3>1, <4>1, <4>2
    <3>4. torn' = torn /\ (torn = Nothing => stage = "whole")
      <4>1. at[p] = "commit" /\ torn' = torn
        BY <1>11 DEF Commit
      <4> QED BY <4>1
    <3>5. stage = "whole" => final' = "whole"
      BY <1>11, <2>3 DEF Commit
    <3> QED BY <2>2, <3>2, <3>3, <3>4, <3>5
  <2>4. CASE ~(stage # "none" /\ final = "none")
    BY <1>11, <2>2, <2>4 DEF Commit, Move
  <2> QED BY <2>3, <2>4
<1>12. ASSUME NEW p \in Installers, WriteSentinel(p) PROVE InstallInv'
  <2>1. sentinel' \in BOOLEAN
    BY <1>12, Zenon DEF WriteSentinel
  <2> QED BY <1>12, <2>1 DEF WriteSentinel, Move
<1>13. ASSUME NEW p \in Installers, RecordInstall(p) PROVE InstallInv'
  BY <1>13 DEF RecordInstall, Move
<1>14. ASSUME NEW p \in Installers, Release(p) PROVE InstallInv'
  BY <1>14, RemovalKeeps DEF Release
<1>15. ASSUME NEW p \in Installers, InstallerDies(p) PROVE InstallInv'
  BY <1>15 DEF InstallerDies, Move, Mishap
<1>16. ASSUME NEW p \in Installers, PidReused(p) PROVE InstallInv'
  BY <1>16 DEF PidReused
<1>17. CASE LockAges
  BY <1>17 DEF LockAges, Mishap
<1>18. CASE EvictPick
  BY <1>18 DEF EvictPick
<1>19. CASE EvictRemove
  <2>1. InstallTypeOK'
    <3>1. sentinel' \in BOOLEAN /\ spoilt' \in BOOLEAN
      BY <1>19, Zenon DEF EvictRemove, StartRemoval, EndRemoval, StopRemoval
    <3> QED BY <1>19, <3>1 DEF EvictRemove, StartRemoval, EndRemoval, StopRemoval
  <2>2. VerdictGiven' /\ LockIsMine' /\ DeadIsDead' /\ TornBy' /\ StagingIsMine'
    BY <1>19 DEF EvictRemove
  <2>3. TreeIsWhole'
    BY <1>19 DEF EvictRemove, StartRemoval, EndRemoval, StopRemoval
  <2> QED BY <2>1, <2>2, <2>3
<1>20. CASE EvictClear
  <2>1. recorded' \in BOOLEAN
    BY <1>20, Zenon DEF EvictClear
  <2> QED BY <1>20, <2>1 DEF EvictClear
<1>21. CASE PurgeList \/ PurgeLook \/ PurgeClear
  <2>1. recorded' \in BOOLEAN
    BY <1>21, Zenon DEF PurgeList, PurgeLook, PurgeClear
  <2> QED BY <1>21, <2>1 DEF PurgeList, PurgeLook, PurgeClear
<1>22. CASE PurgeRemove
  <2>1. InstallTypeOK'
    <3>1. sentinel' \in BOOLEAN /\ spoilt' \in BOOLEAN
      BY <1>22, Zenon DEF PurgeRemove, StartRemoval, EndRemoval, StopRemoval
    <3> QED BY <1>22, <3>1 DEF PurgeRemove, StartRemoval, EndRemoval, StopRemoval
  <2>2. VerdictGiven' /\ LockIsMine' /\ DeadIsDead' /\ TornBy' /\ StagingIsMine'
    BY <1>22 DEF PurgeRemove
  <2>3. TreeIsWhole'
    BY <1>22 DEF PurgeRemove, StartRemoval, EndRemoval, StopRemoval
  <2> QED BY <2>1, <2>2, <2>3
<1>23. CASE DaemonDies
  <2>1. spoilt' \in BOOLEAN
    BY <1>23, Zenon DEF DaemonDies
  <2>2. InstallTypeOK'
    BY <1>23, <2>1 DEF DaemonDies
  <2>3. TreeIsWhole'
    BY <1>23 DEF DaemonDies
  <2> QED BY <1>23, <2>2, <2>3 DEF DaemonDies
<1>24. CASE UNCHANGED installVars
  BY <1>24 DEF installVars
<1> QED
  BY <1>1, <1>2, <1>3, <1>4, <1>5, <1>6, <1>7, <1>8, <1>9, <1>10, <1>11,
     <1>12, <1>13, <1>14, <1>15, <1>16, <1>17, <1>18, <1>19, <1>20, <1>21,
     <1>22, <1>23, <1>24 DEF InstallNext, Installer

\* It holds at the start.
LEMMA InstallInvInit == ASSUME InstallInit PROVE InstallInv
<1> USE NothingAssumption, BoundsAssumption
<1>1. /\ at \in [Installers -> Over] /\ verdict \in [Installers -> {Nothing}]
      /\ mine \in [Installers -> BOOLEAN]
  BY Zenon DEF InstallInit, Over
<1>2. mishaps \in 0..MaxMishaps /\ sweeps \in 0..MaxSweeps
  BY DEF InstallInit
<1>3. InstallTypeOK
  BY <1>1, <1>2 DEF InstallInit, InstallTypeOK, Over, Verdicts
<1>4. LockIsMine /\ TornBy /\ StagingIsMine /\ TreeIsWhole
  BY DEF InstallInit, Section, LockIsMine, TornBy, StagingIsMine, TreeIsWhole
<1>5. VerdictGiven /\ DeadIsDead
  <2>1. \A p \in Installers : at[p] = "idle" /\ verdict[p] = Nothing
    BY DEF InstallInit
  <2>2. Nothing # "dead"
    BY DEF Verdicts
  <2> QED BY <2>1, <2>2 DEF VerdictGiven, DeadIsDead
<1> QED BY <1>3, <1>4, <1>5 DEF InstallInv

\* The state of PackageInstall is well typed for every instance.
THEOREM InstallTypeCorrect == InstallSpec => []InstallTypeOK
<1>1. InstallInv => InstallTypeOK
  BY DEF InstallInv
<1> QED BY <1>1, InstallInvInit, InstallStep, PTL DEF InstallSpec

(***************************************************************************)
(* Two processes are under the install lock at once only after a live      *)
(* owner was too slow, or a waiter removed a directory it had not judged   *)
(* (install_lock.rs:73-147, 184-256).                                      *)
(***************************************************************************)
THEOREM InstallersExclude == InstallSpec => []OneInstaller
<1>1. InstallInv => OneInstaller
  BY DEF InstallInv, LockIsMine, TornBy, OneInstaller
<1> QED BY <1>1, InstallInvInit, InstallStep, PTL DEF InstallSpec

\* No crash leaves a cut-off tree in the install directory (lib.rs:423-446).
THEOREM TreesAreWhole == InstallSpec => []TreeIsWhole
<1>1. InstallInv => TreeIsWhole
  BY DEF InstallInv
<1> QED BY <1>1, InstallInvInit, InstallStep, PTL DEF InstallSpec
=============================================================================
