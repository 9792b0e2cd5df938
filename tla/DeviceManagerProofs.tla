------------------------ MODULE DeviceManagerProofs ------------------------
(***************************************************************************)
(* Proofs about the device inventory, for any number of ports, boards,     *)
(* lease ids and concurrent refreshes, and about the ESP32 deploys that    *)
(* trust it, for any number of them.                                       *)
(***************************************************************************)
EXTENDS TrustedDeploy, TLAPS

LEMMA Constants ==
    /\ None \notin Ports
    /\ None \notin Boards
    /\ None \notin LeaseIds
    /\ None \notin Hashes
    /\ None \notin DeviceState
    /\ 0 \in Instant
    /\ \A b \in Boards : SerialOf[b] \in Serials
    /\ IdleRefresh \in RefreshState
  BY NoneAssumption, BoundsAssumption DEF Instant, Serials, IdleRefresh, RefreshState

LEMMA NewDeviceType == \A b \in Boards : NewDevice(b) \in DeviceState
  BY Constants DEF NewDevice, DeviceState

\* Every step of the inventory keeps the types.
LEMMA TypeStep == TypeOK /\ [Next]_vars => TypeOK'
<1> SUFFICES ASSUME TypeOK, [Next]_vars PROVE TypeOK'
  OBVIOUS
<1> USE Constants DEF TypeOK
<1>1. CASE Hardware
  BY <1>1 DEF Hardware, Plug, Unplug
<1>2. ASSUME NEW r \in Refreshers, Enumerate(r) PROVE TypeOK'
  BY <1>2 DEF Enumerate, RefreshState
<1>3. ASSUME NEW r \in Refreshers, BeginRefresh(r) PROVE TypeOK'
  <2>1. refresh' \in [Refreshers -> RefreshState]
    BY <1>3 DEF BeginRefresh, RefreshState
  <2>2. \A p \in Ports : Known(p) => [devices[p] EXCEPT !.is_connected = FALSE] \in DeviceState
    BY DEF Known, DeviceState
  <2>3. devices' \in [Ports -> DeviceState \cup {None}]
    BY <1>3, <2>2 DEF BeginRefresh
  <2> QED BY <1>3, <2>1, <2>3 DEF BeginRefresh
<1>4. ASSUME NEW r \in Refreshers, ApplyDiscovered(r) PROVE TypeOK'
  <2>1. PICK d \in refresh[r].todo :
          /\ refresh' = [refresh EXCEPT ![r].todo = @ \ {d}]
          /\ \/ MovedFrom(d) = {} /\ UpdateRecord(d)
             \/ \E q \in MovedFrom(d) : MoveRecord(d, q)
    BY <1>4 DEF ApplyDiscovered
  <2>2. d \in Discovered /\ d.port \in Ports /\ d.board \in Boards
    BY DEF RefreshState, Discovered
  <2>3. refresh' \in [Refreshers -> RefreshState]
    BY <2>1 DEF RefreshState
  <2>4. CASE UpdateRecord(d)
    <3>1. Known(d.port) => [devices[d.port] EXCEPT !.is_connected = TRUE,
                              !.serial_number = SerialOf[d.board]] \in DeviceState
      BY <2>2 DEF Known, DeviceState
    <3>2. NewDevice(d.board) \in DeviceState
      BY <2>2, NewDeviceType
    <3> QED BY <1>4, <2>2, <2>3, <2>4, <3>1, <3>2 DEF ApplyDiscovered, UpdateRecord
  <2>5. ASSUME NEW q \in MovedFrom(d), MoveRecord(d, q) PROVE TypeOK'
    <3>1. q \in Ports /\ Known(q)
      BY DEF MovedFrom
    <3>2. [devices[q] EXCEPT !.is_connected = TRUE,
                             !.serial_number = SerialOf[d.board]] \in DeviceState
      BY <2>2, <3>1 DEF Known, DeviceState
    <3>3. [previous_port |-> q, port |-> d.port, serial_number |-> SerialOf[d.board]]
            \in DevicePortMove
      BY <2>2, <3>1 DEF DevicePortMove
    <3>4. recent_port_moves' \in Seq(DevicePortMove)
      BY <2>5, <3>3 DEF MoveRecord
    <3>5. devices' \in [Ports -> DeviceState \cup {None}]
      BY <2>2, <2>5, <3>1, <3>2 DEF MoveRecord
    <3> QED BY <1>4, <2>3, <3>4, <3>5 DEF ApplyDiscovered
  <2> QED BY <2>1, <2>4, <2>5
<1>5. ASSUME NEW r \in Refreshers, EndRefresh(r) PROVE TypeOK'
  <2>1. refresh' \in [Refreshers -> RefreshState]
    BY <1>5 DEF EndRefresh
  <2>2. now' \in Instant
    BY <1>5, BoundsAssumption DEF EndRefresh, Instant
  <2>3. ASSUME now + 1 \in Instant, NEW p \in Ports, Known(p)
        PROVE [devices[p] EXCEPT !.last_disconnect_at = now + 1] \in DeviceState
    BY <2>3 DEF Known, DeviceState
  <2>4. devices' \in [Ports -> DeviceState \cup {None}]
    <3> DEFINE gone == {p \in refresh[r].was_connected :
                          Known(p) /\ ~devices[p].is_connected}
    <3>1. CASE gone = {}
      BY <1>5, <3>1 DEF EndRefresh
    <3>2. CASE gone # {}
      <4>1. now + 1 \in Instant
        BY <1>5, <2>2, <3>2 DEF EndRefresh
      <4>2. devices' = [p \in Ports |-> IF p \in gone
                THEN [devices[p] EXCEPT !.last_disconnect_at = now + 1]
                ELSE devices[p]]
        BY <1>5, <3>2 DEF EndRefresh
      <4>3. \A p \in Ports : p \in gone =>
              [devices[p] EXCEPT !.last_disconnect_at = now + 1] \in DeviceState
        BY <2>3, <4>1
      <4> HIDE DEF gone
      <4> QED BY <4>2, <4>3
    <3> QED BY <3>1, <3>2
  <2> QED BY <1>5, <2>1, <2>2, <2>4 DEF EndRefresh
<1>6. CASE TakeRecentPortMoves
  BY <1>6 DEF TakeRecentPortMoves
<1>7. CASE Acquire
  <2> SUFFICES ASSUME NEW p \in Ports, NEW id \in LeaseIds, NEW track \in BOOLEAN,
                      AcquireExclusive(p, id, track) \/ AcquireMonitor(p, id, track)
               PROVE  TypeOK'
    BY <1>7 DEF Acquire
  <2>1. [id |-> id, track_serial |-> track] \in Lease
    BY DEF Lease
  <2>2. devices[p] \in DeviceState
    BY DEF AcquireExclusive, AcquireMonitor, Known
  <2>3. CASE AcquireExclusive(p, id, track)
    <3>1. [devices[p] EXCEPT !.exclusive_lease = [id |-> id, track_serial |-> track]]
            \in DeviceState
      BY <2>1, <2>2 DEF DeviceState
    <3>2. devices' \in [Ports -> DeviceState \cup {None}]
      BY <2>3, <3>1 DEF AcquireExclusive
    <3> QED BY <2>3, <3>2 DEF AcquireExclusive
  <2>4. CASE AcquireMonitor(p, id, track)
    <3>1. [devices[p] EXCEPT !.monitor_leases = @ \cup {[id |-> id, track_serial |-> track]}]
            \in DeviceState
      BY <2>1, <2>2 DEF DeviceState
    <3>2. devices' \in [Ports -> DeviceState \cup {None}]
      BY <2>4, <3>1 DEF AcquireMonitor
    <3> QED BY <2>4, <3>2 DEF AcquireMonitor
  <2> QED BY <2>3, <2>4
<1>8. CASE Release
  <2>1. ASSUME NEW id \in LeaseIds, ReleaseLease(id) PROVE TypeOK'
    <3>1. PICK p \in Ports :
            /\ Known(p)
            /\ \/ devices' = [devices EXCEPT ![p].exclusive_lease = NoLease]
               \/ devices' = [devices EXCEPT ![p].monitor_leases = {l \in @ : l.id # id}]
      BY <2>1 DEF ReleaseLease
    <3>2. devices[p] \in DeviceState
      BY <3>1 DEF Known
    <3>3. /\ [devices[p] EXCEPT !.exclusive_lease = NoLease] \in DeviceState
          /\ [devices[p] EXCEPT !.monitor_leases = {l \in @ : l.id # id}] \in DeviceState
      BY <3>2 DEF DeviceState
    <3>4. devices' \in [Ports -> DeviceState \cup {None}]
      BY <3>1, <3>3
    <3> QED BY <2>1, <3>4 DEF ReleaseLease
  <2>2. ASSUME NEW p \in Ports, ReleaseDeviceLeases(p) PROVE TypeOK'
    <3>1. devices[p] \in DeviceState
      BY <2>2 DEF ReleaseDeviceLeases, Known
    <3>2. [devices[p] EXCEPT !.exclusive_lease = NoLease, !.monitor_leases = {}]
            \in DeviceState
      BY <3>1 DEF DeviceState
    <3>3. devices' \in [Ports -> DeviceState \cup {None}]
      BY <2>2, <3>2 DEF ReleaseDeviceLeases
    <3> QED BY <2>2, <3>3 DEF ReleaseDeviceLeases
  <2> QED BY <1>8, <2>1, <2>2 DEF Release
<1>9. CASE Preempt
  <2> SUFFICES ASSUME NEW p \in Ports, NEW id \in LeaseIds, PreemptDevice(p, id)
               PROVE  TypeOK'
    BY <1>9 DEF Preempt
  <2>1. [id |-> id, track_serial |-> FALSE] \in Lease
    BY DEF Lease
  <2>2. devices[p] \in DeviceState
    BY DEF PreemptDevice, Known
  <2>3. [devices[p] EXCEPT !.exclusive_lease = [id |-> id, track_serial |-> FALSE],
                           !.monitor_leases = {}] \in DeviceState
    BY <2>1, <2>2 DEF DeviceState
  <2>4. devices' \in [Ports -> DeviceState \cup {None}]
    BY <2>3 DEF PreemptDevice
  <2> QED BY <2>4 DEF PreemptDevice
<1>10. CASE CleanupStaleDevices
  BY <1>10 DEF CleanupStaleDevices
<1>11. CASE Trust
  <2>1. ASSUME NEW p \in Ports, NEW h \in Hashes, SetTrustedFirmwareHash(p, h)
        PROVE TypeOK'
    <3>1. now + 1 \in Instant
      BY <2>1, BoundsAssumption DEF SetTrustedFirmwareHash, Instant
    <3> QED BY <2>1, <3>1 DEF SetTrustedFirmwareHash, Known, DeviceState
  <2>2. ASSUME NEW p \in Ports, ClearTrustedFirmwareHash(p) PROVE TypeOK'
    BY <2>2 DEF ClearTrustedFirmwareHash, Known, DeviceState
  <2> QED BY <1>11, <2>1, <2>2 DEF Trust
<1>12. CASE UNCHANGED vars
  BY <1>12 DEF vars
<1> QED BY <1>1, <1>2, <1>3, <1>4, <1>5, <1>6, <1>7, <1>8, <1>9, <1>10, <1>11, <1>12
        DEF Next, Refresh

\* TypeOK holds initially and every step preserves it.
THEOREM TypeCorrect == Spec => []TypeOK
<1>1. Init => TypeOK
  BY Constants DEF Init, TypeOK
<1>2. QED BY <1>1, TypeStep, PTL DEF Spec

----------------------------------------------------------------------------
\* Every lease a record holds has an id that was handed out: what makes a
\* fresh id different from all of them.
HeldIdsIssued ==
    \A p \in Ports, l \in Lease :
        HoldsExclusive(p, l) \/ HoldsMonitor(p, l) => l.id \in issued

LeaseInv == HeldIdsIssued /\ LeaseIdsUnique

\* No port gains a lease in a step, and no id is taken back.
OnlyLoses ==
    /\ \A p \in Ports, l \in Lease :
          /\ HoldsExclusive(p, l)' => HoldsExclusive(p, l)
          /\ HoldsMonitor(p, l)' => HoldsMonitor(p, l)
    /\ issued \subseteq issued'

\* A step after which every lease sits where it sat before, or nowhere, keeps
\* the lease invariant.
LEMMA LosingIsSafe == LeaseInv /\ OnlyLoses => LeaseInv'
  BY DEF LeaseInv, HeldIdsIssued, LeaseIdsUnique, OnlyLoses

\* A lease with a fresh id on one port, everything else as before or less.
LEMMA FreshIsSafe ==
    ASSUME LeaseInv, NEW p \in Ports, NEW id \in LeaseIds, id \notin issued,
           issued' = issued \cup {id},
           \A q \in Ports, l \in Lease :
              /\ HoldsExclusive(q, l)' => HoldsExclusive(q, l) \/ (q = p /\ l.id = id)
              /\ HoldsMonitor(q, l)' => HoldsMonitor(q, l) \/ (q = p /\ l.id = id),
           \A l, m \in Lease : l.id = id /\ m.id = id =>
              /\ HoldsMonitor(p, l)' /\ HoldsMonitor(p, m)' => l = m
              /\ ~(HoldsExclusive(p, l)' /\ HoldsMonitor(p, m)')
    PROVE  LeaseInv'
  BY DEF LeaseInv, HeldIdsIssued, LeaseIdsUnique

\* The record of the board follows it: the leases of one port move, as they
\* are, to a port that had none.
LEMMA MovingIsSafe ==
    ASSUME LeaseInv, issued' = issued, NEW s \in Ports, NEW t \in Ports,
           \A q \in Ports, l \in Lease :
              /\ HoldsExclusive(q, l)' => \/ q # s /\ q # t /\ HoldsExclusive(q, l)
                                          \/ q = t /\ HoldsExclusive(s, l)
              /\ HoldsMonitor(q, l)' => \/ q # s /\ q # t /\ HoldsMonitor(q, l)
                                        \/ q = t /\ HoldsMonitor(s, l)
    PROVE  LeaseInv'
  BY DEF LeaseInv, HeldIdsIssued, LeaseIdsUnique

LEMMA LeaseInvStep == TypeOK /\ LeaseInv /\ [Next]_vars => LeaseInv'
<1> SUFFICES ASSUME TypeOK, LeaseInv, [Next]_vars PROVE LeaseInv'
  OBVIOUS
<1> USE Constants DEF TypeOK
<1>1. CASE Hardware
  BY <1>1, LosingIsSafe DEF Hardware, Plug, Unplug, OnlyLoses, HoldsExclusive, HoldsMonitor, Known
<1>2. ASSUME NEW r \in Refreshers, Enumerate(r) PROVE LeaseInv'
  BY <1>2, LosingIsSafe DEF Enumerate, OnlyLoses, HoldsExclusive, HoldsMonitor, Known
<1>3. ASSUME NEW r \in Refreshers, BeginRefresh(r) PROVE LeaseInv'
  <2>1. \A p \in Ports : Known(p) =>
          /\ devices'[p].exclusive_lease = devices[p].exclusive_lease
          /\ devices'[p].monitor_leases = devices[p].monitor_leases
    BY <1>3 DEF BeginRefresh, Known, DeviceState
  <2>2. \A p \in Ports : Known(p)' => Known(p)
    BY <1>3 DEF BeginRefresh, Known
  <2> QED BY <1>3, <2>1, <2>2, LosingIsSafe
          DEF BeginRefresh, OnlyLoses, HoldsExclusive, HoldsMonitor
<1>4. ASSUME NEW r \in Refreshers, ApplyDiscovered(r) PROVE LeaseInv'
  <2>1. PICK d \in refresh[r].todo :
          \/ MovedFrom(d) = {} /\ UpdateRecord(d)
          \/ \E q \in MovedFrom(d) : MoveRecord(d, q)
    BY <1>4 DEF ApplyDiscovered
  <2>2. d.port \in Ports /\ d.board \in Boards /\ issued' = issued
    BY <1>4 DEF RefreshState, Discovered, ApplyDiscovered
  <2>3. CASE UpdateRecord(d)
    <3>1. \A p \in Ports, l \in Lease :
            /\ HoldsExclusive(p, l)' => HoldsExclusive(p, l)
            /\ HoldsMonitor(p, l)' => HoldsMonitor(p, l)
      BY <2>2, <2>3 DEF UpdateRecord, HoldsExclusive, HoldsMonitor, Known, NewDevice, DeviceState
    <3> QED BY <2>2, <3>1, LosingIsSafe DEF OnlyLoses
  <2>4. ASSUME NEW q \in MovedFrom(d), MoveRecord(d, q) PROVE LeaseInv'
    <3>1. q \in Ports /\ Known(q) /\ ~Known(d.port) /\ q # d.port
      BY DEF MovedFrom
    <3>2. /\ devices'[q] = None
          /\ devices'[d.port].exclusive_lease = devices[q].exclusive_lease
          /\ devices'[d.port].monitor_leases = devices[q].monitor_leases
          /\ \A p \in Ports : p # q /\ p # d.port => devices'[p] = devices[p]
      BY <2>2, <2>4, <3>1 DEF MoveRecord, Known, DeviceState
    <3>3. \A p \in Ports, l \in Lease : HoldsExclusive(p, l)' =>
            \/ p # q /\ p # d.port /\ HoldsExclusive(p, l)
            \/ p = d.port /\ HoldsExclusive(q, l)
      BY <2>2, <3>1, <3>2 DEF HoldsExclusive, Known
    <3>4. \A p \in Ports, l \in Lease : HoldsMonitor(p, l)' =>
            \/ p # q /\ p # d.port /\ HoldsMonitor(p, l)
            \/ p = d.port /\ HoldsMonitor(q, l)
      BY <2>2, <3>1, <3>2 DEF HoldsMonitor, Known
    <3> QED BY <2>2, <3>1, <3>3, <3>4, MovingIsSafe
  <2> QED BY <2>1, <2>3, <2>4
<1>5. ASSUME NEW r \in Refreshers, EndRefresh(r) PROVE LeaseInv'
  <2>1. \A p \in Ports : Known(p) =>
          /\ devices'[p].exclusive_lease = devices[p].exclusive_lease
          /\ devices'[p].monitor_leases = devices[p].monitor_leases
    BY <1>5 DEF EndRefresh, Known, DeviceState
  <2>2. \A p \in Ports : Known(p)' => Known(p)
    BY <1>5 DEF EndRefresh, Known
  <2> QED BY <1>5, <2>1, <2>2, LosingIsSafe
          DEF EndRefresh, OnlyLoses, HoldsExclusive, HoldsMonitor
<1>6. CASE TakeRecentPortMoves
  BY <1>6, LosingIsSafe DEF TakeRecentPortMoves, OnlyLoses, HoldsExclusive, HoldsMonitor, Known
<1>7. CASE Acquire
  <2> SUFFICES ASSUME NEW p \in Ports, NEW id \in LeaseIds, NEW track \in BOOLEAN,
                      AcquireExclusive(p, id, track) \/ AcquireMonitor(p, id, track)
               PROVE  LeaseInv'
    BY <1>7 DEF Acquire
  <2> DEFINE new == [id |-> id, track_serial |-> track]
  <2>1. Known(p) /\ id \notin issued /\ issued' = issued \cup {id}
    BY DEF AcquireExclusive, AcquireMonitor
  <2>2. \A l \in Lease : HoldsMonitor(p, l) => l.id \in issued
    BY DEF LeaseInv, HeldIdsIssued
  <2>3. CASE AcquireExclusive(p, id, track)
    <3>1. /\ devices'[p].exclusive_lease = new
          /\ devices'[p].monitor_leases = devices[p].monitor_leases
          /\ \A q \in Ports : q # p => devices'[q] = devices[q]
      BY <2>1, <2>3 DEF AcquireExclusive, Known, DeviceState
    <3>2. \A q \in Ports, l \in Lease :
              /\ HoldsExclusive(q, l)' => HoldsExclusive(q, l) \/ (q = p /\ l.id = id)
              /\ HoldsMonitor(q, l)' => HoldsMonitor(q, l)
      BY <2>1, <3>1 DEF HoldsExclusive, HoldsMonitor, Known
    <3>3. \A l \in Lease : l.id = id => ~HoldsMonitor(p, l)'
      BY <2>1, <2>2, <3>2
    <3> QED BY <2>1, <3>2, <3>3, FreshIsSafe
  <2>4. CASE AcquireMonitor(p, id, track)
    <3>1. /\ devices'[p].exclusive_lease = devices[p].exclusive_lease
          /\ devices'[p].monitor_leases = devices[p].monitor_leases \cup {new}
          /\ \A q \in Ports : q # p => devices'[q] = devices[q]
      BY <2>1, <2>4 DEF AcquireMonitor, Known, DeviceState
    <3>2. \A q \in Ports, l \in Lease :
              /\ HoldsExclusive(q, l)' => HoldsExclusive(q, l)
              /\ HoldsMonitor(q, l)' => HoldsMonitor(q, l) \/ (q = p /\ l = new)
      BY <2>1, <3>1 DEF HoldsExclusive, HoldsMonitor, Known
    <3>3. \A l \in Lease : l.id = id =>
              ~HoldsExclusive(p, l)' /\ (HoldsMonitor(p, l)' => l = new)
      BY <2>1, <2>2, <3>2 DEF LeaseInv, HeldIdsIssued
    <3> QED BY <2>1, <3>2, <3>3, FreshIsSafe
  <2> QED BY <2>3, <2>4
<1>8. CASE Release
  <2>1. ASSUME NEW id \in LeaseIds, ReleaseLease(id) PROVE LeaseInv'
    <3>1. PICK p \in Ports :
            /\ Known(p)
            /\ \/ devices' = [devices EXCEPT ![p].exclusive_lease = NoLease]
               \/ devices' = [devices EXCEPT ![p].monitor_leases = {l \in @ : l.id # id}]
      BY <2>1 DEF ReleaseLease
    <3>2. /\ devices'[p].exclusive_lease \in {NoLease, devices[p].exclusive_lease}
          /\ devices'[p].monitor_leases \subseteq devices[p].monitor_leases
          /\ \A q \in Ports : q # p => devices'[q] = devices[q]
      BY <3>1 DEF Known, DeviceState
    <3> QED BY <2>1, <3>1, <3>2, LosingIsSafe
            DEF ReleaseLease, OnlyLoses, HoldsExclusive, HoldsMonitor, Known
  <2>2. ASSUME NEW p \in Ports, ReleaseDeviceLeases(p) PROVE LeaseInv'
    <3>1. /\ Known(p)
          /\ devices'[p].exclusive_lease = NoLease
          /\ devices'[p].monitor_leases = {}
          /\ \A q \in Ports : q # p => devices'[q] = devices[q]
      BY <2>2 DEF ReleaseDeviceLeases, Known, DeviceState
    <3> QED BY <2>2, <3>1, LosingIsSafe
            DEF ReleaseDeviceLeases, OnlyLoses, HoldsExclusive, HoldsMonitor, Known
  <2> QED BY <1>8, <2>1, <2>2 DEF Release
<1>9. CASE Preempt
  <2> SUFFICES ASSUME NEW p \in Ports, NEW id \in LeaseIds, PreemptDevice(p, id)
               PROVE  LeaseInv'
    BY <1>9 DEF Preempt
  <2>1. Known(p) /\ id \notin issued /\ issued' = issued \cup {id}
    BY DEF PreemptDevice
  <2>2. /\ devices'[p].exclusive_lease = [id |-> id, track_serial |-> FALSE]
        /\ devices'[p].monitor_leases = {}
        /\ \A q \in Ports : q # p => devices'[q] = devices[q]
    BY <2>1 DEF PreemptDevice, Known, DeviceState
  <2>3. \A q \in Ports, l \in Lease :
            /\ HoldsExclusive(q, l)' => HoldsExclusive(q, l) \/ (q = p /\ l.id = id)
            /\ HoldsMonitor(q, l)' => HoldsMonitor(q, l)
    BY <2>1, <2>2 DEF HoldsExclusive, HoldsMonitor, Known
  <2>4. \A l \in Lease : ~HoldsMonitor(p, l)'
    BY <2>2 DEF HoldsMonitor
  <2> QED BY <2>1, <2>3, <2>4, FreshIsSafe
<1>10. CASE CleanupStaleDevices
  <2>1. issued' = issued /\ \A p \in Ports : Known(p)' => Known(p) /\ devices'[p] = devices[p]
    BY <1>10 DEF CleanupStaleDevices, Known
  <2> QED BY <2>1, LosingIsSafe DEF OnlyLoses, HoldsExclusive, HoldsMonitor
<1>11. CASE Trust
  <2>1. /\ issued' = issued
        /\ \A p \in Ports : Known(p)' => Known(p)
        /\ \A p \in Ports : Known(p) =>
             /\ devices'[p].exclusive_lease = devices[p].exclusive_lease
             /\ devices'[p].monitor_leases = devices[p].monitor_leases
    BY <1>11 DEF Trust, SetTrustedFirmwareHash, ClearTrustedFirmwareHash, Known, DeviceState
  <2> QED BY <2>1, LosingIsSafe DEF OnlyLoses, HoldsExclusive, HoldsMonitor
<1>12. CASE UNCHANGED vars
  BY <1>12, LosingIsSafe DEF vars, OnlyLoses, HoldsExclusive, HoldsMonitor, Known
<1> QED BY <1>1, <1>2, <1>3, <1>4, <1>5, <1>6, <1>7, <1>8, <1>9, <1>10, <1>11, <1>12
        DEF Next, Refresh

\* A lease id lives in exactly one place, whatever is leased, released,
\* preempted, unplugged and renumbered, and however many refreshes overlap.
THEOREM LeasesUnique == Spec => []LeaseIdsUnique
<1>1. Init => LeaseInv
  BY DEF Init, LeaseInv, HeldIdsIssued, LeaseIdsUnique, HoldsExclusive, HoldsMonitor, Known
<1>2. QED BY <1>1, LeaseInvStep, TypeCorrect, PTL DEF Spec, LeaseInv

\* A record that stays in place with its leases, or more, keeps each of them.
LEMMA KeptInPlace ==
    ASSUME NEW p \in Ports, NEW l \in Lease, HoldsExclusive(p, l) \/ HoldsMonitor(p, l),
           devices'[p] # None,
           HoldsExclusive(p, l) => devices'[p].exclusive_lease = devices[p].exclusive_lease,
           devices[p].monitor_leases \subseteq devices'[p].monitor_leases
    PROVE  \E q \in Ports : HoldsExclusive(q, l)' \/ HoldsMonitor(q, l)'
  BY DEF HoldsExclusive, HoldsMonitor, Known

\* Outside a release or a preemption no step loses a lease: a refresh that
\* finds a board gone, replaced or renumbered keeps every lease somewhere.
THEOREM LeasesPersist == Spec => LeasesEndOnlyByRelease
<1>1. TypeOK /\ [Next]_vars => [HeldLeases \subseteq HeldLeases' \/ Release \/ Preempt]_vars
  <2> SUFFICES ASSUME TypeOK, Next, ~Release, ~Preempt PROVE HeldLeases \subseteq HeldLeases'
    OBVIOUS
  <2> USE Constants DEF TypeOK
  <2> DEFINE Kept(l) == \E q \in Ports : HoldsExclusive(q, l)' \/ HoldsMonitor(q, l)'
  <2>1. SUFFICES ASSUME NEW p \in Ports, NEW l \in Lease,
                        HoldsExclusive(p, l) \/ HoldsMonitor(p, l)
                 PROVE  Kept(l)
    BY DEF HeldLeases, LeasesOn
  <2> HIDE DEF Kept
  <2>2. Known(p) /\ devices[p] \in DeviceState
    BY <2>1 DEF HoldsExclusive, HoldsMonitor, Known
  <2>3. ASSUME devices'[p] # None,
               HoldsExclusive(p, l) => devices'[p].exclusive_lease = devices[p].exclusive_lease,
               devices[p].monitor_leases \subseteq devices'[p].monitor_leases
        PROVE  Kept(l)
    BY <2>1, <2>3, KeptInPlace DEF Kept
  <2>4. CASE devices' = devices
    BY <2>2, <2>3, <2>4 DEF Known
  <2>5. ASSUME NEW r \in Refreshers, BeginRefresh(r) PROVE Kept(l)
    <3>1. devices'[p] = [devices[p] EXCEPT !.is_connected = FALSE]
      BY <2>2, <2>5 DEF BeginRefresh
    <3>2. devices'[p] \in DeviceState
      BY <2>2, <3>1 DEF DeviceState
    <3> QED BY <2>2, <2>3, <3>1, <3>2 DEF DeviceState
  <2>6. ASSUME NEW r \in Refreshers, EndRefresh(r) PROVE Kept(l)
    <3>1. devices'[p] \in {devices[p], [devices[p] EXCEPT !.last_disconnect_at = now + 1]}
      BY <2>2, <2>6 DEF EndRefresh
    <3>2. CASE devices'[p] = devices[p]
      BY <2>2, <2>3, <3>2 DEF Known
    <3>3. CASE devices'[p] # devices[p]
      <4>1. now + 1 \in Instant
        BY <2>6, <3>3, BoundsAssumption DEF EndRefresh, Instant
      <4>2. devices'[p] \in DeviceState
        BY <2>2, <3>1, <3>3, <4>1 DEF DeviceState
      <4> QED BY <2>2, <2>3, <3>1, <3>3, <4>2 DEF DeviceState
    <3> QED BY <3>2, <3>3
  <2>7. ASSUME NEW r \in Refreshers, ApplyDiscovered(r) PROVE Kept(l)
    <3>1. PICK d \in refresh[r].todo :
            UpdateRecord(d) \/ \E q \in MovedFrom(d) : MoveRecord(d, q)
      BY <2>7 DEF ApplyDiscovered
    <3>2. d.port \in Ports /\ d.board \in Boards
      BY DEF RefreshState, Discovered
    <3>3. CASE UpdateRecord(d)
      <4>1. devices'[p] \in {devices[p], [devices[p] EXCEPT !.is_connected = TRUE,
                                            !.serial_number = SerialOf[d.board]]}
        BY <2>2, <3>2, <3>3 DEF UpdateRecord
      <4>2. devices'[p] \in DeviceState
        BY <2>2, <3>2, <4>1 DEF DeviceState
      <4>3. /\ devices'[p].exclusive_lease = devices[p].exclusive_lease
            /\ devices'[p].monitor_leases = devices[p].monitor_leases
        BY <2>2, <4>1 DEF DeviceState
      <4> QED BY <2>3, <4>2, <4>3
    <3>4. ASSUME NEW q \in MovedFrom(d), MoveRecord(d, q) PROVE Kept(l)
      <4>1. q \in Ports /\ Known(q) /\ ~Known(d.port) /\ q # d.port /\ p # d.port
        BY <2>2 DEF MovedFrom
      <4>2. CASE p # q
        <5>1. devices'[p] = devices[p]
          BY <3>2, <3>4, <4>1, <4>2 DEF MoveRecord
        <5> QED BY <2>2, <2>3, <5>1 DEF Known
      <4>3. CASE p = q
        <5>1. devices'[d.port] = [devices[p] EXCEPT !.is_connected = TRUE,
                                                    !.serial_number = SerialOf[d.board]]
          BY <3>2, <3>4, <4>1, <4>3 DEF MoveRecord
        <5>2. devices'[d.port] \in DeviceState
          BY <2>2, <3>2, <5>1 DEF DeviceState
        <5>3. /\ devices'[d.port] # None
              /\ devices'[d.port].exclusive_lease = devices[p].exclusive_lease
              /\ devices'[d.port].monitor_leases = devices[p].monitor_leases
          BY <2>2, <5>1, <5>2 DEF DeviceState
        <5>4. HoldsExclusive(d.port, l)' \/ HoldsMonitor(d.port, l)'
          BY <2>1, <5>3 DEF HoldsExclusive, HoldsMonitor, Known
        <5> QED BY <3>2, <5>4 DEF Kept
      <4> QED BY <4>2, <4>3
    <3> QED BY <3>1, <3>3, <3>4
  <2>8. CASE Acquire
    <3> SUFFICES ASSUME NEW q \in Ports, NEW id \in LeaseIds, NEW track \in BOOLEAN,
                        AcquireExclusive(q, id, track) \/ AcquireMonitor(q, id, track)
                 PROVE  Kept(l)
      BY <2>8 DEF Acquire
    <3> DEFINE new == [id |-> id, track_serial |-> track]
    <3>1. new \in Lease
      BY DEF Lease
    <3>2. CASE AcquireExclusive(q, id, track)
      <4>1. devices'[p] \in {devices[p], [devices[p] EXCEPT !.exclusive_lease = new]}
        BY <2>2, <3>2 DEF AcquireExclusive
      <4>2. devices'[p] \in DeviceState
        BY <2>2, <3>1, <4>1 DEF DeviceState
      <4>3. HoldsExclusive(p, l) => p # q
        BY <3>2 DEF AcquireExclusive, HoldsExclusive
      <4>4. p # q => devices'[p] = devices[p]
        BY <3>2 DEF AcquireExclusive
      <4>5. devices'[p].monitor_leases = devices[p].monitor_leases
        BY <2>2, <4>1 DEF DeviceState
      <4> QED BY <2>3, <4>2, <4>3, <4>4, <4>5
    <3>3. CASE AcquireMonitor(q, id, track)
      <4>1. devices'[p] \in {devices[p], [devices[p] EXCEPT !.monitor_leases = @ \cup {new}]}
        BY <2>2, <3>3 DEF AcquireMonitor
      <4>2. devices'[p] \in DeviceState
        BY <2>2, <3>1, <4>1 DEF DeviceState
      <4> QED BY <2>2, <2>3, <4>1, <4>2 DEF DeviceState
    <3> QED BY <3>2, <3>3
  <2>9. CASE CleanupStaleDevices
    <3>1. l \in LeasesOn(p)
      BY <2>1 DEF LeasesOn
    <3>2. devices'[p] = devices[p]
      BY <2>2, <2>9, <3>1 DEF CleanupStaleDevices
    <3> QED BY <2>2, <2>3, <3>2 DEF Known
  <2>10. CASE Trust
    <3>1. PICK t \in [hash : Hashes, set_at : Instant] \cup {NoTrust} :
            devices'[p] \in {devices[p], [devices[p] EXCEPT !.trusted_firmware = t]}
      <4>1. ASSUME NEW q \in Ports, NEW h \in Hashes, SetTrustedFirmwareHash(q, h)
            PROVE \E t \in [hash : Hashes, set_at : Instant] \cup {NoTrust} :
                     devices'[p] \in {devices[p], [devices[p] EXCEPT !.trusted_firmware = t]}
        <5>1. [hash |-> h, set_at |-> now + 1] \in [hash : Hashes, set_at : Instant]
          BY <4>1, BoundsAssumption DEF SetTrustedFirmwareHash, Instant
        <5> QED BY <2>2, <4>1, <5>1 DEF SetTrustedFirmwareHash
      <4>2. ASSUME NEW q \in Ports, ClearTrustedFirmwareHash(q)
            PROVE devices'[p] \in {devices[p], [devices[p] EXCEPT !.trusted_firmware = NoTrust]}
        BY <2>2, <4>2 DEF ClearTrustedFirmwareHash
      <4> QED BY <2>10, <4>1, <4>2 DEF Trust
    <3>2. devices'[p] \in DeviceState
      BY <2>2, <3>1 DEF DeviceState
    <3> QED BY <2>2, <2>3, <3>1, <3>2 DEF DeviceState
  <2> QED BY <2>4, <2>5, <2>6, <2>7, <2>8, <2>9, <2>10
          DEF Next, Refresh, Hardware, Plug, Unplug, Enumerate, TakeRecentPortMoves
<1>2. QED BY <1>1, TypeCorrect, PTL DEF Spec, LeasesEndOnlyByRelease

----------------------------------------------------------------------------
(***************************************************************************)
(* TrustedDeploy.                                                          *)
(***************************************************************************)

\* A deploy that is under way knows its port and its image.
JobsKnown ==
    \A d \in Deploys : ~At(d, "idle") => job[d].port \in Ports /\ job[d].image \in Hashes

LEMMA DeployConstants ==
    /\ Deploys \subseteq Refreshers
    /\ IdleJob \in JobState
    /\ IdleJob.pc = "idle" /\ IdleJob.port = None /\ IdleJob.regions = "all"
  BY DeploysAssumption DEF IdleJob, JobState

\* What FinishDeploy does to the inventory is one of its operations, or nothing.
LEMMA RecordIsTrust ==
    ASSUME JobsKnown, NEW d \in Deploys, At(d, "record"), RecordTrust(d)
    PROVE  [Trust]_vars
<1>1. job[d].port \in Ports /\ job[d].image \in Hashes
  BY DEF JobsKnown, At
<1> QED BY <1>1 DEF RecordTrust, Trust, vars

\* The deploy pipeline and the boards use the inventory only through its own
\* operations.
LEMMA DeployIsInventory ==
    ASSUME JobsKnown, [DeployNext]_allVars PROVE [Next]_vars
<1>1. CASE World
  BY <1>1 DEF World, PlugBoard, UnplugBoard, ExternalFlash, Next, Hardware, vars
<1>2. CASE Inventory
  BY <1>2 DEF Inventory, Next
<1>3. ASSUME NEW r \in Refreshers, RefreshSteps(r) \/ RefreshEnds(r) PROVE [Next]_vars
  BY <1>3 DEF RefreshSteps, RefreshEnds, Next, Refresh
<1>4. ASSUME NEW d \in Deploys, NEW p \in Ports, NEW h \in Hashes, NEW hashed \in BOOLEAN,
             StartDeploy(d, p, h, hashed)
      PROVE  UNCHANGED vars
  BY <1>4 DEF StartDeploy
<1>5. ASSUME NEW d \in Deploys, Pipeline(d), ~FinishDeploy(d) PROVE UNCHANGED vars
  BY <1>5 DEF Pipeline, RefreshSkipped, TrustSkip, TrustMiss, VerifyMatch, VerifyMismatch,
              VerifyError, BeginWrite, WriteOk, WriteFails, DeadlineExpires
<1>6. ASSUME NEW d \in Deploys, FinishDeploy(d) PROVE [Next]_vars
  BY <1>6, RecordIsTrust DEF FinishDeploy, Next
<1>7. CASE UNCHANGED allVars
  BY <1>7 DEF allVars, vars
<1> QED BY <1>1, <1>2, <1>3, <1>4, <1>5, <1>6, <1>7 DEF DeployNext

\* A deploy's fields in one step of its pipeline.
LEMMA PipelineJob ==
    ASSUME DeployTypeOK, JobsKnown, NEW d \in Deploys, Pipeline(d)
    PROVE  \E j \in JobState :
              /\ job' = [job EXCEPT ![d] = j]
              /\ j.pc # "idle" => j.port = job[d].port /\ j.image = job[d].image
              /\ job[d].pc # "idle"
<1> USE DeployConstants DEF DeployTypeOK, At
<1>0. job[d] \in JobState
  OBVIOUS
<1>1. CASE TrustSkip(d) \/ VerifyMatch(d) \/ FinishDeploy(d) \/ DeadlineExpires(d)
  <2>1. job' = [job EXCEPT ![d] = IdleJob] /\ job[d].pc # "idle"
    BY <1>1 DEF TrustSkip, VerifyMatch, FinishDeploy, DeadlineExpires
  <2> QED BY <2>1
<1>2. CASE RefreshSkipped(d) \/ TrustMiss(d) \/ VerifyError(d)
  <2>1. PICK l \in {"check", "verify", "write"} :
          job' = [job EXCEPT ![d].pc = l] /\ job[d].pc # "idle"
    BY <1>2 DEF RefreshSkipped, TrustMiss, VerifyError
  <2> DEFINE j == [job[d] EXCEPT !.pc = l]
  <2>2. j \in JobState /\ j.port = job[d].port /\ j.image = job[d].image
    BY <1>0 DEF JobState
  <2>3. job' = [job EXCEPT ![d] = j]
    BY <2>1
  <2> QED BY <2>1, <2>2, <2>3
<1>3. CASE VerifyMismatch(d)
  <2>1. PICK regions \in {"all", "some"} :
          job' = [job EXCEPT ![d] = [@ EXCEPT !.pc = "write", !.regions = regions]]
    BY <1>3 DEF VerifyMismatch
  <2> DEFINE j == [job[d] EXCEPT !.pc = "write", !.regions = regions]
  <2>2. j \in JobState /\ j.port = job[d].port /\ j.image = job[d].image
    BY <1>0 DEF JobState
  <2>3. job' = [job EXCEPT ![d] = j] /\ job[d].pc # "idle"
    BY <1>3, <2>1 DEF VerifyMismatch
  <2> QED BY <2>2, <2>3
<1>4. CASE BeginWrite(d)
  <2> DEFINE b == plugged[job[d].port]
             j == [job[d] EXCEPT !.pc = "writing", !.target = b]
  <2>1. job' = [job EXCEPT ![d] = j] /\ job[d].pc # "idle"
    BY <1>4 DEF BeginWrite
  <2>2. b \in Boards \cup {None}
    BY <1>4 DEF BeginWrite, JobsKnown, TypeOK
  <2>3. j \in JobState /\ j.port = job[d].port /\ j.image = job[d].image
    BY <1>0, <2>2 DEF JobState
  <2> QED BY <2>1, <2>3
<1>5. CASE WriteOk(d) \/ WriteFails(d)
  <2>1. PICK ok \in BOOLEAN :
          job' = [job EXCEPT ![d] = [@ EXCEPT !.pc = "record", !.ok = ok]]
          /\ job[d].pc # "idle"
    BY <1>5 DEF WriteOk, WriteFails
  <2> DEFINE j == [job[d] EXCEPT !.pc = "record", !.ok = ok]
  <2>2. j \in JobState /\ j.port = job[d].port /\ j.image = job[d].image
    BY <1>0 DEF JobState
  <2>3. job' = [job EXCEPT ![d] = j]
    BY <2>1
  <2> QED BY <2>1, <2>2, <2>3
<1> QED BY <1>1, <1>2, <1>3, <1>4, <1>5 DEF Pipeline
\* So do the boards that come and go.
LEMMA UnplugJob ==
    ASSUME DeployTypeOK, NEW p \in Ports, UnplugBoard(p), NEW d \in Deploys
    PROVE  /\ job'[d] \in JobState
           /\ job'[d].pc = job[d].pc
           /\ job'[d].port = job[d].port
           /\ job'[d].image = job[d].image
           /\ job'[d].ok = job[d].ok
           /\ job'[d].target = IF job[d].port = p THEN None ELSE job[d].target
           /\ job'[d].regions = IF job[d].port = p /\ At(d, "write") /\ job[d].regions = "some"
                                THEN "stale" ELSE job[d].regions
<1>1. job[d] \in JobState
  BY DEF DeployTypeOK
<1>2. job'[d] = IF job[d].port # p THEN job[d]
                ELSE [job[d] EXCEPT !.target = None,
                        !.regions = IF At(d, "write") /\ @ = "some" THEN "stale" ELSE @]
  BY DEF UnplugBoard
<1>3. CASE job[d].port # p
  BY <1>1, <1>2, <1>3
<1>4. CASE job[d].port = p
  BY <1>1, <1>2, <1>4 DEF JobState
<1> QED BY <1>3, <1>4

LEMMA DeployTypeStep ==
    DeployTypeOK /\ JobsKnown /\ [DeployNext]_allVars => DeployTypeOK' /\ JobsKnown'
<1> SUFFICES ASSUME DeployTypeOK, JobsKnown, [DeployNext]_allVars
             PROVE  DeployTypeOK' /\ JobsKnown'
  OBVIOUS
<1> USE Constants, DeployConstants
<1>1. TypeOK'
  BY TypeStep, DeployIsInventory DEF DeployTypeOK
<1>2. lapses' \in SUBSET LapseKinds
  <2> USE DEF DeployTypeOK, Note, LapseKinds
  <2>1. CASE World
    BY <2>1 DEF World, PlugBoard, UnplugBoard, ExternalFlash
  <2>2. CASE Inventory
    BY <2>2 DEF Inventory, deployVars
  <2>3. ASSUME NEW r \in Refreshers, RefreshSteps(r) \/ RefreshEnds(r)
        PROVE  lapses' \in SUBSET LapseKinds
    BY <2>3 DEF RefreshSteps, RefreshEnds
  <2>4. ASSUME NEW d \in Deploys, NEW p \in Ports, NEW h \in Hashes, NEW hashed \in BOOLEAN,
               StartDeploy(d, p, h, hashed)
        PROVE  lapses' \in SUBSET LapseKinds
    BY <2>4 DEF StartDeploy
  <2>5. ASSUME NEW d \in Deploys, Pipeline(d) PROVE lapses' \in SUBSET LapseKinds
    <3>1. CASE FinishDeploy(d) \/ DeadlineExpires(d)
      BY <3>1 DEF FinishDeploy, DeadlineExpires
    <3>2. CASE ~FinishDeploy(d) /\ ~DeadlineExpires(d)
      <4>1. lapses' = lapses
        BY <2>5, <3>2 DEF Pipeline, RefreshSkipped, TrustSkip, TrustMiss, VerifyMatch,
                          VerifyMismatch, VerifyError, BeginWrite, WriteOk, WriteFails
      <4> QED BY <4>1
    <3> QED BY <3>1, <3>2
  <2>6. CASE UNCHANGED allVars
    BY <2>6 DEF allVars
  <2> HIDE DEF Note, LapseKinds
  <2> QED BY <2>1, <2>2, <2>3, <2>4, <2>5, <2>6 DEF DeployNext
<1>3. flash' \in [Boards -> Hashes \cup {None}]
  <2> USE DEF DeployTypeOK
  <2>1. CASE World
    BY <2>1 DEF World, PlugBoard, UnplugBoard, ExternalFlash
  <2>2. CASE Inventory
    BY <2>2 DEF Inventory, deployVars
  <2>3. ASSUME NEW r \in Refreshers, RefreshSteps(r) \/ RefreshEnds(r)
        PROVE  flash' = flash
    BY <2>3 DEF RefreshSteps, RefreshEnds
  <2>4. ASSUME NEW d \in Deploys, NEW p \in Ports, NEW h \in Hashes, NEW hashed \in BOOLEAN,
               StartDeploy(d, p, h, hashed)
        PROVE  flash' = flash
    BY <2>4 DEF StartDeploy
  <2>5. ASSUME NEW d \in Deploys, Pipeline(d)
        PROVE  flash' \in [Boards -> Hashes \cup {None}]
    <3>1. job[d].image \in Hashes \cup {None}
      BY DEF JobState
    <3> DEFINE t == job[d].target
               b == plugged[job[d].port]
    <3>2. \/ flash' = flash
          \/ flash' = [flash EXCEPT ![t] = job[d].image]
          \/ flash' = [flash EXCEPT ![t] = None]
          \/ flash' = [flash EXCEPT ![b] = None]
      BY <2>5
         DEF Pipeline, RefreshSkipped, TrustSkip, TrustMiss, VerifyMatch, VerifyMismatch,
             VerifyError, BeginWrite, WriteOk, WriteFails, FinishDeploy, DeadlineExpires
    <3> QED BY <3>1, <3>2
  <2> QED BY <2>1, <2>2, <2>3, <2>4, <2>5 DEF DeployNext, allVars
<1>4. job' \in [Deploys -> JobState] /\ JobsKnown'
  <2> USE DEF DeployTypeOK, At
  <2>1. CASE job' = job
    BY <2>1 DEF JobsKnown
  <2>2. ASSUME NEW p \in Ports, UnplugBoard(p)
        PROVE  job' \in [Deploys -> JobState] /\ JobsKnown'
    BY <2>2, UnplugJob DEF UnplugBoard, JobsKnown
  <2>3. ASSUME NEW r \in Refreshers, RefreshEnds(r)
        PROVE  job' \in [Deploys -> JobState] /\ JobsKnown'
    <3>1. \A d \in Deploys : LET j == [job[d] EXCEPT !.pc = "check"] IN
            j \in JobState /\ j.port = job[d].port /\ j.image = job[d].image
      BY DEF JobState
    <3>2. job' = [d \in Deploys |-> IF d = r /\ At(d, "refresh")
                                    THEN [job[d] EXCEPT !.pc = "check"] ELSE job[d]]
      BY <2>3 DEF RefreshEnds
    <3> QED BY <3>1, <3>2 DEF JobsKnown
  <2>4. ASSUME NEW d \in Deploys, NEW p \in Ports, NEW h \in Hashes, NEW hashed \in BOOLEAN,
               StartDeploy(d, p, h, hashed)
        PROVE  job' \in [Deploys -> JobState] /\ JobsKnown'
    <3> DEFINE j == [IdleJob EXCEPT !.pc = "refresh", !.port = p, !.image = h, !.hashed = hashed]
    <3>1. j \in JobState /\ j.port = p /\ j.image = h
      BY DEF JobState, IdleJob
    <3>2. job' = [job EXCEPT ![d] = j]
      BY <2>4 DEF StartDeploy
    <3> HIDE DEF j
    <3> QED BY <3>1, <3>2 DEF JobsKnown
  <2>5. ASSUME NEW d \in Deploys, Pipeline(d)
        PROVE  job' \in [Deploys -> JobState] /\ JobsKnown'
    <3>1. PICK j \in JobState :
              /\ job' = [job EXCEPT ![d] = j]
              /\ j.pc # "idle" => j.port = job[d].port /\ j.image = job[d].image
              /\ job[d].pc # "idle"
      BY <2>5, PipelineJob
    <3> QED BY <3>1 DEF JobsKnown
  <2>6. World => job' = job \/ \E p \in Ports : UnplugBoard(p)
    BY DEF World, PlugBoard, ExternalFlash
  <2>7. Inventory \/ (\E r \in Refreshers : RefreshSteps(r)) \/ UNCHANGED allVars => job' = job
    BY DEF Inventory, deployVars, RefreshSteps, allVars
  <2> QED BY <2>1, <2>2, <2>3, <2>4, <2>5, <2>6, <2>7 DEF DeployNext
<1> QED BY <1>1, <1>2, <1>3, <1>4 DEF DeployTypeOK

\* A deploy, a board and a lapse keep their types, whatever the deploys, the
\* refreshes and the boards do.
THEOREM DeployTypeCorrect == DeploySpec => []DeployTypeOK
<1>1. DeployInit => DeployTypeOK /\ JobsKnown
  <2> SUFFICES ASSUME DeployInit PROVE DeployTypeOK /\ JobsKnown
    OBVIOUS
  <2>1. TypeOK
    BY Constants DEF DeployInit, Init, TypeOK
  <2> QED BY <2>1, DeployConstants DEF DeployInit, DeployTypeOK, JobsKnown, At
<1>2. QED BY <1>1, DeployTypeStep, PTL DEF DeploySpec

\* The deploy pipeline implements the inventory: in the composition the
\* inventory goes through nothing but its own operations, so what is proved of
\* it alone holds there too.
THEOREM DeployImplementsInventory == DeploySpec => Spec
<1>1. DeployInit => Init /\ JobsKnown
  BY DeployConstants DEF DeployInit, JobsKnown, At
<1>2. JobsKnown /\ [DeployNext]_allVars => [Next]_vars
  BY DeployIsInventory
<1>3. DeployInit => DeployTypeOK
  BY Constants, DeployConstants DEF DeployInit, Init, TypeOK, DeployTypeOK
<1>4. QED BY <1>1, <1>2, <1>3, DeployTypeStep, PTL DEF DeploySpec, Spec

\* With the deploys around it a lease id still lives in one place only.
COROLLARY DeployLeasesUnique == DeploySpec => []LeaseIdsUnique
  BY DeployImplementsInventory, LeasesUnique

----------------------------------------------------------------------------
\* Where the trust in a record comes from: nowhere for a new record, and else
\* from the record itself, or from the one that was moved here.  A disconnect
\* is stamped with the current time.
Inherits(p) ==
    \/ devices'[p] = None
    \/ devices'[p].trusted_firmware = NoTrust /\ devices'[p].last_disconnect_at = 0
    \/ \E q \in Ports :
         /\ Known(q)
         /\ devices'[p].last_disconnect_at \in {devices[q].last_disconnect_at, now'}
         /\ devices'[p].trusted_firmware = devices[q].trusted_firmware
         /\ p = q \/ ~Known(p)

\* The operations that have nothing to do with trust.
Untrusting ==
    \/ Hardware
    \/ \E r \in Refreshers : Refresh(r)
    \/ TakeRecentPortMoves
    \/ Acquire
    \/ Release
    \/ Preempt
    \/ CleanupStaleDevices
    \/ UNCHANGED vars

LEMMA Inheritance ==
    ASSUME TypeOK, Untrusting PROVE now <= now' /\ \A p \in Ports : Inherits(p)
<1> USE Constants DEF TypeOK
<1>1. now <= now'
  <2>1. CASE now' = now \/ now' = now + 1
    BY <2>1 DEF Instant
  <2> QED BY <2>1 DEF Untrusting, Hardware, Plug, Unplug, Refresh, Enumerate, BeginRefresh,
                     ApplyDiscovered, EndRefresh, TakeRecentPortMoves, Acquire,
                     AcquireExclusive, AcquireMonitor, Release, ReleaseLease,
                     ReleaseDeviceLeases, Preempt, PreemptDevice, CleanupStaleDevices, vars
<1>2. SUFFICES ASSUME NEW p \in Ports, devices'[p] # None PROVE Inherits(p)
  BY <1>1 DEF Inherits
<1>3. ASSUME NEW q \in Ports, Known(q), p = q \/ ~Known(p),
             devices'[p].trusted_firmware = devices[q].trusted_firmware,
             devices'[p].last_disconnect_at \in {devices[q].last_disconnect_at, now'}
      PROVE  Inherits(p)
  BY <1>3 DEF Inherits
<1>4. CASE devices'[p] = devices[p]
  BY <1>2, <1>3, <1>4 DEF Known
<1>5. ASSUME NEW r \in Refreshers, BeginRefresh(r) PROVE Inherits(p)
  <2>1. Known(p) /\ devices'[p] = [devices[p] EXCEPT !.is_connected = FALSE]
    BY <1>2, <1>5 DEF BeginRefresh
  <2>2. devices[p] \in DeviceState
    BY <2>1 DEF Known
  <2>3. devices'[p].trusted_firmware = devices[p].trusted_firmware
        /\ devices'[p].last_disconnect_at = devices[p].last_disconnect_at
    BY <2>1, <2>2 DEF DeviceState
  <2> QED BY <1>3, <2>1, <2>3
<1>6. ASSUME NEW r \in Refreshers, EndRefresh(r) PROVE Inherits(p)
  <2>1. \/ devices'[p] = devices[p]
        \/ devices'[p] = [devices[p] EXCEPT !.last_disconnect_at = now + 1] /\ now' = now + 1
    BY <1>6 DEF EndRefresh
  <2>2. CASE devices'[p] # devices[p]
    <3>1. Known(p) /\ devices[p] \in DeviceState
      BY <1>6, <2>2 DEF EndRefresh, Known
    <3>2. devices'[p].trusted_firmware = devices[p].trusted_firmware
          /\ devices'[p].last_disconnect_at = now'
      BY <2>1, <2>2, <3>1 DEF DeviceState
    <3> QED BY <1>3, <3>1, <3>2
  <2> QED BY <1>4, <2>2
<1>7. ASSUME NEW r \in Refreshers, ApplyDiscovered(r) PROVE Inherits(p)
  <2>1. PICK d \in refresh[r].todo :
          UpdateRecord(d) \/ \E q \in MovedFrom(d) : MoveRecord(d, q)
    BY <1>7 DEF ApplyDiscovered
  <2>2. d.port \in Ports /\ d.board \in Boards
    BY DEF RefreshState, Discovered
  <2>3. CASE p # d.port
    <3>1. devices'[p] = devices[p]
      BY <1>2, <2>1, <2>2, <2>3 DEF UpdateRecord, MoveRecord, MovedFrom
    <3> QED BY <1>4, <3>1
  <2>4. CASE p = d.port
    <3>1. CASE UpdateRecord(d) /\ Known(p)
      <4>1. devices'[p] = [devices[p] EXCEPT !.is_connected = TRUE,
                             !.serial_number = SerialOf[d.board]]
        BY <2>2, <2>4, <3>1 DEF UpdateRecord
      <4>2. devices[p] \in DeviceState
        BY <3>1 DEF Known
      <4>3. devices'[p].trusted_firmware = devices[p].trusted_firmware
            /\ devices'[p].last_disconnect_at = devices[p].last_disconnect_at
        BY <4>1, <4>2 DEF DeviceState
      <4> QED BY <1>3, <3>1, <4>3
    <3>2. CASE UpdateRecord(d) /\ ~Known(p)
      <4>1. devices'[p] = NewDevice(d.board)
        BY <2>2, <2>4, <3>2 DEF UpdateRecord
      <4> QED BY <4>1 DEF NewDevice, Inherits
    <3>3. ASSUME NEW q \in MovedFrom(d), MoveRecord(d, q) PROVE Inherits(p)
      <4>1. q \in Ports /\ Known(q) /\ ~Known(p) /\ q # p
        BY <2>4 DEF MovedFrom
      <4>2. devices'[p] = [devices[q] EXCEPT !.is_connected = TRUE,
                             !.serial_number = SerialOf[d.board]]
        BY <2>2, <2>4, <3>3, <4>1 DEF MoveRecord
      <4>3. devices[q] \in DeviceState
        BY <4>1 DEF Known
      <4>4. devices'[p].trusted_firmware = devices[q].trusted_firmware
            /\ devices'[p].last_disconnect_at = devices[q].last_disconnect_at
        BY <4>2, <4>3 DEF DeviceState
      <4> QED BY <1>3, <4>1, <4>4
    <3> QED BY <2>1, <3>1, <3>2, <3>3
  <2> QED BY <2>3, <2>4
<1>8. CASE Acquire \/ Release \/ Preempt
  <2> DEFINE Same == /\ devices'[p].trusted_firmware = devices[p].trusted_firmware
                     /\ devices'[p].last_disconnect_at = devices[p].last_disconnect_at
  <2>1. ASSUME NEW q \in Ports, Known(q), NEW e,
               devices' = [devices EXCEPT ![q].exclusive_lease = e]
        PROVE  Same
    BY <2>1 DEF Known, DeviceState
  <2>2. ASSUME NEW q \in Ports, Known(q), NEW m,
               devices' = [devices EXCEPT ![q].monitor_leases = m]
        PROVE  Same
    BY <2>2 DEF Known, DeviceState
  <2>3. ASSUME NEW q \in Ports, Known(q), NEW e, NEW m,
               devices' = [devices EXCEPT ![q].exclusive_lease = e, ![q].monitor_leases = m]
        PROVE  Same
    BY <2>3 DEF Known, DeviceState
  <2>4. ASSUME NEW q \in Ports, NEW id \in LeaseIds, NEW track \in BOOLEAN,
               AcquireExclusive(q, id, track) \/ AcquireMonitor(q, id, track)
        PROVE  Same
    BY <2>1, <2>2, <2>4 DEF AcquireExclusive, AcquireMonitor
  <2>5. ASSUME NEW id \in LeaseIds, ReleaseLease(id) PROVE Same
    BY <2>1, <2>2, <2>5 DEF ReleaseLease
  <2>6. ASSUME NEW q \in Ports, ReleaseDeviceLeases(q) PROVE Same
    BY <2>3, <2>6 DEF ReleaseDeviceLeases
  <2>7. ASSUME NEW q \in Ports, NEW id \in LeaseIds, PreemptDevice(q, id) PROVE Same
    BY <2>3, <2>7 DEF PreemptDevice
  <2>8. Same
    BY <1>8, <2>4, <2>5, <2>6, <2>7 DEF Acquire, Release, Preempt
  <2>9. devices'[p] # devices[p] => Known(p)
    BY <1>8 DEF Acquire, AcquireExclusive, AcquireMonitor, Release, ReleaseLease,
                ReleaseDeviceLeases, Preempt, PreemptDevice
  <2> QED BY <1>3, <1>4, <2>8, <2>9
<1>9. CASE CleanupStaleDevices
  BY <1>2, <1>4, <1>9 DEF CleanupStaleDevices
<1>10. CASE Hardware \/ TakeRecentPortMoves \/ (\E r \in Refreshers : Enumerate(r))
            \/ UNCHANGED vars
  BY <1>4, <1>10 DEF Hardware, Plug, Unplug, TakeRecentPortMoves, Enumerate, vars
<1> QED BY <1>5, <1>6, <1>7, <1>8, <1>9, <1>10 DEF Untrusting, Refresh
----------------------------------------------------------------------------
(***************************************************************************)
(* SkipIsSound.  Until the first lapse, deploys have their ports to        *)
(* themselves, a writing deploy's board stays where it is, and a port whose *)
(* trust has not expired has a board with that image on it unless somebody *)
(* is flashing it.                                                         *)
(***************************************************************************)
BoardsOnOnePort ==
    \A p, q \in Ports : plugged[p] # None /\ plugged[p] = plugged[q] => p = q

\* No disconnect is stamped later than now.
StampsPast ==
    \A p \in Ports : Known(p) => devices[p].last_disconnect_at <= now

OnePerPort ==
    \A d, e \in Deploys :
        ~At(d, "idle") /\ ~At(e, "idle") /\ job[d].port = job[e].port => d = e

WritesInPlace ==
    \A d \in Deploys :
        At(d, "writing") /\ job[d].target # None => job[d].target = plugged[job[d].port]

WrittenInPlace ==
    \A d \in Deploys : At(d, "record") /\ job[d].ok =>
        /\ job[d].target # None
        /\ job[d].target = plugged[job[d].port]
        /\ flash[job[d].target] = job[d].image

RegionsFit == \A d \in Deploys : job[d].regions # "stale"

Flashing(p) == \E d \in Deploys : job[d].port = p /\ (At(d, "writing") \/ At(d, "record"))

TrustHolds ==
    \A p \in Ports : UnexpiredTrust(p) /\ plugged[p] # None /\ ~Flashing(p) =>
        flash[plugged[p]] = devices[p].trusted_firmware.hash

Quiet == OnePerPort /\ WritesInPlace /\ WrittenInPlace /\ RegionsFit /\ TrustHolds

TrustInv ==
    /\ DeployTypeOK
    /\ JobsKnown
    /\ BoardsOnOnePort
    /\ StampsPast
    /\ lapses = {} => Quiet

LEMMA StampStep == TypeOK /\ StampsPast /\ [Next]_vars => StampsPast'
<1> SUFFICES ASSUME TypeOK, StampsPast, [Next]_vars, NEW p \in Ports, Known(p)'
             PROVE  devices'[p].last_disconnect_at <= now'
  BY DEF StampsPast
<1>1. now \in Nat /\ now' \in Nat
  BY TypeStep, BoundsAssumption DEF TypeOK, Instant
<1>2. \A q \in Ports : Known(q) =>
        devices[q].last_disconnect_at \in Nat /\ devices[q].last_disconnect_at <= now
  BY DEF StampsPast, TypeOK, Known, DeviceState, Instant
<1>3. CASE Untrusting
  <2>1. now <= now' /\ Inherits(p)
    BY <1>3, Inheritance
  <2>2. CASE devices'[p].last_disconnect_at = 0
    BY <1>1, <2>2
  <2>3. ASSUME NEW q \in Ports, Known(q),
               devices'[p].last_disconnect_at \in {devices[q].last_disconnect_at, now'}
        PROVE  devices'[p].last_disconnect_at <= now'
    BY <1>1, <1>2, <2>1, <2>3
  <2> QED BY <2>1, <2>2, <2>3 DEF Inherits, Known
<1>4. CASE Trust
  <2>1. now' = now \/ now' = now + 1
    BY <1>4 DEF Trust, SetTrustedFirmwareHash, ClearTrustedFirmwareHash
  <2>2. Known(p) /\ devices'[p].last_disconnect_at = devices[p].last_disconnect_at
    BY <1>4 DEF Trust, SetTrustedFirmwareHash, ClearTrustedFirmwareHash, Known, DeviceState, TypeOK
  <2> QED BY <1>1, <1>2, <2>1, <2>2
<1> QED BY <1>3, <1>4 DEF Next, Untrusting

LEMMA BoardsStep == TypeOK /\ BoardsOnOnePort /\ [Next]_vars => BoardsOnOnePort'
<1> SUFFICES ASSUME TypeOK, BoardsOnOnePort, [Next]_vars PROVE BoardsOnOnePort'
  OBVIOUS
<1>1. CASE Hardware
  BY <1>1 DEF Hardware, Plug, Unplug, BoardsOnOnePort, TypeOK
<1>2. CASE plugged' = plugged
  BY <1>2 DEF BoardsOnOnePort
<1>3. ~Hardware => plugged' = plugged
  BY DEF Next, Refresh, Enumerate, BeginRefresh,
         ApplyDiscovered, EndRefresh, TakeRecentPortMoves, Acquire,
         AcquireExclusive, AcquireMonitor, Release, ReleaseLease,
         ReleaseDeviceLeases, Preempt, PreemptDevice, CleanupStaleDevices, Trust,
         SetTrustedFirmwareHash, ClearTrustedFirmwareHash, vars
<1> QED BY <1>1, <1>2, <1>3

\* A step neither gives a port trust nor changes what is trusted there.
TrustOnlyLost ==
    \A p \in Ports : UnexpiredTrust(p)' =>
        UnexpiredTrust(p) /\ devices'[p].trusted_firmware = devices[p].trusted_firmware

\* An inventory step other than recording a hash gives no port trust, unless it
\* moves a trusted record to a port that had none.
LEMMA TrustLost ==
    ASSUME TypeOK, StampsPast, Untrusting,
           \A p \in Ports : ~Known(p) /\ devices'[p] # None =>
                            devices'[p].trusted_firmware = NoTrust
    PROVE  TrustOnlyLost
<1> SUFFICES ASSUME NEW p \in Ports, UnexpiredTrust(p)'
             PROVE  UnexpiredTrust(p) /\ devices'[p].trusted_firmware = devices[p].trusted_firmware
  BY DEF TrustOnlyLost
<1>1. /\ devices'[p] # None /\ devices'[p].trusted_firmware # NoTrust
      /\ devices'[p].last_disconnect_at <= devices'[p].trusted_firmware.set_at
  BY DEF UnexpiredTrust, Known
<1>2. Known(p)
  BY <1>1
<1>3. /\ devices'[p].trusted_firmware = devices[p].trusted_firmware
      /\ devices'[p].last_disconnect_at \in {devices[p].last_disconnect_at, now'}
      /\ now <= now'
  BY <1>1, <1>2, Inheritance DEF Inherits
<1>4. /\ now \in Nat /\ now' \in Nat
      /\ devices[p].last_disconnect_at \in Nat /\ devices[p].last_disconnect_at <= now
  BY <1>2, TypeStep, BoundsAssumption
     DEF Untrusting, Next, StampsPast, TypeOK, Known, DeviceState, Instant
<1>5. devices[p].trusted_firmware.set_at \in Nat
  BY <1>2, BoundsAssumption DEF TypeOK, Known, DeviceState, Instant, NoTrust
<1>6. devices[p].last_disconnect_at <= devices[p].trusted_firmware.set_at
  BY <1>1, <1>3, <1>4, <1>5
<1> QED BY <1>1, <1>2, <1>3, <1>6 DEF UnexpiredTrust
\* What a deploy may do without touching a board: nothing, end, or go on
\* before the write.
Passes(d) ==
    \/ job'[d] = job[d]
    \/ /\ job[d].pc \notin {"writing", "record"}
       /\ job'[d] = IdleJob
    \/ /\ job[d].pc \notin {"idle", "writing", "record"}
       /\ job'[d].pc \notin {"idle", "writing", "record"}
       /\ job'[d].port = job[d].port
       /\ job'[d].regions # "stale"

\* Such steps, with an inventory that gains no trust, keep the boards quiet.
LEMMA PassingIsQuiet ==
    ASSUME Quiet, plugged' = plugged, flash' = flash, TrustOnlyLost,
           \A d \in Deploys : Passes(d)
    PROVE  Quiet'
<1> USE DeployConstants DEF Quiet, Passes, At
<1>1. OnePerPort'
  BY DEF OnePerPort
<1>2. WritesInPlace'
  BY DEF WritesInPlace
<1>3. WrittenInPlace'
  BY DEF WrittenInPlace
<1>4. RegionsFit'
  BY DEF RegionsFit
<1>5. TrustHolds'
  <2>1. \A p \in Ports : Flashing(p) => Flashing(p)'
    BY DEF Flashing
  <2> QED BY <2>1 DEF TrustHolds, TrustOnlyLost
<1> QED BY <1>1, <1>2, <1>3, <1>4, <1>5

\* The inventory stands still.
LEMMA StillTrust == ASSUME devices' = devices PROVE TrustOnlyLost
  BY DEF TrustOnlyLost, UnexpiredTrust, Known

LEMMA PlugIsQuiet ==
    ASSUME TrustInv, Quiet, lapses' = {}, NEW p \in Ports, NEW b \in Boards, PlugBoard(b, p)
    PROVE  Quiet'
<1> USE Constants DEF At
<1>1. /\ job' = job /\ flash' = flash /\ devices' = devices
      /\ plugged' = [plugged EXCEPT ![p] = b] /\ plugged[p] = None
      /\ \A q \in Ports : plugged[q] # b
  BY DEF PlugBoard, Plug
<1>2. ~UnexpiredTrust(p)
  BY DEF PlugBoard, Note
<1>3. plugged \in [Ports -> Boards \cup {None}] /\ job \in [Deploys -> JobState]
  BY DEF TrustInv, DeployTypeOK, TypeOK
<1>4. \A d \in Deploys : ~At(d, "idle") => job[d].port \in Ports
  BY DEF TrustInv, JobsKnown
<1>5. OnePerPort' /\ RegionsFit'
  BY <1>1 DEF Quiet, OnePerPort, RegionsFit
<1>6. WritesInPlace' /\ WrittenInPlace'
  BY <1>1, <1>3, <1>4 DEF Quiet, WritesInPlace, WrittenInPlace
<1>7. TrustHolds'
  <2>1. \A q \in Ports : Flashing(q)' <=> Flashing(q)
    BY <1>1 DEF Flashing
  <2> QED BY <1>1, <1>2, <1>3, <2>1 DEF Quiet, TrustHolds, UnexpiredTrust, Known
<1> QED BY <1>5, <1>6, <1>7 DEF Quiet

LEMMA UnplugIsQuiet ==
    ASSUME TrustInv, Quiet, lapses' = {}, NEW p \in Ports, UnplugBoard(p)
    PROVE  Quiet'
<1> USE Constants DEF At
<1>1. /\ flash' = flash /\ devices' = devices
      /\ plugged' = [plugged EXCEPT ![p] = None]
  BY DEF UnplugBoard, Unplug
<1>2. \A d \in Deploys : job[d].port = p =>
        /\ ~(At(d, "write") /\ job[d].regions = "some")
        /\ ~(At(d, "record") /\ job[d].ok)
  BY DEF UnplugBoard, Note
<1>3. \A d \in Deploys :
           /\ job'[d].pc = job[d].pc
           /\ job'[d].port = job[d].port
           /\ job'[d].image = job[d].image
           /\ job'[d].ok = job[d].ok
           /\ job'[d].target = IF job[d].port = p THEN None ELSE job[d].target
           /\ job'[d].regions = job[d].regions
  BY <1>2, UnplugJob DEF TrustInv
<1>4. plugged \in [Ports -> Boards \cup {None}]
  BY DEF TrustInv, DeployTypeOK, TypeOK
<1>5. \A d \in Deploys : ~At(d, "idle") => job[d].port \in Ports
  BY DEF TrustInv, JobsKnown
<1>6. OnePerPort' /\ RegionsFit'
  BY <1>3 DEF Quiet, OnePerPort, RegionsFit
<1>7. WritesInPlace'
  BY <1>1, <1>3, <1>4, <1>5 DEF Quiet, WritesInPlace
<1>8. WrittenInPlace'
  BY <1>1, <1>2, <1>3, <1>4, <1>5 DEF Quiet, WrittenInPlace
<1>9. TrustHolds'
  <2>1. \A q \in Ports : Flashing(q)' <=> Flashing(q)
    BY <1>3 DEF Flashing
  <2> QED BY <1>1, <1>4, <2>1 DEF Quiet, TrustHolds, UnexpiredTrust, Known
<1> QED BY <1>6, <1>7, <1>8, <1>9 DEF Quiet

LEMMA ExternalIsQuiet ==
    ASSUME TrustInv, Quiet, NEW b \in Boards, NEW h \in Hashes, ExternalFlash(b, h)
    PROVE  Quiet'
<1> USE Constants DEF At
<1>1. /\ job' = job /\ devices' = devices /\ plugged' = plugged
      /\ flash' = [flash EXCEPT ![b] = h] /\ \A p \in Ports : plugged[p] # b
  BY DEF ExternalFlash, vars
<1>2. plugged \in [Ports -> Boards \cup {None}] /\ flash \in [Boards -> Hashes \cup {None}]
  BY DEF TrustInv, DeployTypeOK, TypeOK
<1>3. \A d \in Deploys : ~At(d, "idle") => job[d].port \in Ports
  BY DEF TrustInv, JobsKnown
<1>4. OnePerPort' /\ RegionsFit' /\ WritesInPlace'
  BY <1>1 DEF Quiet, OnePerPort, RegionsFit, WritesInPlace
<1>5. WrittenInPlace'
  BY <1>1, <1>2, <1>3 DEF Quiet, WrittenInPlace
<1>6. TrustHolds'
  <2>1. \A q \in Ports : Flashing(q)' <=> Flashing(q)
    BY <1>1 DEF Flashing
  <2> QED BY <1>1, <1>2, <2>1 DEF Quiet, TrustHolds, UnexpiredTrust, Known
<1> QED BY <1>4, <1>5, <1>6 DEF Quiet

LEMMA StartIsQuiet ==
    ASSUME TrustInv, Quiet, lapses' = {}, NEW d \in Deploys, NEW p \in Ports, NEW h \in Hashes,
           NEW hashed \in BOOLEAN, StartDeploy(d, p, h, hashed)
    PROVE  Quiet'
<1> USE Constants DEF At
<1> DEFINE j == [IdleJob EXCEPT !.pc = "refresh", !.port = p, !.image = h, !.hashed = hashed]
<1>1. /\ job' = [job EXCEPT ![d] = j] /\ devices' = devices /\ plugged' = plugged
      /\ flash' = flash /\ At(d, "idle")
      /\ \A e \in Deploys : ~At(e, "idle") => job[e].port # p
  BY DEF StartDeploy, Note, vars
<1>2. j.pc = "refresh" /\ j.port = p /\ j.regions = "all"
  BY DEF IdleJob
<1>3. job \in [Deploys -> JobState]
  BY DEF TrustInv, DeployTypeOK
<1> HIDE DEF j
<1>4. OnePerPort'
  BY <1>1, <1>2, <1>3 DEF Quiet, OnePerPort
<1>5. RegionsFit' /\ WritesInPlace' /\ WrittenInPlace'
  BY <1>1, <1>2, <1>3 DEF Quiet, RegionsFit, WritesInPlace, WrittenInPlace
<1>6. TrustHolds'
  <2>1. \A q \in Ports : Flashing(q)' <=> Flashing(q)
    BY <1>1, <1>2, <1>3 DEF Flashing
  <2> QED BY <1>1, <2>1 DEF Quiet, TrustHolds, UnexpiredTrust, Known
<1> QED BY <1>4, <1>5, <1>6 DEF Quiet
\* A write to the board on a deploy's own port disturbs no other port: what is
\* left to show of it is what it does to the deploy itself.
LEMMA WritingIsQuiet ==
    ASSUME TrustInv, Quiet, NEW d \in Deploys, NEW b \in Boards, NEW h, NEW j \in JobState,
           ~At(d, "idle"), b = plugged[job[d].port],
           devices' = devices, plugged' = plugged,
           flash' = [flash EXCEPT ![b] = h] \/ flash' = flash,
           job' = [job EXCEPT ![d] = j],
           j.pc \in {"writing", "record"}, j.port = job[d].port, j.regions = job[d].regions,
           j.pc = "writing" /\ j.target # None => j.target = b,
           j.pc = "record" /\ j.ok => j.target = b /\ flash'[b] = j.image
    PROVE  Quiet'
<1> USE Constants DEF At
<1>1. /\ job \in [Deploys -> JobState] /\ flash \in [Boards -> Hashes \cup {None}]
      /\ plugged \in [Ports -> Boards \cup {None}]
      /\ \A e \in Deploys : ~At(e, "idle") => job[e].port \in Ports
  BY DEF TrustInv, DeployTypeOK, TypeOK, JobsKnown
<1>2. OnePerPort' /\ RegionsFit'
  BY <1>1 DEF Quiet, OnePerPort, RegionsFit
<1>3. WritesInPlace'
  BY <1>1 DEF Quiet, WritesInPlace
<1>4. WrittenInPlace'
  <2> SUFFICES ASSUME NEW e \in Deploys, job'[e].pc = "record", job'[e].ok
               PROVE  /\ job'[e].target # None
                      /\ job'[e].target = plugged[job'[e].port]
                      /\ flash'[job'[e].target] = job'[e].image
    BY DEF WrittenInPlace
  <2>1. CASE e = d
    BY <1>1, <2>1
  <2>2. CASE e # d
    <3>1. job'[e] = job[e]
      BY <1>1, <2>2
    <3>2. /\ job[e].target # None
          /\ job[e].target = plugged[job[e].port]
          /\ flash[job[e].target] = job[e].image
      BY <3>1 DEF Quiet, WrittenInPlace
    <3>3. job[e].port # job[d].port
      BY <2>2, <3>1 DEF Quiet, OnePerPort
    <3>4. job[e].target # b
      BY <1>1, <3>1, <3>2, <3>3 DEF TrustInv, BoardsOnOnePort
    <3> QED BY <1>1, <3>1, <3>2, <3>4
  <2> QED BY <2>1, <2>2
<1>5. TrustHolds'
  <2> SUFFICES ASSUME NEW p \in Ports, UnexpiredTrust(p)', plugged'[p] # None, ~Flashing(p)'
               PROVE  flash'[plugged'[p]] = devices'[p].trusted_firmware.hash
    BY DEF TrustHolds
  <2>1. p # job[d].port
    BY <1>1 DEF Flashing
  <2>2. plugged[p] # b
    BY <1>1, <2>1 DEF TrustInv, BoardsOnOnePort
  <2>3. UnexpiredTrust(p) /\ ~Flashing(p)
    BY <1>1, <2>1 DEF UnexpiredTrust, Known, Flashing
  <2>4. flash[plugged[p]] = devices[p].trusted_firmware.hash
    BY <2>3 DEF Quiet, TrustHolds
  <2> QED BY <1>1, <2>2, <2>4
<1> QED BY <1>2, <1>3, <1>4, <1>5 DEF Quiet

LEMMA BeginWriteIsQuiet ==
    ASSUME TrustInv, Quiet, NEW d \in Deploys, BeginWrite(d) PROVE Quiet'
<1> DEFINE b == plugged[job[d].port]
           j == [job[d] EXCEPT !.pc = "writing", !.target = b]
<1>1. /\ At(d, "write") /\ b # None /\ job' = [job EXCEPT ![d] = j]
      /\ flash' = [flash EXCEPT ![b] = None] /\ devices' = devices /\ plugged' = plugged
  BY DEF BeginWrite, vars
<1>2. job[d] \in JobState /\ b \in Boards
  BY <1>1 DEF TrustInv, DeployTypeOK, TypeOK, JobsKnown, At
<1>3. /\ j \in JobState /\ j.pc = "writing" /\ j.target = b
      /\ j.port = job[d].port /\ j.regions = job[d].regions
  BY <1>2 DEF JobState
<1> HIDE DEF j
<1> QED BY <1>1, <1>2, <1>3, WritingIsQuiet DEF At

LEMMA WriteOkIsQuiet ==
    ASSUME TrustInv, Quiet, NEW d \in Deploys, WriteOk(d) PROVE Quiet'
<1> DEFINE b == job[d].target
           j == [job[d] EXCEPT !.pc = "record", !.ok = TRUE]
<1>1. /\ At(d, "writing") /\ b # None /\ job' = [job EXCEPT ![d] = j]
      /\ devices' = devices /\ plugged' = plugged
  BY DEF WriteOk, vars
<1>2. flash' = [flash EXCEPT ![b] = job[d].image]
  BY DEF WriteOk, Quiet, RegionsFit
<1>3. job[d] \in JobState /\ flash \in [Boards -> Hashes \cup {None}]
  BY DEF TrustInv, DeployTypeOK
<1>4. b \in Boards /\ b = plugged[job[d].port]
  BY <1>1, <1>3 DEF JobState, Quiet, WritesInPlace
<1>5. /\ j \in JobState /\ j.pc = "record" /\ j.target = b /\ j.image = job[d].image
      /\ j.port = job[d].port /\ j.regions = job[d].regions
  BY <1>3 DEF JobState
<1>6. flash'[b] = j.image
  BY <1>2, <1>3, <1>4, <1>5
<1> HIDE DEF j, b
<1> QED BY <1>1, <1>2, <1>4, <1>5, <1>6, WritingIsQuiet DEF At

\* A failed write leaves the boards as they are and the port to be recorded.
LEMMA WriteFailsIsQuiet ==
    ASSUME TrustInv, Quiet, NEW d \in Deploys, WriteFails(d) PROVE Quiet'
<1> USE DEF At
<1> DEFINE j == [job[d] EXCEPT !.pc = "record", !.ok = FALSE]
<1>1. /\ job[d].pc \in {"write", "writing"} /\ job' = [job EXCEPT ![d] = j]
      /\ devices' = devices /\ plugged' = plugged /\ flash' = flash
  BY DEF WriteFails, vars
<1>2. job \in [Deploys -> JobState] /\ job[d] \in JobState
  BY DEF TrustInv, DeployTypeOK
<1>3. /\ j.pc = "record" /\ j.ok = FALSE /\ j.port = job[d].port
      /\ j.regions = job[d].regions
  BY <1>2 DEF JobState
<1> HIDE DEF j
<1>4. OnePerPort' /\ RegionsFit' /\ WritesInPlace' /\ WrittenInPlace'
  BY <1>1, <1>2, <1>3 DEF Quiet, OnePerPort, RegionsFit, WritesInPlace, WrittenInPlace
<1>5. \A p \in Ports : Flashing(p) => Flashing(p)'
  BY <1>1, <1>2, <1>3 DEF Flashing
<1>6. TrustHolds'
  BY <1>1, <1>5 DEF Quiet, TrustHolds, UnexpiredTrust, Known
<1> QED BY <1>4, <1>6 DEF Quiet

\* The port of a deploy that ends is trusted to have what was written, or not
\* trusted any more.
LEMMA FinishIsQuiet ==
    ASSUME TrustInv, Quiet, lapses' = {}, NEW d \in Deploys, FinishDeploy(d) PROVE Quiet'
<1> USE Constants, DeployConstants DEF At
<1>1. /\ job[d].pc = "record" /\ RecordTrust(d) /\ job' = [job EXCEPT ![d] = IdleJob]
      /\ flash' = flash /\ job[d].hashed
  BY DEF FinishDeploy, Note
<1>0. PICK p \in Ports : p = job[d].port
  BY <1>1 DEF TrustInv, JobsKnown
<1>2. /\ job \in [Deploys -> JobState] /\ devices \in [Ports -> DeviceState \cup {None}]
      /\ p = job[d].port /\ job[d].image \in Hashes
  BY <1>0, <1>1 DEF TrustInv, DeployTypeOK, TypeOK, JobsKnown
<1>3. plugged' = plugged
  BY <1>1 DEF RecordTrust, SetTrustedFirmwareHash, ClearTrustedFirmwareHash, vars
<1>4. OnePerPort' /\ RegionsFit' /\ WritesInPlace' /\ WrittenInPlace'
  BY <1>1, <1>2, <1>3 DEF Quiet, OnePerPort, RegionsFit, WritesInPlace, WrittenInPlace
<1>5. ASSUME NEW q \in Ports, q # p, UnexpiredTrust(q)', plugged'[q] # None, ~Flashing(q)'
      PROVE  flash'[plugged'[q]] = devices'[q].trusted_firmware.hash
  <2>1. devices'[q] = devices[q]
    BY <1>1, <1>2, <1>5 DEF RecordTrust, SetTrustedFirmwareHash, ClearTrustedFirmwareHash, vars
  <2>2. ~Flashing(q) /\ UnexpiredTrust(q)
    BY <1>1, <1>2, <1>5, <2>1 DEF Flashing, UnexpiredTrust, Known
  <2> QED BY <1>1, <1>3, <1>5, <2>1, <2>2 DEF Quiet, TrustHolds
<1>6. ASSUME UnexpiredTrust(p)' PROVE flash'[plugged'[p]] = devices'[p].trusted_firmware.hash
  <2>1. devices'[p] # None /\ devices'[p].trusted_firmware # NoTrust
    BY <1>6 DEF UnexpiredTrust, Known
  <2>2. Known(p)
    BY <1>1, <1>2, <2>1 DEF RecordTrust, SetTrustedFirmwareHash, ClearTrustedFirmwareHash, Known, vars
  <2>3. devices[p] \in DeviceState
    BY <1>2, <2>2 DEF Known
  <2>4. CASE job[d].ok /\ SetTrustedFirmwareHash(p, job[d].image)
    <3>1. devices'[p] = [devices[p] EXCEPT
             !.trusted_firmware = [hash |-> job[d].image, set_at |-> now + 1]]
      BY <1>2, <2>4 DEF SetTrustedFirmwareHash
    <3>2. devices'[p].trusted_firmware.hash = job[d].image
      BY <2>3, <3>1 DEF DeviceState
    <3>3. flash[plugged[p]] = job[d].image
      BY <1>1, <1>2, <2>4 DEF Quiet, WrittenInPlace
    <3> QED BY <1>1, <1>3, <3>2, <3>3
  <2>5. CASE ClearTrustedFirmwareHash(p)
    <3>1. devices'[p] = [devices[p] EXCEPT !.trusted_firmware = NoTrust]
      BY <1>2, <2>5 DEF ClearTrustedFirmwareHash
    <3>2. devices'[p].trusted_firmware = NoTrust
      BY <2>3, <3>1 DEF DeviceState
    <3> QED BY <2>1, <3>2
  <2> QED BY <1>1, <1>2, <2>2, <2>4, <2>5 DEF RecordTrust
<1>7. TrustHolds'
  BY <1>5, <1>6 DEF TrustHolds
<1> QED BY <1>4, <1>7 DEF Quiet
\* The steps of the pipeline that touch neither a board nor the inventory.
LEMMA PassingSteps ==
    ASSUME TrustInv, Quiet, lapses' = {}, NEW d \in Deploys,
           \/ RefreshSkipped(d) \/ TrustSkip(d) \/ TrustMiss(d) \/ VerifyMatch(d)
           \/ VerifyMismatch(d) \/ VerifyError(d) \/ DeadlineExpires(d)
    PROVE  Quiet'
<1> USE DEF At
<1>1. job \in [Deploys -> JobState] /\ job[d] \in JobState /\ job[d].regions # "stale"
  BY DEF TrustInv, DeployTypeOK, Quiet, RegionsFit
<1>2. UNCHANGED <<vars, flash>>
  BY DEF RefreshSkipped, TrustSkip, TrustMiss, VerifyMatch, VerifyMismatch, VerifyError,
         DeadlineExpires, Note
<1>3. CASE /\ job[d].pc \notin {"writing", "record"}
           /\ job' = [job EXCEPT ![d] = IdleJob]
  BY <1>1, <1>2, <1>3, PassingIsQuiet, StillTrust DEF Passes, vars
<1>4. ASSUME NEW l \in {"check", "verify", "write"}, NEW regions \in {"all", "some"},
             job[d].pc \notin {"idle", "writing", "record"},
             \/ job' = [job EXCEPT ![d].pc = l]
             \/ job' = [job EXCEPT ![d] = [@ EXCEPT !.pc = l, !.regions = regions]]
      PROVE  Quiet'
  <2>1. /\ job'[d].pc = l /\ job'[d].port = job[d].port /\ job'[d].regions # "stale"
        /\ \A e \in Deploys : e # d => job'[e] = job[e]
    <3>1. CASE job' = [job EXCEPT ![d].pc = l]
      BY <1>1, <3>1 DEF JobState
    <3>2. CASE job' = [job EXCEPT ![d] = [@ EXCEPT !.pc = l, !.regions = regions]]
      BY <1>1, <3>2 DEF JobState
    <3> QED BY <1>4, <3>1, <3>2
  <2> QED BY <1>1, <1>2, <1>4, <2>1, PassingIsQuiet, StillTrust DEF Passes, vars
<1>5. CASE TrustSkip(d) \/ VerifyMatch(d) \/ DeadlineExpires(d)
  BY <1>3, <1>5 DEF TrustSkip, VerifyMatch, DeadlineExpires, Note
<1>6. CASE RefreshSkipped(d) \/ TrustMiss(d) \/ VerifyError(d)
  BY <1>4, <1>6 DEF RefreshSkipped, TrustMiss, VerifyError
<1>7. CASE VerifyMismatch(d)
  BY <1>4, <1>7 DEF VerifyMismatch
<1> QED BY <1>5, <1>6, <1>7

\* Refreshes, leases and the drain of the port moves.
LEMMA InventoryIsQuiet ==
    ASSUME TrustInv, Quiet, lapses' = {},
           Inventory \/ \E r \in Refreshers : RefreshSteps(r) \/ RefreshEnds(r)
    PROVE  Quiet'
<1> USE Constants DEF At
<1>1. TypeOK /\ StampsPast /\ job \in [Deploys -> JobState]
  BY DEF TrustInv, DeployTypeOK
<1>2. Untrusting /\ flash' = flash
  BY DEF Inventory, RefreshSteps, RefreshEnds, Untrusting, Refresh, deployVars
<1>3. plugged' = plugged
  BY DEF Inventory, RefreshSteps, RefreshEnds, Enumerate, BeginRefresh,
         ApplyDiscovered, EndRefresh, TakeRecentPortMoves, Acquire,
         AcquireExclusive, AcquireMonitor, Release, ReleaseLease,
         ReleaseDeviceLeases, Preempt, PreemptDevice
<1>4. \A d \in Deploys : Passes(d)
  <2>1. CASE job' = job
    BY <2>1 DEF Passes
  <2>2. ASSUME NEW r \in Refreshers, RefreshEnds(r), NEW d \in Deploys PROVE Passes(d)
    <3>1. job'[d] = job[d] \/ (At(d, "refresh") /\ job'[d] = [job[d] EXCEPT !.pc = "check"])
      BY <2>2 DEF RefreshEnds
    <3>2. job[d] \in JobState /\ job[d].regions # "stale"
      BY <1>1 DEF Quiet, RegionsFit
    <3> QED BY <3>1, <3>2 DEF JobState, Passes
  <2> QED BY <2>1, <2>2 DEF Inventory, RefreshSteps, deployVars
<1>5. TrustOnlyLost
  <2> SUFFICES ASSUME NEW p \in Ports, ~Known(p), devices'[p] # None
               PROVE  devices'[p].trusted_firmware = NoTrust
    BY <1>1, <1>2, TrustLost
  <2>1. CASE Inventory \/ \E r \in Refreshers : RefreshEnds(r)
    <3>1. devices'[p] = devices[p]
      BY <1>1, <2>1 DEF TypeOK, Inventory, RefreshEnds, EndRefresh, TakeRecentPortMoves, Acquire,
         AcquireExclusive, AcquireMonitor, Release, ReleaseLease,
         ReleaseDeviceLeases, Preempt, PreemptDevice
    <3> QED BY <3>1 DEF Known
  <2>2. ASSUME NEW r \in Refreshers, RefreshSteps(r)
        PROVE  devices'[p].trusted_firmware = NoTrust
    BY <2>2 DEF RefreshSteps, Note
  <2> QED BY <2>1, <2>2
<1> QED BY <1>2, <1>3, <1>4, <1>5, PassingIsQuiet
\* A lapse is never forgotten.
LEMMA LapsesStay == ASSUME [DeployNext]_allVars, lapses' = {} PROVE lapses = {}
<1> USE DEF Note
<1>1. CASE World
  BY <1>1 DEF World, PlugBoard, UnplugBoard, ExternalFlash
<1>2. CASE Inventory
  BY <1>2 DEF Inventory, deployVars
<1>3. ASSUME NEW r \in Refreshers, RefreshSteps(r) \/ RefreshEnds(r) PROVE lapses = {}
  BY <1>3 DEF RefreshSteps, RefreshEnds
<1>4. ASSUME NEW d \in Deploys, NEW p \in Ports, NEW h \in Hashes, NEW hashed \in BOOLEAN,
             StartDeploy(d, p, h, hashed)
      PROVE  lapses = {}
  BY <1>4 DEF StartDeploy
<1>5. ASSUME NEW d \in Deploys, FinishDeploy(d) \/ DeadlineExpires(d) PROVE lapses = {}
  BY <1>5 DEF FinishDeploy, DeadlineExpires
<1>6. ASSUME NEW d \in Deploys, Pipeline(d), ~FinishDeploy(d), ~DeadlineExpires(d)
      PROVE  lapses = {}
  BY <1>6 DEF Pipeline, RefreshSkipped, TrustSkip, TrustMiss, VerifyMatch,
              VerifyMismatch, VerifyError, BeginWrite, WriteOk, WriteFails
<1>7. CASE UNCHANGED allVars
  BY <1>7 DEF allVars
<1> HIDE DEF Note
<1> QED BY <1>1, <1>2, <1>3, <1>4, <1>5, <1>6, <1>7 DEF DeployNext

LEMMA TrustInvStep == TrustInv /\ [DeployNext]_allVars => TrustInv'
<1> SUFFICES ASSUME TrustInv, [DeployNext]_allVars PROVE TrustInv'
  OBVIOUS
<1>1. DeployTypeOK' /\ JobsKnown'
  BY DeployTypeStep DEF TrustInv
<1>2. TypeOK /\ [Next]_vars
  BY DeployIsInventory DEF TrustInv, DeployTypeOK
<1>3. BoardsOnOnePort' /\ StampsPast'
  BY <1>2, BoardsStep, StampStep DEF TrustInv
<1>4. ASSUME lapses' = {} PROVE Quiet'
  <2>1. Quiet
    BY <1>4, LapsesStay DEF TrustInv
  <2>2. CASE World
    <3>1. ASSUME NEW p \in Ports, UnplugBoard(p) PROVE Quiet'
      BY <1>4, <2>1, <3>1, UnplugIsQuiet
    <3>2. ASSUME NEW p \in Ports, NEW b \in Boards, PlugBoard(b, p) PROVE Quiet'
      BY <1>4, <2>1, <3>2, PlugIsQuiet
    <3>3. ASSUME NEW b \in Boards, NEW h \in Hashes, ExternalFlash(b, h) PROVE Quiet'
      BY <2>1, <3>3, ExternalIsQuiet
    <3> QED BY <2>2, <3>1, <3>2, <3>3 DEF World
  <2>3. CASE Inventory \/ \E r \in Refreshers : RefreshSteps(r) \/ RefreshEnds(r)
    BY <1>4, <2>1, <2>3, InventoryIsQuiet
  <2>4. ASSUME NEW d \in Deploys, NEW p \in Ports, NEW h \in Hashes, NEW hashed \in BOOLEAN,
               StartDeploy(d, p, h, hashed)
        PROVE  Quiet'
    BY <1>4, <2>1, <2>4, StartIsQuiet
  <2>5. ASSUME NEW d \in Deploys, Pipeline(d) PROVE Quiet'
    BY <1>4, <2>1, <2>5, PassingSteps, BeginWriteIsQuiet, WriteOkIsQuiet, WriteFailsIsQuiet,
       FinishIsQuiet DEF Pipeline
  <2>6. CASE UNCHANGED allVars
    BY <2>1, <2>6, PassingIsQuiet, StillTrust DEF allVars, Passes
  <2> QED BY <2>2, <2>3, <2>4, <2>5, <2>6 DEF DeployNext
<1> QED BY <1>1, <1>3, <1>4 DEF TrustInv

\* A deploy waiting at the trust check ends in one step only by the skip.
LEMMA OnlySkipEnds ==
    ASSUME TrustInv, DeployNext, NEW d \in Deploys, Skips(d) PROVE TrustSkip(d)
<1> USE DeployConstants DEF At, Skips
<1>0. job \in [Deploys -> JobState] /\ job[d].pc = "check" /\ job'[d].pc = "idle"
  BY DEF TrustInv, DeployTypeOK
<1>1. ~World
  BY <1>0, UnplugJob DEF TrustInv, World, PlugBoard, ExternalFlash
<1>2. ~Inventory
  BY <1>0 DEF Inventory, deployVars
<1>3. ASSUME NEW r \in Refreshers, RefreshSteps(r) \/ RefreshEnds(r) PROVE FALSE
  BY <1>0, <1>3 DEF RefreshSteps, RefreshEnds
<1>4. ASSUME NEW e \in Deploys, NEW p \in Ports, NEW h \in Hashes, NEW hashed \in BOOLEAN,
             StartDeploy(e, p, h, hashed)
      PROVE  FALSE
  <2>1. job[e].pc = "idle" /\ job'[d] = job[d]
    BY <1>0, <1>4 DEF StartDeploy
  <2> QED BY <1>0, <2>1
<1>5. ASSUME NEW e \in Deploys, Pipeline(e) PROVE TrustSkip(d)
  <2>1. CASE e # d
    <3>1. PICK j \in JobState : job' = [job EXCEPT ![e] = j]
      BY <1>5, PipelineJob DEF TrustInv
    <3> QED BY <1>0, <2>1, <3>1
  <2>2. CASE e = d
    <3>1. TrustSkip(d) \/ TrustMiss(d)
      BY <1>0, <1>5, <2>2 DEF Pipeline, RefreshSkipped, VerifyMatch,
              VerifyMismatch, VerifyError, BeginWrite, WriteOk, WriteFails, FinishDeploy,
              DeadlineExpires
    <3>2. ~TrustMiss(d)
      BY <1>0 DEF TrustMiss, JobState
    <3> QED BY <3>1, <3>2
  <2> QED BY <2>1, <2>2
<1> QED BY <1>1, <1>2, <1>3, <1>4, <1>5 DEF DeployNext

\* Until the first lapse a deploy that is skipped on trust tells the truth: the
\* board on its port, if there is one, holds the image.
THEOREM SkipSound == DeploySpec => SkipIsSound
<1>1. DeployInit => TrustInv
  <2> SUFFICES ASSUME DeployInit PROVE TrustInv
    OBVIOUS
  <2>1. TypeOK
    BY Constants DEF DeployInit, Init, TypeOK
  <2>2. DeployTypeOK /\ JobsKnown
    BY <2>1, DeployConstants DEF DeployInit, DeployTypeOK, JobsKnown, At
  <2>3. BoardsOnOnePort /\ StampsPast /\ \A p \in Ports : ~UnexpiredTrust(p)
    BY DEF DeployInit, Init, BoardsOnOnePort, StampsPast, Known, UnexpiredTrust
  <2>4. Quiet
    BY <2>3, DeployConstants
       DEF DeployInit, Quiet, OnePerPort, WritesInPlace, WrittenInPlace, RegionsFit, TrustHolds, At
  <2> QED BY <2>2, <2>3, <2>4 DEF TrustInv
<1>2. ASSUME TrustInv, [DeployNext]_allVars
      PROVE  [\A d \in Deploys : Skips(d) /\ lapses = {} => HoldsImage(d)]_allVars
  <2> SUFFICES ASSUME DeployNext, NEW d \in Deploys, Skips(d), lapses = {},
                      plugged[job[d].port] # None
               PROVE  flash[plugged[job[d].port]] = job[d].image
    BY <1>2 DEF HoldsImage
  <2> DEFINE p == job[d].port
  <2>1. TrustSkip(d) /\ At(d, "check")
    BY <1>2, OnlySkipEnds DEF Skips
  <2>2. Quiet /\ p \in Ports /\ job[d].image \in Hashes
    BY <1>2, <2>1 DEF TrustInv, JobsKnown, At
  <2>3. UnexpiredTrust(p) /\ devices[p].trusted_firmware.hash = job[d].image
    BY <2>1, <2>2, Constants DEF TrustSkip, TrustMatches, TrustedFirmwareHash, UnexpiredTrust
  <2>4. ~Flashing(p)
    BY <2>1, <2>2 DEF Quiet, OnePerPort, Flashing, At
  <2> QED BY <2>2, <2>3, <2>4 DEF Quiet, TrustHolds
<1>3. QED BY <1>1, <1>2, TrustInvStep, PTL DEF DeploySpec, SkipIsSound
=============================================================================
