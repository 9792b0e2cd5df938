--------------------------- MODULE DeviceManager ---------------------------
(***************************************************************************)
(* The daemon's device inventory (fbuild-daemon/src/device_manager.rs):    *)
(* one record per serial port, the exclusive and monitor leases clients    *)
(* hold on it, the record's move to another port when a leased board comes *)
(* back renumbered, and the firmware hash the daemon trusts to be on it.   *)
(*                                                                         *)
(* Every operation runs under the `devices` mutex and is one action,       *)
(* except a refresh: the OS enumeration happens before the mutex is taken, *)
(* so its result may be old when it is applied, and several refreshes may  *)
(* be under way (a handler gives up waiting after 5 s, the blocking task   *)
(* goes on).  A refresh is therefore Enumerate, then, holding the mutex,   *)
(* BeginRefresh, one ApplyDiscovered per enumerated port (in any order:    *)
(* the OS list has none) and EndRefresh.                                   *)
(***************************************************************************)
EXTENDS Naturals, FiniteSets, Sequences

CONSTANTS
    Ports,        \* serial port names
    Boards,       \* physical endpoints that can sit on a port
    SerialOf,     \* the USB serial number each of them reports, or None
    LeaseIds,     \* the supply of lease UUIDs
    Hashes,       \* SHA-256 digests of flash images
    Refreshers,   \* tasks that run refresh_devices
    None,         \* Rust's Option::None
    MaxInstant,   \* bound on the number of recorded instants
    MaxMoves      \* bound on the undrained port moves

ASSUME BoundsAssumption == MaxInstant \in Nat /\ MaxMoves \in Nat

VARIABLES
    devices,            \* port -> DeviceState, or None where the map has no key
    recent_port_moves,  \* moves not yet taken by take_recent_port_moves
    refresh,            \* what each refresher is doing
    plugged,            \* the hardware: which board sits on which port
    issued,             \* lease ids handed out so far (Uuid::new_v4)
    now                 \* the monotonic clock, one instant per recorded stamp

vars == <<devices, recent_port_moves, refresh, plugged, issued, now>>

----------------------------------------------------------------------------
Serials == {SerialOf[b] : b \in Boards}

Lease == [id : LeaseIds, track_serial : BOOLEAN]

Instant == 0..MaxInstant

NoLease == [id |-> None, track_serial |-> FALSE]

NoTrust == [hash |-> None, set_at |-> 0]

DeviceState ==
    [ serial_number      : Serials,
      exclusive_lease    : Lease \cup {NoLease},
      monitor_leases     : SUBSET Lease,
      is_connected       : BOOLEAN,
      trusted_firmware   : [hash : Hashes, set_at : Instant] \cup {NoTrust},
      last_disconnect_at : Instant ]   \* 0: never

ASSUME NoneAssumption ==
    /\ None \notin Ports
    /\ None \notin Boards
    /\ None \notin LeaseIds
    /\ None \notin Hashes
    /\ None \notin DeviceState

DevicePortMove == [previous_port : Ports, port : Ports, serial_number : Serials]

Discovered == [port : Ports, board : Boards]

RefreshState ==
    [ pc            : {"idle", "listed", "locked"},
      todo          : SUBSET Discovered,
      was_connected : SUBSET Ports ]

IdleRefresh == [pc |-> "idle", todo |-> {}, was_connected |-> {}]

Known(p) == devices[p] # None

HasTrackedSerialLease(s) ==
    \/ s.exclusive_lease.track_serial
    \/ \E l \in s.monitor_leases : l.track_serial

\* No refresh holds the `devices` mutex.
MutexFree == \A r \in Refreshers : refresh[r].pc # "locked"

HoldsExclusive(p, l) == Known(p) /\ l # NoLease /\ devices[p].exclusive_lease = l

HoldsMonitor(p, l) == Known(p) /\ l \in devices[p].monitor_leases

\* The leases on a port, and those on all ports.
LeasesOn(p) == {l \in Lease : HoldsExclusive(p, l) \/ HoldsMonitor(p, l)}

HeldLeases == UNION {LeasesOn(p) : p \in Ports}

NewDevice(b) ==
    [ serial_number      |-> SerialOf[b],
      exclusive_lease    |-> NoLease,
      monitor_leases     |-> {},
      is_connected       |-> TRUE,
      trusted_firmware   |-> NoTrust,
      last_disconnect_at |-> 0 ]

\* What trusted_firmware_hash answers for a port.
TrustedFirmwareHash(p) ==
    IF /\ Known(p)
       /\ devices[p].is_connected
       /\ devices[p].trusted_firmware # NoTrust
       /\ devices[p].last_disconnect_at <= devices[p].trusted_firmware.set_at
    THEN devices[p].trusted_firmware.hash
    ELSE None

----------------------------------------------------------------------------
\* Every record, lease, port move, refresh, board and stamp has its type.
TypeOK ==
    /\ devices \in [Ports -> DeviceState \cup {None}]
    /\ recent_port_moves \in Seq(DevicePortMove)
    /\ refresh \in [Refreshers -> RefreshState]
    /\ plugged \in [Ports -> Boards \cup {None}]
    /\ issued \subseteq LeaseIds
    /\ now \in Instant

Init ==
    /\ devices = [p \in Ports |-> None]
    /\ recent_port_moves = <<>>
    /\ refresh = [r \in Refreshers |-> IdleRefresh]
    /\ plugged = [p \in Ports |-> None]
    /\ issued = {}
    /\ now = 0

----------------------------------------------------------------------------
(***************************************************************************)
(* The hardware.                                                           *)
(***************************************************************************)
Plug(b, p) ==
    /\ plugged[p] = None
    /\ \A q \in Ports : plugged[q] # b
    /\ plugged' = [plugged EXCEPT ![p] = b]
    /\ UNCHANGED <<devices, recent_port_moves, refresh, issued, now>>

Unplug(p) ==
    /\ plugged[p] # None
    /\ plugged' = [plugged EXCEPT ![p] = None]
    /\ UNCHANGED <<devices, recent_port_moves, refresh, issued, now>>

----------------------------------------------------------------------------
(***************************************************************************)
(* refresh_devices and refresh_from_discovered.                            *)
(***************************************************************************)

\* fbuild_serial::ports::available_ports(), before the mutex is taken.
Enumerate(r) ==
    /\ refresh[r].pc = "idle"
    /\ refresh' = [refresh EXCEPT ![r] =
         [pc |-> "listed",
          todo |-> {d \in Discovered : plugged[d.port] = d.board},
          was_connected |-> {}]]
    /\ UNCHANGED <<devices, recent_port_moves, plugged, issued, now>>

\* Take the mutex, remember who was connected, mark everyone disconnected.
BeginRefresh(r) ==
    /\ refresh[r].pc = "listed"
    /\ MutexFree
    /\ refresh' = [refresh EXCEPT
         ![r].pc = "locked",
         ![r].was_connected = {p \in Ports : Known(p) /\ devices[p].is_connected}]
    /\ devices' = [p \in Ports |->
         IF Known(p) THEN [devices[p] EXCEPT !.is_connected = FALSE] ELSE None]
    /\ UNCHANGED <<recent_port_moves, plugged, issued, now>>

\* Mutant: the renumbering test forgets to ask whether the new port already has
\* a record, which the moved one then overwrites.
MovedFromAnyPort(d) ==
    {q \in Ports : /\ q # d.port
                   /\ SerialOf[d.board] # None
                   /\ Known(q)
                   /\ devices[q].serial_number = SerialOf[d.board]
                   /\ ~devices[q].is_connected
                   /\ HasTrackedSerialLease(devices[q])}

\* The records a board that shows up on an unknown port may have moved from.
MovedFrom(d) ==
    {q \in Ports : /\ ~Known(d.port)
                   /\ SerialOf[d.board] # None
                   /\ Known(q)
                   /\ devices[q].serial_number = SerialOf[d.board]
                   /\ ~devices[q].is_connected
                   /\ HasTrackedSerialLease(devices[q])}

\* Mutant: the record is copied to the new port and left at the old one.
CopyRecord(d, q) ==
    /\ devices' = [devices EXCEPT
         ![d.port] = [devices[q] EXCEPT !.is_connected = TRUE,
                                        !.serial_number = SerialOf[d.board]]]
    /\ recent_port_moves' = Append(recent_port_moves,
         [previous_port |-> q, port |-> d.port, serial_number |-> SerialOf[d.board]])

\* The record of a leased board follows it to the port it came back on.
MoveRecord(d, q) ==
    /\ devices' = [devices EXCEPT
         ![d.port] = [devices[q] EXCEPT !.is_connected = TRUE,
                                        !.serial_number = SerialOf[d.board]],
         ![q] = None]
    /\ recent_port_moves' = Append(recent_port_moves,
         [previous_port |-> q, port |-> d.port, serial_number |-> SerialOf[d.board]])

\* Otherwise the port's own record is created or brought up to date.
UpdateRecord(d) ==
    /\ devices' = [devices EXCEPT ![d.port] =
         IF Known(d.port)
         THEN [devices[d.port] EXCEPT !.is_connected = TRUE,
                                      !.serial_number = SerialOf[d.board]]
         ELSE NewDevice(d.board)]
    /\ UNCHANGED recent_port_moves

ApplyDiscovered(r) ==
    /\ refresh[r].pc = "locked"
    /\ \E d \in refresh[r].todo :
         /\ refresh' = [refresh EXCEPT ![r].todo = @ \ {d}]
         /\ \/ /\ MovedFrom(d) = {}
               /\ UpdateRecord(d)
            \/ \E q \in MovedFrom(d) :
                 /\ Len(recent_port_moves) < MaxMoves
                 /\ MoveRecord(d, q)
    /\ UNCHANGED <<plugged, issued, now>>

\* Stamp every record that was connected before and is not any more; unlock.
EndRefresh(r) ==
    /\ refresh[r].pc = "locked"
    /\ refresh[r].todo = {}
    /\ LET gone == {p \in refresh[r].was_connected :
                      Known(p) /\ ~devices[p].is_connected}
       IN \/ /\ gone = {}
             /\ UNCHANGED <<devices, now>>
          \/ /\ gone # {}
             /\ now < MaxInstant
             /\ now' = now + 1
             /\ devices' = [p \in Ports |->
                  IF p \in gone
                  THEN [devices[p] EXCEPT !.last_disconnect_at = now + 1]
                  ELSE devices[p]]
    /\ refresh' = [refresh EXCEPT ![r] = IdleRefresh]
    /\ UNCHANGED <<recent_port_moves, plugged, issued>>

\* take_recent_port_moves: a mutex of its own, so also during a refresh.
TakeRecentPortMoves ==
    /\ recent_port_moves # <<>>
    /\ recent_port_moves' = <<>>
    /\ UNCHANGED <<devices, refresh, plugged, issued, now>>

----------------------------------------------------------------------------
(***************************************************************************)
(* Leases.                                                                 *)
(***************************************************************************)
AcquireExclusive(p, id, track) ==
    /\ MutexFree
    /\ Known(p)
    /\ devices[p].is_connected
    /\ devices[p].exclusive_lease = NoLease
    /\ id \notin issued
    /\ issued' = issued \cup {id}
    /\ devices' = [devices EXCEPT
         ![p].exclusive_lease = [id |-> id, track_serial |-> track]]
    /\ UNCHANGED <<recent_port_moves, refresh, plugged, now>>

AcquireMonitor(p, id, track) ==
    /\ MutexFree
    /\ Known(p)
    /\ devices[p].is_connected
    /\ id \notin issued
    /\ issued' = issued \cup {id}
    /\ devices' = [devices EXCEPT
         ![p].monitor_leases = @ \cup {[id |-> id, track_serial |-> track]}]
    /\ UNCHANGED <<recent_port_moves, refresh, plugged, now>>

\* Mutant: giving up an exclusive lease leaves a lease without an id in place.
ReleaseKeepsHolder(id) ==
    /\ MutexFree
    /\ \E p \in Ports :
         /\ Known(p)
         /\ devices[p].exclusive_lease.id = id
         /\ devices' = [devices EXCEPT ![p].exclusive_lease.id = None]
    /\ UNCHANGED <<recent_port_moves, refresh, plugged, issued, now>>

\* release_lease(lease_id): the first record that holds the id gives it up,
\* its exclusive lease before its monitor leases; the search order over the
\* hash map is arbitrary.
ReleaseLease(id) ==
    /\ MutexFree
    /\ \E p \in Ports :
         /\ Known(p)
         /\ \/ /\ devices[p].exclusive_lease.id = id
               /\ devices' = [devices EXCEPT ![p].exclusive_lease = NoLease]
            \/ /\ devices[p].exclusive_lease.id # id
               /\ \E l \in devices[p].monitor_leases : l.id = id
               /\ devices' = [devices EXCEPT
                    ![p].monitor_leases = {l \in @ : l.id # id}]
    /\ UNCHANGED <<recent_port_moves, refresh, plugged, issued, now>>

ReleaseDeviceLeases(p) ==
    /\ MutexFree
    /\ Known(p)
    /\ devices' = [devices EXCEPT ![p].exclusive_lease = NoLease,
                                  ![p].monitor_leases = {}]
    /\ UNCHANGED <<recent_port_moves, refresh, plugged, issued, now>>

PreemptDevice(p, id) ==
    /\ MutexFree
    /\ Known(p)
    /\ devices[p].is_connected
    /\ id \notin issued
    /\ issued' = issued \cup {id}
    /\ devices' = [devices EXCEPT
         ![p].exclusive_lease = [id |-> id, track_serial |-> FALSE],
         ![p].monitor_leases = {}]
    /\ UNCHANGED <<recent_port_moves, refresh, plugged, now>>

CleanupStaleDevices ==
    /\ MutexFree
    /\ devices' = [p \in Ports |->
         IF Known(p) /\ ~devices[p].is_connected /\ LeasesOn(p) = {}
         THEN None ELSE devices[p]]
    /\ UNCHANGED <<recent_port_moves, refresh, plugged, issued, now>>

----------------------------------------------------------------------------
(***************************************************************************)
(* Trusted firmware.                                                       *)
(***************************************************************************)

\* set_trusted_firmware_hash: a no-op on a port the map does not have.
SetTrustedFirmwareHash(p, h) ==
    /\ MutexFree
    /\ Known(p)
    /\ now < MaxInstant
    /\ now' = now + 1
    /\ devices' = [devices EXCEPT
         ![p].trusted_firmware = [hash |-> h, set_at |-> now + 1]]
    /\ UNCHANGED <<recent_port_moves, refresh, plugged, issued>>

ClearTrustedFirmwareHash(p) ==
    /\ MutexFree
    /\ Known(p)
    /\ devices' = [devices EXCEPT ![p].trusted_firmware = NoTrust]
    /\ UNCHANGED <<recent_port_moves, refresh, plugged, issued, now>>

----------------------------------------------------------------------------
Refresh(r) == Enumerate(r) \/ BeginRefresh(r) \/ ApplyDiscovered(r) \/ EndRefresh(r)

Release ==
    \/ \E id \in LeaseIds : ReleaseLease(id)
    \/ \E p \in Ports : ReleaseDeviceLeases(p)

Preempt == \E p \in Ports, id \in LeaseIds : PreemptDevice(p, id)

Acquire ==
    \E p \in Ports, id \in LeaseIds, track \in BOOLEAN :
        AcquireExclusive(p, id, track) \/ AcquireMonitor(p, id, track)

Trust ==
    \E p \in Ports :
        \/ \E h \in Hashes : SetTrustedFirmwareHash(p, h)
        \/ ClearTrustedFirmwareHash(p)

Hardware ==
    \E p \in Ports : Unplug(p) \/ \E b \in Boards : Plug(b, p)

Next ==
    \/ Hardware
    \/ \E r \in Refreshers : Refresh(r)
    \/ TakeRecentPortMoves
    \/ Acquire
    \/ Release
    \/ Preempt
    \/ CleanupStaleDevices
    \/ Trust

Spec == Init /\ [][Next]_vars

----------------------------------------------------------------------------
(***************************************************************************)
(* Properties.                                                             *)
(***************************************************************************)

\* A lease id lives in exactly one place: no two records hold it, and no
\* record holds it both as its exclusive and as a monitor lease.  release_lease
\* relies on it, it stops at the first record that has the id; a record that
\* moves to another port must not leave a copy of its leases behind.
LeaseIdsUnique ==
    \A p, q \in Ports : \A l, m \in Lease :
        l.id = m.id =>
            /\ HoldsExclusive(p, l) /\ HoldsExclusive(q, m) => p = q
            /\ HoldsMonitor(p, l) /\ HoldsMonitor(q, m) => p = q /\ l = m
            /\ ~(HoldsExclusive(p, l) /\ HoldsMonitor(q, m))

\* A lease is given up only by a release or a preemption: neither a refresh
\* that finds the board gone, or replaced, or renumbered, nor the cleanup of
\* stale records ever drops one ("Preserves existing leases").
LeasesEndOnlyByRelease ==
    [][HeldLeases \subseteq HeldLeases' \/ Release \/ Preempt]_vars
=============================================================================
