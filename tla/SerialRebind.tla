---------------------------- MODULE SerialRebind ----------------------------
(***************************************************************************)
(* A board that is enumerated under another port name while its serial     *)
(* session is in use: the device manager records the move, a request that  *)
(* drains it reopens the device under the new name and puts the new handle *)
(* into the old session (rebind_port_session), and the new name becomes an *)
(* alias of the old one.  Meanwhile connections open, attach and leave     *)
(* under either name, an idle timer or a deploy closes the session, and    *)
(* the board moves on.                                                     *)
(*                                                                         *)
(* The maps of SharedSerialManager are separate and every call resolves    *)
(* the port name anew, so a handler is a sequence of steps.  A step here   *)
(* is a map operation with the bump of the generation that follows it;     *)
(* SerialManager, for one port without aliases, takes them apart, and has  *)
(* the writer slot and the other handlers.  The wait for a reader ends     *)
(* with the reader or after two seconds: at any moment.                    *)
(***************************************************************************)
EXTENDS Naturals, Sequences

CONSTANTS Ports,      \* names the operating system gives the board
          Conns,      \* WebSocket connections
          PortOf,     \* the name a connection opens
          Rebinders,  \* requests that refresh the devices and apply the moves
          Closers,    \* deploys, resets and forced closes
          None,
          MaxHops,    \* bound: enumerations of the board after the first
          MaxOpens    \* bound: handles opened

Handles == 1 .. MaxOpens
SessionRecords == [h : Handles, clients : SUBSET Conns]
Timers == [key : Ports, generation : Nat]
MoveRecords == [from : Ports, to : Ports]

ASSUME ConnsAssumption ==
  PortOf \in [Conns -> Ports] /\ Conns \cap Closers = {}
ASSUME BoundAssumption == MaxHops \in Nat /\ MaxOpens \in Nat
ASSUME NoneAssumption ==
  None \notin Ports \cup Handles \cup SessionRecords \cup Timers

VARIABLES at,          \* the port the board is on
          hops,        \* how often it has been enumerated anew
          known,       \* the port the device manager has it on
          moves,       \* recent_port_moves
          sessions, broadcasters, close_generations, port_aliases,
          reader,      \* the background reader of a handle
          device,      \* the enumeration in which a handle was opened
          tx,          \* the channel its reader sends to
          opened,      \* handles opened so far
          conn,        \* where a connection's handler is
          timer,       \* the delayed close a connection left behind
          close,       \* close_port, run by a timer or by a closer
          rebind,      \* rebind_recent_device_port_moves
          overtaken    \* history: the session of a rebind under way was
                       \* closed, replaced or rebound by another, or an open
                       \* replaced a session

usb == <<at, hops, known, moves>>
maps == <<sessions, broadcasters, close_generations, port_aliases>>
threads == <<reader, device, tx, opened>>
vars == <<usb, maps, threads, conn, timer, close, rebind, overtaken>>

\* resolve_port_key: one step, never followed further.
Key(p) == IF port_aliases[p] = None THEN p ELSE port_aliases[p]

HasClients(k) == sessions[k] # None /\ sessions[k].clients # {}
Bump(k) == close_generations' = [close_generations EXCEPT ![k] = @ + 1]

NoClose == [pc |-> "off", key |-> None, h |-> None, generation |-> 0]
NoRebind == [pc |-> "off", queue |-> <<>>, key |-> None, h |-> None,
             tx |-> None]

Init ==
  /\ at \in Ports /\ known = at /\ hops = 0 /\ moves = <<>>
  /\ sessions = [p \in Ports |-> None]
  /\ broadcasters = [p \in Ports |-> None]
  /\ close_generations = [p \in Ports |-> 0]
  /\ port_aliases = [p \in Ports |-> None]
  /\ reader = [h \in Handles |-> "none"]
  /\ device = [h \in Handles |-> 0]
  /\ tx = [h \in Handles |-> None]
  /\ opened = 0
  /\ conn = [c \in Conns |-> [pc |-> "start", h |-> None, key |-> None,
                              rx |-> None]]
  /\ timer = [c \in Conns |-> None]
  /\ close = [x \in Conns \cup Closers |-> NoClose]
  /\ rebind = [r \in Rebinders |-> NoRebind]
  /\ overtaken = FALSE

-----------------------------------------------------------------------------
(* The device. *)

\* Somebody shares the handle: it is closed with the last Arc.
Shared(h) ==
  \/ reader[h] \in {"running", "stopping"}
  \/ \E p \in Ports : sessions[p] # None /\ sessions[p].h = h
  \/ \E c \in Conns : conn[c].h = h
  \/ \E x \in Conns \cup Closers : close[x].h = h
  \/ \E r \in Rebinders : rebind[r].h = h

\* The operating system gives the device to one holder at a time.
CanOpen(p) ==
  /\ at = p /\ opened < MaxOpens
  /\ \A h \in 1 .. opened : device[h] = hops => ~Shared(h)

Opens(h) ==
  /\ h = opened + 1
  /\ opened' = h
  /\ device' = [device EXCEPT ![h] = hops]
  /\ UNCHANGED <<reader, tx>>

\* The board is plugged in again, under any name.
Hop(p) ==
  /\ hops < MaxHops
  /\ at' = p /\ hops' = hops + 1
  /\ UNCHANGED <<known, moves, maps, threads, conn, timer, close, rebind,
                 overtaken>>

\* A refresh of the device manager finds the (leased) board elsewhere.
Refresh ==
  /\ known # at
  /\ known' = at
  /\ moves' = Append(moves, [from |-> known, to |-> at])
  /\ UNCHANGED <<at, hops, maps, threads, conn, timer, close, rebind, overtaken>>

\* A reader comes out of its read after the stop flag was set, or a read fails.
ReaderEnds(h) ==
  /\ reader[h] \in {"running", "stopping"}
  /\ reader' = [reader EXCEPT ![h] = "dead"]
  /\ UNCHANGED <<usb, maps, device, tx, opened, conn, timer, close, rebind,
                 overtaken>>

-----------------------------------------------------------------------------
(* A connection. *)

Goto(c, s) == conn' = [conn EXCEPT ![c].pc = s]

\* open_port: the session of the key is used again, or the name is opened.
OpenStart(c) ==
  LET k == Key(PortOf[c]) IN
  /\ conn[c].pc = "start"
  /\ IF sessions[k] # None
     THEN Bump(k) /\ Goto(c, "attach")
     ELSE Goto(c, "opening") /\ UNCHANGED close_generations
  /\ UNCHANGED <<usb, sessions, broadcasters, port_aliases, threads, timer,
                 close, rebind, overtaken>>

OpenPhysical(c) ==
  /\ conn[c].pc = "opening" /\ CanOpen(PortOf[c])
  /\ Opens(opened + 1)
  /\ conn' = [conn EXCEPT ![c].pc = "publish", ![c].h = opened + 1]
  /\ UNCHANGED <<usb, maps, timer, close, rebind, overtaken>>

OpenFails(c) ==
  /\ conn[c].pc = "opening"
  /\ Goto(c, "done")
  /\ UNCHANGED <<usb, maps, threads, timer, close, rebind, overtaken>>

\* The channel and the session are filed under the name that was opened.
OpenPublish(c) ==
  LET h == conn[c].h IN
  /\ conn[c].pc = "publish"
  /\ broadcasters' = [broadcasters EXCEPT ![PortOf[c]] = h]
  /\ reader' = [reader EXCEPT ![h] = "running"]
  /\ tx' = [tx EXCEPT ![h] = h]
  /\ Goto(c, "insert")
  /\ UNCHANGED <<usb, sessions, close_generations, port_aliases, device, opened,
                 timer, close, rebind, overtaken>>

\* A rebind of the session of key k has stopped its reader and goes on.
UnderWay(k) == \E r \in Rebinders :
                 rebind[r].pc \in {"file", "alias"} /\ rebind[r].key = k

OpenInsert(c) ==
  LET p == PortOf[c] IN
  /\ conn[c].pc = "insert"
  /\ sessions' = [sessions EXCEPT ![p] = [h |-> conn[c].h, clients |-> {}]]
  /\ Bump(p)
  /\ conn' = [conn EXCEPT ![c].pc = "attach", ![c].h = None]
  /\ overtaken' = (overtaken \/ sessions[p] # None \/ UnderWay(p))
  /\ UNCHANGED <<usb, broadcasters, port_aliases, threads, timer, close, rebind>>

\* attach_reader: the receiver first, then the place among the readers.
Attach(c) ==
  LET k == Key(PortOf[c]) IN
  /\ conn[c].pc = "attach"
  /\ conn' = [conn EXCEPT ![c] =
       IF broadcasters[k] = None THEN [@ EXCEPT !.pc = "detach"]
       ELSE [@ EXCEPT !.pc = "register", !.key = k, !.rx = broadcasters[k]]]
  /\ UNCHANGED <<usb, maps, threads, timer, close, rebind, overtaken>>

Register(c) ==
  LET k == conn[c].key IN
  /\ conn[c].pc = "register"
  /\ IF sessions[k] # None
     THEN /\ sessions' = [sessions EXCEPT ![k].clients = @ \cup {c}]
          /\ Bump(k)
     ELSE UNCHANGED <<sessions, close_generations>>
  /\ conn' = [conn EXCEPT ![c].pc = "attached", ![c].key = None]
  /\ UNCHANGED <<usb, broadcasters, port_aliases, threads, timer, close, rebind,
                 overtaken>>

\* The client leaves, or its channel has no sender any more.
Leave(c) ==
  /\ conn[c].pc = "attached"
  /\ conn' = [conn EXCEPT ![c].pc = "detach", ![c].rx = None]
  /\ UNCHANGED <<usb, maps, threads, timer, close, rebind, overtaken>>

\* cleanup_ws_serial_session.
Detach(c) ==
  LET k == Key(PortOf[c]) IN
  /\ conn[c].pc = "detach"
  /\ sessions' = IF sessions[k] = None THEN sessions
                 ELSE [sessions EXCEPT ![k].clients = @ \ {c}]
  /\ Goto(c, "grace")
  /\ UNCHANGED <<usb, broadcasters, close_generations, port_aliases, threads,
                 timer, close, rebind, overtaken>>

Grace(c) ==
  LET k == Key(PortOf[c]) IN
  /\ conn[c].pc = "grace"
  /\ IF HasClients(k) \/ sessions[k] = None
     THEN UNCHANGED <<close_generations, timer>>
     ELSE /\ Bump(k)
          /\ timer' = [timer EXCEPT ![c] =
               [key |-> k, generation |-> close_generations[k] + 1]]
  /\ Goto(c, "done")
  /\ UNCHANGED <<usb, sessions, broadcasters, port_aliases, threads, close,
                 rebind, overtaken>>

-----------------------------------------------------------------------------
(* close_port. *)

Closing(x, k) == close' = [close EXCEPT ![x] = [NoClose EXCEPT !.pc = "remove",
                                                               !.key = k]]

TimerFires(c) ==
  LET t == timer[c] IN
  /\ t # None
  /\ timer' = [timer EXCEPT ![c] = None]
  /\ IF close_generations[t.key] = t.generation /\ ~HasClients(Key(t.key))
     THEN Closing(c, Key(t.key))
     ELSE UNCHANGED close
  /\ UNCHANGED <<usb, maps, threads, conn, rebind, overtaken>>

\* clear_locks closes at once; a deploy or a reset reads the generation first.
ForceClose(x, p) ==
  /\ close[x] = NoClose
  /\ Closing(x, Key(p))
  /\ UNCHANGED <<usb, maps, threads, conn, timer, rebind, overtaken>>

Preempt(x, p) ==
  /\ close[x] = NoClose
  /\ close' = [close EXCEPT ![x] =
       [pc |-> "guard", key |-> Key(p), h |-> None,
        generation |-> close_generations[Key(p)]]]
  /\ UNCHANGED <<usb, maps, threads, conn, timer, rebind, overtaken>>

PreemptGuard(x) ==
  LET k == Key(close[x].key) IN
  /\ close[x].pc = "guard"
  /\ IF close_generations[k] = close[x].generation
     THEN Closing(x, k)
     ELSE close' = [close EXCEPT ![x] = [NoClose EXCEPT !.pc = "over"]]
  /\ UNCHANGED <<usb, maps, threads, conn, timer, rebind, overtaken>>

\* A reader is told to stop.
Stopped(h) == [reader EXCEPT ![h] = IF @ = "running" THEN "stopping" ELSE @]

\* Mutant of CloseRemove: the stop flag is not set.
CloseRemoveKeepsReader(x) ==
  LET k == close[x].key IN
  /\ close[x].pc = "remove"
  /\ Bump(k)
  /\ sessions' = [sessions EXCEPT ![k] = None]
  /\ close' = [close EXCEPT ![x].pc = "channel"]
  /\ UNCHANGED <<reader, overtaken>>
  /\ UNCHANGED <<usb, broadcasters, port_aliases, device, tx, opened, conn,
                 timer, rebind>>

CloseRemove(x) ==
  LET k == close[x].key IN
  /\ close[x].pc = "remove"
  /\ Bump(k)
  /\ IF sessions[k] # None
     THEN /\ sessions' = [sessions EXCEPT ![k] = None]
          /\ reader' = Stopped(sessions[k].h)
          /\ close' = [close EXCEPT ![x].pc = "join", ![x].h = sessions[k].h]
          /\ overtaken' = (overtaken \/ UnderWay(k))
     ELSE /\ close' = [close EXCEPT ![x].pc = "channel"]
          /\ UNCHANGED <<sessions, reader, overtaken>>
  /\ UNCHANGED <<usb, broadcasters, port_aliases, device, tx, opened, conn,
                 timer, rebind>>

\* The wait is over and the session with its handle is dropped.
CloseDrop(x) ==
  /\ close[x].pc = "join"
  /\ close' = [close EXCEPT ![x].pc = "channel", ![x].h = None]
  /\ UNCHANGED <<usb, maps, threads, conn, timer, rebind, overtaken>>

CloseChannel(x) ==
  LET k == close[x].key IN
  /\ close[x].pc = "channel"
  /\ broadcasters' = [broadcasters EXCEPT ![k] = None]
  /\ close_generations' = [close_generations EXCEPT ![k] = 0]
  /\ close' = [close EXCEPT ![x].pc = "aliases"]
  /\ UNCHANGED <<usb, sessions, port_aliases, threads, conn, timer, rebind,
                 overtaken>>

\* Mutant of CloseAliases: they stay.
CloseKeepsAliases(x) ==
  /\ close[x].pc = "aliases"
  /\ close' = [close EXCEPT ![x] = [NoClose EXCEPT !.pc = "over"]]
  /\ UNCHANGED <<usb, maps, threads, conn, timer, rebind, overtaken>>

\* remove_aliases_for_session.
CloseAliases(x) ==
  /\ close[x].pc = "aliases"
  /\ port_aliases' = [p \in Ports |-> IF port_aliases[p] = close[x].key
                                      THEN None ELSE port_aliases[p]]
  /\ close' = [close EXCEPT ![x] = [NoClose EXCEPT !.pc = "over"]]
  /\ UNCHANGED <<usb, sessions, broadcasters, close_generations, threads, conn,
                 timer, rebind, overtaken>>

-----------------------------------------------------------------------------
(* rebind_recent_device_port_moves, for a request r. *)

Drain(r) ==
  /\ rebind[r].pc = "off" /\ moves # <<>>
  /\ rebind' = [rebind EXCEPT ![r].pc = "start", ![r].queue = moves]
  /\ moves' = <<>>
  /\ UNCHANGED <<at, hops, known, maps, threads, conn, timer, close, overtaken>>

\* On to the next move; what the clients are told is left out.
Answered(r) ==
  LET q == Tail(rebind[r].queue) IN
  rebind' = [rebind EXCEPT ![r] =
    IF q = <<>> THEN NoRebind ELSE [NoRebind EXCEPT !.pc = "start", !.queue = q]]

RebindStart(r) ==
  LET k == Key(Head(rebind[r].queue).from) IN
  /\ rebind[r].pc = "start"
  /\ IF sessions[k] = None \/ broadcasters[k] = None
     THEN Answered(r)
     ELSE rebind' = [rebind EXCEPT ![r].pc = "open", ![r].key = k]
  /\ UNCHANGED <<usb, maps, threads, conn, timer, close, overtaken>>

RebindOpen(r) ==
  /\ rebind[r].pc = "open" /\ CanOpen(Head(rebind[r].queue).to)
  /\ Opens(opened + 1)
  /\ rebind' = [rebind EXCEPT ![r].pc = "stop", ![r].h = opened + 1]
  /\ UNCHANGED <<usb, maps, conn, timer, close, overtaken>>

RebindOpenFails(r) ==
  /\ rebind[r].pc = "open"
  /\ Answered(r)
  /\ UNCHANGED <<usb, maps, threads, conn, timer, close, overtaken>>

\* The channel is cloned and the session's reader told to stop; if either is
\* gone, the new handle is dropped.
RebindStop(r) ==
  LET k == rebind[r].key IN
  /\ rebind[r].pc = "stop"
  /\ IF sessions[k] = None \/ broadcasters[k] = None
     THEN Answered(r) /\ UNCHANGED <<reader, overtaken>>
     ELSE /\ reader' = Stopped(sessions[k].h)
          /\ rebind' = [rebind EXCEPT ![r].pc = "file",
                                      ![r].tx = broadcasters[k]]
          /\ overtaken' = (overtaken \/ UnderWay(k))
  /\ UNCHANGED <<usb, maps, device, tx, opened, conn, timer, close>>

\* Mutant of RebindFile: the old handle is taken out and nothing put in.
RebindFileForgetsHandle(r) ==
  LET k == rebind[r].key  h == rebind[r].h IN
  /\ rebind[r].pc = "file"
  /\ reader' = [reader EXCEPT ![h] = "running"]
  /\ tx' = [tx EXCEPT ![h] = rebind[r].tx]
  /\ sessions' = IF sessions[k] = None THEN sessions
                 ELSE [sessions EXCEPT ![k].h = None]
  /\ rebind' = [rebind EXCEPT ![r].pc = "alias", ![r].h = None]
  /\ UNCHANGED <<usb, broadcasters, close_generations, port_aliases, device,
                 opened, conn, timer, close, overtaken>>

\* The old reader has ended or been given up: the new one starts, and the new
\* handle goes into the session, if there is one.
RebindFile(r) ==
  LET k == rebind[r].key  h == rebind[r].h IN
  /\ rebind[r].pc = "file"
  /\ reader' = [reader EXCEPT ![h] = "running"]
  /\ tx' = [tx EXCEPT ![h] = rebind[r].tx]
  /\ sessions' = IF sessions[k] = None THEN sessions
                 ELSE [sessions EXCEPT ![k].h = h]
  /\ rebind' = [rebind EXCEPT ![r].pc = "alias", ![r].h = None]
  /\ UNCHANGED <<usb, broadcasters, close_generations, port_aliases, device,
                 opened, conn, timer, close, overtaken>>

RebindAlias(r) ==
  LET k == rebind[r].key IN
  /\ rebind[r].pc = "alias"
  /\ port_aliases' = [port_aliases EXCEPT ![Head(rebind[r].queue).to] = k]
  /\ Bump(k)
  /\ Answered(r)
  /\ UNCHANGED <<usb, sessions, broadcasters, threads, conn, timer, close,
                 overtaken>>

-----------------------------------------------------------------------------
Connection(c) ==
  \/ OpenStart(c) \/ OpenPhysical(c) \/ OpenFails(c) \/ OpenPublish(c)
  \/ OpenInsert(c) \/ Attach(c) \/ Register(c) \/ Leave(c) \/ Detach(c)
  \/ Grace(c) \/ TimerFires(c)

Close(x) ==
  \/ PreemptGuard(x) \/ CloseRemove(x) \/ CloseDrop(x) \/ CloseChannel(x)
  \/ CloseAliases(x)

Rebind(r) ==
  \/ Drain(r) \/ RebindStart(r) \/ RebindOpen(r) \/ RebindOpenFails(r)
  \/ RebindStop(r) \/ RebindFile(r) \/ RebindAlias(r)

Next ==
  \/ Refresh
  \/ \E p \in Ports : Hop(p) \/ \E x \in Closers : ForceClose(x, p) \/ Preempt(x, p)
  \/ \E h \in Handles : ReaderEnds(h)
  \/ \E c \in Conns : Connection(c)
  \/ \E x \in Conns \cup Closers : Close(x)
  \/ \E r \in Rebinders : Rebind(r)

Spec == Init /\ [][Next]_vars

-----------------------------------------------------------------------------
(* Properties. *)

ConnSteps == {"start", "opening", "publish", "insert", "attach", "register",
              "attached", "detach", "grace", "done"}

\* TypeOK: the maps, handles, handlers, closes and rebinds have their types.
TypeOK ==
  /\ at \in Ports /\ known \in Ports /\ hops \in 0 .. MaxHops
  /\ moves \in Seq(MoveRecords)
  /\ sessions \in [Ports -> SessionRecords \cup {None}]
  /\ broadcasters \in [Ports -> Handles \cup {None}]
  /\ close_generations \in [Ports -> Nat]
  /\ port_aliases \in [Ports -> Ports \cup {None}]
  /\ reader \in [Handles -> {"none", "running", "stopping", "dead"}]
  /\ device \in [Handles -> 0 .. MaxHops]
  /\ tx \in [Handles -> Handles \cup {None}]
  /\ opened \in 0 .. MaxOpens
  /\ conn \in [Conns -> [pc : ConnSteps, h : Handles \cup {None},
                         key : Ports \cup {None}, rx : Handles \cup {None}]]
  /\ timer \in [Conns -> Timers \cup {None}]
  /\ close \in [Conns \cup Closers ->
                  [pc : {"off", "guard", "remove", "join", "channel", "aliases",
                         "over"},
                   key : Ports \cup {None}, h : Handles \cup {None},
                   generation : Nat]]
  /\ rebind \in [Rebinders ->
                   [pc : {"off", "start", "open", "stop", "file", "alias"},
                    queue : Seq(MoveRecords), key : Ports \cup {None},
                    h : Handles \cup {None}, tx : Handles \cup {None}]]
  /\ overtaken \in BOOLEAN

\* Who can still stop the reader of h.
Owned(h) ==
  \/ \E p \in Ports : sessions[p] # None /\ sessions[p].h = h
  \/ \E c \in Conns : conn[c].pc = "insert" /\ conn[c].h = h

(***************************************************************************)
(* No reader keeps a plugged-in device to itself for ever: one that runs   *)
(* belongs to a session, or to an open_port about to file one, so that a   *)
(* close reaches it, through every rebind to another name, unless a rebind *)
(* was overtaken (manager.rs:792-833).                                     *)
(***************************************************************************)
NoOrphanReader ==
  ~overtaken => \A h \in Handles :
    reader[h] = "running" /\ device[h] = hops => Owned(h)

(***************************************************************************)
(* A name that is an alias leads to a session, or to one that a close is   *)
(* taking down with its aliases: no port becomes unusable because it       *)
(* stands for a session that is gone, unless a rebind was overtaken.       *)
(* (manager.rs:567, 831-833)                                               *)
(***************************************************************************)
AliasesLead ==
  ~overtaken => \A p \in Ports : port_aliases[p] # None =>
    \/ sessions[port_aliases[p]] # None
    \/ \E x \in Conns \cup Closers :
         /\ close[x].key = port_aliases[p]
         /\ close[x].pc \in {"join", "channel", "aliases"}
=============================================================================
