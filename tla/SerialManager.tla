--------------------------- MODULE SerialManager ---------------------------
(***************************************************************************)
(* One serial port of the daemon's SharedSerialManager                     *)
(* (fbuild-serial/src/manager.rs) and the handlers that use it: WebSocket  *)
(* connections (handlers/websockets.rs), the HTTP and the post-deploy      *)
(* monitor, the delayed idle close, and deploys that preempt the port.     *)
(*                                                                         *)
(* The daemon is a multi-threaded tokio runtime and the manager's state is *)
(* a set of independent concurrent maps, so every map operation is a step  *)
(* of its own and a handler is a sequence of them.  A connection opens the *)
(* port physically at most once, so it also names the session, the         *)
(* broadcast channel and the reader thread it created.                     *)
(*                                                                         *)
(* USB renumbering (port aliases, rebind) is the subject of another module.*)
(***************************************************************************)
EXTENDS Naturals, FiniteSets

CONSTANTS
    Conns,      \* connections: one WebSocket, or one monitor request, each
    Clients,    \* client ids
    ClientOf,   \* the client id a connection attaches with
    KindOf,     \* the handler that serves it
    Deploys,    \* deploy and reset operations on this port
    None        \* Option::None

\* "ws": /ws/serial-monitor; "monitor": POST /api/monitor with halt conditions
\* or a timeout; "bare": the same without any, which only opens the port;
\* "post_deploy": the monitor a deploy with monitor_after runs at its end.
Kinds == {"ws", "monitor", "bare", "post_deploy"}

ASSUME ConnsAssumption ==
    /\ ClientOf \in [Conns -> Clients]
    /\ KindOf \in [Conns -> Kinds]
    /\ Conns \cap Deploys = {}
    /\ None \notin Conns \cup Deploys \cup Clients
    /\ None \notin [sid : Conns, readers : SUBSET Clients, writer : Clients \cup {None}]

VARIABLES
    session,      \* the entry of `sessions`
    broadcaster,  \* the entry of `broadcasters`: the connection that made it
    generation,   \* the entry of `close_generations`, 0 when there is none
    preempted,    \* whether the PreemptionTracker has an entry
    os_handle,    \* who has the OS device open: a session, a flash tool, None
    reader,       \* the background reader thread of each session
    conn,         \* the progress of each connection's handler
    timer,        \* the delayed close a connection left behind
    deploy,       \* the progress of each deploy
    close         \* close_port, as run by a timer or by a deploy

vars == <<session, broadcaster, generation, preempted, os_handle, reader,
          conn, timer, deploy, close>>

Closers == Conns \cup Deploys   \* a timer is named after its connection

ConnPC == {"start", "reuse", "opening", "publish", "insert", "bump", "opened",
           "wbump", "attach", "register", "rbump", "attached", "detach",
           "release", "idlecheck", "grace", "arm", "done", "dropped"}

Session == [sid : Conns, readers : SUBSET Clients, writer : Clients \cup {None}]

ReaderState == {"none", "running", "stopping", "leaked", "dead"}

ConnState == [pc : ConnPC, writer_acquired : BOOLEAN, rx : Conns \cup {None}]

TimerState == [pc : {"off", "armed", "check", "closing"}, generation : Nat,
               sid : Conns \cup {None}]

DeployState == [pc : {"start", "guard", "closing", "flash", "flashing", "done"},
                generation : Nat]

CloseState == [pc : {"off", "bump", "remove", "join", "channel", "generation"},
               sid : Conns \cup {None}]

HasSession == session # None

HasClients == HasSession /\ (session.readers # {} \/ session.writer # None)

At(c, pc) == conn[c].pc = pc

Goto(c, pc) == conn' = [conn EXCEPT ![c].pc = pc]

CloseGoto(x, pc) == close' = [close EXCEPT ![x].pc = pc]

TimerOff == [pc |-> "off", generation |-> 0, sid |-> None]

\* bump_close_generation: the entry is created at 0 if there is none.
Bump == generation' = generation + 1

\* Every variable has its type.
TypeOK ==
    /\ session \in Session \cup {None}
    /\ broadcaster \in Conns \cup {None}
    /\ generation \in Nat
    /\ preempted \in BOOLEAN
    /\ os_handle \in Conns \cup Deploys \cup {None}
    /\ reader \in [Conns -> ReaderState]
    /\ conn \in [Conns -> ConnState]
    /\ timer \in [Conns -> TimerState]
    /\ deploy \in [Deploys -> DeployState]
    /\ close \in [Closers -> CloseState]

Init ==
    /\ session = None
    /\ broadcaster = None
    /\ generation = 0
    /\ preempted = FALSE
    /\ os_handle = None
    /\ reader = [c \in Conns |-> "none"]
    /\ conn = [c \in Conns |-> [pc |-> "start", writer_acquired |-> FALSE, rx |-> None]]
    /\ timer = [c \in Conns |-> TimerOff]
    /\ deploy = [d \in Deploys |-> [pc |-> "start", generation |-> 0]]
    /\ close = [x \in Closers |-> [pc |-> "off", sid |-> None]]

----------------------------------------------------------------------------
(***************************************************************************)
(* open_port.                                                              *)
(***************************************************************************)

\* The session is there (and is_open): use it, then bump the generation.
OpenReuse(c) ==
    /\ At(c, "start")
    /\ HasSession
    /\ Goto(c, "reuse")
    /\ UNCHANGED <<session, broadcaster, generation, preempted, os_handle, reader,
                   timer, deploy, close>>

OpenReuseBump(c) ==
    /\ At(c, "reuse")
    /\ Bump
    /\ Goto(c, "opened")
    /\ UNCHANGED <<session, broadcaster, preempted, os_handle, reader,
                   timer, deploy, close>>

OpenMiss(c) ==
    /\ At(c, "start")
    /\ ~HasSession
    /\ Goto(c, "opening")
    /\ UNCHANGED <<session, broadcaster, generation, preempted, os_handle, reader,
                   timer, deploy, close>>

\* One of the attempts gets the device, which the OS gives to one holder at a
\* time.  The map is not consulted again between attempts.
OpenPhysical(c) ==
    /\ At(c, "opening")
    /\ os_handle = None
    /\ os_handle' = c
    /\ Goto(c, "publish")
    /\ UNCHANGED <<session, broadcaster, generation, preempted, reader,
                   timer, deploy, close>>

\* The retries are used up, or the caller's timeout drops the future: the
\* handlers return without any cleanup.
OpenFails(c) ==
    /\ At(c, "opening")
    /\ Goto(c, "done")
    /\ UNCHANGED <<session, broadcaster, generation, preempted, os_handle, reader,
                   timer, deploy, close>>

\* broadcasters.insert, output_buffers.insert, and the reader thread.
OpenPublish(c) ==
    /\ At(c, "publish")
    /\ broadcaster' = c
    /\ reader' = [reader EXCEPT ![c] = "running"]
    /\ Goto(c, "insert")
    /\ UNCHANGED <<session, generation, preempted, os_handle, timer, deploy, close>>

\* sessions.insert.
OpenInsert(c) ==
    /\ At(c, "insert")
    /\ session' = [sid |-> c, readers |-> {}, writer |-> None]
    /\ Goto(c, "bump")
    /\ UNCHANGED <<broadcaster, generation, preempted, os_handle, reader,
                   timer, deploy, close>>

OpenBump(c) ==
    /\ At(c, "bump")
    /\ Bump
    /\ Goto(c, "opened")
    /\ UNCHANGED <<session, broadcaster, preempted, os_handle, reader,
                   timer, deploy, close>>

----------------------------------------------------------------------------
(***************************************************************************)
(* acquire_writer and attach_reader, called by the handler once the port   *)
(* is open.                                                                *)
(***************************************************************************)
\* Mutant of AcquireWriter: the handler passes the connection, not its client.
AcquireWriterAsConnection(c) ==
    /\ At(c, "opened")
    /\ KindOf[c] = "ws"
    /\ HasSession
    /\ session.writer = None
    /\ session' = [session EXCEPT !.writer = c]
    /\ conn' = [conn EXCEPT ![c] = [@ EXCEPT !.pc = "wbump", !.writer_acquired = TRUE]]
    /\ UNCHANGED <<broadcaster, generation, preempted, os_handle, reader,
                   timer, deploy, close>>

AcquireWriter(c) ==
    /\ At(c, "opened")
    /\ KindOf[c] = "ws"
    /\ HasSession
    /\ session.writer = None
    /\ session' = [session EXCEPT !.writer = ClientOf[c]]
    /\ conn' = [conn EXCEPT ![c] = [@ EXCEPT !.pc = "wbump", !.writer_acquired = TRUE]]
    /\ UNCHANGED <<broadcaster, generation, preempted, os_handle, reader,
                   timer, deploy, close>>

AcquireWriterBump(c) ==
    /\ At(c, "wbump")
    /\ Bump
    /\ Goto(c, "attach")
    /\ UNCHANGED <<session, broadcaster, preempted, os_handle, reader,
                   timer, deploy, close>>

\* pre_acquire_writer is off, or acquire_writer answered an error (there is a
\* writer already, or no session), which the handler takes for "no writer".  A
\* monitor request without conditions is over.
NoWriter(c) ==
    /\ At(c, "opened")
    /\ Goto(c, IF KindOf[c] = "bare" THEN "done" ELSE "attach")
    /\ UNCHANGED <<session, broadcaster, generation, preempted, os_handle, reader,
                   timer, deploy, close>>

\* broadcasters.get(..).subscribe().
Subscribe(c) ==
    /\ At(c, "attach")
    /\ broadcaster # None
    /\ conn' = [conn EXCEPT ![c] = [@ EXCEPT !.pc = "register", !.rx = broadcaster]]
    /\ UNCHANGED <<session, broadcaster, generation, preempted, os_handle, reader,
                   timer, deploy, close>>

\* Mutant of AttachFails: the early return of the WebSocket handler skips the
\* cleanup.
AttachFailsWithoutCleanup(c) ==
    /\ At(c, "attach")
    /\ broadcaster = None
    /\ Goto(c, "done")
    /\ UNCHANGED <<session, broadcaster, generation, preempted, os_handle, reader,
                   timer, deploy, close>>

\* No channel: the WebSocket handler cleans up, the others just return.
AttachFails(c) ==
    /\ At(c, "attach")
    /\ broadcaster = None
    /\ Goto(c, IF KindOf[c] = "ws" THEN "detach" ELSE "done")
    /\ UNCHANGED <<session, broadcaster, generation, preempted, os_handle, reader,
                   timer, deploy, close>>

\* sessions.get_mut: the receiver is returned even if the session is gone.
RegisterReader(c) ==
    /\ At(c, "register")
    /\ \/ /\ HasSession
          /\ session' = [session EXCEPT !.readers = @ \cup {ClientOf[c]}]
          /\ Goto(c, "rbump")
       \/ /\ ~HasSession
          /\ Goto(c, "attached")
          /\ UNCHANGED session
    /\ UNCHANGED <<broadcaster, generation, preempted, os_handle, reader,
                   timer, deploy, close>>

RegisterBump(c) ==
    /\ At(c, "rbump")
    /\ Bump
    /\ Goto(c, "attached")
    /\ UNCHANGED <<session, broadcaster, preempted, os_handle, reader,
                   timer, deploy, close>>

----------------------------------------------------------------------------
(***************************************************************************)
(* The end of a connection: cleanup_ws_serial_session.                     *)
(***************************************************************************)

\* The client detaches or its socket fails; a monitor's halt condition is met or
\* its time is up.  The handler goes on to its cleanup.
ConnEnds(c) ==
    /\ At(c, "attached")
    /\ conn' = [conn EXCEPT ![c] = [@ EXCEPT !.pc = "detach", !.rx = None]]
    /\ UNCHANGED <<session, broadcaster, generation, preempted, os_handle, reader,
                   timer, deploy, close>>

\* All senders of the connection's channel are gone: neither the map nor the
\* reader thread has it any more.
ChannelDead(s) == broadcaster # s /\ reader[s] = "dead"

ChannelClosed(c) ==
    /\ At(c, "attached")
    /\ ChannelDead(conn[c].rx)
    /\ conn' = [conn EXCEPT ![c] = [@ EXCEPT !.pc = "detach", !.rx = None]]
    /\ UNCHANGED <<session, broadcaster, generation, preempted, os_handle, reader,
                   timer, deploy, close>>

\* The client of a monitor request goes away while the handler awaits
\* run_monitor_loop.  Its future is dropped there, without a drop guard: the
\* receiver goes, and nothing after the await is run.  A WebSocket is served by
\* a task of its own, which its client cannot drop.
HandlerDropped(c) ==
    /\ At(c, "attached")
    /\ KindOf[c] \in {"monitor", "post_deploy"}
    /\ conn' = [conn EXCEPT ![c] = [@ EXCEPT !.pc = "dropped", !.rx = None]]
    /\ UNCHANGED <<session, broadcaster, generation, preempted, os_handle, reader,
                   timer, deploy, close>>

DetachReader(c) ==
    /\ At(c, "detach")
    /\ session' = IF HasSession
                  THEN [session EXCEPT !.readers = @ \ {ClientOf[c]}]
                  ELSE None
    /\ Goto(c, CASE KindOf[c] = "post_deploy" -> "done"
                 [] KindOf[c] = "monitor" -> "idlecheck"
                 [] OTHER -> "release")
    /\ UNCHANGED <<broadcaster, generation, preempted, os_handle, reader,
                   timer, deploy, close>>

ReleaseWriter(c) ==
    /\ At(c, "release")
    /\ session' = IF HasSession /\ conn[c].writer_acquired /\ session.writer = ClientOf[c]
                  THEN [session EXCEPT !.writer = None]
                  ELSE session
    /\ conn' = [conn EXCEPT ![c] = [@ EXCEPT !.pc = "idlecheck", !.writer_acquired = FALSE]]
    /\ UNCHANGED <<broadcaster, generation, preempted, os_handle, reader,
                   timer, deploy, close>>

IdleCheck(c) ==
    /\ At(c, "idlecheck")
    /\ Goto(c, IF HasClients THEN "done" ELSE "grace")
    /\ UNCHANGED <<session, broadcaster, generation, preempted, os_handle, reader,
                   timer, deploy, close>>

\* close_port_after_grace_if_idle.
GraceCheck(c) ==
    /\ At(c, "grace")
    /\ Goto(c, IF HasClients \/ ~HasSession THEN "done" ELSE "arm")
    /\ UNCHANGED <<session, broadcaster, generation, preempted, os_handle, reader,
                   timer, deploy, close>>

ArmTimer(c) ==
    /\ At(c, "arm")
    /\ Bump
    /\ timer' = [timer EXCEPT ![c] =
         [pc |-> "armed", generation |-> generation + 1,
          sid |-> IF HasSession THEN session.sid ELSE None]]
    /\ Goto(c, "done")
    /\ UNCHANGED <<session, broadcaster, preempted, os_handle, reader, deploy, close>>

\* The grace period is over: the generation must be the one of ArmTimer ...
TimerFires(c) ==
    /\ timer[c].pc = "armed"
    /\ timer' = [timer EXCEPT ![c] =
         IF generation = timer[c].generation
         THEN [pc |-> "check", generation |-> 0, sid |-> timer[c].sid]
         ELSE TimerOff]
    /\ UNCHANGED <<session, broadcaster, generation, preempted, os_handle, reader,
                   conn, deploy, close>>

\* ... and the port without clients, then it is closed.
TimerChecksClients(c) ==
    /\ timer[c].pc = "check"
    /\ \/ /\ HasClients
          /\ timer' = [timer EXCEPT ![c] = TimerOff]
          /\ UNCHANGED close
       \/ /\ ~HasClients
          /\ timer' = [timer EXCEPT ![c].pc = "closing"]
          /\ CloseGoto(c, "bump")
    /\ UNCHANGED <<session, broadcaster, generation, preempted, os_handle, reader,
                   conn, deploy>>

----------------------------------------------------------------------------
(***************************************************************************)
(* close_port, on behalf of the closer x.                                  *)
(***************************************************************************)
CloseBump(x) ==
    /\ close[x].pc = "bump"
    /\ Bump
    /\ CloseGoto(x, "remove")
    /\ UNCHANGED <<session, broadcaster, preempted, os_handle, reader,
                   conn, timer, deploy>>

\* Mutant of CloseRemove: the session is taken out of the map and its handle
\* neither joined nor dropped.
CloseRemoveForgetsHandle(x) ==
    /\ close[x].pc = "remove"
    /\ session' = None
    /\ CloseGoto(x, "channel")
    /\ UNCHANGED <<broadcaster, generation, preempted, os_handle, reader,
                   conn, timer, deploy>>

\* sessions.remove, and the stop flag of the session that was there.
CloseRemove(x) ==
    /\ close[x].pc = "remove"
    /\ \/ /\ HasSession
          /\ close' = [close EXCEPT ![x] = [pc |-> "join", sid |-> session.sid]]
          /\ reader' = [reader EXCEPT ![session.sid] =
                          IF @ = "running" THEN "stopping" ELSE @]
          /\ session' = None
       \/ /\ ~HasSession
          /\ CloseGoto(x, "channel")
          /\ UNCHANGED <<session, reader>>
    /\ UNCHANGED <<broadcaster, generation, preempted, os_handle, conn, timer, deploy>>

\* The reader has exited: dropping the session's handle closes the device.
CloseJoin(x) ==
    /\ close[x].pc = "join"
    /\ reader[close[x].sid] = "dead"
    /\ os_handle' = None
    /\ CloseGoto(x, "channel")
    /\ UNCHANGED <<session, broadcaster, generation, preempted, reader,
                   conn, timer, deploy>>

\* It has not within 2 s: its JoinHandle is leaked and the close goes on; the
\* thread still shares the device handle.
CloseJoinTimeout(x) ==
    /\ close[x].pc = "join"
    /\ reader[close[x].sid] = "stopping"
    /\ reader' = [reader EXCEPT ![close[x].sid] = "leaked"]
    /\ CloseGoto(x, "channel")
    /\ UNCHANGED <<session, broadcaster, generation, preempted, os_handle,
                   conn, timer, deploy>>

\* Mutant of CloseChannel: the channel stays in the map.
CloseKeepsChannel(x) ==
    /\ close[x].pc = "channel"
    /\ CloseGoto(x, "generation")
    /\ UNCHANGED <<session, broadcaster, generation, preempted, os_handle, reader,
                   conn, timer, deploy>>

\* broadcasters.remove and output_buffers.remove, whoever put them there.
CloseChannel(x) ==
    /\ close[x].pc = "channel"
    /\ broadcaster' = None
    /\ CloseGoto(x, "generation")
    /\ UNCHANGED <<session, generation, preempted, os_handle, reader,
                   conn, timer, deploy>>

\* close_generations.remove; the caller continues.
CloseGeneration(x) ==
    /\ close[x].pc = "generation"
    /\ generation' = 0
    /\ close' = [close EXCEPT ![x] = [pc |-> "off", sid |-> None]]
    /\ \/ /\ x \in Deploys
          /\ deploy' = [deploy EXCEPT ![x].pc = "flash"]
          /\ UNCHANGED timer
       \/ /\ x \in Conns
          /\ timer' = [timer EXCEPT ![x] = TimerOff]
          /\ UNCHANGED deploy
    /\ UNCHANGED <<session, broadcaster, preempted, os_handle, reader, conn>>

----------------------------------------------------------------------------
(***************************************************************************)
(* The background reader.                                                  *)
(***************************************************************************)
ReaderStops(s) ==
    /\ reader[s] = "stopping"
    /\ reader' = [reader EXCEPT ![s] = "dead"]
    /\ UNCHANGED <<session, broadcaster, generation, preempted, os_handle,
                   conn, timer, deploy, close>>

\* A read error (the device is unplugged) ends the thread; the session stays.
ReaderFails(s) ==
    /\ reader[s] = "running"
    /\ reader' = [reader EXCEPT ![s] = "dead"]
    /\ UNCHANGED <<session, broadcaster, generation, preempted, os_handle,
                   conn, timer, deploy, close>>

\* A leaked reader comes out of its read at last: the last handle is dropped.
LeakedReaderStops(s) ==
    /\ reader[s] = "leaked"
    /\ reader' = [reader EXCEPT ![s] = "dead"]
    /\ os_handle' = None
    /\ UNCHANGED <<session, broadcaster, generation, preempted,
                   conn, timer, deploy, close>>

----------------------------------------------------------------------------
(***************************************************************************)
(* A deploy: preempt_for_deploy, the flash tool, clear_preemption.         *)
(***************************************************************************)
\* The generation is read, then the tracker gets its entry, which no operation
\* on the port consults: one step.
PreemptReadGeneration(d) ==
    /\ deploy[d].pc = "start"
    /\ preempted' = TRUE
    /\ deploy' = [deploy EXCEPT ![d] = [pc |-> "guard", generation |-> generation]]
    /\ UNCHANGED <<session, broadcaster, generation, os_handle, reader,
                   conn, timer, close>>

\* close_port_if_generation: a generation that moved on means no close, and the
\* deploy does not look at the answer.
PreemptGuard(d) ==
    /\ deploy[d].pc = "guard"
    /\ IF generation = deploy[d].generation
       THEN /\ deploy' = [deploy EXCEPT ![d] = [pc |-> "closing", generation |-> 0]]
            /\ CloseGoto(d, "bump")
       ELSE /\ deploy' = [deploy EXCEPT ![d] = [pc |-> "flash", generation |-> 0]]
            /\ UNCHANGED close
    /\ UNCHANGED <<session, broadcaster, generation, preempted, os_handle, reader,
                   conn, timer>>

\* The tool gets the device, or is refused and the deploy fails; either way the
\* deploy ends with clear_preemption.
FlashStart(d) ==
    /\ deploy[d].pc = "flash"
    /\ os_handle = None
    /\ os_handle' = d
    /\ deploy' = [deploy EXCEPT ![d].pc = "flashing"]
    /\ UNCHANGED <<session, broadcaster, generation, preempted, reader,
                   conn, timer, close>>

FlashRefused(d) ==
    /\ deploy[d].pc = "flash"
    /\ os_handle # None
    /\ preempted' = FALSE
    /\ deploy' = [deploy EXCEPT ![d].pc = "done"]
    /\ UNCHANGED <<session, broadcaster, generation, os_handle, reader,
                   conn, timer, close>>

FlashEnd(d) ==
    /\ deploy[d].pc = "flashing"
    /\ os_handle' = None
    /\ preempted' = FALSE
    /\ deploy' = [deploy EXCEPT ![d].pc = "done"]
    /\ UNCHANGED <<session, broadcaster, generation, reader,
                   conn, timer, close>>

----------------------------------------------------------------------------
OpenRuns(c) ==
    \/ OpenReuseBump(c) \/ OpenPhysical(c) \/ OpenFails(c)
    \/ OpenPublish(c) \/ OpenInsert(c) \/ OpenBump(c)

Open(c) == OpenReuse(c) \/ OpenMiss(c) \/ OpenRuns(c)

Attach(c) ==
    \/ AcquireWriter(c) \/ AcquireWriterBump(c) \/ NoWriter(c)
    \/ Subscribe(c) \/ AttachFails(c) \/ RegisterReader(c) \/ RegisterBump(c)

Cleanup(c) ==
    \/ DetachReader(c) \/ ReleaseWriter(c) \/ IdleCheck(c) \/ GraceCheck(c) \/ ArmTimer(c)

Timer(c) == TimerFires(c) \/ TimerChecksClients(c)

Close(x) ==
    \/ CloseBump(x) \/ CloseRemove(x) \/ CloseJoin(x) \/ CloseJoinTimeout(x)
    \/ CloseChannel(x) \/ CloseGeneration(x)

DeployRuns(d) == PreemptGuard(d) \/ FlashStart(d) \/ FlashRefused(d) \/ FlashEnd(d)

Reader(s) == ReaderStops(s) \/ ReaderFails(s) \/ LeakedReaderStops(s)

Next ==
    \/ \E c \in Conns :
         \/ Open(c) \/ Attach(c) \/ ConnEnds(c) \/ ChannelClosed(c) \/ HandlerDropped(c)
         \/ Cleanup(c)
         \/ Timer(c) \/ Reader(c)
    \/ \E x \in Closers : Close(x)
    \/ \E d \in Deploys : PreemptReadGeneration(d) \/ DeployRuns(d)

Spec == Init /\ [][Next]_vars

\* A handler, timer, close or deploy that has begun runs on, and a reader that
\* was told to stop comes out of its 100 ms read, unless the driver is wedged
\* (CloseJoinTimeout), which nothing repairs.  Nothing obliges a client to
\* connect or to leave, a deploy to begin, or a device to fail.
Fairness ==
    /\ \A c \in Conns :
         /\ WF_vars(OpenRuns(c))
         /\ WF_vars(Attach(c))
         /\ WF_vars(ChannelClosed(c))
         /\ WF_vars(Cleanup(c))
         /\ WF_vars(Timer(c))
         /\ WF_vars(ReaderStops(c))
    /\ \A x \in Closers : WF_vars(Close(x))
    /\ \A d \in Deploys : WF_vars(DeployRuns(d))

FairSpec == Spec /\ Fairness

----------------------------------------------------------------------------
(***************************************************************************)
(* Properties.                                                             *)
(***************************************************************************)

\* Who answers for the device handle that session s opened: the open_port that
\* is about to file it, the session in the map, the close_port that took the
\* session out, or the reader thread such a close gave up on.
Opening(s) == conn[s].pc \in {"publish", "insert"}

Filed(s) == HasSession /\ session.sid = s

ClosedBy(x, s) == close[x].pc = "join" /\ close[x].sid = s

Leaked(s) == reader[s] = "leaked"

\* The device is never held by a session nobody can close any more: opens that
\* race each other, an idle close and a deploy never overwrite a session or
\* drop it from the map without closing its handle.
HandleAccounted ==
    \A s \in Conns : os_handle = s =>
        Opening(s) \/ Filed(s) \/ Leaked(s) \/ \E x \in Closers : ClosedBy(x, s)

\* The handler of c has yet to give back its write access, or its place among
\* the readers.
OwesWriter(c) ==
    /\ conn[c].writer_acquired
    /\ conn[c].pc \in {"wbump", "attach", "register", "rbump", "attached", "detach", "release"}

OwesReader(c) == conn[c].pc \in {"rbump", "attached", "detach"}

\* The future of c's monitor was dropped while it was attached: nobody is left
\* to call detach_reader for its request id.
Abandoned(c) == KindOf[c] # "ws" /\ conn[c].pc = "dropped"

Counted(c) == OwesReader(c) \/ Abandoned(c)

\* Every client a session counts has a handler that has yet to clean up, unless
\* it is the reader of a monitor request whose client went away.  The write
\* access of a WebSocket never dangles, and neither does its place among the
\* readers: open_port's state "MUST be torn down on every exit path", through
\* failed attaches, preempting deploys and idle closes that race them.  What an
\* abandoned monitor leaves behind is all that can keep has_clients true.
NoDanglingClients ==
    HasSession =>
        /\ session.writer # None =>
             \E c \in Conns : ClientOf[c] = session.writer /\ OwesWriter(c)
        /\ \A r \in session.readers : \E c \in Conns : ClientOf[c] = r /\ Counted(c)

\* A connection attached to a session that is closed under it, by a deploy or
\* by an idle close that raced its attach, gets to know: its channel closes and
\* its handler ends, unless the session's reader is wedged in the driver.
ClosedPortReleasesReaders ==
    \A c, s \in Conns :
        At(c, "attached") /\ conn[c].rx = s /\ ~Opening(s) /\ ~Filed(s)
            ~> ~At(c, "attached") \/ Leaked(s)
=============================================================================
