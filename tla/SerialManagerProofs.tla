------------------------ MODULE SerialManagerProofs ------------------------
(***************************************************************************)
(* Proofs about one serial port, for any set of connections, client ids    *)
(* and deploys, and any mix of handlers.                                   *)
(***************************************************************************)
EXTENDS SerialManager, TLAPS

LEMMA Constants ==
    /\ None \notin Conns
    /\ None \notin Deploys
    /\ None \notin Clients
    /\ None \notin Session
    /\ Conns \cap Deploys = {}
    /\ \A c \in Conns : ClientOf[c] \in Clients
    /\ TimerOff \in TimerState
  BY ConnsAssumption DEF Session, TimerOff, TimerState

LEMMA OpenType == ASSUME TypeOK, NEW c \in Conns, Open(c) PROVE TypeOK'
<1> USE Constants DEF TypeOK, At, Goto, Bump
<1>1. CASE OpenReuse(c)
  <2>1. conn' \in [Conns -> ConnState]
    BY <1>1 DEF OpenReuse, ConnState, ConnPC
  <2> QED BY <1>1, <2>1 DEF OpenReuse
<1>2. CASE OpenMiss(c)
  <2>1. conn' \in [Conns -> ConnState]
    BY <1>2 DEF OpenMiss, ConnState, ConnPC
  <2> QED BY <1>2, <2>1 DEF OpenMiss
<1>3. CASE OpenReuseBump(c) \/ OpenBump(c)
  <2>1. conn' \in [Conns -> ConnState]
    BY <1>3 DEF OpenReuseBump, OpenBump, ConnState, ConnPC
  <2> QED BY <1>3, <2>1 DEF OpenReuseBump, OpenBump
<1>4. CASE OpenPhysical(c)
  <2>1. conn' \in [Conns -> ConnState]
    BY <1>4 DEF OpenPhysical, ConnState, ConnPC
  <2> QED BY <1>4, <2>1 DEF OpenPhysical
<1>5. CASE OpenFails(c)
  <2>1. conn' \in [Conns -> ConnState]
    BY <1>5 DEF OpenFails, ConnState, ConnPC
  <2> QED BY <1>5, <2>1 DEF OpenFails
<1>6. CASE OpenPublish(c)
  <2>1. conn' \in [Conns -> ConnState]
    BY <1>6 DEF OpenPublish, ConnState, ConnPC
  <2>2. reader' \in [Conns -> ReaderState]
    BY <1>6 DEF OpenPublish, ReaderState
  <2> QED BY <1>6, <2>1, <2>2 DEF OpenPublish
<1>7. CASE OpenInsert(c)
  <2>1. conn' \in [Conns -> ConnState]
    BY <1>7 DEF OpenInsert, ConnState, ConnPC
  <2>2. [sid |-> c, readers |-> {}, writer |-> None] \in Session
    BY DEF Session
  <2> QED BY <1>7, <2>1, <2>2 DEF OpenInsert
<1> QED BY <1>1, <1>2, <1>3, <1>4, <1>5, <1>6, <1>7 DEF Open, OpenRuns

LEMMA AttachType == ASSUME TypeOK, NEW c \in Conns, Attach(c) PROVE TypeOK'
<1> USE Constants DEF TypeOK, At, Goto, Bump
<1>1. CASE AcquireWriter(c)
  <2>1. [session EXCEPT !.writer = ClientOf[c]] \in Session
    BY <1>1 DEF AcquireWriter, HasSession, Session
  <2>2. [conn[c] EXCEPT !.pc = "wbump", !.writer_acquired = TRUE] \in ConnState
    BY DEF ConnState, ConnPC
  <2> QED BY <1>1, <2>1, <2>2 DEF AcquireWriter
<1>2. CASE AcquireWriterBump(c)
  <2>1. conn' \in [Conns -> ConnState]
    BY <1>2 DEF AcquireWriterBump, ConnState, ConnPC
  <2> QED BY <1>2, <2>1 DEF AcquireWriterBump
<1>3. CASE NoWriter(c)
  <2>1. conn' \in [Conns -> ConnState]
    BY <1>3 DEF NoWriter, ConnState, ConnPC
  <2> QED BY <1>3, <2>1 DEF NoWriter
<1>4. CASE Subscribe(c)
  <2>1. [conn[c] EXCEPT !.pc = "register", !.rx = broadcaster] \in ConnState
    BY DEF ConnState, ConnPC
  <2> QED BY <1>4, <2>1 DEF Subscribe
<1>5. CASE AttachFails(c)
  <2>1. conn' \in [Conns -> ConnState]
    BY <1>5 DEF AttachFails, ConnState, ConnPC
  <2> QED BY <1>5, <2>1 DEF AttachFails
<1>6. CASE RegisterReader(c)
  <2>1. conn' \in [Conns -> ConnState]
    BY <1>6 DEF RegisterReader, ConnState, ConnPC
  <2>2. HasSession => [session EXCEPT !.readers = @ \cup {ClientOf[c]}] \in Session
    BY DEF HasSession, Session
  <2> QED BY <1>6, <2>1, <2>2 DEF RegisterReader
<1>7. CASE RegisterBump(c)
  <2>1. conn' \in [Conns -> ConnState]
    BY <1>7 DEF RegisterBump, ConnState, ConnPC
  <2> QED BY <1>7, <2>1 DEF RegisterBump
<1> QED BY <1>1, <1>2, <1>3, <1>4, <1>5, <1>6, <1>7 DEF Attach

LEMMA CleanupType ==
    ASSUME TypeOK, NEW c \in Conns,
           ConnEnds(c) \/ ChannelClosed(c) \/ HandlerDropped(c) \/ Cleanup(c)
    PROVE  TypeOK'
<1> USE Constants DEF TypeOK, At, Goto, Bump
<1>1. CASE ConnEnds(c) \/ ChannelClosed(c)
  <2>1. [conn[c] EXCEPT !.pc = "detach", !.rx = None] \in ConnState
    BY DEF ConnState, ConnPC
  <2> QED BY <1>1, <2>1 DEF ConnEnds, ChannelClosed
<1>1a. CASE HandlerDropped(c)
  <2>1. [conn[c] EXCEPT !.pc = "dropped", !.rx = None] \in ConnState
    BY DEF ConnState, ConnPC
  <2> QED BY <1>1a, <2>1 DEF HandlerDropped
<1>2. CASE DetachReader(c)
  <2>1. conn' \in [Conns -> ConnState]
    BY <1>2 DEF DetachReader, ConnState, ConnPC
  <2>2. HasSession => [session EXCEPT !.readers = @ \ {ClientOf[c]}] \in Session
    BY DEF HasSession, Session
  <2>3. session' \in Session \cup {None}
    BY <1>2, <2>2 DEF DetachReader
  <2> QED BY <1>2, <2>1, <2>3 DEF DetachReader
<1>3. CASE ReleaseWriter(c)
  <2>1. HasSession => [session EXCEPT !.writer = None] \in Session
    BY DEF HasSession, Session
  <2>2. [conn[c] EXCEPT !.pc = "idlecheck", !.writer_acquired = FALSE] \in ConnState
    BY DEF ConnState, ConnPC
  <2>3. session' \in Session \cup {None}
    BY <1>3, <2>1 DEF ReleaseWriter
  <2> QED BY <1>3, <2>2, <2>3 DEF ReleaseWriter
<1>4. CASE IdleCheck(c)
  <2>1. conn' \in [Conns -> ConnState]
    BY <1>4 DEF IdleCheck, ConnState, ConnPC
  <2> QED BY <1>4, <2>1 DEF IdleCheck
<1>5. CASE GraceCheck(c)
  <2>1. conn' \in [Conns -> ConnState]
    BY <1>5 DEF GraceCheck, ConnState, ConnPC
  <2> QED BY <1>5, <2>1 DEF GraceCheck
<1>6. CASE ArmTimer(c)
  <2>1. conn' \in [Conns -> ConnState]
    BY <1>6 DEF ArmTimer, ConnState, ConnPC
  <2>2. HasSession => session.sid \in Conns
    BY DEF HasSession, Session
  <2>3. [pc |-> "armed", generation |-> generation + 1,
         sid |-> IF HasSession THEN session.sid ELSE None] \in TimerState
    BY <2>2 DEF TimerState
  <2> QED BY <1>6, <2>1, <2>3 DEF ArmTimer
<1> QED BY <1>1, <1>1a, <1>2, <1>3, <1>4, <1>5, <1>6 DEF Cleanup

LEMMA TimerType == ASSUME TypeOK, NEW c \in Conns, Timer(c) PROVE TypeOK'
<1> USE Constants DEF TypeOK, CloseGoto
<1>1. CASE TimerFires(c)
  <2>1. [pc |-> "check", generation |-> 0, sid |-> timer[c].sid] \in TimerState
    BY DEF TimerState
  <2> QED BY <1>1, <2>1 DEF TimerFires
<1>2. CASE TimerChecksClients(c)
  <2>1. [timer EXCEPT ![c].pc = "closing"] \in [Conns -> TimerState]
    BY DEF TimerState
  <2>2. close' \in [Closers -> CloseState]
    BY <1>2 DEF TimerChecksClients, CloseState
  <2> QED BY <1>2, <2>1, <2>2 DEF TimerChecksClients
<1> QED BY <1>1, <1>2 DEF Timer

LEMMA CloseType == ASSUME TypeOK, NEW x \in Closers, Close(x) PROVE TypeOK'
<1> USE Constants DEF TypeOK, CloseGoto, Bump
<1>1. CASE CloseBump(x)
  <2>1. close' \in [Closers -> CloseState]
    BY <1>1 DEF CloseBump, CloseState
  <2> QED BY <1>1, <2>1 DEF CloseBump
<1>2. CASE CloseRemove(x)
  <2>1. HasSession => session.sid \in Conns
    BY DEF HasSession, Session
  <2>2. HasSession => [pc |-> "join", sid |-> session.sid] \in CloseState
    BY <2>1 DEF CloseState
  <2>3. reader' \in [Conns -> ReaderState]
    BY <1>2 DEF CloseRemove, ReaderState
  <2>4. close' \in [Closers -> CloseState]
    BY <1>2, <2>2 DEF CloseRemove, CloseState
  <2> QED BY <1>2, <2>3, <2>4 DEF CloseRemove
<1>3. CASE CloseJoin(x)
  <2>1. close' \in [Closers -> CloseState]
    BY <1>3 DEF CloseJoin, CloseState
  <2> QED BY <1>3, <2>1 DEF CloseJoin
<1>4. CASE CloseJoinTimeout(x)
  <2>1. reader' \in [Conns -> ReaderState]
    BY <1>4 DEF CloseJoinTimeout, ReaderState
  <2>2. close' \in [Closers -> CloseState]
    BY <1>4 DEF CloseJoinTimeout, CloseState
  <2> QED BY <1>4, <2>1, <2>2 DEF CloseJoinTimeout
<1>5. CASE CloseChannel(x)
  <2>1. close' \in [Closers -> CloseState]
    BY <1>5 DEF CloseChannel, CloseState
  <2> QED BY <1>5, <2>1 DEF CloseChannel
<1>6. CASE CloseGeneration(x)
  <2>1. [pc |-> "off", sid |-> None] \in CloseState
    BY DEF CloseState
  <2>2. close' \in [Closers -> CloseState]
    BY <1>6, <2>1 DEF CloseGeneration
  <2>3. deploy' \in [Deploys -> DeployState]
    BY <1>6 DEF CloseGeneration, DeployState
  <2>4. timer' \in [Conns -> TimerState]
    BY <1>6 DEF CloseGeneration
  <2> QED BY <1>6, <2>2, <2>3, <2>4 DEF CloseGeneration
<1> QED BY <1>1, <1>2, <1>3, <1>4, <1>5, <1>6 DEF Close

LEMMA DeployType ==
    ASSUME TypeOK, NEW d \in Deploys, PreemptReadGeneration(d) \/ DeployRuns(d)
    PROVE  TypeOK'
<1> USE Constants DEF TypeOK, CloseGoto
<1>1. CASE PreemptReadGeneration(d)
  <2>1. [pc |-> "guard", generation |-> generation] \in DeployState
    BY DEF DeployState
  <2> QED BY <1>1, <2>1 DEF PreemptReadGeneration
<1>2. CASE PreemptGuard(d)
  <2>1. /\ [pc |-> "closing", generation |-> 0] \in DeployState
        /\ [pc |-> "flash", generation |-> 0] \in DeployState
    BY DEF DeployState
  <2>2. close' \in [Closers -> CloseState]
    BY <1>2 DEF PreemptGuard, CloseState
  <2> QED BY <1>2, <2>1, <2>2 DEF PreemptGuard
<1>3. CASE FlashStart(d) \/ FlashRefused(d) \/ FlashEnd(d)
  <2>1. deploy' \in [Deploys -> DeployState]
    BY <1>3 DEF FlashStart, FlashRefused, FlashEnd, DeployState
  <2> QED BY <1>3, <2>1 DEF FlashStart, FlashRefused, FlashEnd
<1> QED BY <1>1, <1>2, <1>3 DEF DeployRuns

\* Every map entry, handle and handler keeps its type, whatever the order of
\* the steps of handlers, timers, closes, readers and deploys.
THEOREM TypeCorrect == Spec => []TypeOK
<1>1. Init => TypeOK
  <2>1. /\ [pc |-> "start", writer_acquired |-> FALSE, rx |-> None] \in ConnState
        /\ [pc |-> "start", generation |-> 0] \in DeployState
        /\ [pc |-> "off", sid |-> None] \in CloseState
        /\ "none" \in ReaderState
    BY DEF ConnState, ConnPC, DeployState, CloseState, ReaderState
  <2>2. Init => /\ reader \in [Conns -> ReaderState]
                /\ conn \in [Conns -> ConnState]
                /\ timer \in [Conns -> TimerState]
    BY <2>1, Constants DEF Init
  <2>3. Init => /\ deploy \in [Deploys -> DeployState]
                /\ close \in [Closers -> CloseState]
    BY <2>1 DEF Init
  <2>4. Init => /\ session = None /\ broadcaster = None /\ os_handle = None
                /\ preempted = FALSE
    BY DEF Init
  <2>5. Init => generation = 0
    BY DEF Init
  <2>6. Init => generation \in Nat
    BY <2>5
  <2> QED BY <2>2, <2>3, <2>4, <2>6 DEF TypeOK
<1>2. TypeOK /\ [Next]_vars => TypeOK'
  <2> SUFFICES ASSUME TypeOK, [Next]_vars PROVE TypeOK'
    OBVIOUS
  <2>1. ASSUME NEW c \in Conns, Reader(c) PROVE TypeOK'
    BY <2>1, Constants DEF TypeOK, Reader, ReaderStops, ReaderFails, LeakedReaderStops, ReaderState
  <2>2. CASE UNCHANGED vars
    BY <2>2 DEF vars, TypeOK
  <2> QED BY <2>1, <2>2, OpenType, AttachType, CleanupType, TimerType, CloseType, DeployType
          DEF Next
<1> QED BY <1>1, <1>2, PTL DEF Spec
----------------------------------------------------------------------------
(***************************************************************************)
(* close_port runs only for the timer or the deploy that waits for it, and *)
(* a timer only once its connection's handler is over.                     *)
(***************************************************************************)
ClosersBusy ==
    /\ \A c \in Conns : timer[c].pc # "off" => conn[c].pc = "done"
    /\ \A c \in Conns : close[c].pc # "off" => timer[c].pc = "closing"
    /\ \A d \in Deploys : close[d].pc # "off" => deploy[d].pc = "closing"

\* The handler of a connection that is not over does something else than
\* leaving a timer.
LEMMA HandlerKeepsBusy ==
    ASSUME TypeOK, ClosersBusy, NEW c \in Conns, conn[c].pc # "done",
           \A e \in Conns \ {c} : conn'[e] = conn[e],
           UNCHANGED <<timer, deploy, close>>
    PROVE  ClosersBusy'
  BY DEF ClosersBusy

LEMMA BusyStep == ASSUME TypeOK, ClosersBusy, [Next]_vars PROVE ClosersBusy'
<1> USE Constants DEF At, Goto, CloseGoto
<1>1. ASSUME NEW c \in Conns, Open(c) PROVE ClosersBusy'
  BY <1>1, HandlerKeepsBusy DEF Open, OpenRuns, OpenReuse, OpenMiss, OpenReuseBump, OpenPhysical,
     OpenFails, OpenPublish, OpenInsert, OpenBump, TypeOK, ConnState
<1>2. ASSUME NEW c \in Conns, Attach(c) PROVE ClosersBusy'
  BY <1>2, HandlerKeepsBusy DEF Attach, AcquireWriter, AcquireWriterBump, NoWriter, Subscribe,
     AttachFails, RegisterReader, RegisterBump, TypeOK, ConnState
<1>3. ASSUME NEW c \in Conns, ConnEnds(c) \/ ChannelClosed(c) \/ HandlerDropped(c) \/ DetachReader(c)
             \/ ReleaseWriter(c) \/ IdleCheck(c) \/ GraceCheck(c)
      PROVE  ClosersBusy'
  BY <1>3, HandlerKeepsBusy DEF ConnEnds, ChannelClosed, HandlerDropped, DetachReader, ReleaseWriter, IdleCheck,
     GraceCheck, TypeOK, ConnState
<1>4. ASSUME NEW c \in Conns, ArmTimer(c) PROVE ClosersBusy'
  <2>1. timer[c].pc = "off" /\ close[c].pc = "off"
    BY <1>4 DEF ArmTimer, ClosersBusy
  <2> QED BY <1>4, <2>1 DEF ArmTimer, ClosersBusy, TypeOK, ConnState
<1>5. ASSUME NEW c \in Conns, TimerFires(c) PROVE ClosersBusy'
  BY <1>5 DEF TimerFires, ClosersBusy, TypeOK, TimerOff
<1>6. ASSUME NEW c \in Conns, TimerChecksClients(c) PROVE ClosersBusy'
  <2>1. c \in Closers /\ close[c].pc = "off" /\ conn[c].pc = "done" /\ c \notin Deploys
    BY <1>6 DEF TimerChecksClients, ClosersBusy, Closers
  <2>2. \A y \in Closers \ {c} : close'[y] = close[y]
    BY <1>6, <2>1 DEF TimerChecksClients, TypeOK
  <2>3. \A e \in Conns \ {c} : timer'[e] = timer[e]
    BY <1>6 DEF TimerChecksClients, TypeOK
  <2>4. close'[c].pc # "off" => timer'[c].pc = "closing"
    BY <1>6, <2>1 DEF TimerChecksClients, TypeOK, TimerState, CloseState
  <2>5. UNCHANGED <<conn, deploy>>
    BY <1>6 DEF TimerChecksClients
  <2> QED BY <2>1, <2>2, <2>3, <2>4, <2>5 DEF ClosersBusy, Closers
<1>7. ASSUME NEW x \in Closers, Close(x) PROVE ClosersBusy'
  <2>1. close[x].pc # "off"
    BY <1>7 DEF Close, CloseBump, CloseRemove, CloseJoin, CloseJoinTimeout, CloseChannel,
       CloseGeneration
  <2>2. CASE CloseGeneration(x)
    BY <2>1, <2>2 DEF CloseGeneration, ClosersBusy, TypeOK, DeployState, TimerOff, Closers
  <2>3. CASE ~CloseGeneration(x)
    <3>1. UNCHANGED <<conn, timer, deploy>> /\ \A y \in Closers \ {x} : close'[y] = close[y]
      BY <1>7, <2>3 DEF Close, CloseBump, CloseRemove, CloseJoin, CloseJoinTimeout, CloseChannel,
         TypeOK
    <3> QED BY <2>1, <3>1 DEF ClosersBusy, Closers
  <2> QED BY <2>2, <2>3
<1>8. ASSUME NEW s \in Conns, Reader(s) PROVE ClosersBusy'
  BY <1>8 DEF Reader, ReaderStops, ReaderFails, LeakedReaderStops, ClosersBusy
<1>9. ASSUME NEW d \in Deploys, PreemptReadGeneration(d) \/ DeployRuns(d) PROVE ClosersBusy'
  <2>1. d \notin Conns /\ d \in Closers
    BY DEF Closers
  <2>2. CASE PreemptGuard(d)
    <3>1. \A y \in Closers \ {d} : close'[y] = close[y]
      BY <2>1, <2>2 DEF PreemptGuard, TypeOK
    <3>2. \A e \in Deploys \ {d} : deploy'[e] = deploy[e]
      BY <2>2 DEF PreemptGuard, TypeOK
    <3>3. close[d].pc = "off"
      BY <2>2 DEF PreemptGuard, ClosersBusy
    <3>4. close'[d].pc # "off" => deploy'[d].pc = "closing"
      BY <2>1, <2>2, <3>3 DEF PreemptGuard, TypeOK
    <3>5. UNCHANGED <<conn, timer>>
      BY <2>2 DEF PreemptGuard
    <3> QED BY <2>1, <3>1, <3>2, <3>4, <3>5 DEF ClosersBusy, Closers
  <2>3. CASE PreemptReadGeneration(d) \/ FlashStart(d) \/ FlashRefused(d) \/ FlashEnd(d)
    BY <2>1, <2>3 DEF PreemptReadGeneration, FlashStart, FlashRefused, FlashEnd, ClosersBusy,
       TypeOK, DeployState
  <2> QED BY <1>9, <2>2, <2>3 DEF DeployRuns
<1>10. CASE UNCHANGED vars
  BY <1>10 DEF vars, ClosersBusy
<1> QED BY <1>1, <1>2, <1>3, <1>4, <1>5, <1>6, <1>7, <1>8, <1>9, <1>10 DEF Next, Cleanup, Timer

----------------------------------------------------------------------------
(***************************************************************************)
(* HandleAccounted is not inductive: that a close or an open drops or      *)
(* overwrites only what it owns needs the converse (whoever answers for a  *)
(* handle means that it is open) and that one handle has one owner.        *)
(***************************************************************************)
Owned(s) == Opening(s) \/ Filed(s) \/ Leaked(s) \/ \E x \in Closers : ClosedBy(x, s)

HandleInv ==
    /\ \A s \in Conns : os_handle = s <=> Owned(s)
    /\ \A s \in Conns : Opening(s) => ~Filed(s)
    /\ \A s \in Conns : Leaked(s) => ~Opening(s) /\ ~Filed(s)
    /\ \A s \in Conns, x \in Closers :
         ClosedBy(x, s) => ~Opening(s) /\ ~Filed(s) /\ ~Leaked(s)
    /\ \A s \in Conns, x, y \in Closers : ClosedBy(x, s) /\ ClosedBy(y, s) => x = y
    /\ \A x \in Closers : close[x].pc = "join" => close[x].sid \in Conns
    /\ \A d \in Deploys : deploy[d].pc = "flashing" => os_handle = d

\* A step that changes no owner and no handle.
LEMMA SameOwners ==
    ASSUME HandleInv, os_handle' = os_handle,
           \A s \in Conns : Opening(s)' <=> Opening(s),
           \A s \in Conns : Filed(s)' <=> Filed(s),
           \A s \in Conns : Leaked(s)' <=> Leaked(s),
           \A x \in Closers, s \in Conns : ClosedBy(x, s)' <=> ClosedBy(x, s),
           \A x \in Closers : close'[x].pc = "join" =>
                close[x].pc = "join" /\ close'[x].sid = close[x].sid,
           \A d \in Deploys : deploy'[d].pc = "flashing" => deploy[d].pc = "flashing"
    PROVE  HandleInv'
  BY DEF HandleInv, Owned

\* A handler that is not in the middle of open_port goes on.
LEMMA HandlerGoesOn ==
    ASSUME TypeOK, HandleInv, NEW c \in Conns,
           ~Opening(c), \A e \in Conns \ {c} : conn'[e] = conn[e],
           conn'[c].pc \notin {"publish", "insert"},
           HasSession' <=> HasSession, HasSession => session'.sid = session.sid,
           UNCHANGED <<os_handle, reader, deploy, close>>
    PROVE  HandleInv'
<1>1. \A s \in Conns : Opening(s)' <=> Opening(s)
  BY DEF Opening
<1>2. \A s \in Conns : Filed(s)' <=> Filed(s)
  BY DEF Filed
<1>3. /\ \A s \in Conns : Leaked(s)' <=> Leaked(s)
      /\ \A x \in Closers, s \in Conns : ClosedBy(x, s)' <=> ClosedBy(x, s)
  BY DEF Leaked, ClosedBy
<1> QED BY <1>1, <1>2, <1>3, SameOwners

LEMMA OpenHandle == ASSUME TypeOK, HandleInv, NEW c \in Conns, Open(c) PROVE HandleInv'
<1> USE DEF At, Goto
<1>1. CASE OpenReuse(c)
  BY <1>1, HandlerGoesOn DEF TypeOK, ConnState, OpenReuse, Opening, HasSession
<1>2. CASE OpenMiss(c)
  BY <1>2, HandlerGoesOn DEF TypeOK, ConnState, OpenMiss, Opening, HasSession
<1>3. CASE OpenReuseBump(c)
  BY <1>3, HandlerGoesOn DEF TypeOK, ConnState, OpenReuseBump, Opening, HasSession
<1>4. CASE OpenBump(c)
  BY <1>4, HandlerGoesOn DEF TypeOK, ConnState, OpenBump, Opening, HasSession
<1>5. CASE OpenFails(c)
  BY <1>5, HandlerGoesOn DEF TypeOK, ConnState, OpenFails, Opening, HasSession
<1>6. CASE OpenPhysical(c)
  <2>1. \A s \in Conns : ~Owned(s)
    BY <1>6, Constants DEF OpenPhysical, HandleInv
  <2>2. Opening(c)' /\ \A s \in Conns \ {c} : ~Opening(s)'
    BY <1>6, <2>1 DEF OpenPhysical, Opening, Owned, TypeOK, ConnState
  <2>3. \A s \in Conns : ~Filed(s)' /\ ~Leaked(s)' /\ \A x \in Closers : ~ClosedBy(x, s)'
    BY <1>6, <2>1 DEF OpenPhysical, Owned, Filed, HasSession, Leaked, ClosedBy
  <2>4. os_handle' = c
    BY <1>6 DEF OpenPhysical
  <2>5. \A d \in Deploys : deploy[d].pc # "flashing"
    BY <1>6, Constants DEF OpenPhysical, HandleInv
  <2>6. UNCHANGED <<deploy, close>>
    BY <1>6 DEF OpenPhysical
  <2> QED BY <2>2, <2>3, <2>4, <2>5, <2>6 DEF HandleInv, Owned
<1>7. CASE OpenPublish(c)
  <2>1. \A s \in Conns : Opening(s)' <=> Opening(s)
    BY <1>7 DEF OpenPublish, Opening, TypeOK, ConnState
  <2>2. \A s \in Conns : Leaked(s)' <=> Leaked(s)
    <3>1. ~Leaked(c)
      BY <1>7 DEF OpenPublish, HandleInv, Opening
    <3> QED BY <1>7, <3>1 DEF OpenPublish, Leaked, TypeOK
  <2>3. /\ \A s \in Conns : Filed(s)' <=> Filed(s)
        /\ \A x \in Closers, s \in Conns : ClosedBy(x, s)' <=> ClosedBy(x, s)
    BY <1>7 DEF OpenPublish, Filed, HasSession, ClosedBy
  <2> QED BY <1>7, <2>1, <2>2, <2>3, SameOwners DEF OpenPublish
<1>8. CASE OpenInsert(c)
  <2>1. os_handle = c /\ Opening(c)
    BY <1>8 DEF OpenInsert, HandleInv, Owned, Opening
  <2>2. \A s \in Conns \ {c} : ~Owned(s)
    BY <2>1 DEF HandleInv
  <2>3. \A s \in Conns : ~Opening(s)'
    BY <1>8, <2>2 DEF OpenInsert, Opening, Owned, TypeOK, ConnState
  <2>4. \A s \in Conns : Filed(s)' <=> s = c
    BY <1>8, Constants DEF OpenInsert, Filed, HasSession, Session
  <2>5. \A s \in Conns : ~Leaked(s)' /\ \A x \in Closers : ~ClosedBy(x, s)'
    BY <1>8, <2>1, <2>2 DEF OpenInsert, HandleInv, Owned, Leaked, ClosedBy
  <2>6. UNCHANGED <<os_handle, deploy, close>>
    BY <1>8 DEF OpenInsert
  <2> QED BY <2>1, <2>3, <2>4, <2>5, <2>6 DEF HandleInv, Owned
<1> QED BY <1>1, <1>2, <1>3, <1>4, <1>5, <1>6, <1>7, <1>8 DEF Open, OpenRuns

LEMMA AttachHandle == ASSUME TypeOK, HandleInv, NEW c \in Conns, Attach(c) PROVE HandleInv'
<1> USE Constants DEF At, Goto
<1>1. CASE AcquireWriter(c)
  <2>1. session \in Session
    BY <1>1 DEF AcquireWriter, TypeOK, HasSession
  <2>2. session'.sid = session.sid /\ session' \in Session
    BY <1>1, <2>1 DEF AcquireWriter, Session
  <2>3. /\ conn[c].pc = "opened" /\ conn'[c].pc = "wbump"
        /\ \A e \in Conns \ {c} : conn'[e] = conn[e]
    BY <1>1 DEF AcquireWriter, TypeOK, ConnState
  <2>4. UNCHANGED <<os_handle, reader, deploy, close>>
    BY <1>1 DEF AcquireWriter
  <2> QED BY <2>1, <2>2, <2>3, <2>4, HandlerGoesOn DEF Opening, HasSession
<1>2. CASE AcquireWriterBump(c)
  BY <1>2, HandlerGoesOn DEF TypeOK, ConnState, AcquireWriterBump, Opening, HasSession
<1>3. CASE NoWriter(c)
  BY <1>3, HandlerGoesOn DEF TypeOK, ConnState, NoWriter, Opening, HasSession
<1>4. CASE Subscribe(c)
  <2>1. /\ conn[c].pc = "attach" /\ conn'[c].pc = "register"
        /\ \A e \in Conns \ {c} : conn'[e] = conn[e]
    BY <1>4 DEF Subscribe, TypeOK, ConnState
  <2>2. UNCHANGED <<os_handle, reader, deploy, close>> /\ UNCHANGED session
    BY <1>4 DEF Subscribe
  <2> QED BY <2>1, <2>2, HandlerGoesOn DEF Opening, HasSession
<1>5. CASE AttachFails(c)
  BY <1>5, HandlerGoesOn DEF TypeOK, ConnState, AttachFails, Opening, HasSession
<1>6. CASE RegisterReader(c)
  <2>1. HasSession => session' \in Session /\ session'.sid = session.sid
    BY <1>6 DEF RegisterReader, TypeOK, HasSession, Session
  <2>2. HasSession' <=> HasSession
    BY <1>6, <2>1 DEF RegisterReader, HasSession
  <2>3. /\ conn[c].pc = "register" /\ conn'[c].pc \in {"rbump", "attached"}
        /\ \A e \in Conns \ {c} : conn'[e] = conn[e]
    BY <1>6 DEF RegisterReader, TypeOK, ConnState
  <2>4. UNCHANGED <<os_handle, reader, deploy, close>>
    BY <1>6 DEF RegisterReader
  <2> QED BY <2>1, <2>2, <2>3, <2>4, HandlerGoesOn DEF Opening
<1>7. CASE RegisterBump(c)
  BY <1>7, HandlerGoesOn DEF TypeOK, ConnState, RegisterBump, Opening, HasSession
<1> QED BY <1>1, <1>2, <1>3, <1>4, <1>5, <1>6, <1>7 DEF Attach

LEMMA CleanupHandle ==
    ASSUME TypeOK, HandleInv, NEW c \in Conns,
           ConnEnds(c) \/ ChannelClosed(c) \/ HandlerDropped(c) \/ Cleanup(c)
    PROVE  HandleInv'
<1> USE Constants DEF At, Goto
<1>1. CASE ConnEnds(c) \/ ChannelClosed(c) \/ HandlerDropped(c)
  <2>1. /\ \E pc \in {"detach", "dropped"} :
             conn' = [conn EXCEPT ![c] = [@ EXCEPT !.pc = pc, !.rx = None]]
        /\ conn[c].pc = "attached"
        /\ UNCHANGED <<session, os_handle, reader, deploy, close>>
    BY <1>1 DEF ConnEnds, ChannelClosed, HandlerDropped
  <2> QED BY <2>1, HandlerGoesOn DEF TypeOK, ConnState, Opening, HasSession
<1>2. CASE DetachReader(c)
  <2>1. HasSession => session' \in Session /\ session'.sid = session.sid
    BY <1>2 DEF DetachReader, TypeOK, HasSession, Session
  <2>2. HasSession' <=> HasSession
    BY <1>2, <2>1 DEF DetachReader, HasSession
  <2>3. /\ conn[c].pc = "detach" /\ conn'[c].pc \in {"done", "idlecheck", "release"}
        /\ \A e \in Conns \ {c} : conn'[e] = conn[e]
    BY <1>2 DEF DetachReader, TypeOK, ConnState
  <2>4. UNCHANGED <<os_handle, reader, deploy, close>>
    BY <1>2 DEF DetachReader
  <2> QED BY <2>1, <2>2, <2>3, <2>4, HandlerGoesOn DEF Opening
<1>3. CASE ReleaseWriter(c)
  <2>1. HasSession => session' \in Session /\ session'.sid = session.sid
    BY <1>3 DEF ReleaseWriter, TypeOK, HasSession, Session
  <2>2. HasSession' <=> HasSession
    BY <1>3, <2>1 DEF ReleaseWriter, HasSession
  <2>3. /\ conn[c].pc = "release" /\ conn'[c].pc = "idlecheck"
        /\ \A e \in Conns \ {c} : conn'[e] = conn[e]
    BY <1>3 DEF ReleaseWriter, TypeOK, ConnState
  <2>4. UNCHANGED <<os_handle, reader, deploy, close>>
    BY <1>3 DEF ReleaseWriter
  <2> QED BY <2>1, <2>2, <2>3, <2>4, HandlerGoesOn DEF Opening
<1>4. CASE IdleCheck(c)
  BY <1>4, HandlerGoesOn DEF TypeOK, ConnState, IdleCheck, Opening, HasSession
<1>5. CASE GraceCheck(c)
  BY <1>5, HandlerGoesOn DEF TypeOK, ConnState, GraceCheck, Opening, HasSession
<1>6. CASE ArmTimer(c)
  BY <1>6, HandlerGoesOn DEF TypeOK, ConnState, ArmTimer, Opening, HasSession
<1> QED BY <1>1, <1>2, <1>3, <1>4, <1>5, <1>6 DEF Cleanup

\* A step of a timer, of close_port or of a deploy that touches no handle.
LEMMA CloserGoesOn ==
    ASSUME TypeOK, HandleInv, NEW x \in Closers,
           close[x].pc # "join", \A y \in Closers \ {x} : close'[y] = close[y],
           close'[x].pc # "join",
           \A d \in Deploys : deploy'[d].pc = "flashing" => deploy[d].pc = "flashing",
           UNCHANGED <<session, os_handle, reader, conn>>
    PROVE  HandleInv'
<1>1. /\ \A s \in Conns : Opening(s)' <=> Opening(s)
      /\ \A s \in Conns : Filed(s)' <=> Filed(s)
      /\ \A s \in Conns : Leaked(s)' <=> Leaked(s)
  BY DEF Opening, Filed, HasSession, Leaked
<1>2. \A y \in Closers, s \in Conns : ClosedBy(y, s)' <=> ClosedBy(y, s)
  BY DEF ClosedBy
<1> QED BY <1>1, <1>2, SameOwners

LEMMA TimerHandle ==
    ASSUME TypeOK, ClosersBusy, HandleInv, NEW c \in Conns, Timer(c) PROVE HandleInv'
<1> USE DEF CloseGoto
<1>1. CASE TimerFires(c)
  <2>1. UNCHANGED <<session, os_handle, reader, conn, deploy, close>>
    BY <1>1 DEF TimerFires
  <2> QED BY <2>1, SameOwners DEF Opening, Filed, HasSession, Leaked, ClosedBy
<1>2. CASE TimerChecksClients(c)
  <2>1. UNCHANGED <<session, os_handle, reader, conn, deploy>>
    BY <1>2 DEF TimerChecksClients
  <2>2. c \in Closers /\ close[c].pc = "off"
    BY <1>2 DEF TimerChecksClients, ClosersBusy, Closers
  <2>3. CASE UNCHANGED close
    BY <2>1, <2>3, SameOwners DEF Opening, Filed, HasSession, Leaked, ClosedBy
  <2>4. CASE close' = [close EXCEPT ![c].pc = "bump"]
    BY <2>1, <2>2, <2>4, CloserGoesOn DEF TypeOK, CloseState
  <2> QED BY <1>2, <2>3, <2>4 DEF TimerChecksClients
<1> QED BY <1>1, <1>2 DEF Timer

LEMMA CloseHandle ==
    ASSUME TypeOK, HandleInv, NEW x \in Closers, Close(x) PROVE HandleInv'
<1> USE DEF CloseGoto
<1>1. CASE CloseBump(x)
  BY <1>1, CloserGoesOn DEF CloseBump, TypeOK, CloseState
<1>2. CASE CloseRemove(x)
  <2>1. CASE ~HasSession
    <3>1. UNCHANGED <<session, reader, os_handle, conn, deploy>>
      BY <1>2, <2>1 DEF CloseRemove
    <3>2. close' = [close EXCEPT ![x].pc = "channel"] /\ close[x].pc = "remove"
      BY <1>2, <2>1 DEF CloseRemove
    <3> QED BY <3>1, <3>2, CloserGoesOn DEF TypeOK, CloseState
  <2>2. CASE HasSession
    <3> DEFINE s == session.sid
    <3>1. s \in Conns /\ Filed(s)
      BY <2>2 DEF TypeOK, HasSession, Session, Filed
    <3>2. os_handle = s
      BY <3>1 DEF HandleInv, Owned
    <3>3. \A e \in Conns \ {s} : ~Owned(e)
      BY <3>1, <3>2 DEF HandleInv
    <3>4. ~Opening(s) /\ ~Leaked(s) /\ \A y \in Closers : ~ClosedBy(y, s)
      BY <3>1 DEF HandleInv
    <3>5. /\ session' = None
          /\ close' = [close EXCEPT ![x] = [pc |-> "join", sid |-> s]]
          /\ reader' = [reader EXCEPT ![s] = IF @ = "running" THEN "stopping" ELSE @]
          /\ UNCHANGED <<os_handle, conn, deploy>>
      BY <1>2, <2>2 DEF CloseRemove
    <3> HIDE DEF s
    <3>6. \A e \in Conns : ~Filed(e)'
      BY <3>5 DEF Filed, HasSession
    <3>7. \A e \in Conns : ~Opening(e)'
      BY <3>3, <3>4, <3>5 DEF Opening, Owned
    <3>8. \A e \in Conns : ~Leaked(e)'
      BY <3>3, <3>4, <3>5 DEF Leaked, Owned, TypeOK
    <3>9. \A e \in Conns, y \in Closers : ClosedBy(y, e)' <=> (y = x /\ e = s)
      BY <3>1, <3>3, <3>4, <3>5 DEF ClosedBy, Owned, TypeOK
    <3>10. \A y \in Closers : close'[y].pc = "join" => close'[y].sid \in Conns
      BY <3>1, <3>5 DEF HandleInv, TypeOK
    <3> QED BY <3>1, <3>2, <3>5, <3>6, <3>7, <3>8, <3>9, <3>10 DEF HandleInv, Owned
  <2> QED BY <2>1, <2>2
<1>3. CASE CloseJoin(x)
  <2> DEFINE s == close[x].sid
  <2>1. s \in Conns /\ ClosedBy(x, s)
    BY <1>3 DEF CloseJoin, HandleInv, ClosedBy
  <2>2. os_handle = s
    BY <2>1 DEF HandleInv, Owned
  <2>3. \A e \in Conns \ {s} : ~Owned(e)
    BY <2>1, <2>2 DEF HandleInv
  <2>4. ~Opening(s) /\ ~Filed(s) /\ ~Leaked(s) /\ \A y \in Closers : ClosedBy(y, s) => y = x
    BY <2>1 DEF HandleInv
  <2>5. /\ os_handle' = None
        /\ close' = [close EXCEPT ![x].pc = "channel"]
        /\ UNCHANGED <<session, reader, conn, deploy>>
    BY <1>3 DEF CloseJoin
  <2> HIDE DEF s
  <2>6. \A e \in Conns : ~Opening(e)' /\ ~Filed(e)' /\ ~Leaked(e)'
    BY <2>3, <2>4, <2>5 DEF Opening, Filed, HasSession, Leaked, Owned
  <2>7. \A e \in Conns, y \in Closers : ~ClosedBy(y, e)'
    BY <2>3, <2>4, <2>5 DEF ClosedBy, Owned, TypeOK, CloseState
  <2>8. \A y \in Closers : close'[y].pc = "join" => close'[y].sid \in Conns
    BY <2>5 DEF HandleInv, TypeOK, CloseState
  <2>9. \A d \in Deploys : deploy'[d].pc # "flashing"
    BY <2>1, <2>2, <2>5, Constants DEF HandleInv
  <2> QED BY <2>5, <2>6, <2>7, <2>8, <2>9, Constants DEF HandleInv, Owned
<1>4. CASE CloseJoinTimeout(x)
  <2> DEFINE s == close[x].sid
  <2>1. s \in Conns /\ ClosedBy(x, s)
    BY <1>4 DEF CloseJoinTimeout, HandleInv, ClosedBy
  <2>2. os_handle = s
    BY <2>1 DEF HandleInv, Owned
  <2>3. \A e \in Conns \ {s} : ~Owned(e)
    BY <2>1, <2>2 DEF HandleInv
  <2>4. ~Opening(s) /\ ~Filed(s) /\ \A y \in Closers : ClosedBy(y, s) => y = x
    BY <2>1 DEF HandleInv
  <2>5. /\ reader' = [reader EXCEPT ![s] = "leaked"]
        /\ close' = [close EXCEPT ![x].pc = "channel"]
        /\ UNCHANGED <<session, os_handle, conn, deploy>>
    BY <1>4 DEF CloseJoinTimeout
  <2> HIDE DEF s
  <2>6. \A e \in Conns : ~Opening(e)' /\ ~Filed(e)'
    BY <2>3, <2>4, <2>5 DEF Opening, Filed, HasSession, Owned
  <2>7. \A e \in Conns : Leaked(e)' <=> e = s
    BY <2>1, <2>3, <2>5 DEF Leaked, Owned, TypeOK
  <2>8. \A e \in Conns, y \in Closers : ~ClosedBy(y, e)'
    BY <2>3, <2>4, <2>5 DEF ClosedBy, Owned, TypeOK, CloseState
  <2>9. \A y \in Closers : close'[y].pc = "join" => close'[y].sid \in Conns
    BY <2>5 DEF HandleInv, TypeOK, CloseState
  <2> QED BY <2>1, <2>2, <2>5, <2>6, <2>7, <2>8, <2>9 DEF HandleInv, Owned
<1>5. CASE CloseChannel(x)
  BY <1>5, CloserGoesOn DEF CloseChannel, TypeOK, CloseState
<1>6. CASE CloseGeneration(x)
  <2>1. \A d \in Deploys : deploy'[d].pc = "flashing" => deploy[d].pc = "flashing"
    BY <1>6 DEF CloseGeneration, TypeOK, DeployState
  <2> QED BY <1>6, <2>1, CloserGoesOn DEF CloseGeneration, TypeOK
<1> QED BY <1>1, <1>2, <1>3, <1>4, <1>5, <1>6 DEF Close

LEMMA ReaderHandle ==
    ASSUME TypeOK, HandleInv, NEW s \in Conns, Reader(s) PROVE HandleInv'
<1>1. CASE ReaderStops(s) \/ ReaderFails(s)
  <2>1. \A e \in Conns : Leaked(e)' <=> Leaked(e)
    BY <1>1 DEF ReaderStops, ReaderFails, Leaked, TypeOK
  <2> QED BY <1>1, <2>1, SameOwners
          DEF ReaderStops, ReaderFails, Opening, Filed, HasSession, ClosedBy
<1>2. CASE LeakedReaderStops(s)
  <2>1. Leaked(s) /\ os_handle = s
    BY <1>2 DEF LeakedReaderStops, HandleInv, Leaked, Owned
  <2>2. \A e \in Conns \ {s} : ~Owned(e)
    BY <2>1 DEF HandleInv
  <2>3. \A e \in Conns : ~Opening(e) /\ ~Filed(e) /\ \A x \in Closers : ~ClosedBy(x, e)
    BY <2>1, <2>2 DEF HandleInv, Owned
  <2>4. \A e \in Conns : ~Leaked(e)'
    BY <1>2, <2>2 DEF LeakedReaderStops, Leaked, Owned, TypeOK
  <2>5. \A e \in Conns : ~Opening(e)' /\ ~Filed(e)' /\ \A x \in Closers : ~ClosedBy(x, e)'
    BY <1>2, <2>3 DEF LeakedReaderStops, Opening, Filed, HasSession, ClosedBy
  <2>6. \A d \in Deploys : deploy[d].pc # "flashing"
    BY <2>1, Constants DEF HandleInv
  <2>7. os_handle' = None /\ UNCHANGED <<deploy, close>>
    BY <1>2 DEF LeakedReaderStops
  <2> QED BY <2>4, <2>5, <2>6, <2>7, Constants DEF HandleInv, Owned
<1> QED BY <1>1, <1>2 DEF Reader

LEMMA DeployHandle ==
    ASSUME TypeOK, ClosersBusy, HandleInv, NEW d \in Deploys,
           PreemptReadGeneration(d) \/ DeployRuns(d)
    PROVE  HandleInv'
<1> USE DEF CloseGoto
<1>1. CASE PreemptReadGeneration(d) \/ FlashRefused(d)
  <2>1. \A e \in Deploys : deploy'[e].pc = "flashing" => deploy[e].pc = "flashing"
    BY <1>1 DEF PreemptReadGeneration, FlashRefused, TypeOK, DeployState
  <2>2. UNCHANGED <<session, os_handle, reader, conn, close>>
    BY <1>1 DEF PreemptReadGeneration, FlashRefused
  <2> QED BY <2>1, <2>2, SameOwners DEF Opening, Filed, HasSession, Leaked, ClosedBy
<1>2. CASE PreemptGuard(d)
  <2>1. d \in Closers /\ close[d].pc = "off"
    BY <1>2 DEF PreemptGuard, ClosersBusy, Closers
  <2>2. \A e \in Deploys : deploy'[e].pc = "flashing" => deploy[e].pc = "flashing"
    BY <1>2 DEF PreemptGuard, TypeOK, DeployState
  <2>3. UNCHANGED <<session, os_handle, reader, conn>>
    BY <1>2 DEF PreemptGuard
  <2>4. close' = close \/ close' = [close EXCEPT ![d].pc = "bump"]
    BY <1>2 DEF PreemptGuard
  <2> QED BY <2>1, <2>2, <2>3, <2>4, CloserGoesOn DEF TypeOK, CloseState
<1>3. CASE FlashStart(d)
  <2>1. \A s \in Conns : ~Owned(s)
    BY <1>3, Constants DEF FlashStart, HandleInv
  <2>2. \A s \in Conns : ~Owned(s)'
    BY <1>3, <2>1 DEF FlashStart, Owned, Opening, Filed, HasSession, Leaked, ClosedBy
  <2>3. \A e \in Deploys : deploy[e].pc # "flashing"
    BY <1>3, Constants DEF FlashStart, HandleInv
  <2>4. os_handle' = d /\ \A e \in Deploys : deploy'[e].pc = "flashing" => e = d
    BY <1>3, <2>3 DEF FlashStart, TypeOK, DeployState
  <2>5. UNCHANGED close
    BY <1>3 DEF FlashStart
  <2> QED BY <2>2, <2>4, <2>5, Constants DEF HandleInv, Owned
<1>4. CASE FlashEnd(d)
  <2>1. os_handle = d
    BY <1>4 DEF FlashEnd, HandleInv
  <2>2. \A s \in Conns : ~Owned(s)
    BY <2>1, Constants DEF HandleInv
  <2>3. \A s \in Conns : ~Owned(s)'
    BY <1>4, <2>2 DEF FlashEnd, Owned, Opening, Filed, HasSession, Leaked, ClosedBy
  <2>4. os_handle' = None /\ \A e \in Deploys : deploy'[e].pc # "flashing"
    BY <1>4, <2>1 DEF FlashEnd, HandleInv, TypeOK, DeployState
  <2>5. UNCHANGED close
    BY <1>4 DEF FlashEnd
  <2> QED BY <2>3, <2>4, <2>5, Constants DEF HandleInv, Owned
<1> QED BY <1>1, <1>2, <1>3, <1>4 DEF DeployRuns

\* Whoever has the device open answers for it and can close it, for any number
\* of racing opens, idle closes, wedged readers and deploys.
THEOREM HandlesAccounted == Spec => []HandleAccounted
<1>1. Init => ClosersBusy /\ HandleInv
  <2>1. Init => ClosersBusy
    BY DEF Init, ClosersBusy, TimerOff, Closers
  <2>2. Init => \A s \in Conns : ~Owned(s)
    BY DEF Init, Owned, Opening, Filed, HasSession, Leaked, ClosedBy
  <2>3. Init => /\ os_handle = None
                /\ \A x \in Closers : close[x].pc # "join"
                /\ \A d \in Deploys : deploy[d].pc # "flashing"
    BY DEF Init
  <2> QED BY <2>1, <2>2, <2>3, Constants DEF HandleInv, Owned
<1>2. TypeOK /\ ClosersBusy /\ HandleInv /\ [Next]_vars => ClosersBusy' /\ HandleInv'
  <2> SUFFICES ASSUME TypeOK, ClosersBusy, HandleInv, [Next]_vars PROVE HandleInv'
    BY BusyStep
  <2>1. CASE UNCHANGED vars
    BY <2>1, SameOwners DEF vars, Opening, Filed, HasSession, Leaked, ClosedBy
  <2> QED BY <2>1, OpenHandle, AttachHandle, CleanupHandle, TimerHandle, CloseHandle,
             ReaderHandle, DeployHandle DEF Next
<1>3. HandleInv => HandleAccounted
  BY DEF HandleInv, HandleAccounted, Owned
<1> QED BY <1>1, <1>2, <1>3, TypeCorrect, PTL DEF Spec
----------------------------------------------------------------------------
(***************************************************************************)
(* The clients of a session.  Only the WebSocket handler acquires write    *)
(* access, and it is the one whose every path leads to release_writer.     *)
(***************************************************************************)
WriterIsWs == \A c \in Conns : conn[c].writer_acquired => KindOf[c] = "ws"

ClientInv == WriterIsWs /\ NoDanglingClients

\* A handler goes on and still owes what it owed.
LEMMA DebtsKept ==
    ASSUME TypeOK, ClientInv, NEW c \in Conns, UNCHANGED session,
           \A e \in Conns \ {c} : conn'[e] = conn[e],
           conn'[c].writer_acquired => conn[c].writer_acquired,
           OwesWriter(c) => OwesWriter(c)', Counted(c) => Counted(c)'
    PROVE  ClientInv'
<1>1. WriterIsWs'
  BY DEF ClientInv, WriterIsWs
<1>2. \A e \in Conns : (OwesWriter(e) => OwesWriter(e)') /\ (Counted(e) => Counted(e)')
  BY DEF OwesWriter, Counted, OwesReader, Abandoned
<1>3. NoDanglingClients'
  BY <1>2 DEF ClientInv, NoDanglingClients, HasSession
<1> QED BY <1>1, <1>3 DEF ClientInv

\* A step of anything but a handler leaves the clients of the session alone, or
\* removes the session.
LEMMA DebtsUntouched ==
    ASSUME ClientInv, UNCHANGED conn, session' \in {session, None} PROVE ClientInv'
  BY DEF ClientInv, WriterIsWs, NoDanglingClients, HasSession, OwesWriter, Counted, OwesReader, Abandoned

LEMMA OpenClients == ASSUME TypeOK, ClientInv, NEW c \in Conns, Open(c) PROVE ClientInv'
<1> USE DEF At, Goto
<1>1. CASE OpenInsert(c)
  <2>1. session'.readers = {} /\ session'.writer = None
    BY <1>1 DEF OpenInsert
  <2>2. WriterIsWs'
    BY <1>1 DEF OpenInsert, ClientInv, WriterIsWs, TypeOK, ConnState
  <2> QED BY <2>1, <2>2 DEF ClientInv, NoDanglingClients
<1>2. CASE ~OpenInsert(c)
  <2>1. /\ conn[c].pc \in {"start", "reuse", "opening", "publish", "bump"}
        /\ UNCHANGED session
        /\ \E pc \in ConnPC : conn' = [conn EXCEPT ![c].pc = pc]
    BY <1>2 DEF Open, OpenRuns, OpenReuse, OpenMiss, OpenReuseBump, OpenPhysical, OpenFails,
       OpenPublish, OpenBump, ConnPC
  <2>2. conn'[c].writer_acquired = conn[c].writer_acquired
    BY <2>1 DEF TypeOK, ConnState
  <2>3. \A e \in Conns \ {c} : conn'[e] = conn[e]
    BY <2>1 DEF TypeOK
  <2>4. ~OwesWriter(c) /\ ~Counted(c)
    BY <2>1 DEF OwesWriter, Counted, OwesReader, Abandoned
  <2> QED BY <2>1, <2>2, <2>3, <2>4, DebtsKept
<1> QED BY <1>1, <1>2

LEMMA AttachClients == ASSUME TypeOK, ClientInv, NEW c \in Conns, Attach(c) PROVE ClientInv'
<1> USE DEF At, Goto
<1>1. CASE AcquireWriter(c)
  <2>1. session \in Session
    BY <1>1 DEF AcquireWriter, TypeOK, HasSession
  <2>2. session'.readers = session.readers /\ session'.writer = ClientOf[c]
    BY <1>1, <2>1 DEF AcquireWriter, Session
  <2>3. conn'[c].pc = "wbump" /\ conn'[c].writer_acquired
    BY <1>1 DEF AcquireWriter, TypeOK, ConnState
  <2>4. \A e \in Conns \ {c} : conn'[e] = conn[e]
    BY <1>1 DEF AcquireWriter, TypeOK
  <2>5. WriterIsWs'
    BY <1>1, <2>4 DEF AcquireWriter, ClientInv, WriterIsWs
  <2>6. OwesWriter(c)'
    BY <2>3 DEF OwesWriter
  <2>7. \A r \in session.readers : \E e \in Conns \ {c} : ClientOf[e] = r /\ Counted(e)
    BY <1>1 DEF AcquireWriter, ClientInv, NoDanglingClients, Counted, OwesReader, Abandoned
  <2>8. \A e \in Conns \ {c} : Counted(e) => Counted(e)'
    BY <2>4 DEF Counted, OwesReader, Abandoned
  <2> QED BY <2>2, <2>5, <2>6, <2>7, <2>8 DEF ClientInv, NoDanglingClients
<1>2. CASE AcquireWriterBump(c) \/ NoWriter(c) \/ AttachFails(c) \/ RegisterBump(c)
  <2>1. /\ conn[c].pc \in {"wbump", "opened", "attach", "rbump"}
        /\ UNCHANGED session
        /\ \E pc \in ConnPC : conn' = [conn EXCEPT ![c].pc = pc]
    BY <1>2 DEF AcquireWriterBump, NoWriter, AttachFails, RegisterBump, ConnPC
  <2>2. conn'[c].writer_acquired = conn[c].writer_acquired
    BY <2>1 DEF TypeOK, ConnState
  <2>3. \A e \in Conns \ {c} : conn'[e] = conn[e]
    BY <2>1 DEF TypeOK
  <2>4. OwesWriter(c) => conn'[c].pc \in {"attach", "detach", "attached"}
    BY <1>2 DEF AcquireWriterBump, NoWriter, AttachFails, RegisterBump, ClientInv, WriterIsWs,
       OwesWriter, TypeOK, ConnState
  <2>5. Counted(c) => conn'[c].pc = "attached"
    BY <1>2 DEF AcquireWriterBump, NoWriter, AttachFails, RegisterBump, Counted, OwesReader, Abandoned, TypeOK, ConnState
  <2>6. (OwesWriter(c) => OwesWriter(c)') /\ (Counted(c) => Counted(c)')
    BY <2>2, <2>4, <2>5 DEF OwesWriter, Counted, OwesReader, Abandoned
  <2> QED BY <2>1, <2>2, <2>3, <2>6, DebtsKept
<1>3. CASE Subscribe(c)
  <2>1. /\ conn'[c].pc = "register" /\ conn'[c].writer_acquired = conn[c].writer_acquired
        /\ \A e \in Conns \ {c} : conn'[e] = conn[e]
    BY <1>3 DEF Subscribe, TypeOK, ConnState
  <2>2. conn[c].pc = "attach" /\ UNCHANGED session
    BY <1>3 DEF Subscribe
  <2>3. (OwesWriter(c) => OwesWriter(c)') /\ ~Counted(c)
    BY <2>1, <2>2 DEF OwesWriter, Counted, OwesReader, Abandoned
  <2> QED BY <2>1, <2>2, <2>3, DebtsKept
<1>4. CASE RegisterReader(c)
  <2>1. /\ conn'[c].pc \in {"rbump", "attached"}
        /\ conn'[c].writer_acquired = conn[c].writer_acquired
        /\ \A e \in Conns \ {c} : conn'[e] = conn[e]
    BY <1>4 DEF RegisterReader, TypeOK, ConnState
  <2>2. conn[c].pc = "register"
    BY <1>4 DEF RegisterReader
  <2>3. (OwesWriter(c) => OwesWriter(c)') /\ ~Counted(c) /\ Counted(c)'
    BY <2>1, <2>2 DEF OwesWriter, Counted, OwesReader, Abandoned
  <2>4. CASE ~HasSession
    BY <1>4, <2>1, <2>3, <2>4, DebtsKept DEF RegisterReader
  <2>5. CASE HasSession
    <3>1. session \in Session
      BY <2>5 DEF TypeOK, HasSession
    <3>2. /\ session'.readers = session.readers \cup {ClientOf[c]}
          /\ session'.writer = session.writer
      BY <1>4, <2>5, <3>1 DEF RegisterReader, Session
    <3>3. \A e \in Conns : (OwesWriter(e) => OwesWriter(e)') /\ (Counted(e) => Counted(e)')
      BY <2>1, <2>3 DEF OwesWriter, Counted, OwesReader, Abandoned
    <3>4. WriterIsWs'
      BY <2>1 DEF ClientInv, WriterIsWs
    <3> QED BY <2>3, <2>5, <3>2, <3>3, <3>4 DEF ClientInv, NoDanglingClients
  <2> QED BY <2>4, <2>5
<1> QED BY <1>1, <1>2, <1>3, <1>4 DEF Attach

LEMMA CleanupClients ==
    ASSUME TypeOK, ClientInv, NEW c \in Conns,
           ConnEnds(c) \/ ChannelClosed(c) \/ HandlerDropped(c) \/ Cleanup(c)
    PROVE  ClientInv'
<1> USE DEF At, Goto
<1>1. CASE ConnEnds(c) \/ ChannelClosed(c)
  <2>1. /\ conn' = [conn EXCEPT ![c] = [@ EXCEPT !.pc = "detach", !.rx = None]]
        /\ conn[c].pc = "attached"
        /\ UNCHANGED session
    BY <1>1 DEF ConnEnds, ChannelClosed
  <2>2. /\ conn'[c].pc = "detach" /\ conn'[c].writer_acquired = conn[c].writer_acquired
        /\ \A e \in Conns \ {c} : conn'[e] = conn[e]
    BY <2>1 DEF TypeOK, ConnState
  <2>3. (OwesWriter(c) => OwesWriter(c)') /\ (Counted(c) => Counted(c)')
    BY <2>2 DEF OwesWriter, Counted, OwesReader, Abandoned
  <2> QED BY <2>1, <2>2, <2>3, DebtsKept
<1>1a. CASE HandlerDropped(c)
  <2>1. /\ conn'[c].pc = "dropped" /\ conn'[c].writer_acquired = conn[c].writer_acquired
        /\ \A e \in Conns \ {c} : conn'[e] = conn[e]
        /\ UNCHANGED session
    BY <1>1a DEF HandlerDropped, TypeOK, ConnState
  <2>2. KindOf[c] # "ws"
    BY <1>1a DEF HandlerDropped
  <2>3. ~OwesWriter(c) /\ Counted(c)'
    BY <2>1, <2>2 DEF OwesWriter, ClientInv, WriterIsWs, Counted, Abandoned
  <2> QED BY <2>1, <2>3, DebtsKept
<1>2. CASE DetachReader(c)
  <2>1. /\ conn'[c].writer_acquired = conn[c].writer_acquired
        /\ KindOf[c] = "ws" => conn'[c].pc = "release"
        /\ \A e \in Conns \ {c} : conn'[e] = conn[e]
    BY <1>2 DEF DetachReader, TypeOK, ConnState
  <2>2. \A e \in Conns : OwesWriter(e) => OwesWriter(e)'
    BY <2>1 DEF OwesWriter, ClientInv, WriterIsWs
  <2>3. \A e \in Conns \ {c} : Counted(e) => Counted(e)'
    BY <2>1 DEF Counted, OwesReader, Abandoned
  <2>4. WriterIsWs'
    BY <2>1 DEF ClientInv, WriterIsWs
  <2>5. CASE ~HasSession
    BY <1>2, <2>4, <2>5 DEF DetachReader, ClientInv, NoDanglingClients, HasSession
  <2>6. CASE HasSession
    <3>1. session \in Session
      BY <2>6 DEF TypeOK, HasSession
    <3>2. /\ session'.readers = session.readers \ {ClientOf[c]}
          /\ session'.writer = session.writer
      BY <1>2, <2>6, <3>1 DEF DetachReader, Session
    <3> QED BY <2>2, <2>3, <2>4, <2>6, <3>2 DEF ClientInv, NoDanglingClients
  <2> QED BY <2>5, <2>6
<1>3. CASE ReleaseWriter(c)
  <2>1. /\ conn[c].pc = "release"
        /\ ~conn'[c].writer_acquired
        /\ \A e \in Conns \ {c} : conn'[e] = conn[e]
    BY <1>3 DEF ReleaseWriter, TypeOK, ConnState
  <2>2. \A e \in Conns \ {c} : (OwesWriter(e) => OwesWriter(e)') /\ (Counted(e) => Counted(e)')
    BY <2>1 DEF OwesWriter, Counted, OwesReader, Abandoned
  <2>3. ~Counted(c)
    BY <2>1 DEF Counted, OwesReader, Abandoned
  <2>4. WriterIsWs'
    BY <2>1 DEF ClientInv, WriterIsWs
  <2>5. CASE ~HasSession
    BY <1>3, <2>4, <2>5 DEF ReleaseWriter, ClientInv, NoDanglingClients, HasSession
  <2>6. CASE HasSession
    <3>1. session \in Session
      BY <2>6 DEF TypeOK, HasSession
    <3>2. /\ session'.readers = session.readers
          /\ session'.writer = IF conn[c].writer_acquired /\ session.writer = ClientOf[c]
                               THEN None ELSE session.writer
      BY <1>3, <2>6, <3>1 DEF ReleaseWriter, Session
    <3>3. session'.writer # None => \E e \in Conns \ {c} : ClientOf[e] = session.writer /\ OwesWriter(e)
      BY <2>6, <3>2 DEF ClientInv, NoDanglingClients, OwesWriter
    <3>4. \A r \in session'.readers : \E e \in Conns \ {c} : ClientOf[e] = r /\ Counted(e)
      BY <2>3, <2>6, <3>2 DEF ClientInv, NoDanglingClients
    <3> QED BY <2>2, <2>4, <3>2, <3>3, <3>4 DEF ClientInv, NoDanglingClients
  <2> QED BY <2>5, <2>6
<1>4. CASE IdleCheck(c) \/ GraceCheck(c) \/ ArmTimer(c)
  <2>1. /\ conn[c].pc \in {"idlecheck", "grace", "arm"}
        /\ UNCHANGED session
        /\ \E pc \in ConnPC : conn' = [conn EXCEPT ![c].pc = pc]
    BY <1>4 DEF IdleCheck, GraceCheck, ArmTimer, ConnPC
  <2>2. conn'[c].writer_acquired = conn[c].writer_acquired
    BY <2>1 DEF TypeOK, ConnState
  <2>3. \A e \in Conns \ {c} : conn'[e] = conn[e]
    BY <2>1 DEF TypeOK
  <2>4. ~OwesWriter(c) /\ ~Counted(c)
    BY <2>1 DEF OwesWriter, Counted, OwesReader, Abandoned
  <2> QED BY <2>1, <2>2, <2>3, <2>4, DebtsKept
<1> QED BY <1>1, <1>1a, <1>2, <1>3, <1>4 DEF Cleanup

\* Whoever a session counts as a client has a handler that will take it off or
\* is a monitor request whose future was dropped, whatever deploys and idle
\* closes do to the session meanwhile.
THEOREM ClientsLeave == Spec => []NoDanglingClients
<1>1. Init => ClientInv
  BY DEF Init, ClientInv, WriterIsWs, NoDanglingClients, HasSession
<1>2. TypeOK /\ ClientInv /\ [Next]_vars => ClientInv'
  <2> SUFFICES ASSUME TypeOK, ClientInv, [Next]_vars PROVE ClientInv'
    OBVIOUS
  <2>1. ASSUME NEW c \in Conns, Timer(c) \/ Reader(c) PROVE ClientInv'
    BY <2>1, DebtsUntouched DEF Timer, TimerFires, TimerChecksClients, Reader, ReaderStops,
       ReaderFails, LeakedReaderStops
  <2>2. ASSUME NEW x \in Closers, Close(x) PROVE ClientInv'
    BY <2>2, DebtsUntouched DEF Close, CloseBump, CloseRemove, CloseJoin, CloseJoinTimeout,
       CloseChannel, CloseGeneration
  <2>3. ASSUME NEW d \in Deploys, PreemptReadGeneration(d) \/ DeployRuns(d) PROVE ClientInv'
    BY <2>3, DebtsUntouched DEF PreemptReadGeneration, DeployRuns, PreemptGuard, FlashStart,
       FlashRefused, FlashEnd
  <2>4. CASE UNCHANGED vars
    BY <2>4, DebtsUntouched DEF vars
  <2> QED BY <2>1, <2>2, <2>3, <2>4, OpenClients, AttachClients, CleanupClients DEF Next
<1>3. ClientInv => NoDanglingClients
  BY DEF ClientInv
<1> QED BY <1>1, <1>2, <1>3, TypeCorrect, PTL DEF Spec
=============================================================================
