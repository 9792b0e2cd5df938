------------------------- MODULE SerialRebindProofs -------------------------
(***************************************************************************)
(* Proofs about serial sessions whose board changes its name, for any      *)
(* number of names, connections, closes and concurrent rebinds.            *)
(***************************************************************************)
EXTENDS SerialRebind, SequenceTheorems, TLAPS

ConnRecords == [pc : ConnSteps, h : Handles \cup {None}, key : Ports \cup {None},
                rx : Handles \cup {None}]

CloseRecords == [pc : {"off", "guard", "remove", "join", "channel", "aliases", "over"},
                 key : Ports \cup {None}, h : Handles \cup {None}, generation : Nat]

RebindRecords == [pc : {"off", "start", "open", "stop", "file", "alias"},
                  queue : Seq(MoveRecords), key : Ports \cup {None},
                  h : Handles \cup {None}, tx : Handles \cup {None}]

\* What the place a handler is at says of its other fields.
ConnsSteady ==
  \A c \in Conns : /\ conn[c].h # None <=> conn[c].pc \in {"publish", "insert"}
                   /\ conn[c].pc = "register" => conn[c].key \in Ports

ClosesSteady ==
  \A x \in Conns \cup Closers : close[x].pc \notin {"off", "over"} => close[x].key \in Ports

RebindsSteady ==
  \A r \in Rebinders : /\ rebind[r].pc # "off" => rebind[r].queue # <<>>
                       /\ rebind[r].pc \notin {"off", "start"} => rebind[r].key \in Ports
                       /\ rebind[r].h # None <=> rebind[r].pc \in {"stop", "file"}

Steady == ConnsSteady /\ ClosesSteady /\ RebindsSteady

LEMMA Constants ==
  /\ None \notin Ports /\ None \notin Handles /\ None \notin SessionRecords
  /\ None \notin Timers
  /\ Conns \cap Closers = {}
  /\ \A c \in Conns : PortOf[c] \in Ports
  /\ MaxHops \in Nat /\ MaxOpens \in Nat
  BY NoneAssumption, ConnsAssumption, BoundAssumption

LEMMA Idle ==
  /\ NoClose \in CloseRecords /\ NoClose.pc = "off" /\ NoClose.h = None
  /\ NoRebind \in RebindRecords /\ NoRebind.pc = "off" /\ NoRebind.h = None
  /\ NoRebind.queue = <<>>
  BY DEF NoClose, NoRebind, CloseRecords, RebindRecords

LEMMA KeyType == TypeOK => \A p \in Ports : Key(p) \in Ports
  BY DEF TypeOK, Key

\* A move that was drained names two ports, and there are moves after it.
LEMMA QueueType ==
  ASSUME TypeOK, Steady, NEW r \in Rebinders, rebind[r].pc # "off"
  PROVE  /\ Head(rebind[r].queue).from \in Ports
         /\ Head(rebind[r].queue).to \in Ports
         /\ Tail(rebind[r].queue) \in Seq(MoveRecords)
<1>1. rebind[r].queue \in Seq(MoveRecords) /\ rebind[r].queue # <<>>
  BY DEF TypeOK, Steady, RebindsSteady
<1>2. Head(rebind[r].queue) \in MoveRecords /\ Tail(rebind[r].queue) \in Seq(MoveRecords)
  BY <1>1, HeadTailProperties
<1> QED BY <1>2 DEF MoveRecords

-----------------------------------------------------------------------------
(* Which step changes what. *)

\* A rebind goes on to the next move, or is over.
LEMMA AnsweredType ==
  ASSUME TypeOK, Steady, NEW r \in Rebinders, rebind[r].pc # "off", Answered(r)
  PROVE  /\ rebind' \in [Rebinders -> RebindRecords]
         /\ RebindsSteady'
         /\ rebind'[r].h = None /\ rebind'[r].pc \in {"off", "start"}
         /\ \A s \in Rebinders : s # r => rebind'[s] = rebind[s]
<1> DEFINE q == Tail(rebind[r].queue)
           n == IF q = <<>> THEN NoRebind ELSE [NoRebind EXCEPT !.pc = "start", !.queue = q]
<1>1. q \in Seq(MoveRecords)
  BY QueueType
<1>2. /\ n \in RebindRecords /\ n.h = None /\ n.pc \in {"off", "start"}
      /\ n.pc # "off" => n.queue # <<>>
  BY <1>1, Idle DEF NoRebind, RebindRecords
<1>3. rebind' = [rebind EXCEPT ![r] = n] /\ rebind \in [Rebinders -> RebindRecords]
  BY DEF Answered, TypeOK, RebindRecords
<1> HIDE DEF n
<1> QED BY <1>2, <1>3 DEF Steady, RebindsSteady
LEMMA ConnUpdate ==
  ASSUME TypeOK, ConnsSteady, NEW c \in Conns, NEW n \in ConnRecords,
         n.h # None <=> n.pc \in {"publish", "insert"},
         n.pc = "register" => n.key \in Ports,
         conn' = [conn EXCEPT ![c] = n]
  PROVE  conn' \in [Conns -> ConnRecords] /\ ConnsSteady'
<1>1. conn \in [Conns -> ConnRecords]
  BY DEF TypeOK, ConnRecords
<1> QED BY <1>1 DEF ConnsSteady

\* The handler of a connection goes on to a place without a handle.
LEMMA ConnGoto ==
  ASSUME TypeOK, ConnsSteady, NEW c \in Conns, NEW l \in ConnSteps,
         l \notin {"publish", "insert", "register"},
         conn[c].pc \notin {"publish", "insert"}, Goto(c, l)
  PROVE  conn' \in [Conns -> ConnRecords] /\ ConnsSteady'
<1> DEFINE n == [conn[c] EXCEPT !.pc = l]
<1>1. conn[c] \in ConnRecords /\ conn[c].h = None
  BY DEF TypeOK, ConnRecords, ConnsSteady
<1>3. n \in ConnRecords /\ n.pc = l /\ n.h = None
  BY <1>1 DEF ConnRecords
<1>2. conn' = [conn EXCEPT ![c] = n]
  BY DEF Goto
<1> HIDE DEF n
<1> QED BY <1>2, <1>3, ConnUpdate

LEMMA ConnStep ==
  ASSUME TypeOK, Steady, NEW c \in Conns, Connection(c)
  PROVE  conn' \in [Conns -> ConnRecords] /\ ConnsSteady'
<1> USE Constants DEF Steady
<1>0. conn[c] \in ConnRecords
  BY DEF TypeOK, ConnRecords
<1>1. CASE OpenStart(c)
  BY <1>1, ConnGoto DEF OpenStart, ConnSteps
<1>2. CASE OpenPhysical(c)
  <2> DEFINE n == [conn[c] EXCEPT !.pc = "publish", !.h = opened + 1]
  <2>1. opened + 1 \in Handles
    BY <1>2 DEF OpenPhysical, CanOpen, TypeOK, Handles
  <2>2. n \in ConnRecords /\ n.pc = "publish" /\ n.h # None
    BY <1>0, <2>1 DEF ConnRecords, ConnSteps
  <2>3. conn' = [conn EXCEPT ![c] = n]
    BY <1>2 DEF OpenPhysical
  <2> HIDE DEF n
  <2> QED BY <2>2, <2>3, ConnUpdate
<1>3. CASE OpenFails(c)
  BY <1>3, ConnGoto DEF OpenFails, ConnSteps
<1>4. CASE OpenPublish(c)
  <2> DEFINE n == [conn[c] EXCEPT !.pc = "insert"]
  <2>1. n \in ConnRecords /\ n.pc = "insert" /\ n.h # None
    BY <1>0, <1>4 DEF ConnRecords, ConnSteps, OpenPublish, ConnsSteady
  <2>2. conn' = [conn EXCEPT ![c] = n]
    BY <1>4 DEF OpenPublish, Goto
  <2> HIDE DEF n
  <2> QED BY <2>1, <2>2, ConnUpdate
<1>5. CASE OpenInsert(c)
  <2> DEFINE n == [conn[c] EXCEPT !.pc = "attach", !.h = None]
  <2>1. n \in ConnRecords /\ n.pc = "attach" /\ n.h = None
    BY <1>0 DEF ConnRecords, ConnSteps
  <2>2. conn' = [conn EXCEPT ![c] = n]
    BY <1>5 DEF OpenInsert
  <2> HIDE DEF n
  <2> QED BY <2>1, <2>2, ConnUpdate
<1>6. CASE Attach(c)
  <2> DEFINE k == Key(PortOf[c])
             n == IF broadcasters[k] = None THEN [conn[c] EXCEPT !.pc = "detach"]
                  ELSE [conn[c] EXCEPT !.pc = "register", !.key = k, !.rx = broadcasters[k]]
  <2>1. k \in Ports /\ broadcasters[k] \in Handles \cup {None} /\ conn[c].h = None
    BY <1>6, KeyType DEF TypeOK, Attach, ConnsSteady
  <2>2. /\ n \in ConnRecords /\ n.pc \in {"detach", "register"} /\ n.h = None
        /\ n.pc = "register" => n.key \in Ports
    BY <1>0, <2>1 DEF ConnRecords, ConnSteps
  <2>3. conn' = [conn EXCEPT ![c] = n]
    BY <1>6 DEF Attach
  <2> HIDE DEF n
  <2> QED BY <2>2, <2>3, ConnUpdate
<1>7. CASE Register(c)
  <2> DEFINE n == [conn[c] EXCEPT !.pc = "attached", !.key = None]
  <2>1. n \in ConnRecords /\ n.pc = "attached" /\ n.h = None
    BY <1>0, <1>7 DEF ConnRecords, ConnSteps, Register, ConnsSteady
  <2>2. conn' = [conn EXCEPT ![c] = n]
    BY <1>7 DEF Register
  <2> HIDE DEF n
  <2> QED BY <2>1, <2>2, ConnUpdate
<1>8. CASE Leave(c)
  <2> DEFINE n == [conn[c] EXCEPT !.pc = "detach", !.rx = None]
  <2>1. n \in ConnRecords /\ n.pc = "detach" /\ n.h = None
    BY <1>0, <1>8 DEF ConnRecords, ConnSteps, Leave, ConnsSteady
  <2>2. conn' = [conn EXCEPT ![c] = n]
    BY <1>8 DEF Leave
  <2> HIDE DEF n
  <2> QED BY <2>1, <2>2, ConnUpdate
<1>9. CASE Detach(c)
  BY <1>9, ConnGoto DEF Detach, ConnSteps
<1>10. CASE Grace(c)
  BY <1>10, ConnGoto DEF Grace, ConnSteps
<1>11. CASE TimerFires(c)
  BY <1>11 DEF TimerFires, TypeOK, ConnRecords, ConnsSteady
<1> QED BY <1>1, <1>2, <1>3, <1>4, <1>5, <1>6, <1>7, <1>8, <1>9, <1>10, <1>11
        DEF Connection

\* A close, by a timer, a deploy or a request.
LEMMA CloseUpdate ==
  ASSUME TypeOK, ClosesSteady, NEW x \in Conns \cup Closers, NEW n \in CloseRecords,
         n.pc \notin {"off", "over"} => n.key \in Ports,
         close' = [close EXCEPT ![x] = n]
  PROVE  close' \in [Conns \cup Closers -> CloseRecords] /\ ClosesSteady'
<1>1. close \in [Conns \cup Closers -> CloseRecords]
  BY DEF TypeOK, CloseRecords
<1> QED BY <1>1 DEF ClosesSteady

LEMMA CloseStarts ==
  ASSUME TypeOK, ClosesSteady, NEW x \in Conns \cup Closers, NEW k \in Ports, Closing(x, k)
  PROVE  close' \in [Conns \cup Closers -> CloseRecords] /\ ClosesSteady'
<1> DEFINE n == [NoClose EXCEPT !.pc = "remove", !.key = k]
<1>1. n \in CloseRecords /\ n.key = k
  BY DEF NoClose, CloseRecords
<1>2. close' = [close EXCEPT ![x] = n]
  BY DEF Closing
<1> HIDE DEF n
<1> QED BY <1>1, <1>2, CloseUpdate

\* Where a close goes on to.
LEMMA CloseStep ==
  ASSUME TypeOK, Steady, NEW x \in Conns \cup Closers, Close(x)
  PROVE  close' \in [Conns \cup Closers -> CloseRecords] /\ ClosesSteady'
<1> USE Constants, Idle DEF Steady
<1>0. close[x] \in CloseRecords
  BY DEF TypeOK, CloseRecords
<1>1. ASSUME close' = [close EXCEPT ![x] = [NoClose EXCEPT !.pc = "over"]]
      PROVE  close' \in [Conns \cup Closers -> CloseRecords] /\ ClosesSteady'
  <2> DEFINE n == [NoClose EXCEPT !.pc = "over"]
  <2>1. n \in CloseRecords /\ n.pc = "over"
    BY DEF NoClose, CloseRecords
  <2> HIDE DEF n
  <2> QED BY <1>1, <2>1, CloseUpdate DEF n
<1>2. CASE PreemptGuard(x)
  <2>1. Key(close[x].key) \in Ports
    BY <1>2, KeyType DEF PreemptGuard, ClosesSteady
  <2> QED BY <1>1, <1>2, <2>1, CloseStarts DEF PreemptGuard
<1>3. ASSUME NEW l \in {"join", "channel", "aliases"}, NEW h \in Handles \cup {None},
             close[x].pc \notin {"off", "over"},
             \/ close' = [close EXCEPT ![x].pc = l, ![x].h = h]
             \/ close' = [close EXCEPT ![x].pc = l]
      PROVE  close' \in [Conns \cup Closers -> CloseRecords] /\ ClosesSteady'
  <2> DEFINE m == [close[x] EXCEPT !.pc = l, !.h = h]
             n == [close[x] EXCEPT !.pc = l]
  <2>1. m \in CloseRecords /\ m.key \in Ports /\ n \in CloseRecords /\ n.key \in Ports
    BY <1>0, <1>3 DEF CloseRecords, ClosesSteady
  <2>2. close' = [close EXCEPT ![x] = m] \/ close' = [close EXCEPT ![x] = n]
    BY <1>3
  <2> HIDE DEF m, n
  <2> QED BY <2>1, <2>2, CloseUpdate
<1>4. CASE CloseRemove(x)
  <2>1. close[x].key \in Ports
    BY <1>4 DEF CloseRemove, ClosesSteady
  <2>2. sessions[close[x].key] # None => sessions[close[x].key].h \in Handles
    BY <2>1 DEF TypeOK, SessionRecords
  <2> QED BY <1>3, <1>4, <2>2 DEF CloseRemove
<1>5. CASE CloseDrop(x) \/ CloseChannel(x)
  BY <1>3, <1>5 DEF CloseDrop, CloseChannel
<1>6. CASE CloseAliases(x)
  BY <1>1, <1>6 DEF CloseAliases
<1> QED BY <1>2, <1>4, <1>5, <1>6 DEF Close
LEMMA RebindUpdate ==
  ASSUME TypeOK, RebindsSteady, NEW r \in Rebinders, NEW n \in RebindRecords,
         n.queue # <<>>,
         n.pc \notin {"off", "start"} => n.key \in Ports,
         n.h # None <=> n.pc \in {"stop", "file"},
         rebind' = [rebind EXCEPT ![r] = n]
  PROVE  rebind' \in [Rebinders -> RebindRecords] /\ RebindsSteady'
<1>1. rebind \in [Rebinders -> RebindRecords]
  BY DEF TypeOK, RebindRecords
<1> QED BY <1>1 DEF RebindsSteady

LEMMA RebindStep ==
  ASSUME TypeOK, Steady, NEW r \in Rebinders, Rebind(r)
  PROVE  rebind' \in [Rebinders -> RebindRecords] /\ RebindsSteady'
<1> USE Constants DEF Steady
<1>0. /\ rebind[r] \in RebindRecords
      /\ rebind[r].pc # "off" => rebind[r].queue # <<>>
      /\ rebind[r].pc \notin {"off", "start"} => rebind[r].key \in Ports
      /\ rebind[r].h # None <=> rebind[r].pc \in {"stop", "file"}
  BY DEF TypeOK, RebindRecords, RebindsSteady
<1>1. ASSUME rebind[r].pc # "off", Answered(r)
      PROVE  rebind' \in [Rebinders -> RebindRecords] /\ RebindsSteady'
  BY <1>1, AnsweredType
<1>2. CASE Drain(r)
  <2> DEFINE n == [rebind[r] EXCEPT !.pc = "start", !.queue = moves]
  <2>1. n \in RebindRecords /\ n.pc = "start" /\ n.queue # <<>> /\ n.h = None
    BY <1>0, <1>2 DEF Drain, TypeOK, RebindRecords
  <2>2. rebind' = [rebind EXCEPT ![r] = n]
    BY <1>2 DEF Drain
  <2> HIDE DEF n
  <2> QED BY <2>1, <2>2, RebindUpdate
<1>3. CASE RebindStart(r)
  <2> DEFINE k == Key(Head(rebind[r].queue).from)
             n == [rebind[r] EXCEPT !.pc = "open", !.key = k]
  <2>1. k \in Ports
    BY <1>3, KeyType, QueueType DEF RebindStart
  <2>2. n \in RebindRecords /\ n.pc = "open" /\ n.queue # <<>> /\ n.h = None /\ n.key \in Ports
    BY <1>0, <1>3, <2>1 DEF RebindStart, RebindRecords
  <2>3. Answered(r) \/ rebind' = [rebind EXCEPT ![r] = n]
    BY <1>3 DEF RebindStart
  <2> HIDE DEF n
  <2> QED BY <1>1, <1>3, <2>2, <2>3, RebindUpdate DEF RebindStart
<1>4. CASE RebindOpen(r)
  <2> DEFINE n == [rebind[r] EXCEPT !.pc = "stop", !.h = opened + 1]
  <2>1. opened + 1 \in Handles
    BY <1>4 DEF RebindOpen, CanOpen, TypeOK, Handles
  <2>2. n \in RebindRecords /\ n.pc = "stop" /\ n.queue # <<>> /\ n.h # None /\ n.key \in Ports
    BY <1>0, <1>4, <2>1 DEF RebindOpen, RebindRecords
  <2>3. rebind' = [rebind EXCEPT ![r] = n]
    BY <1>4 DEF RebindOpen
  <2> HIDE DEF n
  <2> QED BY <2>2, <2>3, RebindUpdate
<1>5. CASE RebindOpenFails(r)
  BY <1>1, <1>5 DEF RebindOpenFails
<1>6. CASE RebindStop(r)
  <2> DEFINE k == rebind[r].key
             n == [rebind[r] EXCEPT !.pc = "file", !.tx = broadcasters[k]]
  <2>1. k \in Ports /\ broadcasters[k] \in Handles \cup {None}
    BY <1>0, <1>6 DEF RebindStop, TypeOK
  <2>2. n \in RebindRecords /\ n.pc = "file" /\ n.queue # <<>> /\ n.h # None /\ n.key \in Ports
    BY <1>0, <1>6, <2>1 DEF RebindStop, RebindRecords
  <2>3. Answered(r) \/ rebind' = [rebind EXCEPT ![r] = n]
    BY <1>6 DEF RebindStop
  <2> HIDE DEF n
  <2> QED BY <1>1, <1>6, <2>2, <2>3, RebindUpdate DEF RebindStop
<1>7. CASE RebindFile(r)
  <2> DEFINE n == [rebind[r] EXCEPT !.pc = "alias", !.h = None]
  <2>1. n \in RebindRecords /\ n.pc = "alias" /\ n.queue # <<>> /\ n.h = None /\ n.key \in Ports
    BY <1>0, <1>7 DEF RebindFile, RebindRecords
  <2>2. rebind' = [rebind EXCEPT ![r] = n]
    BY <1>7 DEF RebindFile
  <2> HIDE DEF n
  <2> QED BY <2>1, <2>2, RebindUpdate
<1>8. CASE RebindAlias(r)
  BY <1>1, <1>8 DEF RebindAlias
<1> QED BY <1>2, <1>3, <1>4, <1>5, <1>6, <1>7, <1>8 DEF Rebind

\* Steady and the types of the handlers, over a whole step.
LEMMA HandlersStep ==
  ASSUME TypeOK, Steady, [Next]_vars
  PROVE  /\ conn' \in [Conns -> ConnRecords]
         /\ close' \in [Conns \cup Closers -> CloseRecords]
         /\ rebind' \in [Rebinders -> RebindRecords]
         /\ Steady'
<1> USE DEF Steady
<1>0. /\ conn \in [Conns -> ConnRecords]
      /\ close \in [Conns \cup Closers -> CloseRecords]
      /\ rebind \in [Rebinders -> RebindRecords]
  BY DEF TypeOK, ConnRecords, CloseRecords, RebindRecords
<1>1. conn' = conn => conn' \in [Conns -> ConnRecords] /\ ConnsSteady'
  BY <1>0 DEF ConnsSteady
<1>2. close' = close => close' \in [Conns \cup Closers -> CloseRecords] /\ ClosesSteady'
  BY <1>0 DEF ClosesSteady
<1>3. rebind' = rebind => rebind' \in [Rebinders -> RebindRecords] /\ RebindsSteady'
  BY <1>0 DEF RebindsSteady
<1>4. CASE Refresh \/ UNCHANGED vars \/ \E h \in Handles : ReaderEnds(h)
  BY <1>1, <1>2, <1>3, <1>4 DEF Refresh, ReaderEnds, vars
<1>5. ASSUME NEW p \in Ports, Hop(p) PROVE UNCHANGED <<conn, close, rebind>>
  BY <1>5 DEF Hop
<1>6. ASSUME NEW p \in Ports, NEW x \in Closers, ForceClose(x, p) \/ Preempt(x, p)
      PROVE  /\ close' \in [Conns \cup Closers -> CloseRecords] /\ ClosesSteady'
             /\ UNCHANGED <<conn, rebind>>
  <2>1. Key(p) \in Ports /\ close_generations[Key(p)] \in Nat
    BY KeyType DEF TypeOK
  <2>2. CASE ForceClose(x, p)
    BY <2>1, <2>2, CloseStarts DEF ForceClose
  <2>3. CASE Preempt(x, p)
    <3> DEFINE n == [pc |-> "guard", key |-> Key(p), h |-> None,
                     generation |-> close_generations[Key(p)]]
    <3>1. n \in CloseRecords /\ n.key \in Ports
      BY <2>1 DEF CloseRecords
    <3>2. close' = [close EXCEPT ![x] = n]
      BY <2>3 DEF Preempt
    <3> HIDE DEF n
    <3> QED BY <2>3, <3>1, <3>2, CloseUpdate DEF Preempt
  <2> QED BY <1>6, <2>2, <2>3
<1>7. ASSUME NEW c \in Conns, Connection(c)
      PROVE  /\ close' \in [Conns \cup Closers -> CloseRecords] /\ ClosesSteady'
             /\ rebind' = rebind
  <2>1. rebind' = rebind /\ (close' = close \/ TimerFires(c))
    BY <1>7 DEF Connection, OpenStart, OpenPhysical, OpenFails, OpenPublish, OpenInsert, Attach,
                Register, Leave, Detach, Grace, TimerFires
  <2>2. CASE TimerFires(c)
    <3>1. Key(timer[c].key) \in Ports
      BY <2>2, KeyType DEF TimerFires, TypeOK, Timers
    <3> QED BY <1>2, <2>1, <2>2, <3>1, CloseStarts DEF TimerFires
  <2> QED BY <1>2, <2>1, <2>2
<1>8. ASSUME NEW x \in Conns \cup Closers, Close(x) PROVE UNCHANGED <<conn, rebind>>
  BY <1>8 DEF Close, PreemptGuard, CloseRemove, CloseDrop, CloseChannel, CloseAliases
<1>9. ASSUME NEW r \in Rebinders, Rebind(r) PROVE UNCHANGED <<conn, close>>
  BY <1>9 DEF Rebind, Drain, RebindStart, RebindOpen, RebindOpenFails, RebindStop, RebindFile,
              RebindAlias
<1> QED BY <1>1, <1>2, <1>3, <1>4, <1>5, <1>6, <1>7, <1>8, <1>9, ConnStep, CloseStep, RebindStep
        DEF Next
LEMMA BumpType ==
  ASSUME TypeOK, NEW k \in Ports, Bump(k) PROVE close_generations' \in [Ports -> Nat]
  BY DEF TypeOK, Bump

LEMMA OpensType ==
  ASSUME TypeOK, NEW p \in Ports, CanOpen(p), Opens(opened + 1)
  PROVE  opened' \in 0 .. MaxOpens /\ device' \in [Handles -> 0 .. MaxHops]
         /\ UNCHANGED <<reader, tx>>
<1>1. opened + 1 \in 0 .. MaxOpens /\ hops \in 0 .. MaxHops
  BY Constants DEF TypeOK, CanOpen
<1> QED BY <1>1 DEF TypeOK, Opens

LEMMA StoppedType ==
  ASSUME TypeOK, NEW h \in Handles
  PROVE  Stopped(h) \in [Handles -> {"none", "running", "stopping", "dead"}]
  BY DEF TypeOK, Stopped

\* A session stays one when a client joins or leaves and when its handle changes.
LEMMA SessionType ==
  ASSUME TypeOK, NEW k \in Ports, sessions[k] # None
  PROVE  /\ sessions[k] \in SessionRecords /\ sessions[k].h \in Handles
         /\ \A c \in Conns : /\ [sessions[k] EXCEPT !.clients = @ \cup {c}] \in SessionRecords
                             /\ [sessions[k] EXCEPT !.clients = @ \ {c}] \in SessionRecords
         /\ \A h \in Handles : [sessions[k] EXCEPT !.h = h] \in SessionRecords
<1>1. sessions[k] \in SessionRecords
  BY DEF TypeOK
<1> QED BY <1>1 DEF SessionRecords

\* Everything but the handlers.
MapsTypeOK ==
  /\ at \in Ports /\ known \in Ports /\ hops \in 0 .. MaxHops
  /\ moves \in Seq(MoveRecords)
  /\ sessions \in [Ports -> SessionRecords \cup {None}]
  /\ broadcasters \in [Ports -> Handles \cup {None}]
  /\ close_generations \in [Ports -> Nat]
  /\ port_aliases \in [Ports -> Ports \cup {None}]
  /\ reader \in [Handles -> {"none", "running", "stopping", "dead"}]
  /\ device \in [Handles -> 0 .. MaxHops]
  /\ tx \in [Handles -> Handles \cup {None}]
  /\ opened \in 0 .. MaxOpens
  /\ timer \in [Conns -> Timers \cup {None}]
  /\ overtaken \in BOOLEAN

LEMMA UsbType ==
  ASSUME TypeOK, NEW p \in Ports, Hop(p) \/ Refresh PROVE MapsTypeOK'
<1> USE Constants DEF TypeOK, MapsTypeOK
<1>1. CASE Hop(p)
  BY <1>1 DEF Hop, maps, threads
<1>2. CASE Refresh
  <2>1. [from |-> known, to |-> at] \in MoveRecords
    BY DEF MoveRecords
  <2>2. moves' \in Seq(MoveRecords)
    BY <1>2, <2>1, AppendProperties DEF Refresh
  <2> QED BY <1>2, <2>2 DEF Refresh, maps, threads
<1> QED BY <1>1, <1>2

LEMMA ConnMapsType ==
  ASSUME TypeOK, Steady, NEW c \in Conns, Connection(c) PROVE MapsTypeOK'
<1> USE Constants DEF TypeOK, MapsTypeOK, usb, maps, threads
<1>0. PortOf[c] \in Ports /\ Key(PortOf[c]) \in Ports
  BY KeyType
<1>1. CASE OpenStart(c)
  BY <1>0, <1>1, BumpType DEF OpenStart
<1>2. CASE OpenPhysical(c)
  BY <1>0, <1>2, OpensType DEF OpenPhysical
<1>3. CASE OpenFails(c) \/ Attach(c) \/ Leave(c)
  BY <1>3 DEF OpenFails, Attach, Leave
<1>4. CASE OpenPublish(c)
  <2>1. conn[c].h \in Handles
    BY <1>4 DEF OpenPublish, Steady, ConnsSteady
  <2> QED BY <1>0, <1>4, <2>1 DEF OpenPublish
<1>5. CASE OpenInsert(c)
  <2>1. conn[c].h \in Handles
    BY <1>5 DEF OpenInsert, Steady, ConnsSteady
  <2>2. [h |-> conn[c].h, clients |-> {}] \in SessionRecords
    BY <2>1 DEF SessionRecords
  <2>3. overtaken' \in BOOLEAN
    BY <1>5 DEF OpenInsert
  <2> QED BY <1>0, <1>5, <2>2, <2>3, BumpType DEF OpenInsert
<1>6. CASE Register(c)
  <2> DEFINE k == conn[c].key
  <2>1. k \in Ports
    BY <1>6 DEF Register, Steady, ConnsSteady
  <2>2. sessions[k] # None =>
          [sessions[k] EXCEPT !.clients = @ \cup {c}] \in SessionRecords
    BY <2>1, SessionType
  <2>3. sessions' \in [Ports -> SessionRecords \cup {None}]
    BY <1>6, <2>1, <2>2 DEF Register
  <2> QED BY <1>6, <2>1, <2>3, BumpType DEF Register
<1>7. CASE Detach(c)
  <2> DEFINE k == Key(PortOf[c])
  <2>1. sessions[k] # None =>
          [sessions[k] EXCEPT !.clients = @ \ {c}] \in SessionRecords
    BY <1>0, SessionType
  <2>2. sessions' \in [Ports -> SessionRecords \cup {None}]
    BY <1>0, <1>7, <2>1 DEF Detach
  <2> QED BY <1>7, <2>2 DEF Detach
<1>8. CASE Grace(c)
  <2>1. [key |-> Key(PortOf[c]), generation |-> close_generations[Key(PortOf[c])] + 1] \in Timers
    BY <1>0 DEF Timers
  <2> QED BY <1>0, <1>8, <2>1, BumpType DEF Grace
<1>9. CASE TimerFires(c)
  BY <1>9 DEF TimerFires
<1> QED BY <1>1, <1>2, <1>3, <1>4, <1>5, <1>6, <1>7, <1>8, <1>9 DEF Connection

LEMMA CloseMapsType ==
  ASSUME TypeOK, Steady, NEW x \in Conns \cup Closers, Close(x) PROVE MapsTypeOK'
<1> USE Constants DEF TypeOK, MapsTypeOK, usb, maps, threads
<1> DEFINE k == close[x].key
<1>0. close[x].pc \notin {"off", "over"} => k \in Ports
  BY DEF Steady, ClosesSteady
<1>1. CASE PreemptGuard(x) \/ CloseDrop(x)
  BY <1>1 DEF PreemptGuard, CloseDrop
<1>2. CASE CloseRemove(x)
  <2>1. k \in Ports /\ (sessions[k] # None => sessions[k].h \in Handles)
    BY <1>0, <1>2 DEF CloseRemove, SessionRecords
  <2>2. reader' \in [Handles -> {"none", "running", "stopping", "dead"}]
    BY <1>2, <2>1, StoppedType DEF CloseRemove
  <2>3. sessions' \in [Ports -> SessionRecords \cup {None}]
    BY <1>2 DEF CloseRemove
  <2>4. overtaken' \in BOOLEAN
    BY <1>2 DEF CloseRemove
  <2> QED BY <1>2, <2>1, <2>2, <2>3, <2>4, BumpType DEF CloseRemove
<1>3. CASE CloseChannel(x)
  BY <1>3 DEF CloseChannel
<1>4. CASE CloseAliases(x)
  BY <1>4 DEF CloseAliases
<1> QED BY <1>1, <1>2, <1>3, <1>4 DEF Close

LEMMA RebindMapsType ==
  ASSUME TypeOK, Steady, NEW r \in Rebinders, Rebind(r) PROVE MapsTypeOK'
<1> USE Constants DEF TypeOK, MapsTypeOK, usb, maps, threads
<1> DEFINE k == rebind[r].key
<1>0. rebind[r].pc \notin {"off", "start"} => k \in Ports
  BY DEF Steady, RebindsSteady
<1>1. CASE Drain(r)
  BY <1>1, EmptySeq DEF Drain
<1>2. CASE RebindStart(r) \/ RebindOpenFails(r)
  BY <1>2 DEF RebindStart, RebindOpenFails
<1>3. CASE RebindOpen(r)
  <2>1. Head(rebind[r].queue).to \in Ports
    BY <1>3, QueueType DEF RebindOpen
  <2> QED BY <1>3, <2>1, OpensType DEF RebindOpen
<1>4. CASE RebindStop(r)
  <2>1. k \in Ports /\ (sessions[k] # None => sessions[k].h \in Handles)
    BY <1>0, <1>4 DEF RebindStop, SessionRecords
  <2>2. reader' \in [Handles -> {"none", "running", "stopping", "dead"}]
    <3>1. reader' = reader \/ (sessions[k] # None /\ reader' = Stopped(sessions[k].h))
      BY <1>4 DEF RebindStop
    <3> QED BY <2>1, <3>1, StoppedType
  <2>3. overtaken' \in BOOLEAN
    BY <1>4 DEF RebindStop
  <2> QED BY <1>4, <2>2, <2>3 DEF RebindStop
<1>5. CASE RebindFile(r)
  <2>1. k \in Ports /\ rebind[r].h \in Handles
    BY <1>0, <1>5 DEF RebindFile, Steady, RebindsSteady
  <2>2. sessions[k] # None => [sessions[k] EXCEPT !.h = rebind[r].h] \in SessionRecords
    BY <2>1, SessionType
  <2>3. sessions' \in [Ports -> SessionRecords \cup {None}]
    BY <1>5, <2>1, <2>2 DEF RebindFile
  <2> QED BY <1>5, <2>1, <2>3 DEF RebindFile
<1>6. CASE RebindAlias(r)
  <2>1. k \in Ports /\ Head(rebind[r].queue).to \in Ports
    BY <1>0, <1>6, QueueType DEF RebindAlias
  <2> QED BY <1>6, <2>1, BumpType DEF RebindAlias
<1> QED BY <1>1, <1>2, <1>3, <1>4, <1>5, <1>6 DEF Rebind

LEMMA TypeStep == TypeOK /\ Steady /\ [Next]_vars => TypeOK' /\ Steady'
<1> SUFFICES ASSUME TypeOK, Steady, [Next]_vars PROVE TypeOK' /\ Steady'
  OBVIOUS
<1>1. MapsTypeOK'
  <2> USE DEF TypeOK, MapsTypeOK, usb, maps, threads
  <2>1. ASSUME NEW p \in Ports, NEW x \in Closers, ForceClose(x, p) \/ Preempt(x, p)
        PROVE  MapsTypeOK'
    BY <2>1 DEF ForceClose, Preempt
  <2>2. ASSUME NEW h \in Handles, ReaderEnds(h) PROVE MapsTypeOK'
    BY <2>2 DEF ReaderEnds
  <2>3. CASE UNCHANGED vars
    BY <2>3 DEF vars
  <2>4. Refresh => MapsTypeOK'
    BY UsbType
  <2> HIDE DEF MapsTypeOK, TypeOK
  <2> QED BY <2>1, <2>2, <2>3, <2>4, UsbType, ConnMapsType, CloseMapsType, RebindMapsType DEF Next
<1> QED BY <1>1, HandlersStep DEF TypeOK, MapsTypeOK, ConnRecords, CloseRecords, RebindRecords

LEMMA InitType == Init => TypeOK /\ Steady
<1> SUFFICES ASSUME Init PROVE TypeOK /\ Steady
  OBVIOUS
<1> USE Constants, Idle
<1>1. [pc |-> "start", h |-> None, key |-> None, rx |-> None] \in ConnRecords
  BY DEF ConnRecords, ConnSteps
<1>2. moves \in Seq(MoveRecords)
  BY EmptySeq DEF Init
<1>3. /\ conn \in [Conns -> ConnRecords]
      /\ close \in [Conns \cup Closers -> CloseRecords]
      /\ rebind \in [Rebinders -> RebindRecords]
  BY <1>1 DEF Init
<1>5. MapsTypeOK
  <2>1. 0 \in 0 .. MaxHops /\ 0 \in 0 .. MaxOpens /\ 0 \in Nat
    OBVIOUS
  <2>2. overtaken \in BOOLEAN
    BY Zenon DEF Init
  <2>3. /\ device \in [Handles -> 0 .. MaxHops] /\ opened \in 0 .. MaxOpens
        /\ hops \in 0 .. MaxHops /\ at \in Ports /\ known \in Ports
    BY <2>1 DEF Init
  <2>4. /\ sessions \in [Ports -> SessionRecords \cup {None}]
        /\ broadcasters \in [Ports -> Handles \cup {None}]
        /\ close_generations \in [Ports -> Nat]
        /\ port_aliases \in [Ports -> Ports \cup {None}]
    BY <2>1 DEF Init
  <2>5. /\ reader \in [Handles -> {"none", "running", "stopping", "dead"}]
        /\ tx \in [Handles -> Handles \cup {None}]
        /\ timer \in [Conns -> Timers \cup {None}]
    BY DEF Init
  <2> QED BY <1>2, <2>2, <2>3, <2>4, <2>5 DEF MapsTypeOK
<1>6. TypeOK
  BY <1>3, <1>5 DEF TypeOK, MapsTypeOK, ConnRecords, CloseRecords, RebindRecords
<1>4. Steady
  BY DEF Init, Steady, ConnsSteady, ClosesSteady, RebindsSteady
<1> QED BY <1>4, <1>6

\* The maps, handles, handlers, closes and rebinds keep their types.
THEOREM TypeCorrect == Spec => []TypeOK
  BY InitType, TypeStep, PTL DEF Spec
-----------------------------------------------------------------------------
(***************************************************************************)
(* Every open handle has one place: a session, or an open or a rebind      *)
(* about to file it.  A handle that is opened next is thus nobody's.       *)
(***************************************************************************)
HandlesOnce ==
  /\ \A p \in Ports : sessions[p] # None => sessions[p].h <= opened
  /\ \A c \in Conns : conn[c].h # None =>
        /\ conn[c].h <= opened
        /\ \A p \in Ports : sessions[p] # None => sessions[p].h # conn[c].h
        /\ \A e \in Conns : conn[e].h = conn[c].h => e = c
        /\ \A r \in Rebinders : rebind[r].h # conn[c].h
  /\ \A r \in Rebinders : rebind[r].h # None =>
        /\ rebind[r].h <= opened
        /\ \A p \in Ports : sessions[p] # None => sessions[p].h # rebind[r].h
        /\ \A s \in Rebinders : rebind[s].h = rebind[r].h => s = r

\* No handle goes anywhere, except that it may be dropped.
HandlesStay ==
  /\ opened' = opened
  /\ \A p \in Ports : \/ sessions'[p] = None
                      \/ sessions[p] # None /\ sessions'[p].h = sessions[p].h
  /\ \A c \in Conns : conn'[c].h \in {None, conn[c].h}
  /\ \A r \in Rebinders : rebind'[r].h \in {None, rebind[r].h}

LEMMA StayingIsOnce == HandlesOnce /\ HandlesStay => HandlesOnce'
  BY DEF HandlesOnce, HandlesStay

\* The same sessions, with the same handles; their clients may differ.
SessionsSame ==
  \A p \in Ports : /\ sessions'[p] = None <=> sessions[p] = None
                   /\ sessions[p] # None => sessions'[p].h = sessions[p].h

LEMMA ClientsOnly ==
  ASSUME TypeOK, NEW k \in Ports, sessions[k] # None, NEW m \in SUBSET Conns,
         sessions' = [sessions EXCEPT ![k].clients = m]
  PROVE  SessionsSame
<1>1. sessions \in [Ports -> SessionRecords \cup {None}] /\ sessions[k] \in SessionRecords
  BY DEF TypeOK
<1>2. sessions' = [sessions EXCEPT ![k] = [sessions[k] EXCEPT !.clients = m]]
  OBVIOUS
<1>3. sessions'[k].h = sessions[k].h /\ sessions'[k] \in SessionRecords
  BY <1>1, <1>2 DEF SessionRecords
<1>4. sessions'[k] # None
  BY <1>3, Constants
<1> QED BY <1>1, <1>2, <1>3, <1>4 DEF SessionsSame

LEMMA RegisterKeeps ==
  ASSUME TypeOK, Steady, NEW c \in Conns, Register(c) \/ Detach(c) PROVE SessionsSame
<1>1. sessions' = sessions => SessionsSame
  BY DEF SessionsSame
<1>2. CASE Register(c)
  <2> DEFINE k == conn[c].key
  <2>1. k \in Ports
    BY <1>2 DEF Register, Steady, ConnsSteady
  <2>2. sessions[k] # None => sessions[k].clients \cup {c} \in SUBSET Conns
    BY <2>1 DEF TypeOK, SessionRecords
  <2> QED BY <1>1, <1>2, <2>1, <2>2, ClientsOnly DEF Register
<1>3. CASE Detach(c)
  <2> DEFINE k == Key(PortOf[c])
  <2>1. k \in Ports
    BY KeyType, Constants
  <2>2. sessions[k] # None => sessions[k].clients \ {c} \in SUBSET Conns
    BY <2>1 DEF TypeOK, SessionRecords
  <2> QED BY <1>1, <1>3, <2>1, <2>2, ClientsOnly DEF Detach
<1> QED BY <1>2, <1>3

-----------------------------------------------------------------------------
(***************************************************************************)
(* A connection leaves at most one timer behind, and only when it is done: *)
(* a timer never starts a close in the place of another.                   *)
(***************************************************************************)
TimersOnce ==
  \A c \in Conns : \/ conn[c].pc # "done" /\ timer[c] = None /\ close[c].pc = "off"
                   \/ conn[c].pc = "done" /\ (timer[c] # None => close[c].pc = "off")

\* A connection whose handler is at work, and no other.
LEMMA ConnAlone ==
  ASSUME TypeOK, NEW c \in Conns, Connection(c), ~TimerFires(c)
  PROVE  /\ \A e \in Conns : e # c => conn'[e] = conn[e]
         /\ conn[c].pc # "done"
         /\ close' = close /\ rebind' = rebind /\ port_aliases' = port_aliases
         /\ ~Grace(c) => timer' = timer
  BY DEF TypeOK, Connection, OpenStart, OpenPhysical, OpenFails, OpenPublish, OpenInsert, Attach,
         Register, Leave, Detach, Grace, Goto, maps

LEMMA CloseAlone ==
  ASSUME TypeOK, NEW x \in Conns \cup Closers, Close(x)
  PROVE  /\ \A y \in Conns \cup Closers : y # x => close'[y] = close[y]
         /\ close[x].pc # "off"
         /\ UNCHANGED <<conn, timer, rebind, opened>>
  BY DEF TypeOK, Close, PreemptGuard, CloseRemove, CloseDrop, CloseChannel, CloseAliases, Closing,
         threads

LEMMA RebindAlone ==
  ASSUME TypeOK, NEW r \in Rebinders, Rebind(r)
  PROVE  /\ \A s \in Rebinders : s # r => rebind'[s] = rebind[s]
         /\ UNCHANGED <<conn, timer, close>>
  BY DEF TypeOK, Rebind, Drain, RebindStart, RebindOpen, RebindOpenFails, RebindStop, RebindFile,
         RebindAlias, Answered

LEMMA CloserAlone ==
  ASSUME TypeOK, NEW p \in Ports, NEW x \in Closers, ForceClose(x, p) \/ Preempt(x, p)
  PROVE  /\ \A y \in Conns \cup Closers : y # x => close'[y] = close[y]
         /\ close[x].pc = "off"
         /\ UNCHANGED <<conn, timer, rebind, sessions, opened, reader, port_aliases, overtaken>>
  BY Idle DEF TypeOK, ForceClose, Preempt, Closing, maps, threads

LEMMA TimerAlone ==
  ASSUME TypeOK, NEW c \in Conns, TimerFires(c)
  PROVE  /\ \A y \in Conns \cup Closers : y # c => close'[y] = close[y]
         /\ timer[c] # None /\ timer' = [timer EXCEPT ![c] = None]
         /\ UNCHANGED <<conn, rebind, sessions, opened, reader, port_aliases, overtaken>>
  BY DEF TypeOK, TimerFires, Closing, maps, threads

LEMMA TimersStep ==
  TypeOK /\ Steady /\ TimersOnce /\ [Next]_vars => TimersOnce'
<1> SUFFICES ASSUME TypeOK, Steady, TimersOnce, [Next]_vars PROVE TimersOnce'
  OBVIOUS
<1> USE Constants
<1>1. CASE UNCHANGED <<conn, timer, close>>
  BY <1>1 DEF TimersOnce
<1>2. ASSUME NEW c \in Conns, Connection(c) PROVE TimersOnce'
  <2>1. CASE TimerFires(c)
    BY <2>1, TimerAlone DEF TimersOnce, TypeOK
  <2>2. CASE Grace(c)
    <3>1. conn'[c].pc = "done" /\ \A e \in Conns : e # c => timer'[e] = timer[e]
      BY <2>2 DEF Grace, Goto, TypeOK
    <3>2. CASE TimerFires(c)
      BY <2>1, <3>2
    <3> QED BY <1>2, <3>1, <3>2, ConnAlone DEF TimersOnce
  <2>3. CASE ~TimerFires(c) /\ ~Grace(c)
    BY <1>2, <2>3, ConnAlone DEF TimersOnce
  <2> QED BY <2>1, <2>2, <2>3
<1>3. ASSUME NEW x \in Conns \cup Closers, Close(x) PROVE TimersOnce'
  BY <1>3, CloseAlone DEF TimersOnce
<1>4. ASSUME NEW p \in Ports, NEW x \in Closers, ForceClose(x, p) \/ Preempt(x, p)
      PROVE  TimersOnce'
  BY <1>4, CloserAlone DEF TimersOnce
<1>5. ASSUME NEW r \in Rebinders, Rebind(r) PROVE TimersOnce'
  BY <1>1, <1>5, RebindAlone
<1>6. Refresh \/ UNCHANGED vars \/ (\E p \in Ports : Hop(p)) \/ (\E h \in Handles : ReaderEnds(h))
        => TimersOnce'
  BY <1>1 DEF Refresh, Hop, ReaderEnds, vars
<1> QED BY <1>2, <1>3, <1>4, <1>5, <1>6 DEF Next
-----------------------------------------------------------------------------
LEMMA ConnHandles ==
  ASSUME TypeOK, Steady, HandlesOnce, NEW c \in Conns, Connection(c) PROVE HandlesOnce'
<1> USE Constants
<1>0. conn' \in [Conns -> ConnRecords] /\ ConnsSteady' /\ conn \in [Conns -> ConnRecords]
  BY ConnStep DEF TypeOK, ConnRecords
<1>1. CASE OpenPhysical(c)
  <2>1. /\ opened' = opened + 1 /\ sessions' = sessions /\ rebind' = rebind
        /\ conn'[c].h = opened + 1 /\ \A e \in Conns : e # c => conn'[e].h = conn[e].h
    BY <1>0, <1>1 DEF OpenPhysical, Opens, maps
  <2>2. /\ opened \in Nat
        /\ \A p \in Ports : sessions[p] # None => sessions[p].h \in Nat
        /\ \A e \in Conns : conn[e].h # None => conn[e].h \in Nat
        /\ \A r \in Rebinders : rebind[r].h # None => rebind[r].h \in Nat
    BY DEF TypeOK, SessionRecords, Handles
  <2>3. opened + 1 # None
    BY <1>0, <1>1, <2>1 DEF ConnsSteady, OpenPhysical
  <2> QED BY <2>1, <2>2, <2>3 DEF HandlesOnce
<1>2. CASE OpenInsert(c)
  <2> DEFINE p == PortOf[c]
  <2>1. conn[c].h \in Handles /\ p \in Ports
    BY <1>2 DEF OpenInsert, Steady, ConnsSteady, TypeOK
  <2>2. /\ opened' = opened /\ rebind' = rebind /\ conn'[c].h = None
        /\ \A e \in Conns : e # c => conn'[e].h = conn[e].h
    BY <1>0, <1>2 DEF OpenInsert, threads
  <2>3. sessions'[p].h = conn[c].h /\ \A q \in Ports : q # p => sessions'[q] = sessions[q]
    BY <1>2, <2>1 DEF OpenInsert, TypeOK
  <2> QED BY <2>1, <2>2, <2>3 DEF HandlesOnce
<1>3. CASE ~OpenPhysical(c) /\ ~OpenInsert(c)
  <2>1. rebind' = rebind /\ opened' = opened
    BY <1>3 DEF Connection, OpenStart, OpenFails, OpenPublish, Attach, Register, Leave,
                Detach, Grace, TimerFires, threads
  <2>2. \A e \in Conns : conn'[e].h \in {None, conn[e].h}
    <3>1. conn'[c].h \in {None, conn[c].h}
      <4>1. CASE Attach(c)
        BY <1>0, <4>1 DEF Attach, ConnRecords
      <4>2. CASE ~Attach(c)
        BY <1>0, <1>3, <4>2 DEF Connection, OpenStart, OpenFails, OpenPublish, Register, Leave,
                  Detach, Grace, TimerFires, Goto, ConnRecords
      <4> QED BY <4>1, <4>2
    <3>2. TimerFires(c) => conn' = conn
      BY DEF TimerFires
    <3> QED BY <3>1, <3>2, ConnAlone
  <2>3. SessionsSame
    <3>1. sessions' = sessions \/ Register(c) \/ Detach(c)
      BY <1>3 DEF Connection, OpenStart, OpenFails, OpenPublish, Attach, Leave,
                  Grace, TimerFires, maps
    <3> QED BY <3>1, RegisterKeeps DEF SessionsSame
  <2> QED BY <2>1, <2>2, <2>3, StayingIsOnce DEF SessionsSame, HandlesStay
<1> QED BY <1>1, <1>2, <1>3

LEMMA RebindHandles ==
  ASSUME TypeOK, Steady, HandlesOnce, NEW r \in Rebinders, Rebind(r) PROVE HandlesOnce'
<1> USE Constants
<1>0. /\ rebind' \in [Rebinders -> RebindRecords] /\ RebindsSteady'
      /\ \A s \in Rebinders : s # r => rebind'[s] = rebind[s]
      /\ conn' = conn
      /\ rebind \in [Rebinders -> RebindRecords]
  BY RebindStep, RebindAlone DEF TypeOK, RebindRecords
<1>1. CASE RebindOpen(r)
  <2>1. opened' = opened + 1 /\ sessions' = sessions /\ rebind'[r].h = opened + 1
    BY <1>0, <1>1 DEF RebindOpen, Opens, maps, RebindRecords
  <2>2. /\ opened \in Nat
        /\ \A p \in Ports : sessions[p] # None => sessions[p].h \in Nat
        /\ \A e \in Conns : conn[e].h # None => conn[e].h \in Nat
        /\ \A s \in Rebinders : rebind[s].h # None => rebind[s].h \in Nat
    BY DEF TypeOK, SessionRecords, Handles
  <2>3. opened + 1 # None
    BY <1>1 DEF RebindOpen, CanOpen, TypeOK, Handles
  <2> QED BY <1>0, <2>1, <2>2, <2>3 DEF HandlesOnce
<1>2. CASE RebindFile(r)
  <2> DEFINE k == rebind[r].key
  <2>1. k \in Ports /\ rebind[r].h # None /\ rebind[r].h \in Handles
    BY <1>2 DEF RebindFile, Steady, RebindsSteady, TypeOK
  <2>2. opened' = opened /\ rebind'[r].h = None
    BY <1>0, <1>2 DEF RebindFile, RebindRecords
  <2>3. /\ \A p \in Ports : p # k => sessions'[p] = sessions[p]
        /\ sessions[k] = None => sessions'[k] = None
        /\ sessions[k] # None => sessions'[k].h = rebind[r].h
    <3>1. CASE sessions[k] = None
      BY <1>2, <3>1 DEF RebindFile
    <3>2. CASE sessions[k] # None
      <4>1. sessions' = [sessions EXCEPT ![k] = [sessions[k] EXCEPT !.h = rebind[r].h]]
        BY <1>2, <3>2 DEF RebindFile
      <4>2. sessions[k] \in SessionRecords /\ sessions \in [Ports -> SessionRecords \cup {None}]
        BY <2>1, <3>2 DEF TypeOK
      <4> QED BY <2>1, <3>2, <4>1, <4>2 DEF SessionRecords
    <3> QED BY <3>1, <3>2
  <2> QED BY <1>0, <2>1, <2>2, <2>3 DEF HandlesOnce
<1>3. CASE ~RebindOpen(r) /\ ~RebindFile(r)
  <2>1. sessions' = sessions /\ opened' = opened
    BY <1>3 DEF Rebind, Drain, RebindStart, RebindOpenFails, RebindStop, RebindAlias, maps, threads
  <2>2. rebind'[r].h \in {None, rebind[r].h}
    <3>1. CASE Answered(r) /\ rebind[r].pc # "off"
      BY <3>1, AnsweredType
    <3>2. CASE ~(Answered(r) /\ rebind[r].pc # "off")
      BY <1>0, <1>3, <3>2 DEF Rebind, Drain, RebindStart, RebindOpenFails, RebindStop, RebindAlias,
                              RebindRecords
    <3> QED BY <3>1, <3>2
  <2> QED BY <1>0, <2>1, <2>2, StayingIsOnce DEF HandlesStay
<1> QED BY <1>1, <1>2, <1>3

LEMMA HandlesStep ==
  TypeOK /\ Steady /\ HandlesOnce /\ [Next]_vars => HandlesOnce'
<1> SUFFICES ASSUME TypeOK, Steady, HandlesOnce, [Next]_vars PROVE HandlesOnce'
  OBVIOUS
<1>1. ASSUME NEW x \in Conns \cup Closers, Close(x) PROVE HandlesOnce'
  <2>1. \A p \in Ports : sessions'[p] \in {None, sessions[p]}
    BY <1>1 DEF Close, PreemptGuard, CloseRemove, CloseDrop, CloseChannel, CloseAliases, maps, TypeOK
  <2> QED BY <1>1, <2>1, CloseAlone, StayingIsOnce DEF HandlesStay
<1>2. ASSUME NEW p \in Ports, NEW x \in Closers, ForceClose(x, p) \/ Preempt(x, p)
      PROVE  HandlesOnce'
  BY <1>2, CloserAlone, StayingIsOnce DEF HandlesStay
<1>3. Refresh \/ UNCHANGED vars \/ (\E p \in Ports : Hop(p)) \/ (\E h \in Handles : ReaderEnds(h))
        => HandlesOnce'
  BY StayingIsOnce DEF Refresh, Hop, ReaderEnds, vars, maps, threads, HandlesStay
<1> QED BY <1>1, <1>2, <1>3, ConnHandles, RebindHandles DEF Next
-----------------------------------------------------------------------------
(***************************************************************************)
(* Until a rebind is overtaken: the session of a rebind that has stopped   *)
(* its reader stays, its reader stays stopped until the new one starts, no *)
(* other rebind works on it, and every running reader has an owner.        *)
(***************************************************************************)
Working(r) == rebind[r].pc \in {"file", "alias"}

SessionsKept ==
  \A r \in Rebinders : Working(r) =>
    /\ sessions[rebind[r].key] # None
    /\ rebind[r].pc = "file" => reader[sessions[rebind[r].key].h] # "running"
    /\ \A s \in Rebinders : Working(s) /\ rebind[s].key = rebind[r].key => s = r

ReadersOwned == \A h \in Handles : reader[h] = "running" => Owned(h)

\* A close that takes down the session it has removed, with its aliases.
TakesDown(x) == close[x].pc \in {"join", "channel", "aliases"}

Served(k) ==
  \/ sessions[k] # None
  \/ \E x \in Conns \cup Closers : close[x].key = k /\ TakesDown(x)

AliasesServed == \A p \in Ports : port_aliases[p] # None => Served(port_aliases[p])

Undisturbed == SessionsKept /\ ReadersOwned /\ AliasesServed

RebindInv ==
  /\ TypeOK /\ Steady /\ TimersOnce /\ HandlesOnce
  /\ ~overtaken => Undisturbed

\* Nothing that the invariant is about gets worse.
Calm ==
  /\ SessionsSame
  /\ \A h \in Handles : reader'[h] = "running" => reader[h] = "running"
  /\ \A c \in Conns : conn[c].pc = "insert" => conn'[c] = conn[c]
  /\ \A r \in Rebinders : Working(r)' => rebind'[r] = rebind[r]
  /\ \A p \in Ports : port_aliases'[p] \in {None, port_aliases[p]}
  /\ \A x \in Conns \cup Closers : TakesDown(x) => TakesDown(x)' /\ close'[x].key = close[x].key

LEMMA OwnersStay ==
  ASSUME SessionsSame, \A c \in Conns : conn[c].pc = "insert" => conn'[c] = conn[c],
         NEW h \in Handles, Owned(h)
  PROVE  Owned(h)'
  BY DEF SessionsSame, Owned

LEMMA CalmIsUndisturbed ==
  ASSUME TypeOK, Steady, Undisturbed, Calm PROVE Undisturbed'
<1> USE DEF Undisturbed
<1>1. ReadersOwned'
  BY OwnersStay DEF Calm, ReadersOwned
<1>2. SessionsKept'
  <2> SUFFICES ASSUME NEW r \in Rebinders, Working(r)'
               PROVE  /\ sessions'[rebind'[r].key] # None
                      /\ rebind'[r].pc = "file" => reader'[sessions'[rebind'[r].key].h] # "running"
                      /\ \A s \in Rebinders : Working(s)' /\ rebind'[s].key = rebind'[r].key => s = r
    BY DEF SessionsKept
  <2>1. rebind'[r] = rebind[r] /\ Working(r) /\ rebind[r].key \in Ports
    BY DEF Calm, Working, Steady, RebindsSteady
  <2>2. sessions[rebind[r].key] # None /\ sessions[rebind[r].key].h \in Handles
    BY <2>1, SessionType DEF SessionsKept
  <2>3. sessions'[rebind[r].key] # None /\ sessions'[rebind[r].key].h = sessions[rebind[r].key].h
    BY <2>1, <2>2 DEF Calm, SessionsSame
  <2>4. \A s \in Rebinders : Working(s)' => rebind'[s] = rebind[s] /\ Working(s)
    BY DEF Calm, Working
  <2> QED BY <2>1, <2>2, <2>3, <2>4 DEF Calm, SessionsKept
<1>3. AliasesServed'
  <2> SUFFICES ASSUME NEW p \in Ports, NEW k \in Ports, port_aliases[p] = k PROVE Served(k)'
    BY Constants DEF AliasesServed, Calm, TypeOK
  <2>1. Served(k)
    BY Constants DEF AliasesServed
  <2> QED BY <2>1 DEF Served, Calm, SessionsSame
<1> QED BY <1>1, <1>2, <1>3

\* The steps that leave everything calm.
LEMMA ConnCalm ==
  ASSUME RebindInv, NEW c \in Conns, Connection(c), ~OpenPublish(c), ~OpenInsert(c) PROVE Calm
<1> USE Constants DEF RebindInv
<1>1. CASE TimerFires(c)
  <2>1. close[c].pc = "off"
    BY <1>1, TimerAlone DEF TimersOnce
  <2> QED BY <1>1, <2>1, TimerAlone DEF Calm, SessionsSame, Working, TakesDown
<1>2. CASE ~TimerFires(c)
  <2>1. conn[c].pc # "insert" /\ reader' = reader
    BY <1>2 DEF Connection, OpenStart, OpenPhysical, OpenFails, Attach, Register, Leave,
                Detach, Grace, Opens, threads
  <2>2. SessionsSame
    <3>1. sessions' = sessions \/ Register(c) \/ Detach(c)
      BY <1>2 DEF Connection, OpenStart, OpenPhysical, OpenFails, Attach, Leave, Grace, maps
    <3> QED BY <3>1, RegisterKeeps DEF SessionsSame
  <2> QED BY <1>2, <2>1, <2>2, ConnAlone DEF Calm, Working, TakesDown
<1> QED BY <1>1, <1>2

LEMMA CloseCalm ==
  ASSUME RebindInv, NEW x \in Conns \cup Closers, Close(x), ~CloseRemove(x), ~CloseAliases(x)
  PROVE  Calm
<1> USE DEF RebindInv
<1>1. UNCHANGED <<sessions, reader, port_aliases>>
  BY DEF Close, PreemptGuard, CloseDrop, CloseChannel, maps, threads
<1>2. TakesDown(x) => TakesDown(x)' /\ close'[x].key = close[x].key
  <2>1. close \in [Conns \cup Closers -> CloseRecords]
    BY DEF TypeOK, CloseRecords
  <2> QED BY <2>1 DEF Close, PreemptGuard, CloseDrop, CloseChannel, TakesDown, CloseRecords
<1> QED BY <1>1, <1>2, CloseAlone DEF Calm, SessionsSame, Working, TakesDown

LEMMA RebindCalm ==
  ASSUME RebindInv, NEW r \in Rebinders, Rebind(r), ~RebindStop(r), ~RebindFile(r), ~RebindAlias(r)
  PROVE  Calm
<1> USE DEF RebindInv
<1>1. UNCHANGED <<sessions, reader, port_aliases>>
  BY DEF Rebind, Drain, RebindStart, RebindOpen, RebindOpenFails, Opens, maps, threads
<1>2. ~Working(r)'
  <2>1. rebind \in [Rebinders -> RebindRecords]
    BY DEF TypeOK, RebindRecords
  <2>2. CASE Answered(r) /\ rebind[r].pc # "off"
    BY <2>2, AnsweredType DEF Working
  <2>3. CASE ~(Answered(r) /\ rebind[r].pc # "off")
    BY <2>1, <2>3 DEF Rebind, Drain, RebindStart, RebindOpen, RebindOpenFails, Working, RebindRecords
  <2> QED BY <2>2, <2>3
<1> QED BY <1>1, <1>2, RebindAlone DEF Calm, SessionsSame, Working, TakesDown

LEMMA WorldCalm ==
  ASSUME RebindInv,
         \/ Refresh \/ UNCHANGED vars
         \/ \E p \in Ports : Hop(p) \/ \E x \in Closers : ForceClose(x, p) \/ Preempt(x, p)
         \/ \E h \in Handles : ReaderEnds(h)
  PROVE  Calm
<1> USE DEF RebindInv
<1>1. ASSUME NEW p \in Ports, NEW x \in Closers, ForceClose(x, p) \/ Preempt(x, p) PROVE Calm
  BY <1>1, CloserAlone DEF Calm, SessionsSame, Working, TakesDown
<1>2. CASE Refresh \/ UNCHANGED vars \/ \E p \in Ports : Hop(p)
  BY <1>2 DEF Refresh, Hop, vars, maps, threads, Calm, SessionsSame, Working, TakesDown
<1>3. ASSUME NEW h \in Handles, ReaderEnds(h) PROVE Calm
  BY <1>3 DEF ReaderEnds, vars, maps, threads, Calm, SessionsSame, Working, TakesDown, TypeOK
<1> QED BY <1>1, <1>2, <1>3

\* The reader that is started has an owner, and its handle is in no session.
LEMMA PublishUndisturbed ==
  ASSUME RebindInv, Undisturbed, NEW c \in Conns, OpenPublish(c) PROVE Undisturbed'
<1> USE DEF RebindInv, Undisturbed
<1> DEFINE h == conn[c].h
<1>1. /\ conn[c].pc = "publish" /\ h \in Handles
      /\ reader' = [reader EXCEPT ![h] = "running"]
      /\ UNCHANGED <<sessions, port_aliases, close, rebind>>
      /\ conn' = [conn EXCEPT ![c].pc = "insert"]
  BY DEF OpenPublish, Goto, Steady, ConnsSteady, TypeOK
<1>2. /\ conn'[c].pc = "insert" /\ conn'[c].h = h
      /\ \A e \in Conns : conn[e].pc = "insert" => conn'[e] = conn[e]
  BY <1>1 DEF TypeOK
<1>3. ReadersOwned'
  <2> SUFFICES ASSUME NEW g \in Handles, reader'[g] = "running" PROVE Owned(g)'
    BY DEF ReadersOwned
  <2>1. CASE g = h
    BY <1>2, <2>1 DEF Owned
  <2>2. CASE g # h
    <3>1. Owned(g) /\ SessionsSame
      BY <1>1, <2>2 DEF ReadersOwned, SessionsSame, TypeOK
    <3> QED BY <1>2, <3>1, OwnersStay
  <2> QED BY <2>1, <2>2
<1>4. SessionsKept'
  <2>1. \A r \in Rebinders : Working(r) =>
          rebind[r].key \in Ports /\ sessions[rebind[r].key].h # h
    BY <1>1 DEF Working, SessionsKept, HandlesOnce, Steady, ConnsSteady, RebindsSteady
  <2>2. \A g \in Handles : g # h => reader'[g] = reader[g]
    BY <1>1 DEF TypeOK
  <2>3. \A r \in Rebinders : Working(r) => sessions[rebind[r].key].h \in Handles
    BY <2>1, SessionType DEF SessionsKept
  <2> QED BY <1>1, <2>1, <2>2, <2>3 DEF SessionsKept, Working
<1>5. AliasesServed'
  BY <1>1 DEF AliasesServed, Served, TakesDown
<1> QED BY <1>3, <1>4, <1>5

\* A session is filed where there is none and no rebind is under way.
LEMMA InsertUndisturbed ==
  ASSUME RebindInv, Undisturbed, ~overtaken', NEW c \in Conns, OpenInsert(c) PROVE Undisturbed'
<1> USE Constants DEF RebindInv, Undisturbed
<1> DEFINE p == PortOf[c]
<1>1. /\ p \in Ports /\ sessions[p] = None /\ ~UnderWay(p)
      /\ UNCHANGED <<reader, port_aliases, close, rebind>>
  BY DEF OpenInsert, threads
<1>2. /\ sessions'[p].h = conn[c].h /\ sessions'[p] # None
      /\ \A q \in Ports : q # p => sessions'[q] = sessions[q]
      /\ \A e \in Conns : e # c => conn'[e] = conn[e]
  <2>1. [h |-> conn[c].h, clients |-> {}] \in SessionRecords
    BY DEF OpenInsert, Steady, ConnsSteady, TypeOK, SessionRecords
  <2> QED BY <2>1 DEF OpenInsert, TypeOK
<1>3. ReadersOwned'
  BY <1>1, <1>2 DEF ReadersOwned, Owned
<1>4. SessionsKept'
  BY <1>1, <1>2 DEF SessionsKept, Working, UnderWay, Steady, RebindsSteady
<1>5. AliasesServed'
  <2>1. \A q \in Ports : Served(q) => Served(q)'
    BY <1>1, <1>2 DEF Served, TakesDown
  <2> QED BY <1>1, <2>1 DEF AliasesServed, TypeOK
<1> QED BY <1>3, <1>4, <1>5
\* A close takes down a session that no rebind works on, and stops its reader.
LEMMA RemoveUndisturbed ==
  ASSUME RebindInv, Undisturbed, ~overtaken', NEW x \in Conns \cup Closers, CloseRemove(x)
  PROVE  Undisturbed'
<1> USE Constants DEF RebindInv, Undisturbed
<1>0. PICK k \in Ports : k = close[x].key
  BY DEF CloseRemove, Steady, ClosesSteady
<1>1. /\ UNCHANGED <<port_aliases, conn, rebind>>
      /\ \A q \in Ports : q # k => sessions'[q] = sessions[q]
      /\ \A g \in Handles : reader'[g] = "running" => reader[g] = "running"
  BY <1>0 DEF CloseRemove, TypeOK, Stopped
<1>2. /\ close'[x].key = k /\ TakesDown(x)' /\ ~TakesDown(x)
      /\ \A y \in Conns \cup Closers : y # x => close'[y] = close[y]
  BY <1>0 DEF CloseRemove, TypeOK, TakesDown
<1>3. AliasesServed'
  <2>1. \A q \in Ports : Served(q) => Served(q)'
    BY <1>1, <1>2 DEF Served, TakesDown
  <2> QED BY <1>1, <2>1 DEF AliasesServed, TypeOK
<1>4. CASE sessions[k] = None
  <2>1. sessions' = sessions
    BY <1>0, <1>4 DEF CloseRemove
  <2>2. ReadersOwned'
    BY <1>1, <2>1 DEF ReadersOwned, Owned
  <2>3. SessionsKept'
    <3>1. \A r \in Rebinders : Working(r) => sessions[rebind[r].key].h \in Handles
      BY SessionType DEF SessionsKept, Working, Steady, RebindsSteady
    <3> QED BY <1>1, <2>1, <3>1 DEF SessionsKept, Working
  <2> QED BY <1>3, <2>2, <2>3
<1>5. CASE sessions[k] # None
  <2>1. ~UnderWay(k) /\ sessions[k].h \in Handles /\ reader' = Stopped(sessions[k].h)
    BY <1>0, <1>5, SessionType DEF CloseRemove
  <2>2. ReadersOwned'
    <3>1. reader'[sessions[k].h] # "running"
      BY <2>1 DEF Stopped, TypeOK
    <3> QED BY <1>1, <3>1 DEF ReadersOwned, Owned
  <2>3. SessionsKept'
    <3>1. \A r \in Rebinders : Working(r) =>
            /\ rebind[r].key \in Ports /\ rebind[r].key # k
            /\ sessions[rebind[r].key].h \in Handles
      BY <2>1, SessionType DEF SessionsKept, Working, UnderWay, Steady, RebindsSteady
    <3> QED BY <1>1, <3>1 DEF SessionsKept, Working
  <2> QED BY <1>3, <2>2, <2>3
<1> QED BY <1>4, <1>5

\* The aliases of what was taken down go with it.
LEMMA AliasesUndisturbed ==
  ASSUME RebindInv, Undisturbed, NEW x \in Conns \cup Closers, CloseAliases(x)
  PROVE  Undisturbed'
<1> USE Constants DEF RebindInv, Undisturbed
<1>1. /\ UNCHANGED <<sessions, reader, conn, rebind>>
      /\ \A p \in Ports : /\ port_aliases'[p] \in {None, port_aliases[p]}
                          /\ port_aliases[p] = close[x].key => port_aliases'[p] = None
      /\ \A y \in Conns \cup Closers : y # x => close'[y] = close[y]
  BY CloseAlone DEF CloseAliases, Close, threads
<1>2. ReadersOwned' /\ SessionsKept'
  BY <1>1 DEF ReadersOwned, Owned, SessionsKept, Working
<1>3. AliasesServed'
  <2> SUFFICES ASSUME NEW p \in Ports, NEW k \in Ports, port_aliases'[p] = k PROVE Served(k)'
    BY <1>1 DEF AliasesServed, TypeOK
  <2>1. port_aliases[p] = k /\ k # close[x].key
    BY <1>1
  <2>2. Served(k)
    BY <2>1 DEF AliasesServed
  <2> QED BY <1>1, <2>1, <2>2 DEF Served, TakesDown
<1> QED BY <1>2, <1>3

\* The reader of a session that no other rebind works on is stopped.
LEMMA StopUndisturbed ==
  ASSUME RebindInv, Undisturbed, ~overtaken', NEW r \in Rebinders, RebindStop(r)
  PROVE  Undisturbed'
<1> USE Constants DEF RebindInv, Undisturbed
<1> DEFINE k == rebind[r].key
<1>1. /\ UNCHANGED <<sessions, port_aliases, conn, close>> /\ rebind[r].pc = "stop"
      /\ \A s \in Rebinders : s # r => rebind'[s] = rebind[s]
      /\ k \in Ports
  BY RebindAlone DEF RebindStop, Rebind, maps, Steady, RebindsSteady
<1>2. \A g \in Handles : reader'[g] = "running" => reader[g] = "running"
  BY DEF RebindStop, Stopped, TypeOK
<1>3. ReadersOwned' /\ AliasesServed'
  BY <1>1, <1>2 DEF ReadersOwned, Owned, AliasesServed, Served, TakesDown
<1>4. SessionsKept'
  <2>1. \A s \in Rebinders : Working(s) =>
          /\ sessions[rebind[s].key] # None /\ sessions[rebind[s].key].h \in Handles
    BY SessionType DEF SessionsKept, Working, Steady, RebindsSteady
  <2>2. CASE Answered(r)
    <3>1. ~Working(r)'
      BY <1>1, <2>2, AnsweredType DEF Working
    <3> QED BY <1>1, <1>2, <2>1, <3>1 DEF SessionsKept, Working
  <2>3. CASE ~Answered(r)
    <3>1. /\ sessions[k] # None /\ ~UnderWay(k) /\ reader' = Stopped(sessions[k].h)
          /\ rebind' = [rebind EXCEPT ![r].pc = "file", ![r].tx = broadcasters[k]]
      BY <2>3 DEF RebindStop
    <3>2. rebind'[r].key = k
      BY <3>1 DEF TypeOK
    <3>3. sessions[k].h \in Handles
      BY <1>1, <3>1, SessionType
    <3>4. reader'[sessions[k].h] # "running"
      BY <3>1, <3>3 DEF TypeOK, Stopped
    <3>5. \A s \in Rebinders : s # r /\ Working(s) => rebind[s].key # k
      BY <3>1 DEF UnderWay, Working
    <3>6. \A s \in Rebinders : Working(s)' => s = r \/ Working(s)
      BY <1>1 DEF Working
    <3> SUFFICES ASSUME NEW s \in Rebinders, Working(s)'
        PROVE  /\ sessions[rebind'[s].key] # None
               /\ rebind'[s].pc = "file" => reader'[sessions[rebind'[s].key].h] # "running"
               /\ \A t \in Rebinders : Working(t)' /\ rebind'[t].key = rebind'[s].key => t = s
      BY <1>1 DEF SessionsKept
    <3>7. CASE s = r
      BY <1>1, <3>1, <3>2, <3>4, <3>5, <3>6, <3>7
    <3>8. CASE s # r
      <4>1. Working(s) /\ rebind'[s] = rebind[s] /\ rebind[s].key # k
        BY <1>1, <3>5, <3>6, <3>8
      <4>2. sessions[rebind[s].key] # None /\ sessions[rebind[s].key].h \in Handles
        BY <2>1, <4>1
      <4>3. rebind[s].pc = "file" => reader'[sessions[rebind[s].key].h] # "running"
        BY <1>2, <4>1, <4>2 DEF SessionsKept
      <4>4. \A t \in Rebinders : t # r /\ Working(t) /\ rebind[t].key = rebind[s].key => t = s
        BY <4>1 DEF SessionsKept
      <4> QED BY <1>1, <3>2, <3>6, <4>1, <4>2, <4>3, <4>4
    <3> QED BY <3>7, <3>8
  <2> QED BY <2>2, <2>3
<1> QED BY <1>3, <1>4

\* The new handle goes into the session that was kept for it.
LEMMA FileUndisturbed ==
  ASSUME RebindInv, Undisturbed, NEW r \in Rebinders, RebindFile(r) PROVE Undisturbed'
<1> USE Constants DEF RebindInv, Undisturbed
<1> DEFINE h == rebind[r].h
<1>0. PICK k \in Ports : k = rebind[r].key
  BY DEF RebindFile, Steady, RebindsSteady
<1>1. /\ UNCHANGED <<port_aliases, conn, close>> /\ rebind[r].pc = "file"
      /\ \A s \in Rebinders : s # r => rebind'[s] = rebind[s]
      /\ rebind'[r].pc = "alias" /\ rebind'[r].key = k
      /\ h \in Handles /\ reader' = [reader EXCEPT ![h] = "running"]
  <2>1. /\ UNCHANGED <<port_aliases, conn, close>> /\ rebind[r].pc = "file"
        /\ rebind' = [rebind EXCEPT ![r].pc = "alias", ![r].h = None]
        /\ reader' = [reader EXCEPT ![h] = "running"]
    BY DEF RebindFile
  <2>2. rebind[r] \in RebindRecords /\ r \in DOMAIN rebind
    BY DEF TypeOK, RebindRecords
  <2>3. h \in Handles
    BY <2>1, <2>2 DEF RebindRecords, Steady, RebindsSteady
  <2>4. \A s \in Rebinders : s # r => rebind'[s] = rebind[s]
    BY <2>1 DEF TypeOK
  <2>5. rebind'[r].pc = "alias" /\ rebind'[r].key = rebind[r].key
    BY <2>1, <2>2 DEF RebindRecords
  <2> QED BY <1>0, <2>1, <2>3, <2>4, <2>5
<1>2. /\ sessions[k] # None /\ sessions[k].h \in Handles
      /\ reader[sessions[k].h] # "running"
      /\ \A s \in Rebinders : s # r /\ Working(s) => rebind[s].key # k
  BY <1>0, <1>1, SessionType DEF SessionsKept, Working
<1>3. /\ sessions'[k] # None /\ sessions'[k].h = h
      /\ \A q \in Ports : q # k => sessions'[q] = sessions[q]
  <2>1. sessions' = [sessions EXCEPT ![k] = [sessions[k] EXCEPT !.h = h]]
    BY <1>0, <1>2 DEF RebindFile
  <2>2. [sessions[k] EXCEPT !.h = h] \in SessionRecords
    BY <1>1, <1>2, SessionType
  <2>3. [sessions[k] EXCEPT !.h = h].h = h
    BY <1>2, SessionType DEF SessionRecords
  <2> QED BY <2>1, <2>2, <2>3 DEF TypeOK
<1>4. ReadersOwned'
  <2> SUFFICES ASSUME NEW g \in Handles, reader'[g] = "running" PROVE Owned(g)'
    BY DEF ReadersOwned
  <2>1. CASE g = h
    BY <1>3, <2>1 DEF Owned
  <2>2. CASE g # h
    <3>1. reader[g] = "running" /\ Owned(g) /\ g # sessions[k].h
      BY <1>1, <1>2, <2>2 DEF ReadersOwned, TypeOK
    <3> QED BY <1>1, <1>3, <3>1 DEF Owned
  <2> QED BY <2>1, <2>2
<1>5. SessionsKept'
  <2>1. \A s \in Rebinders : s # r /\ Working(s) =>
          /\ rebind[s].key \in Ports /\ rebind[s].key # k
          /\ sessions[rebind[s].key].h \in Handles
          /\ sessions[rebind[s].key].h # h
    BY <1>1, <1>2, SessionType DEF SessionsKept, Working, Steady, RebindsSteady, HandlesOnce
  <2>2. \A g \in Handles : g # h => reader'[g] = reader[g]
    BY <1>1 DEF TypeOK
  <2> QED BY <1>0, <1>1, <1>2, <1>3, <2>1, <2>2 DEF SessionsKept, Working
<1>6. AliasesServed'
  <2>1. \A q \in Ports : Served(q) => Served(q)'
    BY <1>1, <1>3 DEF Served, TakesDown
  <2> QED BY <1>1, <2>1 DEF AliasesServed, TypeOK
<1> QED BY <1>4, <1>5, <1>6

\* The new name stands for a session that is there.
LEMMA AliasUndisturbed ==
  ASSUME RebindInv, Undisturbed, NEW r \in Rebinders, RebindAlias(r) PROVE Undisturbed'
<1> USE Constants DEF RebindInv, Undisturbed
<1> DEFINE k == rebind[r].key
<1>1. /\ UNCHANGED <<sessions, reader, conn, close>> /\ rebind[r].pc = "alias"
      /\ \A s \in Rebinders : s # r => rebind'[s] = rebind[s]
      /\ k \in Ports
  BY RebindAlone DEF RebindAlias, Rebind, threads, Steady, RebindsSteady
<1>2. ~Working(r)'
  BY <1>1, AnsweredType DEF Working, RebindAlias
<1>3. ReadersOwned' /\ SessionsKept'
  BY <1>1, <1>2 DEF ReadersOwned, Owned, SessionsKept, Working
<1>4. AliasesServed'
  <2>1. sessions[k] # None
    BY <1>1 DEF SessionsKept, Working
  <2>2. \A p \in Ports : port_aliases'[p] \in {k, port_aliases[p]}
    BY <1>1, QueueType DEF RebindAlias, TypeOK
  <2>3. \A q \in Ports : Served(q) => Served(q)'
    BY <1>1 DEF Served, TakesDown
  <2>4. \A p \in Ports : port_aliases'[p] = k \/ port_aliases[p] = port_aliases'[p]
    BY <2>2
  <2> SUFFICES ASSUME NEW p \in Ports, NEW q \in Ports, port_aliases'[p] = q PROVE Served(q)'
    BY <1>1, <2>4 DEF AliasesServed, TypeOK
  <2> QED BY <1>1, <2>1, <2>3, <2>4 DEF AliasesServed, Served
<1> QED BY <1>3, <1>4

LEMMA RebindInvStep == RebindInv /\ [Next]_vars => RebindInv'
<1> SUFFICES ASSUME RebindInv, [Next]_vars PROVE RebindInv'
  OBVIOUS
<1>1. TypeOK' /\ Steady' /\ TimersOnce' /\ HandlesOnce'
  BY TypeStep, TimersStep, HandlesStep DEF RebindInv
<1>2. ASSUME ~overtaken' PROVE Undisturbed'
  <2>1. ~overtaken
    <3>1. overtaken' = overtaken \/ overtaken' = TRUE
      BY DEF RebindInv, TypeOK, Next, Refresh, Hop, ForceClose, Preempt, ReaderEnds, Connection,
             OpenStart, OpenPhysical, OpenFails, OpenPublish, OpenInsert, Attach, Register, Leave,
             Detach, Grace, TimerFires, Close, PreemptGuard, CloseRemove, CloseDrop, CloseChannel,
             CloseAliases, Rebind, Drain, RebindStart, RebindOpen, RebindOpenFails, RebindStop,
             RebindFile, RebindAlias, vars
    <3> QED BY <1>2, <3>1
  <2>2. Undisturbed /\ TypeOK /\ Steady
    BY <2>1 DEF RebindInv
  <2>3. CASE Calm
    BY <2>2, <2>3, CalmIsUndisturbed
  <2>4. ASSUME NEW c \in Conns, Connection(c) PROVE Undisturbed'
    BY <1>2, <2>2, <2>3, <2>4, ConnCalm, PublishUndisturbed, InsertUndisturbed
  <2>5. ASSUME NEW x \in Conns \cup Closers, Close(x) PROVE Undisturbed'
    BY <1>2, <2>2, <2>3, <2>5, CloseCalm, RemoveUndisturbed, AliasesUndisturbed
  <2>6. ASSUME NEW r \in Rebinders, Rebind(r) PROVE Undisturbed'
    BY <1>2, <2>2, <2>3, <2>6, RebindCalm, StopUndisturbed, FileUndisturbed, AliasUndisturbed
  <2> QED BY <2>3, <2>4, <2>5, <2>6, WorldCalm DEF Next
<1> QED BY <1>1, <1>2 DEF RebindInv

LEMMA InitInv == Init => RebindInv
<1> SUFFICES ASSUME Init PROVE RebindInv
  OBVIOUS
<1>1. TypeOK /\ Steady
  BY InitType
<1>2. TimersOnce /\ HandlesOnce
  BY Constants, Idle DEF Init, TimersOnce, HandlesOnce
<1>3. Undisturbed
  BY Idle DEF Init, Undisturbed, SessionsKept, Working, ReadersOwned, AliasesServed
<1> QED BY <1>1, <1>2, <1>3 DEF RebindInv

\* Until a rebind is overtaken, every reader that runs belongs to a session or
\* to an open about to file one.
THEOREM NoOrphans == Spec => []NoOrphanReader
<1>1. RebindInv => NoOrphanReader
  BY DEF RebindInv, Undisturbed, ReadersOwned, NoOrphanReader
<1> QED BY <1>1, InitInv, RebindInvStep, PTL DEF Spec

\* Until a rebind is overtaken, an alias stands for a session that is there, or
\* for one that a close is taking down with its aliases.
THEOREM AliasesLeadSomewhere == Spec => []AliasesLead
<1>1. RebindInv => AliasesLead
  BY DEF RebindInv, Undisturbed, AliasesServed, Served, TakesDown, AliasesLead
<1> QED BY <1>1, InitInv, RebindInvStep, PTL DEF Spec
=============================================================================
