-------------------------- MODULE PicoDeployProofs --------------------------
(***************************************************************************)
(* Proofs about the RP2040 deployer, for any boards, names, mount points,  *)
(* attempts and disturbances.                                              *)
(***************************************************************************)
EXTENDS PicoDeploy, TLAPS

\* The parts of TypeOK: the boards, and the deployer.
BoardsOK ==
  /\ mode \in [Boards -> {"off", "boot", "run", "rom"}]
  /\ port \in [Boards -> Ports \cup {None}]
  /\ vol \in [Boards -> Paths \cup {None}]
  /\ image \in [Boards -> Images]
  /\ wedged \subseteq {b \in Boards : vol[b] # None}
  /\ pending \subseteq Handles /\ writers \subseteq Handles
  /\ \A b \in Boards : /\ port[b] # None <=> mode[b] = "run"
                       /\ vol[b] # None => mode[b] = "rom"

DeployerOK ==
  /\ pc \in Steps
  /\ sel \in Selectors
  /\ cat \subseteq Records /\ before \subseteq Paths
  /\ target \in Records \cup {None}
  /\ reset \in Boards \cup {None} /\ goal \in Boards \cup {None}
  /\ serial \in Serials \cup {None}
  /\ volume \in Paths \cup {None}
  /\ way \in {"uf2", "picotool", None}
  /\ tries \in 0 .. MaxTries
  /\ copy \in Copies \cup {None}
  /\ copy # None <=> pc = "copying"
  /\ found \in Ports \cup {None}
  /\ calm \in {"calm", "stirred"}
  /\ astray \in Boards \cup {None} /\ misread \subseteq Boards
  /\ deploys \in Images /\ stirs \in 0 .. MaxStirs

\* A volume of board b is there to be written to.
Rom(b) == mode[b] = "rom" /\ vol[b] # None

\* No two boards have one name.
Apart ==
  \A b, c \in Boards : b # c => /\ port[b] # None => port[b] # port[c]
                                /\ vol[b] # None => vol[b] # vol[c]

\* Every image was brought by a deploy that has begun, and what is handed to a
\* ROM is gone with its volume.
Numbered ==
  /\ \A b \in Boards : image[b] <= deploys
  /\ \A w \in pending \cup writers : w.image <= deploys /\ Rom(w.board)
  /\ pc # "idle" => deploys >= 1

Early == {"ports", "volumes", "resolve", "touch", "watch", "reboot", "rewatch", "prepare"}
Unaimed == goal = None /\ target = None /\ reset = None /\ volume = None

\* What a step of the deployer knows.
Stepped ==
  /\ pc \in {"idle", "ports", "volumes"} => Unaimed
  /\ pc \in {"idle", "ports", "volumes", "resolve", "touch", "watch", "reboot"} => astray = None
  /\ found # None => pc = "ok"
  /\ pc \in Early \cup {"idle"} => tries = 0
  /\ pc \in {"copy", "retry"} => tries < MaxTries
  /\ pc = "load" /\ way = "picotool" => tries = 0
  /\ pc \in {"load", "reboot"} => serial # None
  /\ pc = "touch" => target # None
  /\ pc \in {"copy", "copying"} => volume # None
  /\ copy # None /\ copy.at = "writing" => Rom(copy.board) /\ vol[copy.board] = volume

Base == BoardsOK /\ DeployerOK /\ Apart /\ Numbered /\ Stepped

LEMMA Parts == TypeOK <=> BoardsOK /\ DeployerOK
BY DEF TypeOK, BoardsOK, DeployerOK

LEMMA Constants ==
  /\ None \notin Boards /\ None \notin Ports /\ None \notin Paths
  /\ None \notin Records /\ None \notin Copies
  /\ MaxDeploys \in Nat /\ MaxTries \in Nat \ {0} /\ MaxStirs \in Nat
BY NoneAssumption, BoundAssumption

-----------------------------------------------------------------------------
(* What happens to the boards. *)

Hardware == BoardsOK /\ Apart /\ (\A w \in pending \cup writers : Rom(w.board))

\* A board that takes an image, or is plugged in or out, loses its volume and
\* what was handed to it.
LEMMA LostHandles ==
  ASSUME BoardsOK, NEW b \in Boards, CutOff(b), \A w \in pending \cup writers : Rom(w.board),
         \A c \in Boards \ {b} : mode'[c] = mode[c] /\ vol'[c] = vol[c]
  PROVE  /\ pending' \subseteq pending /\ writers' \subseteq writers
         /\ \A w \in pending' \cup writers' : w.board # b /\ Rom(w.board)'
<1>1. /\ pending' = {p \in pending : p.board # b} /\ writers' = {w \in writers : w.board # b}
  BY DEF CutOff
<1>2. \A w \in pending \cup writers : w.board \in Boards
  BY DEF BoardsOK, Handles
<1> QED BY <1>1, <1>2 DEF Rom

LEMMA FlashHardware ==
  ASSUME Hardware, NEW b \in Boards, NEW i \in Images, mode[b] = "rom", Flash(b, i), port' = port
  PROVE  Hardware'
<1> USE DEF Hardware
<1>1. /\ \A c \in Boards : /\ mode'[c] = IF c = b THEN "boot" ELSE mode[c]
                           /\ vol'[c] = IF c = b THEN None ELSE vol[c]
      /\ mode' \in [Boards -> {"off", "boot", "run", "rom"}]
      /\ vol' \in [Boards -> Paths \cup {None}]
      /\ image' \in [Boards -> Images]
      /\ wedged' = wedged \ {b}
  BY DEF Flash, BoardsOK
<1>2. /\ pending' \subseteq pending /\ writers' \subseteq writers
      /\ \A w \in pending' \cup writers' : Rom(w.board)'
  BY <1>1, LostHandles DEF Flash
<1>3. port[b] = None
  BY DEF BoardsOK
<1>4. BoardsOK'
  BY <1>1, <1>2, <1>3 DEF BoardsOK
<1>5. Apart'
  BY <1>1 DEF Apart
<1> QED BY <1>2, <1>4, <1>5

LEMMA ToRomHardware ==
  ASSUME Hardware, NEW b \in Running, ToRom(b), UNCHANGED <<vol, wedged, image, pending, writers>>
  PROVE  Hardware'
<1> USE DEF Hardware
<1>1. b \in Boards /\ mode[b] = "run" /\ vol[b] = None
  BY DEF Running, BoardsOK
<1>2. /\ \A c \in Boards : /\ mode'[c] = IF c = b THEN "rom" ELSE mode[c]
                           /\ port'[c] = IF c = b THEN None ELSE port[c]
      /\ mode' \in [Boards -> {"off", "boot", "run", "rom"}]
      /\ port' \in [Boards -> Ports \cup {None}]
  BY <1>1 DEF ToRom, BoardsOK
<1>3. BoardsOK'
  BY <1>1, <1>2 DEF BoardsOK
<1>4. Apart'
  BY <1>1, <1>2 DEF Apart
<1>5. \A w \in pending \cup writers : w.board \in Boards
  BY DEF BoardsOK, Handles
<1> QED BY <1>1, <1>2, <1>3, <1>4, <1>5 DEF Rom

LEMMA HardwareStep == ASSUME Base, [Next]_vars PROVE Hardware'
<1> USE Constants DEF Base
<1> USE DEF boards, plan, transfer, history
<1>0. /\ Hardware /\ deploys \in Images
      /\ \A w \in pending \cup writers : w.board \in Boards
  BY DEF Numbered, Hardware, DeployerOK, BoardsOK, Handles
<1>1. ASSUME UNCHANGED <<mode, port, vol, wedged, image>>, pending' \subseteq Handles,
             writers' \subseteq Handles, \A w \in pending' \cup writers' : Rom(w.board)
      PROVE  Hardware'
  BY <1>0, <1>1 DEF Hardware, BoardsOK, Apart, Rom
<1>2. ASSUME NEW b \in Boards, Mount(b) PROVE Hardware'
  <2>1. PICK v \in Free(Paths, vol) : vol' = [vol EXCEPT ![b] = v]
    BY <1>2 DEF Mount
  <2>2. /\ v \in Paths /\ v # None /\ \A c \in Boards : vol[c] # v
        /\ mode[b] = "rom" /\ UNCHANGED <<mode, port, wedged, image, pending, writers>>
    BY <1>2, <2>1 DEF Mount, Free
  <2>3. /\ \A c \in Boards : vol'[c] = IF c = b THEN v ELSE vol[c]
        /\ vol' \in [Boards -> Paths \cup {None}]
    BY <2>1, <2>2 DEF BoardsOK
  <2>4. BoardsOK'
    BY <2>2, <2>3 DEF BoardsOK
  <2>5. Apart'
    BY <2>2, <2>3 DEF Apart
  <2> QED BY <1>0, <2>2, <2>3, <2>4, <2>5 DEF Hardware, Rom
<1>3. ASSUME NEW b \in Boards, Boot(b) PROVE Hardware'
  <2>1. PICK n \in Free(Ports, port) : port' = [port EXCEPT ![b] = n]
    BY <1>3 DEF Boot
  <2>2. /\ n \in Ports /\ n # None /\ \A c \in Boards : port[c] # n
        /\ mode[b] = "boot" /\ mode' = [mode EXCEPT ![b] = "run"]
        /\ UNCHANGED <<vol, wedged, image, pending, writers>>
    BY <1>3, <2>1 DEF Boot, Free
  <2>3. /\ \A c \in Boards : /\ port'[c] = IF c = b THEN n ELSE port[c]
                             /\ mode'[c] = IF c = b THEN "run" ELSE mode[c]
        /\ port' \in [Boards -> Ports \cup {None}]
        /\ mode' \in [Boards -> {"off", "boot", "run", "rom"}]
    BY <2>1, <2>2 DEF BoardsOK
  <2>4. vol[b] = None
    BY <2>2 DEF BoardsOK
  <2>5. BoardsOK'
    BY <2>2, <2>3, <2>4 DEF BoardsOK
  <2>6. Apart'
    BY <2>2, <2>3 DEF Apart
  <2> QED BY <1>0, <2>2, <2>3, <2>5, <2>6 DEF Hardware, Rom
<1>4. ASSUME NEW b \in Boards, NEW m \in {"off", "boot", "rom"}, Stir(b, m) PROVE Hardware'
  <2>1. /\ \A c \in Boards : /\ mode'[c] = IF c = b THEN m ELSE mode[c]
                             /\ port'[c] = IF c = b THEN None ELSE port[c]
                             /\ vol'[c] = IF c = b THEN None ELSE vol[c]
        /\ mode' \in [Boards -> {"off", "boot", "run", "rom"}]
        /\ port' \in [Boards -> Ports \cup {None}]
        /\ vol' \in [Boards -> Paths \cup {None}]
        /\ image' = image /\ wedged' = wedged \ {b}
    BY <1>4 DEF Stir, BoardsOK
  <2>2. /\ pending' \subseteq pending /\ writers' \subseteq writers
        /\ \A w \in pending' \cup writers' : Rom(w.board)'
    BY <1>0, <1>4, <2>1, LostHandles DEF Stir, Hardware
  <2>3. BoardsOK'
    BY <2>1, <2>2 DEF BoardsOK
  <2>4. Apart'
    BY <2>1 DEF Apart
  <2> QED BY <2>2, <2>3, <2>4 DEF Hardware
<1>5. ASSUME NEW p \in pending, Accept(p) PROVE Hardware'
  <2>1. p.board \in Boards /\ p.image \in Images /\ mode[p.board] = "rom"
    BY <1>0 DEF Hardware, BoardsOK, Handles, Images, Rom
  <2> QED BY <1>0, <1>5, <2>1, FlashHardware DEF Accept
<1>6. ASSUME NEW w \in writers, AbandonedEnds(w) PROVE Hardware'
  BY <1>0, <1>1, <1>6 DEF AbandonedEnds, Hardware, BoardsOK
<1>7. CASE Written \/ CopyTimeout
  <2>1. [board |-> copy.board, image |-> deploys] \in Handles
    BY <1>7 DEF Written, CopyTimeout, DeployerOK, Copies, Handles, Numbered, Images
  <2>2. copy.at = "writing" => Rom(copy.board)
    BY <1>7 DEF Written, CopyTimeout, Stepped, DeployerOK
  <2> QED BY <1>0, <1>1, <1>7, <2>1, <2>2 DEF Written, CopyTimeout, Hardware, BoardsOK
<1>8. CASE Touch \/ Reboot
  <2>1. CASE UNCHANGED <<mode, port>>
    BY <1>0, <1>1, <1>8, <2>1 DEF Touch, Reboot, Hardware, BoardsOK
  <2>2. CASE ~UNCHANGED <<mode, port>>
    <3>1. \E b \in Running : ToRom(b)
      BY <1>8, <2>2 DEF Touch, Reboot, Reachable, Running
    <3> QED BY <1>0, <1>8, <3>1, ToRomHardware DEF Touch, Reboot
  <2> QED BY <2>1, <2>2
<1>9. CASE Load
  BY <1>0, <1>9, FlashHardware DEF Load
<1>10. CASE \/ SnapshotPorts \/ SnapshotVolumes \/ Resolve \/ WatchFinds \/ WatchTimeout
            \/ Prepare \/ LoadFails \/ Open \/ CopyReturns \/ CopyFails \/ Gone \/ Unsent
            \/ Eject \/ CdcSeen \/ CdcTimeout \/ Report \/ (\E s \in Selectors : Begin(s))
            \/ UNCHANGED vars
  <2>1. UNCHANGED <<mode, port, vol, wedged, image, pending, writers>>
    BY <1>10 DEF SnapshotPorts, SnapshotVolumes, Resolve, WatchFinds, WatchTimeout, Prepare,
         LoadFails, Open, CopyReturns, CopyFails, Gone, AfterFailure, Unsent, Eject, CdcSeen, CdcTimeout,
         Report, Begin, vars
  <2> QED BY <1>0, <1>1, <2>1 DEF Hardware, BoardsOK
<1>11. ASSUME NEW b \in Boards, Wedge(b) \/ Unwedge(b) PROVE Hardware'
  <2>1. /\ UNCHANGED <<mode, port, vol, image, pending, writers>>
        /\ wedged' \subseteq {c \in Boards : vol[c] # None}
    BY <1>11 DEF Wedge, Unwedge, BoardsOK
  <2> QED BY <1>0, <2>1 DEF Hardware, BoardsOK, Apart, Rom
<1> QED
  BY <1>2, <1>3, <1>4, <1>5, <1>6, <1>7, <1>8, <1>9, <1>10, <1>11 DEF Next, World, Deploy

-----------------------------------------------------------------------------
(* What the deployer knows. *)

LEMMA NumberedStep == ASSUME Base, [Next]_vars PROVE Numbered'
<1> USE Constants DEF Base
<1> USE DEF boards, plan, transfer, history
<1>0. /\ deploys \in Nat /\ image \in [Boards -> Nat]
      /\ \A w \in pending \cup writers : w.image \in Nat
      /\ \A w \in pending' \cup writers' : Rom(w.board)'
  BY HardwareStep DEF DeployerOK, BoardsOK, Images, Handles, Hardware
<1>1. ASSUME deploys' = deploys, pc' # "idle" => pc # "idle",
             \A b \in Boards : image'[b] <= deploys,
             \A w \in pending' \cup writers' : w \in pending \cup writers \/ w.image <= deploys
      PROVE  Numbered'
  BY <1>0, <1>1 DEF Numbered
<1>2. ASSUME NEW b \in Boards, \/ Mount(b) \/ Boot(b) \/ Wedge(b) \/ Unwedge(b)
                               \/ \E m \in {"off", "boot", "rom"} : Stir(b, m)
      PROVE  Numbered'
  <2>1. /\ UNCHANGED <<deploys, pc, image>>
        /\ pending' \cup writers' \subseteq pending \cup writers
    BY <1>2 DEF Mount, Boot, Wedge, Unwedge, Stir, CutOff
  <2> QED BY <1>1, <2>1 DEF Numbered
<1>3. ASSUME NEW p \in pending, Accept(p) PROVE Numbered'
  <2>1. /\ UNCHANGED <<deploys, pc>> /\ p.image <= deploys
        /\ \A b \in Boards : image'[b] \in {image[b], p.image}
        /\ pending' \cup writers' \subseteq pending \cup writers
    BY <1>0, <1>3 DEF Accept, Flash, CutOff, Numbered
  <2> QED BY <1>1, <2>1 DEF Numbered
<1>4. ASSUME NEW w \in writers, AbandonedEnds(w) PROVE Numbered'
  <2>1. /\ UNCHANGED <<deploys, pc, image>>
        /\ pending' \cup writers' \subseteq pending \cup writers
    BY <1>4 DEF AbandonedEnds
  <2> QED BY <1>1, <2>1 DEF Numbered
<1>5. CASE Written \/ CopyTimeout
  <2>1. /\ UNCHANGED <<deploys, image>> /\ pc = "copying"
        /\ pending' \cup writers'
             \subseteq pending \cup writers \cup {[board |-> copy.board, image |-> deploys]}
    BY <1>5 DEF Written, CopyTimeout, Goto
  <2>2. \A w \in pending' \cup writers' : w \in pending \cup writers \/ w.image <= deploys
    BY <1>0, <2>1
  <2> QED BY <1>1, <2>1, <2>2 DEF Numbered
<1>6. CASE Load
  <2>1. /\ UNCHANGED deploys /\ pc # "idle"
        /\ \A b \in Boards : image'[b] \in {image[b], deploys}
        /\ pending' \cup writers' \subseteq pending \cup writers
    BY <1>0, <1>6 DEF Load, Flash, CutOff
  <2> QED BY <1>0, <1>1, <2>1 DEF Numbered
<1>7. ASSUME NEW s \in Selectors, Begin(s) PROVE Numbered'
  <2>1. deploys' = deploys + 1 /\ UNCHANGED <<image, pending, writers>>
    BY <1>7 DEF Begin
  <2> QED BY <1>0, <2>1 DEF Numbered
<1>8. CASE \/ SnapshotPorts \/ SnapshotVolumes \/ Resolve \/ Touch \/ WatchFinds \/ WatchTimeout
           \/ Reboot \/ Prepare \/ LoadFails \/ Open \/ CopyReturns \/ CopyFails \/ Gone \/ Unsent
           \/ Eject \/ CdcSeen \/ CdcTimeout \/ Report \/ UNCHANGED vars
  <2>1. UNCHANGED <<deploys, image, pending, writers>>
    BY <1>8 DEF SnapshotPorts, SnapshotVolumes, Resolve, Touch, WatchFinds, WatchTimeout, Reboot,
         Prepare, LoadFails, Open, CopyReturns, CopyFails, Gone, AfterFailure, Unsent, Eject, CdcSeen,
         CdcTimeout, Report, vars
  <2>2. pc' # "idle" => pc # "idle"
    BY <1>8 DEF SnapshotPorts, SnapshotVolumes, Resolve, Touch, WatchFinds, WatchTimeout, Reboot,
         Prepare, LoadFails, Open, CopyReturns, CopyFails, Gone, AfterFailure, Unsent, Eject, CdcSeen,
         CdcTimeout, Report, vars, Watching
  <2> QED BY <1>1, <2>1, <2>2 DEF Numbered
<1> QED
  BY <1>2, <1>3, <1>4, <1>5, <1>6, <1>7, <1>8 DEF Next, World, Deploy

\* A copy that loses its volume is still that copy.
LEMMA CutCopy ==
  ASSUME DeployerOK, NEW b \in Boards, CutOff(b)
  PROVE  /\ copy' \in Copies \cup {None} /\ (copy' # None <=> copy # None)
         /\ copy # None => /\ copy'.board = copy.board
                           /\ copy'.at = "writing" => copy' = copy /\ copy.board # b
                           /\ copy'.at = "handed" <=> copy.at = "handed"
<1>1. CASE copy = None
  BY <1>1 DEF CutOff
<1>2. CASE copy # None
  <2>1. copy \in Copies
    BY <1>2 DEF DeployerOK
  <2>2. [copy EXCEPT !.at = "cut"] \in Copies
    BY <2>1 DEF Copies
  <2>3. copy' = copy \/ copy' = [copy EXCEPT !.at = "cut"]
    BY DEF CutOff
  <2> QED BY <1>2, <2>1, <2>2, <2>3, Constants DEF CutOff, Copies
<1> QED BY <1>1, <1>2

\* The boards change, and the deployer does not notice.
LEMMA WorldDeployer ==
  ASSUME Base,
         \/ \E b \in Boards : \/ Mount(b) \/ Boot(b) \/ Wedge(b) \/ Unwedge(b)
                              \/ \E m \in {"off", "boot", "rom"} : Stir(b, m)
         \/ \E p \in pending : Accept(p)
         \/ \E w \in writers : AbandonedEnds(w)
  PROVE  DeployerOK' /\ Stepped'
<1> USE Constants DEF Base
<1> USE DEF boards, plan, transfer, history
<1>1. /\ UNCHANGED <<pc, sel, cat, before, target, reset, goal, serial, volume, way, tries, found>>
      /\ UNCHANGED <<deploys, astray, misread>> /\ stirs' \in {stirs, stirs + 1}
      /\ calm' \in {calm, "stirred"} /\ (stirs' = stirs + 1 => stirs < MaxStirs)
  <2>1. stirs \in Nat
    BY DEF DeployerOK
  <2> QED
    BY <2>1 DEF Mount, Boot, Wedge, Unwedge, Stir, Stirred, Accept, Flash, CutOff, AbandonedEnds
<1>2. /\ copy' \in Copies \cup {None} /\ (copy' # None <=> copy # None)
      /\ copy' # None /\ copy'.at = "writing" => /\ copy' = copy
                                                 /\ Rom(copy.board)'
                                                 /\ vol'[copy.board] = vol[copy.board]
  <2>0. /\ copy # None => copy.board \in Boards
        /\ copy # None /\ copy.at = "writing" => Rom(copy.board)
    BY DEF DeployerOK, Copies, Stepped
  <2>1. ASSUME NEW b \in Boards, Mount(b) PROVE <1>2
    <3>1. copy' = copy /\ mode' = mode /\ vol[b] = None
          /\ \A c \in Boards : c # b => vol'[c] = vol[c]
      BY <2>1 DEF Mount, BoardsOK
    <3> QED BY <2>0, <3>1 DEF Rom, DeployerOK
  <2>2. ASSUME NEW b \in Boards, Boot(b) PROVE <1>2
    <3>1. copy' = copy /\ vol' = vol /\ mode[b] = "boot"
          /\ \A c \in Boards : c # b => mode'[c] = mode[c]
      BY <2>2 DEF Boot, BoardsOK
    <3> QED BY <2>0, <3>1 DEF Rom, DeployerOK
  <2>3. ASSUME NEW b \in Boards, CutOff(b),
               \A c \in Boards : c # b => mode'[c] = mode[c] /\ vol'[c] = vol[c]
        PROVE  <1>2
    BY <2>0, <2>3, CutCopy DEF Rom
  <2>4. ASSUME NEW b \in Boards, NEW m, Stir(b, m) PROVE <1>2
    BY <2>3, <2>4 DEF Stir, BoardsOK
  <2>5. ASSUME NEW p \in pending, Accept(p) PROVE <1>2
    <3>1. p.board \in Boards
      BY DEF BoardsOK, Handles
    <3> QED BY <2>3, <2>5, <3>1 DEF Accept, Flash, BoardsOK
  <2>6. ASSUME NEW w \in writers, AbandonedEnds(w) PROVE <1>2
    BY <2>0, <2>6 DEF AbandonedEnds, Rom, DeployerOK
  <2>7. ASSUME NEW b \in Boards, Wedge(b) \/ Unwedge(b) PROVE <1>2
    BY <2>0, <2>7 DEF Wedge, Unwedge, Rom, DeployerOK
  <2> QED BY <2>1, <2>2, <2>4, <2>5, <2>6, <2>7
<1>3. DeployerOK'
  BY <1>1, <1>2 DEF DeployerOK
<1>4. Stepped'
  BY <1>1, <1>2 DEF Stepped, Unaimed
<1> QED BY <1>3, <1>4

\* A volume that can be read is mounted somewhere.
LEMMA SeenPaths ==
  ASSUME BoardsOK
  PROVE  /\ Seen \subseteq Paths
         /\ \A v \in Seen : /\ \E b \in Boards : vol[b] = v
                            /\ (CHOOSE b \in Boards : vol[b] = v) \in Boards
BY DEF Seen, BoardsOK

LEMMA SerialType == \A b \in Boards : SerialOf[b] \in Serials \cup {None}
BY DEF Serials

LEMMA CandidatesRun == Candidates \subseteq Running
BY DEF Candidates, Eligible, Fresh

\* The deployer finds its board.
LEMMA AimDeployer ==
  ASSUME Base, SnapshotPorts \/ SnapshotVolumes \/ Resolve \/ Touch \/ Reboot
  PROVE  DeployerOK' /\ Stepped'
<1> USE Constants DEF Base
<1> USE DEF boards, plan, transfer, history, Goto
<1>1. CASE SnapshotPorts
  <2>1. cat' \subseteq Records
    <3>1. \A b \in Running : b \in Boards /\ port[b] \in Ports /\ SerialOf[b] \in Serials \cup {None}
      BY SerialType DEF Running, BoardsOK
    <3> QED BY <1>1, <3>1 DEF SnapshotPorts, Records
  <2>2. /\ UNCHANGED <<mode, vol, sel, before, target, reset, serial, way, tries, copy, found>>
        /\ UNCHANGED <<history, deploys, stirs>> /\ pc = "ports"
        /\ pc' \in {"volumes", "resolve", "failed"}
        /\ pc' = "volumes" => UNCHANGED <<volume, goal>>
    BY <1>1 DEF SnapshotPorts
  <2>3. volume' \in Paths \cup {None} /\ goal' \in Boards \cup {None}
    BY <1>1, SeenPaths DEF SnapshotPorts, Chosen, DeployerOK
  <2>4. copy = None
    BY <2>2 DEF DeployerOK
  <2> QED BY <2>1, <2>2, <2>3, <2>4 DEF DeployerOK, Steps, Stepped, Early, Unaimed
<1>2. CASE SnapshotVolumes
  <2>2. /\ UNCHANGED <<mode, vol, sel, cat, target, reset, serial, way, tries, copy, found>>
        /\ UNCHANGED <<history, deploys, stirs>> /\ pc = "volumes"
        /\ pc' \in {"resolve", "failed"}
    BY <1>2 DEF SnapshotVolumes
  <2>3. volume' \in Paths \cup {None} /\ goal' \in Boards \cup {None}
    BY <1>2, SeenPaths DEF SnapshotVolumes, Chosen, DeployerOK
  <2>4. before' \subseteq Paths
    BY <1>2, SeenPaths DEF SnapshotVolumes, DeployerOK
  <2>5. copy = None
    BY <2>2 DEF DeployerOK
  <2> QED BY <2>2, <2>3, <2>4, <2>5 DEF DeployerOK, Steps, Stepped, Early
<1>3. CASE Resolve
  <2>1. /\ UNCHANGED <<mode, vol, sel, cat, before, volume, way, tries, copy, found>>
        /\ UNCHANGED <<history, deploys, stirs>> /\ pc = "resolve"
        /\ pc' \in {"prepare", "watch", "touch", "failed"}
    BY <1>3 DEF Resolve
  <2>2. \A c \in cat : c \in Records /\ c.board \in Boards /\ c.serial \in Serials \cup {None}
    BY DEF DeployerOK, Records
  <2>3. /\ target' \in Records \cup {None} /\ reset' \in Boards \cup {None}
        /\ goal' \in Boards \cup {None} /\ serial' \in Serials \cup {None}
        /\ pc' = "touch" => target' # None
    <3>1. sel.by = "serial" => sel.what \in Serials
      BY DEF DeployerOK, Selectors
    <3> QED BY <1>3, <2>2, <3>1, SerialType DEF Resolve, DeployerOK
  <2>4. copy = None
    BY <2>1 DEF DeployerOK
  <2> QED BY <2>1, <2>3, <2>4 DEF DeployerOK, Steps, Stepped, Early
<1>4. CASE Touch \/ Reboot
  <2>1. /\ UNCHANGED <<sel, cat, before, target, reset, serial, goal, volume, way, tries, copy, found>>
        /\ UNCHANGED <<calm, misread, deploys, stirs>> /\ pc \in {"touch", "reboot"}
        /\ pc' \in {"watch", "rewatch", "prepare"} /\ astray' \in Boards \cup {None}
        /\ pc' = "watch" => astray' = astray
    BY <1>4 DEF Touch, Reboot, Reachable, Running, DeployerOK
  <2>2. copy = None
    BY <2>1 DEF DeployerOK
  <2> QED BY <2>1, <2>2 DEF DeployerOK, Steps, Stepped, Early
<1> QED BY <1>1, <1>2, <1>3, <1>4

\* The deployer waits for a volume and writes to it.
LEMMA SendDeployer ==
  ASSUME Base,
         \/ WatchFinds \/ WatchTimeout \/ Prepare \/ Load \/ LoadFails \/ Open \/ Written
         \/ CopyReturns \/ CopyFails \/ CopyTimeout \/ Gone \/ Unsent
  PROVE  DeployerOK' /\ Stepped'
<1> USE Constants DEF Base
<1> USE DEF boards, plan, transfer, history, Goto
<1>0. /\ UNCHANGED <<sel, cat, before, target, reset, serial, goal, found, calm, astray, deploys>>
      /\ UNCHANGED stirs /\ misread' \subseteq Boards
  BY DEF WatchFinds, WatchTimeout, Prepare, Load, LoadFails, Open, Written, CopyReturns, CopyFails,
         CopyTimeout, Gone, AfterFailure, Unsent, DeployerOK, BoardsOK
<1>1. CASE WatchFinds
  <2>1. /\ UNCHANGED <<mode, vol, way, tries, copy>> /\ pc \in {"watch", "rewatch", "retry"}
        /\ pc = "retry" => pc' \in {"copy", "unsent"}
        /\ pc # "retry" => pc' \in {"prepare", "failed"}
    BY <1>1 DEF WatchFinds, Watching
  <2>2. volume' \in Paths \cup {None} /\ (pc' = "copy" => volume' # None)
    BY <1>1, SeenPaths DEF WatchFinds, Appeared, DeployerOK
  <2>3. copy = None
    BY <2>1 DEF DeployerOK
  <2> QED BY <1>0, <2>1, <2>2, <2>3 DEF DeployerOK, Steps, Stepped, Early
<1>2. CASE WatchTimeout
  <2>1. /\ UNCHANGED <<mode, vol, volume, way, tries, copy>> /\ pc \in {"watch", "rewatch", "retry"}
        /\ pc = "retry" => pc' = "unsent"
        /\ pc # "retry" => pc' \in {"prepare", "reboot"}
        /\ pc' = "reboot" => pc = "watch" /\ serial # None
    BY <1>2 DEF WatchTimeout, Watching
  <2>2. copy = None
    BY <2>1 DEF DeployerOK
  <2> QED BY <1>0, <2>1, <2>2 DEF DeployerOK, Steps, Stepped, Early
<1>3. CASE Prepare
  <2>1. /\ UNCHANGED <<mode, vol, volume, tries, copy>> /\ pc = "prepare"
        /\ way' \in {"uf2", "picotool", None}
        /\ pc' \in {"failed", "copy", "load"}
        /\ pc' = "copy" => volume # None
        /\ pc' = "load" => serial # None
    BY <1>3 DEF Prepare, DeployerOK
  <2>2. copy = None /\ tries = 0 /\ 0 < MaxTries
    BY <2>1 DEF DeployerOK, Stepped, Early
  <2> QED BY <1>0, <2>1, <2>2 DEF DeployerOK, Steps, Stepped, Early
<1>4. CASE Load
  <2>1. /\ UNCHANGED <<volume, way, tries>> /\ pc = "load" /\ pc' \in {"eject", "cdc"}
    BY <1>4 DEF Load
  <2>2. copy = None /\ copy' = None
    BY <1>4, <2>1 DEF DeployerOK, Load, Flash, CutOff
  <2>3. found = None
    BY <2>1 DEF Stepped
  <2> QED BY <1>0, <2>1, <2>2, <2>3 DEF DeployerOK, Steps, Stepped, Early
<1>5. CASE LoadFails
  <2>1. /\ UNCHANGED <<mode, vol, volume, way, tries, copy>> /\ pc = "load"
        /\ pc' \in {"copy", "failed"}
        /\ pc' = "copy" => volume # None /\ way = "picotool"
    BY <1>5 DEF LoadFails
  <2>2. copy = None /\ 0 < MaxTries
    BY <2>1 DEF DeployerOK
  <2> QED BY <1>0, <2>1, <2>2 DEF DeployerOK, Steps, Stepped, Early
<1>6. CASE Open
  <2>1. /\ UNCHANGED <<mode, vol, volume, way>> /\ pc = "copy" /\ tries' = tries + 1
        /\ volume # None /\ tries < MaxTries
    BY <1>6 DEF Open, Stepped
  <2>2. CASE \E b \in Boards : vol[b] = volume /\ copy' = [board |-> b, at |-> "writing"] /\ pc' = "copying"
    <3>1. PICK b \in Boards : vol[b] = volume /\ copy' = [board |-> b, at |-> "writing"] /\ pc' = "copying"
      BY <2>2
    <3>2. copy' \in Copies /\ copy'.board = b /\ Rom(b)
      BY <2>1, <3>1 DEF Copies, Rom, BoardsOK
    <3> QED BY <1>0, <2>1, <3>1, <3>2 DEF DeployerOK, Steps, Stepped, Early, Rom
  <2>3. CASE pc' = "gone" /\ copy' = copy
    BY <1>0, <2>1, <2>3 DEF DeployerOK, Steps, Stepped, Early
  <2> QED BY <1>6, <2>2, <2>3 DEF Open
<1>7. CASE Written
  <2>1. /\ UNCHANGED <<pc, volume, way, tries>> /\ pc = "copying"
        /\ copy' = [copy EXCEPT !.at = "handed"]
    BY <1>7 DEF Written
  <2>2. copy \in Copies
    BY <2>1 DEF DeployerOK
  <2>3. copy' \in Copies /\ copy'.at = "handed"
    BY <2>1, <2>2 DEF Copies
  <2> QED BY <1>0, <2>1, <2>3 DEF DeployerOK, Steps, Stepped, Early
<1>8. CASE CopyReturns
  <2>1. /\ UNCHANGED <<volume, way, tries>> /\ copy' = None /\ pc = "copying" /\ pc' = "eject"
    BY <1>8 DEF CopyReturns
  <2> QED BY <1>0, <2>1 DEF DeployerOK, Steps, Stepped, Early
<1>9. CASE CopyFails \/ CopyTimeout
  <2>1. /\ UNCHANGED <<volume, way, tries>> /\ copy' = None
        /\ pc = "copying" /\ pc' = "gone"
    BY <1>9 DEF CopyFails, CopyTimeout
  <2> QED BY <1>0, <2>1 DEF DeployerOK, Steps, Stepped, Early
<1>10. CASE Gone \/ Unsent
  <2>1. /\ UNCHANGED <<mode, vol, volume, way, tries, copy>> /\ pc \in {"gone", "unsent"}
        /\ pc' \in {"retry", "unsent", "load", "failed"}
        /\ pc' = "retry" => tries < MaxTries
        /\ pc' = "load" => way = "uf2" /\ serial # None
    BY <1>10 DEF Gone, AfterFailure, Unsent
  <2>2. copy = None
    BY <2>1 DEF DeployerOK
  <2> QED BY <1>0, <2>1, <2>2 DEF DeployerOK, Steps, Stepped, Early
<1> QED BY <1>1, <1>2, <1>3, <1>4, <1>5, <1>6, <1>7, <1>8, <1>9, <1>10

\* The deploy ends, and another one begins.
LEMMA EndDeployer ==
  ASSUME Base,
         \/ Eject \/ CdcSeen \/ CdcTimeout \/ Report \/ (\E s \in Selectors : Begin(s))
         \/ UNCHANGED vars
  PROVE  DeployerOK' /\ Stepped'
<1> USE Constants DEF Base
<1> USE DEF boards, plan, transfer, history, Goto
<1>1. CASE Eject \/ CdcTimeout
  <2>1. /\ UNCHANGED <<sel, cat, before, target, reset, serial, goal, volume, way, tries, copy, found>>
        /\ UNCHANGED <<mode, vol, history, deploys, stirs>> /\ pc \in {"eject", "cdc"}
        /\ pc' \in {"cdc", "ok", "failed"}
    BY <1>1 DEF Eject, CdcTimeout
  <2>2. copy = None /\ found = None
    BY <2>1 DEF DeployerOK, Stepped
  <2> QED BY <2>1, <2>2 DEF DeployerOK, Steps, Stepped, Early
<1>2. CASE CdcSeen
  <2>1. /\ UNCHANGED <<sel, cat, before, target, reset, serial, goal, volume, way, tries, copy>>
        /\ UNCHANGED <<mode, vol, history, deploys, stirs>> /\ pc = "cdc"
        /\ pc' \in {"ok", "failed"} /\ (pc' = "failed" => found' = found)
    BY <1>2 DEF CdcSeen
  <2>2. copy = None /\ found = None
    BY <2>1 DEF DeployerOK, Stepped
  <2>3. found' \in Ports \cup {None}
    <3>1. \A b \in Candidates : port[b] \in Ports \cup {None}
      BY CandidatesRun DEF Running, BoardsOK
    <3> QED BY <1>2, <2>2, <3>1 DEF CdcSeen
  <2> QED BY <2>1, <2>2, <2>3 DEF DeployerOK, Steps, Stepped, Early
<1>3. CASE Report
  <2>1. NoSelector \in Selectors
    BY DEF NoSelector, Selectors
  <2> QED BY <1>3, <2>1 DEF Report, DeployerOK, Steps, Stepped, Early, Unaimed
<1>4. ASSUME NEW s \in Selectors, Begin(s) PROVE DeployerOK' /\ Stepped'
  <2>1. /\ UNCHANGED <<cat, before, target, reset, serial, goal, volume, way, tries, copy, found>>
        /\ UNCHANGED <<mode, vol, astray, misread, stirs>> /\ pc = "idle" /\ pc' = "ports"
        /\ deploys' \in Images /\ sel' = s /\ calm' \in {"calm", "stirred"}
    BY <1>4 DEF Begin, DeployerOK, Images
  <2>2. copy = None /\ found = None
    BY <2>1 DEF DeployerOK, Stepped
  <2> QED BY <2>1, <2>2 DEF DeployerOK, Steps, Stepped, Early, Unaimed
<1>5. CASE UNCHANGED vars
  BY <1>5 DEF vars, DeployerOK, Stepped, Unaimed, Rom
<1> QED BY <1>1, <1>2, <1>3, <1>4, <1>5

LEMMA BaseStep == ASSUME Base, [Next]_vars PROVE Base'
<1>1. BoardsOK' /\ Apart'
  BY HardwareStep DEF Hardware
<1>2. Numbered'
  BY NumberedStep
<1>3. DeployerOK' /\ Stepped'
  BY WorldDeployer, AimDeployer, SendDeployer, EndDeployer DEF Next, World, Deploy
<1> QED BY <1>1, <1>2, <1>3 DEF Base

LEMMA BaseInit == ASSUME Init PROVE Base
<1> USE Constants
<1>1. /\ image \in [Boards -> Images] /\ \A b \in Boards : image[b] = 0
  BY DEF Init, Images
<1>2. mode \in [Boards -> {"off", "boot", "run", "rom"}]
  BY DEF Init
<1>3. BoardsOK /\ Apart
  BY <1>1, <1>2 DEF Init, BoardsOK, Apart
<1>4. NoSelector \in Selectors /\ 0 \in Images /\ 0 \in 0 .. MaxTries /\ 0 \in 0 .. MaxStirs
  BY DEF NoSelector, Selectors, Images
<1>5. DeployerOK
  BY <1>4 DEF Init, DeployerOK, Steps
<1>6. Numbered
  BY <1>1 DEF Init, Numbered
<1>7. Stepped
  BY DEF Init, Stepped, Early, Unaimed
<1> QED BY <1>3, <1>5, <1>6, <1>7 DEF Base

\* The boards and the deployer have their types; in particular a transfer makes
\* at most UF2_TRANSFER_ATTEMPTS attempts (rp2040.rs transfer_uf2_with_retries).
THEOREM TypeCorrect == Spec => []TypeOK
<1>1. Base => TypeOK
  BY Parts DEF Base
<1> QED BY <1>1, BaseInit, BaseStep, PTL DEF Spec

-----------------------------------------------------------------------------
(* One writer per enumeration of the ROM. *)

\* A write of the present deploy that the watchdog gave up is open only once
\* the transfer is past its last attempt, or on a volume that was mistaken for
\* gone, or, before that is known, on the volume that has to be gone first.
Mine(w) == w.image = deploys
Misread(w) == Mine(w) => w.board \in misread
AllMisread == \A w \in writers : Misread(w)
Attempts ==
  /\ pc \in Early \cup {"copy", "copying", "retry"} => AllMisread
  /\ pc = "load" /\ way = "picotool" => AllMisread
  /\ pc = "gone" => \A w \in writers : Misread(w) \/ vol[w.board] = volume

LEMMA AttemptsStep == ASSUME Base, Attempts, [Next]_vars PROVE Attempts'
<1> USE Constants DEF Base
<1> USE DEF boards, plan, transfer, history, Goto
<1>0. /\ deploys \in Nat
      /\ \A w \in writers : /\ w.board \in Boards /\ w.image \in Nat /\ w.image <= deploys
                            /\ Rom(w.board)
  BY DEF Numbered, DeployerOK, BoardsOK, Handles, Images
<1>1. ASSUME writers' \subseteq writers, UNCHANGED <<pc, way, volume, misread, deploys>>,
             \A w \in writers' : vol'[w.board] = vol[w.board]
      PROVE  Attempts'
  BY <1>1 DEF Attempts, AllMisread, Misread, Mine
<1>2. ASSUME NEW b \in Boards, Mount(b) PROVE Attempts'
  <2>1. /\ vol[b] = None /\ UNCHANGED <<writers, pc, way, volume, misread, deploys>>
        /\ \A c \in Boards : c # b => vol'[c] = vol[c]
    BY <1>2 DEF Mount, BoardsOK
  <2> QED BY <1>0, <1>1, <2>1 DEF Rom
<1>3. ASSUME NEW b \in Boards, Boot(b) PROVE Attempts'
  BY <1>1, <1>3 DEF Boot
<1>4. ASSUME NEW b \in Boards, CutOff(b), \A c \in Boards : c # b => vol'[c] = vol[c],
             UNCHANGED <<pc, way, volume, misread, deploys>>
      PROVE  Attempts'
  BY <1>0, <1>1, <1>4 DEF CutOff
<1>5. ASSUME NEW b \in Boards, NEW m, Stir(b, m) PROVE Attempts'
  BY <1>4, <1>5 DEF Stir, BoardsOK
<1>6. ASSUME NEW p \in pending, Accept(p) PROVE Attempts'
  <2>1. p.board \in Boards
    BY DEF BoardsOK, Handles
  <2> QED BY <1>4, <1>6, <2>1 DEF Accept, Flash, BoardsOK
<1>7. ASSUME NEW w \in writers, AbandonedEnds(w) PROVE Attempts'
  BY <1>1, <1>7 DEF AbandonedEnds
<1>8. CASE Written \/ UNCHANGED vars
  BY <1>1, <1>8 DEF Written, vars
<1>9. ASSUME NEW s \in Selectors, Begin(s) PROVE Attempts'
  <2>1. deploys' = deploys + 1 /\ writers' = writers /\ pc' = "ports"
    BY <1>9 DEF Begin
  <2> QED BY <1>0, <2>1 DEF Attempts, AllMisread, Misread, Mine
<1>10. CASE \/ SnapshotPorts \/ SnapshotVolumes \/ Resolve \/ Touch \/ Reboot \/ Prepare
            \/ WatchFinds \/ WatchTimeout
  <2>1. UNCHANGED <<writers, misread, deploys>> /\ pc \in Early \cup {"retry"} /\ pc' # "gone"
    BY <1>10 DEF SnapshotPorts, SnapshotVolumes, Resolve, Touch, Reboot, Prepare, WatchFinds,
         WatchTimeout, Watching, Early
  <2> QED BY <2>1 DEF Attempts, AllMisread, Misread, Mine
<1>11. CASE Load \/ Unsent \/ Eject \/ CdcSeen \/ CdcTimeout \/ CopyReturns \/ Report
  <2>1. /\ pc' \in {"eject", "cdc", "ok", "failed", "load", "idle"}
        /\ pc' = "load" => way' = "uf2"
    BY <1>11 DEF Load, Unsent, Eject, CdcSeen, CdcTimeout, CopyReturns, Report
  <2> QED BY <2>1 DEF Attempts, Early
<1>12. CASE LoadFails \/ Open \/ CopyFails
  <2>1. /\ UNCHANGED <<writers, misread, deploys>> /\ pc' \in {"copy", "failed", "copying", "gone"}
        /\ pc \in {"load", "copy", "copying"}
        /\ pc = "load" => way = "picotool" \/ pc' = "failed"
    BY <1>12 DEF LoadFails, Open, CopyFails
  <2> QED BY <2>1 DEF Attempts, AllMisread, Misread, Mine, Early
<1>13. CASE CopyTimeout
  <2>1. /\ pc = "copying" /\ copy # None /\ pc' = "gone" /\ UNCHANGED <<vol, volume, misread, deploys>>
        /\ \A w \in writers' : \/ w \in writers
                               \/ /\ w = [board |-> copy.board, image |-> deploys]
                                  /\ copy.at = "writing"
    BY <1>13 DEF CopyTimeout, DeployerOK
  <2>2. \A w \in writers' : Misread(w)' \/ vol[w.board] = volume
    BY <2>1 DEF Attempts, AllMisread, Misread, Mine, Stepped
  <2> QED BY <2>1, <2>2 DEF Attempts, Early
<1>14. CASE Gone
  <2>1. /\ pc = "gone" /\ UNCHANGED <<writers, deploys>> /\ pc' \in {"retry", "unsent"}
        /\ pc' = "retry" => /\ volume \notin Seen
                            /\ misread' = misread \cup {b \in wedged : vol[b] = volume}
    BY <1>14 DEF Gone, AfterFailure
  <2>2. \A w \in writers : w.board \notin wedged => vol[w.board] \in Seen
    BY <1>0 DEF Seen, Rom
  <2>3. ASSUME pc' = "retry", NEW w \in writers PROVE Misread(w)'
    BY <2>1, <2>2, <2>3 DEF Attempts, Misread, Mine
  <2> QED BY <2>1, <2>3 DEF Attempts, AllMisread, Early
<1>15. ASSUME NEW b \in Boards, Wedge(b) \/ Unwedge(b) PROVE Attempts'
  BY <1>1, <1>15 DEF Wedge, Unwedge
<1> QED
  BY <1>2, <1>3, <1>5, <1>6, <1>7, <1>8, <1>9, <1>10, <1>11, <1>12, <1>13, <1>14, <1>15
     DEF Next, World, Deploy

(***************************************************************************)
(* A deploy writes NEW.UF2 a second time into an enumeration of the ROM in *)
(* which a write of its own that the watchdog gave up may still go on only *)
(* when it took the volume for gone because INFO_UF2.TXT could not be read *)
(* (rp2040.rs transfer_uf2_with_retries, has_uf2_marker), for any number   *)
(* of boards, attempts and disturbances.                                   *)
(***************************************************************************)
THEOREM OneWriter == Spec => []OneWriterPerEnumeration
<1>1. Init => Base /\ Attempts
  BY BaseInit DEF Init, Attempts, AllMisread
<1>2. Base /\ Attempts /\ [Next]_vars => (Base /\ Attempts)'
  BY BaseStep, AttemptsStep
<1>3. Base /\ Attempts => OneWriterPerEnumeration
  BY DEF Base, DeployerOK, Attempts, AllMisread, Misread, Mine, OneWriterPerEnumeration
<1> QED BY <1>1, <1>2, <1>3, PTL DEF Spec

-----------------------------------------------------------------------------
(* A deploy that nobody disturbs. *)

Calm == calm = "calm" /\ pc # "idle"
Aimed == target # None \/ reset # None

\* The catalogue lists a board once, under its own serial.
Listing == \A c \in cat : /\ c.serial = SerialOf[c.board]
                          /\ \A d \in cat : c.name = d.name => c = d

\* The port a board has now was in the catalogue.
Catalogued(b) == \A n \in Ports : port[b] = n => \E c \in cat : c.board = b /\ c.name = n

\* While the deployer looks for its board, every board is at rest and what it
\* has listed is still there.
Looking ==
  /\ \A b \in Boards : AtRest(b) /\ image[b] # deploys
  /\ pc = "volumes" => \A b \in Boards : Catalogued(b)
  /\ pc \in {"volumes", "resolve"}
       => \A c \in cat : mode[c.board] = "run" /\ port[c.board] = c.name
  /\ pc = "resolve" /\ volume = None
       => /\ goal = None
          /\ \A b \in Boards : Catalogued(b) /\ (vol[b] # None => vol[b] \in before)

\* What identifies the board leads to the goal; a reset goes astray only when
\* a serial is known.
Known ==
  /\ goal \in Boards
  /\ target # None => target \in cat /\ target.board = goal
  /\ reset # None => reset = goal
  /\ serial = SerialOf[goal]
  /\ serial = None => target # None /\ astray = None

\* The boards the deploy does not reach are at rest, with the ports and the
\* volumes they had at the start, and without the new image.
Others ==
  \A b \in Boards : b \notin Reached => /\ AtRest(b) /\ Catalogued(b)
                                        /\ vol[b] # None => vol[b] \in before
                                        /\ image[b] # deploys

\* Everything that writes, writes the new image to a board that was reached.
OnlyReached ==
  /\ volume # None => volume \notin before
  /\ copy # None => copy.board \in Reached
  /\ \A w \in pending \cup writers : w.board \in Reached /\ Mine(w)

\* Board b has the new image, or all of it in the volume that was written to.
Has(b) == \/ image[b] = deploys
          \/ [board |-> b, image |-> deploys] \in pending /\ vol[b] = volume

\* Past the transfer a board that was reached has the image.
Sent ==
  /\ copy # None /\ copy.at = "handed" => Has(copy.board)
  /\ pc = "eject" => \E b \in Reached : Has(b)
  /\ pc \in {"cdc", "ok"} => \E b \in Reached : image[b] = deploys
  /\ found # None => port[goal] = found

Aim == Known /\ Others /\ OnlyReached /\ Sent /\ (pc = "touch" => port[goal] = target.name)

Quiet ==
  Calm => /\ wedged = {}
          /\ pc # "ports" => Listing
          /\ pc \in Early => pending = {} /\ writers = {}
          /\ pc \in {"ports", "volumes", "resolve"} => Looking /\ ~Aimed
          /\ Aimed => Aim

\* Only a board that the deploy has reached moves while the deploy is calm.
LEMMA QuietMoves ==
  ASSUME Base, Quiet, NEW b \in Boards, Mount(b) \/ Boot(b) PROVE Quiet'
<1> USE Constants DEF Base
<1> USE DEF boards, plan, transfer, history
<1> SUFFICES ASSUME Calm' PROVE Quiet'
  BY DEF Quiet
<1>1. /\ UNCHANGED <<pc, sel, cat, before, target, reset, goal, serial, volume, way, tries, copy>>
      /\ UNCHANGED <<found, deploys, wedged, image, pending, writers, calm, astray>>
  BY DEF Mount, Boot
<1>2. Calm /\ wedged = {} /\ ~AtRest(b)
  BY <1>1 DEF Mount, Boot, Calm, Quiet, AtRest
<1>3. pc \notin {"ports", "volumes", "resolve"}
  BY <1>2 DEF Quiet, Looking
<1>4. /\ \A c \in Boards : c # b => /\ port'[c] = port[c] /\ mode'[c] = mode[c]
                                    /\ vol'[c] = vol[c]
      /\ mode[b] # "run" /\ vol[b] = None /\ port[b] = None
  BY DEF Mount, Boot, BoardsOK
<1>5. Listing'
  BY <1>1, <1>2, <1>3 DEF Listing, Quiet
<1>6. ASSUME Aimed PROVE Aim'
  <2>1. Aim /\ b \in Reached /\ Reached' = Reached
    BY <1>1, <1>2, <1>6 DEF Quiet, Aim, Others, Reached
  <2>2. Known' /\ OnlyReached'
    BY <1>1, <2>1 DEF Aim, Known, OnlyReached, Mine
  <2>3. Others'
    BY <1>1, <1>4, <2>1 DEF Aim, Others, Catalogued, AtRest
  <2>4. \A w \in pending : w.board # b
    BY <1>4 DEF Numbered, Rom
  <2>5. \A c \in Boards : Has(c) => Has(c)'
    BY <1>1, <1>4, <2>4 DEF Has
  <2>6. goal \in Boards /\ Reached \subseteq Boards /\ (copy # None => copy.board \in Boards)
    BY <2>1 DEF Aim, Known, Reached, DeployerOK, Copies
  <2>7. found # None => port'[goal] = found
    BY <1>4, <2>1, <2>6 DEF Aim, Sent, DeployerOK
  <2>8. Sent'
    BY <1>1, <2>1, <2>5, <2>6, <2>7 DEF Aim, Sent
  <2>9. pc = "touch" => port'[goal] = target.name
    <3>1. pc = "touch" => target.name \in Ports
      BY DEF Stepped, DeployerOK, Records
    <3> QED BY <1>4, <2>1, <2>6, <3>1 DEF Aim
  <2> QED BY <1>1, <2>2, <2>3, <2>8, <2>9 DEF Aim
<1>7. pc \in Early => pending' = {} /\ writers' = {}
  BY <1>1, <1>2 DEF Quiet
<1> QED BY <1>1, <1>2, <1>3, <1>5, <1>6, <1>7 DEF Quiet, Aimed

\* What is handed to a ROM is at a board that was reached, and somebody who
\* touches a board, or a volume that cannot be read, ends the calm.
LEMMA QuietHandles ==
  ASSUME Base, Quiet,
         \/ \E b \in Boards : Wedge(b) \/ Unwedge(b)
         \/ \E b \in Boards, m \in {"off", "boot", "rom"} : Stir(b, m)
         \/ \E p \in pending : Accept(p)
         \/ \E w \in writers : AbandonedEnds(w)
         \/ Written
  PROVE  Quiet'
<1> USE Constants DEF Base
<1> USE DEF boards, plan, transfer, history
<1> SUFFICES ASSUME Calm' PROVE Quiet'
  BY DEF Quiet
<1>0. Calm /\ wedged = {}
  BY DEF Calm, Quiet, Wedge, Unwedge, Stir, Stirred, Deploying, Accept, Flash, AbandonedEnds, Written
<1>1. /\ UNCHANGED <<pc, cat, before, target, reset, goal, serial, volume, found, port, deploys>>
      /\ UNCHANGED <<calm, astray>> /\ wedged' = {}
      /\ \/ \E p \in pending : Accept(p)
         \/ \E w \in writers : AbandonedEnds(w)
         \/ Written
  BY <1>0 DEF Calm, Wedge, Unwedge, Stir, Stirred, Deploying, Accept, Flash, AbandonedEnds, Written
<1>2. pc \notin Early
  BY <1>0, <1>1 DEF Quiet, Written, Early
<1>3. Listing'
  BY <1>0, <1>1, <1>2 DEF Quiet, Listing, Early
<1>4. ASSUME Aimed PROVE Aim'
  <2>0. /\ Aim /\ goal \in Boards /\ Reached' = Reached /\ Reached \subseteq Boards
        /\ copy # None => copy.board \in Boards
    BY <1>0, <1>1, <1>4 DEF Quiet, Aim, Known, Reached, DeployerOK, Copies
  <2>1. Known' /\ (pc' = "touch" => port'[goal'] = target'.name)
    BY <1>1, <2>0 DEF Aim, Known
  <2>2. ASSUME NEW p \in pending, Accept(p) PROVE Others' /\ OnlyReached' /\ Sent'
    <3>1. p.board \in Reached /\ p.image = deploys
      BY <2>0 DEF Aim, OnlyReached, Mine
    <3>2. /\ \A b \in Boards : b # p.board => /\ vol'[b] = vol[b] /\ image'[b] = image[b]
                                             /\ mode'[b] = mode[b]
          /\ image'[p.board] = deploys
      BY <2>0, <2>2, <3>1 DEF Accept, Flash, BoardsOK
    <3>3. Others'
      BY <1>1, <2>0, <3>1, <3>2 DEF Aim, Others, Catalogued, AtRest
    <3>4. /\ pending' \cup writers' \subseteq pending \cup writers
          /\ pending' = {q \in pending : q.board # p.board}
          /\ copy' # None => /\ copy # None /\ copy'.board = copy.board
                             /\ copy'.at = "handed" => copy.at = "handed"
      BY <2>0, <2>2, <3>1, CutCopy DEF Accept, Flash, CutOff
    <3>5. OnlyReached'
      BY <1>1, <2>0, <3>4 DEF Aim, OnlyReached, Mine
    <3>6. \A b \in Boards : (image[b] = deploys => image'[b] = deploys) /\ (Has(b) => Has(b)')
      BY <1>1, <3>2, <3>4 DEF Has
    <3>7. Sent'
      BY <1>1, <2>0, <3>4, <3>6 DEF Aim, Sent
    <3> QED BY <3>3, <3>5, <3>7
  <2>3. ASSUME NEW w \in writers, AbandonedEnds(w) PROVE Others' /\ OnlyReached' /\ Sent'
    <3>1. /\ UNCHANGED <<mode, vol, image, copy>> /\ pending \subseteq pending'
          /\ pending' \cup writers' \subseteq pending \cup writers
      BY <2>3 DEF AbandonedEnds
    <3>2. Others'
      BY <1>1, <2>0, <3>1 DEF Aim, Others, Catalogued, AtRest
    <3>3. OnlyReached'
      BY <1>1, <2>0, <3>1 DEF Aim, OnlyReached, Mine
    <3>4. Sent'
      BY <1>1, <2>0, <3>1 DEF Aim, Sent, Has
    <3> QED BY <3>2, <3>3, <3>4
  <2>4. ASSUME Written PROVE Others' /\ OnlyReached' /\ Sent'
    <3>1. /\ UNCHANGED <<mode, vol, image, writers>> /\ pc = "copying" /\ copy.at = "writing"
          /\ copy' = [copy EXCEPT !.at = "handed"] /\ copy \in Copies /\ copy # None
          /\ pending' = pending \cup {[board |-> copy.board, image |-> deploys]}
      BY <2>4 DEF Written, DeployerOK
    <3>2. copy.board \in Reached /\ vol[copy.board] = volume /\ copy'.board = copy.board
      BY <2>0, <3>1 DEF Aim, OnlyReached, Stepped, Copies
    <3>3. Others'
      BY <1>1, <2>0, <3>1 DEF Aim, Others, Catalogued, AtRest
    <3>4. OnlyReached'
      BY <1>1, <2>0, <3>1, <3>2 DEF Aim, OnlyReached, Mine
    <3>5. Sent'
      BY <1>1, <2>0, <3>1, <3>2 DEF Aim, Sent, Has
    <3> QED BY <3>3, <3>4, <3>5
  <2> QED BY <1>1, <2>1, <2>2, <2>3, <2>4 DEF Aim
<1> QED BY <1>1, <1>2, <1>3, <1>4 DEF Quiet, Aimed, Early

\* The deployer looks for its board.
LEMMA QuietLooks ==
  ASSUME Base, Quiet,
         SnapshotPorts \/ SnapshotVolumes \/ Resolve \/ (\E s \in Selectors : Begin(s))
  PROVE  Quiet'
<1> USE Constants DEF Base
<1> USE DEF boards, plan, transfer, history, Goto
<1> SUFFICES ASSUME Calm' PROVE Quiet'
  BY DEF Quiet
<1>1. ASSUME NEW s \in Selectors, Begin(s) PROVE Quiet'
  <2>1. /\ UNCHANGED <<mode, vol, image, pending, writers, target, reset>>
        /\ deploys' = deploys + 1 /\ pc = "idle" /\ pc' = "ports" /\ writers = {} /\ pending = {}
        /\ wedged' = {} /\ \A b \in Boards : AtRest(b)
    BY <1>1 DEF Begin, Calm
  <2>2. \A b \in Boards : image[b] \in Nat /\ image[b] <= deploys /\ deploys \in Nat
    BY DEF Numbered, BoardsOK, DeployerOK, Images
  <2>3. ~Aimed
    BY <2>1 DEF Aimed, Stepped, Unaimed
  <2>4. Looking'
    BY <2>1, <2>2 DEF Looking, AtRest
  <2> QED BY <2>1, <2>3, <2>4 DEF Quiet, Aimed
<1>2. CASE SnapshotPorts
  <2>1. /\ UNCHANGED <<mode, port, vol, wedged, image, pending, writers, target, reset>>
        /\ UNCHANGED <<deploys, calm>> /\ pc = "ports" /\ pc' \in {"volumes", "resolve", "failed"}
        /\ pc' = "resolve" => volume' # None
    BY <1>2, SeenPaths DEF SnapshotPorts
  <2>2. Looking /\ ~Aimed /\ wedged = {} /\ pending = {} /\ writers = {}
    BY <2>1 DEF Quiet, Calm, Early
  <2> DEFINE Entry(b) == [board |-> b, name |-> port[b], serial |-> SerialOf[b],
                          health |-> IF Healthy(b) THEN "ok" ELSE "problem"]
  <2>3. /\ \A c \in cat' : /\ c.board \in Boards /\ mode[c.board] = "run"
                           /\ c.name = port[c.board] /\ c.serial = SerialOf[c.board]
                           /\ c = Entry(c.board)
        /\ \A b \in Running : \E c \in cat' : c.board = b /\ c.name = port[b]
    <3>1. cat' = {Entry(b) : b \in Running}
      BY <1>2 DEF SnapshotPorts
    <3>2. \A b \in Running : /\ b \in Boards /\ mode[b] = "run" /\ Entry(b).board = b
                             /\ Entry(b).name = port[b] /\ Entry(b).serial = SerialOf[b]
      BY DEF Running
    <3> HIDE DEF Entry
    <3>3. ASSUME NEW c \in cat'
          PROVE  /\ c.board \in Boards /\ mode[c.board] = "run" /\ c.name = port[c.board]
                 /\ c.serial = SerialOf[c.board] /\ c = Entry(c.board)
      <4>1. PICK b \in Running : c = Entry(b)
        BY <3>1
      <4> QED BY <3>2, <4>1
    <3>4. ASSUME NEW b \in Running PROVE \E c \in cat' : c.board = b /\ c.name = port[b]
      BY <3>1, <3>2
    <3> QED BY <3>3, <3>4
  <2>4. Listing'
    <3> SUFFICES ASSUME NEW c \in cat', NEW d \in cat', c.name = d.name PROVE c = d
      BY <2>3 DEF Listing
    <3>1. c.board = d.board
      BY <2>3 DEF Apart, BoardsOK
    <3> QED BY <2>3, <3>1
  <2>5. \A b \in Boards : Catalogued(b)'
    <3> SUFFICES ASSUME NEW b \in Boards, NEW n \in Ports, port[b] = n
                 PROVE  \E c \in cat' : c.board = b /\ c.name = n
      BY <2>1 DEF Catalogued
    <3>1. b \in Running
      BY DEF BoardsOK, Running
    <3> QED BY <2>3, <3>1
  <2>6. Looking'
    BY <2>1, <2>2, <2>3, <2>5 DEF Looking, AtRest
  <2> QED BY <2>1, <2>2, <2>4, <2>6 DEF Quiet, Aimed
<1>3. CASE SnapshotVolumes
  <2>1. /\ UNCHANGED <<mode, port, vol, wedged, image, pending, writers, cat, target, reset>>
        /\ UNCHANGED <<deploys, calm>> /\ pc = "volumes" /\ pc' \in {"resolve", "failed"}
        /\ pc' = "resolve" /\ volume' = None => before' = Seen /\ goal' = goal
    BY <1>3, SeenPaths DEF SnapshotVolumes
  <2>2. /\ Listing /\ Looking /\ ~Aimed /\ wedged = {} /\ pending = {} /\ writers = {}
        /\ goal = None
    BY <2>1 DEF Quiet, Calm, Early, Stepped, Unaimed
  <2>3. \A b \in Boards : vol[b] # None => vol[b] \in Seen
    BY <2>2 DEF Seen
  <2>4. Looking'
    BY <2>1, <2>2, <2>3 DEF Looking, Catalogued, AtRest
  <2> QED BY <2>1, <2>2, <2>4 DEF Quiet, Aimed, Listing
<1>4. CASE Resolve
  <2>1. /\ UNCHANGED <<mode, port, vol, wedged, image, pending, writers, cat, before, volume>>
        /\ UNCHANGED <<copy, found, deploys, calm, astray>> /\ pc = "resolve"
        /\ pc' \in {"prepare", "watch", "touch", "failed"}
    BY <1>4 DEF Resolve
  <2>2. /\ Listing /\ Looking /\ ~Aimed /\ wedged = {} /\ pending = {} /\ writers = {}
        /\ copy = None /\ found = None /\ astray = None
    BY <2>1 DEF Quiet, Calm, Early, Stepped, DeployerOK
  <2>3. Listing'
    BY <2>1, <2>2 DEF Listing
  <2>4. ASSUME Aimed' PROVE Aim'
    <3>1. /\ volume = None
          /\ \/ \E c \in cat : /\ target' = c /\ goal' = c.board /\ serial' = c.serial
                               /\ reset' \in {c.board, None} /\ pc' = "touch"
             \/ \E b \in Boards : /\ reset' = b /\ goal' = b /\ serial' = SerialOf[b]
                                  /\ serial' # None /\ target' = None /\ pc' = "watch"
      BY <1>4, <2>2, <2>4 DEF Resolve, Aimed, ResetOnly
    <3>2. \A c \in cat : c.board \in Boards /\ c \in Records
      BY DEF DeployerOK, Records
    <3>3. Known'
      BY <2>1, <2>2, <3>1, <3>2 DEF Known, Listing
    <3>4. Others'
      BY <2>1, <2>2, <3>1 DEF Others, Looking, Catalogued, AtRest, Reached
    <3>5. OnlyReached'
      BY <2>1, <2>2, <3>1 DEF OnlyReached
    <3>6. Sent'
      BY <2>1, <2>2 DEF Sent
    <3>7. pc' = "touch" => port'[goal'] = target'.name
      BY <2>1, <2>2, <3>1 DEF Looking
    <3> QED BY <3>3, <3>4, <3>5, <3>6, <3>7 DEF Aim
  <2> QED BY <2>1, <2>2, <2>3, <2>4 DEF Quiet
<1> QED BY <1>1, <1>2, <1>3, <1>4

\* The resets: a touch reaches the goal, and what a reboot reaches is known.
LEMMA QuietResets ==
  ASSUME Base, Quiet, Touch \/ Reboot PROVE Quiet'
<1> USE Constants DEF Base
<1> USE DEF boards, plan, transfer, history, Goto
<1> SUFFICES ASSUME Calm' PROVE Quiet'
  BY DEF Quiet
<1>1. /\ UNCHANGED <<vol, wedged, image, pending, writers, cat, before, target, reset, serial>>
      /\ UNCHANGED <<goal, volume, copy, found, calm, deploys>> /\ pc \in {"touch", "reboot"}
      /\ pc' \in {"watch", "rewatch", "prepare"} /\ (pc' = "watch" => astray' = astray)
  BY DEF Touch, Reboot
<1>2. /\ Calm /\ Listing /\ wedged = {} /\ pending = {} /\ writers = {}
      /\ copy = None /\ found = None
  BY <1>1 DEF Quiet, Calm, Early, Stepped, DeployerOK
<1>3. Listing'
  BY <1>1, <1>2 DEF Listing
<1>4. ASSUME Aimed PROVE Aim'
  <2>1. Aim /\ astray = None /\ goal \in Boards
    BY <1>1, <1>2, <1>4 DEF Quiet, Aim, Known, Stepped
  <2>2. /\ Reached \subseteq Reached'
        /\ \A b \in Boards : b \notin Reached' => port'[b] = port[b] /\ mode'[b] = mode[b]
    <3>1. CASE Touch
      <4>1. astray' = astray /\ port[goal] = target.name /\ target.name \in Ports
        BY <2>1, <3>1 DEF Touch, Aim, Stepped, DeployerOK, Records
      <4>2. \A b \in Boards : port[b] = target.name => b = goal
        BY <2>1, <4>1 DEF Apart
      <4> QED BY <1>1, <2>1, <3>1, <4>1, <4>2 DEF Touch, ToRom, Running, Reached, BoardsOK
    <3>2. CASE Reboot
      BY <1>1, <2>1, <3>2 DEF Reboot, ToRom, Reachable, Running, Reached, BoardsOK
    <3> QED BY <3>1, <3>2
  <2>3. Others'
    BY <1>1, <2>1, <2>2 DEF Aim, Others, Catalogued, AtRest
  <2>4. serial = None => astray' = None
    BY <1>1, <2>1 DEF Touch, Reboot, Stepped
  <2>5. Known' /\ OnlyReached' /\ Sent'
    BY <1>1, <1>2, <2>1, <2>4 DEF Aim, Known, OnlyReached, Sent
  <2> QED BY <1>1, <2>3, <2>5 DEF Aim
<1> QED BY <1>1, <1>2, <1>3, <1>4 DEF Quiet, Aimed, Early

\* The steps of the transfer that change no board and open nothing.
LEMMA QuietWaits ==
  ASSUME Base, Quiet,
         \/ WatchFinds \/ WatchTimeout \/ Prepare \/ LoadFails \/ CopyReturns \/ CopyFails
         \/ CopyTimeout \/ Gone \/ Unsent
  PROVE  Quiet'
<1> USE Constants DEF Base
<1> USE DEF boards, plan, transfer, history, Goto
<1> SUFFICES ASSUME Calm' PROVE Quiet'
  BY DEF Quiet
<1>1. /\ UNCHANGED <<mode, port, vol, wedged, image, pending, cat, before, target, reset>>
      /\ UNCHANGED <<serial, goal, found, calm, astray, deploys>> /\ copy' \in {copy, None}
      /\ pc \notin {"idle", "ports", "volumes", "resolve", "touch"}
      /\ pc' \notin {"ports", "volumes", "resolve", "touch", "cdc", "ok"}
      /\ pc' = "eject" => pc = "copying" /\ copy.at = "handed"
      /\ pc' \in Early => pc \in Early /\ writers' = writers
  BY DEF WatchFinds, WatchTimeout, Watching, Prepare, LoadFails, CopyReturns, CopyFails,
       CopyTimeout, Gone, AfterFailure, Unsent, Early
<1>2. Calm /\ Listing /\ wedged = {}
  BY <1>1 DEF Quiet, Calm
<1>3. Listing'
  BY <1>1, <1>2 DEF Listing
<1>4. ASSUME Aimed PROVE Aim'
  <2>1. Aim /\ Reached' = Reached
    BY <1>1, <1>2, <1>4 DEF Quiet, Reached
  <2>2. Known' /\ Others'
    BY <1>1, <2>1 DEF Aim, Known, Others, Catalogued, AtRest
  <2>3. volume' # None => volume' \notin before
    BY <2>1 DEF Aim, OnlyReached, WatchFinds, Appeared, WatchTimeout, Prepare, LoadFails,
         CopyReturns, CopyFails, CopyTimeout, Gone, AfterFailure, Unsent
  <2>4. \A w \in writers' : w.board \in Reached /\ w.image = deploys
    <3>1. CASE CopyTimeout
      BY <2>1, <3>1 DEF Aim, OnlyReached, Mine, CopyTimeout, DeployerOK
    <3>2. CASE ~CopyTimeout
      BY <2>1, <3>2 DEF Aim, OnlyReached, Mine, WatchFinds, WatchTimeout, Prepare, LoadFails,
           CopyReturns, CopyFails, Gone, AfterFailure, Unsent
    <3> QED BY <3>1, <3>2
  <2>5. OnlyReached'
    BY <1>1, <2>1, <2>3, <2>4 DEF Aim, OnlyReached, Mine
  <2>6. copy # None /\ copy.at = "handed" /\ (pc' = "eject" \/ copy' # None) => volume' = volume
    BY DEF WatchFinds, Watching, WatchTimeout, Prepare, LoadFails, CopyReturns, CopyFails,
         CopyTimeout, Gone, AfterFailure, Unsent, DeployerOK
  <2>7. pc = "copying" => copy # None
    BY DEF DeployerOK
  <2>8. Sent'
    BY <1>1, <2>1, <2>6, <2>7 DEF Aim, OnlyReached, Sent, Has
  <2> QED BY <1>1, <2>2, <2>5, <2>8 DEF Aim
<1>5. pc' \in Early => pending' = {} /\ writers' = {}
  BY <1>1, <1>2 DEF Quiet
<1> QED BY <1>1, <1>2, <1>3, <1>4, <1>5 DEF Quiet, Aimed

\* What is written goes to a board that was reached: picotool is bound to the
\* serial of the goal, and no other board has a volume that was not there
\* before.
LEMMA QuietWrites ==
  ASSUME Base, Quiet, Load \/ Open PROVE Quiet'
<1> USE Constants DEF Base
<1> USE DEF boards, plan, transfer, history, Goto
<1> SUFFICES ASSUME Calm' PROVE Quiet'
  BY DEF Quiet
<1>1. /\ UNCHANGED <<port, cat, before, target, reset, serial, goal, volume, found, calm, deploys>>
      /\ UNCHANGED astray /\ wedged' \subseteq wedged /\ pc \in {"load", "copy"}
      /\ pc' \in {"eject", "cdc", "copying", "gone"}
  BY DEF Load, Open, Flash
<1>2. Calm /\ Listing /\ wedged = {} /\ copy = None
  BY <1>1 DEF Quiet, Calm, DeployerOK
<1>3. Listing'
  BY <1>1, <1>2 DEF Listing
<1>4. ASSUME Aimed PROVE Aim'
  <2>1. Aim /\ goal \in Reached /\ Reached' = Reached
    BY <1>1, <1>2, <1>4 DEF Quiet, Aim, Known, Reached
  <2>2. Known'
    BY <1>1, <2>1 DEF Aim, Known
  <2>3. ASSUME Load PROVE Others' /\ OnlyReached' /\ Sent'
    <3>1. PICK b \in Boards : SerialOf[b] = serial /\ Flash(b, deploys)
      BY <2>3 DEF Load
    <3>2. b = goal
      <4>1. serial # None /\ SerialOf[goal] = serial /\ goal \in Boards
        BY <2>1, <2>3 DEF Aim, Known, Stepped, Load
      <4> QED BY <3>1, <4>1, SerialAssumption
    <3>3. /\ \A c \in Boards : c # goal => /\ vol'[c] = vol[c] /\ image'[c] = image[c]
                                          /\ mode'[c] = mode[c]
          /\ image'[goal] = deploys
      BY <3>1, <3>2 DEF Flash, BoardsOK
    <3>4. copy' = None /\ pending' \cup writers' \subseteq pending \cup writers
      BY <1>2, <3>1 DEF Flash, CutOff
    <3>5. Others'
      BY <1>1, <2>1, <3>3 DEF Aim, Others, Catalogued, AtRest
    <3>6. OnlyReached'
      BY <1>1, <2>1, <3>4 DEF Aim, OnlyReached, Mine
    <3>7. Sent'
      BY <1>1, <2>1, <3>3, <3>4 DEF Aim, Sent, Has
    <3> QED BY <3>5, <3>6, <3>7
  <2>4. ASSUME Open PROVE Others' /\ OnlyReached' /\ Sent'
    <3>1. /\ UNCHANGED <<mode, vol, image, pending, writers>> /\ volume # None
          /\ pc' \in {"copying", "gone"}
      BY <2>4 DEF Open, Stepped
    <3>2. copy' # None => copy'.board \in Reached /\ copy'.at = "writing"
      <4> SUFFICES ASSUME copy' # None PROVE copy'.board \in Reached /\ copy'.at = "writing"
        OBVIOUS
      <4>1. PICK b \in Boards : vol[b] = volume /\ copy' = [board |-> b, at |-> "writing"]
        BY <1>2, <2>4 DEF Open
      <4>2. b \in Reached
        BY <2>1, <3>1, <4>1 DEF Aim, Others, OnlyReached
      <4> QED BY <4>1, <4>2
    <3>3. Others'
      BY <1>1, <2>1, <3>1 DEF Aim, Others, Catalogued, AtRest
    <3>4. OnlyReached'
      BY <1>1, <2>1, <3>1, <3>2 DEF Aim, OnlyReached, Mine
    <3>5. Sent'
      BY <1>1, <2>1, <3>1, <3>2 DEF Aim, Sent
    <3> QED BY <3>3, <3>4, <3>5
  <2> QED BY <1>1, <2>2, <2>3, <2>4 DEF Aim
<1> QED BY <1>1, <1>2, <1>3, <1>4 DEF Quiet, Aimed, Early

\* The port the deployer picks afterwards is the goal's: it has the serial, or
\* no reset went astray and every other board has a port of the catalogue.
LEMMA CandidateIsGoal ==
  ASSUME Base, Listing, Aim, NEW b \in Candidates PROVE b = goal
<1> USE DEF Base
<1>1. b \in Boards /\ port[b] \in Ports
  BY CandidatesRun DEF Running, BoardsOK
<1>2. CASE serial # None
  BY <1>1, <1>2, SerialAssumption DEF Candidates, Aim, Known
<1>3. CASE serial = None
  <2>1. target \in cat /\ target.board = goal
    BY <1>3 DEF Aim, Known
  <2> SUFFICES ASSUME b # goal PROVE FALSE
    OBVIOUS
  <2>2. PICK c \in cat : c.board = b /\ c.name = port[b]
    BY <1>1, <1>3 DEF Aim, Known, Others, Catalogued, Reached
  <2>3. port[b] = target.name
    BY <1>3, <2>2 DEF Candidates, Fresh
  <2> QED BY <2>1, <2>2, <2>3 DEF Listing
<1> QED BY <1>2, <1>3

\* The volume is gone, the port is looked for, the deploy reports.
LEMMA QuietEnds ==
  ASSUME Base, Quiet, Eject \/ CdcSeen \/ CdcTimeout \/ Report \/ UNCHANGED vars PROVE Quiet'
<1> USE Constants DEF Base
<1> USE DEF boards, plan, transfer, history, Goto
<1> SUFFICES ASSUME Calm' PROVE Quiet'
  BY DEF Quiet
<1>1. CASE UNCHANGED vars
  BY <1>1 DEF vars, Quiet, Calm, Listing, Looking, Aimed, Aim, Known, Others, OnlyReached, Sent, Has,
       Mine, Catalogued, AtRest, Reached
<1>2. ASSUME Eject \/ CdcSeen \/ CdcTimeout PROVE Quiet'
  <2>1. /\ UNCHANGED <<mode, port, vol, wedged, image, pending, writers, cat, before, target>>
        /\ UNCHANGED <<reset, serial, goal, volume, copy, calm, astray, deploys>> /\ pc \in {"eject", "cdc"}
        /\ pc' \in {"cdc", "ok", "failed"}
    BY <1>2 DEF Eject, CdcSeen, CdcTimeout
  <2>2. Calm /\ Listing /\ wedged = {} /\ copy = None /\ found = None
    BY <2>1 DEF Quiet, Calm, DeployerOK, Stepped
  <2>3. Listing'
    BY <2>1, <2>2 DEF Listing
  <2>4. ASSUME Aimed PROVE Aim'
    <3>1. Aim /\ Reached' = Reached /\ Reached \subseteq Boards
      BY <2>1, <2>2, <2>4 DEF Quiet, Reached, DeployerOK
    <3>2. Known' /\ Others' /\ OnlyReached'
      BY <2>1, <3>1 DEF Aim, Known, Others, OnlyReached, Catalogued, Mine, AtRest
    <3>3. pc' \in {"cdc", "ok"} => \E b \in Reached : image[b] = deploys
      <4>1. CASE pc = "cdc"
        BY <3>1, <4>1 DEF Aim, Sent
      <4>2. CASE pc = "eject" /\ pc' \in {"cdc", "ok"}
        <5>1. volume \notin Seen
          BY <1>2, <4>2 DEF Eject, CdcSeen, CdcTimeout
        <5>2. PICK b \in Reached : Has(b)
          BY <3>1, <4>2 DEF Aim, Sent
        <5>3. [board |-> b, image |-> deploys] \in pending => vol[b] \in Seen
          BY <2>2, <3>1 DEF Numbered, Rom, Seen
        <5> QED BY <5>1, <5>2, <5>3 DEF Has
      <4> QED BY <2>1, <4>1, <4>2
    <3>4. found' # None => port[goal] = found'
      <4>1. found' # None => \E b \in Candidates : found' = port[b]
        BY <1>2, <2>2 DEF Eject, CdcSeen, CdcTimeout
      <4> QED BY <2>2, <3>1, <4>1, CandidateIsGoal
    <3>5. Sent'
      BY <2>1, <2>2, <3>1, <3>3, <3>4 DEF Sent
    <3> QED BY <2>1, <3>2, <3>5 DEF Aim
  <2> QED BY <2>1, <2>2, <2>3, <2>4 DEF Quiet, Aimed, Early
<1>3. ASSUME Report PROVE Quiet'
  BY <1>3 DEF Report, Calm
<1> QED BY <1>1, <1>2, <1>3

LEMMA QuietStep == ASSUME Base, Quiet, [Next]_vars PROVE Quiet'
BY QuietMoves, QuietHandles, QuietLooks, QuietResets, QuietWaits, QuietWrites, QuietEnds
   DEF Next, World, Deploy

(***************************************************************************)
(* When the boards were at rest as a deploy began, nobody touches them,    *)
(* no volume is unreadable and the deploy reports success, then the board  *)
(* the selector was resolved to has the new image (or, after a reset       *)
(* through picotool that reached another board, that one has), no other    *)
(* board has it, and the port reported is that of the board the selector   *)
(* was resolved to (rp2040.rs deploy, select_cdc_candidate), for any       *)
(* number of boards, ports, mount points and attempts.                     *)
(***************************************************************************)
THEOREM QuietDeploys == Spec => []QuietDeployIsTrue
<1>1. Init => Base /\ Quiet
  BY BaseInit DEF Init, Quiet, Calm
<1>2. Base /\ Quiet /\ [Next]_vars => (Base /\ Quiet)'
  BY BaseStep, QuietStep
<1>3. Base /\ Quiet => QuietDeployIsTrue
  BY DEF Base, DeployerOK, Quiet, Calm, Aimed, Aim, Others, Sent, Known, QuietDeployIsTrue
<1> QED BY <1>1, <1>2, <1>3, PTL DEF Spec
=============================================================================
