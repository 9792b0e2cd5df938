----------------------------- MODULE PicoDeploy -----------------------------
(***************************************************************************)
(* The deployer of the RP2040 family against boards that come and go.  A   *)
(* deploy finds the board its selector names, resets it into its ROM,      *)
(* waits for the volume the ROM shows, hands it the image as NEW.UF2 or    *)
(* with picotool, waits until the volume is gone and looks for the serial  *)
(* port the board then has.                                                *)
(*                                                                         *)
(* A board is off, runs an application ("run", with a serial port), is     *)
(* about to run one ("boot") or is in its ROM ("rom", with a volume once   *)
(* the host has mounted it).  The deployer knows a volume only by reading  *)
(* INFO_UF2.TXT from it: one that is mounted and cannot be read (wedged)   *)
(* is no volume to it.  Images are numbered by the deploy that brings      *)
(* them.  Timeouts are steps that may be taken as soon as the wait has     *)
(* looked once.                                                            *)
(***************************************************************************)
EXTENDS Integers, FiniteSets

CONSTANTS Boards,
          SerialOf,    \* the USB serial of a board, or None
          Sick,        \* boards whose serial port the host reports as
                       \* unusable until they run a new image
          Ports,       \* names of serial ports
          Paths,       \* where volumes are mounted
          ResetInterfaces,  \* <<board, image>>: the application has a reset
                            \* interface that the host lists and can address
                            \* by itself (none unless on Windows)
          None,
          MaxDeploys,  \* bound: deploys
          MaxTries,    \* UF2_TRANSFER_ATTEMPTS
          MaxStirs     \* bound: what people and bad hubs do to the boards
                       \* and to their volumes

Serials == {SerialOf[b] : b \in Boards} \ {None}

ASSUME SerialAssumption ==
  \A b, c \in Boards : SerialOf[b] # None /\ SerialOf[b] = SerialOf[c] => b = c
ASSUME HostAssumption ==
  Sick \subseteq Boards /\ ResetInterfaces \subseteq Boards \X Nat
ASSUME BoundAssumption ==
  MaxDeploys \in Nat /\ MaxTries \in Nat \ {0} /\ MaxStirs \in Nat

VARIABLES mode, port, vol, image,  \* of every board
          wedged,   \* boards whose volume is mounted and cannot be read
          pending,  \* [board, image]: all of NEW.UF2 is with the ROM
          writers,  \* [board, image]: abandoned copies with an open handle
          pc,
          sel,      \* the selector: [by, what]
          cat,      \* the serial ports of the first snapshot
          before,   \* volumes_before
          target,   \* runtime_target: an entry of cat, or None
          reset,    \* the board whose reset interface is known, or None
          serial,   \* requested_serial
          volume,   \* the volume to write to
          way,      \* the transport that runs, and what may still follow it
          tries,    \* attempts of the transfer
          copy,     \* the copy that runs: [board, at], or None
          found,    \* the port a successful deploy reports
          goal,     \* history: the board the selector was resolved to
          calm,     \* history: nothing happened to the boards but the deploy
          astray,   \* history: the other board that picotool reset, or None
          misread,  \* history: boards taken for gone with their volume there
          deploys, stirs

boards == <<mode, port, vol, wedged, image, pending, writers>>
plan == <<sel, cat, before, target, reset, serial, goal>>
transfer == <<volume, way, tries, copy, found>>
history == <<calm, astray, misread>>
vars == <<boards, pc, plan, transfer, history, deploys, stirs>>

\* has_uf2_marker: the volumes whose INFO_UF2.TXT can be read.
Seen == {vol[b] : b \in Boards \ wedged} \ {None}
Free(names, used) == names \ {used[b] : b \in Boards}

Selectors == [by : {"nothing"}, what : {None}]
               \cup [by : {"port"}, what : Ports]
               \cup [by : {"serial"}, what : Serials]
               \cup [by : {"volume"}, what : Paths]

NoSelector == [by |-> "nothing", what |-> None]

Init ==
  /\ mode \in [Boards -> {"off", "run", "rom"}]
  /\ port \in [Boards -> Ports \cup {None}]
  /\ vol \in [Boards -> Paths \cup {None}]
  /\ \A b \in Boards : /\ port[b] # None <=> mode[b] = "run"
                       /\ vol[b] # None <=> mode[b] = "rom"
  /\ \A b, c \in Boards : b # c => /\ port[b] # None => port[b] # port[c]
                                   /\ vol[b] # None => vol[b] # vol[c]
  /\ image = [b \in Boards |-> 0]
  /\ wedged = {} /\ pending = {} /\ writers = {}
  /\ pc = "idle"
  /\ sel = NoSelector /\ cat = {} /\ before = {} /\ target = None
  /\ reset = None /\ serial = None /\ goal = None
  /\ volume = None /\ way = None /\ tries = 0 /\ copy = None /\ found = None
  /\ calm = "calm" /\ astray = None /\ misread = {}
  /\ deploys = 0 /\ stirs = 0

-----------------------------------------------------------------------------
(* The boards and the host, on their own. *)

\* Every handle on the volume of b is dead, and what its ROM has not acted
\* on is lost.
CutOff(b) ==
  /\ pending' = {p \in pending : p.board # b}
  /\ writers' = {w \in writers : w.board # b}
  /\ copy' = IF copy # None /\ copy.board = b /\ copy.at = "writing"
             THEN [copy EXCEPT !.at = "cut"] ELSE copy

Deploying == pc # "idle"
Stirred == calm' = IF Deploying THEN "stirred" ELSE calm

\* The host mounts the volume of a board in its ROM, try_mount_rom_device or
\* the desktop doing it.
Mount(b) ==
  /\ mode[b] = "rom" /\ vol[b] = None
  /\ \E v \in Free(Paths, vol) : vol' = [vol EXCEPT ![b] = v]
  /\ UNCHANGED <<mode, port, wedged, image, pending, writers, pc, plan,
                 transfer, history, deploys, stirs>>

\* The volume stays mounted and INFO_UF2.TXT cannot be read any more, or can
\* be read again: a transport that hangs, an I/O error.
Wedge(b) ==
  /\ stirs < MaxStirs
  /\ stirs' = stirs + 1
  /\ vol[b] # None /\ b \notin wedged
  /\ wedged' = wedged \cup {b}
  /\ Stirred
  /\ UNCHANGED <<mode, port, vol, image, pending, writers, pc, plan, transfer,
                 astray, misread, deploys>>

Unwedge(b) ==
  /\ b \in wedged
  /\ wedged' = wedged \ {b}
  /\ UNCHANGED <<mode, port, vol, image, pending, writers, pc, plan, transfer,
                 history, deploys, stirs>>

\* The ROM flashes an image and restarts.
Flash(b, i) ==
  /\ image' = [image EXCEPT ![b] = i]
  /\ mode' = [mode EXCEPT ![b] = "boot"]
  /\ vol' = [vol EXCEPT ![b] = None]
  /\ wedged' = wedged \ {b}
  /\ CutOff(b)

\* The ROM has all of NEW.UF2.
Accept(p) ==
  /\ p \in pending
  /\ Flash(p.board, p.image)
  /\ UNCHANGED <<port, pc, plan, volume, way, tries, found, history, deploys,
                 stirs>>

\* The application runs, under some name.
Boot(b) ==
  /\ mode[b] = "boot"
  /\ mode' = [mode EXCEPT ![b] = "run"]
  /\ \E n \in Free(Ports, port) : port' = [port EXCEPT ![b] = n]
  /\ UNCHANGED <<vol, wedged, image, pending, writers, pc, plan, transfer,
                 history, deploys, stirs>>

\* An abandoned copy ends: with an error, or with everything written.
AbandonedEnds(w) ==
  /\ w \in writers
  /\ writers' = writers \ {w}
  /\ pending' \in {pending, pending \cup {w}}
  /\ UNCHANGED <<mode, port, vol, wedged, image, pc, plan, transfer, history,
                 deploys, stirs>>

\* Somebody plugs a board in, with its button pressed or not, unplugs it, or
\* puts it into its ROM; a hub drops it for a moment.
Stir(b, m) ==
  /\ stirs < MaxStirs
  /\ stirs' = stirs + 1
  /\ m # mode[b] \/ m = "rom"
  /\ mode' = [mode EXCEPT ![b] = m]
  /\ port' = [port EXCEPT ![b] = None]
  /\ vol' = [vol EXCEPT ![b] = None]
  /\ wedged' = wedged \ {b}
  /\ CutOff(b)
  /\ Stirred
  /\ UNCHANGED <<image, pc, plan, volume, way, tries, found, astray, misread,
                 deploys>>

-----------------------------------------------------------------------------
(* deploy: which board, and its volume. *)

Goto(l) == pc' = l
Healthy(b) == b \notin Sick \/ image[b] # 0
Running == {b \in Boards : mode[b] = "run"}

\* Nothing will happen to the board by itself.
AtRest(b) == mode[b] # "boot" /\ (mode[b] = "rom" => vol[b] # None)

Begin(s) ==
  /\ pc = "idle"
  /\ deploys < MaxDeploys
  /\ deploys' = deploys + 1
  /\ sel' = s
  /\ calm' = IF /\ wedged = {} /\ writers = {} /\ pending = {}
                /\ \A b \in Boards : AtRest(b)
             THEN "calm" ELSE "stirred"
  /\ Goto("ports")
  /\ UNCHANGED <<boards, cat, before, target, reset, serial, goal, transfer,
                 astray, misread, stirs>>

\* The board whose volume is at v, if that is what the selector says.
Chosen(v) == goal' = IF sel.by \in {"nothing", "volume"}
                     THEN CHOOSE b \in Boards : vol[b] = v ELSE goal

\* catalogue_pico_cdc_ports, then the volume a selector may name.
SnapshotPorts ==
  /\ pc = "ports"
  /\ cat' = {[board |-> b, name |-> port[b], serial |-> SerialOf[b],
              health |-> IF Healthy(b) THEN "ok" ELSE "problem"]
               : b \in Running}
  /\ \/ /\ sel.by # "volume"
        /\ Goto("volumes")
        /\ UNCHANGED <<volume, goal>>
     \/ /\ sel.by = "volume" /\ sel.what \in Seen
        /\ volume' = sel.what
        /\ Chosen(sel.what)
        /\ Goto("resolve")
     \/ /\ sel.by = "volume" /\ sel.what \notin Seen
        /\ Goto("failed")
        /\ UNCHANGED <<volume, goal>>
  /\ UNCHANGED <<boards, sel, before, target, reset, serial, way, tries, copy,
                 found, history, deploys, stirs>>

Matches == {c \in cat : \/ sel.by = "port" /\ c.name = sel.what
                        \/ sel.by = "serial" /\ c.serial = sel.what}

\* resolve_requested_runtime_target: the one match, when it is healthy.
Resolves(c) == Matches = {c} /\ c.health = "ok"
CanAttribute == \E c \in cat : Resolves(c)

\* find_uf2_volumes and pretouch_volume_policy.
SnapshotVolumes ==
  /\ pc = "volumes"
  /\ \/ /\ CanAttribute \/ Seen = {}
        /\ before' = Seen
        /\ Goto("resolve")
        /\ UNCHANGED <<volume, goal>>
     \/ /\ ~CanAttribute /\ Cardinality(Seen) > 1
        /\ Goto("failed")
        /\ UNCHANGED <<before, volume, goal>>
     \/ /\ ~CanAttribute
        /\ \E v \in Seen : Seen = {v} /\ volume' = v /\ Chosen(v)
        /\ Goto("resolve")
        /\ UNCHANGED before
  /\ UNCHANGED <<boards, sel, cat, target, reset, serial, way, tries, copy,
                 found, history, deploys, stirs>>

\* The boards whose reset interface the host lists.
Listed == {b \in Running : <<b, image[b]>> \in ResetInterfaces}

\* The reset interface of a board whose serial port is sick or gone.
ResetOnly(b) ==
  /\ b \in Listed /\ SerialOf[b] # None
  /\ \/ sel.by = "serial" /\ sel.what = SerialOf[b]
     \/ \E c \in Matches : /\ sel.by = "port" /\ c.health = "problem"
                           /\ c.serial = SerialOf[b]

\* The runtime target, or only a reset interface.  A volume that is there
\* needs neither.
Resolve ==
  /\ pc = "resolve"
  /\ \/ /\ volume # None \/ sel.by = "nothing"
        /\ serial' = IF sel.by = "serial" THEN sel.what ELSE None
        /\ Goto(IF volume # None THEN "prepare" ELSE "watch")
        /\ UNCHANGED <<target, reset, goal>>
     \/ /\ volume = None
        /\ \E c \in cat : /\ Resolves(c)
                          /\ target' = c
                          /\ goal' = c.board
                          /\ serial' = c.serial
                          /\ reset' = IF c.serial # None /\ c.board \in Listed
                                      THEN c.board ELSE None
        /\ Goto("touch")
     \/ /\ volume = None /\ ~CanAttribute
        /\ \E b \in Boards : /\ ResetOnly(b)
                             /\ reset' = b
                             /\ goal' = b
                             /\ serial' = SerialOf[b]
        /\ Goto("watch")
        /\ UNCHANGED target
     \/ /\ volume = None /\ sel.by # "nothing" /\ ~CanAttribute
        /\ \A b \in Boards : ~ResetOnly(b)
        /\ Goto("failed")
        /\ UNCHANGED <<target, reset, serial, goal>>
  /\ UNCHANGED <<boards, sel, cat, before, transfer, history, deploys, stirs>>

\* A board goes into its ROM.
ToRom(b) ==
  /\ mode' = [mode EXCEPT ![b] = "rom"]
  /\ port' = [port EXCEPT ![b] = None]

\* touch_1200bps: whoever has the name now, or nobody, is reset.
Touch ==
  /\ pc = "touch"
  /\ \/ \E b \in Running : port[b] = target.name /\ ToRom(b)
     \/ UNCHANGED <<mode, port>>
  /\ Goto("watch")
  /\ UNCHANGED <<vol, wedged, image, pending, writers, plan, transfer, history,
                 deploys, stirs>>

Watching == pc \in {"watch", "rewatch", "retry"}

\* Mutant: a volume that was there before the touch is as good as a new one.
AnyVolume == Seen

Appeared == Seen \ before

\* find_uf2_volume_until: one new volume, or several.
WatchFinds ==
  /\ Watching
  /\ \/ /\ \E v \in Appeared : Appeared = {v} /\ volume' = v
        /\ Goto(IF pc = "retry" THEN "copy" ELSE "prepare")
     \/ /\ Cardinality(Appeared) > 1
        /\ Goto(IF pc = "retry" THEN "unsent" ELSE "failed")
        /\ UNCHANGED volume
  /\ UNCHANGED <<boards, plan, way, tries, copy, found, history, deploys, stirs>>

\* ... or none: the application reset interface of the target is next.
WatchTimeout ==
  /\ Watching
  /\ Appeared = {}
  /\ Goto(CASE pc = "watch" /\ serial # None -> "reboot"
            [] pc = "retry" -> "unsent"
            [] OTHER -> "prepare")
  /\ UNCHANGED <<boards, plan, transfer, history, deploys, stirs>>

\* The board a reset request reaches: the one whose interface is known, or,
\* through picotool, the only one that runs (all have one vendor and
\* product).
Reachable == IF reset # None THEN Running \cap {reset}
             ELSE {b \in Boards : Running = {b}}

Reboot ==
  /\ pc = "reboot"
  /\ \/ \E b \in Reachable : /\ ToRom(b)
                             /\ astray' = IF b = goal THEN None ELSE b
        /\ Goto("rewatch")
     \/ Goto("prepare") /\ UNCHANGED <<mode, port, astray>>
  /\ UNCHANGED <<vol, wedged, image, pending, writers, plan, transfer, calm,
                 misread, deploys, stirs>>

-----------------------------------------------------------------------------
(* deploy: the transfer. *)

\* prepare_uf2_artifact; without a serial only mass storage is left.
Prepare ==
  /\ pc = "prepare"
  /\ \/ Goto("failed") /\ UNCHANGED way
     \/ /\ way' \in {"uf2", "picotool"}
        /\ serial = None => way' = "uf2"
        /\ Goto(CASE way' = "uf2" /\ volume # None -> "copy"
                  [] way' = "uf2" /\ serial = None -> "failed"
                  [] OTHER -> "load")
  /\ UNCHANGED <<boards, plan, volume, tries, copy, found, history, deploys,
                 stirs>>

\* load_with_managed_picotool, bound to the serial.
Load ==
  /\ pc = "load"
  /\ \E b \in Boards : /\ mode[b] = "rom" /\ SerialOf[b] = serial
                       /\ Flash(b, deploys)
  /\ Goto(IF volume # None THEN "eject" ELSE "cdc")
  /\ UNCHANGED <<port, plan, volume, way, tries, found, history, deploys, stirs>>

LoadFails ==
  /\ pc = "load"
  /\ Goto(IF way = "picotool" /\ volume # None THEN "copy" ELSE "failed")
  /\ UNCHANGED <<boards, plan, transfer, history, deploys, stirs>>

\* The watchdog's worker opens NEW.UF2 on whatever is mounted there.
Open ==
  /\ pc = "copy"
  /\ tries' = tries + 1
  /\ \/ /\ \E b \in Boards : /\ vol[b] = volume
                             /\ copy' = [board |-> b, at |-> "writing"]
        /\ Goto("copying")
     \/ Goto("gone") /\ UNCHANGED copy
  /\ UNCHANGED <<boards, plan, volume, way, found, history, deploys, stirs>>

\* The last byte is written.
Written ==
  /\ pc = "copying" /\ copy.at = "writing"
  /\ copy' = [copy EXCEPT !.at = "handed"]
  /\ pending' = pending \cup {[board |-> copy.board, image |-> deploys]}
  /\ UNCHANGED <<mode, port, vol, wedged, image, writers, pc, plan, volume,
                 way, tries, found, history, deploys, stirs>>

\* copy_uf2_artifact_with: every byte is written, and if the last call failed
\* then because the volume was gone.
CopyReturns ==
  /\ pc = "copying" /\ copy.at = "handed"
  /\ copy' = None
  /\ Goto("eject")
  /\ UNCHANGED <<boards, plan, volume, way, tries, found, history, deploys,
                 stirs>>

CopyFails ==
  /\ pc = "copying"
  /\ copy' = None
  /\ Goto("gone")
  /\ UNCHANGED <<boards, plan, volume, way, tries, found, history, deploys,
                 stirs>>

\* Mutant: no watchdog.
CopyNeverTimesOut == FALSE /\ UNCHANGED vars

\* run_with_watchdog: the worker of a stuck write is left behind.
CopyTimeout ==
  /\ pc = "copying"
  /\ writers' = IF copy.at = "writing"
                THEN writers \cup {[board |-> copy.board, image |-> deploys]}
                ELSE writers
  /\ copy' = None
  /\ Goto("gone")
  /\ UNCHANGED <<mode, port, vol, wedged, image, pending, plan, volume, way,
                 tries, found, history, deploys, stirs>>

\* Another attempt follows a failed one, or none does.
AfterFailure(again) ==
  /\ pc = "gone"
  /\ \/ /\ again
        /\ misread' = misread \cup {b \in wedged : vol[b] = volume}
        /\ Goto("retry")
     \/ /\ ~again
        /\ Goto("unsent")
        /\ UNCHANGED misread
  /\ UNCHANGED <<boards, plan, transfer, calm, astray, deploys, stirs>>

\* Mutant: the volume need not be gone before the next attempt.
GoneAtOnce == AfterFailure(tries < MaxTries)

\* Mutant: one attempt too many.
GoneOnceMore == AfterFailure(tries <= MaxTries /\ volume \notin Seen)

\* transfer_uf2_with_retries: the volume cannot be read, be it gone or not.
Gone == AfterFailure(tries < MaxTries /\ volume \notin Seen)

\* The mass-storage transfer failed.
Unsent ==
  /\ pc = "unsent"
  /\ Goto(IF way = "uf2" /\ serial # None THEN "load" ELSE "failed")
  /\ UNCHANGED <<boards, plan, transfer, history, deploys, stirs>>

\* wait_for_volume_disappearance: the volume cannot be read any more; an
\* image for RAM is done then.
Eject ==
  /\ pc = "eject"
  /\ \/ volume \notin Seen /\ pc' \in {"cdc", "ok"}
     \/ volume \in Seen /\ Goto("failed")
  /\ UNCHANGED <<boards, plan, transfer, history, deploys, stirs>>

-----------------------------------------------------------------------------
(* deploy: the port afterwards. *)

Eligible == {b \in Running : Healthy(b)}
Fresh == {b \in Eligible : \A c \in cat : port[b] # c.name}

\* select_cdc_candidate: by serial, by the old name, by being the only new
\* one.
Candidates ==
  IF serial # None THEN {b \in Eligible : SerialOf[b] = serial}
  ELSE LET old == {b \in Eligible : target # None /\ port[b] = target.name}
       IN IF old # {} THEN old ELSE Fresh

CdcSeen ==
  /\ pc = "cdc"
  /\ \/ /\ \E b \in Candidates : Candidates = {b} /\ found' = port[b]
        /\ Goto("ok")
     \/ Cardinality(Candidates) > 1 /\ Goto("failed") /\ UNCHANGED found
  /\ UNCHANGED <<boards, plan, volume, way, tries, copy, history, deploys, stirs>>

\* The image was accepted: a quiet port is no failure.
CdcTimeout ==
  /\ pc = "cdc"
  /\ Goto("ok")
  /\ UNCHANGED <<boards, plan, transfer, history, deploys, stirs>>

Report ==
  /\ pc \in {"ok", "failed"}
  /\ Goto("idle")
  /\ sel' = NoSelector /\ cat' = {} /\ before' = {} /\ target' = None
  /\ reset' = None /\ serial' = None /\ goal' = None
  /\ volume' = None /\ way' = None /\ tries' = 0 /\ copy' = None
  /\ found' = None /\ astray' = None /\ misread' = {}
  /\ UNCHANGED <<boards, calm, deploys, stirs>>

-----------------------------------------------------------------------------
World ==
  \/ \E b \in Boards : \/ Mount(b) \/ Boot(b) \/ Wedge(b) \/ Unwedge(b)
                       \/ \E m \in {"off", "boot", "rom"} : Stir(b, m)
  \/ \E p \in pending : Accept(p)
  \/ \E w \in writers : AbandonedEnds(w)
  \/ Written

Deploy ==
  \/ SnapshotPorts \/ SnapshotVolumes \/ Resolve \/ Touch
  \/ WatchFinds \/ WatchTimeout \/ Reboot
  \/ Prepare \/ Load \/ LoadFails \/ Open \/ CopyReturns \/ CopyFails
  \/ CopyTimeout \/ Gone \/ Unsent \/ Eject \/ CdcSeen \/ CdcTimeout \/ Report

Next == World \/ Deploy \/ \E s \in Selectors : Begin(s)

Spec == Init /\ [][Next]_vars

\* A deploy goes on by itself, except that a write may hang.
FairSpec ==
  /\ Spec
  /\ WF_vars(SnapshotPorts \/ SnapshotVolumes \/ Resolve \/ Touch)
  /\ WF_vars(WatchFinds \/ WatchTimeout \/ Reboot)
  /\ WF_vars(Prepare \/ LoadFails \/ Open)
  /\ WF_vars(CopyTimeout)
  /\ WF_vars(Gone \/ Unsent \/ Eject \/ CdcTimeout \/ Report)

-----------------------------------------------------------------------------
Steps == {"idle", "ports", "volumes", "resolve", "touch", "watch", "rewatch",
          "reboot", "prepare", "load", "copy", "copying", "gone", "retry",
          "unsent", "eject", "cdc", "ok", "failed"}
Images == 0 .. MaxDeploys
Handles == [board : Boards, image : 1 .. MaxDeploys]
Records == [board : Boards, name : Ports, serial : Serials \cup {None},
            health : {"ok", "problem"}]
Copies == [board : Boards, at : {"writing", "handed", "cut"}]

ASSUME NoneAssumption ==
  None \notin Boards \cup Ports \cup Paths \cup Records \cup Copies

\* What the fields of the deployer and of the boards can be: in particular a
\* transfer makes at most UF2_TRANSFER_ATTEMPTS attempts, and a board has a
\* port only while it runs and a volume only while it is in its ROM.
TypeOK ==
  /\ mode \in [Boards -> {"off", "boot", "run", "rom"}]
  /\ port \in [Boards -> Ports \cup {None}]
  /\ vol \in [Boards -> Paths \cup {None}]
  /\ image \in [Boards -> Images]
  /\ wedged \subseteq {b \in Boards : vol[b] # None}
  /\ pending \subseteq Handles /\ writers \subseteq Handles
  /\ pc \in Steps
  /\ sel \in Selectors
  /\ cat \subseteq Records /\ before \subseteq Paths
  /\ target \in Records \cup {None}
  /\ reset \in Boards \cup {None} /\ goal \in Boards \cup {None}
  /\ serial \in Serials \cup {None}
  /\ volume \in Paths \cup {None}
  /\ way \in {"uf2", "picotool", None}
  /\ tries \in 0 .. MaxTries
  /\ copy \in Copies \cup {None}
  /\ copy # None <=> pc = "copying"
  /\ found \in Ports \cup {None}
  /\ calm \in {"calm", "stirred"}
  /\ astray \in Boards \cup {None} /\ misread \subseteq Boards
  /\ deploys \in Images /\ stirs \in 0 .. MaxStirs
  /\ \A b \in Boards : /\ port[b] # None <=> mode[b] = "run"
                       /\ vol[b] # None => mode[b] = "rom"

\* Safety.  A deploy writes NEW.UF2 a second time into an enumeration of the
\* ROM in which a write of its own, given up by the watchdog, may still be
\* going on, only when it has taken a volume that was mounted all the time for
\* gone because INFO_UF2.TXT could not be read (transfer_uf2_with_retries,
\* has_uf2_marker).
OneWriterPerEnumeration ==
  copy # None /\ copy.at = "writing" /\ copy.board \notin misread
    => [board |-> copy.board, image |-> deploys] \notin writers

\* The boards a deploy may write to: the one its selector was resolved to,
\* and the one that its own reset by vendor and product reached instead.
Reached == {goal, astray} \ {None}

\* Safety.  When the boards were at rest as a deploy began, nobody touches
\* them and no volume is unreadable during it, and it reports success, then
\* the board the selector was resolved to has the new image, no other board
\* has it, and the port reported is that board's; after a reset through
\* picotool that reached another board (reboot_to_bootsel_args names the
\* vendor and the product only), the new image may be on that one instead.
QuietDeployIsTrue ==
  pc = "ok" /\ calm = "calm" /\ goal # None /\ (target # None \/ reset # None)
    => /\ \E b \in Reached : image[b] = deploys
       /\ \A b \in Boards \ Reached : image[b] # deploys
       /\ found # None => port[goal] = found

\* Liveness.  A deploy comes back, also when the write hangs for ever.
EveryDeployEnds == pc # "idle" ~> pc = "idle"
=============================================================================
