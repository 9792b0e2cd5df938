--------------------------- MODULE TrustedDeploy ---------------------------
(***************************************************************************)
(* The ESP32 deploy pipeline (fbuild-daemon/src/handlers/operations/       *)
(* deploy.rs) against the device inventory and the boards themselves, with *)
(* FBUILD_TRUST_DEVICE_HASH on: a deploy whose image hash equals the one   *)
(* the daemon trusts to be on the port reports success without touching    *)
(* the board.  The question is whether the board then holds that image.    *)
(*                                                                         *)
(* A deploy refreshes the inventory (or finds it fresh, or stops waiting), *)
(* consults the trusted hash, asks the board (verify-flash), writes all or *)
(* some of the flash regions, and records or drops the trust.  `flash` is  *)
(* what each board really holds and `lapses` remembers the kinds of event  *)
(* the trust has no defence against; neither is state of the daemon.       *)
(***************************************************************************)
EXTENDS DeviceManager

CONSTANTS
    Deploys       \* deploy requests; each is a refresher as well

ASSUME DeploysAssumption == Deploys \subseteq Refreshers

VARIABLES
    job,          \* where each deploy request is
    flash,        \* board -> the image it holds; None: torn, mixed or unknown
    lapses        \* kinds of event that have happened, see LapseKinds

deployVars == <<job, flash, lapses>>

allVars == <<devices, recent_port_moves, refresh, plugged, issued, now, job, flash, lapses>>

----------------------------------------------------------------------------
JobState ==
    [ pc        : {"idle", "refresh", "check", "verify", "write", "writing", "record"},
      port      : Ports \cup {None},
      image     : Hashes \cup {None},
      hashed    : BOOLEAN,                   \* compute_esp32_image_hash was Some
      regions   : {"all", "some", "stale"},  \* stale: chosen for another board
      target    : Boards \cup {None},        \* the board being written
      ok        : BOOLEAN ]                  \* the flasher reported success

IdleJob ==
    [ pc |-> "idle", port |-> None, image |-> None, hashed |-> FALSE,
      regions |-> "all", target |-> None, ok |-> FALSE ]

\* replug:     a board is plugged into a port whose trust is unexpired, as no
\*             refresh has noted the disconnect
\* midswap:    a board is unplugged after its differing regions were chosen
\*             and before they are written, or between write and record
\* moved:      a trusted record follows a serial number to another port
\* deadline:   a deploy is cut off while it writes
\* concurrent: two deploys run on one port
\* nohash:     a deploy whose image has no hash gets as far as the write
LapseKinds == {"replug", "midswap", "moved", "deadline", "concurrent", "nohash"}

\* Every deploy, board and lapse has its type, and so has the inventory.
DeployTypeOK ==
    /\ TypeOK
    /\ job \in [Deploys -> JobState]
    /\ flash \in [Boards -> Hashes \cup {None}]
    /\ lapses \subseteq LapseKinds

DeployInit ==
    /\ Init
    /\ job = [d \in Deploys |-> IdleJob]
    /\ flash = [b \in Boards |-> None]
    /\ lapses = {}

At(d, pc) == job[d].pc = pc

Note(kind, happened) == lapses' = IF happened THEN lapses \cup {kind} ELSE lapses

UnexpiredTrust(p) ==
    /\ Known(p)
    /\ devices[p].trusted_firmware # NoTrust
    /\ devices[p].last_disconnect_at <= devices[p].trusted_firmware.set_at

\* The OS gives the serial port to one flasher at a time.
PortBusy(p) == \E d \in Deploys : At(d, "writing") /\ job[d].port = p

----------------------------------------------------------------------------
(***************************************************************************)
(* The boards.  Something else may flash a board while it is unplugged.    *)
(***************************************************************************)
PlugBoard(b, p) ==
    /\ Plug(b, p)
    /\ Note("replug", UnexpiredTrust(p))
    /\ UNCHANGED <<job, flash>>

\* A write in progress loses its board; regions chosen for it are out of date.
UnplugBoard(p) ==
    /\ Unplug(p)
    /\ job' = [d \in Deploys |->
         IF job[d].port # p THEN job[d]
         ELSE [job[d] EXCEPT !.target = None,
                 !.regions = IF At(d, "write") /\ @ = "some" THEN "stale" ELSE @]]
    /\ Note("midswap",
         \E d \in Deploys : /\ job[d].port = p
                            /\ \/ At(d, "write") /\ job[d].regions = "some"
                               \/ At(d, "record") /\ job[d].ok)
    /\ UNCHANGED flash

ExternalFlash(b, h) ==
    /\ \A p \in Ports : plugged[p] # b
    /\ flash[b] # h
    /\ flash' = [flash EXCEPT ![b] = h]
    /\ UNCHANGED <<vars, job, lapses>>

----------------------------------------------------------------------------
(***************************************************************************)
(* Refreshes.  The one a deploy asked for takes it to the trust check.     *)
(***************************************************************************)
RefreshSteps(r) ==
    /\ Enumerate(r) \/ BeginRefresh(r) \/ ApplyDiscovered(r)
    /\ r \in Deploys /\ refresh[r].pc = "idle" => At(r, "refresh")
    /\ Note("moved",
         \E p \in Ports : /\ ~Known(p)
                          /\ devices'[p] # None
                          /\ devices'[p].trusted_firmware # NoTrust)
    /\ UNCHANGED <<job, flash>>

RefreshEnds(r) ==
    /\ EndRefresh(r)
    /\ job' = [d \in Deploys |->
         IF d = r /\ At(d, "refresh") THEN [job[d] EXCEPT !.pc = "check"]
         ELSE job[d]]
    /\ UNCHANGED <<flash, lapses>>

\* refresh_devices_if_stale found the cache younger than 2 s, or the handler
\* stopped waiting after 5 s and the refresh goes on without it.
RefreshSkipped(d) ==
    /\ At(d, "refresh")
    /\ job' = [job EXCEPT ![d].pc = "check"]
    /\ UNCHANGED <<vars, flash, lapses>>

----------------------------------------------------------------------------
(***************************************************************************)
(* The deploy pipeline.                                                    *)
(***************************************************************************)
StartDeploy(d, p, h, hashed) ==
    /\ At(d, "idle")
    /\ refresh[d].pc = "idle"
    /\ job' = [job EXCEPT ![d] =
         [IdleJob EXCEPT !.pc = "refresh", !.port = p, !.image = h, !.hashed = hashed]]
    /\ Note("concurrent", \E e \in Deploys : ~At(e, "idle") /\ job[e].port = p)
    /\ UNCHANGED <<vars, flash>>

TrustMatches(d) ==
    /\ job[d].hashed
    /\ TrustedFirmwareHash(job[d].port) = job[d].image

\* Session-trusted verify-skip: success without a look at the board.
TrustSkip(d) ==
    /\ At(d, "check")
    /\ MutexFree
    /\ TrustMatches(d)
    /\ job' = [job EXCEPT ![d] = IdleJob]
    /\ UNCHANGED <<vars, flash, lapses>>

TrustMiss(d) ==
    /\ At(d, "check")
    /\ MutexFree
    /\ ~TrustMatches(d)
    /\ job' = [job EXCEPT ![d].pc = "verify"]
    /\ UNCHANGED <<vars, flash, lapses>>

\* verify-flash: the board already holds the image.  No trust is recorded.
VerifyMatch(d) ==
    /\ At(d, "verify")
    /\ plugged[job[d].port] # None
    /\ ~PortBusy(job[d].port)
    /\ flash[plugged[job[d].port]] = job[d].image
    /\ job' = [job EXCEPT ![d] = IdleJob]
    /\ UNCHANGED <<vars, flash, lapses>>

\* Some regions differ (write those), or all of them do, or the answer cannot
\* be parsed (write everything).
VerifyMismatch(d) ==
    /\ At(d, "verify")
    /\ plugged[job[d].port] # None
    /\ ~PortBusy(job[d].port)
    /\ flash[plugged[job[d].port]] # job[d].image
    /\ \E regions \in {"all", "some"} :
         job' = [job EXCEPT ![d] = [@ EXCEPT !.pc = "write", !.regions = regions]]
    /\ UNCHANGED <<vars, flash, lapses>>

\* No board, a busy port, a transport error: go on with a full flash.
VerifyError(d) ==
    /\ At(d, "verify")
    /\ job' = [job EXCEPT ![d].pc = "write"]
    /\ UNCHANGED <<vars, flash, lapses>>

\* deploy_regions and deploy: from here on the old image is gone.
BeginWrite(d) ==
    LET b == plugged[job[d].port] IN
    /\ At(d, "write")
    /\ b # None
    /\ ~PortBusy(job[d].port)
    /\ job' = [job EXCEPT ![d] = [@ EXCEPT !.pc = "writing", !.target = b]]
    /\ flash' = [flash EXCEPT ![b] = None]
    /\ UNCHANGED <<vars, lapses>>

\* The flasher succeeds on the board it started with.
WriteOk(d) ==
    /\ At(d, "writing")
    /\ job[d].target # None
    /\ flash' = [flash EXCEPT ![job[d].target] =
         IF job[d].regions = "stale" THEN None ELSE job[d].image]
    /\ job' = [job EXCEPT ![d] = [@ EXCEPT !.pc = "record", !.ok = TRUE]]
    /\ UNCHANGED <<vars, lapses>>

WriteFails(d) ==
    /\ At(d, "write") \/ At(d, "writing")
    /\ job' = [job EXCEPT ![d] = [@ EXCEPT !.pc = "record", !.ok = FALSE]]
    /\ UNCHANGED <<vars, flash, lapses>>

\* Mutant: only a successful write touches the recorded trust.
RecordKeepsOnFailure(d) ==
    LET p == job[d].port IN
    /\ MutexFree
    /\ \/ job[d].hashed /\ job[d].ok /\ SetTrustedFirmwareHash(p, job[d].image)
       \/ ~(job[d].hashed /\ Known(p) /\ job[d].ok) /\ UNCHANGED vars

\* Mutant: a successful write is recorded without asking for the image's hash.
RecordWithoutHash(d) ==
    LET p == job[d].port IN
    /\ MutexFree
    /\ \/ job[d].ok /\ SetTrustedFirmwareHash(p, IF job[d].hashed THEN job[d].image ELSE None)
       \/ ~job[d].ok /\ ClearTrustedFirmwareHash(p)
       \/ ~Known(p) /\ UNCHANGED vars

\* Record the hash of what was written, or drop what was trusted; a no-op
\* without a hash, and on a port the inventory does not have.
RecordTrust(d) ==
    LET p == job[d].port IN
    /\ MutexFree
    /\ \/ job[d].hashed /\ job[d].ok /\ SetTrustedFirmwareHash(p, job[d].image)
       \/ job[d].hashed /\ ~job[d].ok /\ ClearTrustedFirmwareHash(p)
       \/ ~(job[d].hashed /\ Known(p)) /\ UNCHANGED vars

FinishDeploy(d) ==
    /\ At(d, "record")
    /\ RecordTrust(d)
    /\ job' = [job EXCEPT ![d] = IdleJob]
    /\ Note("nohash", ~job[d].hashed)
    /\ UNCHANGED flash

\* The 10 minute ceiling drops the pipeline where it is: nothing is recorded.
\* A flasher that was writing may have been torn or may have gone through.
DeadlineExpires(d) ==
    /\ job[d].pc \in {"verify", "write", "writing"}
    /\ job' = [job EXCEPT ![d] = IdleJob]
    /\ \/ UNCHANGED flash
       \/ /\ At(d, "writing")
          /\ job[d].target # None
          /\ flash' = [flash EXCEPT ![job[d].target] = job[d].image]
    /\ Note("deadline", At(d, "writing"))
    /\ UNCHANGED vars

----------------------------------------------------------------------------
Inventory ==
    /\ TakeRecentPortMoves \/ Acquire \/ Release \/ Preempt
    /\ UNCHANGED deployVars

World ==
    \/ \E p \in Ports : UnplugBoard(p) \/ \E b \in Boards : PlugBoard(b, p)
    \/ \E b \in Boards, h \in Hashes : ExternalFlash(b, h)

Pipeline(d) ==
    \/ RefreshSkipped(d)
    \/ TrustSkip(d)
    \/ TrustMiss(d)
    \/ VerifyMatch(d)
    \/ VerifyMismatch(d)
    \/ VerifyError(d)
    \/ BeginWrite(d)
    \/ WriteOk(d)
    \/ WriteFails(d)
    \/ FinishDeploy(d)
    \/ DeadlineExpires(d)

DeployNext ==
    \/ World
    \/ Inventory
    \/ \E r \in Refreshers : RefreshSteps(r) \/ RefreshEnds(r)
    \/ \E d \in Deploys, p \in Ports, h \in Hashes, hashed \in BOOLEAN :
         StartDeploy(d, p, h, hashed)
    \/ \E d \in Deploys : Pipeline(d)

DeploySpec == DeployInit /\ [][DeployNext]_allVars

----------------------------------------------------------------------------
(***************************************************************************)
(* Properties.                                                             *)
(***************************************************************************)

\* When deploy d skips on trust, the board on its port (if any) holds the image.
HoldsImage(d) ==
    plugged[job[d].port] # None => flash[plugged[job[d].port]] = job[d].image

Skips(d) == At(d, "check") /\ job[d]'.pc = "idle"

\* Without a lapse, a deploy that reports "firmware already current (skipped
\* via session trust)" tells the truth: whatever boards were unplugged, flashed
\* elsewhere and plugged in again after a refresh had seen them go, whatever
\* deploys failed, and whatever refreshes came late.
SkipIsSound == [][\A d \in Deploys : Skips(d) /\ lapses = {} => HoldsImage(d)]_allVars
=============================================================================
