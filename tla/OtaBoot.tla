------------------------------ MODULE OtaBoot -------------------------------
(***************************************************************************)
(* Updates over the air on a Pico W: os/src/ota.rs, the version check and  *)
(* the download of os/src/agent.rs and net/http.rs, the trial boot of      *)
(* os/src/main.rs, and the boot loader, a client of embassy-boot, which is *)
(* external.  The config record is read with ConfigStore's Load.           *)
(*                                                                         *)
(* A frame is the check of the trial, then agent.update; the Wi-Fi task    *)
(* moves while the next frame is awaited.                                  *)
(***************************************************************************)
EXTENDS Integers

CONSTANTS
  Images,      (* firmware images *)
  Factory,     (* the one flashed over USB *)
  Reaching,    (* those whose heartbeat reaches the server *)
  Crashing,    (* those that never get to their first frame *)
  RecordLen,   (* per image, the length of the config record it writes *)
  EmptyBodies, (* may the server answer with an empty image? *)
  MaxSeq,      (* bound: the highest sequence number of a config record *)
  MaxCuts,     (* bound: restarts that the firmware did not order *)
  MaxFaults,   (* bound: flash operations that fail *)
  None

ASSUME ImagesAssumption ==
  /\ Factory \in Reaching
  /\ Reaching \subseteq Images
  /\ Crashing \subseteq Images \ Reaching
  /\ None \notin Images
  /\ Images \cap {"torn", "none", "queued", "body", "ended", "failed", "well",
                   "rebooting", "empty", "whole"} = {}
  /\ RecordLen \in [Images -> Nat]
ASSUME BoundsAssumption ==
  /\ EmptyBodies \in BOOLEAN
  /\ MaxSeq \in Nat /\ MaxSeq >= 2
  /\ MaxCuts \in Nat
  /\ MaxFaults \in Nat

VARIABLES
  active, dfu,   (* the two partitions: a whole image, "torn" or None *)
  magic,         (* embassy-boot's State: "boot", "swap" or "revert" *)
  swapped,       (* its progress: has this swap been done? *)
  phase,         (* "loader", "main" or "agent" *)
  trial,         (* what in_trial found at the start *)
  timeUp,        (* TRIAL_LIMIT_MS is over *)
  heartbeatOk,   (* Agent.heartbeat_ok *)
  bootConfirmed, (* boot_confirmed of main *)
  job,           (* Agent.job: "none", "heartbeat", "version" or "firmware" *)
  answer,        (* its request: "none", "queued", "body", "ended", then the outcome *)
  published,     (* the image in the server's folder *)
  sectors, config, seq,  (* of ConfigStore; the config is "users" or "builtin" *)
  reached,       (* history: the images a heartbeat of which was answered *)
  cuts, faults   (* counters of the bounds *)

partitions == <<active, dfu, magic, swapped>>
agent == <<heartbeatOk, job>>
storage == <<sectors, config, seq>>
bounds == <<cuts, faults>>
vars == <<partitions, phase, trial, timeUp, agent, bootConfirmed, answer, published,
          storage, reached, bounds>>

Storage == INSTANCE ConfigStore WITH
  Configs <- {"users", "builtin"}, Defaults <- "builtin", SeqMod <- 2 * MaxSeq + 6,
  Formats <- {RecordLen[i] : i \in Images}, NoConfig <- None,
  format <- 0, pc <- "idle", next <- "builtin", saved <- config, tried <- {}

Contents == Images \cup {"torn", None}

(* To a heartbeat, "rebooting" if it carries that command; to a version    *)
(* check the image published; to a download how it ended.                  *)
Answers ==
  {"none", "queued", "body", "ended", "failed", "well", "rebooting", "empty", "whole"}
    \cup Images

Runs(content) == content \in Images \ Crashing

Fault == faults < MaxFaults /\ faults' = faults + 1

-----------------------------------------------------------------------------
(* embassy-boot. *)

(* set_magic: the state sector is erased, which also forgets the progress, *)
(* and written; nothing happens if it holds the magic.                     *)
SetMagic(m) ==
  \/ magic = m /\ UNCHANGED <<magic, swapped, faults>>
  \/ magic # m /\ magic' = m /\ swapped' = FALSE /\ UNCHANGED faults
  \/ /\ magic # m
     /\ magic' \in {magic, "boot"}
     /\ swapped' = (swapped /\ magic' = magic)
     /\ Fault

(* Variant: it writes in any state. *)
WritesAlways == TRUE

(* write_firmware asks for a confirmed boot. *)
WritesFirmware == magic # "swap"

(* BootLoader::prepare *)
LoaderSwaps ==
  /\ magic = "swap"
  /\ active' = dfu
  /\ dfu' = active
  /\ swapped' = ~swapped
  /\ magic' = IF swapped THEN "revert" ELSE "swap"

LoaderStarts == magic # "swap" /\ UNCHANGED partitions

-----------------------------------------------------------------------------
(* Restart, by command, watchdog, timer or power. *)
Restart ==
  /\ phase' = "loader"
  /\ trial' = FALSE
  /\ timeUp' = FALSE
  /\ heartbeatOk' = FALSE
  /\ bootConfirmed' = FALSE
  /\ job' = "none"
  /\ answer' = "none"

(* The boot loader, and main up to its loop. *)
Boot ==
  /\ phase = "loader"
  /\ LoaderSwaps \/ LoaderStarts
  /\ phase' = "main"
  /\ trial' = (magic' = "swap")
  /\ LET found == Storage!Load(sectors, RecordLen[active'])
     IN  IF Runs(active') THEN config' = found.cfg /\ seq' = found.seq
         ELSE UNCHANGED <<config, seq>>
  /\ UNCHANGED <<timeUp, agent, bootConfirmed, answer, published, sectors, reached, bounds>>

(* An image that does not run does not feed the watchdog. *)
WatchdogReset ==
  /\ phase = "main"
  /\ ~Runs(active)
  /\ Restart
  /\ UNCHANGED <<partitions, published, storage, reached, bounds>>

-----------------------------------------------------------------------------
(* The frames. *)

(* Variant: the boot is good after running for a while. *)
RunsForAWhile == TRUE

(* "With a radio, the new firmware must reach the server first." *)
Ready == heartbeatOk

(* confirm_boot: its outcome is not looked at. *)
ConfirmBoot ==
  IF magic \in {"swap", "revert"} THEN SetMagic("boot")
  ELSE UNCHANGED <<magic, swapped, faults>>

(* Variant: a trial has no end. *)
NeverExpires == FALSE

TrialExpires == trial /\ timeUp

(* The head of main's loop. *)
MainCheck ==
  /\ phase = "main"
  /\ Runs(active)
  /\ \/ /\ ~bootConfirmed
        /\ Ready
        /\ ConfirmBoot
        /\ bootConfirmed' = TRUE
        /\ phase' = "agent"
        /\ UNCHANGED <<trial, timeUp, agent, answer>>
     \/ /\ ~bootConfirmed
        /\ ~Ready
        /\ TrialExpires
        /\ Restart
        /\ UNCHANGED <<magic, swapped, faults>>
     \/ /\ bootConfirmed \/ (~Ready /\ ~TrialExpires)
        /\ phase' = "agent"
        /\ UNCHANGED <<magic, swapped, faults, trial, timeUp, agent, bootConfirmed, answer>>
  /\ UNCHANGED <<active, dfu, published, storage, reached, cuts>>

(* Variant: the job is forgotten, its answer is not taken. *)
LeavesAnswer(j) == job' = j /\ answer' = IF j = "none" THEN answer ELSE "queued"

(* The next request, or none; take_job_on has taken the answer of the last. *)
Asks(j) == job' = j /\ answer' = IF j = "none" THEN "none" ELSE "queued"

(* finish_heartbeat, with a command "reboot" or another. *)
HeartbeatEnds ==
  /\ job = "heartbeat"
  /\ answer \in {"failed", "well", "rebooting"}
  /\ reached' = IF answer = "failed" THEN reached ELSE reached \cup {active}
  /\ IF answer = "rebooting" THEN Restart
     ELSE /\ heartbeatOk' = (heartbeatOk \/ answer = "well")
          /\ Asks("none")
          /\ phase' = "main"
          /\ UNCHANGED <<trial, timeUp, bootConfirmed>>

(* finish_version: "if the published version differs from its own". *)
VersionEnds ==
  /\ job = "version"
  /\ answer \in Images \cup {"failed"}
  /\ Asks(IF answer \in Images \ {active} THEN "firmware" ELSE "none")
  /\ phase' = "main"
  /\ UNCHANGED <<heartbeatOk, trial, timeUp, bootConfirmed, reached>>

(* finish_firmware: restarts if the image has a length. *)
FirmwareEnds ==
  /\ job = "firmware"
  /\ answer \in {"whole", "empty", "failed"}
  /\ IF answer = "whole" THEN Restart
     ELSE /\ Asks("none")
          /\ phase' = "main"
          /\ UNCHANGED <<heartbeatOk, trial, timeUp, bootConfirmed>>
  /\ UNCHANGED reached

(* A heartbeat or a version check is due. *)
StartsJob ==
  /\ job = "none"
  /\ \E j \in {"heartbeat", "version"} : Asks(j)
  /\ phase' = "main"
  /\ UNCHANGED <<heartbeatOk, trial, timeUp, bootConfirmed, reached>>

WaitsForJob ==
  /\ job = "none" \/ answer \in {"queued", "body", "ended"}
  /\ phase' = "main"
  /\ UNCHANGED <<agent, answer, trial, timeUp, bootConfirmed, reached>>

(* Apps and commands save settings in any frame. *)
Saves ==
  \/ UNCHANGED storage
  \/ /\ seq < MaxSeq
     /\ sectors' = [sectors EXCEPT ![Storage!Target] =
          Storage!Encode(config, seq + 1, RecordLen[active])]
     /\ seq' = seq + 1
     /\ UNCHANGED config

AgentUpdate ==
  /\ phase = "agent"
  /\ HeartbeatEnds \/ VersionEnds \/ FirmwareEnds \/ StartsJob \/ WaitsForJob
  /\ Saves
  /\ UNCHANGED <<partitions, published, bounds>>

TimePasses ==
  /\ phase = "main"
  /\ ~timeUp
  /\ timeUp' = TRUE
  /\ UNCHANGED <<partitions, phase, trial, agent, bootConfirmed, answer, published,
                 storage, reached, bounds>>

-----------------------------------------------------------------------------
(* The Wi-Fi task and the server. *)

Fetches(j, at) ==
  /\ phase = "main"
  /\ Runs(active)
  /\ job = j
  /\ answer = at

Elsewhere == <<phase, trial, timeUp, agent, bootConfirmed, published, storage, reached, cuts>>

(* Any fetch may fail, and so does one without the user's settings. *)
FetchFails ==
  /\ \E j \in {"heartbeat", "version", "firmware"}, at \in {"queued", "body"} : Fetches(j, at)
  /\ answer' = "failed"
  /\ UNCHANGED <<partitions, Elsewhere, faults>>

HeartbeatAnswered ==
  /\ Fetches("heartbeat", "queued")
  /\ active \in Reaching
  /\ config = "users"
  /\ answer' \in {"well", "rebooting"}
  /\ UNCHANGED <<partitions, Elsewhere, faults>>

VersionAnswered ==
  /\ Fetches("version", "queued")
  /\ config = "users"
  /\ answer' = published
  /\ UNCHANGED <<partitions, Elsewhere, faults>>

(* The first sector goes to the update partition. *)
BodyBegins ==
  /\ Fetches("firmware", "queued")
  /\ config = "users"
  /\ WritesFirmware
  /\ dfu' = "torn"
  /\ answer' = "body"
  /\ UNCHANGED <<active, magic, swapped, Elsewhere, faults>>

(* The rest of it; without a Content-Length a body cut short ends as well. *)
BodyEnds ==
  /\ Fetches("firmware", "body")
  /\ dfu' \in {published, "torn"}
  /\ answer' = "ended"
  /\ UNCHANGED <<active, magic, swapped, Elsewhere, faults>>

(* ImageWriter::finish marks the update. *)
Mark ==
  /\ Fetches("firmware", "ended")
  /\ SetMagic("swap")
  /\ answer' = IF faults' = faults THEN "whole" ELSE "failed"
  /\ UNCHANGED <<active, dfu, Elsewhere>>

(* A reply of 200 without a body writes nothing, and is marked. *)
MarkEmpty ==
  /\ EmptyBodies
  /\ Fetches("firmware", "queued")
  /\ config = "users"
  /\ SetMagic("swap")
  /\ answer' = IF faults' = faults THEN "empty" ELSE "failed"
  /\ UNCHANGED <<active, dfu, Elsewhere>>

Publish(i) ==
  /\ phase = "main"
  /\ published' = i
  /\ UNCHANGED <<partitions, phase, trial, timeUp, agent, bootConfirmed, answer,
                 storage, reached, bounds>>

(* The power fails, the firmware panics or the user restarts the device,   *)
(* perhaps while the state sector is being written.                        *)
PowerCut ==
  /\ cuts < MaxCuts
  /\ cuts' = cuts + 1
  /\ \/ UNCHANGED <<magic, swapped>>
     \/ /\ job = "firmware" /\ answer \in {"ended", "queued"} /\ magic # "swap"
        /\ magic' = "boot"
        /\ UNCHANGED swapped
  /\ Restart
  /\ UNCHANGED <<active, dfu, published, storage, reached, faults>>

Init ==
  /\ active = Factory
  /\ dfu = None
  /\ magic = "boot"
  /\ swapped = FALSE
  /\ phase = "loader"
  /\ trial = FALSE
  /\ timeUp = FALSE
  /\ heartbeatOk = FALSE
  /\ bootConfirmed = FALSE
  /\ job = "none"
  /\ answer = "none"
  /\ published = Factory
  /\ sectors = [s \in 0 .. 1 |-> Storage!Encode("users", 2 - s, RecordLen[Factory])]
  /\ config = "users"
  /\ seq = 2
  /\ reached = {Factory}
  /\ cuts = 0
  /\ faults = 0

Next ==
  \/ Boot
  \/ WatchdogReset
  \/ MainCheck
  \/ AgentUpdate
  \/ TimePasses
  \/ FetchFails
  \/ HeartbeatAnswered
  \/ VersionAnswered
  \/ BodyBegins
  \/ BodyEnds
  \/ Mark
  \/ MarkEmpty
  \/ \E i \in Images : Publish(i)
  \/ PowerCut

(* The frames, the watchdog, the boot loader and the trial's timer go on. *)
Fairness == WF_vars(Boot) /\ WF_vars(WatchdogReset) /\ WF_vars(MainCheck)
  /\ WF_vars(AgentUpdate) /\ SF_vars(TimePasses)

Spec == Init /\ [][Next]_vars /\ Fairness

-----------------------------------------------------------------------------
(* Every variable has its type, and there is an answer to wait for exactly *)
(* while the agent waits.                                                  *)
OtaTypeOK ==
  /\ active \in Contents
  /\ dfu \in Contents
  /\ magic \in {"boot", "swap", "revert"}
  /\ swapped \in BOOLEAN
  /\ phase \in {"loader", "main", "agent"}
  /\ trial \in BOOLEAN
  /\ timeUp \in BOOLEAN
  /\ heartbeatOk \in BOOLEAN
  /\ bootConfirmed \in BOOLEAN
  /\ job \in {"none", "heartbeat", "version", "firmware"}
  /\ answer \in Answers
  /\ (answer = "none") <=> (job = "none")
  /\ published \in Images
  /\ config \in {"users", "builtin"}
  /\ seq \in 0 .. MaxSeq
  /\ reached \subseteq Images
  /\ cuts \in 0 .. MaxCuts
  /\ faults \in 0 .. MaxFaults

(* "An update can then never strand a device we only reach over the        *)
(* network" (main.rs): an image that has reached the server is the one     *)
(* that runs or will run next, or waits in the update partition for the    *)
(* trial to end; no download, fault or restart takes the last one away.    *)
WayBack ==
  IF magic = "swap" /\ swapped THEN dfu \in reached ELSE active \in reached

(* The inductive invariant behind WayBack: the update partition is written *)
(* only while no swap is pending, a heartbeat counts for the image that    *)
(* sent it, and embassy-boot's progress belongs to a swap.                 *)
WayInv ==
  /\ WayBack
  /\ magic \in {"boot", "swap", "revert"}
  /\ swapped \in BOOLEAN
  /\ swapped => magic = "swap"
  /\ job = "firmware" /\ answer \in {"body", "ended"} => magic # "swap"
  /\ heartbeatOk => active \in reached
  /\ phase = "loader" => ~heartbeatOk

(* The same for the settings: whatever image runs, it runs with the        *)
(* settings of the user and not with the built-in ones.                    *)
SettingsSurvive == phase # "loader" /\ Runs(active) => config = "users"

OnTrial == magic = "swap" /\ swapped

Update == INSTANCE AtomicUpdate WITH
  running <- active, onTrial <- OnTrial, good <- IF OnTrial THEN dfu ELSE active

(* The partitions, the magic and the download, whatever fails, are one     *)
(* image to go back to and perhaps another on trial: it is replaced only   *)
(* by one that reached the server while it ran.                            *)
UpdateIsSafe == Update!Spec

(* A trial ends: the image is taken back, or it has reached the server.    *)
TrialEnds == (magic = "swap" /\ swapped) ~> (magic # "swap" \/ bootConfirmed)

=============================================================================
