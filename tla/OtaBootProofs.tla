--------------------------- MODULE OtaBootProofs ----------------------------
(* Whatever the images, the server, the faults and the restarts: there is  *)
(* always an image to go back to that has reached the server.              *)
EXTENDS OtaBoot, TLAPS

-----------------------------------------------------------------------------
(* A write of the state sector, failing or not, leaves the state as it was *)
(* or forgets the progress.                                                *)
LEMMA SetMagicCases ==
  ASSUME NEW m, SetMagic(m), swapped \in BOOLEAN
  PROVE  \/ magic' = magic /\ swapped' = swapped
         \/ magic' \in {m, "boot"} /\ swapped' = FALSE
<1>1. CASE magic' = magic
  BY <1>1 DEF SetMagic
<1>2. CASE magic' # magic
  BY <1>2 DEF SetMagic
<1> QED BY <1>1, <1>2

(* The first start. *)
LEMMA WayInit == Init => WayInv
BY DEF Init, WayInv, WayBack

(* The boot loader swaps the proven image out, or back in. *)
LEMMA BootKeeps ==
  ASSUME WayInv, Boot
  PROVE  WayInv'
<1>1. CASE LoaderSwaps
  BY <1>1 DEF Boot, LoaderSwaps, agent, WayInv, WayBack
<1>2. CASE LoaderStarts
  BY <1>2 DEF Boot, LoaderStarts, partitions, agent, WayInv, WayBack
<1> QED BY <1>1, <1>2 DEF Boot

(* A boot is confirmed only by an image that has reached the server. *)
LEMMA MainCheckKeeps ==
  ASSUME WayInv, MainCheck
  PROVE  WayInv'
<1>1. UNCHANGED <<active, dfu, reached>>
  BY DEF MainCheck
<1>2. CASE Ready /\ ConfirmBoot /\ phase' = "agent" /\ UNCHANGED <<agent, answer>>
  <2>1. \/ magic' = magic /\ swapped' = swapped
        \/ magic' = "boot" /\ swapped' = FALSE
    BY <1>2, SetMagicCases DEF ConfirmBoot, WayInv
  <2>2. active \in reached
    BY <1>2 DEF Ready, WayInv
  <2>3. CASE magic' = magic /\ swapped' = swapped
    BY <1>1, <1>2, <2>3 DEF agent, WayInv, WayBack
  <2>4. CASE magic' = "boot" /\ swapped' = FALSE
    BY <1>1, <1>2, <2>2, <2>4 DEF agent, WayInv, WayBack
  <2> QED BY <2>1, <2>3, <2>4
<1>3. CASE Restart /\ UNCHANGED <<magic, swapped>>
  BY <1>1, <1>3 DEF Restart, WayInv, WayBack
<1>4. CASE phase' = "agent" /\ UNCHANGED <<magic, swapped, agent, answer>>
  BY <1>1, <1>4 DEF agent, WayInv, WayBack
<1> QED BY <1>2, <1>3, <1>4 DEF MainCheck

(* An answered heartbeat adds the image that runs to those that reached    *)
(* the server; a restart keeps the partitions.                             *)
LEMMA AgentKeeps ==
  ASSUME WayInv, AgentUpdate
  PROVE  WayInv'
<1>1. UNCHANGED <<active, dfu, magic, swapped>> /\ phase = "agent"
  BY DEF AgentUpdate, partitions
<1>2. CASE HeartbeatEnds
  <2>1. reached \subseteq reached'
    BY <1>2 DEF HeartbeatEnds
  <2>2. CASE Restart
    BY <1>1, <2>1, <2>2 DEF Restart, WayInv, WayBack
  <2>3. CASE /\ heartbeatOk' = (heartbeatOk \/ answer = "well")
             /\ Asks("none")
             /\ phase' = "main"
    <3>1. heartbeatOk' => active \in reached'
      BY <1>2, <2>1, <2>3 DEF HeartbeatEnds, WayInv
    <3> QED BY <1>1, <2>1, <2>3, <3>1 DEF Asks, WayInv, WayBack
  <2> QED BY <1>2, <2>2, <2>3 DEF HeartbeatEnds
<1>3. CASE VersionEnds
  BY <1>1, <1>3 DEF VersionEnds, Asks, WayInv, WayBack
<1>4. CASE FirmwareEnds
  <2>1. reached' = reached
    BY <1>4 DEF FirmwareEnds
  <2>2. CASE Restart
    BY <1>1, <2>1, <2>2 DEF Restart, WayInv, WayBack
  <2>3. CASE Asks("none") /\ phase' = "main" /\ UNCHANGED heartbeatOk
    BY <1>1, <2>1, <2>3 DEF Asks, WayInv, WayBack
  <2> QED BY <1>4, <2>2, <2>3 DEF FirmwareEnds
<1>5. CASE StartsJob
  BY <1>1, <1>5 DEF StartsJob, Asks, WayInv, WayBack
<1>6. CASE WaitsForJob
  BY <1>1, <1>6 DEF WaitsForJob, agent, WayInv, WayBack
<1> QED BY <1>2, <1>3, <1>4, <1>5, <1>6 DEF AgentUpdate

(* The body of an image is written while no swap is pending or done. *)
LEMMA BodyKeeps ==
  ASSUME WayInv, BodyBegins \/ BodyEnds
  PROVE  WayInv'
BY DEF BodyBegins, BodyEnds, Fetches, WritesFirmware, Elsewhere, agent, WayInv, WayBack

(* An image is marked, or nothing is, while the running one is proven or   *)
(* the mark is there already.                                              *)
LEMMA MarkKeeps ==
  ASSUME WayInv, Mark \/ MarkEmpty
  PROVE  WayInv'
<1>1. UNCHANGED <<active, dfu, phase, heartbeatOk, reached>> /\ phase = "main"
  BY DEF Mark, MarkEmpty, Elsewhere, agent, Fetches
<1>2. answer' \notin {"body", "ended"}
  BY DEF Mark, MarkEmpty
<1>3. \/ magic' = magic /\ swapped' = swapped
      \/ magic # "swap" /\ magic' \in {"swap", "boot"} /\ swapped' = FALSE
  <2>1. SetMagic("swap") /\ swapped \in BOOLEAN
    BY DEF Mark, MarkEmpty, WayInv
  <2>2. CASE magic = "swap"
    BY <2>1, <2>2 DEF SetMagic
  <2>3. CASE magic # "swap"
    BY <2>1, <2>3, SetMagicCases
  <2> QED BY <2>2, <2>3
<1>4. CASE magic' = magic /\ swapped' = swapped
  BY <1>1, <1>2, <1>4 DEF WayInv, WayBack
<1>5. CASE magic # "swap" /\ magic' \in {"swap", "boot"} /\ swapped' = FALSE
  <2>1. active \in reached
    BY <1>5 DEF WayInv, WayBack
  <2> QED BY <1>1, <1>2, <1>5, <2>1 DEF WayInv, WayBack
<1> QED BY <1>3, <1>4, <1>5

(* A restart that nobody ordered, with the state sector perhaps torn. *)
LEMMA PowerCutKeeps ==
  ASSUME WayInv, PowerCut
  PROVE  WayInv'
BY DEF PowerCut, Restart, WayInv, WayBack

(* What is left: nothing of the invariant is touched but the answer. *)
LEMMA OthersKeep ==
  ASSUME WayInv,
         \/ WatchdogReset
         \/ TimePasses
         \/ FetchFails
         \/ HeartbeatAnswered
         \/ VersionAnswered
         \/ \E i \in Images : Publish(i)
  PROVE  WayInv'
<1>1. CASE WatchdogReset
  BY <1>1 DEF WatchdogReset, Restart, partitions, WayInv, WayBack
<1>2. CASE TimePasses \/ \E i \in Images : Publish(i)
  BY <1>2 DEF TimePasses, Publish, partitions, agent, WayInv, WayBack
<1>3. CASE FetchFails \/ HeartbeatAnswered
  BY <1>3 DEF FetchFails, HeartbeatAnswered, Elsewhere, partitions, agent, WayInv, WayBack
<1>4. CASE VersionAnswered
  <2>1. magic' = magic /\ swapped' = swapped /\ job' = "version"
    BY <1>4 DEF VersionAnswered, partitions, Fetches, Elsewhere, agent
  <2> QED BY <1>4, <2>1 DEF VersionAnswered, Elsewhere, partitions, agent, WayInv, WayBack
<1> QED BY <1>1, <1>2, <1>3, <1>4

(* WayInv is inductive. *)
THEOREM WayInvariant == Spec => []WayInv
<1>1. Init => WayInv
  BY WayInit
<1>2. WayInv /\ [Next]_vars => WayInv'
  <2> SUFFICES ASSUME WayInv, [Next]_vars PROVE WayInv'
    OBVIOUS
  <2>1. CASE UNCHANGED vars
    BY <2>1 DEF vars, partitions, agent, WayInv, WayBack
  <2>2. CASE Next
    BY <2>2, BootKeeps, MainCheckKeeps, AgentKeeps, BodyKeeps, MarkKeeps, PowerCutKeeps,
       OthersKeep DEF Next
  <2> QED BY <2>1, <2>2
<1> QED BY <1>1, <1>2, PTL DEF Spec

(* An update never strands the device, for any images, any server, and any *)
(* number of faults and restarts.                                          *)
THEOREM NeverWithoutAWayBack == Spec => []WayBack
<1>1. WayInv => WayBack
  BY DEF WayInv
<1> QED BY <1>1, WayInvariant, PTL

-----------------------------------------------------------------------------
(* Types, and the settings of the user.                                    *)

(* A config sector always holds a record of some image: a save is atomic   *)
(* here (ConfigStore shows why it may be), and the numbers are bounded.    *)
StoredRecords ==
  [kind : {"record"}, cfg : {"users", "builtin"}, seq : 0 .. MaxSeq,
   len : {RecordLen[i] : i \in Images}]

OtaInv ==
  /\ OtaTypeOK
  /\ sectors \in [0 .. 1 -> StoredRecords]

OneLength == \A i, j \in Images : RecordLen[i] = RecordLen[j]

(* Every record and the RAM copy are the user's. *)
UsersInv ==
  /\ config = "users"
  /\ \A s \in 0 .. 1 : sectors[s].cfg = "users"

(* What a start finds is what a sector holds, or the built-in settings. *)
LEMMA LoadFacts ==
  ASSUME sectors \in [0 .. 1 -> StoredRecords], NEW n
  PROVE  LET found == Storage!Load(sectors, n)
         IN \/ \E s \in 0 .. 1 : found = [cfg |-> sectors[s].cfg, seq |-> sectors[s].seq]
            \/ /\ found = [cfg |-> "builtin", seq |-> 0]
               /\ ~(sectors[0].len <= n)
<1>1. sectors[0] \in StoredRecords /\ sectors[1] \in StoredRecords /\ 0 \in 0 .. 1 /\ 1 \in 0 .. 1
  OBVIOUS
<1>2. sectors[0].kind = "record"
  BY <1>1 DEF StoredRecords
<1> QED BY <1>1, <1>2 DEF Storage!Load, Storage!Decodes

LEMMA FoundIsTyped ==
  ASSUME sectors \in [0 .. 1 -> StoredRecords], NEW n
  PROVE  /\ Storage!Load(sectors, n).cfg \in {"users", "builtin"}
         /\ Storage!Load(sectors, n).seq \in 0 .. MaxSeq
<1> DEFINE found == Storage!Load(sectors, n)
<1>1. \/ \E s \in 0 .. 1 : found = [cfg |-> sectors[s].cfg, seq |-> sectors[s].seq]
      \/ found = [cfg |-> "builtin", seq |-> 0]
  BY LoadFacts
<1> HIDE DEF found
<1>2. 0 \in 0 .. MaxSeq
  BY BoundsAssumption
<1>3. \A s \in 0 .. 1 : sectors[s] \in StoredRecords
  OBVIOUS
<1>4. found.cfg \in {"users", "builtin"} /\ found.seq \in 0 .. MaxSeq
  BY <1>1, <1>2, <1>3 DEF StoredRecords
<1> QED BY <1>4 DEF found

LEMMA SetMagicTyped ==
  ASSUME NEW m \in {"boot", "swap", "revert"}, SetMagic(m),
         magic \in {"boot", "swap", "revert"}, swapped \in BOOLEAN, faults \in 0 .. MaxFaults
  PROVE  /\ magic' \in {"boot", "swap", "revert"} /\ swapped' \in BOOLEAN
         /\ faults' \in 0 .. MaxFaults
<1>1. CASE UNCHANGED faults
  BY <1>1 DEF SetMagic
<1>2. CASE Fault
  <2>1. faults' \in 0 .. MaxFaults
    BY <1>2, BoundsAssumption DEF Fault
  <2> QED BY <2>1 DEF SetMagic
<1> QED BY <1>1, <1>2 DEF SetMagic

LEMMA OtaStart == Init => OtaInv
<1> SUFFICES ASSUME Init PROVE OtaInv
  OBVIOUS
<1>1. Factory \in Images /\ None \in Contents /\ Images \subseteq Contents
  BY ImagesAssumption DEF Contents
<1>2. 0 \in 0 .. MaxCuts /\ 0 \in 0 .. MaxFaults /\ 2 \in 0 .. MaxSeq /\ \A s \in 0 .. 1 : 2 - s \in 0 .. MaxSeq
  BY BoundsAssumption
<1>3. \A s \in 0 .. 1 : Storage!Encode("users", 2 - s, RecordLen[Factory]) \in StoredRecords
  BY <1>1, <1>2 DEF Storage!Encode, StoredRecords
<1>4. sectors \in [0 .. 1 -> StoredRecords]
  BY <1>3 DEF Init
<1>5. OtaTypeOK
  BY <1>1, <1>2 DEF Init, OtaTypeOK, Answers
<1> QED BY <1>4, <1>5 DEF OtaInv

LEMMA BootTyped ==
  ASSUME OtaInv, Boot
  PROVE  OtaInv'
<1>1. /\ active' \in Contents /\ dfu' \in Contents
      /\ magic' \in {"boot", "swap", "revert"} /\ swapped' \in BOOLEAN
  BY DEF Boot, LoaderSwaps, LoaderStarts, partitions, OtaInv, OtaTypeOK
<1>2. config' \in {"users", "builtin"} /\ seq' \in 0 .. MaxSeq
  BY FoundIsTyped DEF Boot, OtaInv, OtaTypeOK
<1> QED BY <1>1, <1>2 DEF Boot, agent, bounds, OtaInv, OtaTypeOK

(* A restart forgets the agent. *)
LEMMA RestartTyped ==
  ASSUME Restart
  PROVE  /\ phase' = "loader" /\ trial' \in BOOLEAN /\ timeUp' \in BOOLEAN
         /\ heartbeatOk' \in BOOLEAN /\ bootConfirmed' \in BOOLEAN
         /\ job' = "none" /\ answer' = "none"
BY DEF Restart

LEMMA AsksTyped ==
  ASSUME NEW j \in {"none", "heartbeat", "version", "firmware"}, Asks(j)
  PROVE  /\ job' \in {"none", "heartbeat", "version", "firmware"}
         /\ answer' \in Answers /\ ((answer' = "none") <=> (job' = "none"))
BY DEF Asks, Answers

LEMMA MainCheckTyped ==
  ASSUME OtaInv, MainCheck
  PROVE  OtaInv'
<1>1. UNCHANGED <<active, dfu, published, sectors, config, seq, reached, cuts>>
  BY DEF MainCheck, storage
<1>2. /\ magic' \in {"boot", "swap", "revert"} /\ swapped' \in BOOLEAN
      /\ faults' \in 0 .. MaxFaults
  <2>1. ConfirmBoot \/ UNCHANGED <<magic, swapped, faults>>
    BY DEF MainCheck
  <2> QED BY <2>1, SetMagicTyped DEF ConfirmBoot, OtaInv, OtaTypeOK
<1>3. CASE Restart
  BY <1>1, <1>2, <1>3, RestartTyped DEF OtaInv, OtaTypeOK, Answers
<1>4. CASE /\ phase' = "agent" /\ UNCHANGED <<trial, timeUp, agent, answer>>
           /\ bootConfirmed' = TRUE \/ bootConfirmed' = bootConfirmed
  BY <1>1, <1>2, <1>4 DEF agent, OtaInv, OtaTypeOK
<1> QED BY <1>3, <1>4 DEF MainCheck

LEMMA SavesTyped ==
  ASSUME OtaInv, Saves, active \in Images
  PROVE  /\ sectors' \in [0 .. 1 -> StoredRecords] /\ seq' \in 0 .. MaxSeq /\ config' = config
         /\ \A s \in 0 .. 1 : sectors'[s].cfg \in {sectors[s].cfg, config}
<1>1. CASE UNCHANGED storage
  BY <1>1 DEF storage, OtaInv, OtaTypeOK
<1>2. CASE ~UNCHANGED storage
  <2> DEFINE rec == Storage!Encode(config, seq + 1, RecordLen[active])
  <2>1. /\ seq < MaxSeq /\ seq' = seq + 1 /\ config' = config
        /\ sectors' = [sectors EXCEPT ![Storage!Target] = rec]
    BY <1>2 DEF Saves
  <2>2. seq + 1 \in 0 .. MaxSeq
    BY <2>1, BoundsAssumption DEF OtaInv, OtaTypeOK
  <2>3. rec \in StoredRecords /\ rec.cfg = config
    BY <2>2 DEF Storage!Encode, StoredRecords, OtaInv, OtaTypeOK
  <2> HIDE DEF rec
  <2>4. sectors \in [0 .. 1 -> StoredRecords]
    BY DEF OtaInv
  <2>5. sectors' \in [0 .. 1 -> StoredRecords] /\ \A s \in 0 .. 1 : sectors'[s] \in {sectors[s], rec}
    BY <2>1, <2>3, <2>4
  <2> QED BY <2>1, <2>2, <2>3, <2>5
<1> QED BY <1>1, <1>2

(* The image that runs is an image. *)
RunningInv == phase = "agent" => active \in Images

LEMMA AgentTyped ==
  ASSUME OtaInv, RunningInv, AgentUpdate
  PROVE  OtaInv'
<1>1. UNCHANGED <<active, dfu, magic, swapped, published, cuts, faults>> /\ active \in Images
  BY DEF AgentUpdate, partitions, bounds, RunningInv
<1>2. sectors' \in [0 .. 1 -> StoredRecords] /\ seq' \in 0 .. MaxSeq /\ config' = config
  BY <1>1, SavesTyped DEF AgentUpdate
<1>3. /\ phase' \in {"loader", "main", "agent"} /\ trial' \in BOOLEAN /\ timeUp' \in BOOLEAN
      /\ heartbeatOk' \in BOOLEAN /\ bootConfirmed' \in BOOLEAN
      /\ job' \in {"none", "heartbeat", "version", "firmware"}
      /\ answer' \in Answers /\ ((answer' = "none") <=> (job' = "none"))
      /\ reached' \subseteq Images
  <2>0. /\ phase \in {"loader", "main", "agent"} /\ trial \in BOOLEAN /\ timeUp \in BOOLEAN
        /\ heartbeatOk \in BOOLEAN /\ bootConfirmed \in BOOLEAN
        /\ job \in {"none", "heartbeat", "version", "firmware"}
        /\ answer \in Answers /\ ((answer = "none") <=> (job = "none"))
        /\ reached \subseteq Images
    BY DEF OtaInv, OtaTypeOK
  <2>1. CASE Restart
    <3>1. reached' \subseteq Images
      BY <1>1, <2>0 DEF AgentUpdate, HeartbeatEnds, VersionEnds, FirmwareEnds, StartsJob, WaitsForJob
    <3> QED BY <2>1, <3>1, RestartTyped DEF Answers
  <2>2. CASE HeartbeatEnds /\ ~Restart
    BY <1>1, <2>0, <2>2, AsksTyped DEF HeartbeatEnds
  <2>3. CASE VersionEnds
    BY <2>0, <2>3, AsksTyped DEF VersionEnds
  <2>4. CASE FirmwareEnds /\ ~Restart
    BY <2>0, <2>4, AsksTyped DEF FirmwareEnds
  <2>5. CASE StartsJob
    BY <2>0, <2>5, AsksTyped DEF StartsJob
  <2>6. CASE WaitsForJob
    BY <2>0, <2>6 DEF WaitsForJob, agent
  <2> QED BY <2>1, <2>2, <2>3, <2>4, <2>5, <2>6 DEF AgentUpdate
<1> QED BY <1>1, <1>2, <1>3 DEF OtaInv, OtaTypeOK

(* The Wi-Fi task and the server touch the answer and the partitions. *)
LEMMA WifiTyped ==
  ASSUME OtaInv,
         \/ FetchFails \/ HeartbeatAnswered \/ VersionAnswered
         \/ BodyBegins \/ BodyEnds \/ Mark \/ MarkEmpty
  PROVE  OtaInv'
<1>1. UNCHANGED <<active, phase, trial, timeUp, agent, bootConfirmed, published, storage, reached, cuts>>
  BY DEF FetchFails, HeartbeatAnswered, VersionAnswered, BodyBegins, BodyEnds, Mark, MarkEmpty,
         Elsewhere, partitions
<1>2. answer' \in Answers \ {"none"} /\ job # "none"
  <2>1. job # "none"
    BY DEF FetchFails, HeartbeatAnswered, VersionAnswered, BodyBegins, BodyEnds, Mark, MarkEmpty, Fetches
  <2>2. published \in Images
    BY DEF OtaInv, OtaTypeOK
  <2>3. CASE VersionAnswered
    BY <2>1, <2>2, <2>3, ImagesAssumption DEF VersionAnswered, Answers
  <2>4. CASE ~VersionAnswered
    BY <2>1, <2>4 DEF FetchFails, HeartbeatAnswered, BodyBegins, BodyEnds, Mark, MarkEmpty, Answers
  <2> QED BY <2>3, <2>4
<1>3. dfu' \in Contents
  BY DEF FetchFails, HeartbeatAnswered, VersionAnswered, BodyBegins, BodyEnds, Mark, MarkEmpty,
         partitions, Contents, OtaInv, OtaTypeOK
<1>4. /\ magic' \in {"boot", "swap", "revert"} /\ swapped' \in BOOLEAN
      /\ faults' \in 0 .. MaxFaults
  <2>1. SetMagic("swap") \/ UNCHANGED <<magic, swapped, faults>>
    BY DEF FetchFails, HeartbeatAnswered, VersionAnswered, BodyBegins, BodyEnds, Mark, MarkEmpty,
           partitions
  <2> QED BY <2>1, SetMagicTyped DEF OtaInv, OtaTypeOK
<1> QED BY <1>1, <1>2, <1>3, <1>4 DEF agent, storage, OtaInv, OtaTypeOK

LEMMA PowerCutTyped ==
  ASSUME OtaInv, PowerCut
  PROVE  OtaInv'
<1>1. cuts' \in 0 .. MaxCuts
  BY BoundsAssumption DEF PowerCut, OtaInv, OtaTypeOK
<1>2. magic' \in {"boot", "swap", "revert"} /\ swapped' \in BOOLEAN
  BY DEF PowerCut, OtaInv, OtaTypeOK
<1> QED BY <1>1, <1>2, RestartTyped DEF PowerCut, storage, OtaInv, OtaTypeOK, Answers

LEMMA OtherTyped ==
  ASSUME OtaInv, WatchdogReset \/ TimePasses \/ \E i \in Images : Publish(i)
  PROVE  OtaInv'
<1>1. CASE WatchdogReset
  BY <1>1, RestartTyped DEF WatchdogReset, partitions, storage, bounds, OtaInv, OtaTypeOK, Answers
<1>2. CASE TimePasses
  BY <1>2 DEF TimePasses, partitions, agent, storage, bounds, OtaInv, OtaTypeOK
<1>3. ASSUME NEW i \in Images, Publish(i) PROVE OtaInv'
  BY <1>3 DEF Publish, partitions, agent, storage, bounds, OtaInv, OtaTypeOK
<1> QED BY <1>1, <1>2, <1>3

LEMMA StillRunning ==
  ASSUME RunningInv, Next
  PROVE  RunningInv'
<1>1. CASE MainCheck
  BY <1>1 DEF MainCheck, Runs, RunningInv
<1>2. CASE ~MainCheck
  <2>1. phase' = "agent" => phase = "agent" /\ active' = active
    BY <1>2 DEF Next, Boot, WatchdogReset, Restart, AgentUpdate, HeartbeatEnds, VersionEnds,
       FirmwareEnds, StartsJob, WaitsForJob, TimePasses, FetchFails, HeartbeatAnswered,
       VersionAnswered, BodyBegins, BodyEnds, Mark, MarkEmpty, Publish, PowerCut, Elsewhere,
       partitions
  <2> QED BY <2>1 DEF RunningInv
<1> QED BY <1>1, <1>2

LEMMA OtaStep ==
  ASSUME OtaInv, RunningInv, [Next]_vars
  PROVE  OtaInv' /\ RunningInv'
<1>1. CASE UNCHANGED vars
  BY <1>1 DEF vars, partitions, agent, storage, bounds, OtaInv, OtaTypeOK, RunningInv
<1>2. CASE Next
  BY <1>2, BootTyped, MainCheckTyped, AgentTyped, WifiTyped, PowerCutTyped, OtherTyped,
     StillRunning DEF Next
<1> QED BY <1>1, <1>2

THEOREM OtaInvariant == Spec => [](OtaInv /\ RunningInv)
<1>1. Init => OtaInv /\ RunningInv
  BY OtaStart DEF Init, RunningInv
<1>2. OtaInv /\ RunningInv /\ [Next]_vars => (OtaInv /\ RunningInv)'
  BY OtaStep
<1> QED BY <1>1, <1>2, PTL DEF Spec

(* Every variable has its type, and the agent waits for an answer exactly  *)
(* while one of its requests is under way.                                 *)
THEOREM OtaTypeCorrect == Spec => []OtaTypeOK
BY OtaInvariant, PTL DEF OtaInv

(* While the record of the settings has one length in every image, no      *)
(* update, trial, roll-back or restart loses the settings of the user: the *)
(* run ota_rollback needs an image with a longer record.                     *)
THEOREM SettingsSurviveOneLength ==
  OneLength => (Spec => []SettingsSurvive)
<1> SUFFICES ASSUME OneLength PROVE Spec => []SettingsSurvive
  OBVIOUS
<1>1. Init => UsersInv
  BY DEF Init, UsersInv, Storage!Encode
<1>2. OtaInv /\ RunningInv /\ UsersInv /\ [Next]_vars => UsersInv'
  <2> SUFFICES ASSUME OtaInv, RunningInv, UsersInv, [Next]_vars PROVE UsersInv'
    OBVIOUS
  <2>1. CASE Boot
    <3> DEFINE found == Storage!Load(sectors, RecordLen[active'])
    <3>1. sectors' = sectors /\ (Runs(active') => config' = found.cfg) /\ (~Runs(active') => config' = config)
      BY <2>1 DEF Boot
    <3>2. CASE Runs(active')
      <4>1. sectors \in [0 .. 1 -> StoredRecords]
        BY DEF OtaInv
      <4>2. sectors[0].len = RecordLen[active'] /\ RecordLen[active'] \in Nat
        <5>1. PICK i \in Images : sectors[0].len = RecordLen[i]
          BY <4>1 DEF StoredRecords
        <5>2. active' \in Images
          BY <3>2 DEF Runs
        <5> QED BY <5>1, <5>2, ImagesAssumption DEF OneLength
      <4>3. \E s \in 0 .. 1 : found = [cfg |-> sectors[s].cfg, seq |-> sectors[s].seq]
        <5>1. sectors[0].len <= RecordLen[active']
          BY <4>2
        <5> QED BY <4>1, <5>1, LoadFacts
      <4> HIDE DEF found
      <4>4. found.cfg = "users"
        BY <4>3 DEF UsersInv
      <4> QED BY <3>1, <3>2, <4>4 DEF UsersInv
    <3>3. CASE ~Runs(active')
      BY <3>1, <3>3 DEF UsersInv
    <3> QED BY <3>2, <3>3
  <2>2. CASE AgentUpdate
    <3>1. active \in Images /\ Saves
      BY <2>2 DEF AgentUpdate, RunningInv
    <3> QED BY <3>1, SavesTyped DEF UsersInv
  <2>3. CASE UNCHANGED <<sectors, config>>
    BY <2>3 DEF UsersInv
  <2> QED
    BY <2>1, <2>2, <2>3 DEF Next, vars, storage, WatchdogReset, MainCheck, TimePasses, FetchFails,
       HeartbeatAnswered, VersionAnswered, BodyBegins, BodyEnds, Mark, MarkEmpty, Publish,
       PowerCut, Elsewhere
<1>3. UsersInv => SettingsSurvive
  BY DEF UsersInv, SettingsSurvive
<1> QED BY <1>1, <1>2, <1>3, OtaInvariant, PTL DEF Spec

-----------------------------------------------------------------------------
(* OtaBoot implements AtomicUpdate.                                        *)

(* Only a heartbeat of the image that runs is answered, and its answer is  *)
(* gone before another image runs.                                         *)
AnsweredInv ==
  /\ answer \in {"well", "rebooting"} => active \in Reaching
  /\ phase = "loader" => answer = "none"

LEMMA AnsweredStart == Init => AnsweredInv
  BY DEF Init, AnsweredInv

LEMMA AnsweredStep ==
  ASSUME AnsweredInv, OtaTypeOK, [Next]_vars
  PROVE  AnsweredInv'
<1>1. CASE Boot
  <2>1. phase' = "main" /\ answer' = "none"
    BY <1>1 DEF Boot, AnsweredInv
  <2> QED BY <2>1 DEF AnsweredInv
<1>2. CASE Restart
  BY <1>2 DEF Restart, AnsweredInv
<1>3. CASE MainCheck /\ ~Restart
  <2>1. active' = active /\ phase' = "agent" /\ answer' = answer
    <3>1. MainCheck /\ ~Restart => phase' = "agent" /\ active' = active /\ answer' = answer
      BY DEF MainCheck
    <3> QED BY <1>3, <3>1
  <2> QED BY <2>1 DEF AnsweredInv
<1>4. CASE AgentUpdate /\ ~Restart
  <2>1. active' = active /\ phase' = "main"
    BY <1>4 DEF AgentUpdate, partitions, HeartbeatEnds, VersionEnds, FirmwareEnds, StartsJob,
       WaitsForJob
  <2>2. answer' \in {answer, "none", "queued"}
    BY <1>4 DEF AgentUpdate, HeartbeatEnds, VersionEnds, FirmwareEnds, StartsJob, WaitsForJob, Asks
  <2> QED BY <2>1, <2>2 DEF AnsweredInv
<1>5. CASE HeartbeatAnswered
  BY <1>5 DEF HeartbeatAnswered, Fetches, Elsewhere, partitions, AnsweredInv
<1>6. CASE VersionAnswered
  <2>1. published \notin {"well", "rebooting", "none"}
    BY ImagesAssumption DEF OtaTypeOK
  <2>2. answer' = published /\ phase' = "main"
    BY <1>6 DEF VersionAnswered, Elsewhere, Fetches
  <2> QED BY <2>1, <2>2 DEF AnsweredInv
<1>7. CASE FetchFails \/ BodyBegins \/ BodyEnds \/ Mark \/ MarkEmpty
  <2>1. answer' \in {"failed", "body", "ended", "whole", "empty"} /\ phase' = "main"
    BY <1>7 DEF FetchFails, BodyBegins, BodyEnds, Mark, MarkEmpty, Fetches, Elsewhere
  <2> QED BY <2>1 DEF AnsweredInv
<1>8. CASE TimePasses \/ (\E i \in Images : Publish(i)) \/ UNCHANGED vars
  BY <1>8 DEF TimePasses, Publish, vars, partitions, AnsweredInv
<1>9. CASE WatchdogReset \/ PowerCut
  BY <1>2, <1>9 DEF WatchdogReset, PowerCut
<1> QED BY <1>1, <1>2, <1>3, <1>4, <1>5, <1>6, <1>7, <1>8, <1>9 DEF Next

(* What runs, whether on trial, and what there is to go back to stay.      *)
LEMMA SameImages ==
  ASSUME active' = active, OnTrial' <=> OnTrial, OnTrial => dfu' = dfu, reached' = reached
  PROVE  UNCHANGED Update!vars
<1>1. OnTrial' = OnTrial
  BY DEF OnTrial
<1> QED BY <1>1 DEF Update!vars

(* The boot loader tries the image, takes it back, or does neither. *)
LEMMA BootIsTryOrGoBack ==
  ASSUME WayInv, OtaTypeOK, Boot
  PROVE  Update!Next \/ UNCHANGED Update!vars
<1>1. reached' = reached
  BY DEF Boot
<1>2. CASE LoaderSwaps /\ ~swapped
  <2>1. /\ active' = dfu /\ dfu' = active
        /\ ~OnTrial /\ OnTrial' /\ dfu \in Contents
    BY <1>2 DEF LoaderSwaps, OnTrial, OtaTypeOK
  <2>2. OnTrial' = TRUE
    BY <2>1 DEF OnTrial
  <2>3. Update!Try(dfu)
    BY <1>1, <2>1, <2>2 DEF Update!Try
  <2> QED BY <2>1, <2>3 DEF Update!Next
<1>3. CASE LoaderSwaps /\ swapped
  <2>1. /\ active' = dfu /\ dfu' = active
        /\ OnTrial /\ ~OnTrial'
    BY <1>3 DEF LoaderSwaps, OnTrial
  <2>2. OnTrial' = FALSE
    BY <2>1 DEF OnTrial
  <2>3. Update!GoBack
    BY <1>1, <2>1, <2>2 DEF Update!GoBack
  <2> QED BY <2>3 DEF Update!Next
<1>4. CASE LoaderStarts
  BY <1>1, <1>4, SameImages DEF LoaderStarts, partitions, OnTrial
<1> QED BY <1>2, <1>3, <1>4 DEF Boot

(* The state sector forgets a trial only when the image on trial has       *)
(* reached the server.                                                     *)
LEMMA ConfirmIsKeep ==
  ASSUME WayInv, MainCheck
  PROVE  Update!Next \/ UNCHANGED Update!vars
<1>1. active' = active /\ dfu' = dfu /\ reached' = reached
  BY DEF MainCheck
<1>2. CASE UNCHANGED <<magic, swapped>>
  BY <1>1, <1>2, SameImages DEF OnTrial
<1>3. CASE Ready /\ ConfirmBoot
  <2>1. active \in reached
    BY <1>3 DEF Ready, WayInv
  <2>2. \/ magic' = magic /\ swapped' = swapped
        \/ magic' = "boot" /\ swapped' = FALSE
    BY <1>3, SetMagicCases DEF ConfirmBoot, WayInv
  <2>3. CASE OnTrial /\ magic' = "boot"
    <3>1. OnTrial' = FALSE
      BY <2>3 DEF OnTrial
    <3>2. Update!Keep
      BY <1>1, <2>1, <2>3, <3>1 DEF Update!Keep
    <3> QED BY <3>2 DEF Update!Next
  <2>4. CASE ~OnTrial \/ magic' # "boot"
    BY <1>1, <1>2, <2>2, <2>4, SameImages DEF OnTrial
  <2> QED BY <2>3, <2>4
<1> QED BY <1>2, <1>3 DEF MainCheck

(* An answered heartbeat counts for the image that runs, and for no other. *)
LEMMA HeartbeatIsReach ==
  ASSUME AnsweredInv, AgentUpdate
  PROVE  Update!Next \/ UNCHANGED Update!vars
<1>1. UNCHANGED <<active, dfu, magic, swapped>>
  BY DEF AgentUpdate, partitions
<1>2. OnTrial' = OnTrial
  BY <1>1 DEF OnTrial
<1>3. CASE reached' = reached
  BY <1>1, <1>2, <1>3, SameImages
<1>4. CASE reached' # reached
  <2>1. HeartbeatEnds
    BY <1>4 DEF AgentUpdate, VersionEnds, FirmwareEnds, StartsJob, WaitsForJob
  <2>2. reached' = reached \cup {active} /\ active \in Reaching
    BY <1>4, <2>1 DEF HeartbeatEnds, AnsweredInv
  <2>3. Update!Reach
    BY <1>1, <1>2, <2>2 DEF Update!Reach
  <2> QED BY <2>3 DEF Update!Next
<1> QED BY <1>3, <1>4

(* A download, a mark and a restart leave the trial and its images alone:  *)
(* the update partition is written only while it holds nothing to go back  *)
(* to.                                                                     *)
LEMMA OtherStepsRest ==
  ASSUME WayInv,
         \/ WatchdogReset \/ TimePasses \/ FetchFails \/ HeartbeatAnswered \/ VersionAnswered
         \/ BodyBegins \/ BodyEnds \/ Mark \/ MarkEmpty \/ PowerCut
         \/ \E i \in Images : Publish(i)
  PROVE  UNCHANGED Update!vars
<1>1. active' = active /\ reached' = reached
  BY DEF WatchdogReset, TimePasses, FetchFails, HeartbeatAnswered, VersionAnswered, BodyBegins,
     BodyEnds, Mark, MarkEmpty, PowerCut, Publish, partitions, Elsewhere
<1>2. CASE BodyBegins \/ BodyEnds
  <2>1. magic # "swap" /\ magic' = magic
    BY <1>2 DEF BodyBegins, BodyEnds, WritesFirmware, Fetches, WayInv
  <2> QED BY <1>1, <2>1, SameImages DEF OnTrial
<1>3. CASE Mark \/ MarkEmpty
  <2>1. dfu' = dfu /\ SetMagic("swap") /\ swapped \in BOOLEAN
    BY <1>3 DEF Mark, MarkEmpty, WayInv
  <2>2. \/ magic' = magic /\ swapped' = swapped
        \/ magic # "swap" /\ swapped' = FALSE
    BY <2>1 DEF SetMagic
  <2> QED BY <1>1, <2>1, <2>2, SameImages DEF OnTrial
<1>4. CASE PowerCut
  BY <1>1, <1>4, SameImages DEF PowerCut, OnTrial
<1>5. CASE \/ WatchdogReset \/ TimePasses \/ FetchFails \/ HeartbeatAnswered \/ VersionAnswered
           \/ \E i \in Images : Publish(i)
  <2>1. UNCHANGED <<dfu, magic, swapped>>
    BY <1>5 DEF WatchdogReset, TimePasses, FetchFails, HeartbeatAnswered, VersionAnswered, Publish,
       partitions
  <2> QED BY <1>1, <2>1, SameImages DEF OnTrial
<1> QED BY <1>2, <1>3, <1>4, <1>5

(* OtaBoot implements AtomicUpdate: for any images, any server, and any    *)
(* number of faults, restarts and downloads, the image to go back to is    *)
(* replaced only by one that ran on trial and reached the server.          *)
THEOREM UpdateRefinement == Spec => UpdateIsSafe
<1>1. Init => Update!Init
  BY DEF Init, Update!Init, OnTrial
<1>2. WayInv /\ OtaTypeOK /\ AnsweredInv /\ [Next]_vars => [Update!Next]_(Update!vars)
  <2> SUFFICES ASSUME WayInv, OtaTypeOK, AnsweredInv, [Next]_vars
               PROVE Update!Next \/ UNCHANGED Update!vars
    OBVIOUS
  <2>1. CASE UNCHANGED vars
    BY <2>1, SameImages DEF vars, partitions, OnTrial
  <2>2. CASE Next
    BY <2>2, BootIsTryOrGoBack, ConfirmIsKeep, HeartbeatIsReach, OtherStepsRest DEF Next
  <2> QED BY <2>1, <2>2
<1>3. OtaTypeOK /\ AnsweredInv /\ [Next]_vars => AnsweredInv'
  BY AnsweredStep
<1> QED BY <1>1, <1>2, <1>3, AnsweredStart, WayInvariant, OtaTypeCorrect, PTL
        DEF Spec, Update!Spec, UpdateIsSafe

=============================================================================
