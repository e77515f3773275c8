------------------------------- MODULE MCParts ------------------------------
(* The parts of the system that share no state with one another, each on a *)
(* small instance.  The first state chooses a part; the others rest.       *)
EXTENDS ConfigStore, NetService, Hoot, Desk, Backlight, Timers, LaneApps,
        Leases, WarningLog, Speaker, Record

CONSTANTS builtIn, configA, configB, get, reply, here, there, chime, beep

MCConfigs == {builtIn, configA, configB}
MCFormats == {1, 2}
MCRequests == {get}
MCAnswers == {reply}
MCSettings == {here, there}
MCUnlockAt == <<0, 1>>
MCSamples == [s \in {chime, beep} |-> IF s = chime THEN 7 ELSE 4]

(* One field of each kind between others, strings of two capacities. *)
MCLayout ==
  LET number(n) == [kind |-> "number", sizes |-> <<n>>]
      string(n) == [kind |-> "string", sizes |-> <<1, n>>]
      pet == [kind |-> "pet", sizes |-> <<1, 2, 2, 1>>]
  IN <<string(3), string(2), number(1), number(2), number(1), pet, string(2),
       number(4), number(2), string(3), number(4)>>

VARIABLE part

Parts == {"store", "net", "hoot", "desk", "light", "pomodoro", "stopwatch",
          "lane", "leases", "log", "speaker", "record"}

MCInit ==
  /\ part \in Parts
  /\ Init /\ NetInit /\ HootInit /\ DeskInit /\ LightInit /\ TimerInit
  /\ LaneInit /\ LeasesInit /\ LogInit /\ SpeakerInit /\ RecordInit
  (* what rests has one initial state *)
  /\ part = "store" \/ format = 1
  /\ part = "net" \/ shared = NewShared(here, TRUE)
  /\ part = "desk" \/ stored = AlarmSettings(NewAlarm)
  /\ part = "pomodoro" \/ pomo.work = 2
  /\ part = "record" \/ record = [len |-> 0, sound |-> TRUE]

MCVars == <<part, vars, netVars, hootVars, deskVars, lightVars, timerVars, laneVars,
            leaseVars, logVars, speakerVars, recordVars>>

(* A step of part p leaves the others as they are. *)
Rest(p) ==
  /\ part = p /\ UNCHANGED part
  /\ IF p = "store" THEN TRUE ELSE UNCHANGED vars
  /\ IF p = "net" THEN TRUE ELSE UNCHANGED netVars
  /\ IF p = "hoot" THEN TRUE ELSE UNCHANGED hootVars
  /\ IF p = "desk" THEN TRUE ELSE UNCHANGED deskVars
  /\ IF p = "light" THEN TRUE ELSE UNCHANGED lightVars
  /\ IF p \in {"pomodoro", "stopwatch"} THEN TRUE ELSE UNCHANGED timerVars
  /\ IF p = "lane" THEN TRUE ELSE UNCHANGED laneVars
  /\ IF p = "leases" THEN TRUE ELSE UNCHANGED leaseVars
  /\ IF p = "log" THEN TRUE ELSE UNCHANGED logVars
  /\ IF p = "speaker" THEN TRUE ELSE UNCHANGED speakerVars
  /\ IF p = "record" THEN TRUE ELSE UNCHANGED recordVars

StoreStep == Rest("store") /\ Next
NetStep == Rest("net") /\ NetNext
HootStep == Rest("hoot") /\ HootNext
DeskStep == Rest("desk") /\ DeskNext
LightStep == Rest("light") /\ LightNext
PomodoroStep == Rest("pomodoro") /\ PomoNext
StopwatchStep == Rest("stopwatch") /\ WatchNext
LaneStep == Rest("lane") /\ LaneNext
LeasesStep == Rest("leases") /\ LeasesNext
LogStep == Rest("log") /\ LogNext
SpeakerStep == Rest("speaker") /\ SpeakerNext
RecordStep == Rest("record") /\ RecordNext

(* Where the bounds end a part: all records read, all warnings written. *)
Finished == part \in {"log", "record"} /\ UNCHANGED MCVars

MCNext ==
  \/ StoreStep \/ NetStep \/ HootStep \/ DeskStep \/ LightStep \/ PomodoroStep
  \/ StopwatchStep \/ LaneStep \/ LeasesStep \/ LogStep \/ SpeakerStep \/ RecordStep
  \/ Finished

MCSpec == MCInit /\ [][MCNext]_MCVars /\ WF_netVars(part = "net" /\ Progress)

(* Every variable of every part has its type. *)
PartsTypeOK ==
  /\ TypeOK /\ NetTypeOK /\ HootTypeOK /\ DeskTypeOK /\ LightTypeOK /\ TimerTypeOK
  /\ LaneTypeOK /\ LeasesTypeOK /\ LogTypeOK /\ SpeakerTypeOK /\ RecordTypeOK

=============================================================================
