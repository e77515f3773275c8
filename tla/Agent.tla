------------------------------- MODULE Agent --------------------------------
(***************************************************************************)
(* The OS agent of os/src/agent.rs on a board with a radio: heartbeat,     *)
(* commands from the server, the trial of a new server or name, the update *)
(* check; with the network service it calls and the part of the shell that *)
(* stores what the setup page saved.                                       *)
(*                                                                         *)
(* main.rs runs agent.update and shell.update in one frame with no await   *)
(* between them: "turn" says which of the two is next, and the Wi-Fi task  *)
(* moves only while the next frame is awaited.                             *)
(***************************************************************************)
EXTENDS Naturals, FiniteSets

CONSTANTS
  Servers,          (* server addresses *)
  Names,            (* frame names *)
  Blank,            (* the empty string, for a server or a name *)
  None,
  Home,             (* server and name of main.rs default_config *)
  MaxJoinFailures,  (* as in NetService *)
  PortalEdits,      (* may the user change server or name on the page? *)
  MaxMoves,         (* bound: changes of server or name by command or page *)
  MaxReboots,       (* bound: restarts *)
  MaxFaults         (* bound: config saves that fail *)

ASSUME BlankAssumption == Blank \notin Servers \cup Names
ASSUME HomeAssumption == Home \in [server : Servers, name : Names]

VARIABLES
  shared, wifi, failures, page, serving,  (* of NetService *)
  config,          (* what the flash holds of the config *)
  turn,            (* "agent" or "shell" *)
  started,         (* Agent.started *)
  job,             (* Agent.job *)
  checkUpdate,     (* Agent.check_update *)
  fetchGoals,      (* Agent.fetch_goals *)
  checkRequested,  (* CHECK_REQUESTED *)
  ota,             (* OTA_STATE *)
  trialOver,       (* SERVER_TRIAL_MS passed since note_server_change or boot *)
  proven,          (* history: the last settings whose own server answered *)
                   (* a heartbeat while they were the current ones         *)
  moves, reboots, faults  (* counters of the bounds *)

(* A server address and a frame name: what a heartbeat is sent to. *)
Places == [server : Servers \cup {Blank}, name : Names \cup {Blank}]

JobKinds == {"heartbeat", "warnings", "version", "firmware", "goals"}

AgentRequests == [job : JobKinds, to : Places]

Commands ==
  [op : {"server"}, arg : Servers \cup {Blank}] \cup
  [op : {"name"}, arg : Names \cup {Blank}] \cup
  [op : {"none", "reboot", "portal", "update"}, arg : {None}]

NoCommand == [op |-> "none", arg |-> None]

(* ok: a status that counts as success.  news: other goal names, or        *)
(* another version, than the device has.                                   *)
AgentAnswers ==
  [request : AgentRequests, ok : BOOLEAN, news : BOOLEAN, command : Commands]

(* As NetService has it: None is no value of the model. *)
ASSUME NothingAssumption ==
  None \notin AgentRequests \cup Places \cup
              [lane : {"System", "App"}, request : AgentRequests]
ASSUME JoinFailuresAssumption == MaxJoinFailures \in Nat

INSTANCE NetService WITH
  Requests <- AgentRequests, Answers <- AgentAnswers, Settings <- Places

network == <<shared, wifi, failures, page, serving>>
deviceVars == <<config, turn, started, job, checkUpdate, fetchGoals,
                checkRequested, ota, trialOver, proven>>
bounds == <<moves, reboots, faults>>
vars == <<network, deviceVars, bounds>>

-----------------------------------------------------------------------------
(* The config record, as far as the agent uses it. *)

Place(c) == [server |-> c.server, name |-> c.name]

Settled(place, ssid) ==
  [server |-> place.server, name |-> place.name,
   prevServer |-> Blank, prevName |-> Blank, trial |-> FALSE, ssid |-> ssid]

(* check_server_trial: a blank previous value is not restored. *)
Revert(c) ==
  [c EXCEPT !.server = IF c.prevServer # Blank THEN c.prevServer ELSE @,
            !.name = IF c.prevName # Blank THEN c.prevName ELSE @,
            !.prevServer = Blank,
            !.prevName = Blank,
            !.trial = FALSE]

(* finish_heartbeat: the change is confirmed. *)
Confirm(c) ==
  IF c.trial THEN [c EXCEPT !.prevServer = Blank, !.prevName = Blank, !.trial = FALSE]
  ELSE c

(* Variant: every change remembers the settings before it. *)
MoveRemembersLast(c, place) ==
  [c EXCEPT !.prevServer = c.server, !.prevName = c.name, !.trial = TRUE,
            !.server = place.server, !.name = place.name]

(* A changed server or name: the settings before the first change of the   *)
(* trial stay the ones to go back to.                                      *)
Move(c, place) ==
  [c EXCEPT !.prevServer = IF c.trial THEN @ ELSE c.server,
            !.prevName = IF c.trial THEN @ ELSE c.name,
            !.trial = TRUE,
            !.server = place.server,
            !.name = place.name]

Moved(c, command) ==
  Move(c, IF command.op = "server" THEN [server |-> command.arg, name |-> c.name]
          ELSE [server |-> c.server, name |-> command.arg])

(* At most one save of a frame fails; update_config then leaves the config *)
(* as it was, and every caller goes on.  None: no save fails.              *)
Faults(saves) == IF faults < MaxFaults THEN {None} \cup saves ELSE {None}

Stored(save, old, new, bad) == IF bad = save THEN old ELSE new

CountFault(bad) == faults' = IF bad = None THEN faults ELSE faults + 1

(* A start of the device: the RAM is as at boot, the clock is unset and a  *)
(* trial under way has its whole time again.                               *)
Restart(c) ==
  /\ config' = c
  /\ shared' = NewShared(Place(c), c.ssid)
  /\ wifi' = "asleep"
  /\ failures' = 0
  /\ page' = None
  /\ serving' = None
  /\ turn' = "agent"
  /\ started' = FALSE
  /\ job' = "none"
  /\ checkUpdate' = FALSE
  /\ fetchGoals' = FALSE
  /\ checkRequested' = FALSE
  /\ ota' = "idle"
  /\ trialOver' = FALSE

-----------------------------------------------------------------------------
(* Agent::update.  Its parts get the config c, the network state s and the *)
(* flag check as the lines before them left these.  restarted: did a       *)
(* command start the time of the trial anew (note_server_change)?          *)

EndOfUpdate(c, s, restarted) ==
  /\ config' = c
  /\ trialOver' = (trialOver /\ c.trial /\ ~restarted)
  /\ shared' = s
  /\ started' = TRUE
  /\ checkRequested' = FALSE
  /\ turn' = "shell"
  /\ UNCHANGED <<wifi, failures, page, serving>>

(* Variant: the job is noted whether or not the fetch was accepted. *)
StartAnyway(c, s, kind) ==
  /\ job' = kind
  /\ EndOfUpdate(c, IF FetchAccepted(s, "System")
                    THEN FetchOn(s, "System", [job |-> kind, to |-> Place(c)]) ELSE s,
                 FALSE)

(* Agent::start: a fetch that is not accepted is only logged. *)
Start(c, s, kind) ==
  IF FetchAccepted(s, "System")
  THEN /\ job' = kind
       /\ EndOfUpdate(c, FetchOn(s, "System", [job |-> kind, to |-> Place(c)]), FALSE)
  ELSE /\ job' = "none"
       /\ EndOfUpdate(c, s, FALSE)

(* Which request is next, by priority; due is the set of timers that ran   *)
(* out (for "log", with a warning to send).                                *)
HeartbeatFirst(check, due) ==
  CASE "poll" \in due -> "heartbeat"
    [] check \/ "update" \in due -> "version"
    [] fetchGoals -> "goals"
    [] "log" \in due -> "warnings"
    [] OTHER -> "none"

NextJob(check, due) ==
  CASE check \/ "update" \in due -> "version"
    [] "poll" \in due -> "heartbeat"
    [] fetchGoals -> "goals"
    [] "log" \in due -> "warnings"
    [] OTHER -> "none"

StartNext(c, s, check) ==
  /\ job = "none"
  /\ \E due \in SUBSET {"update", "poll", "log"} :
       LET kind == IF IsUp THEN NextJob(check, due) ELSE "none" IN
       /\ IF kind = "none" THEN job' = "none" /\ EndOfUpdate(c, s, FALSE) ELSE Start(c, s, kind)
       /\ checkUpdate' = (check /\ kind # "version")
       /\ fetchGoals' = (fetchGoals /\ kind # "goals")
       /\ ota' = IF kind = "version" THEN "checking" ELSE ota
  /\ UNCHANGED proven

StillWaiting(c, s, check) ==
  /\ job # "none"
  /\ s.jobs["System"] \in {Pending, Idle}
  /\ EndOfUpdate(c, s, FALSE)
  /\ checkUpdate' = check
  /\ UNCHANGED <<job, fetchGoals, ota, proven>>

JobFailed(c, s, check) ==
  /\ job # "none"
  /\ s.jobs["System"] = Failed
  /\ EndOfUpdate(c, TakeJobOn(s, "System"), FALSE)
  /\ job' = "none"
  /\ ota' = IF job \in {"version", "firmware"} THEN "failed" ELSE ota
  /\ checkUpdate' = check
  /\ UNCHANGED <<fetchGoals, proven>>

(* finish_heartbeat and run_command.  A command is carried out whatever    *)
(* the status of the answer was.                                           *)
Confirmed(c, answer, bad) ==
  IF answer.ok THEN Stored("confirm", c, Confirm(c), bad) ELSE c

(* The history variable: did the current settings' own server answer, and  *)
(* was that stored?                                                        *)
NoteProven(c, answer, bad) ==
  proven' = IF answer.ok /\ answer.request.to = Place(c) /\ ~Confirmed(c, answer, bad).trial
            THEN Place(c) ELSE proven

FinishHeartbeat(c, s, check, answer, bad) ==
  LET confirmed == Confirmed(c, answer, bad)
      command == answer.command
      moved == IF command.op \in {"server", "name"}
               THEN Stored("command", confirmed, Moved(confirmed, command), bad)
               ELSE confirmed
      taken == TakeJobOn(s, "System")
  IN
  /\ NoteProven(c, answer, bad)
  /\ job' = "none"
  /\ fetchGoals' = (fetchGoals \/ (answer.ok /\ answer.news))
  /\ checkUpdate' = (check \/ command.op = "update")
  /\ EndOfUpdate(moved,
       CASE command.op \in {"server", "name"} -> ApplyConfig(taken, Place(moved))
         [] command.op = "portal" -> RequestPortal(taken)
         [] OTHER -> taken,
       command.op \in {"server", "name"})
  /\ UNCHANGED ota

(* The command "reboot": the confirmation before it is stored, the rest of *)
(* the frame does not run.                                                 *)
FinishByReboot(c, answer, bad) ==
  /\ answer.command.op = "reboot"
  /\ Restart(Confirmed(c, answer, bad))
  /\ NoteProven(c, answer, bad)

(* finish_version: download what differs. *)
FinishVersion(c, s, check, answer) ==
  /\ ota' = CASE ~answer.ok -> "failed"
              [] answer.ok /\ answer.news -> "downloading"
              [] OTHER -> "up_to_date"
  /\ IF answer.ok /\ answer.news
     THEN Start(c, TakeJobOn(s, "System"), "firmware")
     ELSE job' = "none" /\ EndOfUpdate(c, TakeJobOn(s, "System"), FALSE)
  /\ checkUpdate' = check
  /\ UNCHANGED <<fetchGoals, proven>>

(* finish_firmware, finish_goals, and the answer to a post of warnings; a  *)
(* complete image restarts the device.                                     *)
FinishOther(c, s, check, answer) ==
  \/ /\ job = "firmware" /\ answer.ok
     /\ Restart(c)
     /\ UNCHANGED proven
  \/ /\ ~(job = "firmware" /\ answer.ok)
     /\ EndOfUpdate(c, TakeJobOn(s, "System"), FALSE)
     /\ job' = "none"
     /\ ota' = IF job = "firmware" THEN "failed" ELSE ota
     /\ checkUpdate' = check
     /\ UNCHANGED <<fetchGoals, proven>>

Finish(c, s, check, bad) ==
  /\ job # "none"
  /\ s.jobs["System"].kind = "done"
  /\ LET answer == s.jobs["System"].reply IN
       \/ /\ job = "heartbeat" /\ answer.command.op # "reboot"
          /\ FinishHeartbeat(c, s, check, answer, bad)
       \/ job = "heartbeat" /\ FinishByReboot(c, answer, bad)
       \/ job = "version" /\ FinishVersion(c, s, check, answer)
       \/ job \in {"firmware", "goals", "warnings"} /\ FinishOther(c, s, check, answer)

(* Variant: the trial is looked at only while the network is up. *)
ExpiredWhileUp == config.trial /\ trialOver /\ IsUp

(* The trial of the stored server or name is over: 30 minutes since it     *)
(* began, or since the last start of a board whose clock is unknown.       *)
Expired == config.trial /\ trialOver

AgentSaves ==
  (IF Expired THEN {"revert"} ELSE {}) \cup
  (IF job = "heartbeat" /\ shared.jobs["System"].kind = "done"
   THEN {"confirm", "command"} ELSE {})

AgentUpdate ==
  /\ turn = "agent"
  /\ \E bad \in Faults(AgentSaves) :
       LET woken == IF ~started /\ config.ssid THEN RequestConnect(shared) ELSE shared
           c == IF Expired THEN Stored("revert", config, Revert(config), bad) ELSE config
           s == IF Expired THEN ApplyConfig(woken, Place(c)) ELSE woken
           check == checkUpdate \/ checkRequested
       IN /\ \/ StartNext(c, s, check)
             \/ StillWaiting(c, s, check)
             \/ JobFailed(c, s, check)
             \/ Finish(c, s, check, bad)
          /\ CountFault(bad)
  /\ UNCHANGED <<moves, reboots>>

-----------------------------------------------------------------------------
(* The shell's part of the frame: it stores what the setup page saved, and *)
(* the user may ask for an update check, the network or the hotspot.       *)

PortalResultStored(bad) ==
  LET saved == shared.portalResult
      moved == Place(config) # saved
      stored == IF moved THEN Move([config EXCEPT !.ssid = TRUE], saved)
                ELSE [config EXCEPT !.ssid = TRUE]
  IN
  /\ config' = Stored("portal", config, stored, bad)
  /\ trialOver' = (trialOver /\ ~moved)

ShellUpdate ==
  /\ turn = "shell"
  /\ turn' = "agent"
  /\ \/ /\ shared.portalResult # None
        /\ \E bad \in Faults({"portal"}) : PortalResultStored(bad) /\ CountFault(bad)
     \/ /\ shared.portalResult = None
        /\ UNCHANGED <<config, trialOver, faults>>
  /\ LET s == IF shared.portalResult # None
              THEN ApplyConfig(TakePortalResult(shared), Place(config')) ELSE shared
     IN \/ shared' = s /\ UNCHANGED <<checkRequested, ota>>
        \/ shared' = RequestConnect(s) /\ UNCHANGED <<checkRequested, ota>>
        \/ shared' = RequestPortal(s) /\ UNCHANGED <<checkRequested, ota>>
        \/ shared' = s /\ checkRequested' = TRUE /\ ota' = "checking"
  /\ UNCHANGED <<wifi, failures, page, serving, started, job, checkUpdate,
                 fetchGoals, proven, moves, reboots>>

-----------------------------------------------------------------------------
(* The network service and the world. *)

(* A place with a blank server or name does not answer a heartbeat: the    *)
(* URL is invalid, or names no frame.                                      *)
MayAnswer(request, ok) ==
  /\ request.to.server # Blank
  /\ ok /\ request.job = "heartbeat" => request.to.name # Blank

AnswersTo(request) ==
  [ request : {request},
    ok : {ok \in BOOLEAN : MayAnswer(request, ok)},
    news : IF request.job \in {"heartbeat", "version"} THEN BOOLEAN ELSE {FALSE},
    command : IF request.job = "heartbeat" THEN Commands ELSE {NoCommand} ]

MovesPlace(answer) == answer.command.op \in {"server", "name"}

RestartsDevice(answer) ==
  answer.command.op = "reboot" \/ (answer.request.job = "firmware" /\ answer.ok)

Answered ==
  /\ wifi = "fetch"
  /\ \E answer \in AnswersTo(serving.request) :
       /\ MovesPlace(answer) => moves < MaxMoves
       /\ RestartsDevice(answer) => reboots < MaxReboots
       /\ EndFetch(Done(answer))
       /\ moves' = IF MovesPlace(answer) THEN moves + 1 ELSE moves
       /\ reboots' = IF RestartsDevice(answer) THEN reboots + 1 ELSE reboots
  /\ UNCHANGED faults

(* What the user leaves or types on the page. *)
PageSaved ==
  /\ wifi = "page"
  /\ \E settings \in (IF PortalEdits THEN Places ELSE {page}) :
       /\ settings # Place(config) => moves < MaxMoves
       /\ SavePage(settings)
       /\ moves' = IF settings # Place(config) THEN moves + 1 ELSE moves
  /\ UNCHANGED <<reboots, faults>>

(* The Wi-Fi task moves while the next frame is awaited.  Frames come      *)
(* every 16 ms, so the one that stores what the page saved runs before the *)
(* join that follows the hotspot gets anywhere.                            *)
Awaiting == turn = "agent" /\ shared.portalResult = None

WifiProgress ==
  /\ Awaiting
  /\ Progress
  /\ UNCHANGED <<deviceVars, bounds>>

WifiEvent ==
  /\ Awaiting
  /\ \/ Answered
     \/ PageSaved
     \/ LinkLost /\ UNCHANGED bounds
  /\ UNCHANGED deviceVars

(* SERVER_TRIAL_MS pass without an answer that ends the trial. *)
TimePasses ==
  /\ config.trial
  /\ ~trialOver
  /\ trialOver' = TRUE
  /\ UNCHANGED <<network, config, turn, started, job, checkUpdate, fetchGoals,
                 checkRequested, ota, proven, bounds>>

(* A power cut, the watchdog, or the Reboot entry of the menu. *)
Reboot ==
  /\ reboots < MaxReboots
  /\ reboots' = reboots + 1
  /\ Restart(config)
  /\ UNCHANGED <<proven, moves, faults>>

-----------------------------------------------------------------------------
(* A device as delivered, with or without a network in its built-in config. *)
Init ==
  /\ \E ssid \in BOOLEAN :
       /\ config = Settled(Home, ssid)
       /\ shared = NewShared(Home, ssid)
  /\ proven = Home
  /\ wifi = "asleep"
  /\ failures = 0
  /\ page = None
  /\ serving = None
  /\ turn = "agent"
  /\ started = FALSE
  /\ job = "none"
  /\ checkUpdate = FALSE
  /\ fetchGoals = FALSE
  /\ checkRequested = FALSE
  /\ ota = "idle"
  /\ trialOver = FALSE
  /\ moves = 0 /\ reboots = 0 /\ faults = 0

Next ==
  \/ AgentUpdate
  \/ ShellUpdate
  \/ WifiProgress
  \/ WifiEvent
  \/ TimePasses
  \/ Reboot

(* Frames go on, time passes, and the executor polls the Wi-Fi task in the *)
(* awaits between the frames.                                              *)
Spec ==
  /\ Init
  /\ [][Next]_vars
  /\ WF_vars(AgentUpdate \/ ShellUpdate)
  /\ WF_vars(TimePasses)
  /\ SF_vars(WifiProgress)

-----------------------------------------------------------------------------
TypeOK ==
  /\ NetTypeOK
  /\ config \in [ server : Servers \cup {Blank}, name : Names \cup {Blank},
                  prevServer : Servers \cup {Blank}, prevName : Names \cup {Blank},
                  trial : BOOLEAN, ssid : BOOLEAN ]
  /\ turn \in {"agent", "shell"}
  /\ job \in JobKinds \cup {"none"}
  /\ ota \in {"idle", "checking", "up_to_date", "downloading", "failed"}
  /\ proven \in Places
  /\ {started, checkUpdate, fetchGoals, checkRequested, trialOver} \subseteq BOOLEAN

(* The agent waits for an answer exactly when its lane holds a job, and    *)
(* the answer it will get is one to the kind of request it is waiting for: *)
(* a failed start, a revert or a command never leaves it waiting forever   *)
(* or lets it take one answer for another (agent.rs update, start).        *)
WaitsForItsAnswer ==
  /\ job = "none" <=> shared.jobs["System"] = Idle
  /\ shared.requests["System"] # None => shared.requests["System"].job = job
  /\ serving # None => serving.request.job = job
  /\ shared.jobs["System"].kind = "done" => shared.jobs["System"].reply.request.job = job

(* The settings in use are ones whose server answered a heartbeat while    *)
(* they were in use, or are on trial with such settings to go back to: a   *)
(* device moved to a dead server comes back (agent.rs SERVER_TRIAL_MS).    *)
NeverStranded ==
  proven = IF config.trial
           THEN [server |-> config.prevServer, name |-> config.prevName]
           ELSE Place(config)

(* Between frames the network task uses the stored settings, unless the    *)
(* page saved others that the next frame will store.                       *)
TargetIsConfig ==
  turn = "agent" =>
  shared.target = IF shared.portalResult # None THEN shared.portalResult ELSE Place(config)

AgentLanes == INSTANCE AtomicLanes WITH
  Requests <- AgentRequests, AnswersOf <- [r \in AgentRequests |-> AnswersTo(r)],
  job <- shared.jobs, owed <- [lane \in Lanes |-> OwedOn(lane)]

(* The agent uses the lanes as net/mod.rs promises them, in every frame    *)
(* and across restarts, and what it takes is an answer of the server to    *)
(* the very request it made, server and name included.                     *)
LanesAreOwn == AgentLanes!RestartingSpec

(* A trial ends, by an answer, by the time or, with a command or the page, *)
(* by another trial; restarts and failed saves only delay it.              *)
TrialEnds == config.trial ~> ~config.trial

(* While the network stays up an update check the user asked for is        *)
(* answered: a job under way or a heartbeat that is due cannot hold it     *)
(* off forever.                                                            *)
CheckIsAnswered == <>[]IsUp => (ota = "checking" ~> ota # "checking")

=============================================================================
