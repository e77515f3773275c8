----------------------------- MODULE PhotoFrame -----------------------------
(***************************************************************************)
(* The photo frame of os/src/apps/photo_frame.rs on the app lane of the    *)
(* network service, with its two blob slots, the commands of the agent     *)
(* that touch its cache, another app that uses the same lane, and the      *)
(* photo server.                                                           *)
(*                                                                         *)
(* As in Agent, a frame is agent.update, then shell.update with the app on *)
(* screen; the Wi-Fi task moves while the next frame is awaited.           *)
(***************************************************************************)
EXTENDS Naturals

CONSTANTS
  Servers,          (* a server with a frame name: whose photos are shown *)
  Home,             (* the first of them *)
  Commands,         (* what a heartbeat may carry: some of "refetch", "clear" *)
                    (* and servers to move to                                 *)
  Others,           (* what other apps fetch *)
  LiveFrames,       (* motion frames of a live photo; 0: none is live *)
  MaxJoinFailures,  (* as in NetService *)
  MaxEvents,        (* bound: commands, new photos and presses of K, together *)
  MaxFaults,        (* bound: flash operations that fail *)
  Motion,           (* a motion frame on the screen *)
  None

ASSUME HomeAssumption == Home \in Servers

VARIABLES
  shared, wifi, failures, page, serving,  (* of NetService *)
  incoming,   (* the photo whose body the fetch under way streams, or None *)
  slots,      (* slots A and B: a complete photo or None *)
  config,     (* frame_server, frame_slot and frame_last_modified *)
  turn,       (* "agent" or "shell" *)
  heartbeat,  (* does the agent wait for a heartbeat? *)
  running,    (* what the shell shows: "menu", "frame" or another app *)
  app,        (* struct PhotoFrame *)
  screen,     (* the photo in the frame buffer, Motion, or None *)
  newest,     (* per server, when its newest photo was uploaded *)
  events, faults  (* counters of the bounds *)

Slots == {0, 1}

Photos == [server : Servers, time : 0 .. MaxEvents]

(* Last-Modified, None for the empty string. *)
Stamps == 0 .. MaxEvents \cup {None}

Heartbeat == [kind |-> "heartbeat"]
OtherRequest(r) == [kind |-> "other", what |-> r]
PhotoRequest(server, since, slot) ==
  [kind |-> "photo", server |-> server, since |-> since, slot |-> slot]
LiveRequest(server, n) == [kind |-> "live", server |-> server, n |-> n]

AppRequests ==
  {OtherRequest(r) : r \in Others}
    \cup {PhotoRequest(s, t, slot) : s \in Servers, t \in Stamps, slot \in Slots}
    \cup {LiveRequest(s, n) : s \in Servers, n \in 0 .. LiveFrames}

(* live: the motion frames of the newest photo. *)
Replies ==
  [request : {Heartbeat}, command : Commands \cup {None}]
    \cup [request : AppRequests, status : {200, 304}, stamp : Stamps,
          live : {0, LiveFrames}]

(* As NetService has it: None is no value of the model. *)
ASSUME NothingAssumption ==
  None \notin AppRequests \cup {Heartbeat} \cup Servers \cup Photos \cup Commands
              \cup {"refetch", "clear"} \cup 0 .. MaxEvents \cup 0 .. LiveFrames
              \cup [lane : {"System", "App"}, request : AppRequests \cup {Heartbeat}]
ASSUME CountsAssumption ==
  {LiveFrames, MaxEvents, MaxJoinFailures} \subseteq Nat

INSTANCE NetService WITH
  Requests <- AppRequests \cup {Heartbeat}, Answers <- Replies, Settings <- Servers

network == <<shared, wifi, failures, page, serving>>
bounds == <<events, faults>>
vars == <<network, incoming, slots, config, turn, heartbeat, running, app, screen,
          newest, bounds>>

-----------------------------------------------------------------------------
NewApp ==
  [onScreen |-> FALSE, fetching |-> FALSE, slot |-> 0, force |-> FALSE,
   frames |-> 0, playing |-> None, restore |-> FALSE, manual |-> FALSE]

(* show_slot: the photo of the slot, if it is complete. *)
ShowSlot(slot) == IF slots[slot] # None THEN slots[slot] ELSE screen

(* A flash operation may fail. *)
Fault == faults < MaxFaults /\ faults' = faults + 1

(* update_config: a save that fails leaves the config as it was. *)
Saves(new) ==
  \/ config' = new /\ UNCHANGED faults
  \/ UNCHANGED config /\ Fault

(* Nothing is stored. *)
Quiet == UNCHANGED <<config, faults>>

-----------------------------------------------------------------------------
(* The agent's part of a frame. *)

Forgotten == [config EXCEPT !.stamp = None]

(* clear_cache: the slots are erased one after the other ... *)
Erased(n) == [s \in Slots |-> IF s < n THEN None ELSE slots[s]]

(* Variant: the timestamp stays. *)
ClearsKeepingStamp ==
  /\ slots' = Erased(2)
  /\ Saves([config EXCEPT !.slot = 0])

(* ... then the config is stored; the first error ends it. *)
ClearCache ==
  \/ slots' = Erased(2) /\ Saves([Forgotten EXCEPT !.slot = 0])
  \/ \E n \in 0 .. 1 : slots' = Erased(n) /\ UNCHANGED config /\ Fault

(* A command "server:" or "name:", or the trial of one ended. *)
MoveTo(server, s) ==
  /\ Saves([Forgotten EXCEPT !.server = server])
  /\ shared' = ApplyConfig(s, config'.server)
  /\ UNCHANGED slots

RunCommand(command, s) ==
  \/ command \in Servers /\ MoveTo(command, s)
  \/ command = "refetch" /\ Saves(Forgotten) /\ shared' = s /\ UNCHANGED slots
  \/ command = "clear" /\ ClearCache /\ shared' = s
  \/ command = None /\ Quiet /\ shared' = s /\ UNCHANGED slots

(* The heartbeat was answered, well or not. *)
HeartbeatEnds ==
  /\ heartbeat
  /\ shared.jobs["System"] \notin {Idle, Pending}
  /\ heartbeat' = FALSE
  /\ LET answer == shared.jobs["System"]
         command == IF answer = Failed THEN None ELSE answer.reply.command
     IN  RunCommand(command, TakeJobOn(shared, "System"))

(* The next one is due. *)
HeartbeatStarts ==
  /\ ~heartbeat
  /\ FetchAccepted(shared, "System")
  /\ heartbeat' = TRUE
  /\ shared' = FetchOn(shared, "System", Heartbeat)
  /\ UNCHANGED <<slots, config, faults>>

NothingForAgent ==
  /\ heartbeat => shared.jobs["System"] = Pending
  /\ UNCHANGED <<shared, heartbeat, slots, config, faults>>

AgentUpdate ==
  /\ turn = "agent"
  /\ turn' = "shell"
  /\ HeartbeatEnds \/ HeartbeatStarts \/ NothingForAgent
  /\ UNCHANGED <<wifi, failures, page, serving, incoming, running, app, screen,
                 newest, events>>

-----------------------------------------------------------------------------
(* The app's part of a frame.  Its parts get the app a as the keys of the  *)
(* frame left it.                                                          *)

(* live_stop: back to the still. *)
LiveStop(a, s) ==
  /\ app' = [a EXCEPT !.playing = None, !.restore = FALSE]
  /\ screen' = ShowSlot(config.slot)
  /\ shared' = s
  /\ Quiet

(* start_live; up to here nothing was drawn but "shown". *)
StartLive(a, s, n, shown) ==
  IF FetchAccepted(s, "App")
  THEN /\ app' = [a EXCEPT !.playing = n]
       /\ shared' = FetchOn(s, "App", LiveRequest(config.server, n))
       /\ screen' = shown
       /\ Quiet
  ELSE LiveStop(a, s)

(* The status of the answer on the app lane; 0 stands for no answer. *)
Status == IF shared.jobs["App"] = Failed THEN 0 ELSE shared.jobs["App"].reply.status

LiveFinish(a, s) ==
  IF Status # 200 THEN LiveStop(a, s)
  ELSE IF a.playing + 1 < a.frames THEN StartLive(a, s, a.playing + 1, Motion)
  ELSE /\ app' = [a EXCEPT !.playing = None, !.restore = TRUE]
       /\ screen' = Motion
       /\ shared' = s
       /\ Quiet

(* Variant: the slot of the photo in use. *)
SlotInUse == config.slot

(* "Photos alternate between two slots." *)
FetchSlot == 1 - config.slot

StartFetch(a) ==
  /\ IsUp
  /\ IF FetchAccepted(shared, "App")
     THEN /\ app' = [a EXCEPT !.fetching = TRUE, !.slot = FetchSlot]
          /\ shared' = FetchOn(shared, "App",
               PhotoRequest(config.server, IF a.force THEN None ELSE config.stamp, FetchSlot))
     ELSE app' = a /\ UNCHANGED shared
  /\ screen' = screen
  /\ Quiet

(* A complete photo came: show it, and note its slot and timestamp. *)
NewPhoto(a, reply) ==
  IF slots[a.slot] # None
  THEN /\ screen' = slots[a.slot]
       /\ app' = [a EXCEPT !.fetching = FALSE, !.frames = reply.live,
                           !.onScreen = TRUE, !.force = FALSE]
       /\ Saves([config EXCEPT !.slot = a.slot, !.stamp = reply.stamp])
  ELSE /\ app' = [a EXCEPT !.fetching = FALSE, !.frames = reply.live]
       /\ screen' = screen
       /\ Quiet

(* finish and fail, for the fetch that was noted as the app's. *)
Finish(a) ==
  /\ shared' = TakeJobOn(shared, "App")
  /\ IF Status = 200 THEN NewPhoto(a, shared.jobs["App"].reply)
     ELSE /\ app' = [a EXCEPT !.fetching = FALSE,
                       !.frames = IF Status = 304 THEN shared.jobs["App"].reply.live ELSE @]
          /\ screen' = screen
          /\ Quiet

Ended == shared.jobs["App"] \notin {Idle, Pending}

Waits(a) ==
  /\ app' = a
  /\ UNCHANGED <<shared, screen>>
  /\ Quiet

(* The chain of PhotoFrame::update; "restoreDue" and "pollDue" say which   *)
(* timers ran out.                                                         *)
Branches(a, restoreDue, pollDue) ==
  CASE a.playing # None ->
         IF Ended THEN LiveFinish(a, TakeJobOn(shared, "App")) ELSE Waits(a)
    [] a.playing = None /\ a.restore /\ restoreDue ->
         /\ app' = [a EXCEPT !.restore = FALSE]
         /\ screen' = ShowSlot(config.slot)
         /\ UNCHANGED shared
         /\ Quiet
    [] OTHER ->
         IF a.onScreen /\ ~a.fetching /\ a.frames > 0 /\ a.manual /\ IsUp
         THEN StartLive([a EXCEPT !.manual = FALSE], shared, 0, screen)
         ELSE IF a.fetching
         THEN IF Ended THEN Finish(a) ELSE Waits(a)
         ELSE IF pollDue /\ IsUp THEN StartFetch(a)
         ELSE Waits(a)

(* K plays the motion, L held for two seconds forgets the timestamp. *)
PlayPressed ==
  /\ app.onScreen
  /\ app.playing = None
  /\ app.frames > 0
  /\ IsUp
  /\ events < MaxEvents

FrameUpdate(restoreDue, pollDue) ==
  /\ running = "frame"
  /\ \E held \in BOOLEAN, pressed \in BOOLEAN :
       /\ pressed => PlayPressed
       /\ events' = IF pressed THEN events + 1 ELSE events
       /\ Branches([app EXCEPT !.force = @ \/ held, !.manual = @ \/ pressed],
                   restoreDue, pollDue)
  /\ UNCHANGED running

(* Variant: the app goes on waiting for the fetch it left behind. *)
EnterWaiting(shown) ==
  [app EXCEPT !.onScreen = shown, !.force = ~shown]

(* Variant: without a photo it asks for a newer one than it had. *)
EnterTrusting(shown) ==
  [app EXCEPT !.onScreen = shown, !.fetching = FALSE, !.force = FALSE]

(* on_enter: a fetch it left behind is forgotten; without a photo the next *)
(* fetch is unconditional.                                                 *)
Entered(shown) ==
  [app EXCEPT !.onScreen = shown, !.fetching = FALSE, !.force = ~shown]

OnEnter ==
  /\ running = "menu"
  /\ running' = "frame"
  /\ app' = Entered(slots[config.slot] # None)
  /\ screen' = slots[config.slot]
  /\ shared' = RequestConnect(shared)
  /\ Quiet

OnExit ==
  /\ running = "frame"
  /\ running' = "menu"
  /\ app' = [app EXCEPT !.playing = None, !.restore = FALSE]
  /\ screen' = None
  /\ UNCHANGED shared
  /\ Quiet

(* Another app with the network: it fetches, and drops what it does not    *)
(* wait for.                                                               *)
OtherApp ==
  /\ \/ /\ running = "menu"
        /\ Others # {}
        /\ running' = "other"
        /\ shared' = RequestConnect(shared)
     \/ running = "other" /\ running' = "menu" /\ UNCHANGED shared
     \/ /\ running = "other"
        /\ FetchAccepted(shared, "App")
        /\ \E r \in Others : shared' = FetchOn(shared, "App", OtherRequest(r))
        /\ UNCHANGED running
     \/ /\ running = "other"
        /\ Ended
        /\ shared' = TakeJobOn(shared, "App")
        /\ UNCHANGED running
  /\ UNCHANGED <<app, screen>>
  /\ Quiet

(* "Clear photo cache" of the menu. *)
MenuClear ==
  /\ running = "menu"
  /\ ClearCache
  /\ UNCHANGED <<running, shared, app, screen>>

NothingForApp ==
  /\ running # "frame"
  /\ UNCHANGED <<running, shared, app, screen>>
  /\ Quiet

ShellUpdate ==
  /\ turn = "shell"
  /\ turn' = "agent"
  /\ \/ \E restoreDue, pollDue \in BOOLEAN :
          FrameUpdate(restoreDue, pollDue) /\ UNCHANGED slots
     \/ MenuClear /\ UNCHANGED events
     \/ /\ OnEnter \/ OnExit \/ OtherApp \/ NothingForApp
        /\ UNCHANGED <<slots, events>>
  /\ UNCHANGED <<wifi, failures, page, serving, incoming, heartbeat, newest>>

-----------------------------------------------------------------------------
(* The Wi-Fi task, the server, and the power. *)

Device == <<config, turn, heartbeat, running, app, screen>>

(* What the Wi-Fi task does by itself, a failing fetch included. *)
WifiProgress ==
  /\ turn = "agent"
  /\ Progress
  /\ incoming' = IF serving' = None THEN None ELSE incoming
  /\ UNCHANGED <<slots, Device, newest, bounds>>

WifiLinkLost ==
  /\ turn = "agent"
  /\ LinkLost
  /\ UNCHANGED <<incoming, slots, Device, newest, bounds>>

Serves(kind) ==
  /\ turn = "agent"
  /\ serving # None
  /\ serving.request.kind = kind
  /\ incoming = None

(* The server has a photo the request does not know of. *)
IsNews ==
  serving.request.since # None =>
    newest[serving.request.server] > serving.request.since

(* The head of a reply with a photo: the slot is emptied and the body      *)
(* streamed into it (see BlobSlots).                                       *)
PhotoComes ==
  /\ Serves("photo")
  /\ IsNews
  /\ incoming' = [server |-> serving.request.server, time |-> newest[serving.request.server]]
  /\ slots' = [slots EXCEPT ![serving.request.slot] = None]
  /\ UNCHANGED <<network, Device, newest, bounds>>

PhotoComplete(live) ==
  /\ turn = "agent"
  /\ incoming # None
  /\ slots' = [slots EXCEPT ![serving.request.slot] = incoming]
  /\ EndFetch(Done([request |-> serving.request, status |-> 200,
                    stamp |-> incoming.time, live |-> live]))
  /\ incoming' = None
  /\ UNCHANGED <<Device, newest, bounds>>

NotModified(live) ==
  /\ Serves("photo")
  /\ ~IsNews
  /\ EndFetch(Done([request |-> serving.request, status |-> 304,
                    stamp |-> None, live |-> live]))
  /\ UNCHANGED <<incoming, slots, Device, newest, bounds>>

(* A motion frame, or something for the other app.  Error replies and      *)
(* photos of a wrong size have the effect of a fetch that fails.           *)
OtherReply ==
  /\ Serves("live") \/ Serves("other")
  /\ EndFetch(Done([request |-> serving.request, status |-> 200,
                    stamp |-> None, live |-> 0]))
  /\ UNCHANGED <<incoming, slots, Device, newest, bounds>>

HeartbeatReply(command) ==
  /\ Serves("heartbeat")
  /\ command # None => events < MaxEvents
  /\ events' = IF command = None THEN events ELSE events + 1
  /\ EndFetch(Done([request |-> Heartbeat, command |-> command]))
  /\ UNCHANGED <<incoming, slots, Device, newest, faults>>

(* Somebody uploads a photo; later means a later Last-Modified. *)
Upload(server) ==
  /\ events < MaxEvents
  /\ events' = events + 1
  /\ newest' = [newest EXCEPT ![server] = events + 1]
  /\ UNCHANGED <<network, incoming, slots, Device, faults>>

ClearUnderWay ==
  \/ /\ turn = "agent"
     /\ heartbeat
     /\ shared.jobs["System"] \notin {Idle, Pending, Failed}
     /\ shared.jobs["System"].reply.command = "clear"
  \/ turn = "shell" /\ running = "menu"

(* The power fails, maybe between two steps of clear_cache, and comes      *)
(* back: the slots and the config are what is left.                        *)
PowerCut ==
  /\ \/ UNCHANGED slots
     \/ ClearUnderWay /\ \E n \in Slots : slots' = Erased(n + 1)
  /\ shared' = NewShared(config.server, TRUE)
  /\ wifi' = "asleep"
  /\ failures' = 0
  /\ page' = None
  /\ serving' = None
  /\ incoming' = None
  /\ turn' = "agent"
  /\ heartbeat' = FALSE
  /\ running' = "menu"
  /\ app' = NewApp
  /\ screen' = None
  /\ UNCHANGED <<config, newest, bounds>>

Init ==
  /\ shared = NewShared(Home, TRUE)
  /\ wifi = "asleep"
  /\ failures = 0
  /\ page = None
  /\ serving = None
  /\ incoming = None
  /\ slots = [s \in Slots |-> None]
  /\ config = [server |-> Home, slot |-> 0, stamp |-> None]
  /\ turn = "agent"
  /\ heartbeat = FALSE
  /\ running = "menu"
  /\ app = NewApp
  /\ screen = None
  /\ newest = [s \in Servers |-> 0]
  /\ events = 0
  /\ faults = 0

Next ==
  \/ AgentUpdate
  \/ ShellUpdate
  \/ WifiProgress
  \/ WifiLinkLost
  \/ PhotoComes
  \/ \E live \in {0, LiveFrames} : PhotoComplete(live) \/ NotModified(live)
  \/ OtherReply
  \/ \E c \in Commands \cup {None} : HeartbeatReply(c)
  \/ \E s \in Servers : Upload(s)
  \/ PowerCut

-----------------------------------------------------------------------------
(* Every variable has its type. *)
TypeOK ==
  /\ NetTypeOK
  /\ incoming \in Photos \cup {None}
  /\ slots \in [Slots -> Photos \cup {None}]
  /\ config \in [server : Servers, slot : Slots, stamp : Stamps]
  /\ turn \in {"agent", "shell"}
  /\ heartbeat \in BOOLEAN
  /\ running \in {"menu", "frame", "other"}
  /\ app \in [onScreen : BOOLEAN, fetching : BOOLEAN, slot : Slots, force : BOOLEAN,
              frames : {0, LiveFrames}, playing : 0 .. LiveFrames \cup {None},
              restore : BOOLEAN, manual : BOOLEAN]
  /\ screen \in Photos \cup {Motion, None}
  /\ newest \in [Servers -> 0 .. MaxEvents]

(* The request of the app lane, queued, under way or answered. *)
LaneRequest ==
  IF shared.requests["App"] # None THEN shared.requests["App"]
  ELSE IF serving # None /\ serving.lane = "App" THEN serving.request
  ELSE IF shared.jobs["App"] \in {Idle, Pending, Failed} THEN None
  ELSE shared.jobs["App"].reply.request

(* What the app waits for is its own: while it fetches, the lane holds a   *)
(* photo for the slot it noted; while it plays, the motion frame it is at; *)
(* never what it, or another app, left behind when it was closed.          *)
OwnAnswer ==
  running = "frame" =>
    /\ app.fetching /\ LaneRequest # None =>
         LaneRequest.kind = "photo" /\ LaneRequest.slot = app.slot
    /\ app.playing # None /\ LaneRequest # None =>
         LaneRequest.kind = "live" /\ LaneRequest.n = app.playing
    /\ app.fetching \/ app.playing # None => shared.jobs["App"] # Idle

(* The timestamp is that of the photo in the current slot, as record.rs    *)
(* says of frame_last_modified, whatever failed or was interrupted.        *)
StampOfPhoto ==
  config.stamp # None /\ slots[config.slot] # None =>
    slots[config.slot].time = config.stamp

(* A command to move the device: "The photo is fetched afresh afterwards"  *)
(* (agent.rs:369).  A timestamp sent to a server is that of one of its own *)
(* photos; with another server's, a fetch is not afresh, and photos older  *)
(* than it never come.                                                     *)
StampOfServer ==
  config.stamp # None /\ slots[config.slot] # None =>
    slots[config.slot].server = config.server

(* "Two slots alternate, so the old photo stays valid until the new one is *)
(* complete": only a command to clear the cache, in the agent or the menu, *)
(* takes the current photo away; no fetch, answer or power cut does.       *)
PhotoIsKept ==
  [][/\ slots[config.slot] # None
     /\ slots'[config'.slot] = None
     => ClearUnderWay]_vars

FrameLanes == INSTANCE AtomicLanes WITH
  Requests <- AppRequests \cup {Heartbeat},
  AnswersOf <- [r \in AppRequests \cup {Heartbeat} |-> {a \in Replies : a.request = r}],
  job <- shared.jobs, owed <- [lane \in Lanes |-> OwedOn(lane)]

(* Agent, frame and the other app share the two lanes as net/mod.rs        *)
(* promises them: whatever is closed, reopened or cut short, an answer     *)
(* taken from a lane is one to the request last made on it.                *)
LanesAreShared == FrameLanes!RestartingSpec

Cache == INSTANCE AtomicBlobs WITH Blobs <- Photos, Empty <- None, slot <- slots

(* The slots hold whole photos, each stored into an empty slot, across     *)
(* fetches that fail, caches that are cleared and power cuts.              *)
PhotosAreWhole == Cache!ClearingSpec

Steady == running = "frame" /\ IsUp

(* With the network up and the app on screen, the newest photo of the      *)
(* server in use comes to the screen and stays: a cache half cleared, an   *)
(* answer to an older request or a failed save do not keep it away for     *)
(* ever.                                                                   *)
PhotoArrives ==
  <>[]Steady =>
    <>[](screen = [server |-> config.server, time |-> newest[config.server]])

-----------------------------------------------------------------------------
(* The timers of the app run out in the end, the Wi-Fi task gets to the    *)
(* app lane, and the server, asked again and again, answers a photo        *)
(* request in the end with a photo that arrives.                           *)
TakesApp == turn = "agent" /\ Take("App") /\ UNCHANGED <<incoming, slots, Device, newest, bounds>>

TimersDue == ShellUpdate /\ FrameUpdate(TRUE, TRUE)

Fairness ==
  /\ WF_vars(AgentUpdate)
  /\ WF_vars(ShellUpdate)
  /\ SF_vars(TimersDue)
  /\ SF_vars(WifiProgress)
  /\ SF_vars(TakesApp)
  /\ SF_vars(PhotoComes \/ \E live \in {0, LiveFrames} : NotModified(live))
  /\ SF_vars(\E live \in {0, LiveFrames} : PhotoComplete(live))

Spec == Init /\ [][Next]_vars /\ Fairness

=============================================================================
