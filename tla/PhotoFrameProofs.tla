-------------------------- MODULE PhotoFrameProofs --------------------------
(***************************************************************************)
(* The photo frame with the network service, its cache and the commands    *)
(* that touch it, for all servers, any number of photos, commands, faults  *)
(* and power cuts: the app takes only its own answers, the stored          *)
(* timestamp is that of the stored photo, and nothing but a command to     *)
(* clear the cache takes the photo away.                                   *)
(***************************************************************************)
EXTENDS PhotoFrame, TLAPS

AllRequests == AppRequests \cup {Heartbeat}

SharedType ==
  [ connectRequested : BOOLEAN,
    portalRequested : BOOLEAN,
    portalResult : Servers \cup {None},
    ssid : BOOLEAN,
    target : Servers,
    requests : [Lanes -> AllRequests \cup {None}],
    jobs : [Lanes -> Jobs] ]

AppType ==
  [onScreen : BOOLEAN, fetching : BOOLEAN, slot : Slots, force : BOOLEAN,
   frames : {0, LiveFrames}, playing : 0 .. LiveFrames \cup {None},
   restore : BOOLEAN, manual : BOOLEAN]

ConfigType == [server : Servers, slot : Slots, stamp : Stamps]

(* What the inductive invariant says of the struct Shared, as predicates   *)
(* of any s, so that they can be followed through the calls of a step.     *)

(* Heartbeats go over the system lane, the rest over the other; a job is   *)
(* pending while its request is queued or under way; an answer is one to a *)
(* request of its lane.                                                    *)
LanesOK(s) ==
  /\ s.requests["System"] \in {Heartbeat, None}
  /\ s.requests["App"] \in AppRequests \cup {None}
  /\ \A lane \in Lanes :
       /\ s.jobs[lane] = Pending <=>
            s.requests[lane] # None \/ (serving # None /\ serving.lane = lane)
       /\ serving # None /\ serving.lane = lane => s.requests[lane] = None
  /\ s.jobs["System"].kind = "done" => s.jobs["System"].reply.request = Heartbeat
  /\ s.jobs["App"].kind = "done" => s.jobs["App"].reply.request \in AppRequests

(* The photo request that is queued or under way. *)
Underway(s, r) ==
  \/ s.requests["App"] = r
  \/ serving # None /\ serving.lane = "App" /\ serving.request = r

(* A photo is not fetched into the slot in use, unless the cache was       *)
(* cleared meanwhile.                                                      *)
SlotIsFree(s, c, sl) ==
  \A r \in AppRequests :
    r.kind = "photo" /\ Underway(s, r) /\ r.slot = c.slot =>
      sl[c.slot] = None /\ c.stamp = None

(* An answer with a photo comes with the timestamp of what it left in the  *)
(* slot, until the cache is cleared.                                       *)
AnswerIsStored(s, sl) ==
  s.jobs["App"].kind = "done" =>
    LET reply == s.jobs["App"].reply IN
    reply.request.kind = "photo" /\ reply.status = 200 /\ sl[reply.request.slot] # None =>
      sl[reply.request.slot].time = reply.stamp

(* LaneRequest of any s. *)
LaneHolds(s) ==
  IF s.requests["App"] # None THEN s.requests["App"]
  ELSE IF serving # None /\ serving.lane = "App" THEN serving.request
  ELSE IF s.jobs["App"] \in {Idle, Pending, Failed} THEN None
  ELSE s.jobs["App"].reply.request

(* The app fetches or plays, not both, and waits for an answer of its own. *)
AppWaits(s, a) ==
  /\ ~(a.fetching /\ a.playing # None)
  /\ a.fetching /\ LaneHolds(s) # None =>
       LaneHolds(s).kind = "photo" /\ LaneHolds(s).slot = a.slot
  /\ a.playing # None /\ LaneHolds(s) # None =>
       LaneHolds(s).kind = "live" /\ LaneHolds(s).n = a.playing
  /\ a.fetching \/ a.playing # None => s.jobs["App"] # Idle

(* The Wi-Fi task serves a request of the right lane, and streams a photo  *)
(* only for a photo request.                                               *)
TaskOK ==
  /\ serving # None <=> wifi = "fetch"
  /\ AttemptsLeft
  /\ serving # None =>
       IF serving.lane = "System" THEN serving.request = Heartbeat
       ELSE serving.request \in AppRequests
  /\ incoming # None => serving # None /\ serving.request.kind = "photo"

(* The inductive invariant. *)
PhotoInv ==
  /\ TypeOK
  /\ events \in 0 .. MaxEvents
  /\ TaskOK
  /\ LanesOK(shared)
  /\ SlotIsFree(shared, config, slots)
  /\ AnswerIsStored(shared, slots)
  /\ running = "frame" => AppWaits(shared, app)
  /\ running # "frame" => app.playing = None
  /\ StampOfPhoto

-----------------------------------------------------------------------------
(* The types. *)

(* The states of a job are different values. *)
LEMMA JobStates ==
  /\ Idle # Pending /\ Failed # Pending /\ Failed # Idle
  /\ \A a : Done(a) \notin {Idle, Pending, Failed}
  /\ \A a : Done(a).kind = "done" /\ Done(a).reply = a
  /\ {Idle, Pending, Failed} \subseteq Jobs
  /\ \A a \in Replies : Done(a) \in Jobs
  /\ "done" \notin {Idle.kind, Pending.kind, Failed.kind}
  /\ \A j \in Jobs : \/ j \in {Idle, Pending, Failed}
                     \/ j.kind = "done" /\ j.reply \in Replies
<1>1. Idle # Pending /\ Failed # Pending /\ Failed # Idle
  BY DEF Idle, Pending, Failed
<1>2. \A a : Done(a) \notin {Idle, Pending, Failed}
  <2>1. ASSUME NEW a PROVE Done(a).kind \notin {Idle.kind, Pending.kind, Failed.kind}
    BY DEF Done, Idle, Pending, Failed
  <2> QED BY <2>1
<1>3. \A a : Done(a).kind = "done" /\ Done(a).reply = a
  BY DEF Done
<1>4. {Idle, Pending, Failed} \subseteq Jobs
  BY DEF Jobs
<1>5. \A a \in Replies : Done(a) \in Jobs
  BY DEF Done, Jobs
<1>6. "done" \notin {Idle.kind, Pending.kind, Failed.kind}
  BY DEF Idle, Pending, Failed
<1>7. \A j \in Jobs : \/ j \in {Idle, Pending, Failed}
                      \/ j.kind = "done" /\ j.reply \in Replies
  BY DEF Jobs
<1> QED BY <1>1, <1>2, <1>3, <1>4, <1>5, <1>6, <1>7

(* The parts of NetTypeOK. *)
LEMMA NetTypes ==
  NetTypeOK <=>
    /\ shared \in SharedType
    /\ wifi \in {"asleep", "starting", "dead", "hotspot", "page", "pause",
                 "joining", "dhcp", "retry", "serve", "fetch"}
    /\ failures \in 0 .. MaxJoinFailures
    /\ page \in Servers \cup {None}
    /\ serving \in [lane : Lanes, request : AllRequests] \cup {None}
BY DEF NetTypeOK, SharedType, AllRequests

(* The sentinel is no value of the model. *)
LEMMA NoneIsNothing ==
  /\ None \notin AllRequests
  /\ None \notin [lane : Lanes, request : AllRequests]
  /\ None \notin Servers /\ None \notin Photos /\ None \notin Commands
  /\ None \notin {"refetch", "clear"}
  /\ None \notin 0 .. MaxEvents /\ None \notin 0 .. LiveFrames
BY NothingAssumption DEF Lanes, AllRequests

(* The requests of the app lane. *)
LEMMA RequestKinds ==
  /\ \A r \in AppRequests :
       /\ r.kind \in {"other", "photo", "live"}
       /\ r # Heartbeat
       /\ r.kind = "photo" =>
            r.server \in Servers /\ r.since \in Stamps /\ r.slot \in Slots
  /\ Heartbeat.kind = "heartbeat"
  /\ \A w \in Others :
       OtherRequest(w) \in AppRequests /\ OtherRequest(w).kind = "other"
  /\ \A s \in Servers, t \in Stamps, slot \in Slots :
       /\ PhotoRequest(s, t, slot) \in AppRequests
       /\ PhotoRequest(s, t, slot).kind = "photo"
       /\ PhotoRequest(s, t, slot).slot = slot
  /\ \A s \in Servers, n \in 0 .. LiveFrames :
       /\ LiveRequest(s, n) \in AppRequests
       /\ LiveRequest(s, n).kind = "live"
       /\ LiveRequest(s, n).n = n
<1>1. ASSUME NEW r \in AppRequests
      PROVE  /\ r.kind \in {"other", "photo", "live"}
             /\ r.kind = "photo" =>
                  r.server \in Servers /\ r.since \in Stamps /\ r.slot \in Slots
  BY DEF AppRequests, OtherRequest, PhotoRequest, LiveRequest
<1>2. Heartbeat.kind = "heartbeat"
  BY DEF Heartbeat
<1>3. \A w \in Others :
        OtherRequest(w) \in AppRequests /\ OtherRequest(w).kind = "other"
  BY DEF AppRequests, OtherRequest
<1>4. \A s \in Servers, t \in Stamps, slot \in Slots :
        /\ PhotoRequest(s, t, slot) \in AppRequests
        /\ PhotoRequest(s, t, slot).kind = "photo"
        /\ PhotoRequest(s, t, slot).slot = slot
  BY DEF AppRequests, PhotoRequest
<1>5. \A s \in Servers, n \in 0 .. LiveFrames :
        /\ LiveRequest(s, n) \in AppRequests
        /\ LiveRequest(s, n).kind = "live"
        /\ LiveRequest(s, n).n = n
  BY DEF AppRequests, LiveRequest
<1> QED BY <1>1, <1>2, <1>3, <1>4, <1>5

(* An answer has what answers to its kind of request have. *)
LEMMA ReplyTypes ==
  \A a \in Replies :
    /\ a.request \in AllRequests
    /\ a.request = Heartbeat => a.command \in Commands \cup {None}
    /\ a.request \in AppRequests =>
         a.status \in {200, 304} /\ a.stamp \in Stamps /\ a.live \in {0, LiveFrames}
BY RequestKinds DEF Replies, AllRequests

-----------------------------------------------------------------------------
(* The calls of the network service. *)

(* A call that leaves queue and jobs alone. *)
LEMMA LanesKept ==
  ASSUME NEW s \in SharedType, NEW t \in SharedType,
         t.requests = s.requests, t.jobs = s.jobs, LanesOK(s)
  PROVE  /\ LanesOK(t)
         /\ LaneHolds(t) = LaneHolds(s)
         /\ \A r : Underway(t, r) <=> Underway(s, r)
BY DEF LanesOK, LaneHolds, Underway

LEMMA QuietCalls ==
  ASSUME NEW s \in SharedType, NEW server \in Servers
  PROVE  \A t \in {RequestConnect(s), ApplyConfig(s, server)} :
           t \in SharedType /\ t.requests = s.requests /\ t.jobs = s.jobs
BY DEF SharedType, RequestConnect, ApplyConfig

(* A lane whose job is not pending has no request. *)
LEMMA FreeLane ==
  ASSUME NEW s \in SharedType, LanesOK(s), NEW lane \in Lanes, s.jobs[lane] # Pending
  PROVE  s.requests[lane] = None /\ ~(serving # None /\ serving.lane = lane)
BY DEF LanesOK

LEMMA TakeFromApp ==
  ASSUME NEW s \in SharedType, LanesOK(s), s.jobs["App"] # Pending
  PROVE  /\ TakeJobOn(s, "App") \in SharedType
         /\ LanesOK(TakeJobOn(s, "App"))
         /\ TakeJobOn(s, "App").jobs["App"] = Idle
         /\ LaneHolds(TakeJobOn(s, "App")) = None
         /\ \A r \in AppRequests : ~Underway(TakeJobOn(s, "App"), r)
<1> DEFINE t == TakeJobOn(s, "App")
<1>1. "App" \in Lanes /\ "System" \in Lanes
  BY DEF Lanes
<1>2. /\ t \in SharedType /\ t.requests = s.requests
      /\ t.jobs["App"] = Idle /\ t.jobs["System"] = s.jobs["System"]
  BY <1>1, JobStates DEF TakeJobOn, SharedType
<1>3. t.requests["App"] = None /\ ~(serving # None /\ serving.lane = "App")
  BY <1>1, <1>2, FreeLane
<1> HIDE DEF t
<1>4. LanesOK(t)
  BY <1>2, <1>3, JobStates DEF LanesOK, Lanes
<1>5. LaneHolds(t) = None /\ \A r \in AppRequests : ~Underway(t, r)
  BY <1>2, <1>3, NoneIsNothing DEF LaneHolds, Underway, AllRequests
<1> QED BY <1>2, <1>4, <1>5 DEF t

LEMMA TakeFromSystem ==
  ASSUME NEW s \in SharedType, LanesOK(s), s.jobs["System"] # Pending
  PROVE  /\ TakeJobOn(s, "System") \in SharedType
         /\ LanesOK(TakeJobOn(s, "System"))
         /\ TakeJobOn(s, "System").jobs["App"] = s.jobs["App"]
         /\ LaneHolds(TakeJobOn(s, "System")) = LaneHolds(s)
         /\ \A r : Underway(TakeJobOn(s, "System"), r) <=> Underway(s, r)
<1> DEFINE t == TakeJobOn(s, "System")
<1>1. "App" \in Lanes /\ "System" \in Lanes
  BY DEF Lanes
<1>2. /\ t \in SharedType /\ t.requests = s.requests
      /\ t.jobs["System"] = Idle /\ t.jobs["App"] = s.jobs["App"]
  BY <1>1, JobStates DEF TakeJobOn, SharedType
<1>3. t.requests["System"] = None /\ ~(serving # None /\ serving.lane = "System")
  BY <1>1, <1>2, FreeLane
<1> HIDE DEF t
<1>4. LanesOK(t)
  BY <1>2, <1>3, JobStates DEF LanesOK, Lanes
<1>5. LaneHolds(t) = LaneHolds(s) /\ \A r : Underway(t, r) <=> Underway(s, r)
  BY <1>2 DEF LaneHolds, Underway
<1> QED BY <1>2, <1>4, <1>5 DEF t

LEMMA FetchOnApp ==
  ASSUME NEW s \in SharedType, LanesOK(s), s.jobs["App"] # Pending, NEW r \in AppRequests
  PROVE  /\ FetchOn(s, "App", r) \in SharedType
         /\ LanesOK(FetchOn(s, "App", r))
         /\ FetchOn(s, "App", r).jobs["App"] = Pending
         /\ LaneHolds(FetchOn(s, "App", r)) = r
         /\ \A q : Underway(FetchOn(s, "App", r), q) => q = r
<1> DEFINE t == FetchOn(s, "App", r)
<1>1. "App" \in Lanes /\ "System" \in Lanes
  BY DEF Lanes
<1>2. /\ t \in SharedType
      /\ t.requests["App"] = r /\ t.requests["System"] = s.requests["System"]
      /\ t.jobs["App"] = Pending /\ t.jobs["System"] = s.jobs["System"]
  BY <1>1, JobStates DEF FetchOn, SharedType, AllRequests
<1>3. ~(serving # None /\ serving.lane = "App")
  BY <1>1, FreeLane
<1>4. r # None
  BY NoneIsNothing DEF AllRequests
<1> HIDE DEF t
<1>5. LanesOK(t)
  BY <1>2, <1>3, <1>4, JobStates DEF LanesOK, Lanes
<1>6. LaneHolds(t) = r /\ \A q : Underway(t, q) => q = r
  BY <1>2, <1>3, <1>4 DEF LaneHolds, Underway
<1> QED BY <1>2, <1>5, <1>6 DEF t

LEMMA FetchOnSystem ==
  ASSUME NEW s \in SharedType, LanesOK(s), s.jobs["System"] # Pending
  PROVE  /\ FetchOn(s, "System", Heartbeat) \in SharedType
         /\ LanesOK(FetchOn(s, "System", Heartbeat))
         /\ FetchOn(s, "System", Heartbeat).jobs["App"] = s.jobs["App"]
         /\ LaneHolds(FetchOn(s, "System", Heartbeat)) = LaneHolds(s)
         /\ \A r : Underway(FetchOn(s, "System", Heartbeat), r) <=> Underway(s, r)
<1> DEFINE t == FetchOn(s, "System", Heartbeat)
<1>1. "App" \in Lanes /\ "System" \in Lanes
  BY DEF Lanes
<1>2. /\ t \in SharedType
      /\ t.requests["System"] = Heartbeat /\ t.requests["App"] = s.requests["App"]
      /\ t.jobs["System"] = Pending /\ t.jobs["App"] = s.jobs["App"]
  BY <1>1, JobStates DEF FetchOn, SharedType, AllRequests
<1>3. ~(serving # None /\ serving.lane = "System")
  BY <1>1, FreeLane
<1>4. Heartbeat # None
  BY NoneIsNothing DEF AllRequests
<1> HIDE DEF t
<1>5. LanesOK(t)
  BY <1>2, <1>3, <1>4, JobStates DEF LanesOK, Lanes
<1>6. LaneHolds(t) = LaneHolds(s) /\ \A r : Underway(t, r) <=> Underway(s, r)
  BY <1>2 DEF LaneHolds, Underway
<1> QED BY <1>2, <1>5, <1>6 DEF t

-----------------------------------------------------------------------------
(* The start, and a power cut. *)

LEMMA NewDevice ==
  ASSUME NEW server \in Servers
  PROVE  /\ NewShared(server, TRUE) \in SharedType
         /\ \A lane \in Lanes : /\ NewShared(server, TRUE).requests[lane] = None
                                /\ NewShared(server, TRUE).jobs[lane] = Idle
BY JobStates DEF NewShared, SharedType

LEMMA NewAppType ==
  /\ NewApp \in AppType
  /\ NewApp.playing = None
BY CountsAssumption DEF NewApp, AppType, Slots

(* What a device that starts has to bring with it. *)
LEMMA Boots ==
  ASSUME NEW server \in Servers,
         shared = NewShared(server, TRUE), wifi = "asleep", failures = 0,
         page = None, serving = None, incoming = None, turn = "agent",
         heartbeat = FALSE, running = "menu", app = NewApp, screen = None,
         slots \in [Slots -> Photos \cup {None}],
         config \in ConfigType,
         newest \in [Servers -> 0 .. MaxEvents],
         events \in 0 .. MaxEvents,
         StampOfPhoto
  PROVE  PhotoInv
<1>1. NetTypeOK
  <2>1. shared \in SharedType
    BY NewDevice
  <2>2. 0 \in 0 .. MaxJoinFailures
    BY CountsAssumption
  <2> QED BY <2>1, <2>2, NetTypes
<1>2. app \in AppType /\ app.playing = None
  BY NewAppType
<1>8. TypeOK
  BY <1>1, <1>2 DEF TypeOK, AppType, ConfigType
<1>3. TaskOK
  BY DEF TaskOK, AttemptsLeft
<1>4. "App" \in Lanes /\ "System" \in Lanes
  BY DEF Lanes
<1>5. LanesOK(shared)
  BY <1>4, NewDevice, JobStates DEF LanesOK
<1>6. SlotIsFree(shared, config, slots)
  BY <1>4, NewDevice, NoneIsNothing DEF SlotIsFree, Underway, AllRequests
<1>7. AnswerIsStored(shared, slots)
  <2>1. shared.jobs["App"] = Idle
    BY <1>4, NewDevice
  <2> QED BY <2>1, JobStates DEF AnswerIsStored
<1> QED BY <1>2, <1>3, <1>5, <1>6, <1>7, <1>8 DEF PhotoInv

LEMMA InitInv == Init => PhotoInv
<1> SUFFICES ASSUME Init PROVE PhotoInv
  OBVIOUS
<1>1. /\ slots \in [Slots -> Photos \cup {None}]
      /\ config \in ConfigType
      /\ newest \in [Servers -> 0 .. MaxEvents]
      /\ events \in 0 .. MaxEvents
  BY HomeAssumption, CountsAssumption DEF Init, ConfigType, Slots, Stamps
<1>2. StampOfPhoto
  BY DEF Init, StampOfPhoto
<1> QED BY <1>1, <1>2, HomeAssumption, Boots DEF Init

-----------------------------------------------------------------------------
(* The Wi-Fi task and the server. *)

(* What a step of the task has to keep. *)
LEMMA TaskStep ==
  ASSUME PhotoInv, UNCHANGED <<Device, newest>>,
         NetTypeOK', TaskOK', LanesOK(shared)', AnswerIsStored(shared, slots)',
         incoming' \in Photos \cup {None},
         slots' \in [Slots -> Photos \cup {None}],
         events' \in 0 .. MaxEvents,
         \A r \in AppRequests : Underway(shared, r)' => Underway(shared, r),
         LaneHolds(shared)' \in {LaneHolds(shared), None},
         shared'.jobs["App"] = Idle => shared.jobs["App"] = Idle,
         \/ slots'[config.slot] \in {slots[config.slot], None}
         \/ config.stamp = None /\ \A r \in AppRequests : ~Underway(shared, r)'
  PROVE  PhotoInv'
<1>1. UNCHANGED <<config, turn, heartbeat, running, app, screen, newest>>
  BY DEF Device
<1>2. TypeOK'
  BY <1>1 DEF PhotoInv, TypeOK
<1>3. SlotIsFree(shared, config, slots)'
  BY <1>1 DEF PhotoInv, SlotIsFree
<1>4. StampOfPhoto'
  BY <1>1 DEF PhotoInv, StampOfPhoto
<1>5. running' = "frame" => AppWaits(shared, app)'
  BY <1>1 DEF PhotoInv, AppWaits
<1> QED BY <1>1, <1>2, <1>3, <1>4, <1>5 DEF PhotoInv

(* The task moves on, with no fetch under way. *)
LEMMA LoopStep ==
  ASSUME PhotoInv, UNCHANGED <<Device, newest, bounds, slots, serving>>,
         incoming' = incoming \/ incoming' = None,
         NetTypeOK', wifi # "fetch", wifi' # "fetch", AttemptsLeft',
         shared'.requests = shared.requests, shared'.jobs = shared.jobs
  PROVE  PhotoInv'
<1>1. serving = None /\ incoming = None /\ incoming' = None
  BY DEF PhotoInv, TaskOK
<1>2. TaskOK'
  BY <1>1 DEF TaskOK
<1>3. LanesOK(shared)'
  BY DEF PhotoInv, LanesOK
<1>4. LaneHolds(shared)' = LaneHolds(shared)
  BY DEF LaneHolds
<1>5. AnswerIsStored(shared, slots)'
  BY DEF PhotoInv, AnswerIsStored
<1>6. \A r \in AppRequests : Underway(shared, r)' => Underway(shared, r)
  BY DEF Underway
<1>7. slots' \in [Slots -> Photos \cup {None}] /\ events' \in 0 .. MaxEvents
  BY DEF PhotoInv, TypeOK, bounds
<1>8. slots'[config.slot] \in {slots[config.slot], None}
  OBVIOUS
<1> QED BY <1>1, <1>2, <1>3, <1>4, <1>5, <1>6, <1>7, <1>8, TaskStep

(* The task takes the request of a lane. *)
LEMMA TakeStep ==
  ASSUME PhotoInv, UNCHANGED <<Device, newest, bounds, slots>>,
         incoming' = incoming \/ incoming' = None,
         NEW lane \in Lanes, Take(lane)
  PROVE  PhotoInv'
<1>1. /\ serving = None /\ incoming' = None
      /\ shared.requests[lane] # None
      /\ shared \in SharedType /\ LanesOK(shared)
      /\ "App" \in Lanes /\ "System" \in Lanes
  BY NetTypes DEF PhotoInv, TypeOK, TaskOK, Take, Lanes
<1>2. /\ shared' \in SharedType
      /\ shared'.requests = [shared.requests EXCEPT ![lane] = None]
      /\ shared'.jobs = shared.jobs
  BY <1>1 DEF Take, SharedType
<1>3. /\ shared'.requests[lane] = None
      /\ \A l \in Lanes : l # lane => shared'.requests[l] = shared.requests[l]
  BY <1>1, <1>2 DEF SharedType
<1>4. /\ serving' = [lane |-> lane, request |-> shared.requests[lane]]
      /\ serving' \in [lane : Lanes, request : AllRequests]
      /\ serving'.lane = lane /\ serving'.request = shared.requests[lane]
  BY <1>1 DEF Take, SharedType
<1>5. serving' # None
  BY <1>4, NoneIsNothing
<1>6. NetTypeOK'
  <2>1. shared' \in SharedType'
    BY <1>2 DEF SharedType
  <2> QED BY <1>4, <2>1 DEF PhotoInv, TypeOK, NetTypeOK, Take, SharedType, AllRequests
<1>7. IF lane = "System" THEN serving'.request = Heartbeat
                         ELSE serving'.request \in AppRequests
  BY <1>1, <1>4 DEF LanesOK, Lanes
<1>8. TaskOK'
  BY <1>1, <1>4, <1>5, <1>7 DEF PhotoInv, TaskOK, AttemptsLeft, Take
<1>9. LanesOK(shared)'
  <2>1. shared'.requests["System"] \in {Heartbeat, None}
        /\ shared'.requests["App"] \in AppRequests \cup {None}
    BY <1>1, <1>3 DEF LanesOK
  <2>2. ASSUME NEW l \in Lanes
        PROVE  /\ shared'.jobs[l] = Pending <=>
                    shared'.requests[l] # None \/ (serving' # None /\ serving'.lane = l)
               /\ serving' # None /\ serving'.lane = l => shared'.requests[l] = None
    <3>1. CASE l = lane
      BY <1>1, <1>2, <1>3, <1>4, <1>5, <3>1 DEF LanesOK
    <3>2. CASE l # lane
      BY <1>1, <1>2, <1>3, <1>4, <1>5, <3>2 DEF LanesOK
    <3> QED BY <3>1, <3>2
  <2> QED BY <1>1, <1>2, <2>1, <2>2 DEF LanesOK
<1>10. LaneHolds(shared)' = LaneHolds(shared)
  BY <1>1, <1>2, <1>3, <1>4, <1>5 DEF LaneHolds, Lanes
<1>11. AnswerIsStored(shared, slots)'
  BY <1>2 DEF PhotoInv, AnswerIsStored
<1>12. \A r \in AppRequests : Underway(shared, r)' => Underway(shared, r)
  BY <1>1, <1>3, <1>4, <1>5, NoneIsNothing DEF Underway, Lanes, AllRequests
<1>13. slots' \in [Slots -> Photos \cup {None}] /\ events' \in 0 .. MaxEvents
  BY DEF PhotoInv, TypeOK, bounds
<1> QED BY <1>1, <1>2, <1>6, <1>8, <1>9, <1>10, <1>11, <1>12, <1>13, TaskStep

(* The fetch ends: the lane holds a failure, or an answer to what it asked. *)
LEMMA FetchEnds ==
  ASSUME PhotoInv, NEW end, EndFetch(end), incoming' = None,
         \/ end = Failed
         \/ \E a \in Replies : end = Done(a) /\ a.request = serving.request
  PROVE  /\ NetTypeOK' /\ TaskOK' /\ LanesOK(shared)'
         /\ shared'.jobs["App"] =
              IF serving.lane = "App" THEN end ELSE shared.jobs["App"]
         /\ \A r \in AppRequests : Underway(shared, r)' => Underway(shared, r)
         /\ serving.lane = "App" => \A r \in AppRequests : ~Underway(shared, r)'
         /\ LaneHolds(shared)' \in {LaneHolds(shared), None}
         /\ shared'.jobs["App"] = Idle => shared.jobs["App"] = Idle
<1>1. /\ serving # None
      /\ serving.lane \in Lanes /\ serving.request \in AllRequests
      /\ shared \in SharedType /\ LanesOK(shared)
      /\ "App" \in Lanes /\ "System" \in Lanes
      /\ wifi = "fetch"
  BY NetTypes DEF PhotoInv, TypeOK, TaskOK, EndFetch, Lanes
<1>2. /\ end \in Jobs \ {Idle, Pending}
      /\ end # Failed => end.kind = "done" /\ end.reply.request = serving.request
      /\ end.kind = "done" => end # Failed
  BY JobStates
<1>3. /\ shared' \in SharedType
      /\ shared'.requests = shared.requests
      /\ shared'.jobs = [shared.jobs EXCEPT ![serving.lane] = end]
  BY <1>1, <1>2 DEF EndFetch, SharedType
<1>4. /\ shared'.jobs[serving.lane] = end
      /\ \A l \in Lanes : l # serving.lane => shared'.jobs[l] = shared.jobs[l]
      /\ shared.requests[serving.lane] = None
      /\ shared.jobs[serving.lane] = Pending
  BY <1>1, <1>3 DEF SharedType, LanesOK
<1>5. serving' = None /\ wifi' = "serve" /\ page' = page /\ failures' = failures
  BY DEF EndFetch
<1>6. NetTypeOK'
  <2>1. shared' \in SharedType'
    BY <1>3 DEF SharedType
  <2> QED BY <1>5, <2>1 DEF PhotoInv, TypeOK, NetTypeOK, SharedType, AllRequests
<1>7. TaskOK'
  BY <1>5 DEF TaskOK, AttemptsLeft
<1>8. IF serving.lane = "System" THEN serving.request = Heartbeat
                                 ELSE serving.request \in AppRequests
  BY <1>1 DEF PhotoInv, TaskOK
<1>9. LanesOK(shared)'
  <2>1. ASSUME NEW l \in Lanes
        PROVE  /\ shared'.jobs[l] = Pending <=>
                    shared'.requests[l] # None \/ (serving' # None /\ serving'.lane = l)
               /\ serving' # None /\ serving'.lane = l => shared'.requests[l] = None
    <3>1. CASE l = serving.lane
      BY <1>2, <1>3, <1>4, <1>5, <3>1
    <3>2. CASE l # serving.lane
      BY <1>1, <1>3, <1>4, <1>5, <3>2 DEF LanesOK
    <3> QED BY <3>1, <3>2
  <2>2. /\ shared'.jobs["System"].kind = "done" =>
             shared'.jobs["System"].reply.request = Heartbeat
        /\ shared'.jobs["App"].kind = "done" =>
             shared'.jobs["App"].reply.request \in AppRequests
    BY <1>1, <1>2, <1>4, <1>8 DEF LanesOK, Lanes
  <2> QED BY <1>1, <1>3, <2>1, <2>2 DEF LanesOK
<1>10. \A r \in AppRequests :
         /\ Underway(shared, r)' => Underway(shared, r)
         /\ serving.lane = "App" => ~Underway(shared, r)'
  BY <1>3, <1>4, <1>5, NoneIsNothing DEF Underway, AllRequests
<1>11. LaneHolds(shared)' \in {LaneHolds(shared), None}
  <2>1. CASE serving.lane = "App"
    BY <1>1, <1>2, <1>3, <1>4, <1>5, <2>1 DEF LaneHolds
  <2>2. CASE serving.lane # "App"
    BY <1>1, <1>3, <1>4, <1>5, <2>2 DEF LaneHolds
  <2> QED BY <2>1, <2>2
<1>12. shared'.jobs["App"] = IF serving.lane = "App" THEN end ELSE shared.jobs["App"]
  BY <1>1, <1>4
<1> QED BY <1>2, <1>6, <1>7, <1>9, <1>10, <1>11, <1>12

(* The fetch under way, seen from the app lane. *)
LEMMA Served ==
  ASSUME PhotoInv, serving # None
  PROVE  /\ serving.lane \in Lanes
         /\ serving.request \in AllRequests
         /\ serving.request \in AppRequests => serving.lane = "App"
         /\ serving.lane = "App" =>
              serving.request \in AppRequests /\ Underway(shared, serving.request)
<1>1. serving.lane \in Lanes /\ serving.request \in AllRequests
  BY NetTypes DEF PhotoInv, TypeOK
<1>2. IF serving.lane = "System" THEN serving.request = Heartbeat
                                 ELSE serving.request \in AppRequests
  BY DEF PhotoInv, TaskOK
<1> QED BY <1>1, <1>2, RequestKinds DEF Underway, Lanes

(* A fetch that leaves the slots alone ends. *)
LEMMA EndStep ==
  ASSUME PhotoInv, UNCHANGED <<Device, newest, slots>>, events' \in 0 .. MaxEvents,
         incoming' = None, NEW end, EndFetch(end),
         \/ end = Failed
         \/ \E a \in Replies : /\ end = Done(a) /\ a.request = serving.request
                               /\ a.request.kind = "photo" => a.status # 200
  PROVE  PhotoInv'
<1>1. /\ NetTypeOK' /\ TaskOK' /\ LanesOK(shared)'
      /\ shared'.jobs["App"] = IF serving.lane = "App" THEN end ELSE shared.jobs["App"]
      /\ \A r \in AppRequests : Underway(shared, r)' => Underway(shared, r)
      /\ LaneHolds(shared)' \in {LaneHolds(shared), None}
      /\ shared'.jobs["App"] = Idle => shared.jobs["App"] = Idle
  BY FetchEnds
<1>2. end.kind = "done" /\ end.reply.request.kind = "photo" => end.reply.status # 200
  BY JobStates
<1>3. AnswerIsStored(shared, slots)'
  BY <1>1, <1>2 DEF PhotoInv, AnswerIsStored
<1>4. slots' \in [Slots -> Photos \cup {None}] /\ slots'[config.slot] = slots[config.slot]
  BY DEF PhotoInv, TypeOK
<1> QED BY <1>1, <1>3, <1>4, TaskStep

(* The head of a reply empties the slot; it is not the slot in use. *)
LEMMA ComesStep == ASSUME PhotoInv, PhotoComes PROVE PhotoInv'
<1> DEFINE r == serving.request
<1>1. /\ UNCHANGED <<shared, wifi, failures, page, serving, Device, newest, events>>
      /\ serving # None /\ r.kind = "photo"
      /\ incoming' = [server |-> r.server, time |-> newest[r.server]]
      /\ slots' = [slots EXCEPT ![r.slot] = None]
  BY DEF PhotoComes, Serves, network, bounds
<1>2. r \in AppRequests /\ serving.lane = "App" /\ Underway(shared, r)
      /\ r.server \in Servers /\ r.slot \in Slots
  <2>1. r \in AllRequests
    BY <1>1, Served
  <2>2. r \in AppRequests
    BY <1>1, <2>1, RequestKinds DEF AllRequests
  <2> QED BY <1>1, <2>2, Served, RequestKinds
<1> HIDE DEF r
<1>3. incoming' \in Photos
  BY <1>1, <1>2 DEF PhotoInv, TypeOK, Photos
<1>4. /\ slots' \in [Slots -> Photos \cup {None}]
      /\ \A s \in Slots : slots'[s] \in {slots[s], None}
  BY <1>1 DEF PhotoInv, TypeOK
<1>5. NetTypeOK'
  BY <1>1 DEF PhotoInv, TypeOK, NetTypeOK
<1>6. TaskOK'
  BY <1>1 DEF PhotoInv, TaskOK, AttemptsLeft, r
<1>7. /\ LanesOK(shared)'
      /\ \A q \in AppRequests : Underway(shared, q)' => Underway(shared, q)
      /\ LaneHolds(shared)' = LaneHolds(shared)
  BY <1>1 DEF PhotoInv, LanesOK, Underway, LaneHolds
<1>8. AnswerIsStored(shared, slots)'
  <2>1. shared.jobs["App"] = Pending
    BY <1>1, <1>2 DEF PhotoInv, LanesOK, Lanes
  <2> QED BY <1>1, <2>1, JobStates DEF AnswerIsStored
<1>9. config.slot \in Slots /\ events' \in 0 .. MaxEvents
  BY <1>1 DEF PhotoInv, TypeOK
<1> QED BY <1>1, <1>3, <1>4, <1>5, <1>6, <1>7, <1>8, <1>9, TaskStep

(* The photo is complete: its slot is free, or was cleared with its stamp. *)
LEMMA CompleteStep ==
  ASSUME PhotoInv, NEW live \in {0, LiveFrames}, PhotoComplete(live)
  PROVE  PhotoInv'
<1> DEFINE r == serving.request
           reply == [request |-> r, status |-> 200, stamp |-> incoming.time, live |-> live]
<1>1. /\ UNCHANGED <<Device, newest, events>>
      /\ serving # None /\ r.kind = "photo"
      /\ incoming \in Photos /\ incoming' = None
      /\ slots' = [slots EXCEPT ![r.slot] = incoming]
      /\ EndFetch(Done(reply))
  BY DEF PhotoComplete, bounds, PhotoInv, TypeOK, TaskOK
<1>2. r \in AppRequests /\ serving.lane = "App" /\ Underway(shared, r) /\ r.slot \in Slots
  <2>1. r \in AllRequests
    BY <1>1, Served
  <2>2. r \in AppRequests
    BY <1>1, <2>1, RequestKinds DEF AllRequests
  <2> QED BY <1>1, <2>2, Served, RequestKinds
<1>3. reply \in Replies
  <2>1. incoming.time \in Stamps
    BY <1>1 DEF Photos, Stamps
  <2> QED BY <1>2, <2>1 DEF Replies
<1>4. /\ NetTypeOK' /\ TaskOK' /\ LanesOK(shared)'
      /\ shared'.jobs["App"] = Done(reply)
      /\ \A q \in AppRequests : ~Underway(shared, q)'
      /\ LaneHolds(shared)' \in {LaneHolds(shared), None}
      /\ shared'.jobs["App"] = Idle => shared.jobs["App"] = Idle
  BY <1>1, <1>2, <1>3, FetchEnds
<1>5. /\ slots' \in [Slots -> Photos \cup {None}]
      /\ slots'[r.slot] = incoming
      /\ \A s \in Slots : s # r.slot => slots'[s] = slots[s]
  BY <1>1, <1>2 DEF PhotoInv, TypeOK
<1>6. AnswerIsStored(shared, slots)'
  BY <1>4, <1>5, JobStates DEF AnswerIsStored
<1>7. config.slot = r.slot => config.stamp = None
  BY <1>1, <1>2 DEF PhotoInv, SlotIsFree
<1>8. \/ slots'[config.slot] \in {slots[config.slot], None}
      \/ config.stamp = None /\ \A q \in AppRequests : ~Underway(shared, q)'
  BY <1>4, <1>5, <1>7 DEF PhotoInv, TypeOK
<1>9. events' \in 0 .. MaxEvents
  BY <1>1 DEF PhotoInv
<1> QED BY <1>1, <1>4, <1>5, <1>6, <1>8, <1>9, TaskStep

(* The other answers of the server. *)
LEMMA ReplyStep ==
  ASSUME PhotoInv,
         \/ \E live \in {0, LiveFrames} : NotModified(live)
         \/ OtherReply
         \/ \E c \in Commands \cup {None} : HeartbeatReply(c)
  PROVE  PhotoInv'
<1> DEFINE r == serving.request
<1>1. /\ serving # None
      /\ r.kind \in {"photo", "live", "other", "heartbeat"}
      /\ incoming = None /\ incoming' = None
      /\ UNCHANGED <<Device, newest, slots>>
  BY DEF NotModified, OtherReply, HeartbeatReply, Serves
<1>2. r \in AllRequests
  BY <1>1, Served
<1>3. CASE \E live \in {0, LiveFrames} : NotModified(live)
  <2>1. PICK live \in {0, LiveFrames} : NotModified(live)
    BY <1>3
  <2> DEFINE a == [request |-> r, status |-> 304, stamp |-> None, live |-> live]
  <2>2. EndFetch(Done(a)) /\ events' = events /\ r.kind = "photo"
    BY <2>1 DEF NotModified, Serves, bounds
  <2>3. r \in AppRequests
    BY <1>2, <2>2, RequestKinds DEF AllRequests
  <2>4. a \in Replies /\ a.request = serving.request /\ a.status # 200
    BY <2>3 DEF Replies, Stamps
  <2>5. events' \in 0 .. MaxEvents
    BY <2>2 DEF PhotoInv
  <2> QED BY <1>1, <2>2, <2>4, <2>5, EndStep
<1>4. CASE OtherReply
  <2> DEFINE a == [request |-> r, status |-> 200, stamp |-> None, live |-> 0]
  <2>1. EndFetch(Done(a)) /\ events' = events /\ r.kind \in {"live", "other"}
    BY <1>4 DEF OtherReply, Serves, bounds
  <2>2. r \in AppRequests
    BY <1>2, <2>1, RequestKinds DEF AllRequests
  <2>3. a \in Replies /\ a.request = serving.request /\ a.request.kind # "photo"
    BY <2>1, <2>2 DEF Replies, Stamps
  <2>4. events' \in 0 .. MaxEvents
    BY <2>1 DEF PhotoInv
  <2> QED BY <1>1, <2>1, <2>3, <2>4, EndStep
<1>5. CASE \E c \in Commands \cup {None} : HeartbeatReply(c)
  <2>1. PICK c \in Commands \cup {None} : HeartbeatReply(c)
    BY <1>5
  <2> DEFINE a == [request |-> Heartbeat, command |-> c]
  <2>2. EndFetch(Done(a)) /\ r.kind = "heartbeat"
    BY <2>1 DEF HeartbeatReply, Serves
  <2>3. r = Heartbeat
    BY <1>2, <2>2, RequestKinds DEF AllRequests
  <2>4. a \in Replies /\ a.request = serving.request /\ a.request.kind # "photo"
    BY <2>2, <2>3 DEF Replies
  <2>5. events' \in 0 .. MaxEvents
    BY <2>1, CountsAssumption DEF PhotoInv, HeartbeatReply
  <2> QED BY <1>1, <2>2, <2>4, <2>5, EndStep
<1> QED BY <1>3, <1>4, <1>5

LEMMA UploadStep ==
  ASSUME PhotoInv, NEW server \in Servers, Upload(server)
  PROVE  PhotoInv'
<1>1. /\ UNCHANGED <<shared, wifi, failures, page, serving, incoming, slots, config,
                     turn, heartbeat, running, app, screen>>
      /\ events' = events + 1 /\ events < MaxEvents
      /\ newest' = [newest EXCEPT ![server] = events + 1]
  BY DEF Upload, network, Device
<1>2. events' \in 0 .. MaxEvents /\ newest' \in [Servers -> 0 .. MaxEvents]
  BY <1>1, CountsAssumption DEF PhotoInv, TypeOK
<1>3. TypeOK'
  BY <1>1, <1>2 DEF PhotoInv, TypeOK, NetTypeOK
<1>4. TaskOK' /\ LanesOK(shared)' /\ SlotIsFree(shared, config, slots)'
      /\ AnswerIsStored(shared, slots)' /\ StampOfPhoto'
  BY <1>1 DEF PhotoInv, TaskOK, AttemptsLeft, LanesOK, SlotIsFree, Underway,
              AnswerIsStored, StampOfPhoto
<1>5. /\ running' = "frame" => AppWaits(shared, app)'
      /\ running' # "frame" => app'.playing = None
  BY <1>1 DEF PhotoInv, AppWaits, LaneHolds
<1> QED BY <1>2, <1>3, <1>4, <1>5 DEF PhotoInv

LEMMA WifiStep ==
  ASSUME PhotoInv, WifiProgress \/ WifiLinkLost PROVE PhotoInv'
<1>1. /\ UNCHANGED <<Device, newest, bounds, slots>>
      /\ incoming' = incoming \/ incoming' = None
  BY DEF WifiProgress, WifiLinkLost
<1>2. /\ shared \in SharedType /\ failures \in 0 .. MaxJoinFailures
      /\ wifi \in {"joining", "dhcp"} => failures < MaxJoinFailures
      /\ serving = None \/ wifi = "fetch"
      /\ page \in Servers \cup {None} /\ shared.target \in Servers
      /\ MaxJoinFailures \in Nat
  BY NetTypes, CountsAssumption DEF PhotoInv, TypeOK, TaskOK, AttemptsLeft, SharedType
<1>3. CASE WaitConnect \/ NoFirmware \/ OpenHotspot \/ Joined \/ JoinRefused
             \/ GotLease \/ NoLease \/ (PortalTimeout /\ ~shared.ssid)
  <2>1. /\ UNCHANGED <<shared, serving>>
        /\ wifi \notin {"fetch"}
        /\ wifi' \in {"starting", "dead", "page", "pause", "joining", "dhcp",
                      "retry", "serve"}
    BY <1>3 DEF WaitConnect, NoFirmware, OpenHotspot, Joined, JoinRefused,
                GotLease, NoLease, PortalTimeout
  <2>2. /\ failures' \in 0 .. MaxJoinFailures
        /\ wifi' \in {"joining", "dhcp"} => failures' < MaxJoinFailures
    BY <1>2, <1>3
    DEF WaitConnect, NoFirmware, OpenHotspot, Joined, JoinRefused,
        GotLease, NoLease, PortalTimeout
  <2>3. page' \in Servers \cup {None}
    BY <1>2, <1>3 DEF WaitConnect, NoFirmware, OpenHotspot, Joined, JoinRefused,
                      GotLease, NoLease, PortalTimeout
  <2>4. NetTypeOK'
    BY <2>1, <2>2, <2>3 DEF PhotoInv, TypeOK, NetTypeOK
  <2> QED BY <1>1, <2>1, <2>2, <2>4, LoopStep DEF AttemptsLeft
<1>4. CASE StartRadio \/ Pause \/ Retry \/ LinkLost \/ PortalBreak
             \/ (PortalTimeout /\ shared.ssid)
  <2>1. PICK fails \in {0, failures} :
          /\ wifi # "fetch" /\ UNCHANGED serving /\ page' \in {page, None}
          /\ TopOfLoop(shared, fails)
    BY <1>4 DEF StartRadio, Pause, Retry, LinkLost, PortalBreak, PortalTimeout
  <2>2. /\ shared' \in SharedType
        /\ shared'.requests = shared.requests /\ shared'.jobs = shared.jobs
    BY <1>2, <2>1 DEF TopOfLoop, SharedType
  <2>3. /\ wifi' \in {"hotspot", "joining"} /\ failures' = fails
        /\ wifi' = "joining" => fails < MaxJoinFailures
        /\ fails \in 0 .. MaxJoinFailures
    BY <1>2, <2>1 DEF TopOfLoop, PortalWanted
  <2>4. NetTypeOK'
    <3>1. shared' \in SharedType'
      BY <2>2 DEF SharedType
    <3> QED BY <1>2, <2>1, <2>3, <3>1 DEF PhotoInv, TypeOK, NetTypeOK, SharedType, AllRequests
  <2> QED BY <1>1, <2>1, <2>2, <2>3, <2>4, LoopStep DEF AttemptsLeft
<1>5. CASE \E lane \in Lanes : Take(lane)
  BY <1>1, <1>5, TakeStep
<1>6. CASE WifiProgress /\ EndFetch(Failed)
  <2>1. incoming' = None
    BY <1>6 DEF WifiProgress, EndFetch
  <2>2. events' \in 0 .. MaxEvents
    BY <1>1 DEF PhotoInv, bounds
  <2> QED BY <1>1, <1>6, <2>1, <2>2, EndStep
<1> QED BY <1>3, <1>4, <1>5, <1>6 DEF WifiProgress, WifiLinkLost, Progress

-----------------------------------------------------------------------------
(* The agent and the shell. *)

(* What a step of theirs has to keep, with Shared and the app as it leaves *)
(* them.                                                                   *)
LEMMA FrameStep ==
  ASSUME PhotoInv, NEW s \in SharedType, NEW a \in AppType,
         NEW c \in ConfigType, NEW sl \in [Slots -> Photos \cup {None}],
         shared' = s, app' = a, config' = c, slots' = sl,
         UNCHANGED <<wifi, failures, page, serving, incoming, newest>>,
         turn' \in {"agent", "shell"}, heartbeat' \in BOOLEAN,
         running' \in {"menu", "frame", "other"},
         screen' \in Photos \cup {Motion, None},
         events' \in 0 .. MaxEvents,
         LanesOK(s), SlotIsFree(s, c, sl), AnswerIsStored(s, sl),
         running' = "frame" => AppWaits(s, a),
         running' # "frame" => a.playing = None,
         c.stamp # None /\ sl[c.slot] # None => sl[c.slot].time = c.stamp
  PROVE  PhotoInv'
<1>1. NetTypeOK'
  BY DEF PhotoInv, TypeOK, NetTypeOK, SharedType, AllRequests
<1>2. TypeOK'
  BY <1>1 DEF PhotoInv, TypeOK, AppType, ConfigType
<1>3. TaskOK'
  BY DEF PhotoInv, TaskOK, AttemptsLeft
<1>4. LanesOK(shared)' /\ SlotIsFree(shared, config, slots)' /\ AnswerIsStored(shared, slots)'
  BY DEF LanesOK, SlotIsFree, Underway, AnswerIsStored
<1>5. running' = "frame" => AppWaits(shared, app)'
  BY DEF AppWaits, LaneHolds
<1>6. StampOfPhoto'
  BY DEF StampOfPhoto
<1> QED BY <1>2, <1>3, <1>4, <1>5, <1>6 DEF PhotoInv

(* What a step may do to cache and config when no new photo is noted:      *)
(* forget the timestamp, or the photo, or both with another slot.          *)
Forgets(c, sl) ==
  /\ c \in ConfigType
  /\ sl \in [Slots -> Photos \cup {None}]
  /\ \A s \in Slots : sl[s] \in {slots[s], None}
  /\ \/ c.slot = config.slot /\ c.stamp \in {config.stamp, None}
     \/ sl[c.slot] = None /\ c.stamp = None

LEMMA ForgetKeeps ==
  ASSUME PhotoInv, NEW c, NEW sl, Forgets(c, sl), NEW s \in SharedType,
         s.jobs["App"] = shared.jobs["App"],
         \A r \in AppRequests : Underway(s, r) => Underway(shared, r)
  PROVE  /\ SlotIsFree(s, c, sl)
         /\ AnswerIsStored(s, sl)
         /\ c.stamp # None /\ sl[c.slot] # None => sl[c.slot].time = c.stamp
<1>1. config.slot \in Slots /\ c.slot \in Slots
  BY DEF PhotoInv, TypeOK, Forgets, ConfigType
<1>2. SlotIsFree(s, c, sl)
  BY <1>1 DEF PhotoInv, SlotIsFree, Forgets
<1>3. AnswerIsStored(s, sl)
  <2> SUFFICES ASSUME s.jobs["App"].kind = "done",
                      s.jobs["App"].reply.request.kind = "photo",
                      s.jobs["App"].reply.status = 200,
                      sl[s.jobs["App"].reply.request.slot] # None
               PROVE  sl[s.jobs["App"].reply.request.slot].time = s.jobs["App"].reply.stamp
    BY DEF AnswerIsStored
  <2>1. s.jobs["App"].reply.request \in AppRequests
    BY DEF PhotoInv, LanesOK
  <2>2. s.jobs["App"].reply.request.slot \in Slots
    BY <2>1, RequestKinds
  <2> QED BY <2>2 DEF PhotoInv, AnswerIsStored, Forgets
<1>4. c.stamp # None /\ sl[c.slot] # None => sl[c.slot].time = c.stamp
  BY <1>1 DEF PhotoInv, StampOfPhoto, Forgets
<1> QED BY <1>2, <1>3, <1>4

LEMMA ConfigTypes ==
  ASSUME PhotoInv
  PROVE  /\ config \in ConfigType
         /\ Forgets(config, slots)
         /\ \A server \in Servers :
              Forgets([Forgotten EXCEPT !.server = server], slots)
         /\ Forgets(Forgotten, slots)
         /\ \A n \in 0 .. 2 : Forgets(config, Erased(n))
         /\ Forgets([Forgotten EXCEPT !.slot = 0], Erased(2))
<1>1. config \in ConfigType /\ slots \in [Slots -> Photos \cup {None}]
  BY DEF PhotoInv, TypeOK, ConfigType
<1>2. /\ Forgotten \in ConfigType
      /\ Forgotten.slot = config.slot /\ Forgotten.stamp = None
  BY <1>1 DEF Forgotten, ConfigType, Stamps
<1>3. \A n \in 0 .. 2 : /\ Erased(n) \in [Slots -> Photos \cup {None}]
                        /\ \A s \in Slots : Erased(n)[s] \in {slots[s], None}
  BY <1>1 DEF Erased
<1>4. \A s \in Slots : Erased(2)[s] = None
  BY DEF Erased, Slots
<1>5. \A server \in Servers :
        /\ [Forgotten EXCEPT !.server = server] \in ConfigType
        /\ [Forgotten EXCEPT !.server = server].slot = config.slot
        /\ [Forgotten EXCEPT !.server = server].stamp = None
  BY <1>2 DEF ConfigType
<1>6. /\ [Forgotten EXCEPT !.slot = 0] \in ConfigType
      /\ [Forgotten EXCEPT !.slot = 0].slot = 0
      /\ [Forgotten EXCEPT !.slot = 0].stamp = None
      /\ 0 \in Slots
  BY <1>2 DEF ConfigType, Slots
<1>7. Forgets(config, slots)
  BY <1>1 DEF Forgets
<1>8. \A server \in Servers : Forgets([Forgotten EXCEPT !.server = server], slots)
  BY <1>1, <1>5 DEF Forgets
<1>9. Forgets(Forgotten, slots)
  BY <1>1, <1>2 DEF Forgets
<1>10. \A n \in 0 .. 2 : Forgets(config, Erased(n))
  BY <1>1, <1>3 DEF Forgets
<1>11. Forgets([Forgotten EXCEPT !.slot = 0], Erased(2))
  <2>1. Erased(2)[0] = None
    BY <1>4, <1>6
  <2> HIDE DEF Forgotten
  <2> QED BY <1>3, <1>6, <2>1 DEF Forgets
<1> QED BY <1>1, <1>7, <1>8, <1>9, <1>10, <1>11

LEMMA ClearForgets ==
  ASSUME PhotoInv, ClearCache PROVE Forgets(config', slots')
<1>1. CASE slots' = Erased(2) /\ Saves([Forgotten EXCEPT !.slot = 0])
  <2>1. config' = [Forgotten EXCEPT !.slot = 0] \/ config' = config
    BY <1>1 DEF Saves
  <2> QED BY <1>1, <2>1, ConfigTypes
<1>2. CASE \E n \in 0 .. 1 : slots' = Erased(n) /\ UNCHANGED config
  BY <1>2, ConfigTypes
<1> QED BY <1>1, <1>2 DEF ClearCache

LEMMA CommandForgets ==
  ASSUME PhotoInv, NEW command \in Commands \cup {None}, NEW s \in SharedType,
         RunCommand(command, s)
  PROVE  /\ Forgets(config', slots')
         /\ shared' \in SharedType /\ shared'.requests = s.requests /\ shared'.jobs = s.jobs
<1>1. CASE command \in Servers /\ MoveTo(command, s)
  <2>1. /\ UNCHANGED slots
        /\ config' = [Forgotten EXCEPT !.server = command] \/ config' = config
        /\ shared' = ApplyConfig(s, config'.server)
    BY <1>1 DEF MoveTo, Saves
  <2>2. Forgets(config', slots')
    BY <1>1, <2>1, ConfigTypes
  <2>3. config'.server \in Servers
    BY <2>2 DEF Forgets, ConfigType
  <2> QED BY <2>1, <2>2, <2>3, QuietCalls
<1>2. CASE Saves(Forgotten) /\ shared' = s /\ UNCHANGED slots
  BY <1>2, ConfigTypes DEF Saves
<1>3. CASE ClearCache /\ shared' = s
  BY <1>3, ClearForgets
<1>4. CASE Quiet /\ shared' = s /\ UNCHANGED slots
  BY <1>4, ConfigTypes DEF Quiet
<1> QED BY <1>1, <1>2, <1>3, <1>4 DEF RunCommand

LEMMA AgentStep == ASSUME PhotoInv, AgentUpdate PROVE PhotoInv'
<1>1. /\ UNCHANGED <<wifi, failures, page, serving, incoming, newest, running, app,
                     screen, events>>
      /\ turn' = "shell"
  BY DEF AgentUpdate
<1>2. /\ shared \in SharedType /\ LanesOK(shared)
      /\ app \in AppType
      /\ events \in 0 .. MaxEvents
      /\ running \in {"menu", "frame", "other"} /\ screen \in Photos \cup {Motion, None}
      /\ heartbeat \in BOOLEAN
      /\ running = "frame" => AppWaits(shared, app)
      /\ running # "frame" => app.playing = None
      /\ "System" \in Lanes
  BY NetTypes DEF PhotoInv, TypeOK, AppType, Lanes
<1>3. /\ heartbeat' \in BOOLEAN
      /\ Forgets(config', slots')
      /\ shared' \in SharedType /\ LanesOK(shared')
      /\ shared'.jobs["App"] = shared.jobs["App"]
      /\ LaneHolds(shared') = LaneHolds(shared)
      /\ \A r \in AppRequests : Underway(shared', r) => Underway(shared, r)
  <2>1. CASE HeartbeatEnds
    <3> DEFINE job == shared.jobs["System"]
               command == IF job = Failed THEN None ELSE job.reply.command
               taken == TakeJobOn(shared, "System")
    <3>1. /\ RunCommand(command, taken) /\ heartbeat' = FALSE
          /\ job \notin {Idle, Pending}
      BY <2>1 DEF HeartbeatEnds
    <3>2. job # Failed => job.reply \in Replies /\ job.reply.request = Heartbeat
      BY <1>2, <3>1, JobStates DEF SharedType, LanesOK
    <3>3. command \in Commands \cup {None}
      BY <3>2, ReplyTypes
    <3>4. /\ taken \in SharedType /\ LanesOK(taken)
          /\ taken.jobs["App"] = shared.jobs["App"]
          /\ LaneHolds(taken) = LaneHolds(shared)
          /\ \A r : Underway(taken, r) <=> Underway(shared, r)
      BY <1>2, <3>1, TakeFromSystem
    <3> HIDE DEF command, taken
    <3>5. /\ Forgets(config', slots')
          /\ shared' \in SharedType
          /\ shared'.requests = taken.requests /\ shared'.jobs = taken.jobs
      BY <3>1, <3>3, <3>4, CommandForgets
    <3>6. /\ LanesOK(shared') /\ LaneHolds(shared') = LaneHolds(taken)
          /\ \A r : Underway(shared', r) <=> Underway(taken, r)
      BY <3>4, <3>5, LanesKept
    <3> QED BY <3>1, <3>4, <3>5, <3>6
  <2>2. CASE HeartbeatStarts
    <3>1. /\ shared.jobs["System"] # Pending
          /\ shared' = FetchOn(shared, "System", Heartbeat)
          /\ UNCHANGED <<slots, config>> /\ heartbeat' = TRUE
      BY <2>2 DEF HeartbeatStarts, FetchAccepted
    <3> QED BY <1>2, <3>1, FetchOnSystem, ConfigTypes
  <2>3. CASE NothingForAgent
    BY <1>2, <2>3, ConfigTypes DEF NothingForAgent
  <2> QED BY <2>1, <2>2, <2>3 DEF AgentUpdate
<1>4. /\ SlotIsFree(shared', config', slots') /\ AnswerIsStored(shared', slots')
      /\ config'.stamp # None /\ slots'[config'.slot] # None =>
           slots'[config'.slot].time = config'.stamp
  BY <1>3, ForgetKeeps
<1>5. running = "frame" => AppWaits(shared', app)
  BY <1>2, <1>3 DEF AppWaits
<1>6. config' \in ConfigType /\ slots' \in [Slots -> Photos \cup {None}]
  BY <1>3 DEF Forgets
<1> QED BY <1>1, <1>2, <1>3, <1>4, <1>5, <1>6, FrameStep

-----------------------------------------------------------------------------
(* The app's part of a frame. *)

(* A state of the network service that the app may go on from.             *)
Ready(s) ==
  /\ s \in SharedType
  /\ LanesOK(s)
  /\ SlotIsFree(s, config, slots)
  /\ AnswerIsStored(s, slots)

(* What each branch leaves: the config is the old one or notes a photo.    *)
Left ==
  /\ shared' \in SharedType /\ LanesOK(shared')
  /\ app' \in AppType /\ AppWaits(shared', app')
  /\ screen' \in Photos \cup {Motion, None}
  /\ config' \in ConfigType
  /\ SlotIsFree(shared', config', slots) /\ AnswerIsStored(shared', slots)
  /\ config'.stamp # None /\ slots[config'.slot] # None =>
       slots[config'.slot].time = config'.stamp
  /\ config' = config \/ slots[config'.slot] # None

LEMMA LeavesConfig ==
  ASSUME PhotoInv, NEW s, Ready(s), NEW a \in AppType, AppWaits(s, a),
         shared' = s, app' = a, config' = config,
         screen' \in Photos \cup {Motion, None}
  PROVE  Left
<1>1. config \in ConfigType
  BY DEF PhotoInv, TypeOK, ConfigType
<1>2. config.stamp # None /\ slots[config.slot] # None =>
        slots[config.slot].time = config.stamp
  BY DEF PhotoInv, StampOfPhoto
<1> QED BY <1>1, <1>2 DEF Left, Ready

(* What show_slot shows. *)
LEMMA ShownType ==
  ASSUME PhotoInv
  PROVE  ShowSlot(config.slot) \in Photos \cup {Motion, None}
BY DEF PhotoInv, TypeOK, ShowSlot

(* The app has its answer. *)
LEMMA AppTook ==
  ASSUME PhotoInv, shared.jobs["App"] # Pending
  PROVE  Ready(TakeJobOn(shared, "App"))
<1>1. shared \in SharedType /\ LanesOK(shared)
  BY NetTypes DEF PhotoInv, TypeOK
<1> DEFINE t == TakeJobOn(shared, "App")
<1>2. /\ t \in SharedType /\ LanesOK(t) /\ t.jobs["App"] = Idle
      /\ \A r \in AppRequests : ~Underway(t, r)
  BY <1>1, TakeFromApp
<1> HIDE DEF t
<1>3. SlotIsFree(t, config, slots) /\ AnswerIsStored(t, slots)
  BY <1>2, JobStates DEF SlotIsFree, AnswerIsStored
<1> QED BY <1>2, <1>3 DEF Ready, t

LEMMA StopStep ==
  ASSUME PhotoInv, NEW s, Ready(s), NEW a \in AppType, ~a.fetching, LiveStop(a, s)
  PROVE  Left
<1> DEFINE b == [a EXCEPT !.playing = None, !.restore = FALSE]
<1>1. b \in AppType /\ ~b.fetching /\ b.playing = None
  BY DEF AppType
<1>2. AppWaits(s, b)
  BY <1>1 DEF AppWaits
<1>3. /\ app' = b /\ shared' = s /\ config' = config
      /\ screen' \in Photos \cup {Motion, None}
  BY ShownType DEF LiveStop, Quiet
<1> HIDE DEF b
<1> QED BY <1>1, <1>2, <1>3, LeavesConfig

LEMMA StartLiveStep ==
  ASSUME PhotoInv, NEW s, Ready(s), NEW a \in AppType, ~a.fetching,
         NEW n \in 0 .. LiveFrames, NEW shown \in Photos \cup {Motion, None},
         StartLive(a, s, n, shown)
  PROVE  Left
<1>1. CASE FetchAccepted(s, "App")
  <2> DEFINE r == LiveRequest(config.server, n)
             t == FetchOn(s, "App", r)
             b == [a EXCEPT !.playing = n]
  <2>1. r \in AppRequests /\ r.kind = "live" /\ r.n = n
    BY RequestKinds DEF PhotoInv, TypeOK
  <2>2. b \in AppType /\ ~b.fetching /\ b.playing = n
    BY DEF AppType
  <2>3. app' = b /\ shared' = t /\ screen' = shown /\ config' = config
        /\ s.jobs["App"] # Pending
    BY <1>1 DEF StartLive, Quiet, FetchAccepted
  <2>4. /\ t \in SharedType /\ LanesOK(t) /\ t.jobs["App"] = Pending
        /\ LaneHolds(t) = r
        /\ \A q : Underway(t, q) => q = r
    <3> HIDE DEF r
    <3> QED BY <2>1, <2>3, FetchOnApp DEF Ready
  <2> HIDE DEF r, t, b
  <2>5. Ready(t)
    BY <2>1, <2>4, JobStates DEF Ready, SlotIsFree, AnswerIsStored
  <2>6. AppWaits(t, b)
    BY <2>1, <2>2, <2>4, JobStates DEF AppWaits
  <2> QED BY <2>2, <2>3, <2>5, <2>6, LeavesConfig
<1>2. CASE ~FetchAccepted(s, "App")
  BY <1>2, StopStep DEF StartLive
<1> QED BY <1>1, <1>2

LEMMA StartFetchStep ==
  ASSUME PhotoInv, NEW a \in AppType, AppWaits(shared, a), a.playing = None, StartFetch(a)
  PROVE  Left
<1>1. /\ Ready(shared)
      /\ config.server \in Servers /\ config.slot \in Slots /\ config.stamp \in Stamps
      /\ screen \in Photos \cup {Motion, None}
  BY NetTypes DEF PhotoInv, TypeOK, Ready
<1>2. CASE FetchAccepted(shared, "App")
  <2> DEFINE since == IF a.force THEN None ELSE config.stamp
             r == PhotoRequest(config.server, since, FetchSlot)
             t == FetchOn(shared, "App", r)
             b == [a EXCEPT !.fetching = TRUE, !.slot = FetchSlot]
  <2>1. since \in Stamps /\ FetchSlot \in Slots /\ FetchSlot # config.slot
    BY <1>1 DEF Stamps, FetchSlot, Slots
  <2>2. r \in AppRequests /\ r.kind = "photo" /\ r.slot = FetchSlot
    <3> HIDE DEF since
    <3> QED BY <1>1, <2>1, RequestKinds
  <2>3. b \in AppType /\ b.playing = None /\ b.slot = FetchSlot
    BY <2>1 DEF AppType
  <2>4. /\ app' = b /\ shared' = t /\ screen' = screen /\ config' = config
        /\ shared.jobs["App"] # Pending
    BY <1>2 DEF StartFetch, Quiet, FetchAccepted
  <2>5. /\ t \in SharedType /\ LanesOK(t) /\ t.jobs["App"] = Pending
        /\ LaneHolds(t) = r
        /\ \A q : Underway(t, q) => q = r
    <3> HIDE DEF r
    <3> QED BY <1>1, <2>2, <2>4, FetchOnApp DEF Ready
  <2> HIDE DEF since, r, t, b
  <2>6. Ready(t)
    BY <2>1, <2>2, <2>5, JobStates DEF Ready, SlotIsFree, AnswerIsStored
  <2>7. AppWaits(t, b)
    BY <2>2, <2>3, <2>5, JobStates DEF AppWaits
  <2> QED BY <1>1, <2>3, <2>4, <2>6, <2>7, LeavesConfig
<1>3. CASE ~FetchAccepted(shared, "App")
  <2>1. app' = a /\ shared' = shared /\ screen' = screen /\ config' = config
    BY <1>3 DEF StartFetch, Quiet
  <2> QED BY <1>1, <2>1, LeavesConfig
<1> QED BY <1>2, <1>3

(* The answer to the fetch: its slot and timestamp belong together. *)
LEMMA FinishStep ==
  ASSUME PhotoInv, NEW a \in AppType, AppWaits(shared, a), a.fetching, Ended, Finish(a)
  PROVE  Left
<1> DEFINE reply == shared.jobs["App"].reply
           t == TakeJobOn(shared, "App")
<1>1. /\ shared \in SharedType /\ LanesOK(shared)
      /\ shared.jobs["App"] \in Jobs
      /\ shared.jobs["App"] \notin {Idle, Pending}
      /\ config \in ConfigType
      /\ screen \in Photos \cup {Motion, None}
  BY NetTypes DEF PhotoInv, TypeOK, Ended, SharedType, Lanes, ConfigType
<1>2. Ready(t) /\ t.jobs["App"] = Idle /\ \A r \in AppRequests : ~Underway(t, r)
  BY <1>1, AppTook, TakeFromApp
<1>3. a.playing = None
  BY DEF AppWaits
<1>4. shared.jobs["App"] # Failed =>
        /\ shared.jobs["App"].kind = "done"
        /\ reply \in Replies /\ reply.request \in AppRequests
        /\ reply.stamp \in Stamps /\ reply.live \in {0, LiveFrames}
        /\ reply.request.kind = "photo" /\ reply.request.slot = a.slot
  <2> SUFFICES ASSUME shared.jobs["App"] # Failed
               PROVE  /\ shared.jobs["App"].kind = "done"
                      /\ reply \in Replies /\ reply.request \in AppRequests
                      /\ reply.stamp \in Stamps /\ reply.live \in {0, LiveFrames}
                      /\ reply.request.kind = "photo" /\ reply.request.slot = a.slot
    OBVIOUS
  <2>1. shared.jobs["App"].kind = "done" /\ reply \in Replies
    BY <1>1, JobStates
  <2>2. reply.request \in AppRequests
    BY <1>1, <2>1 DEF LanesOK
  <2>3. LaneHolds(shared) = reply.request
    BY <1>1, FreeLane DEF LaneHolds, Lanes
  <2>4. reply.request # None
    BY <2>2, NoneIsNothing DEF AllRequests
  <2> QED BY <2>1, <2>2, <2>3, <2>4, ReplyTypes DEF AppWaits
<1>5. shared' = t
  BY DEF Finish
<1> HIDE DEF t
<1>6. ASSUME NEW b \in AppType, b.fetching = FALSE, b.playing = None PROVE AppWaits(t, b)
  BY <1>6 DEF AppWaits
<1>7. CASE Status = 200 /\ slots[a.slot] # None
  <2> DEFINE b == [a EXCEPT !.fetching = FALSE, !.frames = reply.live,
                            !.onScreen = TRUE, !.force = FALSE]
             c == [config EXCEPT !.slot = a.slot, !.stamp = reply.stamp]
  <2>1. shared.jobs["App"] # Failed /\ reply.status = 200
    BY <1>7 DEF Status
  <2>2. b \in AppType /\ b.fetching = FALSE /\ b.playing = None
    BY <1>3, <1>4, <2>1 DEF AppType
  <2>3. /\ screen' = slots[a.slot] /\ app' = b
        /\ config' = c \/ config' = config
    BY <1>7 DEF Finish, NewPhoto, Saves
  <2>4. a.slot \in Slots
    BY DEF AppType
  <2>5. screen' \in Photos \cup {Motion, None}
    BY <2>3, <2>4 DEF PhotoInv, TypeOK
  <2>6. slots[a.slot].time = reply.stamp
    BY <1>4, <1>7, <2>1 DEF PhotoInv, AnswerIsStored
  <2>7. c \in ConfigType /\ c.slot = a.slot /\ c.stamp = reply.stamp
    BY <1>1, <1>4, <2>1, <2>4 DEF ConfigType
  <2> HIDE DEF b, c
  <2>8. AppWaits(t, b)
    BY <1>6, <2>2
  <2>9. CASE config' = config
    BY <1>2, <1>5, <2>2, <2>3, <2>5, <2>8, <2>9, LeavesConfig
  <2>10. CASE config' = c
    <3>1. SlotIsFree(t, c, slots)
      BY <1>2 DEF SlotIsFree
    <3> QED BY <1>2, <1>5, <1>7, <2>2, <2>3, <2>5, <2>6, <2>7, <2>8, <2>10, <3>1
            DEF Left, Ready
  <2> QED BY <2>3, <2>9, <2>10
<1>8. CASE ~(Status = 200 /\ slots[a.slot] # None)
  <2> DEFINE b == [a EXCEPT !.fetching = FALSE, !.frames = reply.live]
             d == [a EXCEPT !.fetching = FALSE]
  <2>1. /\ app' \in {b, d}
        /\ screen' = screen /\ config' = config
        /\ app' # d => shared.jobs["App"] # Failed
    <3>1. CASE Status = 200
      BY <1>8, <3>1 DEF Finish, NewPhoto, Quiet, Status
    <3>2. CASE Status = 304
      BY <1>8, <3>2 DEF Finish, Quiet, Status
    <3>3. CASE Status \notin {200, 304}
      <4>1. [a EXCEPT !.fetching = FALSE, !.frames = a.frames] = d
        BY DEF AppType
      <4> QED BY <1>8, <3>3, <4>1 DEF Finish, Quiet
    <3> QED BY <3>1, <3>2, <3>3
  <2>2. d \in AppType /\ d.fetching = FALSE /\ d.playing = None
    BY <1>3 DEF AppType
  <2>3. app' # d => app' \in AppType /\ app'.fetching = FALSE /\ app'.playing = None
    BY <1>3, <1>4, <2>1 DEF AppType
  <2> HIDE DEF b, d
  <2>4. app' \in AppType /\ AppWaits(t, app')
    BY <1>6, <2>2, <2>3
  <2> QED BY <1>1, <1>2, <1>5, <2>1, <2>4, LeavesConfig
<1> QED BY <1>7, <1>8

LEMMA LiveFinishStep ==
  ASSUME PhotoInv, NEW a \in AppType, AppWaits(shared, a), a.playing # None, Ended,
         LiveFinish(a, TakeJobOn(shared, "App"))
  PROVE  Left
<1> DEFINE t == TakeJobOn(shared, "App")
<1>1. Ready(t)
  BY AppTook DEF Ended
<1>2. ~a.fetching /\ a.playing \in 0 .. LiveFrames /\ a.frames \in {0, LiveFrames}
  BY DEF AppWaits, AppType
<1> HIDE DEF t
<1>3. CASE LiveStop(a, t)
  BY <1>1, <1>2, <1>3, StopStep
<1>4. CASE a.playing + 1 < a.frames /\ StartLive(a, t, a.playing + 1, Motion)
  <2>1. a.playing + 1 \in 0 .. LiveFrames
    BY <1>2, <1>4, CountsAssumption
  <2> QED BY <1>1, <1>2, <1>4, <2>1, StartLiveStep
<1>5. CASE /\ app' = [a EXCEPT !.playing = None, !.restore = TRUE]
           /\ screen' = Motion /\ shared' = t /\ Quiet
  <2> DEFINE b == [a EXCEPT !.playing = None, !.restore = TRUE]
  <2>1. b \in AppType /\ ~b.fetching /\ b.playing = None
    BY <1>2 DEF AppType
  <2>2. AppWaits(t, b)
    BY <2>1 DEF AppWaits
  <2>3. app' = b /\ config' = config /\ screen' \in Photos \cup {Motion, None}
    BY <1>5 DEF Quiet
  <2> HIDE DEF b
  <2> QED BY <1>1, <1>5, <2>1, <2>2, <2>3, LeavesConfig
<1> QED BY <1>3, <1>4, <1>5 DEF LiveFinish, t

LEMMA BranchStep ==
  ASSUME PhotoInv, NEW a \in AppType, AppWaits(shared, a),
         NEW restoreDue, NEW pollDue, Branches(a, restoreDue, pollDue)
  PROVE  Left
<1>1. /\ Ready(shared)
      /\ screen \in Photos \cup {Motion, None}
  BY NetTypes DEF PhotoInv, TypeOK, Ready
<1>2. CASE Waits(a)
  <2>1. app' = a /\ shared' = shared /\ screen' = screen /\ config' = config
    BY <1>2 DEF Waits, Quiet
  <2> QED BY <1>1, <2>1, LeavesConfig
<1>3. CASE a.playing # None /\ Ended /\ LiveFinish(a, TakeJobOn(shared, "App"))
  BY <1>3, LiveFinishStep
<1>4. CASE /\ app' = [a EXCEPT !.restore = FALSE]
           /\ screen' = ShowSlot(config.slot)
           /\ UNCHANGED shared
           /\ Quiet
  <2> DEFINE b == [a EXCEPT !.restore = FALSE]
  <2>1. b \in AppType /\ b.fetching = a.fetching /\ b.playing = a.playing /\ b.slot = a.slot
    BY DEF AppType
  <2>2. AppWaits(shared, b)
    BY <2>1 DEF AppWaits
  <2>3. /\ app' = b /\ shared' = shared /\ config' = config
        /\ screen' \in Photos \cup {Motion, None}
    BY <1>4, ShownType DEF Quiet
  <2> HIDE DEF b
  <2> QED BY <1>1, <2>1, <2>2, <2>3, LeavesConfig
<1>5. CASE ~a.fetching /\ StartLive([a EXCEPT !.manual = FALSE], shared, 0, screen)
  <2> DEFINE b == [a EXCEPT !.manual = FALSE]
  <2>1. b \in AppType /\ ~b.fetching
    BY <1>5 DEF AppType
  <2>2. 0 \in 0 .. LiveFrames
    BY CountsAssumption
  <2> HIDE DEF b
  <2>3. StartLive(b, shared, 0, screen)
    BY <1>5 DEF b
  <2> QED BY <1>1, <2>1, <2>2, <2>3, StartLiveStep
<1>6. CASE a.fetching /\ Ended /\ Finish(a)
  BY <1>6, FinishStep
<1>7. CASE a.playing = None /\ StartFetch(a)
  BY <1>7, StartFetchStep
<1>8. CASE a.playing # None
  <2>1. IF Ended THEN LiveFinish(a, TakeJobOn(shared, "App")) ELSE Waits(a)
    BY <1>8 DEF Branches
  <2> QED BY <1>2, <1>3, <1>8, <2>1
<1>9. CASE a.playing = None /\ a.restore /\ restoreDue
  BY <1>4, <1>9 DEF Branches
<1>10. CASE a.playing = None /\ ~(a.restore /\ restoreDue)
  <2>1. \/ ~a.fetching /\ StartLive([a EXCEPT !.manual = FALSE], shared, 0, screen)
        \/ a.fetching /\ Ended /\ Finish(a)
        \/ StartFetch(a)
        \/ Waits(a)
    BY <1>10 DEF Branches
  <2> QED BY <1>2, <1>5, <1>6, <1>7, <1>10, <2>1
<1> QED BY <1>8, <1>9, <1>10

(* The frame of the app. *)
LEMMA FrameUpdateLeaves ==
  ASSUME PhotoInv, NEW restoreDue, NEW pollDue, FrameUpdate(restoreDue, pollDue)
  PROVE  Left /\ events' \in 0 .. MaxEvents /\ running' = "frame"
<1>1. PICK held \in BOOLEAN, pressed \in BOOLEAN :
        /\ pressed => PlayPressed
        /\ events' = IF pressed THEN events + 1 ELSE events
        /\ Branches([app EXCEPT !.force = @ \/ held, !.manual = @ \/ pressed],
                    restoreDue, pollDue)
  BY DEF FrameUpdate
<1> DEFINE a == [app EXCEPT !.force = @ \/ held, !.manual = @ \/ pressed]
<1>2. /\ a \in AppType
      /\ a.fetching = app.fetching /\ a.playing = app.playing /\ a.slot = app.slot
  <2>1. app \in AppType
    BY DEF PhotoInv, TypeOK, AppType
  <2> QED BY <2>1 DEF AppType
<1> HIDE DEF a
<1>3. AppWaits(shared, a)
  BY <1>2 DEF PhotoInv, FrameUpdate, AppWaits
<1>4. Left
  BY <1>1, <1>2, <1>3, BranchStep DEF a
<1>5. events' \in 0 .. MaxEvents
  BY <1>1, CountsAssumption DEF PhotoInv, PlayPressed
<1> QED BY <1>4, <1>5 DEF FrameUpdate

(* The app is opened or closed, another one is on screen, or none. *)
LEMMA ElsewhereStep ==
  ASSUME PhotoInv, ShellUpdate, UNCHANGED events,
         \/ MenuClear
         \/ (OnEnter \/ OnExit \/ OtherApp \/ NothingForApp) /\ UNCHANGED slots
  PROVE  PhotoInv'
<1>1. /\ UNCHANGED <<wifi, failures, page, serving, incoming, heartbeat, newest>>
      /\ turn' = "agent"
  BY DEF ShellUpdate
<1>2. /\ shared \in SharedType /\ LanesOK(shared)
      /\ app \in AppType /\ config \in ConfigType
      /\ slots \in [Slots -> Photos \cup {None}]
      /\ events \in 0 .. MaxEvents
      /\ running \in {"menu", "frame", "other"} /\ screen \in Photos \cup {Motion, None}
      /\ heartbeat \in BOOLEAN
      /\ Home \in Servers
  BY NetTypes, HomeAssumption DEF PhotoInv, TypeOK, AppType, ConfigType
<1>3. Forgets(config', slots')
  <2>1. CASE MenuClear
    BY <2>1, ClearForgets DEF MenuClear
  <2>2. CASE (OnEnter \/ OnExit \/ OtherApp \/ NothingForApp) /\ UNCHANGED slots
    <3>1. config' = config
      BY <2>2 DEF OnEnter, OnExit, OtherApp, NothingForApp, Quiet
    <3> QED BY <2>2, <3>1, ConfigTypes
  <2> QED BY <2>1, <2>2
<1>4. config' \in ConfigType /\ slots' \in [Slots -> Photos \cup {None}]
  BY <1>3 DEF Forgets
<1>5. CASE /\ shared' \in {shared, RequestConnect(shared)}
           /\ app' \in AppType
           /\ running' \in {"menu", "frame", "other"}
           /\ screen' \in Photos \cup {Motion, None}
           /\ running' = "frame" => AppWaits(shared, app')
           /\ running' # "frame" => app'.playing = None
  <2>1. /\ shared' \in SharedType
        /\ shared'.requests = shared.requests /\ shared'.jobs = shared.jobs
    BY <1>2, <1>5, QuietCalls
  <2>2. /\ LanesOK(shared')
        /\ LaneHolds(shared') = LaneHolds(shared)
        /\ \A r : Underway(shared', r) <=> Underway(shared, r)
    BY <1>2, <2>1, LanesKept
  <2>3. running' = "frame" => AppWaits(shared', app')
    BY <1>5, <2>1, <2>2 DEF AppWaits
  <2>4. /\ SlotIsFree(shared', config', slots') /\ AnswerIsStored(shared', slots')
        /\ config'.stamp # None /\ slots'[config'.slot] # None =>
             slots'[config'.slot].time = config'.stamp
    BY <1>3, <2>1, <2>2, ForgetKeeps
  <2> QED BY <1>1, <1>2, <1>4, <1>5, <2>1, <2>2, <2>3, <2>4, FrameStep
<1>6. CASE /\ running = "other"
           /\ FetchAccepted(shared, "App")
           /\ \E r \in Others : shared' = FetchOn(shared, "App", OtherRequest(r))
           /\ UNCHANGED <<running, app, screen, slots, config>>
  <2>1. PICK w \in Others : shared' = FetchOn(shared, "App", OtherRequest(w))
    BY <1>6
  <2> DEFINE r == OtherRequest(w)
  <2>2. r \in AppRequests /\ r.kind = "other"
    BY RequestKinds
  <2> HIDE DEF r
  <2>3. /\ shared' \in SharedType /\ LanesOK(shared') /\ shared'.jobs["App"] = Pending
        /\ \A q : Underway(shared', q) => q = r
    BY <1>2, <1>6, <2>1, <2>2, FetchOnApp DEF FetchAccepted, r
  <2>4. SlotIsFree(shared', config, slots) /\ AnswerIsStored(shared', slots)
    BY <2>2, <2>3, JobStates DEF SlotIsFree, AnswerIsStored
  <2>5. config.stamp # None /\ slots[config.slot] # None =>
          slots[config.slot].time = config.stamp
    BY DEF PhotoInv, StampOfPhoto
  <2>6. app.playing = None /\ running' # "frame"
    BY <1>6 DEF PhotoInv
  <2> QED BY <1>1, <1>2, <1>6, <2>3, <2>4, <2>5, <2>6, FrameStep
<1>7. CASE /\ running = "other"
           /\ Ended
           /\ shared' = TakeJobOn(shared, "App")
           /\ UNCHANGED <<running, app, screen, slots, config>>
  <2>1. Ready(shared')
    BY <1>7, AppTook DEF Ended
  <2>2. config.stamp # None /\ slots[config.slot] # None =>
          slots[config.slot].time = config.stamp
    BY DEF PhotoInv, StampOfPhoto
  <2>3. app.playing = None /\ running' # "frame"
    BY <1>7 DEF PhotoInv
  <2> QED BY <1>1, <1>2, <1>7, <2>1, <2>2, <2>3, FrameStep DEF Ready
<1>8. CASE MenuClear \/ NothingForApp
  <2>1. UNCHANGED <<running, shared, app, screen>>
    BY <1>8 DEF MenuClear, NothingForApp
  <2>2. /\ running = "frame" => AppWaits(shared, app)
        /\ running # "frame" => app.playing = None
    BY DEF PhotoInv
  <2> QED BY <1>2, <1>5, <2>1, <2>2
<1>9. CASE OnEnter
  <2>1. /\ running' = "frame" /\ shared' = RequestConnect(shared)
        /\ app' = [app EXCEPT !.onScreen = (slots[config.slot] # None),
                              !.fetching = FALSE,
                              !.force = ~(slots[config.slot] # None)]
        /\ screen' = slots[config.slot]
        /\ app.playing = None
    BY <1>9 DEF OnEnter, Entered, PhotoInv
  <2>2. app' \in AppType /\ ~app'.fetching /\ app'.playing = None
    BY <1>2, <2>1 DEF AppType
  <2>3. screen' \in Photos \cup {Motion, None}
    BY <1>2, <2>1 DEF ConfigType
  <2>4. AppWaits(shared, app')
    BY <2>2 DEF AppWaits
  <2> QED BY <1>5, <2>1, <2>2, <2>3, <2>4
<1>10. CASE OnExit
  <2>1. /\ running' = "menu" /\ shared' = shared /\ screen' = None
        /\ app' = [app EXCEPT !.playing = None, !.restore = FALSE]
    BY <1>10 DEF OnExit
  <2>2. app' \in AppType /\ app'.playing = None
    BY <1>2, <2>1 DEF AppType
  <2> QED BY <1>5, <2>1, <2>2
<1>11. CASE OtherApp /\ UNCHANGED slots
  <2>1. UNCHANGED <<app, screen, config>>
    BY <1>11 DEF OtherApp, Quiet
  <2>2. CASE running = "menu" /\ running' = "other" /\ shared' = RequestConnect(shared)
    BY <1>2, <1>5, <2>1, <2>2 DEF PhotoInv
  <2>3. CASE running = "other" /\ running' = "menu" /\ UNCHANGED shared
    BY <1>2, <1>5, <2>1, <2>3 DEF PhotoInv
  <2> QED BY <1>6, <1>7, <1>11, <2>1, <2>2, <2>3 DEF OtherApp
<1> QED BY <1>8, <1>9, <1>10, <1>11

LEMMA ShellStep == ASSUME PhotoInv, ShellUpdate PROVE PhotoInv'
<1>1. CASE \E restoreDue, pollDue \in BOOLEAN :
             FrameUpdate(restoreDue, pollDue) /\ UNCHANGED slots
  <2>1. Left /\ events' \in 0 .. MaxEvents /\ running' = "frame" /\ UNCHANGED slots
    BY <1>1, FrameUpdateLeaves
  <2>2. /\ UNCHANGED <<wifi, failures, page, serving, incoming, heartbeat, newest>>
        /\ turn' = "agent"
    BY DEF ShellUpdate
  <2>3. heartbeat \in BOOLEAN /\ slots \in [Slots -> Photos \cup {None}]
    BY DEF PhotoInv, TypeOK
  <2> QED BY <2>1, <2>2, <2>3, FrameStep DEF Left
<1>2. CASE ~\E restoreDue, pollDue \in BOOLEAN :
             FrameUpdate(restoreDue, pollDue) /\ UNCHANGED slots
  BY <1>2, ElsewhereStep DEF ShellUpdate
<1> QED BY <1>1, <1>2

LEMMA PowerCutStep == ASSUME PhotoInv, PowerCut PROVE PhotoInv'
<1>1. /\ config \in ConfigType /\ config.server \in Servers /\ config.slot \in Slots
      /\ newest \in [Servers -> 0 .. MaxEvents] /\ events \in 0 .. MaxEvents
      /\ slots \in [Slots -> Photos \cup {None}]
  BY DEF PhotoInv, TypeOK, ConfigType
<1>2. /\ slots' \in [Slots -> Photos \cup {None}]
      /\ \A s \in Slots : slots'[s] \in {slots[s], None}
  BY <1>1 DEF PowerCut, Erased
<1>3. /\ shared' = NewShared(config.server, TRUE) /\ wifi' = "asleep" /\ failures' = 0
      /\ page' = None /\ serving' = None /\ incoming' = None /\ turn' = "agent"
      /\ heartbeat' = FALSE /\ running' = "menu" /\ app' = NewApp /\ screen' = None
      /\ UNCHANGED <<config, newest, events>>
  BY DEF PowerCut, bounds
<1>4. StampOfPhoto'
  BY <1>1, <1>2, <1>3 DEF PhotoInv, StampOfPhoto
<1>5. shared' \in SharedType
      /\ \A lane \in Lanes : shared'.requests[lane] = None /\ shared'.jobs[lane] = Idle
  BY <1>1, <1>3, NewDevice
<1>6. NetTypeOK'
  <2>1. shared' \in SharedType' /\ 0 \in 0 .. MaxJoinFailures
    BY <1>5, CountsAssumption DEF SharedType
  <2> QED BY <1>3, <2>1 DEF NetTypeOK, SharedType, AllRequests
<1>7. app' \in AppType /\ app'.playing = None
  BY <1>3, NewAppType
<1>8. TypeOK'
  BY <1>1, <1>2, <1>3, <1>6, <1>7 DEF TypeOK, AppType, ConfigType
<1>9. TaskOK'
  BY <1>3 DEF TaskOK, AttemptsLeft
<1>10. "App" \in Lanes /\ "System" \in Lanes
  BY DEF Lanes
<1>11. LanesOK(shared)'
  BY <1>3, <1>5, <1>10, JobStates DEF LanesOK
<1>12. SlotIsFree(shared, config, slots)'
  BY <1>3, <1>5, <1>10, NoneIsNothing DEF SlotIsFree, Underway, AllRequests
<1>13. AnswerIsStored(shared, slots)'
  BY <1>5, <1>10, JobStates DEF AnswerIsStored
<1> QED BY <1>1, <1>3, <1>4, <1>7, <1>8, <1>9, <1>11, <1>12, <1>13 DEF PhotoInv

-----------------------------------------------------------------------------
LEMMA PhotoStep == PhotoInv /\ [Next]_vars => PhotoInv'
<1> SUFFICES ASSUME PhotoInv, [Next]_vars PROVE PhotoInv'
  OBVIOUS
<1>1. CASE AgentUpdate
  BY <1>1, AgentStep
<1>2. CASE ShellUpdate
  BY <1>2, ShellStep
<1>3. CASE WifiProgress \/ WifiLinkLost
  BY <1>3, WifiStep
<1>4. CASE PhotoComes
  BY <1>4, ComesStep
<1>5. CASE \E live \in {0, LiveFrames} : PhotoComplete(live)
  BY <1>5, CompleteStep
<1>6. CASE \/ \E live \in {0, LiveFrames} : NotModified(live)
           \/ OtherReply
           \/ \E c \in Commands \cup {None} : HeartbeatReply(c)
  BY <1>6, ReplyStep
<1>7. CASE \E s \in Servers : Upload(s)
  BY <1>7, UploadStep
<1>8. CASE PowerCut
  BY <1>8, PowerCutStep
<1>9. CASE UNCHANGED vars
  <2>1. UNCHANGED <<shared, wifi, failures, page, serving, incoming, slots, config, turn,
                    heartbeat, running, app, screen, newest, events>>
    BY <1>9 DEF vars, network, bounds
  <2>2. TypeOK'
    BY <2>1 DEF PhotoInv, TypeOK, NetTypeOK
  <2>3. TaskOK' /\ LanesOK(shared)' /\ SlotIsFree(shared, config, slots)'
        /\ AnswerIsStored(shared, slots)' /\ StampOfPhoto'
    BY <2>1 DEF PhotoInv, TaskOK, AttemptsLeft, LanesOK, SlotIsFree, Underway,
                AnswerIsStored, StampOfPhoto
  <2>4. /\ running' = "frame" => AppWaits(shared, app)'
        /\ running' # "frame" => app'.playing = None
    BY <2>1 DEF PhotoInv, AppWaits, LaneHolds
  <2> QED BY <2>1, <2>2, <2>3, <2>4 DEF PhotoInv
<1> QED BY <1>1, <1>2, <1>3, <1>4, <1>5, <1>6, <1>7, <1>8, <1>9 DEF Next

(* The step that takes the photo in use away. *)
Takes == slots[config.slot] # None /\ slots'[config'.slot] = None

LEMMA KeepStep == PhotoInv /\ [Next]_vars => (Takes => ClearUnderWay)
<1> SUFFICES ASSUME PhotoInv, [Next]_vars, Takes PROVE ClearUnderWay
  OBVIOUS
<1>1. /\ config \in ConfigType /\ config.slot \in Slots
      /\ slots \in [Slots -> Photos \cup {None}]
  BY DEF PhotoInv, TypeOK, ConfigType
<1>2. ~(UNCHANGED <<slots, config>>)
  BY DEF Takes
<1>3. CASE AgentUpdate
  <2> DEFINE job == shared.jobs["System"]
             command == IF job = Failed THEN None ELSE job.reply.command
             taken == TakeJobOn(shared, "System")
  <2>1. /\ turn = "agent" /\ heartbeat
        /\ job \notin {Idle, Pending}
        /\ RunCommand(command, taken)
    BY <1>2, <1>3 DEF AgentUpdate, HeartbeatEnds, HeartbeatStarts, NothingForAgent
  <2>2. ASSUME NEW server \in Servers PROVE ~MoveTo(server, taken)
    <3>1. [Forgotten EXCEPT !.server = server].slot = config.slot
      BY <1>1 DEF Forgotten, ConfigType
    <3> HIDE DEF taken
    <3> QED BY <3>1 DEF MoveTo, Saves, Takes
  <2>3. ~(Saves(Forgotten) /\ UNCHANGED slots)
    <3>1. Forgotten.slot = config.slot
      BY <1>1 DEF Forgotten, ConfigType
    <3> HIDE DEF Forgotten
    <3> QED BY <3>1 DEF Saves, Takes
  <2>4. ~(Quiet /\ UNCHANGED slots)
    BY <1>2 DEF Quiet
  <2> HIDE DEF command, taken
  <2>5. command = "clear"
    BY <2>1, <2>2, <2>3, <2>4 DEF RunCommand
  <2>6. job # Failed /\ job.reply.command = "clear"
    BY <2>5, NoneIsNothing DEF command
  <2> QED BY <2>1, <2>6 DEF ClearUnderWay
<1>4. CASE ShellUpdate
  <2>1. CASE \E restoreDue, pollDue \in BOOLEAN :
               FrameUpdate(restoreDue, pollDue) /\ UNCHANGED slots
    <3>1. config' = config \/ slots[config'.slot] # None
      BY <2>1, FrameUpdateLeaves DEF Left
    <3> QED BY <1>2, <2>1, <3>1 DEF Takes
  <2>2. CASE MenuClear
    BY <1>4, <2>2 DEF ShellUpdate, MenuClear, ClearUnderWay
  <2>3. CASE (OnEnter \/ OnExit \/ OtherApp \/ NothingForApp) /\ UNCHANGED slots
    <3>1. UNCHANGED config
      BY <2>3 DEF OnEnter, OnExit, OtherApp, NothingForApp, Quiet
    <3> QED BY <1>2, <2>3, <3>1
  <2> QED BY <1>4, <2>1, <2>2, <2>3 DEF ShellUpdate
<1>5. CASE \/ WifiProgress \/ WifiLinkLost \/ OtherReply
           \/ \E live \in {0, LiveFrames} : NotModified(live)
           \/ \E c \in Commands \cup {None} : HeartbeatReply(c)
           \/ \E s \in Servers : Upload(s)
  BY <1>2, <1>5 DEF WifiProgress, WifiLinkLost, OtherReply, NotModified, HeartbeatReply,
                    Upload, Device
<1>6. CASE PhotoComes
  <2> DEFINE r == serving.request
  <2>1. /\ serving # None /\ r.kind = "photo" /\ UNCHANGED config
        /\ slots' = [slots EXCEPT ![r.slot] = None]
    BY <1>6 DEF PhotoComes, Serves, Device
  <2>2. r \in AllRequests
    BY <2>1, Served
  <2>3. r \in AppRequests
    BY <2>1, <2>2, RequestKinds DEF AllRequests
  <2>4. Underway(shared, r)
    BY <2>1, <2>3, Served
  <2>5. r.slot # config.slot
    BY <2>1, <2>3, <2>4 DEF PhotoInv, SlotIsFree, Takes
  <2> QED BY <1>1, <2>1, <2>5 DEF Takes
<1>7. CASE \E live \in {0, LiveFrames} : PhotoComplete(live)
  <2>1. /\ incoming \in Photos /\ UNCHANGED config
        /\ slots' = [slots EXCEPT ![serving.request.slot] = incoming]
    BY <1>7 DEF PhotoComplete, Device, PhotoInv, TypeOK
  <2> QED BY <1>1, <2>1, NoneIsNothing DEF Takes
<1>8. CASE PowerCut
  BY <1>2, <1>8 DEF PowerCut
<1>9. CASE UNCHANGED vars
  BY <1>2, <1>9 DEF vars
<1> QED BY <1>3, <1>4, <1>5, <1>6, <1>7, <1>8, <1>9 DEF Next

-----------------------------------------------------------------------------
(* The invariant holds in every state of the device. *)
THEOREM PhotoInvariant == Spec => []PhotoInv
<1>1. Init => PhotoInv
  BY InitInv
<1>2. PhotoInv /\ [Next]_vars => PhotoInv'
  BY PhotoStep
<1> QED BY <1>1, <1>2, PTL DEF Spec

(* Every variable keeps its type (TypeOK). *)
THEOREM PhotoTypeCorrect == Spec => []TypeOK
<1>1. PhotoInv => TypeOK
  BY DEF PhotoInv
<1> QED BY <1>1, PhotoInvariant, PTL

(* While the app is on screen it takes no answer to a fetch of its own     *)
(* before it was last opened, or of another app, for the one it waits for, *)
(* and it never waits on an idle lane (photo_frame.rs update, on_enter).   *)
THEOREM AnswersAreOwn == Spec => []OwnAnswer
<1>1. PhotoInv => OwnAnswer
  <2>1. LaneRequest = LaneHolds(shared)
    BY DEF LaneRequest, LaneHolds
  <2> HIDE DEF LaneRequest
  <2> QED BY <2>1 DEF PhotoInv, AppWaits, OwnAnswer
<1> QED BY <1>1, PhotoInvariant, PTL

(* The stored timestamp is that of the photo in the current slot, whatever *)
(* failed, was cleared or interrupted (photo_frame.rs finish, clear_cache).*)
THEOREM StampsMatch == Spec => []StampOfPhoto
<1>1. PhotoInv => StampOfPhoto
  BY DEF PhotoInv
<1> QED BY <1>1, PhotoInvariant, PTL

(* Nothing but a command to clear the cache takes the current photo away:  *)
(* two slots alternate, and a fetch never empties the one in use           *)
(* (photo_frame.rs start_fetch, finish).                                   *)
THEOREM PhotoStays == Spec => PhotoIsKept
<1>1. PhotoInv /\ [Next]_vars =>
        [slots[config.slot] # None /\ slots'[config'.slot] = None => ClearUnderWay]_vars
  BY KeepStep DEF Takes
<1> QED BY <1>1, PhotoInvariant, PTL DEF Spec, PhotoIsKept

-----------------------------------------------------------------------------
(* The frame on the lanes: it implements AtomicLanes.                      *)

Owing == [lane \in Lanes |-> OwedOn(lane)]

LaneChange ==
  FrameLanes!Next \/ FrameLanes!Restart \/ UNCHANGED FrameLanes!vars

(* What agent and app may make of a lane: nothing, an answer taken, or a   *)
(* request made where none is pending.                                     *)
Kept(t) == t.requests = shared.requests /\ t.jobs = shared.jobs

AnswerGone(l, t) ==
  /\ shared.jobs[l] # Pending
  /\ t.requests = shared.requests
  /\ t.jobs = [shared.jobs EXCEPT ![l] = Idle]

RequestMade(l, t) ==
  /\ shared.jobs[l] # Pending
  /\ \E r \in AllRequests :
       /\ t.requests = [shared.requests EXCEPT ![l] = r]
       /\ t.jobs = [shared.jobs EXCEPT ![l] = Pending]

OnLane(l, t) == Kept(t) \/ AnswerGone(l, t) \/ RequestMade(l, t)

LEMMA LanesRest ==
  ASSUME Kept(shared'), serving' = serving
  PROVE  UNCHANGED FrameLanes!vars
  BY DEF Kept, FrameLanes!vars, OwedOn

LEMMA ShowsOnLane ==
  ASSUME PhotoInv, NEW l \in Lanes, OnLane(l, shared'), serving' = serving
  PROVE  LaneChange
<1>1. shared \in SharedType /\ LanesOK(shared)
  BY NetTypes DEF PhotoInv, TypeOK
<1>2. CASE Kept(shared')
  BY <1>2, LanesRest DEF LaneChange
<1>3. CASE AnswerGone(l, shared')
  <2>1. Owing' = Owing
    BY <1>3 DEF AnswerGone, Owing, OwedOn
  <2>2. FrameLanes!TakeAnswer(l)
    BY <1>3, <2>1 DEF AnswerGone, Owing, FrameLanes!TakeAnswer, FrameLanes!Pending,
                      FrameLanes!Idle, Pending, Idle
  <2> QED BY <2>2 DEF LaneChange, FrameLanes!Next, FrameLanes!LaneStep
<1>4. CASE RequestMade(l, shared')
  <2>1. PICK r \in AllRequests :
          /\ shared'.requests = [shared.requests EXCEPT ![l] = r]
          /\ shared'.jobs = [shared.jobs EXCEPT ![l] = Pending]
    BY <1>4 DEF RequestMade
  <2>2. shared.jobs[l] # Pending /\ ~(serving # None /\ serving.lane = l)
    BY <1>1, <1>4, FreeLane DEF RequestMade
  <2>3. Owing' = [Owing EXCEPT ![l] = r]
    <3>1. ASSUME NEW k \in Lanes PROVE OwedOn(k)' = IF k = l THEN r ELSE OwedOn(k)
      BY <1>1, <2>1, <2>2 DEF OwedOn, SharedType
    <3> QED BY <3>1 DEF Owing
  <2>4. FrameLanes!Ask(l, r)
    BY <2>1, <2>2, <2>3 DEF FrameLanes!Ask, Owing, FrameLanes!Pending, Pending
  <2> QED BY <2>4 DEF LaneChange, FrameLanes!Next, FrameLanes!LaneStep, AllRequests
<1> QED BY <1>2, <1>3, <1>4 DEF OnLane

LEMMA TakenOnLane ==
  ASSUME NEW l \in Lanes, shared \in SharedType, shared.jobs[l] # Pending
  PROVE  AnswerGone(l, TakeJobOn(shared, l)) /\ TakeJobOn(shared, l) \in SharedType
<1>1. TakeJobOn(shared, l).jobs = [shared.jobs EXCEPT ![l] = Idle]
  BY DEF TakeJobOn, SharedType
<1>2. TakeJobOn(shared, l).requests = shared.requests
  BY DEF TakeJobOn, SharedType
<1>3. TakeJobOn(shared, l) \in SharedType
  BY JobStates DEF TakeJobOn, SharedType
<1> QED BY <1>1, <1>2, <1>3 DEF AnswerGone

LEMMA FetchOnLane ==
  ASSUME NEW l \in Lanes, NEW s \in SharedType, Kept(s) \/ AnswerGone(l, s), s.jobs[l] # Pending,
         NEW r \in AllRequests
  PROVE  RequestMade(l, FetchOn(s, l, r))
<1>1. /\ FetchOn(s, l, r).requests = [s.requests EXCEPT ![l] = r]
      /\ FetchOn(s, l, r).jobs = [s.jobs EXCEPT ![l] = Pending]
  BY DEF FetchOn, SharedType
<1>2. CASE Kept(s)
  BY <1>1, <1>2 DEF Kept, RequestMade
<1>3. CASE AnswerGone(l, s)
  <2>1. [s.jobs EXCEPT ![l] = Pending] = [shared.jobs EXCEPT ![l] = Pending]
    BY <1>3 DEF AnswerGone
  <2> QED BY <1>1, <1>3, <2>1 DEF AnswerGone, RequestMade
<1> QED BY <1>2, <1>3

(* The agent's heartbeats, on the system lane.                             *)
LEMMA AgentShowsOnLane ==
  ASSUME PhotoInv, AgentUpdate PROVE OnLane("System", shared')
<1>1. shared \in SharedType /\ LanesOK(shared) /\ "System" \in Lanes
  BY NetTypes DEF PhotoInv, TypeOK, Lanes
<1>2. CASE HeartbeatEnds
  <2> DEFINE job == shared.jobs["System"]
             command == IF job = Failed THEN None ELSE job.reply.command
             taken == TakeJobOn(shared, "System")
  <2>1. RunCommand(command, taken) /\ job \notin {Idle, Pending}
    BY <1>2 DEF HeartbeatEnds
  <2>2. job # Failed => job.reply \in Replies /\ job.reply.request = Heartbeat
    BY <1>1, <2>1, JobStates DEF SharedType, LanesOK
  <2>3. command \in Commands \cup {None}
    BY <2>2, ReplyTypes
  <2>4. AnswerGone("System", taken) /\ taken \in SharedType
    BY <1>1, <2>1, TakenOnLane
  <2> HIDE DEF command, taken
  <2>5. shared'.requests = taken.requests /\ shared'.jobs = taken.jobs
    BY <2>1, <2>3, <2>4, CommandForgets
  <2> QED BY <2>4, <2>5 DEF AnswerGone, OnLane
<1>3. CASE HeartbeatStarts
  <2>1. shared.jobs["System"] # Pending /\ shared' = FetchOn(shared, "System", Heartbeat)
    BY <1>3 DEF HeartbeatStarts, FetchAccepted
  <2>2. Kept(shared) /\ Heartbeat \in AllRequests
    BY DEF Kept, AllRequests
  <2> QED BY <1>1, <2>1, <2>2, FetchOnLane DEF OnLane
<1>4. CASE NothingForAgent
  BY <1>4 DEF NothingForAgent, Kept, OnLane
<1> QED BY <1>2, <1>3, <1>4 DEF AgentUpdate

(* What the app may have done with its lane before it starts a fetch.      *)
Free(s) == s \in SharedType /\ (Kept(s) \/ AnswerGone("App", s))

LEMMA LiveShowsOnLane ==
  ASSUME PhotoInv, NEW s, Free(s), NEW a, NEW n \in 0 .. LiveFrames, NEW shown,
         StartLive(a, s, n, shown)
  PROVE  OnLane("App", shared')
<1>1. CASE FetchAccepted(s, "App")
  <2> DEFINE r == LiveRequest(config.server, n)
  <2>1. r \in AllRequests
    BY RequestKinds DEF PhotoInv, TypeOK, AllRequests
  <2>2. shared' = FetchOn(s, "App", r) /\ s.jobs["App"] # Pending
    BY <1>1 DEF StartLive, FetchAccepted
  <2> HIDE DEF r
  <2> QED BY <2>1, <2>2, FetchOnLane DEF Free, OnLane, Lanes
<1>2. CASE ~FetchAccepted(s, "App")
  BY <1>2 DEF StartLive, LiveStop, Free, OnLane
<1> QED BY <1>1, <1>2

LEMMA BranchShowsOnLane ==
  ASSUME PhotoInv, NEW a \in AppType, NEW restoreDue, NEW pollDue,
         Branches(a, restoreDue, pollDue)
  PROVE  OnLane("App", shared')
<1> DEFINE taken == TakeJobOn(shared, "App")
<1>1. /\ shared \in SharedType /\ "App" \in Lanes /\ Free(shared)
      /\ config.server \in Servers /\ config.slot \in Slots /\ config.stamp \in Stamps
  BY NetTypes DEF PhotoInv, TypeOK, Lanes, Free, Kept
<1>2. ASSUME Ended PROVE AnswerGone("App", taken) /\ Free(taken)
  <2>1. shared.jobs["App"] # Pending
    BY <1>2 DEF Ended
  <2> QED BY <1>1, <2>1, TakenOnLane DEF Free
<1> HIDE DEF taken
<1>3. CASE shared' = shared
  BY <1>3 DEF Kept, OnLane
<1>4. CASE Ended /\ shared' = taken
  BY <1>2, <1>4 DEF OnLane
<1>5. CASE a.playing # None /\ Ended /\ LiveFinish(a, taken)
  <2>1. CASE shared' = taken
    BY <1>4, <1>5, <2>1
  <2>2. CASE a.playing + 1 < a.frames /\ StartLive(a, taken, a.playing + 1, Motion)
    <3>1. a.playing + 1 \in 0 .. LiveFrames
      BY <1>5, <2>2, CountsAssumption DEF AppType
    <3> QED BY <1>2, <1>5, <2>2, <3>1, LiveShowsOnLane
  <2> QED BY <1>5, <2>1, <2>2 DEF LiveFinish, LiveStop
<1>6. CASE StartLive([a EXCEPT !.manual = FALSE], shared, 0, screen)
  <2>1. 0 \in 0 .. LiveFrames
    BY CountsAssumption
  <2> QED BY <1>1, <1>6, <2>1, LiveShowsOnLane
<1>7. CASE StartFetch(a)
  <2>1. CASE FetchAccepted(shared, "App")
    <3> DEFINE since == IF a.force THEN None ELSE config.stamp
               r == PhotoRequest(config.server, since, FetchSlot)
    <3>1. since \in Stamps /\ FetchSlot \in Slots
      BY <1>1 DEF Stamps, FetchSlot, Slots
    <3>2. r \in AllRequests
      <4> HIDE DEF since
      <4> QED BY <1>1, <3>1, RequestKinds DEF AllRequests
    <3>3. shared' = FetchOn(shared, "App", r) /\ shared.jobs["App"] # Pending
      BY <1>7, <2>1 DEF StartFetch, FetchAccepted
    <3> HIDE DEF r
    <3> QED BY <1>1, <3>2, <3>3, FetchOnLane DEF Kept, OnLane
  <2>2. CASE ~FetchAccepted(shared, "App")
    BY <1>3, <1>7, <2>2 DEF StartFetch
  <2> QED BY <2>1, <2>2
<1>8. \/ shared' = shared
      \/ Ended /\ shared' = taken
      \/ a.playing # None /\ Ended /\ LiveFinish(a, taken)
      \/ StartLive([a EXCEPT !.manual = FALSE], shared, 0, screen)
      \/ StartFetch(a)
  <2>1. CASE a.playing # None
    BY <2>1 DEF Branches, Waits, taken
  <2>2. CASE a.playing = None /\ a.restore /\ restoreDue
    BY <2>2 DEF Branches
  <2>3. CASE a.playing = None /\ ~(a.restore /\ restoreDue)
    BY <2>3 DEF Branches, Waits, Finish, taken
  <2> QED BY <2>1, <2>2, <2>3
<1> QED BY <1>3, <1>4, <1>5, <1>6, <1>7, <1>8

LEMMA ShellShowsOnLane ==
  ASSUME PhotoInv, ShellUpdate PROVE OnLane("App", shared')
<1>1. shared \in SharedType /\ "App" \in Lanes
  BY NetTypes DEF PhotoInv, TypeOK, Lanes
<1>2. CASE \E restoreDue, pollDue \in BOOLEAN : FrameUpdate(restoreDue, pollDue)
  <2>1. PICK restoreDue \in BOOLEAN, pollDue \in BOOLEAN, held \in BOOLEAN, pressed \in BOOLEAN :
          Branches([app EXCEPT !.force = @ \/ held, !.manual = @ \/ pressed],
                   restoreDue, pollDue)
    BY <1>2 DEF FrameUpdate
  <2> DEFINE a == [app EXCEPT !.force = @ \/ held, !.manual = @ \/ pressed]
  <2>2. a \in AppType
    <3>1. app \in AppType
      BY DEF PhotoInv, TypeOK, AppType
    <3> QED BY <3>1 DEF AppType
  <2> HIDE DEF a
  <2> QED BY <2>1, <2>2, BranchShowsOnLane DEF a
<1>3. CASE UNCHANGED shared \/ shared' = RequestConnect(shared)
  BY <1>1, <1>3, QuietCalls DEF RequestConnect, SharedType, Kept, OnLane
<1>4. CASE FetchAccepted(shared, "App") /\ \E r \in Others : shared' = FetchOn(shared, "App", OtherRequest(r))
  <2>1. PICK w \in Others : shared' = FetchOn(shared, "App", OtherRequest(w))
    BY <1>4
  <2>2. OtherRequest(w) \in AllRequests
    BY RequestKinds DEF AllRequests
  <2> QED BY <1>1, <1>4, <2>1, <2>2, FetchOnLane DEF FetchAccepted, Kept, OnLane
<1>5. CASE Ended /\ shared' = TakeJobOn(shared, "App")
  BY <1>1, <1>5, TakenOnLane DEF Ended, OnLane
<1> QED BY <1>2, <1>3, <1>4, <1>5
        DEF ShellUpdate, MenuClear, OnEnter, OnExit, OtherApp, NothingForApp

(* The Wi-Fi task takes a request, which stays owed, or ends its fetch     *)
(* with a failure or an answer of the server to that request.              *)
LEMMA TakeShowsOnLanes ==
  ASSUME PhotoInv, NEW lane \in Lanes, Take(lane)
  PROVE  LaneChange
<1>1. /\ shared \in SharedType
      /\ serving = None /\ shared.requests[lane] \in AllRequests
  BY NetTypes DEF PhotoInv, TypeOK, TaskOK, Take, SharedType
<1>2. /\ serving' = [lane |-> lane, request |-> shared.requests[lane]]
      /\ shared'.jobs = shared.jobs
      /\ shared'.requests = [shared.requests EXCEPT ![lane] = None]
  BY <1>1 DEF Take, SharedType
<1>3. serving' # None
  BY <1>1, <1>2, NoneIsNothing
<1>4. \A l \in Lanes : OwedOn(l)' = OwedOn(l)
  BY <1>1, <1>2, <1>3 DEF OwedOn, SharedType
<1>5. UNCHANGED FrameLanes!vars
  BY <1>2, <1>4 DEF FrameLanes!vars
<1> QED BY <1>5 DEF LaneChange

LEMMA EndShowsOnLanes ==
  ASSUME PhotoInv, NEW end, EndFetch(end),
         \/ end = Failed
         \/ \E a \in Replies : end = Done(a) /\ a.request = serving.request
  PROVE  LaneChange
<1> DEFINE lane == serving.lane
<1>1. /\ serving # None /\ lane \in Lanes /\ serving.request \in AllRequests
      /\ shared \in SharedType /\ LanesOK(shared)
  BY NetTypes, Served DEF PhotoInv, TypeOK, TaskOK, EndFetch
<1>2. /\ serving' = None
      /\ shared'.jobs = [shared.jobs EXCEPT ![lane] = end]
      /\ shared'.requests = shared.requests
  BY <1>1 DEF EndFetch, SharedType
<1>3. shared.requests[lane] = None
  BY <1>1 DEF LanesOK
<1>4. Owing[lane] = serving.request
  BY <1>1 DEF Owing, OwedOn
<1>5. Owing' = [Owing EXCEPT ![lane] = None]
  <2>1. ASSUME NEW l \in Lanes PROVE OwedOn(l)' = IF l = lane THEN None ELSE OwedOn(l)
    BY <1>1, <1>2, <1>3 DEF OwedOn
  <2> QED BY <2>1 DEF Owing
<1>6. \/ end = Failed
      \/ \E a \in [r \in AppRequests \cup {Heartbeat} |-> {a \in Replies : a.request = r}][Owing[lane]] :
           end = Done(a)
  BY <1>1, <1>4 DEF AllRequests
<1>7. FrameLanes!Answer(lane)
  BY <1>1, <1>2, <1>4, <1>5, <1>6
  DEF FrameLanes!Answer, Owing, FrameLanes!Failed, FrameLanes!Done, Failed, Done, AllRequests
<1> QED BY <1>1, <1>7 DEF LaneChange, FrameLanes!Next, FrameLanes!LaneStep

LEMMA TaskShowsOnLanes ==
  ASSUME PhotoInv, WifiProgress \/ WifiLinkLost
  PROVE  LaneChange
<1>1. shared \in SharedType /\ Kept(shared)
  BY NetTypes DEF PhotoInv, TypeOK, Kept
<1>2. CASE WaitConnect \/ NoFirmware \/ OpenHotspot \/ Joined \/ JoinRefused
             \/ GotLease \/ NoLease \/ (PortalTimeout /\ ~shared.ssid)
  <2>1. UNCHANGED <<shared, serving>>
    BY <1>2 DEF WaitConnect, NoFirmware, OpenHotspot, Joined, JoinRefused,
                GotLease, NoLease, PortalTimeout
  <2> QED BY <1>1, <2>1, LanesRest DEF LaneChange
<1>3. CASE StartRadio \/ Pause \/ Retry \/ LinkLost \/ PortalBreak
             \/ (PortalTimeout /\ shared.ssid)
  <2>1. UNCHANGED serving /\ \E fails : TopOfLoop(shared, fails)
    BY <1>3 DEF StartRadio, Pause, Retry, LinkLost, PortalBreak, PortalTimeout
  <2>2. Kept(shared')
    BY <1>1, <2>1 DEF TopOfLoop, SharedType, Kept
  <2> QED BY <2>1, <2>2, LanesRest DEF LaneChange
<1>4. CASE \E lane \in Lanes : Take(lane)
  BY <1>4, TakeShowsOnLanes
<1>5. CASE EndFetch(Failed)
  BY <1>5, EndShowsOnLanes
<1> QED BY <1>2, <1>3, <1>4, <1>5 DEF WifiProgress, WifiLinkLost, Progress

(* The server answers the request it was sent. *)
LEMMA ServerShowsOnLanes ==
  ASSUME PhotoInv,
         \/ \E live \in {0, LiveFrames} : PhotoComplete(live) \/ NotModified(live)
         \/ OtherReply
         \/ \E c \in Commands \cup {None} : HeartbeatReply(c)
  PROVE  LaneChange
<1> DEFINE r == serving.request
<1>1. serving # None /\ r \in AllRequests
  <2>1. serving # None
    BY DEF PhotoComplete, NotModified, OtherReply, HeartbeatReply, Serves, EndFetch, PhotoInv, TaskOK
  <2> QED BY <2>1, Served
<1>2. r.kind # "heartbeat" => r \in AppRequests
  BY <1>1, RequestKinds DEF AllRequests
<1>3. r.kind = "heartbeat" => r = Heartbeat
  BY <1>1, RequestKinds DEF AllRequests
<1>4. ASSUME NEW live \in {0, LiveFrames}, PhotoComplete(live) PROVE LaneChange
  <2> DEFINE a == [request |-> r, status |-> 200, stamp |-> incoming.time, live |-> live]
  <2>1. /\ r.kind = "photo" /\ incoming \in Photos
        /\ EndFetch(Done(a))
    BY <1>4 DEF PhotoComplete, PhotoInv, TypeOK, TaskOK
  <2>2. incoming.time \in Stamps
    BY <2>1 DEF Photos, Stamps
  <2>3. a \in Replies /\ a.request = r
    BY <1>2, <2>1, <2>2 DEF Replies
  <2> QED BY <2>1, <2>3, EndShowsOnLanes
<1>5. ASSUME NEW live \in {0, LiveFrames}, NotModified(live) PROVE LaneChange
  <2> DEFINE a == [request |-> r, status |-> 304, stamp |-> None, live |-> live]
  <2>1. r.kind = "photo" /\ EndFetch(Done(a))
    BY <1>5 DEF NotModified, Serves
  <2>2. a \in Replies /\ a.request = r
    BY <1>2, <2>1 DEF Replies, Stamps
  <2> QED BY <2>1, <2>2, EndShowsOnLanes
<1>6. CASE OtherReply
  <2> DEFINE a == [request |-> r, status |-> 200, stamp |-> None, live |-> 0]
  <2>1. r.kind \in {"live", "other"} /\ EndFetch(Done(a))
    BY <1>6 DEF OtherReply, Serves
  <2>2. a \in Replies /\ a.request = r
    BY <1>2, <2>1 DEF Replies, Stamps
  <2> QED BY <2>1, <2>2, EndShowsOnLanes
<1>7. ASSUME NEW c \in Commands \cup {None}, HeartbeatReply(c) PROVE LaneChange
  <2> DEFINE a == [request |-> Heartbeat, command |-> c]
  <2>1. r = Heartbeat /\ EndFetch(Done(a))
    BY <1>3, <1>7 DEF HeartbeatReply, Serves
  <2>2. a \in Replies /\ a.request = r
    BY <2>1 DEF Replies
  <2> QED BY <2>1, <2>2, EndShowsOnLanes
<1> QED BY <1>4, <1>5, <1>6, <1>7

(* A device that starts has empty lanes. *)
LEMMA EmptyLanes ==
  ASSUME NEW server, shared = NewShared(server, TRUE), serving = None
  PROVE  FrameLanes!Init
<1>1. shared.jobs = [l \in Lanes |-> Idle] /\ shared.requests = [l \in Lanes |-> None]
  BY DEF NewShared
<1>2. Owing = [l \in Lanes |-> None]
  BY <1>1 DEF Owing, OwedOn
<1> QED BY <1>1, <1>2 DEF FrameLanes!Init, Owing, FrameLanes!Idle, Idle

LEMMA CutShowsOnLanes == ASSUME PowerCut PROVE LaneChange
<1>1. /\ shared'.jobs = [l \in Lanes |-> Idle]
      /\ shared'.requests = [l \in Lanes |-> None]
      /\ serving' = None
  BY DEF PowerCut, NewShared
<1>2. Owing' = [l \in Lanes |-> None]
  BY <1>1 DEF Owing, OwedOn
<1> QED BY <1>1, <1>2 DEF LaneChange, FrameLanes!Restart, Owing, FrameLanes!Idle, Idle

(* The frame, the agent's heartbeats and the other app implement           *)
(* AtomicLanes: an answer taken from a lane is one to the request last     *)
(* made on it, across apps that close, commands, lost links and power cuts *)
(* (net/mod.rs job_on, take_job_on, fetch_on and their callers).           *)
THEOREM FrameOnLanes == Spec => LanesAreShared
<1>1. Init => FrameLanes!Init
  BY EmptyLanes DEF Init
<1>2. PhotoInv /\ [Next]_vars => [FrameLanes!Next \/ FrameLanes!Restart]_(FrameLanes!vars)
  <2> SUFFICES ASSUME PhotoInv, [Next]_vars PROVE LaneChange
    BY DEF LaneChange
  <2>1. CASE AgentUpdate
    <3>1. serving' = serving /\ "System" \in Lanes
      BY <2>1 DEF AgentUpdate, Lanes
    <3> QED BY <2>1, <3>1, AgentShowsOnLane, ShowsOnLane
  <2>2. CASE ShellUpdate
    <3>1. serving' = serving /\ "App" \in Lanes
      BY <2>2 DEF ShellUpdate, Lanes
    <3> QED BY <2>2, <3>1, ShellShowsOnLane, ShowsOnLane
  <2>3. CASE WifiProgress \/ WifiLinkLost
    BY <2>3, TaskShowsOnLanes
  <2>4. CASE \/ \E live \in {0, LiveFrames} : PhotoComplete(live) \/ NotModified(live)
             \/ OtherReply
             \/ \E c \in Commands \cup {None} : HeartbeatReply(c)
    BY <2>4, ServerShowsOnLanes
  <2>5. CASE PhotoComes \/ (\E s \in Servers : Upload(s)) \/ UNCHANGED vars
    <3>1. UNCHANGED <<shared, serving>>
      BY <2>5 DEF PhotoComes, Upload, vars, network
    <3> QED BY <3>1, LanesRest DEF Kept, LaneChange
  <2>6. CASE PowerCut
    BY <2>6, CutShowsOnLanes
  <2> QED BY <2>1, <2>2, <2>3, <2>4, <2>5, <2>6 DEF Next
<1> QED BY <1>1, <1>2, PhotoInvariant, PTL
        DEF Spec, FrameLanes!RestartingSpec, LanesAreShared

-----------------------------------------------------------------------------
(* The cache: it implements AtomicBlobs.                                   *)

(* A photo that comes in finds its slot empty. *)
SlotAwaits == incoming # None => slots[serving.request.slot] = None

CacheChange ==
  Cache!Next \/ (\E S \in SUBSET Slots : Cache!Clear(S)) \/ UNCHANGED slots

(* Any of the slots may be emptied. *)
LEMMA Emptied ==
  ASSUME slots \in [Slots -> Photos \cup {None}], slots' \in [Slots -> Photos \cup {None}],
         \A s \in Slots : slots'[s] \in {slots[s], None}
  PROVE  CacheChange
<1> DEFINE S == {s \in Slots : slots'[s] = None}
<1>1. slots' = [s \in Slots |-> IF s \in S THEN None ELSE slots[s]]
  OBVIOUS
<1>2. S \in SUBSET Slots
  OBVIOUS
<1> HIDE DEF S
<1> QED BY <1>1, <1>2 DEF Cache!Clear, CacheChange

LEMMA AgentForgets ==
  ASSUME PhotoInv, AgentUpdate PROVE Forgets(config', slots')
<1>1. shared \in SharedType /\ LanesOK(shared) /\ "System" \in Lanes
  BY NetTypes DEF PhotoInv, TypeOK, Lanes
<1>2. CASE HeartbeatEnds
  <2> DEFINE job == shared.jobs["System"]
             command == IF job = Failed THEN None ELSE job.reply.command
             taken == TakeJobOn(shared, "System")
  <2>1. RunCommand(command, taken) /\ job \notin {Idle, Pending}
    BY <1>2 DEF HeartbeatEnds
  <2>2. job # Failed => job.reply \in Replies /\ job.reply.request = Heartbeat
    BY <1>1, <2>1, JobStates DEF SharedType, LanesOK
  <2>3. command \in Commands \cup {None}
    BY <2>2, ReplyTypes
  <2>4. taken \in SharedType
    BY <1>1, <2>1, TakenOnLane
  <2> HIDE DEF command, taken
  <2> QED BY <2>1, <2>3, <2>4, CommandForgets
<1>3. CASE HeartbeatStarts \/ NothingForAgent
  <2>1. UNCHANGED <<slots, config>>
    BY <1>3 DEF HeartbeatStarts, NothingForAgent
  <2> QED BY <2>1, ConfigTypes
<1> QED BY <1>2, <1>3 DEF AgentUpdate

(* A fetch under way goes on until it ends, with what it streams. *)
LEMMA WifiKeepsServing ==
  ASSUME PhotoInv, WifiProgress
  PROVE  incoming' = None \/ UNCHANGED <<incoming, serving>>
<1>1. CASE serving' = None
  BY <1>1 DEF WifiProgress
<1>2. CASE serving' # None /\ ~UNCHANGED serving
  <2>1. \E lane \in Lanes : Take(lane)
    BY <1>2 DEF WifiProgress, Progress, WaitConnect, NoFirmware, StartRadio, OpenHotspot,
                PortalTimeout, Pause, Joined, JoinRefused, GotLease, NoLease, Retry,
                PortalBreak, EndFetch
  <2>2. incoming = None
    BY <2>1 DEF Take, PhotoInv, TaskOK
  <2> QED BY <1>2, <2>2 DEF WifiProgress
<1>3. CASE serving' # None /\ UNCHANGED serving
  BY <1>3 DEF WifiProgress
<1> QED BY <1>1, <1>2, <1>3

LEMMA CacheStep ==
  ASSUME PhotoInv, SlotAwaits, [Next]_vars
  PROVE  SlotAwaits' /\ CacheChange
<1>1. slots \in [Slots -> Photos \cup {None}] /\ slots' \in [Slots -> Photos \cup {None}]
  <2>1. TypeOK /\ TypeOK'
    BY PhotoStep DEF PhotoInv
  <2> QED BY <2>1 DEF TypeOK
<1>2. incoming # None => /\ serving # None /\ serving.request \in AllRequests
                         /\ serving.request.kind = "photo"
                         /\ serving.request.slot \in Slots
  <2> SUFFICES ASSUME incoming # None
               PROVE  /\ serving # None /\ serving.request \in AllRequests
                      /\ serving.request.kind = "photo"
                      /\ serving.request.slot \in Slots
    OBVIOUS
  <2>1. serving # None /\ serving.request.kind = "photo"
    BY DEF PhotoInv, TaskOK
  <2>2. serving.request \in AllRequests
    BY <2>1, Served
  <2> QED BY <2>1, <2>2, RequestKinds DEF AllRequests
<1>3. ASSUME \A s \in Slots : slots'[s] \in {slots[s], None},
             incoming' = None \/ UNCHANGED <<incoming, serving>>
      PROVE  SlotAwaits' /\ CacheChange
  BY <1>1, <1>2, <1>3, Emptied DEF SlotAwaits
<1>4. CASE AgentUpdate
  <2>1. UNCHANGED <<incoming, serving>>
    BY <1>4 DEF AgentUpdate
  <2>2. Forgets(config', slots')
    BY <1>4, AgentForgets
  <2> QED BY <1>3, <2>1, <2>2 DEF Forgets
<1>5. CASE ShellUpdate
  <2>1. UNCHANGED <<incoming, serving>>
    BY <1>5 DEF ShellUpdate
  <2>2. MenuClear \/ UNCHANGED slots
    BY <1>5 DEF ShellUpdate
  <2>3. MenuClear => Forgets(config', slots')
    BY ClearForgets DEF MenuClear
  <2> QED BY <1>3, <2>1, <2>2, <2>3 DEF Forgets
<1>6. CASE WifiProgress
  <2>1. UNCHANGED slots
    BY <1>6 DEF WifiProgress
  <2>2. incoming' = None \/ UNCHANGED <<incoming, serving>>
    BY <1>6, WifiKeepsServing
  <2> QED BY <1>3, <2>1, <2>2
<1>7. CASE WifiLinkLost
  BY <1>3, <1>7 DEF WifiLinkLost, LinkLost
<1>8. CASE PhotoComes
  <2>1. /\ serving # None /\ serving.request.kind = "photo" /\ UNCHANGED serving
        /\ slots' = [slots EXCEPT ![serving.request.slot] = None]
    BY <1>8 DEF PhotoComes, Serves, network
  <2>2. serving.request \in AllRequests
    BY <2>1, Served
  <2>3. serving.request.slot \in Slots
    BY <2>1, <2>2, RequestKinds DEF AllRequests
  <2>4. SlotAwaits'
    BY <1>1, <2>1, <2>3 DEF SlotAwaits
  <2> QED BY <1>1, <2>1, <2>4, Emptied
<1>9. CASE \E live \in {0, LiveFrames} : PhotoComplete(live)
  <2>1. /\ incoming # None /\ incoming' = None
        /\ slots' = [slots EXCEPT ![serving.request.slot] = incoming]
    BY <1>9 DEF PhotoComplete
  <2>2. incoming \in Photos
    BY <2>1 DEF PhotoInv, TypeOK
  <2>3. Cache!Store(serving.request.slot, incoming)
    BY <2>1 DEF SlotAwaits, Cache!Store
  <2> QED BY <1>2, <2>1, <2>2, <2>3 DEF SlotAwaits, CacheChange, Cache!Next
<1>10. CASE \/ \E live \in {0, LiveFrames} : NotModified(live)
            \/ OtherReply
            \/ \E c \in Commands \cup {None} : HeartbeatReply(c)
  <2>1. incoming' = None /\ UNCHANGED slots
    BY <1>10 DEF NotModified, OtherReply, HeartbeatReply, Serves
  <2> QED BY <1>3, <2>1
<1>11. CASE (\E s \in Servers : Upload(s)) \/ UNCHANGED vars
  <2>1. UNCHANGED <<incoming, serving, slots>>
    BY <1>11 DEF Upload, vars, network
  <2> QED BY <1>3, <2>1
<1>12. CASE PowerCut
  <2>1. incoming' = None /\ \A s \in Slots : slots'[s] \in {slots[s], None}
    BY <1>1, <1>12 DEF PowerCut, Erased
  <2> QED BY <1>3, <2>1
<1> QED BY <1>4, <1>5, <1>6, <1>7, <1>8, <1>9, <1>10, <1>11, <1>12 DEF Next

(* The cache implements AtomicBlobs, which the slots on the flash in turn  *)
(* implement (BlobSlotsProofs): a photo comes in one piece into a slot     *)
(* emptied for it, and goes in one piece, across failing fetches, commands *)
(* and power cuts (photo_frame.rs start_fetch, agent.rs clear_cache).      *)
THEOREM CacheRefinement == Spec => PhotosAreWhole
<1>1. Init => Cache!Init /\ SlotAwaits
  BY DEF Init, Cache!Init, SlotAwaits
<1>2. /\ PhotoInv /\ SlotAwaits /\ [Next]_vars => SlotAwaits'
      /\ PhotoInv /\ SlotAwaits /\ [Next]_vars =>
           [Cache!Next \/ \E S \in SUBSET Slots : Cache!Clear(S)]_slots
  BY CacheStep DEF CacheChange
<1> QED BY <1>1, <1>2, PhotoInvariant, PTL DEF Spec, Cache!ClearingSpec, PhotosAreWhole

=============================================================================
