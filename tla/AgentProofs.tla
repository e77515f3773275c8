---------------------------- MODULE AgentProofs -----------------------------
(***************************************************************************)
(* The agent with the network service and the shell's part of the frame,   *)
(* for all servers and names and any number of moves, restarts and failing *)
(* saves: it takes only the answer it waits for, the network task follows  *)
(* the stored settings, and unless the user edits the server on the setup  *)
(* page the device always has a proven server in use or to go back to.     *)
(***************************************************************************)
EXTENDS Agent, TLAPS

SharedType ==
  [ connectRequested : BOOLEAN,
    portalRequested : BOOLEAN,
    portalResult : Places \cup {None},
    ssid : BOOLEAN,
    target : Places,
    requests : [Lanes -> AgentRequests \cup {None}],
    jobs : [Lanes -> Jobs] ]

ConfigType ==
  [ server : Servers \cup {Blank}, name : Names \cup {Blank},
    prevServer : Servers \cup {Blank}, prevName : Names \cup {Blank},
    trial : BOOLEAN, ssid : BOOLEAN ]

(* What the inductive invariant says of the struct Shared, as a predicate  *)
(* of any s, so that it can be followed through the calls of one step; j   *)
(* is the job the agent waits for.                                         *)

(* The system lane owes exactly what the agent waits for; the app lane is  *)
(* not used.                                                               *)
LaneOK(s, j) ==
  /\ j = "none" <=> s.jobs["System"] = Idle
  /\ s.jobs["System"] = Pending <=> s.requests["System"] # None \/ serving # None
  /\ s.requests["System"] # None => s.requests["System"].job = j /\ serving = None
  /\ serving # None => serving.lane = "System" /\ serving.request.job = j
  /\ s.jobs["System"].kind = "done" =>
       /\ s.jobs["System"].reply.request.job = j
       /\ MayAnswer(s.jobs["System"].reply.request, s.jobs["System"].reply.ok)
  /\ s.requests["App"] = None

(* The page is there while the task shows it, and what it saved waits for  *)
(* the next frame before the task gets anywhere.                           *)
WifiOK ==
  /\ serving # None <=> wifi = "fetch"
  /\ page # None <=> wifi = "page"
  /\ shared.portalResult # None => wifi \in {"hotspot", "joining"}
  /\ AttemptsLeft

(* TargetIsConfig, for the middle of a frame too: there only what the page *)
(* saved and the shell has not stored yet may differ.                      *)
Follows(s, c) ==
  s.target = IF s.portalResult # None THEN s.portalResult ELSE Place(c)

TargetFollows ==
  turn = "agent" \/ shared.portalResult = None => Follows(shared, config)

(* The inductive invariant. *)
AgentInv ==
  /\ TypeOK
  /\ WifiOK
  /\ LaneOK(shared, job)
  /\ TargetFollows

(* The request the agent waits for an answer to: queued, under way or      *)
(* answered.                                                               *)
Owes(s, q) ==
  \/ s.requests["System"] = q
  \/ serving # None /\ serving.request = q
  \/ s.jobs["System"].kind = "done" /\ s.jobs["System"].reply.request = q

(* A trial is ended only by the server on trial: the heartbeat awaited in  *)
(* a trial was made for the settings on trial, and settings that the page  *)
(* brings back are those that it was made for.                             *)
Fresh(s, c, q) ==
  /\ c.trial => q.to = Place(c)
  /\ page \notin {None, Place(c)} => q.to = page
  /\ s.portalResult \notin {None, Place(c)} => q.to = s.portalResult

AsksTheTrial(s, j, c) ==
  j = "heartbeat" => \A q \in AgentRequests : Owes(s, q) => Fresh(s, c, q)

(* A server and a name that answered are not blank.                        *)
ProvenPlace == proven \in [server : Servers, name : Names]

(* What else is inductive when the user leaves the settings on the page.   *)
TrialInv ==
  /\ ProvenPlace
  /\ NeverStranded
  /\ AsksTheTrial(shared, job, config)

-----------------------------------------------------------------------------
(* The states of a job are different values.                               *)
LEMMA JobStates ==
  /\ Idle # Pending /\ Failed # Pending /\ Failed # Idle
  /\ \A a : Done(a) \notin {Idle, Pending, Failed}
  /\ \A a : Done(a).kind = "done" /\ Done(a).reply = a
  /\ {Idle, Pending, Failed} \subseteq Jobs
  /\ \A a \in AgentAnswers : Done(a) \in Jobs
  /\ "done" \notin {Idle.kind, Pending.kind, Failed.kind}
  /\ \A j \in Jobs : \/ j \in {Idle, Pending, Failed}
                     \/ j.kind = "done" /\ j.reply \in AgentAnswers
<1>1. Idle # Pending /\ Failed # Pending /\ Failed # Idle
  BY DEF Idle, Pending, Failed
<1>2. \A a : Done(a) \notin {Idle, Pending, Failed}
  <2>1. ASSUME NEW a PROVE Done(a).kind \notin {Idle.kind, Pending.kind, Failed.kind}
    BY DEF Done, Idle, Pending, Failed
  <2> QED BY <2>1
<1>3. \A a : Done(a).kind = "done" /\ Done(a).reply = a
  BY DEF Done
<1>4. {Idle, Pending, Failed} \subseteq Jobs
  BY DEF Jobs
<1>5. \A a \in AgentAnswers : Done(a) \in Jobs
  BY DEF Done, Jobs
<1>6. "done" \notin {Idle.kind, Pending.kind, Failed.kind}
  BY DEF Idle, Pending, Failed
<1>7. \A j \in Jobs : \/ j \in {Idle, Pending, Failed}
                      \/ j.kind = "done" /\ j.reply \in AgentAnswers
  BY DEF Jobs
<1> QED BY <1>1, <1>2, <1>3, <1>4, <1>5, <1>6, <1>7

(* The parts of NetTypeOK. *)
LEMMA NetTypes ==
  NetTypeOK <=>
    /\ shared \in SharedType
    /\ wifi \in {"asleep", "starting", "dead", "hotspot", "page", "pause",
                 "joining", "dhcp", "retry", "serve", "fetch"}
    /\ failures \in 0 .. MaxJoinFailures
    /\ page \in Places \cup {None}
    /\ serving \in [lane : Lanes, request : AgentRequests] \cup {None}
BY DEF NetTypeOK, SharedType

(* The sentinel is no place, no request and nothing served. *)
LEMMA NoneIsNothing ==
  /\ None \notin Places
  /\ None \notin AgentRequests
  /\ None \notin [lane : Lanes, request : AgentRequests]
BY NothingAssumption DEF Lanes

-----------------------------------------------------------------------------
(* The config record. *)

LEMMA PlaceType ==
  ASSUME NEW c \in ConfigType PROVE Place(c) \in Places
BY DEF ConfigType, Place, Places

LEMMA MoveType ==
  ASSUME NEW c \in ConfigType, NEW place \in Places
  PROVE  /\ Move(c, place) \in ConfigType
         /\ Place(Move(c, place)) = place
         /\ Move(c, place).trial
         /\ Move(c, place).prevServer = IF c.trial THEN c.prevServer ELSE c.server
         /\ Move(c, place).prevName = IF c.trial THEN c.prevName ELSE c.name
BY DEF ConfigType, Move, Place, Places

LEMMA RevertType ==
  ASSUME NEW c \in ConfigType
  PROVE  /\ Revert(c) \in ConfigType
         /\ ~Revert(c).trial
BY DEF ConfigType, Revert

LEMMA ConfirmType ==
  ASSUME NEW c \in ConfigType
  PROVE  /\ Confirm(c) \in ConfigType
         /\ ~Confirm(c).trial
         /\ Place(Confirm(c)) = Place(c)
BY DEF ConfigType, Confirm, Place

(* The settings a command asks for. *)
LEMMA MovedType ==
  ASSUME NEW c \in ConfigType, NEW command \in Commands,
         command.op \in {"server", "name"}
  PROVE  \E place \in Places : Moved(c, command) = Move(c, place)
<1>1. command.op = "server" => command.arg \in Servers \cup {Blank}
  BY DEF Commands
<1>2. command.op # "server" => command.arg \in Names \cup {Blank}
  BY DEF Commands
<1>3. CASE command.op = "server"
  <2>1. [server |-> command.arg, name |-> c.name] \in Places
    BY <1>1, <1>3 DEF ConfigType, Places
  <2> QED BY <2>1, <1>3 DEF Moved
<1>4. CASE command.op # "server"
  <2>1. [server |-> c.server, name |-> command.arg] \in Places
    BY <1>2, <1>4 DEF ConfigType, Places
  <2> QED BY <2>1, <1>4 DEF Moved
<1> QED BY <1>3, <1>4

-----------------------------------------------------------------------------
(* The calls of the network service. *)

(* A call that leaves queue and jobs alone. *)
LEMMA LaneKept ==
  ASSUME NEW s \in SharedType, NEW t \in SharedType, NEW j,
         LaneOK(s, j), t.requests = s.requests, t.jobs = s.jobs
  PROVE  LaneOK(t, j)
BY DEF LaneOK

LEMMA QuietCalls ==
  ASSUME NEW s \in SharedType, NEW place \in Places
  PROVE  /\ RequestConnect(s) \in SharedType
         /\ RequestPortal(s) \in SharedType
         /\ TakePortalResult(s) \in SharedType
         /\ ApplyConfig(s, place) \in SharedType
         /\ \A t \in {RequestConnect(s), RequestPortal(s), TakePortalResult(s),
                      ApplyConfig(s, place)} :
              t.requests = s.requests /\ t.jobs = s.jobs
         /\ \A t \in {RequestConnect(s), RequestPortal(s)} :
              t.target = s.target /\ t.portalResult = s.portalResult
         /\ ApplyConfig(s, place).target = place
         /\ ApplyConfig(s, place).portalResult = s.portalResult
         /\ TakePortalResult(s).portalResult = None
BY DEF SharedType, RequestConnect, RequestPortal, TakePortalResult, ApplyConfig

(* An answer is handed out: the lane is free. *)
LEMMA TakeAnswer ==
  ASSUME NEW s \in SharedType, NEW j, LaneOK(s, j), s.jobs["System"] # Pending
  PROVE  /\ TakeJobOn(s, "System") \in SharedType
         /\ LaneOK(TakeJobOn(s, "System"), "none")
         /\ TakeJobOn(s, "System").target = s.target
         /\ TakeJobOn(s, "System").portalResult = s.portalResult
<1> DEFINE t == TakeJobOn(s, "System")
<1>1. /\ t \in SharedType /\ t.requests = s.requests
      /\ t.target = s.target /\ t.portalResult = s.portalResult
  BY JobStates DEF TakeJobOn, SharedType
<1>2. t.jobs["System"] = Idle
  BY DEF TakeJobOn, SharedType, Lanes
<1>3. LaneOK(t, "none")
  BY <1>1, <1>2, JobStates DEF LaneOK
<1> QED BY <1>1, <1>3

(* A request is queued on the free lane. *)
LEMMA QueueRequest ==
  ASSUME NEW s \in SharedType, LaneOK(s, "none"), NEW r \in AgentRequests
  PROVE  /\ FetchOn(s, "System", r) \in SharedType
         /\ LaneOK(FetchOn(s, "System", r), r.job)
         /\ FetchOn(s, "System", r).target = s.target
         /\ FetchOn(s, "System", r).portalResult = s.portalResult
         /\ FetchOn(s, "System", r).requests["System"] = r
         /\ FetchOn(s, "System", r).jobs["System"] = Pending
<1> DEFINE t == FetchOn(s, "System", r)
<1>1. /\ t \in SharedType
      /\ t.target = s.target /\ t.portalResult = s.portalResult
  BY JobStates DEF FetchOn, SharedType
<1>2. /\ t.jobs["System"] = Pending
      /\ t.requests["System"] = r
      /\ t.requests["App"] = s.requests["App"]
  BY DEF FetchOn, SharedType, Lanes
<1>3. serving = None /\ r.job # "none" /\ r # None
  BY NoneIsNothing, JobStates DEF LaneOK, AgentRequests, JobKinds
<1>4. LaneOK(t, r.job)
  BY <1>2, <1>3, JobStates DEF LaneOK
<1> QED BY <1>1, <1>2, <1>4

-----------------------------------------------------------------------------
(* The start. *)
LEMMA AgentInit == Init => AgentInv /\ TrialInv
<1> SUFFICES ASSUME Init PROVE AgentInv /\ TrialInv
  OBVIOUS
<1>1. PICK ssid \in BOOLEAN : config = Settled(Home, ssid) /\ shared = NewShared(Home, ssid)
  BY DEF Init
<1>2. Home \in [server : Servers, name : Names] /\ Home \in Places
  BY HomeAssumption DEF Places
<1>3. /\ config \in ConfigType /\ ~config.trial
      /\ Place(config) = [server |-> Home.server, name |-> Home.name]
  BY <1>1, <1>2 DEF Settled, ConfigType, Place
<1>4. Place(config) = Home
  BY <1>2, <1>3
<1>5. shared \in SharedType
  BY <1>1, <1>2, JobStates DEF NewShared, SharedType, Lanes
<1>6. /\ shared.portalResult = None /\ shared.target = Home
      /\ \A l \in Lanes : shared.requests[l] = None /\ shared.jobs[l] = Idle
  BY <1>1 DEF NewShared
<1>7. NetTypeOK
  BY <1>5, NetTypes, JoinFailuresAssumption DEF Init
<1>8. TypeOK
  BY <1>2, <1>3, <1>7 DEF Init, TypeOK, ConfigType
<1>9. WifiOK
  BY <1>6 DEF Init, WifiOK, AttemptsLeft
<1>10. LaneOK(shared, job)
  BY <1>6, JobStates DEF Init, LaneOK, Lanes
<1>11. TargetFollows
  BY <1>4, <1>6 DEF TargetFollows, Follows
<1>12. TrialInv
  BY <1>2, <1>3, <1>4 DEF Init, TrialInv, ProvenPlace, NeverStranded, AsksTheTrial
<1> QED BY <1>8, <1>9, <1>10, <1>11, <1>12 DEF AgentInv

-----------------------------------------------------------------------------
(* The Wi-Fi task and the world. *)

(* What a step of the Wi-Fi task has to keep. *)
LEMMA TaskStep ==
  ASSUME AgentInv, UNCHANGED deviceVars,
         NetTypeOK', WifiOK', LaneOK(shared, job)', Follows(shared, config)'
  PROVE  AgentInv'
BY DEF AgentInv, TypeOK, deviceVars, TargetFollows

(* A step that leaves Shared and the fetch alone. *)
LEMMA IdleStep ==
  ASSUME AgentInv, Awaiting, UNCHANGED deviceVars, UNCHANGED <<shared, serving>>,
         wifi \notin {"fetch"},
         wifi' \in {"starting", "dead", "page", "pause", "joining", "dhcp",
                    "retry", "serve"},
         failures' \in 0 .. MaxJoinFailures,
         wifi' \in {"joining", "dhcp"} => failures' < MaxJoinFailures,
         page' = IF wifi' = "page" THEN shared.target ELSE None
  PROVE  AgentInv'
<1>1. page' \in Places \cup {None} /\ (page' # None <=> wifi' = "page")
  BY NetTypes, NoneIsNothing DEF AgentInv, TypeOK, SharedType
<1>2. NetTypeOK'
  BY <1>1, NetTypes DEF AgentInv, TypeOK, SharedType, NetTypeOK
<1>3. WifiOK'
  BY <1>1 DEF AgentInv, WifiOK, Awaiting, AttemptsLeft
<1>4. LaneOK(shared, job)'
  BY DEF AgentInv, LaneOK, deviceVars
<1>5. Follows(shared, config)'
  BY DEF AgentInv, TargetFollows, Follows, Awaiting, deviceVars
<1> QED BY <1>2, <1>3, <1>4, <1>5, TaskStep

(* The head of the loop, with the settings of the page or the old ones. *)
LEMMA LoopHead ==
  ASSUME AgentInv, Awaiting, UNCHANGED deviceVars,
         NEW s \in SharedType, NEW fails \in 0 .. MaxJoinFailures,
         s.requests = shared.requests, s.jobs = shared.jobs, Follows(s, config),
         wifi # "fetch", page' = None, UNCHANGED serving,
         TopOfLoop(s, fails)
  PROVE  AgentInv'
<1>1. /\ shared' \in SharedType
      /\ shared'.requests = shared.requests /\ shared'.jobs = shared.jobs
      /\ shared'.target = s.target /\ shared'.portalResult = s.portalResult
  BY DEF TopOfLoop, SharedType
<1>2. /\ wifi' \in {"hotspot", "joining"}
      /\ failures' = fails
      /\ wifi' = "joining" => fails < MaxJoinFailures
  BY JoinFailuresAssumption DEF TopOfLoop, PortalWanted
<1>3. NetTypeOK'
  <2>1. SharedType' = SharedType
    BY DEF SharedType
  <2> QED BY <1>1, <1>2, NetTypes DEF AgentInv, TypeOK, SharedType, NetTypeOK
<1>4. WifiOK'
  BY <1>2 DEF AgentInv, WifiOK, AttemptsLeft
<1>5. LaneOK(shared, job)'
  BY <1>1 DEF AgentInv, LaneOK, deviceVars
<1>6. Follows(shared, config)'
  BY <1>1 DEF Follows, deviceVars
<1> QED BY <1>3, <1>4, <1>5, <1>6, TaskStep

(* The task takes the request of the system lane. *)
LEMMA TakeStep ==
  ASSUME AgentInv, Awaiting, UNCHANGED deviceVars, NEW lane \in Lanes, Take(lane)
  PROVE  /\ AgentInv'
         /\ shared'.jobs = shared.jobs
         /\ \A q \in AgentRequests : Owes(shared, q)' => Owes(shared, q)
<1>1. lane = "System" /\ serving = None
  BY DEF AgentInv, LaneOK, Take, Lanes
<1>2. /\ shared' \in SharedType
      /\ shared'.requests["System"] = None
      /\ shared'.requests["App"] = None
      /\ shared'.jobs = shared.jobs
      /\ shared'.target = shared.target /\ shared'.portalResult = shared.portalResult
  BY <1>1, NetTypes DEF AgentInv, TypeOK, LaneOK, Take, SharedType, Lanes
<1>3. /\ serving' = [lane |-> "System", request |-> shared.requests["System"]]
      /\ shared.requests["System"] \in AgentRequests
      /\ shared.requests["System"] # None
  BY <1>1, NetTypes DEF AgentInv, TypeOK, Take, SharedType, Lanes
<1>4. serving' \in [lane : Lanes, request : AgentRequests] /\ serving' # None
  BY <1>3, NoneIsNothing DEF Lanes
<1>5. NetTypeOK'
  BY <1>2, <1>4, NetTypes DEF AgentInv, TypeOK, SharedType, NetTypeOK, Take
<1>6. WifiOK'
  BY <1>2, <1>4 DEF AgentInv, WifiOK, AttemptsLeft, Take
<1>7. LaneOK(shared, job)'
  BY <1>1, <1>2, <1>3, <1>4, JobStates DEF AgentInv, LaneOK, deviceVars
<1>8. Follows(shared, config)'
  BY <1>2 DEF AgentInv, TargetFollows, Follows, Awaiting, deviceVars
<1>9. \A q \in AgentRequests : Owes(shared, q)' => Owes(shared, q)
  BY <1>2, <1>3, NoneIsNothing DEF Owes
<1> QED BY <1>2, <1>5, <1>6, <1>7, <1>8, <1>9, TaskStep

(* What the server may answer is an answer, and to that request. *)
LEMMA AnswerType ==
  ASSUME NEW request \in AgentRequests, NEW answer \in AnswersTo(request)
  PROVE  /\ answer \in AgentAnswers
         /\ answer.request = request
         /\ MayAnswer(request, answer.ok)
<1>1. NoCommand \in Commands
  BY DEF NoCommand, Commands
<1>2. answer \in AgentAnswers
  BY <1>1 DEF AnswersTo, AgentAnswers
<1> QED BY <1>2 DEF AnswersTo

(* The fetch ends: the lane holds a failure or an answer to what was sent. *)
LEMMA FetchEnds ==
  ASSUME AgentInv, Awaiting, UNCHANGED deviceVars, NEW end, EndFetch(end),
         \/ end = Failed
         \/ \E answer \in AnswersTo(serving.request) : end = Done(answer)
  PROVE  /\ AgentInv'
         /\ \A q \in AgentRequests : Owes(shared, q)' => Owes(shared, q)
<1>1. /\ serving # None
      /\ serving.lane = "System"
      /\ serving.request \in AgentRequests
      /\ serving.request.job = job
  BY NetTypes DEF AgentInv, TypeOK, WifiOK, LaneOK, EndFetch
<1>2. /\ end \in Jobs \ {Idle, Pending}
      /\ end.kind = "done" =>
           /\ end.reply.request = serving.request
           /\ MayAnswer(end.reply.request, end.reply.ok)
  BY <1>1, AnswerType, JobStates
<1>3. /\ shared' \in SharedType
      /\ shared'.requests = shared.requests
      /\ shared'.jobs["System"] = end
      /\ shared'.target = shared.target /\ shared'.portalResult = shared.portalResult
  BY <1>1, <1>2, NetTypes DEF AgentInv, TypeOK, EndFetch, SharedType, Lanes
<1>4. serving' = None /\ wifi' = "serve" /\ page' = page /\ failures' = failures
  BY DEF EndFetch
<1>5. shared.requests["System"] = None /\ job # "none" /\ shared.requests["App"] = None
  BY <1>1, JobStates DEF AgentInv, LaneOK
<1>6. NetTypeOK'
  BY <1>3, <1>4, NetTypes DEF AgentInv, TypeOK, SharedType, NetTypeOK
<1>7. WifiOK'
  BY <1>3, <1>4 DEF AgentInv, WifiOK, AttemptsLeft, Awaiting, EndFetch
<1>8. LaneOK(shared, job)'
  BY <1>1, <1>2, <1>3, <1>4, <1>5 DEF AgentInv, LaneOK, deviceVars
<1>9. Follows(shared, config)'
  BY <1>3 DEF AgentInv, TargetFollows, Follows, Awaiting, deviceVars
<1>10. \A q \in AgentRequests : Owes(shared, q)' => Owes(shared, q)
  BY <1>1, <1>2, <1>3, <1>4 DEF Owes
<1> QED BY <1>6, <1>7, <1>8, <1>9, <1>10, TaskStep

(* The user saved the page. *)
LEMMA PageStep ==
  ASSUME AgentInv, Awaiting, UNCHANGED deviceVars, PageSaved
  PROVE  AgentInv'
<1>1. page \in Places
  BY NetTypes, NoneIsNothing DEF AgentInv, TypeOK, WifiOK, PageSaved
<1>2. PICK settings \in Places : SavePage(settings)
  BY <1>1 DEF PageSaved
<1> DEFINE s == [shared EXCEPT !.ssid = TRUE, !.target = settings,
                               !.portalResult = settings]
<1>3. /\ s \in SharedType
      /\ s.requests = shared.requests /\ s.jobs = shared.jobs
      /\ s.target = settings /\ s.portalResult = settings
  BY NetTypes DEF AgentInv, TypeOK, SharedType
<1>4. Follows(s, config)
  BY <1>3, NoneIsNothing DEF Follows
<1>5. /\ wifi = "page" /\ page' = None /\ UNCHANGED serving /\ TopOfLoop(s, 0)
  BY <1>2 DEF SavePage
<1>6. 0 \in 0 .. MaxJoinFailures
  BY JoinFailuresAssumption
<1> QED BY <1>3, <1>4, <1>5, <1>6, LoopHead

(* Every step of the task and the world. *)
LEMMA WifiStep ==
  ASSUME AgentInv, WifiProgress \/ WifiEvent PROVE AgentInv'
<1> USE DEF WifiProgress, WifiEvent
<1>1. Awaiting /\ UNCHANGED deviceVars
  OBVIOUS
<1>2. /\ shared \in SharedType /\ failures \in 0 .. MaxJoinFailures
      /\ Follows(shared, config)
      /\ wifi # "page" => page = None
      /\ wifi \in {"joining", "dhcp"} => failures < MaxJoinFailures
  BY <1>1, NetTypes
  DEF AgentInv, TypeOK, WifiOK, TargetFollows, Awaiting, AttemptsLeft
<1>3. 0 \in 0 .. MaxJoinFailures
  BY JoinFailuresAssumption
<1>4. CASE WaitConnect \/ NoFirmware \/ OpenHotspot \/ Joined \/ JoinRefused
             \/ GotLease \/ NoLease \/ (PortalTimeout /\ ~shared.ssid)
  <2>1. /\ UNCHANGED <<shared, serving>>
        /\ wifi \notin {"fetch"}
        /\ wifi' \in {"starting", "dead", "page", "pause", "joining", "dhcp",
                      "retry", "serve"}
    BY <1>4 DEF WaitConnect, NoFirmware, OpenHotspot, Joined, JoinRefused,
                GotLease, NoLease, PortalTimeout
  <2>2. /\ failures' \in 0 .. MaxJoinFailures
        /\ wifi' \in {"joining", "dhcp"} => failures' < MaxJoinFailures
    BY <1>2, <1>3, <1>4, JoinFailuresAssumption
    DEF WaitConnect, NoFirmware, OpenHotspot, Joined, JoinRefused,
        GotLease, NoLease, PortalTimeout
  <2>3. page' = IF wifi' = "page" THEN shared.target ELSE None
    BY <1>2, <1>4 DEF WaitConnect, NoFirmware, OpenHotspot, Joined, JoinRefused,
                      GotLease, NoLease, PortalTimeout
  <2> QED BY <1>1, <2>1, <2>2, <2>3, IdleStep
<1>5. CASE StartRadio \/ Pause \/ Retry \/ LinkLost \/ PortalBreak
             \/ (PortalTimeout /\ shared.ssid)
  <2>1. /\ wifi # "fetch" /\ UNCHANGED serving /\ page' = None
        /\ TopOfLoop(shared, 0) \/ TopOfLoop(shared, failures)
    BY <1>2, <1>5 DEF StartRadio, Pause, Retry, LinkLost, PortalBreak, PortalTimeout
  <2> QED BY <1>1, <1>2, <1>3, <2>1, LoopHead
<1>6. CASE \E lane \in Lanes : Take(lane)
  BY <1>1, <1>6, TakeStep
<1>7. CASE EndFetch(Failed)
  BY <1>1, <1>7, FetchEnds
<1>8. CASE Answered
  BY <1>1, <1>8, FetchEnds DEF Answered
<1>9. CASE PageSaved
  BY <1>1, <1>9, PageStep
<1>10. CASE WifiProgress
  BY <1>4, <1>5, <1>6, <1>7, <1>10 DEF Progress
<1>11. CASE WifiEvent
  BY <1>5, <1>8, <1>9, <1>11
<1> QED BY <1>10, <1>11

(* The task asks for nothing new, and the page brings back what it showed. *)
LEMMA TaskKeepsTrial ==
  ASSUME TrialInv, UNCHANGED deviceVars,
         \A q \in AgentRequests : Owes(shared, q)' => Owes(shared, q),
         page' \in {page, None, Place(config)},
         shared'.portalResult \in {shared.portalResult, page}
  PROVE  TrialInv'
<1>1. ProvenPlace' /\ NeverStranded'
  BY DEF TrialInv, ProvenPlace, NeverStranded, Place, deviceVars
<1>2. UNCHANGED <<config, job, Place(config)>>
  BY DEF deviceVars, Place
<1>3. ASSUME NEW q \in AgentRequests, Owes(shared, q)', job' = "heartbeat"
      PROVE  Fresh(shared, config, q)'
  <2>1. Fresh(shared, config, q)
    BY <1>2, <1>3 DEF TrialInv, AsksTheTrial
  <2> QED BY <1>2, <2>1 DEF Fresh
<1> QED BY <1>1, <1>3 DEF TrialInv, AsksTheTrial

LEMMA WifiTrialStep ==
  ASSUME AgentInv, TrialInv, ~PortalEdits, WifiProgress \/ WifiEvent
  PROVE  TrialInv'
<1> USE DEF WifiProgress, WifiEvent
<1>1. Awaiting /\ UNCHANGED deviceVars
  OBVIOUS
<1>2. shared.target = Place(config) /\ shared \in SharedType
  BY <1>1, NetTypes DEF AgentInv, TypeOK, TargetFollows, Follows, Awaiting
<1>3. CASE \/ WaitConnect \/ NoFirmware \/ OpenHotspot \/ Joined \/ JoinRefused
           \/ GotLease \/ NoLease \/ PortalTimeout
           \/ StartRadio \/ Pause \/ Retry \/ LinkLost \/ PortalBreak
  <2>1. /\ UNCHANGED serving
        /\ page' \in {page, None, Place(config)}
        /\ \/ UNCHANGED shared
           \/ shared' = [shared EXCEPT !.portalRequested = FALSE]
    BY <1>2, <1>3 DEF WaitConnect, NoFirmware, OpenHotspot, Joined, JoinRefused,
         GotLease, NoLease, PortalTimeout, StartRadio, Pause, Retry, LinkLost,
         PortalBreak, TopOfLoop
  <2>2. /\ shared'.requests = shared.requests /\ shared'.jobs = shared.jobs
        /\ shared'.portalResult = shared.portalResult
    BY <1>2, <2>1 DEF SharedType
  <2>3. \A q \in AgentRequests : Owes(shared, q)' => Owes(shared, q)
    BY <2>1, <2>2 DEF Owes
  <2> QED BY <1>1, <2>1, <2>2, <2>3, TaskKeepsTrial
<1>4. CASE \E lane \in Lanes : Take(lane)
  <2>1. /\ \A q \in AgentRequests : Owes(shared, q)' => Owes(shared, q)
        /\ page' = page /\ shared'.portalResult = shared.portalResult
    BY <1>1, <1>2, <1>4, TakeStep DEF Take, SharedType
  <2> QED BY <1>1, <2>1, TaskKeepsTrial
<1>5. CASE EndFetch(Failed) \/ Answered
  <2>1. PICK end : /\ EndFetch(end)
                   /\ \/ end = Failed
                      \/ \E answer \in AnswersTo(serving.request) : end = Done(answer)
    BY <1>5 DEF Answered
  <2>2. \A q \in AgentRequests : Owes(shared, q)' => Owes(shared, q)
    BY <1>1, <2>1, FetchEnds
  <2>3. page' = page /\ shared'.portalResult = shared.portalResult
    BY <1>2, <2>1 DEF EndFetch, SharedType
  <2> QED BY <1>1, <2>2, <2>3, TaskKeepsTrial
<1>6. CASE PageSaved
  <2>1. SavePage(page)
    BY <1>6 DEF PageSaved
  <2>2. /\ UNCHANGED serving /\ page' = None
        /\ shared'.requests = shared.requests /\ shared'.jobs = shared.jobs
        /\ shared'.portalResult = page
    BY <1>2, <2>1 DEF SavePage, TopOfLoop, SharedType
  <2>3. \A q \in AgentRequests : Owes(shared, q)' => Owes(shared, q)
    BY <2>2 DEF Owes
  <2> QED BY <1>1, <2>2, <2>3, TaskKeepsTrial
<1>7. CASE WifiProgress
  BY <1>3, <1>4, <1>5, <1>7 DEF Progress
<1>8. CASE WifiEvent
  BY <1>3, <1>5, <1>6, <1>8
<1> QED BY <1>7, <1>8

-----------------------------------------------------------------------------
(* A start of the device, from any stored config. *)
LEMMA RestartStep ==
  ASSUME AgentInv, NEW c \in ConfigType, Restart(c), proven' \in Places
  PROVE  AgentInv' /\ AsksTheTrial(shared, job, config)'
<1>1. Place(c) \in Places /\ c.ssid \in BOOLEAN
  BY PlaceType DEF ConfigType
<1>2. /\ shared' \in SharedType
      /\ shared'.portalResult = None /\ shared'.target = Place(c)
      /\ \A l \in Lanes : shared'.requests[l] = None /\ shared'.jobs[l] = Idle
  BY <1>1, JobStates DEF Restart, NewShared, SharedType, Lanes
<1>3. NetTypeOK'
  <2>1. shared' \in SharedType'
    BY <1>2 DEF SharedType
  <2> QED BY <2>1, JoinFailuresAssumption DEF SharedType, NetTypeOK, Restart
<1>4. TypeOK'
  BY <1>3 DEF TypeOK, ConfigType, Restart
<1>5. WifiOK'
  BY <1>2 DEF WifiOK, AttemptsLeft, Restart
<1>6. LaneOK(shared, job)'
  BY <1>2, JobStates DEF LaneOK, Lanes, Restart
<1>7. TargetFollows'
  BY <1>2 DEF TargetFollows, Follows, Place, Restart
<1>8. AsksTheTrial(shared, job, config)'
  BY DEF AsksTheTrial, Restart
<1> QED BY <1>4, <1>5, <1>6, <1>7, <1>8 DEF AgentInv

(* What a step of the agent or the shell has to keep. *)
LEMMA FrameStep ==
  ASSUME AgentInv, NEW c \in ConfigType, NEW s \in SharedType, NEW j,
         config' = c, shared' = s, job' = j,
         UNCHANGED <<wifi, failures, page, serving>>,
         LaneOK(s, j),
         s.portalResult \in {shared.portalResult, None},
         turn' = "agent" \/ s.portalResult = None => Follows(s, c),
         turn' \in {"agent", "shell"},
         j \in JobKinds \cup {"none"},
         ota' \in {"idle", "checking", "up_to_date", "downloading", "failed"},
         proven' \in Places,
         {started', checkUpdate', fetchGoals', checkRequested', trialOver'} \subseteq BOOLEAN
  PROVE  AgentInv'
<1>1. NetTypeOK'
  BY NetTypes DEF AgentInv, TypeOK, NetTypeOK, SharedType
<1>2. TypeOK'
  BY <1>1 DEF TypeOK, ConfigType
<1>3. WifiOK'
  BY DEF AgentInv, WifiOK, AttemptsLeft
<1>4. LaneOK(shared, job)'
  BY DEF LaneOK
<1>5. TargetFollows'
  BY DEF TargetFollows, Follows, Place
<1> QED BY <1>2, <1>3, <1>4, <1>5 DEF AgentInv

-----------------------------------------------------------------------------
(* The shell's part of a frame. *)

LEMMA ShellConfig ==
  ASSUME AgentInv, ShellUpdate
  PROVE  /\ config' \in ConfigType
         /\ trialOver' \in BOOLEAN
         /\ \/ /\ Place(config') = Place(config)
               /\ config'.trial = config.trial
               /\ config'.prevServer = config.prevServer
               /\ config'.prevName = config.prevName
            \/ /\ shared.portalResult \notin {None, Place(config)}
               /\ Place(config') = shared.portalResult
               /\ config'.trial
               /\ [server |-> config'.prevServer, name |-> config'.prevName] =
                    IF config.trial
                    THEN [server |-> config.prevServer, name |-> config.prevName]
                    ELSE Place(config)
<1>1. config \in ConfigType /\ trialOver \in BOOLEAN /\ shared \in SharedType
  BY NetTypes DEF AgentInv, TypeOK, ConfigType
<1>2. CASE shared.portalResult = None
  BY <1>1, <1>2 DEF ShellUpdate
<1>3. CASE shared.portalResult # None
  <2> DEFINE saved == shared.portalResult
             kept == [config EXCEPT !.ssid = TRUE]
  <2>1. saved \in Places
    BY <1>1, <1>3 DEF SharedType
  <2>2. /\ kept \in ConfigType /\ Place(kept) = Place(config)
        /\ kept.trial = config.trial
        /\ kept.prevServer = config.prevServer /\ kept.prevName = config.prevName
        /\ kept.server = config.server /\ kept.name = config.name
    BY <1>1 DEF ConfigType, Place
  <2>3. /\ Move(kept, saved) \in ConfigType
        /\ Place(Move(kept, saved)) = saved
        /\ Move(kept, saved).trial
        /\ [server |-> Move(kept, saved).prevServer, name |-> Move(kept, saved).prevName] =
             IF config.trial
             THEN [server |-> config.prevServer, name |-> config.prevName]
             ELSE Place(config)
    BY <2>1, <2>2, MoveType DEF Place
  <2>4. PICK bad : PortalResultStored(bad)
    BY <1>3 DEF ShellUpdate
  <2>5. trialOver' \in BOOLEAN
    BY <1>1, <2>4 DEF PortalResultStored
  <2>6. \/ config' = config
        \/ config' = kept
        \/ config' = Move(kept, saved) /\ Place(config) # saved
    BY <2>4 DEF PortalResultStored, Stored
  <2> QED BY <1>1, <1>3, <2>2, <2>3, <2>5, <2>6
<1> QED BY <1>2, <1>3

LEMMA ShellShared ==
  ASSUME AgentInv, ShellUpdate
  PROVE  /\ shared' \in SharedType
         /\ shared'.requests = shared.requests /\ shared'.jobs = shared.jobs
         /\ shared'.portalResult = None
         /\ Follows(shared', config')
<1>1. shared \in SharedType /\ Place(config') \in Places
  BY NetTypes, ShellConfig, PlaceType DEF AgentInv, TypeOK
<1> DEFINE stored == ApplyConfig(TakePortalResult(shared), Place(config'))
           s == IF shared.portalResult # None THEN stored ELSE shared
<1>2. shared' \in {s, RequestConnect(s), RequestPortal(s)}
  BY DEF ShellUpdate
<1>3. /\ stored \in SharedType
      /\ stored.requests = shared.requests /\ stored.jobs = shared.jobs
      /\ stored.portalResult = None
      /\ stored.target = Place(config')
  <2>1. /\ TakePortalResult(shared) \in SharedType
        /\ TakePortalResult(shared).requests = shared.requests
        /\ TakePortalResult(shared).jobs = shared.jobs
        /\ TakePortalResult(shared).portalResult = None
    BY <1>1, QuietCalls
  <2> QED BY <1>1, <2>1, QuietCalls
<1>4. shared.portalResult = None => shared.target = Place(config) /\ config' = config
  BY DEF AgentInv, TargetFollows, Follows, ShellUpdate
<1>5. /\ s \in SharedType
      /\ s.requests = shared.requests /\ s.jobs = shared.jobs
      /\ s.portalResult = None
      /\ s.target = Place(config')
  BY <1>1, <1>3, <1>4
<1>6. /\ RequestConnect(s) \in SharedType /\ RequestPortal(s) \in SharedType
      /\ \A t \in {RequestConnect(s), RequestPortal(s)} :
           /\ t.requests = s.requests /\ t.jobs = s.jobs
           /\ t.target = s.target /\ t.portalResult = s.portalResult
  BY <1>1, <1>5, QuietCalls
<1> QED BY <1>2, <1>5, <1>6 DEF Follows

LEMMA ShellStep ==
  ASSUME AgentInv, ShellUpdate PROVE AgentInv'
<1>1. /\ shared' \in SharedType /\ LaneOK(shared', job)
      /\ shared'.portalResult = None /\ Follows(shared', config')
  BY ShellShared, NetTypes, LaneKept DEF AgentInv, TypeOK
<1>2. config' \in ConfigType /\ trialOver' \in BOOLEAN
  BY ShellConfig
<1>3. /\ UNCHANGED <<wifi, failures, page, serving, started, job, checkUpdate,
                     fetchGoals, proven>>
      /\ turn' = "agent"
      /\ ota' \in {ota, "checking"} /\ checkRequested' \in {checkRequested, TRUE}
  BY DEF ShellUpdate
<1>4. /\ job \in JobKinds \cup {"none"} /\ proven \in Places
      /\ ota' \in {"idle", "checking", "up_to_date", "downloading", "failed"}
      /\ {started, checkUpdate, fetchGoals, checkRequested} \subseteq BOOLEAN
  BY <1>3 DEF AgentInv, TypeOK
<1> QED BY <1>1, <1>2, <1>3, <1>4, FrameStep

(* What the page saved for storing is what the awaited heartbeat, if any,  *)
(* was made for; a change that is stored remembers what is proven.         *)
LEMMA ShellTrialStep ==
  ASSUME AgentInv, TrialInv, ShellUpdate PROVE TrialInv'
<1>1. UNCHANGED <<page, serving, job, proven>>
  BY DEF ShellUpdate
<1>2. ProvenPlace' /\ NeverStranded'
  BY <1>1, ShellConfig DEF TrialInv, ProvenPlace, NeverStranded, Place
<1>3. ASSUME NEW q \in AgentRequests, Owes(shared, q)', job' = "heartbeat"
      PROVE  Fresh(shared, config, q)'
  <2>1. Owes(shared, q)
    BY <1>1, <1>3, ShellShared DEF Owes
  <2>2. Fresh(shared, config, q)
    BY <1>1, <1>3, <2>1 DEF TrialInv, AsksTheTrial
  <2>3. shared.portalResult # None => page = None
    BY DEF AgentInv, WifiOK
  <2>4. Place(config)' = Place(config')
    BY DEF Place
  <2> QED BY <1>1, <2>2, <2>3, <2>4, ShellConfig, ShellShared DEF Fresh
<1> QED BY <1>2, <1>3 DEF TrialInv, AsksTheTrial

-----------------------------------------------------------------------------
(* The agent's part of a frame: what the lines before the job leave, when   *)
(* the save bad fails.                                                     *)

Woken == IF ~started /\ config.ssid THEN RequestConnect(shared) ELSE shared

Reverted(bad) ==
  IF Expired THEN Stored("revert", config, Revert(config), bad) ELSE config

Refreshed(bad) ==
  IF Expired THEN ApplyConfig(Woken, Place(Reverted(bad))) ELSE Woken

(* A config and a state of the network service that the rest of the frame  *)
(* may go on from, the agent waiting for the job j.                        *)
Ready(c, s, j) ==
  /\ c \in ConfigType
  /\ s \in SharedType
  /\ LaneOK(s, j)
  /\ s.portalResult = shared.portalResult
  /\ s.portalResult = None => Follows(s, c)

LEMMA Prelude ==
  ASSUME AgentInv, turn = "agent", NEW bad
  PROVE  /\ Ready(Reverted(bad), Refreshed(bad), job)
         /\ Refreshed(bad).requests = shared.requests
         /\ Refreshed(bad).jobs = shared.jobs
<1>1. config \in ConfigType /\ shared \in SharedType
  BY NetTypes DEF AgentInv, TypeOK, ConfigType
<1>2. /\ Woken \in SharedType
      /\ Woken.requests = shared.requests /\ Woken.jobs = shared.jobs
      /\ Woken.target = shared.target /\ Woken.portalResult = shared.portalResult
  <2>1. Place(config) \in Places
    BY <1>1, PlaceType
  <2> QED BY <1>1, <2>1, QuietCalls DEF Woken
<1>3. Reverted(bad) \in ConfigType
  BY <1>1, RevertType DEF Reverted, Stored
<1>4. /\ Refreshed(bad) \in SharedType
      /\ Refreshed(bad).requests = shared.requests
      /\ Refreshed(bad).jobs = shared.jobs
      /\ Refreshed(bad).portalResult = shared.portalResult
      /\ Refreshed(bad).target = IF Expired THEN Place(Reverted(bad)) ELSE shared.target
  <2>1. Place(Reverted(bad)) \in Places
    BY <1>3, PlaceType
  <2> QED BY <1>2, <2>1, QuietCalls DEF Refreshed
<1>5. LaneOK(Refreshed(bad), job)
  BY <1>1, <1>4, LaneKept DEF AgentInv
<1>6. Refreshed(bad).portalResult = None => Follows(Refreshed(bad), Reverted(bad))
  BY <1>4 DEF AgentInv, TargetFollows, Follows, Reverted
<1> QED BY <1>3, <1>4, <1>5, <1>6 DEF Ready

(* The end of the frame's part. *)
LEMMA EndStep ==
  ASSUME AgentInv, NEW c, NEW s, NEW j, Ready(c, s, j),
         NEW restarted \in BOOLEAN, EndOfUpdate(c, s, restarted),
         job' = j, j \in JobKinds \cup {"none"},
         ota' \in {"idle", "checking", "up_to_date", "downloading", "failed"},
         proven' \in Places,
         checkUpdate' \in BOOLEAN, fetchGoals' \in BOOLEAN
  PROVE  AgentInv'
<1>1. /\ trialOver' \in BOOLEAN /\ started' = TRUE /\ checkRequested' = FALSE
      /\ turn' = "shell"
      /\ config' = c /\ shared' = s
      /\ UNCHANGED <<wifi, failures, page, serving>>
  BY DEF EndOfUpdate, Ready, ConfigType, AgentInv, TypeOK
<1> QED BY <1>1, FrameStep DEF Ready

LEMMA StartStep ==
  ASSUME AgentInv, NEW c, NEW s, Ready(c, s, "none"), NEW kind \in JobKinds,
         Start(c, s, kind),
         ota' \in {"idle", "checking", "up_to_date", "downloading", "failed"},
         proven' \in Places,
         checkUpdate' \in BOOLEAN, fetchGoals' \in BOOLEAN
  PROVE  AgentInv'
<1>1. CASE FetchAccepted(s, "System")
  <2> DEFINE r == [job |-> kind, to |-> Place(c)]
             t == FetchOn(s, "System", r)
  <2>1. r \in AgentRequests /\ r.job = kind
    BY PlaceType DEF Ready, AgentRequests
  <2>2. /\ t \in SharedType /\ LaneOK(t, kind)
        /\ t.target = s.target /\ t.portalResult = s.portalResult
    BY <2>1, QueueRequest DEF Ready
  <2>3. Ready(c, t, kind)
    BY <2>2 DEF Ready, Follows
  <2>4. job' = kind /\ EndOfUpdate(c, t, FALSE)
    BY <1>1 DEF Start
  <2> HIDE DEF t
  <2> QED BY <2>3, <2>4, EndStep
<1>2. CASE ~FetchAccepted(s, "System")
  BY <1>2, EndStep DEF Start
<1> QED BY <1>1, <1>2

(* The agent has taken the answer it waited for. *)
LEMMA ReadyAgain ==
  ASSUME NEW c, NEW s, NEW j, Ready(c, s, j), s.jobs["System"] # Pending
  PROVE  Ready(c, TakeJobOn(s, "System"), "none")
BY TakeAnswer DEF Ready, Follows

LEMMA NextJobType ==
  ASSUME NEW check, NEW due
  PROVE  NextJob(check, due) \in JobKinds \cup {"none"}
BY DEF NextJob, JobKinds

LEMMA StartNextStep ==
  ASSUME AgentInv, NEW c, NEW s, Ready(c, s, job), NEW check \in BOOLEAN,
         StartNext(c, s, check)
  PROVE  AgentInv'
<1>1. PICK due \in SUBSET {"update", "poll", "log"} :
        LET kind == IF IsUp THEN NextJob(check, due) ELSE "none" IN
        /\ IF kind = "none" THEN job' = "none" /\ EndOfUpdate(c, s, FALSE)
                            ELSE Start(c, s, kind)
        /\ checkUpdate' = (check /\ kind # "version")
        /\ fetchGoals' = (fetchGoals /\ kind # "goals")
        /\ ota' = IF kind = "version" THEN "checking" ELSE ota
  BY DEF StartNext
<1> DEFINE kind == IF IsUp THEN NextJob(check, due) ELSE "none"
<1>2. /\ checkUpdate' \in BOOLEAN /\ fetchGoals' \in BOOLEAN
      /\ ota' \in {"idle", "checking", "up_to_date", "downloading", "failed"}
      /\ proven' \in Places
  BY <1>1 DEF AgentInv, TypeOK, StartNext
<1>3. kind \in JobKinds \cup {"none"}
  BY NextJobType
<1>4. Ready(c, s, "none")
  BY DEF StartNext
<1>5. CASE kind = "none"
  <2>1. job' = "none" /\ EndOfUpdate(c, s, FALSE)
    BY <1>1, <1>5
  <2> QED BY <1>2, <1>4, <2>1, EndStep
<1>6. CASE kind # "none"
  <2>1. kind \in JobKinds /\ Start(c, s, kind)
    BY <1>1, <1>3, <1>6
  <2> QED BY <1>2, <1>4, <2>1, StartStep
<1> QED BY <1>5, <1>6

LEMMA WaitStep ==
  ASSUME AgentInv, NEW c, NEW s, Ready(c, s, job), NEW check \in BOOLEAN,
         StillWaiting(c, s, check) \/ JobFailed(c, s, check)
  PROVE  AgentInv'
<1>1. /\ proven' \in Places /\ checkUpdate' \in BOOLEAN /\ fetchGoals' \in BOOLEAN
      /\ ota' \in {"idle", "checking", "up_to_date", "downloading", "failed"}
      /\ job \in JobKinds \cup {"none"}
  BY DEF AgentInv, TypeOK, StillWaiting, JobFailed
<1>2. CASE StillWaiting(c, s, check)
  <2>1. job' = job /\ EndOfUpdate(c, s, FALSE)
    BY <1>2 DEF StillWaiting
  <2> QED BY <1>1, <2>1, EndStep
<1>3. CASE JobFailed(c, s, check)
  <2>1. /\ job' = "none" /\ EndOfUpdate(c, TakeJobOn(s, "System"), FALSE)
        /\ s.jobs["System"] # Pending
    BY <1>3, JobStates DEF JobFailed
  <2>2. Ready(c, TakeJobOn(s, "System"), "none")
    BY <2>1, ReadyAgain
  <2> QED BY <1>1, <2>1, <2>2, EndStep
<1> QED BY <1>2, <1>3

(* The answer the agent finishes with. *)
LEMMA AnswerTaken ==
  ASSUME NEW c, NEW s, Ready(c, s, job), s.jobs["System"].kind = "done"
  PROVE  /\ s.jobs["System"].reply \in AgentAnswers
         /\ s.jobs["System"].reply.request.job = job
         /\ MayAnswer(s.jobs["System"].reply.request, s.jobs["System"].reply.ok)
         /\ s.jobs["System"] # Pending
         /\ Ready(c, TakeJobOn(s, "System"), "none")
<1>1. s.jobs["System"] \in Jobs
  BY DEF Ready, SharedType, Lanes
<1>2. s.jobs["System"].reply \in AgentAnswers /\ s.jobs["System"] # Pending
  BY <1>1, JobStates
<1>3. Ready(c, TakeJobOn(s, "System"), "none")
  BY <1>2, ReadyAgain
<1> QED BY <1>2, <1>3 DEF Ready, LaneOK

LEMMA ConfirmedType ==
  ASSUME NEW c \in ConfigType, NEW answer, NEW bad
  PROVE  /\ Confirmed(c, answer, bad) \in ConfigType
         /\ Place(Confirmed(c, answer, bad)) = Place(c)
         /\ \/ Confirmed(c, answer, bad) = c
            \/ answer.ok /\ Confirmed(c, answer, bad) = Confirm(c)
BY ConfirmType DEF Confirmed, Stored

LEMMA HeartbeatStep ==
  ASSUME AgentInv, NEW c, NEW s, Ready(c, s, job), NEW check \in BOOLEAN,
         NEW answer, NEW bad,
         s.jobs["System"].kind = "done", answer = s.jobs["System"].reply,
         FinishHeartbeat(c, s, check, answer, bad)
  PROVE  AgentInv'
<1> DEFINE command == answer.command
           confirmed == Confirmed(c, answer, bad)
           moved == IF command.op \in {"server", "name"}
                    THEN Stored("command", confirmed, Moved(confirmed, command), bad)
                    ELSE confirmed
           taken == TakeJobOn(s, "System")
           told == CASE command.op \in {"server", "name"} -> ApplyConfig(taken, Place(moved))
                     [] command.op = "portal" -> RequestPortal(taken)
                     [] OTHER -> taken
<1>1. /\ answer \in AgentAnswers /\ Ready(c, taken, "none")
      /\ command \in Commands
  BY AnswerTaken DEF AgentAnswers
<1>2. /\ job' = "none"
      /\ EndOfUpdate(moved, told, command.op \in {"server", "name"})
      /\ ota' = ota
      /\ fetchGoals' = (fetchGoals \/ (answer.ok /\ answer.news))
      /\ checkUpdate' = (check \/ command.op = "update")
  BY DEF FinishHeartbeat
<1>3. c \in ConfigType /\ confirmed \in ConfigType /\ Place(confirmed) = Place(c)
  BY <1>1, ConfirmedType DEF Ready
<1>4. moved \in ConfigType
  <2>1. CASE command.op \in {"server", "name"}
    <3>1. PICK place \in Places : Moved(confirmed, command) = Move(confirmed, place)
      BY <1>1, <1>3, <2>1, MovedType
    <3>2. Moved(confirmed, command) \in ConfigType
      BY <1>3, <3>1, MoveType
    <3> QED BY <1>3, <3>2 DEF Stored
  <2> QED BY <1>3, <2>1
<1>5. Place(moved) \in Places /\ taken \in SharedType /\ LaneOK(taken, "none")
  BY <1>1, <1>4, PlaceType DEF Ready
<1>6. Ready(moved, told, "none")
  <2>1. CASE command.op \in {"server", "name"}
    <3>1. told = ApplyConfig(taken, Place(moved))
      BY <2>1
    <3>2. /\ told \in SharedType
          /\ told.requests = taken.requests /\ told.jobs = taken.jobs
          /\ told.target = Place(moved) /\ told.portalResult = taken.portalResult
      BY <1>5, <3>1, QuietCalls
    <3>3. LaneOK(told, "none")
      BY <1>5, <3>2, LaneKept
    <3> HIDE DEF told, moved, taken
    <3> QED BY <1>1, <1>4, <3>2, <3>3 DEF Ready, Follows
  <2>2. CASE command.op \notin {"server", "name"}
    <3>1. told \in {RequestPortal(taken), taken} /\ moved = confirmed
      BY <2>2
    <3>2. /\ told \in SharedType
          /\ told.requests = taken.requests /\ told.jobs = taken.jobs
          /\ told.target = taken.target /\ told.portalResult = taken.portalResult
      BY <1>5, <3>1, QuietCalls
    <3>3. LaneOK(told, "none")
      BY <1>5, <3>2, LaneKept
    <3> HIDE DEF told, moved, taken, confirmed
    <3> QED BY <1>1, <1>3, <1>4, <3>1, <3>2, <3>3 DEF Ready, Follows
  <2> QED BY <2>1, <2>2
<1>7. /\ fetchGoals' \in BOOLEAN /\ checkUpdate' \in BOOLEAN
      /\ ota' \in {"idle", "checking", "up_to_date", "downloading", "failed"}
  BY <1>2 DEF AgentInv, TypeOK
<1>8. proven' \in Places
  BY <1>3, PlaceType DEF FinishHeartbeat, NoteProven, AgentInv, TypeOK
<1>9. (command.op \in {"server", "name"}) \in BOOLEAN
  OBVIOUS
<1> HIDE DEF told, moved
<1> QED BY <1>2, <1>6, <1>7, <1>8, <1>9, EndStep

LEMMA FinishStep ==
  ASSUME AgentInv, NEW c, NEW s, Ready(c, s, job), NEW check \in BOOLEAN, NEW bad,
         Finish(c, s, check, bad)
  PROVE  AgentInv'
<1> DEFINE answer == s.jobs["System"].reply
<1>1. /\ s.jobs["System"].kind = "done"
      /\ \/ FinishHeartbeat(c, s, check, answer, bad)
         \/ FinishByReboot(c, answer, bad)
         \/ FinishVersion(c, s, check, answer)
         \/ FinishOther(c, s, check, answer)
  BY DEF Finish
<1>2. Ready(c, TakeJobOn(s, "System"), "none") /\ answer \in AgentAnswers
  BY <1>1, AnswerTaken
<1>3. c \in ConfigType
  BY DEF Ready
<1>4. /\ proven \in Places /\ fetchGoals \in BOOLEAN
      /\ ota \in {"idle", "checking", "up_to_date", "downloading", "failed"}
  BY DEF AgentInv, TypeOK
<1>5. CASE FinishHeartbeat(c, s, check, answer, bad)
  BY <1>1, <1>5, HeartbeatStep
<1>6. CASE FinishByReboot(c, answer, bad)
  <2>1. Confirmed(c, answer, bad) \in ConfigType
    BY <1>3, ConfirmedType
  <2>2. proven' \in Places
    BY <1>3, <1>4, <1>6, PlaceType DEF FinishByReboot, NoteProven
  <2> QED BY <1>6, <2>1, <2>2, RestartStep DEF FinishByReboot
<1>7. CASE FinishVersion(c, s, check, answer)
  <2>1. /\ ota' \in {"idle", "checking", "up_to_date", "downloading", "failed"}
        /\ proven' \in Places /\ checkUpdate' \in BOOLEAN /\ fetchGoals' \in BOOLEAN
    BY <1>4, <1>7 DEF FinishVersion
  <2>2. CASE answer.ok /\ answer.news
    <3>1. Start(c, TakeJobOn(s, "System"), "firmware") /\ "firmware" \in JobKinds
      BY <1>7, <2>2 DEF FinishVersion, JobKinds
    <3> QED BY <1>2, <2>1, <3>1, StartStep
  <2>3. CASE ~(answer.ok /\ answer.news)
    <3>1. job' = "none" /\ EndOfUpdate(c, TakeJobOn(s, "System"), FALSE)
      BY <1>7, <2>3 DEF FinishVersion
    <3> QED BY <1>2, <2>1, <3>1, EndStep
  <2> QED BY <2>2, <2>3
<1>8. CASE FinishOther(c, s, check, answer)
  <2>1. CASE Restart(c) /\ UNCHANGED proven
    BY <1>3, <1>4, <2>1, RestartStep
  <2>2. CASE ~(job = "firmware" /\ answer.ok) /\ ~Restart(c)
    <3>1. /\ ota' \in {"idle", "checking", "up_to_date", "downloading", "failed"}
          /\ proven' \in Places /\ checkUpdate' \in BOOLEAN /\ fetchGoals' \in BOOLEAN
          /\ job' = "none" /\ EndOfUpdate(c, TakeJobOn(s, "System"), FALSE)
      BY <1>4, <1>8, <2>2 DEF FinishOther
    <3> QED BY <1>2, <3>1, EndStep
  <2> QED BY <1>8, <2>1, <2>2 DEF FinishOther
<1> QED BY <1>1, <1>5, <1>6, <1>7, <1>8

LEMMA AgentStep ==
  ASSUME AgentInv, AgentUpdate PROVE AgentInv'
<1>1. PICK bad :
        \/ StartNext(Reverted(bad), Refreshed(bad), checkUpdate \/ checkRequested)
        \/ StillWaiting(Reverted(bad), Refreshed(bad), checkUpdate \/ checkRequested)
        \/ JobFailed(Reverted(bad), Refreshed(bad), checkUpdate \/ checkRequested)
        \/ Finish(Reverted(bad), Refreshed(bad), checkUpdate \/ checkRequested, bad)
  BY DEF AgentUpdate, Reverted, Refreshed, Woken
<1> DEFINE check == checkUpdate \/ checkRequested
<1>2. Ready(Reverted(bad), Refreshed(bad), job)
  BY Prelude DEF AgentUpdate
<1>3. check \in BOOLEAN
  OBVIOUS
<1> HIDE DEF check
<1>4. CASE StartNext(Reverted(bad), Refreshed(bad), check)
  BY <1>2, <1>3, <1>4, StartNextStep
<1>5. CASE StillWaiting(Reverted(bad), Refreshed(bad), check)
             \/ JobFailed(Reverted(bad), Refreshed(bad), check)
  BY <1>2, <1>3, <1>5, WaitStep
<1>6. CASE Finish(Reverted(bad), Refreshed(bad), check, bad)
  BY <1>2, <1>3, <1>6, FinishStep
<1> QED BY <1>1, <1>4, <1>5, <1>6 DEF check

(* Every step keeps the invariant. *)
LEMMA AgentInvStep == AgentInv /\ [Next]_vars => AgentInv'
<1> SUFFICES ASSUME AgentInv, [Next]_vars PROVE AgentInv'
  OBVIOUS
<1>1. CASE AgentUpdate
  BY <1>1, AgentStep
<1>2. CASE ShellUpdate
  BY <1>2, ShellStep
<1>3. CASE WifiProgress \/ WifiEvent
  BY <1>3, WifiStep
<1>4. CASE TimePasses
  <2>1. UNCHANGED <<network, config, turn, started, job, checkUpdate, fetchGoals,
                    checkRequested, ota, proven>>
    BY <1>4 DEF TimePasses
  <2>2. TypeOK'
    BY <1>4, <2>1 DEF AgentInv, TypeOK, NetTypeOK, network, TimePasses
  <2> QED BY <2>1, <2>2 DEF AgentInv, WifiOK, AttemptsLeft, LaneOK, TargetFollows,
                            Follows, Place, network
<1>5. CASE Reboot
  <2>1. config \in ConfigType /\ proven' \in Places
    BY <1>5 DEF AgentInv, TypeOK, ConfigType, Reboot
  <2> QED BY <1>5, <2>1, RestartStep DEF Reboot
<1>6. CASE UNCHANGED vars
  BY <1>6 DEF AgentInv, TypeOK, NetTypeOK, WifiOK, AttemptsLeft, LaneOK, TargetFollows,
              Follows, Place, vars, network, deviceVars
<1> QED BY <1>1, <1>2, <1>3, <1>4, <1>5, <1>6 DEF Next

-----------------------------------------------------------------------------
(* A trial, unless the user edits the settings on the page. *)

(* The settings c are proven, or on trial with proven ones to go back to.  *)
Safe(place, c) ==
  place = IF c.trial THEN [server |-> c.prevServer, name |-> c.prevName] ELSE Place(c)

(* A revert leads back to proven settings, which have no blank part. *)
LEMMA PreludeTrial ==
  ASSUME AgentInv, TrialInv, turn = "agent", NEW bad
  PROVE  /\ Safe(proven, Reverted(bad))
         /\ AsksTheTrial(Refreshed(bad), job, Reverted(bad))
<1> DEFINE c == Reverted(bad)
           s == Refreshed(bad)
<1>1. CASE c = config
  <2>1. Safe(proven, c)
    BY <1>1 DEF TrialInv, NeverStranded, Safe
  <2>2. ASSUME NEW q \in AgentRequests, Owes(s, q), job = "heartbeat"
        PROVE  Fresh(s, c, q)
    BY <1>1, <2>2, Prelude DEF TrialInv, AsksTheTrial, Owes, Fresh, Ready
  <2> QED BY <2>1, <2>2 DEF AsksTheTrial
<1>2. CASE c # config
  <2>1. c = Revert(config) /\ config.trial
    BY <1>2 DEF Reverted, Stored, Expired
  <2>2. /\ proven = [server |-> config.prevServer, name |-> config.prevName]
        /\ proven \in [server : Servers, name : Names]
    BY <2>1 DEF TrialInv, NeverStranded, ProvenPlace
  <2>3. config.prevServer # Blank /\ config.prevName # Blank
    BY <2>2, BlankAssumption
  <2>4. config \in ConfigType
    BY DEF AgentInv, TypeOK, ConfigType
  <2>5. Place(c) = proven /\ ~c.trial
    BY <2>1, <2>2, <2>3, <2>4 DEF Revert, Place, ConfigType
  <2>6. ASSUME NEW q \in AgentRequests, Owes(s, q), job = "heartbeat"
        PROVE  Fresh(s, c, q)
    <3>1. Fresh(shared, config, q)
      BY <2>6, Prelude DEF TrialInv, AsksTheTrial, Owes
    <3>2. s.portalResult = shared.portalResult
      BY Prelude DEF Ready
    <3>3. q.to = Place(config)
      BY <2>1, <3>1 DEF Fresh
    <3> QED BY <2>5, <3>1, <3>2, <3>3 DEF Fresh
  <2> QED BY <2>5, <2>6 DEF Safe, AsksTheTrial
<1> QED BY <1>1, <1>2

(* A confirmed change is proven; another answer proves nothing about it.   *)
LEMMA ConfirmedTrial ==
  ASSUME ProvenPlace, NEW c, NEW s, Ready(c, s, job), Safe(proven, c),
         AsksTheTrial(s, job, c), job = "heartbeat",
         NEW answer, NEW bad,
         s.jobs["System"].kind = "done", answer = s.jobs["System"].reply,
         NoteProven(c, answer, bad)
  PROVE  /\ ProvenPlace'
         /\ Safe(proven', Confirmed(c, answer, bad))
<1>1. /\ answer \in AgentAnswers
      /\ answer.request \in AgentRequests
      /\ answer.request.job = "heartbeat"
      /\ MayAnswer(answer.request, answer.ok)
  BY AnswerTaken DEF AgentAnswers
<1>2. c.trial => answer.request.to = Place(c)
  BY <1>1 DEF AsksTheTrial, Owes, Fresh
<1>3. c \in ConfigType /\ Confirm(c) \in ConfigType /\ ~Confirm(c).trial
      /\ Place(Confirm(c)) = Place(c)
  BY ConfirmType DEF Ready
<1>4. answer.ok /\ answer.request.to = Place(c) => Place(c) \in [server : Servers, name : Names]
  BY <1>1, <1>3, PlaceType DEF MayAnswer, Places
<1>5. ProvenPlace'
  BY <1>4 DEF ProvenPlace, NoteProven
<1>6. CASE ~c.trial
  <2>1. Confirmed(c, answer, bad) = c
    BY <1>6 DEF Confirmed, Stored, Confirm
  <2> QED BY <1>5, <1>6, <2>1 DEF Safe, NoteProven
<1>7. CASE c.trial /\ Confirmed(c, answer, bad) = c
  BY <1>5, <1>7 DEF Safe, NoteProven
<1>8. CASE c.trial /\ Confirmed(c, answer, bad) # c
  <2>1. answer.ok /\ Confirmed(c, answer, bad) = Confirm(c)
    BY <1>8 DEF Confirmed, Stored
  <2>2. proven' = Place(c)
    BY <1>2, <1>3, <1>8, <2>1 DEF NoteProven
  <2> QED BY <1>3, <1>5, <2>1, <2>2 DEF Safe
<1> QED BY <1>6, <1>7, <1>8

(* A change remembers what was proven. *)
LEMMA MoveIsSafe ==
  ASSUME NEW c \in ConfigType, NEW place \in Places, NEW p, Safe(p, c)
  PROVE  Safe(p, Move(c, place))
BY MoveType DEF Safe, Place

LEMMA HeartbeatTrial ==
  ASSUME ProvenPlace, NEW c, NEW s, Ready(c, s, job), Safe(proven, c),
         AsksTheTrial(s, job, c), job = "heartbeat",
         NEW answer, NEW bad, NEW check,
         s.jobs["System"].kind = "done", answer = s.jobs["System"].reply,
         FinishHeartbeat(c, s, check, answer, bad)
  PROVE  TrialInv'
<1> DEFINE command == answer.command
           confirmed == Confirmed(c, answer, bad)
           moved == IF command.op \in {"server", "name"}
                    THEN Stored("command", confirmed, Moved(confirmed, command), bad)
                    ELSE confirmed
<1>1. ProvenPlace' /\ Safe(proven', confirmed)
  BY ConfirmedTrial DEF FinishHeartbeat
<1>2. confirmed \in ConfigType /\ command \in Commands
  BY ConfirmedType, AnswerTaken DEF Ready, AgentAnswers
<1>3. Safe(proven', moved)
  <2>1. CASE command.op \in {"server", "name"}
    <3>1. PICK place \in Places : Moved(confirmed, command) = Move(confirmed, place)
      BY <1>2, <2>1, MovedType
    <3>2. Safe(proven', Moved(confirmed, command))
      BY <1>1, <1>2, <3>1, MoveIsSafe
    <3> QED BY <1>1, <3>2 DEF Stored
  <2> QED BY <1>1, <2>1
<1>4. config' = moved /\ job' = "none"
  BY DEF FinishHeartbeat, EndOfUpdate
<1> HIDE DEF moved
<1> QED BY <1>1, <1>3, <1>4 DEF TrialInv, NeverStranded, AsksTheTrial, Safe, Place

(* A heartbeat is started for the settings of the moment, with no page open. *)
LEMMA StartTrial ==
  ASSUME AgentInv, ProvenPlace, NEW c, NEW s, Ready(c, s, "none"), Safe(proven, c),
         UNCHANGED proven, NEW kind \in JobKinds, Start(c, s, kind)
  PROVE  TrialInv'
<1>1. ProvenPlace' /\ config' = c /\ UNCHANGED <<page, serving>>
  BY DEF ProvenPlace, Start, EndOfUpdate
<1>2. NeverStranded'
  BY <1>1 DEF Safe, NeverStranded, Place
<1>3. AsksTheTrial(shared, job, config)'
  <2>1. CASE FetchAccepted(s, "System")
    <3> DEFINE r == [job |-> kind, to |-> Place(c)]
               t == FetchOn(s, "System", r)
    <3>1. r \in AgentRequests
      BY PlaceType DEF Ready, AgentRequests
    <3>2. /\ t.requests["System"] = r /\ t.jobs["System"] = Pending
          /\ t.portalResult = s.portalResult
      BY <3>1, QueueRequest DEF Ready
    <3>3. shared' = t /\ serving' = None
      <4>1. serving = None
        BY JobStates DEF Ready, LaneOK
      <4> QED BY <1>1, <2>1, <4>1 DEF Start, EndOfUpdate
    <3>4. page' = None /\ shared'.portalResult = None
      BY <1>1, <2>1, <3>2, <3>3
      DEF AgentInv, WifiOK, FetchAccepted, IsUp, Ready
    <3>5. ASSUME NEW q \in AgentRequests, Owes(shared, q)' PROVE Fresh(shared, config, q)'
      <4>1. q = r
        BY <3>2, <3>3, <3>5, JobStates DEF Owes
      <4>2. r.to = Place(c) /\ Place(config') = Place(c)
        BY <1>1
      <4> QED BY <3>4, <4>1, <4>2 DEF Fresh, Place
    <3> QED BY <3>5 DEF AsksTheTrial
  <2>2. CASE ~FetchAccepted(s, "System")
    BY <2>2 DEF Start, AsksTheTrial
  <2> QED BY <2>1, <2>2
<1> QED BY <1>1, <1>2, <1>3 DEF TrialInv

(* The end of a frame in which no heartbeat is awaited any more. *)
LEMMA EndTrial ==
  ASSUME ProvenPlace, NEW c, Safe(proven, c), UNCHANGED proven,
         config' = c, job' # "heartbeat"
  PROVE  TrialInv'
BY DEF TrialInv, ProvenPlace, NeverStranded, AsksTheTrial, Safe, Place

LEMMA AgentTrialStep ==
  ASSUME AgentInv, TrialInv, AgentUpdate PROVE TrialInv'
<1>1. PICK bad :
        \/ StartNext(Reverted(bad), Refreshed(bad), checkUpdate \/ checkRequested)
        \/ StillWaiting(Reverted(bad), Refreshed(bad), checkUpdate \/ checkRequested)
        \/ JobFailed(Reverted(bad), Refreshed(bad), checkUpdate \/ checkRequested)
        \/ Finish(Reverted(bad), Refreshed(bad), checkUpdate \/ checkRequested, bad)
  BY DEF AgentUpdate, Reverted, Refreshed, Woken
<1> DEFINE check == checkUpdate \/ checkRequested
           c == Reverted(bad)
           s == Refreshed(bad)
           answer == s.jobs["System"].reply
<1>2. /\ Ready(c, s, job) /\ Safe(proven, c) /\ AsksTheTrial(s, job, c)
      /\ ProvenPlace
  BY Prelude, PreludeTrial DEF AgentUpdate, TrialInv
<1> HIDE DEF check, c, s
<1>3. CASE StartNext(c, s, check)
  <2>1. PICK due \in SUBSET {"update", "poll", "log"} :
          LET kind == IF IsUp THEN NextJob(check, due) ELSE "none" IN
          IF kind = "none" THEN job' = "none" /\ EndOfUpdate(c, s, FALSE)
                           ELSE Start(c, s, kind)
    BY <1>3 DEF StartNext
  <2> DEFINE kind == IF IsUp THEN NextJob(check, due) ELSE "none"
  <2>2. kind \in JobKinds \cup {"none"}
    BY NextJobType
  <2>3. Ready(c, s, "none") /\ UNCHANGED proven
    BY <1>2, <1>3 DEF StartNext
  <2>4. CASE kind = "none"
    <3>1. job' = "none" /\ config' = c
      BY <2>1, <2>4 DEF EndOfUpdate
    <3> QED BY <1>2, <2>3, <3>1, EndTrial
  <2>5. CASE kind # "none"
    <3>1. kind \in JobKinds /\ Start(c, s, kind)
      BY <2>1, <2>2, <2>5
    <3> QED BY <1>2, <2>3, <3>1, StartTrial
  <2> QED BY <2>4, <2>5
<1>4. CASE StillWaiting(c, s, check)
  <2>1. /\ config' = c /\ shared' = s
        /\ UNCHANGED <<job, proven, page, serving>>
    BY <1>4 DEF StillWaiting, EndOfUpdate
  <2>2. ProvenPlace' /\ NeverStranded'
    BY <1>2, <2>1 DEF ProvenPlace, NeverStranded, Safe, Place
  <2>3. ASSUME NEW q \in AgentRequests, Owes(shared, q)', job' = "heartbeat"
        PROVE  Fresh(shared, config, q)'
    BY <1>2, <2>1, <2>3 DEF AsksTheTrial, Owes, Fresh, Place
  <2> QED BY <2>2, <2>3 DEF TrialInv, AsksTheTrial
<1>5. CASE JobFailed(c, s, check)
  BY <1>2, <1>5, EndTrial DEF JobFailed, EndOfUpdate
<1>6. CASE Finish(c, s, check, bad)
  <2>1. s.jobs["System"].kind = "done"
    BY <1>6 DEF Finish
  <2>2. CASE job = "heartbeat" /\ FinishHeartbeat(c, s, check, answer, bad)
    BY <1>2, <2>1, <2>2, HeartbeatTrial
  <2>3. CASE job = "heartbeat" /\ FinishByReboot(c, answer, bad)
    <3>1. ProvenPlace' /\ Safe(proven', Confirmed(c, answer, bad))
      BY <1>2, <2>1, <2>3, ConfirmedTrial DEF FinishByReboot
    <3>2. config' = Confirmed(c, answer, bad) /\ job' = "none"
      BY <2>3 DEF FinishByReboot, Restart
    <3> QED BY <3>1, <3>2 DEF TrialInv, NeverStranded, AsksTheTrial, Safe, Place
  <2>4. CASE FinishVersion(c, s, check, answer)
    <3>1. Ready(c, TakeJobOn(s, "System"), "none")
      BY <1>2, <2>1, AnswerTaken
    <3>2. UNCHANGED proven
      BY <2>4 DEF FinishVersion
    <3>3. CASE answer.ok /\ answer.news
      <4>1. Start(c, TakeJobOn(s, "System"), "firmware") /\ "firmware" \in JobKinds
        BY <2>4, <3>3 DEF FinishVersion, JobKinds
      <4> QED BY <1>2, <3>1, <3>2, <4>1, StartTrial
    <3>4. CASE ~(answer.ok /\ answer.news)
      <4>1. job' = "none" /\ config' = c
        BY <2>4, <3>4 DEF FinishVersion, EndOfUpdate
      <4> QED BY <1>2, <3>2, <4>1, EndTrial
    <3> QED BY <3>3, <3>4
  <2>5. CASE FinishOther(c, s, check, answer)
    <3>1. UNCHANGED proven /\ config' = c /\ job' = "none"
      BY <2>5 DEF FinishOther, Restart, EndOfUpdate
    <3> QED BY <1>2, <3>1, EndTrial
  <2> QED BY <1>6, <2>2, <2>3, <2>4, <2>5 DEF Finish
<1> QED BY <1>1, <1>3, <1>4, <1>5, <1>6 DEF check, c, s

LEMMA TrialStep ==
  AgentInv /\ TrialInv /\ ~PortalEdits /\ [Next]_vars => TrialInv'
<1> SUFFICES ASSUME AgentInv, TrialInv, ~PortalEdits, [Next]_vars PROVE TrialInv'
  OBVIOUS
<1>1. CASE AgentUpdate
  BY <1>1, AgentTrialStep
<1>2. CASE ShellUpdate
  BY <1>2, ShellTrialStep
<1>3. CASE WifiProgress \/ WifiEvent
  BY <1>3, WifiTrialStep
<1>4. CASE TimePasses
  <2>1. UNCHANGED <<shared, page, serving, config, job, proven>>
    BY <1>4 DEF TimePasses, network
  <2> QED BY <2>1 DEF TrialInv, ProvenPlace, NeverStranded, AsksTheTrial, Owes, Fresh, Place
<1>5. CASE Reboot
  <2>1. UNCHANGED <<config, proven>> /\ job' = "none"
    BY <1>5 DEF Reboot, Restart
  <2> QED BY <2>1 DEF TrialInv, ProvenPlace, NeverStranded, AsksTheTrial, Place
<1>6. CASE UNCHANGED vars
  BY <1>6 DEF TrialInv, ProvenPlace, NeverStranded, AsksTheTrial, Owes, Fresh, Place,
              vars, network, deviceVars
<1> QED BY <1>1, <1>2, <1>3, <1>4, <1>5, <1>6 DEF Next

-----------------------------------------------------------------------------
(* The invariant holds in every state of the device. *)
THEOREM AgentInvariant == Spec => []AgentInv
<1>1. Init => AgentInv
  BY AgentInit
<1>2. AgentInv /\ [Next]_vars => AgentInv'
  BY AgentInvStep
<1> QED BY <1>1, <1>2, PTL DEF Spec

(* Every variable keeps its type (TypeOK). *)
THEOREM AgentTypeCorrect == Spec => []TypeOK
<1>1. AgentInv => TypeOK
  BY DEF AgentInv
<1> QED BY <1>1, AgentInvariant, PTL

(* The agent waits for an answer exactly when its lane holds a job, and it *)
(* gets the answer it waits for: no path through update, start, a revert,  *)
(* a command or a lost link leaves it waiting or confused (agent.rs).      *)
THEOREM AnswersAreAwaited == Spec => []WaitsForItsAnswer
<1>1. AgentInv => WaitsForItsAnswer
  BY DEF AgentInv, LaneOK, WaitsForItsAnswer
<1> QED BY <1>1, AgentInvariant, PTL

(* Between frames the network task uses the stored settings, or those that *)
(* the next frame stores (NetHandle::apply_config and its callers).        *)
THEOREM TargetFollowsConfig == Spec => []TargetIsConfig
<1>1. AgentInv => TargetIsConfig
  BY DEF AgentInv, TargetFollows, Follows, TargetIsConfig
<1> QED BY <1>1, AgentInvariant, PTL

(* While the user leaves server and name on the setup page, the settings   *)
(* in use are proven ones or have proven ones to go back to, whatever      *)
(* commands, answers, failing saves, lost links and restarts come: a       *)
(* device moved to a dead server comes back (agent.rs SERVER_TRIAL_MS).    *)
THEOREM TrialsLeadBack ==
  ASSUME ~PortalEdits
  PROVE  Spec => []NeverStranded
<1>1. Init => AgentInv /\ TrialInv
  BY AgentInit
<1>2. AgentInv /\ TrialInv /\ [Next]_vars => (AgentInv /\ TrialInv)'
  BY AgentInvStep, TrialStep
<1>3. AgentInv /\ TrialInv => NeverStranded
  BY DEF TrialInv
<1> QED BY <1>1, <1>2, <1>3, PTL DEF Spec

-----------------------------------------------------------------------------
(* The agent on the lanes: it implements AtomicLanes.                      *)

Owing == [lane \in Lanes |-> OwedOn(lane)]

LaneChange ==
  AgentLanes!Next \/ AgentLanes!Restart \/ UNCHANGED AgentLanes!vars

(* What a frame may make of the system lane: nothing, an answer taken, or  *)
(* a request made where none is pending.                                   *)
Kept(t) == t.requests = shared.requests /\ t.jobs = shared.jobs

AnswerGone(t) ==
  /\ shared.jobs["System"] # Pending
  /\ t.requests = shared.requests
  /\ t.jobs = [shared.jobs EXCEPT !["System"] = Idle]

RequestMade(t) ==
  /\ shared.jobs["System"] # Pending
  /\ \E r \in AgentRequests :
       /\ t.requests = [shared.requests EXCEPT !["System"] = r]
       /\ t.jobs = [shared.jobs EXCEPT !["System"] = Pending]

FrameOnLane(t) == Kept(t) \/ AnswerGone(t) \/ RequestMade(t)

LEMMA LanesRest ==
  ASSUME Kept(shared'), serving' = serving
  PROVE  UNCHANGED AgentLanes!vars
  BY DEF Kept, AgentLanes!vars, OwedOn

LEMMA FrameShowsOnLanes ==
  ASSUME AgentInv, FrameOnLane(shared'), serving' = serving
  PROVE  LaneChange
<1>1. shared \in SharedType /\ "System" \in Lanes
  BY NetTypes DEF AgentInv, TypeOK, Lanes
<1>2. CASE Kept(shared')
  BY <1>2, LanesRest DEF LaneChange
<1>3. CASE AnswerGone(shared')
  <2>1. Owing' = Owing
    BY <1>3 DEF AnswerGone, Owing, OwedOn
  <2>2. AgentLanes!TakeAnswer("System")
    BY <1>3, <2>1 DEF AnswerGone, Owing, AgentLanes!TakeAnswer, AgentLanes!Pending, AgentLanes!Idle,
                      Pending, Idle
  <2> QED BY <1>1, <2>2 DEF LaneChange, AgentLanes!Next, AgentLanes!LaneStep
<1>4. CASE RequestMade(shared')
  <2>1. PICK r \in AgentRequests :
          /\ shared'.requests = [shared.requests EXCEPT !["System"] = r]
          /\ shared'.jobs = [shared.jobs EXCEPT !["System"] = Pending]
    BY <1>4 DEF RequestMade
  <2>2. serving = None /\ shared.jobs["System"] # Pending
    BY <1>4 DEF RequestMade, AgentInv, LaneOK
  <2>3. Owing' = [Owing EXCEPT !["System"] = r]
    <3>1. ASSUME NEW l \in Lanes PROVE OwedOn(l)' = IF l = "System" THEN r ELSE OwedOn(l)
      BY <1>1, <2>1, <2>2 DEF OwedOn, SharedType
    <3> QED BY <3>1 DEF Owing
  <2>4. AgentLanes!Ask("System", r)
    BY <2>1, <2>2, <2>3 DEF AgentLanes!Ask, Owing, AgentLanes!Pending, Pending
  <2> QED BY <1>1, <2>4 DEF LaneChange, AgentLanes!Next, AgentLanes!LaneStep
<1> QED BY <1>2, <1>3, <1>4 DEF FrameOnLane

(* A restart empties the lanes. *)
LEMMA RestartShowsOnLanes ==
  ASSUME NEW c, Restart(c)
  PROVE  LaneChange
<1>1. /\ shared'.jobs = [l \in Lanes |-> Idle]
      /\ shared'.requests = [l \in Lanes |-> None]
      /\ serving' = None
  BY DEF Restart, NewShared
<1>2. Owing' = [l \in Lanes |-> None]
  BY <1>1 DEF Owing, OwedOn
<1> QED BY <1>1, <1>2 DEF LaneChange, AgentLanes!Restart, Owing, AgentLanes!Idle, Idle

LEMMA TakenOnLane ==
  ASSUME NEW s \in SharedType, Kept(s), s.jobs["System"] # Pending
  PROVE  AnswerGone(TakeJobOn(s, "System"))
  BY DEF TakeJobOn, SharedType, Lanes, Kept, AnswerGone

LEMMA FetchOnLane ==
  ASSUME NEW s \in SharedType, Kept(s) \/ AnswerGone(s), s.jobs["System"] # Pending,
         NEW r \in AgentRequests
  PROVE  RequestMade(FetchOn(s, "System", r))
<1>1. /\ FetchOn(s, "System", r).requests = [s.requests EXCEPT !["System"] = r]
      /\ FetchOn(s, "System", r).jobs = [s.jobs EXCEPT !["System"] = Pending]
  BY DEF FetchOn, SharedType
<1>2. CASE Kept(s)
  BY <1>1, <1>2 DEF Kept, RequestMade
<1>3. CASE AnswerGone(s)
  <2>1. [s.jobs EXCEPT !["System"] = Pending] = [shared.jobs EXCEPT !["System"] = Pending]
    BY <1>3 DEF AnswerGone
  <2> QED BY <1>1, <1>3, <2>1 DEF AnswerGone, RequestMade
<1> QED BY <1>2, <1>3

(* The end of the agent's part of a frame. *)
LEMMA StartShowsOnLanes ==
  ASSUME AgentInv, NEW c, NEW s, Ready(c, s, "none"), Kept(s) \/ AnswerGone(s),
         NEW kind \in JobKinds, Start(c, s, kind)
  PROVE  LaneChange
<1>1. CASE FetchAccepted(s, "System")
  <2> DEFINE r == [job |-> kind, to |-> Place(c)]
  <2>1. r \in AgentRequests
    BY PlaceType DEF Ready, AgentRequests
  <2>2. shared' = FetchOn(s, "System", r) /\ serving' = serving
    BY <1>1 DEF Start, EndOfUpdate
  <2>3. s \in SharedType /\ s.jobs["System"] # Pending
    BY <1>1 DEF Ready, FetchAccepted
  <2> HIDE DEF r
  <2>4. RequestMade(shared')
    BY <2>1, <2>2, <2>3, FetchOnLane
  <2> QED BY <2>2, <2>4, FrameShowsOnLanes DEF FrameOnLane
<1>2. CASE ~FetchAccepted(s, "System")
  <2>1. shared' = s /\ serving' = serving
    BY <1>2 DEF Start, EndOfUpdate
  <2> QED BY <2>1, FrameShowsOnLanes DEF FrameOnLane
<1> QED BY <1>1, <1>2

LEMMA FinishShowsOnLanes ==
  ASSUME AgentInv, NEW c, NEW s, Ready(c, s, job), Kept(s), NEW check \in BOOLEAN, NEW bad,
         Finish(c, s, check, bad)
  PROVE  LaneChange
<1> DEFINE answer == s.jobs["System"].reply
           taken == TakeJobOn(s, "System")
<1>1. /\ s.jobs["System"].kind = "done"
      /\ \/ FinishHeartbeat(c, s, check, answer, bad)
         \/ FinishByReboot(c, answer, bad)
         \/ FinishVersion(c, s, check, answer)
         \/ FinishOther(c, s, check, answer)
  BY DEF Finish
<1>2. s \in SharedType /\ s.jobs["System"] # Pending /\ Ready(c, taken, "none")
  BY <1>1, AnswerTaken DEF Ready
<1>3. AnswerGone(taken) /\ taken \in SharedType
  BY <1>2, TakenOnLane DEF Ready
<1> HIDE DEF taken
<1>4. ASSUME EndOfUpdate(c, taken, FALSE) PROVE LaneChange
  <2>1. shared' = taken /\ serving' = serving
    BY <1>4 DEF EndOfUpdate
  <2> QED BY <1>3, <2>1, FrameShowsOnLanes DEF FrameOnLane
<1>5. CASE FinishHeartbeat(c, s, check, answer, bad)
  <2>1. PICK place, t :
          /\ t \in {ApplyConfig(taken, place), RequestPortal(taken), taken}
          /\ shared' = t /\ serving' = serving
    BY <1>5 DEF FinishHeartbeat, EndOfUpdate, taken
  <2>2. t.requests = taken.requests /\ t.jobs = taken.jobs
    BY <1>3, <2>1 DEF SharedType, ApplyConfig, RequestPortal
  <2>3. AnswerGone(shared')
    BY <1>3, <2>1, <2>2 DEF AnswerGone
  <2> QED BY <2>1, <2>3, FrameShowsOnLanes DEF FrameOnLane
<1>6. CASE FinishByReboot(c, answer, bad)
  BY <1>6, RestartShowsOnLanes DEF FinishByReboot
<1>7. CASE FinishVersion(c, s, check, answer)
  <2>1. \/ Start(c, taken, "firmware")
        \/ EndOfUpdate(c, taken, FALSE)
    BY <1>7 DEF FinishVersion, taken
  <2>2. "firmware" \in JobKinds
    BY DEF JobKinds
  <2> QED BY <1>2, <1>3, <1>4, <2>1, <2>2, StartShowsOnLanes
<1>8. CASE FinishOther(c, s, check, answer)
  <2>1. Restart(c) \/ EndOfUpdate(c, taken, FALSE)
    BY <1>8 DEF FinishOther, taken
  <2> QED BY <1>4, <2>1, RestartShowsOnLanes
<1> QED BY <1>1, <1>5, <1>6, <1>7, <1>8

LEMMA AgentShowsOnLanes ==
  ASSUME AgentInv, AgentUpdate PROVE LaneChange
<1>1. PICK bad :
        \/ StartNext(Reverted(bad), Refreshed(bad), checkUpdate \/ checkRequested)
        \/ StillWaiting(Reverted(bad), Refreshed(bad), checkUpdate \/ checkRequested)
        \/ JobFailed(Reverted(bad), Refreshed(bad), checkUpdate \/ checkRequested)
        \/ Finish(Reverted(bad), Refreshed(bad), checkUpdate \/ checkRequested, bad)
  BY DEF AgentUpdate, Reverted, Refreshed, Woken
<1> DEFINE check == checkUpdate \/ checkRequested
           c == Reverted(bad)
           s == Refreshed(bad)
<1>2. Ready(c, s, job) /\ Kept(s)
  BY Prelude DEF AgentUpdate, Kept
<1>3. check \in BOOLEAN
  OBVIOUS
<1> HIDE DEF check, c, s
<1>4. CASE StartNext(c, s, check)
  <2>1. Ready(c, s, "none")
    BY <1>2, <1>4 DEF StartNext
  <2>2. \/ EndOfUpdate(c, s, FALSE)
        \/ \E kind \in JobKinds : Start(c, s, kind)
    <3>1. PICK kind \in JobKinds \cup {"none"} :
            IF kind = "none" THEN EndOfUpdate(c, s, FALSE) ELSE Start(c, s, kind)
      <4>1. PICK due \in SUBSET {"update", "poll", "log"} :
              LET kind == IF IsUp THEN NextJob(check, due) ELSE "none" IN
              IF kind = "none" THEN job' = "none" /\ EndOfUpdate(c, s, FALSE) ELSE Start(c, s, kind)
        BY <1>4 DEF StartNext
      <4>2. (IF IsUp THEN NextJob(check, due) ELSE "none") \in JobKinds \cup {"none"}
        BY NextJobType
      <4> QED BY <4>1, <4>2
    <3> QED BY <3>1
  <2>3. CASE EndOfUpdate(c, s, FALSE)
    BY <1>2, <2>3, FrameShowsOnLanes DEF EndOfUpdate, FrameOnLane
  <2> QED BY <1>2, <2>1, <2>2, <2>3, StartShowsOnLanes
<1>5. CASE StillWaiting(c, s, check)
  BY <1>2, <1>5, FrameShowsOnLanes DEF StillWaiting, EndOfUpdate, FrameOnLane
<1>6. CASE JobFailed(c, s, check)
  <2>1. shared' = TakeJobOn(s, "System") /\ serving' = serving /\ s.jobs["System"] # Pending
    BY <1>6, JobStates DEF JobFailed, EndOfUpdate
  <2>2. AnswerGone(shared')
    BY <1>2, <2>1, TakenOnLane DEF Ready
  <2> QED BY <2>1, <2>2, FrameShowsOnLanes DEF FrameOnLane
<1>7. CASE Finish(c, s, check, bad)
  BY <1>2, <1>3, <1>7, FinishShowsOnLanes
<1> QED BY <1>1, <1>4, <1>5, <1>6, <1>7 DEF check, c, s

(* The Wi-Fi task takes a request, which stays owed, or ends its fetch with *)
(* an answer of the server to that request.                                *)
LEMMA TaskShowsOnLanes ==
  ASSUME AgentInv, WifiProgress \/ WifiEvent PROVE LaneChange
<1>1. /\ shared \in SharedType
      /\ serving \in [lane : Lanes, request : AgentRequests] \cup {None}
      /\ serving # None <=> wifi = "fetch"
      /\ Awaiting
  BY NetTypes DEF AgentInv, TypeOK, WifiOK, WifiProgress, WifiEvent
<1>2. ASSUME NEW s \in SharedType, NEW fails, TopOfLoop(s, fails), Kept(s), serving' = serving
      PROVE  LaneChange
  <2>1. Kept(shared')
    BY <1>2 DEF TopOfLoop, SharedType, Kept
  <2> QED BY <1>2, <2>1, LanesRest DEF LaneChange
<1>3. Kept(shared)
  BY DEF Kept
<1>4. ASSUME NEW lane \in Lanes, Take(lane) PROVE LaneChange
  <2>1. /\ serving = None
        /\ serving' = [lane |-> lane, request |-> shared.requests[lane]]
        /\ shared'.jobs = shared.jobs
        /\ shared'.requests = [shared.requests EXCEPT ![lane] = None]
    BY <1>1, <1>4 DEF Take, SharedType
  <2>2. serving' # None
    <3>1. shared.requests[lane] \in AgentRequests
      BY <1>1, <1>4 DEF Take, SharedType
    <3> QED BY <2>1, <3>1, NothingAssumption DEF Lanes
  <2>3. \A l \in Lanes : OwedOn(l)' = OwedOn(l)
    BY <1>1, <2>1, <2>2 DEF OwedOn, SharedType
  <2>4. UNCHANGED AgentLanes!vars
    BY <2>1, <2>3 DEF AgentLanes!vars
  <2> QED BY <2>4 DEF LaneChange
<1>5. ASSUME NEW end, EndFetch(end),
             \/ end = Failed
             \/ \E answer \in AnswersTo(serving.request) : end = Done(answer)
      PROVE  LaneChange
  <2> DEFINE lane == serving.lane
  <2>1. serving # None /\ lane \in Lanes /\ serving.request \in AgentRequests
    BY <1>1, <1>5 DEF EndFetch
  <2>2. /\ serving' = None
        /\ shared'.jobs = [shared.jobs EXCEPT ![lane] = end]
        /\ shared'.requests = shared.requests
    BY <1>1, <1>5 DEF EndFetch, SharedType
  <2>3. shared.requests[lane] = None
    BY <2>1 DEF AgentInv, LaneOK
  <2>4. Owing[lane] = serving.request
    BY <2>1 DEF Owing, OwedOn
  <2>5. Owing' = [Owing EXCEPT ![lane] = None]
    <3>1. ASSUME NEW l \in Lanes PROVE OwedOn(l)' = IF l = lane THEN None ELSE OwedOn(l)
      BY <2>1, <2>2, <2>3 DEF OwedOn
    <3> QED BY <3>1 DEF Owing
  <2>6. end = Failed \/ \E answer \in [r \in AgentRequests |-> AnswersTo(r)][Owing[lane]] : end = Done(answer)
    BY <1>5, <2>1, <2>4
  <2>7. AgentLanes!Answer(lane)
    BY <2>1, <2>2, <2>4, <2>5, <2>6
    DEF AgentLanes!Answer, Owing, AgentLanes!Failed, AgentLanes!Done, Failed, Done
  <2> QED BY <2>1, <2>7 DEF LaneChange, AgentLanes!Next, AgentLanes!LaneStep
<1>6. CASE WifiProgress
  <2>1. CASE WaitConnect \/ NoFirmware \/ OpenHotspot \/ Joined \/ JoinRefused \/ GotLease \/ NoLease
               \/ (PortalTimeout /\ ~shared.ssid)
    <3>1. shared' = shared /\ serving' = serving
      BY <2>1 DEF WaitConnect, NoFirmware, OpenHotspot, Joined, JoinRefused, GotLease, NoLease,
                  PortalTimeout
    <3> QED BY <1>3, <3>1, LanesRest DEF LaneChange
  <2>2. CASE StartRadio \/ Pause \/ Retry \/ PortalBreak \/ (PortalTimeout /\ shared.ssid)
    <3>1. serving' = serving /\ \E fails : TopOfLoop(shared, fails)
      BY <2>2 DEF StartRadio, Pause, Retry, PortalBreak, PortalTimeout
    <3> QED BY <1>1, <1>2, <1>3, <3>1
  <2> QED BY <1>4, <1>5, <1>6, <2>1, <2>2 DEF WifiProgress, Progress
<1>7. CASE Answered
  BY <1>5, <1>7 DEF Answered
<1>8. CASE LinkLost
  BY <1>1, <1>2, <1>3, <1>8 DEF LinkLost
<1>9. CASE PageSaved
  <2>1. PICK settings : SavePage(settings) /\ settings \in Places
    BY NetTypes, NoneIsNothing, <1>9 DEF PageSaved, AgentInv, TypeOK, WifiOK
  <2> DEFINE s == [shared EXCEPT !.ssid = TRUE, !.target = settings, !.portalResult = settings]
  <2>2. s \in SharedType /\ Kept(s)
    BY <1>1, <2>1 DEF SharedType, Kept
  <2>3. TopOfLoop(s, 0) /\ serving' = serving
    BY <2>1 DEF SavePage
  <2> HIDE DEF s
  <2> QED BY <1>2, <2>2, <2>3
<1> QED BY <1>6, <1>7, <1>8, <1>9 DEF WifiEvent

(* The agent implements AtomicLanes: across every frame, command, trial    *)
(* and restart it asks only on a free lane, and each answer it takes is    *)
(* one the server gave to the very request it had made.                    *)
THEOREM AgentOnLanes == Spec => LanesAreOwn
<1>1. Init => AgentLanes!Init
  <2> SUFFICES ASSUME Init PROVE AgentLanes!Init
    OBVIOUS
  <2>1. /\ shared.jobs = [l \in Lanes |-> Idle]
        /\ shared.requests = [l \in Lanes |-> None]
        /\ serving = None
    BY DEF Init, NewShared
  <2>2. Owing = [l \in Lanes |-> None]
    BY <2>1 DEF Owing, OwedOn
  <2> QED BY <2>1, <2>2 DEF AgentLanes!Init, Owing, AgentLanes!Idle, Idle
<1>2. AgentInv /\ [Next]_vars => [AgentLanes!Next \/ AgentLanes!Restart]_(AgentLanes!vars)
  <2> SUFFICES ASSUME AgentInv, [Next]_vars PROVE LaneChange
    BY DEF LaneChange
  <2>1. CASE AgentUpdate
    BY <2>1, AgentShowsOnLanes
  <2>2. CASE ShellUpdate
    BY <2>2, ShellShared, LanesRest DEF LaneChange, Kept, ShellUpdate
  <2>3. CASE WifiProgress \/ WifiEvent
    BY <2>3, TaskShowsOnLanes
  <2>4. CASE TimePasses \/ UNCHANGED vars
    BY <2>4, LanesRest DEF LaneChange, Kept, TimePasses, vars, network
  <2>5. CASE Reboot
    BY <2>5, RestartShowsOnLanes DEF Reboot
  <2> QED BY <2>1, <2>2, <2>3, <2>4, <2>5 DEF Next
<1> QED BY <1>1, <1>2, AgentInvariant, PTL DEF Spec, AgentLanes!RestartingSpec, LanesAreOwn

=============================================================================
