--------------------------- MODULE NetworkProofs ---------------------------
(***************************************************************************)
(* The device's side of the network: the requests of NetService, the DHCP  *)
(* server of the hotspot, and the warnings on their way to the server.     *)
(***************************************************************************)
EXTENDS NetService, Leases, WarningLog, TLAPS

(* NetService: for every set of requests, answers and settings, and any    *)
(* number of refused joins, a pending job is one whose request is queued   *)
(* or under way.                                                           *)

(* The type of the struct Shared, as NetTypeOK has it.                     *)
SharedType ==
  [ connectRequested : BOOLEAN,
    portalRequested : BOOLEAN,
    portalResult : Settings \cup {None},
    ssid : BOOLEAN,
    target : Settings,
    requests : [Lanes -> Requests \cup {None}],
    jobs : [Lanes -> Jobs] ]

Loops == {"hotspot", "joining"}

-----------------------------------------------------------------------------
(* The four job states are different values.                               *)
LEMMA JobStates ==
  /\ Idle # Pending
  /\ Failed # Pending
  /\ \A a \in Answers : Done(a) # Pending /\ Done(a) \in Jobs
  /\ Idle \in Jobs /\ Pending \in Jobs /\ Failed \in Jobs
<1>1. Idle # Pending /\ Failed # Pending
  BY DEF Idle, Pending, Failed
<1>2. \A a \in Answers : Done(a) # Pending
  <2>1. ASSUME NEW a \in Answers PROVE Done(a).kind # Pending.kind
    BY DEF Done, Pending
  <2> QED BY <2>1
<1>3. \A a \in Answers : Done(a) \in Jobs
  BY DEF Done, Jobs
<1> QED BY <1>1, <1>2, <1>3 DEF Jobs

LEMMA InitNetIInv == NetInit => NetIInv
<1> SUFFICES ASSUME NetInit PROVE NetIInv
  OBVIOUS
<1> USE JobStates, NoneAssumption, MaxJoinFailuresAssumption
<1>1. NetTypeOK
  BY DEF NetInit, NetTypeOK, NewShared, Lanes
<1>2. PendingIsOwed
  BY DEF NetInit, PendingIsOwed, NewShared, Lanes
<1>3. ServedOnce /\ AttemptsLeft
  BY DEF NetInit, ServedOnce, AttemptsLeft
<1> QED BY <1>1, <1>2, <1>3 DEF NetIInv

-----------------------------------------------------------------------------
(* The head of the loop leaves queue and jobs alone. *)
LEMMA TopOfLoopStep ==
  ASSUME NetIInv, NEW s \in SharedType, NEW fails \in 0 .. MaxJoinFailures,
         s.requests = shared.requests, s.jobs = shared.jobs,
         TopOfLoop(s, fails), serving' = serving,
         page' \in Settings \cup {None}, wifi # "fetch"
  PROVE  NetIInv'
<1> USE MaxJoinFailuresAssumption
<1>1. /\ shared' = [s EXCEPT !.portalRequested = FALSE]
      /\ shared' \in SharedType
      /\ shared'.requests = shared.requests
      /\ shared'.jobs = shared.jobs
  BY DEF TopOfLoop, SharedType
<1>2. wifi' \in Loops /\ failures' = fails
  BY DEF TopOfLoop, Loops
<1>3. wifi' = "joining" => fails < MaxJoinFailures
  BY DEF TopOfLoop, PortalWanted
<1>4. NetTypeOK'
  BY <1>1, <1>2 DEF NetIInv, NetTypeOK, SharedType, Loops
<1>5. PendingIsOwed'
  BY <1>1 DEF NetIInv, PendingIsOwed
<1>6. ServedOnce'
  BY <1>1, <1>2 DEF NetIInv, ServedOnce, Loops
<1>7. AttemptsLeft'
  BY <1>2, <1>3 DEF AttemptsLeft, Loops
<1> QED BY <1>4, <1>5, <1>6, <1>7 DEF NetIInv

(* A step that only moves the Wi-Fi task on, outside of fetches. *)
LEMMA QuietStep ==
  ASSUME NetIInv, UNCHANGED <<shared, serving>>,
         wifi # "fetch",
         wifi' \in {"starting", "dead", "page", "pause", "dhcp", "retry", "serve"},
         failures' \in 0 .. MaxJoinFailures,
         wifi' = "dhcp" => failures' < MaxJoinFailures,
         page' \in Settings \cup {None}
  PROVE  NetIInv'
<1>1. NetTypeOK'
  BY DEF NetIInv, NetTypeOK
<1>2. PendingIsOwed'
  BY DEF NetIInv, PendingIsOwed
<1>3. ServedOnce' /\ AttemptsLeft'
  BY DEF NetIInv, ServedOnce, AttemptsLeft
<1> QED BY <1>1, <1>2, <1>3 DEF NetIInv

(* A request is taken from the queue. *)
LEMMA TakeStep ==
  ASSUME NetIInv, NEW lane \in Lanes, Take(lane)
  PROVE  NetIInv'
<1> USE NoneAssumption
<1>1. serving = None /\ shared \in SharedType
  BY DEF NetIInv, ServedOnce, Take, NetTypeOK, SharedType
<1>2. /\ serving' = [lane |-> lane, request |-> shared.requests[lane]]
      /\ shared' = [shared EXCEPT !.requests[lane] = None]
      /\ shared.requests[lane] # None
      /\ wifi' = "fetch" /\ failures' = failures /\ page' = page
  BY DEF Take
<1>3. /\ shared' \in SharedType
      /\ shared'.jobs = shared.jobs
      /\ shared'.requests = [shared.requests EXCEPT ![lane] = None]
  BY <1>1, <1>2 DEF SharedType
<1>4. serving' \in [lane : Lanes, request : Requests]
  BY <1>1, <1>2 DEF SharedType
<1>5. NetTypeOK'
  BY <1>2, <1>3, <1>4 DEF NetIInv, NetTypeOK, SharedType
<1>6. serving' # None /\ serving'.lane = lane
  BY <1>2, <1>4
<1>7. shared.jobs[lane] = Pending
  BY <1>2 DEF NetIInv, PendingIsOwed
<1>8. PendingIsOwed'
  <2> SUFFICES ASSUME NEW l \in Lanes
               PROVE shared'.jobs[l] = Pending <=>
                       \/ shared'.requests[l] # None
                       \/ serving' # None /\ serving'.lane = l
    BY DEF PendingIsOwed
  <2>1. CASE l = lane
    BY <2>1, <1>3, <1>6, <1>7
  <2>2. CASE l # lane
    BY <2>2, <1>1, <1>3, <1>6 DEF NetIInv, PendingIsOwed, SharedType
  <2> QED BY <2>1, <2>2
<1>9. ServedOnce'
  BY <1>1, <1>2, <1>3, <1>6 DEF ServedOnce, SharedType
<1>10. AttemptsLeft'
  BY <1>2 DEF AttemptsLeft
<1> QED BY <1>5, <1>8, <1>9, <1>10 DEF NetIInv

(* A fetch ends: its lane's job is done or failed, and owed no more. *)
LEMMA EndFetchStep ==
  ASSUME NetIInv, NEW job \in Jobs, job # Pending, EndFetch(job)
  PROVE  NetIInv'
<1> USE NoneAssumption
<1>1. /\ serving \in [lane : Lanes, request : Requests]
      /\ shared.requests[serving.lane] = None
      /\ shared \in SharedType
  BY DEF NetIInv, ServedOnce, EndFetch, NetTypeOK, SharedType
<1> DEFINE lane == serving.lane
<1>2. /\ lane \in Lanes
      /\ serving # None
  BY <1>1
<1>3. /\ shared' = [shared EXCEPT !.jobs[lane] = job]
      /\ serving' = None /\ wifi' = "serve" /\ failures' = failures /\ page' = page
  BY DEF EndFetch
<1>4. /\ shared' \in SharedType
      /\ shared'.requests = shared.requests
      /\ shared'.jobs = [shared.jobs EXCEPT ![lane] = job]
  BY <1>1, <1>2, <1>3 DEF SharedType
<1>5. NetTypeOK'
  BY <1>3, <1>4 DEF NetIInv, NetTypeOK, SharedType
<1>6. PendingIsOwed'
  <2> SUFFICES ASSUME NEW l \in Lanes
               PROVE shared'.jobs[l] = Pending <=> shared'.requests[l] # None
    BY <1>3 DEF PendingIsOwed
  <2>1. CASE l = lane
    BY <2>1, <1>1, <1>2, <1>4 DEF SharedType
  <2>2. CASE l # lane
    BY <2>2, <1>1, <1>2, <1>4 DEF NetIInv, PendingIsOwed, SharedType
  <2> QED BY <2>1, <2>2
<1>7. ServedOnce' /\ AttemptsLeft'
  BY <1>3 DEF ServedOnce, AttemptsLeft
<1> QED BY <1>5, <1>6, <1>7 DEF NetIInv

(* A caller asks for something. *)
LEMMA CallStep == ASSUME NetIInv, Call PROVE NetIInv'
<1> USE NoneAssumption, JobStates
<1>1. shared \in SharedType /\ UNCHANGED <<wifi, failures, page, serving>>
  BY DEF NetIInv, NetTypeOK, SharedType, Call
<1>2. ASSUME shared' \in SharedType,
             shared'.requests = shared.requests,
             \A l \in Lanes : shared'.jobs[l] = Pending <=> shared.jobs[l] = Pending
      PROVE  NetIInv'
  BY <1>1, <1>2 DEF NetIInv, NetTypeOK, SharedType, PendingIsOwed, ServedOnce, AttemptsLeft
<1>3. CASE shared' = RequestConnect(shared)
  BY <1>1, <1>2, <1>3 DEF RequestConnect, SharedType
<1>4. CASE shared' = RequestPortal(shared)
  BY <1>1, <1>2, <1>4 DEF RequestPortal, SharedType
<1>5. CASE shared' = TakePortalResult(shared)
  BY <1>1, <1>2, <1>5 DEF TakePortalResult, SharedType
<1>6. ASSUME NEW settings \in Settings, shared' = ApplyConfig(shared, settings)
      PROVE  NetIInv'
  BY <1>1, <1>2, <1>6 DEF ApplyConfig, SharedType
<1>7. ASSUME NEW lane \in Lanes, shared' = TakeJobOn(shared, lane)
      PROVE  NetIInv'
  <2>1. shared' \in SharedType /\ shared'.requests = shared.requests
    BY <1>1, <1>7 DEF TakeJobOn, SharedType
  <2>2. \A l \in Lanes : shared'.jobs[l] = Pending <=> shared.jobs[l] = Pending
    BY <1>1, <1>7 DEF TakeJobOn, SharedType
  <2> QED BY <1>2, <2>1, <2>2
<1>8. ASSUME NEW lane \in Lanes, NEW request \in Requests,
             FetchAccepted(shared, lane), shared' = FetchOn(shared, lane, request)
      PROVE  NetIInv'
  <2>1. /\ shared' \in SharedType
        /\ shared'.requests = [shared.requests EXCEPT ![lane] = request]
        /\ shared'.jobs = [shared.jobs EXCEPT ![lane] = Pending]
        /\ request # None
    BY <1>1, <1>8 DEF FetchOn, SharedType
  <2>2. serving # None => serving.lane # lane
    BY <1>8 DEF FetchAccepted, NetIInv, PendingIsOwed
  <2>3. NetTypeOK'
    BY <1>1, <2>1 DEF NetIInv, NetTypeOK, SharedType
  <2>4. PendingIsOwed'
    <3> SUFFICES ASSUME NEW l \in Lanes
                 PROVE shared'.jobs[l] = Pending <=>
                         \/ shared'.requests[l] # None
                         \/ serving' # None /\ serving'.lane = l
      BY DEF PendingIsOwed
    <3>1. CASE l = lane
      BY <3>1, <1>1, <2>1 DEF SharedType
    <3>2. CASE l # lane
      BY <3>2, <1>1, <2>1 DEF NetIInv, PendingIsOwed, SharedType
    <3> QED BY <3>1, <3>2
  <2>5. ServedOnce' /\ AttemptsLeft'
    <3>1. serving # None => serving.lane \in Lanes
      BY DEF NetIInv, NetTypeOK
    <3> QED BY <3>1, <1>1, <2>1, <2>2 DEF NetIInv, ServedOnce, AttemptsLeft, SharedType
  <2> QED BY <2>3, <2>4, <2>5 DEF NetIInv
<1> QED BY <1>3, <1>4, <1>5, <1>6, <1>7, <1>8 DEF Call

-----------------------------------------------------------------------------
(* Every step of the Wi-Fi task. *)
LEMMA ProgressStep == ASSUME NetIInv, Progress PROVE NetIInv'
<1> USE MaxJoinFailuresAssumption, JobStates
<1>1. /\ shared \in SharedType
      /\ failures \in 0 .. MaxJoinFailures
      /\ page \in Settings \cup {None}
      /\ 0 \in 0 .. MaxJoinFailures
  BY DEF NetIInv, NetTypeOK, SharedType
<1>2. CASE WaitConnect \/ NoFirmware
  BY <1>1, <1>2, QuietStep DEF WaitConnect, NoFirmware
<1>3. CASE StartRadio
  BY <1>1, <1>3, TopOfLoopStep DEF StartRadio
<1>4. CASE OpenHotspot
  <2>1. page' \in Settings \cup {None}
    BY <1>1, <1>4 DEF OpenHotspot, SharedType
  <2> QED BY <2>1, <1>1, <1>4, QuietStep DEF OpenHotspot
<1>5. CASE PortalTimeout
  <2>1. CASE shared.ssid /\ TopOfLoop(shared, 0)
    BY <2>1, <1>1, <1>5, TopOfLoopStep DEF PortalTimeout
  <2>2. CASE ~shared.ssid /\ wifi' = "pause" /\ failures' = 0 /\ UNCHANGED shared
    BY <2>2, <1>1, <1>5, QuietStep DEF PortalTimeout
  <2> QED BY <2>1, <2>2, <1>5 DEF PortalTimeout
<1>6. CASE Pause \/ Retry
  BY <1>1, <1>6, TopOfLoopStep DEF Pause, Retry
<1>7. CASE Joined
  <2>1. failures < MaxJoinFailures
    BY <1>7 DEF Joined, NetIInv, AttemptsLeft
  <2> QED BY <2>1, <1>1, <1>7, QuietStep DEF Joined
<1>8. CASE JoinRefused \/ NoLease
  <2>1. failures + 1 \in 0 .. MaxJoinFailures
    BY <1>1, <1>8 DEF JoinRefused, NoLease, NetIInv, AttemptsLeft
  <2> QED BY <2>1, <1>1, <1>8, QuietStep DEF JoinRefused, NoLease
<1>9. CASE GotLease
  BY <1>1, <1>9, QuietStep DEF GotLease
<1>10. CASE PortalBreak
  BY <1>1, <1>10, TopOfLoopStep DEF PortalBreak
<1>11. CASE \E lane \in Lanes : Take(lane)
  BY <1>11, TakeStep
<1>12. CASE EndFetch(Failed)
  BY <1>12, EndFetchStep
<1> QED BY <1>2, <1>3, <1>4, <1>5, <1>6, <1>7, <1>8, <1>9, <1>10, <1>11, <1>12 DEF Progress

LEMMA NetInvStep == NetIInv /\ [NetNext]_netVars => NetIInv'
<1> SUFFICES ASSUME NetIInv, [NetNext]_netVars PROVE NetIInv'
  OBVIOUS
<1> USE MaxJoinFailuresAssumption, JobStates
<1>1. shared \in SharedType /\ failures \in 0 .. MaxJoinFailures
      /\ page \in Settings \cup {None} /\ 0 \in 0 .. MaxJoinFailures
  BY DEF NetIInv, NetTypeOK, SharedType
<1>2. CASE Progress
  BY <1>2, ProgressStep
<1>3. ASSUME NEW settings \in Settings, SavePage(settings) PROVE NetIInv'
  <2> DEFINE s == [shared EXCEPT !.ssid = TRUE,
                                 !.target = settings,
                                 !.portalResult = settings]
  <2>1. s \in SharedType /\ s.requests = shared.requests /\ s.jobs = shared.jobs
    BY <1>1 DEF SharedType
  <2>2. /\ TopOfLoop(s, 0) /\ serving' = serving
        /\ page' \in Settings \cup {None} /\ wifi # "fetch"
    BY <1>3 DEF SavePage
  <2> HIDE DEF s
  <2> QED BY <1>1, <2>1, <2>2, TopOfLoopStep
<1>4. CASE LinkLost
  BY <1>1, <1>4, TopOfLoopStep DEF LinkLost
<1>5. CASE \E a \in Answers : EndFetch(Done(a))
  BY <1>5, EndFetchStep
<1>6. CASE Call
  BY <1>6, CallStep
<1>7. CASE UNCHANGED netVars
  BY <1>7 DEF netVars, NetIInv, NetTypeOK, PendingIsOwed, ServedOnce, AttemptsLeft
<1> QED BY <1>2, <1>3, <1>4, <1>5, <1>6, <1>7 DEF NetNext

-----------------------------------------------------------------------------
(* The inductive invariant holds of every behaviour of the service,        *)
(* whatever its callers do: joins that fail, a lost link, the hotspot      *)
(* opened and closed with requests still queued.                           *)
THEOREM NetInvariant == NetSpec => []NetIInv
<1>1. NetInit => NetIInv
  BY InitNetIInv
<1>2. NetIInv /\ [NetNext]_netVars => NetIInv'
  BY NetInvStep
<1> QED BY <1>1, <1>2, PTL DEF NetSpec

(* The type invariant; the count of refused joins never passes the limit   *)
(* at which the hotspot opens.                                             *)
THEOREM NetTypeCorrect == NetSpec => []NetTypeOK
<1>1. NetIInv => NetTypeOK
  BY DEF NetIInv
<1> QED BY <1>1, NetInvariant, PTL

(* No caller waits for an answer that cannot come, and no lane is answered *)
(* for a request it did not make.                                          *)
THEOREM JobsAreOwed == NetSpec => []PendingIsOwed
<1>1. NetIInv => PendingIsOwed
  BY DEF NetIInv
<1> QED BY <1>1, NetInvariant, PTL

-----------------------------------------------------------------------------
(* NetService implements AtomicLanes.  On the lanes nothing shows but an   *)
(* accepted request, an answer at the end of a fetch, and an answer taken. *)

(* The requests that are owed an answer, over all lanes. *)
Owing == [lane \in Lanes |-> OwedOn(lane)]

LEMMA LanesRest ==
  ASSUME shared'.requests = shared.requests, shared'.jobs = shared.jobs,
         serving' = serving
  PROVE  UNCHANGED NetLanes!vars
  BY DEF NetLanes!vars, OwedOn

LEMMA LoopRests ==
  ASSUME NEW s \in SharedType, NEW fails, TopOfLoop(s, fails),
         s.requests = shared.requests, s.jobs = shared.jobs, serving' = serving
  PROVE  UNCHANGED NetLanes!vars
<1>1. shared' = [s EXCEPT !.portalRequested = FALSE]
  BY DEF TopOfLoop
<1>2. shared'.requests = s.requests /\ shared'.jobs = s.jobs
  BY <1>1 DEF SharedType
<1> QED BY <1>2, LanesRest

(* A request that goes from the queue to the Wi-Fi task stays owed. *)
LEMMA TakenStaysOwed ==
  ASSUME NetIInv, NEW lane \in Lanes, Take(lane)
  PROVE  UNCHANGED NetLanes!vars
<1>1. /\ serving = None
      /\ shared \in SharedType
      /\ wifi = "serve"
  BY DEF NetIInv, ServedOnce, Take, NetTypeOK, SharedType
<1>2. /\ serving' = [lane |-> lane, request |-> shared.requests[lane]]
      /\ shared'.jobs = shared.jobs
      /\ shared'.requests = [shared.requests EXCEPT ![lane] = None]
  BY <1>1 DEF Take, SharedType
<1>3. serving' # None
  <2>1. shared.requests[lane] \in Requests
    BY <1>1 DEF Take, SharedType
  <2> QED BY <2>1, <1>2, NoneAssumption
<1>4. ASSUME NEW l \in Lanes PROVE OwedOn(l)' = OwedOn(l)
  BY <1>1, <1>2, <1>3 DEF OwedOn, SharedType
<1> QED BY <1>2, <1>4 DEF NetLanes!vars

(* The end of a fetch answers the lane it was for, and no other. *)
LEMMA FetchEndsInAnswer ==
  ASSUME NetIInv, NEW job, job = Failed \/ \E a \in Answers : job = Done(a), EndFetch(job)
  PROVE  NetLanes!Next
<1>1. /\ serving \in [lane : Lanes, request : Requests]
      /\ serving # None
      /\ shared \in SharedType
      /\ shared.requests[serving.lane] = None
  BY NoneAssumption DEF NetIInv, ServedOnce, EndFetch, NetTypeOK, SharedType
<1> DEFINE lane == serving.lane
<1>2. lane \in Lanes /\ serving.request \in Requests
  BY <1>1
<1>3. /\ serving' = None
      /\ shared'.jobs = [shared.jobs EXCEPT ![lane] = job]
      /\ shared'.requests = shared.requests
  BY <1>1 DEF EndFetch, SharedType
<1>4. Owing[lane] = serving.request
  BY <1>1, <1>2 DEF Owing, OwedOn
<1>5. Owing' = [Owing EXCEPT ![lane] = None]
  <2>1. ASSUME NEW l \in Lanes PROVE OwedOn(l)' = IF l = lane THEN None ELSE OwedOn(l)
    BY <1>1, <1>2, <1>3 DEF OwedOn
  <2> QED BY <2>1 DEF Owing
<1>6. NetLanes!Answer(lane)
  BY <1>2, <1>3, <1>4, <1>5
  DEF NetLanes!Answer, Owing, NetLanes!Failed, NetLanes!Done, Failed, Done
<1> QED BY <1>2, <1>6 DEF NetLanes!Next, NetLanes!LaneStep

(* What a caller does is a request, an answer taken, or nothing. *)
LEMMA CallsShowOnLanes ==
  ASSUME NetIInv, Call
  PROVE  NetLanes!Next \/ UNCHANGED NetLanes!vars
<1>1. shared \in SharedType /\ serving' = serving
  BY DEF NetIInv, NetTypeOK, SharedType, Call
<1>2. CASE shared' = RequestConnect(shared)
  BY <1>1, <1>2, LanesRest DEF RequestConnect, SharedType
<1>3. CASE shared' = RequestPortal(shared)
  BY <1>1, <1>3, LanesRest DEF RequestPortal, SharedType
<1>4. CASE shared' = TakePortalResult(shared)
  BY <1>1, <1>4, LanesRest DEF TakePortalResult, SharedType
<1>5. ASSUME NEW settings \in Settings, shared' = ApplyConfig(shared, settings)
      PROVE  UNCHANGED NetLanes!vars
  BY <1>1, <1>5, LanesRest DEF ApplyConfig, SharedType
<1>6. ASSUME NEW lane \in Lanes, shared' = TakeJobOn(shared, lane)
      PROVE  NetLanes!Next \/ UNCHANGED NetLanes!vars
  <2>1. /\ shared'.requests = shared.requests
        /\ shared'.jobs = [shared.jobs EXCEPT ![lane] = IF @ = Pending THEN Pending ELSE Idle]
    BY <1>1, <1>6 DEF TakeJobOn, SharedType
  <2>2. Owing' = Owing
    BY <1>1, <2>1 DEF Owing, OwedOn
  <2>3. CASE shared.jobs[lane] = Pending
    <3>1. shared'.jobs = shared.jobs
      BY <1>1, <2>1, <2>3 DEF SharedType
    <3> QED BY <3>1, <2>1, <1>1, LanesRest
  <2>4. CASE shared.jobs[lane] # Pending
    <3>1. NetLanes!TakeAnswer(lane)
      BY <2>1, <2>2, <2>4, <1>1
      DEF NetLanes!TakeAnswer, Owing, NetLanes!Pending, NetLanes!Idle, Pending, Idle, SharedType
    <3> QED BY <3>1 DEF NetLanes!Next, NetLanes!LaneStep
  <2> QED BY <2>3, <2>4
<1>7. ASSUME NEW lane \in Lanes, NEW request \in Requests,
             FetchAccepted(shared, lane), shared' = FetchOn(shared, lane, request)
      PROVE  NetLanes!Next
  <2>1. /\ shared'.requests = [shared.requests EXCEPT ![lane] = request]
        /\ shared'.jobs = [shared.jobs EXCEPT ![lane] = Pending]
        /\ shared.jobs[lane] # Pending
    BY <1>1, <1>7 DEF FetchOn, FetchAccepted, SharedType
  <2>2. serving # None => serving.lane # lane
    BY <2>1 DEF NetIInv, PendingIsOwed
  <2>3. Owing' = [Owing EXCEPT ![lane] = request]
    <3>1. ASSUME NEW l \in Lanes PROVE OwedOn(l)' = IF l = lane THEN request ELSE OwedOn(l)
      BY <1>1, <2>1, <2>2 DEF OwedOn, SharedType
    <3> QED BY <3>1 DEF Owing
  <2>4. NetLanes!Ask(lane, request)
    BY <2>1, <2>3 DEF NetLanes!Ask, Owing, NetLanes!Pending, Pending
  <2> QED BY <2>4 DEF NetLanes!Next, NetLanes!LaneStep
<1> QED BY <1>2, <1>3, <1>4, <1>5, <1>6, <1>7 DEF Call

LEMMA ProgressShowsOnLanes ==
  ASSUME NetIInv, Progress
  PROVE  NetLanes!Next \/ UNCHANGED NetLanes!vars
<1>1. shared \in SharedType
  BY DEF NetIInv, NetTypeOK, SharedType
<1>2. CASE WaitConnect \/ NoFirmware \/ OpenHotspot \/ Joined \/ JoinRefused \/ GotLease \/ NoLease
  BY <1>2, LanesRest
  DEF WaitConnect, NoFirmware, OpenHotspot, Joined, JoinRefused, GotLease, NoLease
<1>3. CASE StartRadio \/ Pause \/ Retry \/ PortalBreak
  BY <1>1, <1>3, LoopRests DEF StartRadio, Pause, Retry, PortalBreak
<1>4. CASE PortalTimeout
  BY <1>1, <1>4, LoopRests, LanesRest DEF PortalTimeout
<1>5. CASE \E lane \in Lanes : Take(lane)
  BY <1>5, TakenStaysOwed
<1>6. CASE EndFetch(Failed)
  BY <1>6, FetchEndsInAnswer
<1> QED BY <1>2, <1>3, <1>4, <1>5, <1>6 DEF Progress

LEMMA StepShowsOnLanes ==
  NetIInv /\ [NetNext]_netVars => [NetLanes!Next]_(NetLanes!vars)
<1> SUFFICES ASSUME NetIInv, [NetNext]_netVars PROVE NetLanes!Next \/ UNCHANGED NetLanes!vars
  OBVIOUS
<1>1. shared \in SharedType
  BY DEF NetIInv, NetTypeOK, SharedType
<1>2. CASE Progress
  BY <1>2, ProgressShowsOnLanes
<1>3. ASSUME NEW settings \in Settings, SavePage(settings) PROVE UNCHANGED NetLanes!vars
  <2> DEFINE s == [shared EXCEPT !.ssid = TRUE,
                                 !.target = settings,
                                 !.portalResult = settings]
  <2>1. s \in SharedType /\ s.requests = shared.requests /\ s.jobs = shared.jobs
    BY <1>1 DEF SharedType
  <2>2. TopOfLoop(s, 0) /\ serving' = serving
    BY <1>3 DEF SavePage
  <2> HIDE DEF s
  <2> QED BY <2>1, <2>2, LoopRests
<1>4. CASE LinkLost
  BY <1>1, <1>4, LoopRests DEF LinkLost
<1>5. CASE \E a \in Answers : EndFetch(Done(a))
  BY <1>5, FetchEndsInAnswer
<1>6. CASE Call
  BY <1>6, CallsShowOnLanes
<1>7. CASE UNCHANGED netVars
  BY <1>7, LanesRest DEF netVars
<1> QED BY <1>2, <1>3, <1>4, <1>5, <1>6, <1>7 DEF NetNext

(* The same without the fairness that NetSpec states.                      *)
LEMMA LanesImplemented == NetInit /\ [][NetNext]_netVars => LanesAreKept
<1>1. NetInit => NetLanes!Init
  <2> SUFFICES ASSUME NetInit PROVE NetLanes!Init
    OBVIOUS
  <2>1. /\ shared.jobs = [l \in Lanes |-> Idle]
        /\ shared.requests = [l \in Lanes |-> None]
        /\ serving = None
    BY DEF NetInit, NewShared
  <2>2. Owing = [l \in Lanes |-> None]
    BY <2>1 DEF Owing, OwedOn
  <2> QED BY <2>1, <2>2 DEF NetLanes!Init, Owing, NetLanes!Idle, Idle
<1>2. NetIInv /\ [NetNext]_netVars => [NetLanes!Next]_(NetLanes!vars)
  BY StepShowsOnLanes
<1>3. NetInit => NetIInv
  BY InitNetIInv
<1>4. NetIInv /\ [NetNext]_netVars => NetIInv'
  BY NetInvStep
<1> QED BY <1>1, <1>2, <1>3, <1>4, PTL DEF NetLanes!Spec, LanesAreKept

(* NetService implements AtomicLanes: whatever the radio does, and however *)
(* its callers interleave, each accepted request is answered once, on its  *)
(* own lane, and nobody's request or answer is lost to another.            *)
THEOREM LanesRefinement == NetSpec => LanesAreKept
  BY LanesImplemented, PTL DEF NetSpec

-----------------------------------------------------------------------------
(* Leases: for any phones and any length of the server's table.            *)

(* The host number of row r. *)
HostOf(r) == FirstHost + r - 1

(* The phones that have had a reply. *)
Replied(p) == \E m \in air : m \in Replies4(p)

(* A phone has one row. *)
RowsDiffer == \A r, s \in DOMAIN macs : macs[r] = macs[s] => r = s

(* Every reply to a phone of the table names its row. *)
RepliesAgree == \A r \in DOMAIN macs : \A m \in air \cap Replies4(macs[r]) : m.host = HostOf(r)

(* Only a phone that found the table full has a reply and no row. *)
NoRowNoReply ==
  \A p \in Phones : Replied(p) => (Len(macs) = TableSize) \/ (\E r \in DOMAIN macs : macs[r] = p)

(* A lease was acknowledged. *)
LeaseAcked == \A p \in Phones : lease[p] # Unleased => \E m \in air \cap Replies4(p) : m.host = lease[p]

LeasesInv == LeasesTypeOK /\ RowsDiffer /\ RepliesAgree /\ NoRowNoReply /\ LeaseAcked

(* The server starts with an empty table. *)
LEMMA InitLeases == LeasesInit => LeasesInv
<1> SUFFICES ASSUME LeasesInit PROVE LeasesInv
  OBVIOUS
<1>1. LeasesTypeOK
  BY LeasesAssumption DEF LeasesInit, LeasesTypeOK
<1>2. RowsDiffer /\ RepliesAgree
  BY DEF LeasesInit, RowsDiffer, RepliesAgree
<1>3. NoRowNoReply /\ LeaseAcked
  BY DEF LeasesInit, NoRowNoReply, Replied, LeaseAcked
<1> QED
  BY <1>1, <1>2, <1>3 DEF LeasesInv

(* What the table and a phone's row may become. *)
Fits(table, row, p) ==
  /\ table \in Seq(Phones) /\ Len(table) <= TableSize
  /\ Len(macs) <= Len(table)
  /\ \A r \in DOMAIN macs : table[r] = macs[r]
  /\ row \in Rows
  /\ \/ table = macs /\ row \in DOMAIN macs /\ macs[row] = p
     \/ /\ \A r \in DOMAIN macs : macs[r] # p
        /\ table = Append(macs, p) /\ row = Len(macs) + 1
        /\ Len(macs) < TableSize
     \/ /\ \A r \in DOMAIN macs : macs[r] # p
        /\ table = macs /\ Len(macs) = TableSize

LEMMA RowFacts ==
  ASSUME LeasesInv, NEW p \in Phones
  PROVE  Fits(RowOf(p).table, RowOf(p).row, p)
<1>0. /\ macs \in Seq(Phones) /\ Len(macs) <= TableSize /\ Len(macs) \in Nat
      /\ TableSize \in Nat \ {0}
  BY LeasesAssumption DEF LeasesInv, LeasesTypeOK
<1>1. CASE \E r \in DOMAIN macs : macs[r] = p
  <2> DEFINE row == CHOOSE r \in DOMAIN macs : macs[r] = p
  <2>1. RowOf(p) = [table |-> macs, row |-> row]
    BY <1>1 DEF RowOf
  <2>2. row \in DOMAIN macs /\ macs[row] = p
    BY <1>1
  <2> HIDE DEF row
  <2>3. Fits(macs, row, p)
    BY <2>2, <1>0 DEF Fits, Rows
  <2> QED
    BY <2>1, <2>3
<1>2. CASE ~(\E r \in DOMAIN macs : macs[r] = p) /\ Len(macs) < TableSize
  <2>1. RowOf(p) = [table |-> Append(macs, p), row |-> Len(macs) + 1]
    BY <1>2 DEF RowOf
  <2>2. Fits(Append(macs, p), Len(macs) + 1, p)
    BY <1>0, <1>2 DEF Fits, Rows
  <2> QED
    BY <2>1, <2>2
<1>3. CASE ~(\E r \in DOMAIN macs : macs[r] = p) /\ ~(Len(macs) < TableSize)
  <2>1. RowOf(p) = [table |-> macs, row |-> 1]
    BY <1>3 DEF RowOf
  <2>2. Fits(macs, 1, p)
    BY <1>0, <1>3 DEF Fits, Rows
  <2> QED
    BY <2>1, <2>2
<1> QED
  BY <1>1, <1>2, <1>3

(* The server answers one message. *)
LEMMA ServeKeeps == LeasesInv /\ Serve => LeasesInv'
<1> SUFFICES ASSUME LeasesInv, Serve PROVE LeasesInv'
  OBVIOUS
<1>1. PICK m \in air \cap Asks :
        /\ macs' = RowOf(m.mac).table
        /\ air' = air \cup CASE m.kind = "discover" -> {Reply("offer", m.mac, FirstHost + RowOf(m.mac).row - 1)}
                             [] m.kind = "request" -> {Reply("ack", m.mac, FirstHost + RowOf(m.mac).row - 1)}
                             [] OTHER -> {}
        /\ lease' = lease
  BY DEF Serve
<1> DEFINE p == m.mac
           found == RowOf(p)
           host == HostOf(found.row)
<1>2. p \in Phones
  BY <1>1 DEF Asks
<1>3. m.kind \in {"discover", "request", "other"}
  BY <1>1 DEF Asks
<1>4. PICK new : air' = air \cup new /\ new \subseteq {Reply("offer", p, host), Reply("ack", p, host)}
  BY <1>1, <1>3 DEF HostOf
<1> HIDE DEF p, found
<1>5. /\ found.table \in Seq(Phones) /\ Len(found.table) <= TableSize
      /\ Len(macs) <= Len(found.table)
      /\ \A r \in DOMAIN macs : found.table[r] = macs[r]
      /\ found.row \in Rows
      /\ \/ found.table = macs /\ found.row \in DOMAIN macs /\ macs[found.row] = p
         \/ /\ \A r \in DOMAIN macs : macs[r] # p
            /\ found.table = Append(macs, p) /\ found.row = Len(macs) + 1
            /\ Len(macs) < TableSize
         \/ /\ \A r \in DOMAIN macs : macs[r] # p
            /\ found.table = macs /\ Len(macs) = TableSize
  BY <1>2, RowFacts DEF found, Fits
<1>6. macs' = found.table
  BY <1>1 DEF p, found
<1>7. macs \in Seq(Phones) /\ Len(macs) \in Nat
  BY DEF LeasesInv, LeasesTypeOK
<1>8. macs' \in Seq(Phones) /\ Len(macs') \in Nat
  BY <1>5, <1>6
<1>9. host \in {FirstHost + r - 1 : r \in Rows}
  BY <1>5 DEF HostOf
<1>10. \A q \in Phones : new \cap Replies4(q) # {} => q = p
  BY <1>4 DEF Reply, Replies4
<1>11. LeasesTypeOK'
  <2>1. new \subseteq Replies4(p)
    BY <1>4, <1>9 DEF Reply, Replies4
  <2>2. air' \subseteq Asks \cup UNION {Replies4(q) : q \in Phones}
    BY <2>1, <1>2, <1>4 DEF LeasesInv, LeasesTypeOK
  <2> QED
    BY <2>2, <1>1, <1>5, <1>6, <1>8 DEF LeasesInv, LeasesTypeOK, Rows
<1>12. RowsDiffer'
  BY <1>5, <1>6, <1>7 DEF LeasesInv, RowsDiffer
<1>13. RepliesAgree'
  <2> SUFFICES ASSUME NEW r \in DOMAIN macs', NEW a \in air' \cap Replies4(macs'[r])
               PROVE  a.host = HostOf(r)
    BY DEF RepliesAgree
  <2>1. macs'[r] \in Phones
    BY <1>8
  <2>2. CASE a \in air /\ r \in DOMAIN macs
    BY <2>2, <1>5, <1>6 DEF LeasesInv, RepliesAgree
  <2>3. CASE a \in air /\ r \notin DOMAIN macs
    <3>1. /\ \A s \in DOMAIN macs : macs[s] # p
          /\ Len(macs) < TableSize /\ macs'[r] = p
      BY <2>3, <1>5, <1>6, <1>7, <1>8
    <3>2. Replied(p)
      BY <2>3, <3>1 DEF Replied
    <3>3. (Len(macs) = TableSize) \/ (\E s \in DOMAIN macs : macs[s] = p)
      BY <3>2, <1>2 DEF LeasesInv, NoRowNoReply
    <3> QED
      BY <3>1, <3>3, <1>7, LeasesAssumption
  <2>4. CASE a \in new
    <3>1. macs'[r] = p
      BY <2>4, <2>1, <1>10
    <3>2. a.host = HostOf(found.row)
      BY <2>4, <1>4 DEF Reply
    <3>3. found.row = r
      BY <3>1, <1>5, <1>6, <1>7, <1>8, <1>12 DEF LeasesInv, RowsDiffer
    <3> QED
      BY <3>2, <3>3
  <2> QED
    BY <2>2, <2>3, <2>4, <1>4
<1>14. NoRowNoReply'
  <2> SUFFICES ASSUME NEW q \in Phones, Replied(q)'
               PROVE  (Len(macs') = TableSize) \/ (\E r \in DOMAIN macs' : macs'[r] = q)
    BY DEF NoRowNoReply
  <2>1. CASE q = p
    <3>1. CASE found.table = macs /\ found.row \in DOMAIN macs /\ macs[found.row] = p
      BY <3>1, <2>1, <1>6
    <3>2. CASE found.table = Append(macs, p) /\ found.row = Len(macs) + 1
      <4>1. found.row \in DOMAIN macs' /\ macs'[found.row] = p
        BY <3>2, <1>6, <1>7, <1>2
      <4> QED
        BY <4>1, <2>1
    <3>3. CASE found.table = macs /\ Len(macs) = TableSize
      BY <3>3, <1>6
    <3> QED
      BY <3>1, <3>2, <3>3, <1>5
  <2>2. CASE q # p
    <3>1. Replied(q)
      BY <2>2, <1>4, <1>10 DEF Replied
    <3>2. (Len(macs) = TableSize) \/ (\E r \in DOMAIN macs : macs[r] = q)
      BY <3>1 DEF LeasesInv, NoRowNoReply
    <3>3. CASE Len(macs) = TableSize
      BY <3>3, <1>5, <1>6, <1>7, <1>8, LeasesAssumption
    <3>4. CASE \E r \in DOMAIN macs : macs[r] = q
      BY <3>4, <1>5, <1>6, <1>7, <1>8
    <3> QED
      BY <3>2, <3>3, <3>4
  <2> QED
    BY <2>1, <2>2
<1>15. LeaseAcked'
  BY <1>1, <1>4 DEF LeasesInv, LeaseAcked
<1> QED
  BY <1>11, <1>12, <1>13, <1>14, <1>15 DEF LeasesInv

(* A phone asks: no reply is new. *)
LEMMA AskKeeps == LeasesInv /\ PhoneAsks => LeasesInv'
<1> SUFFICES ASSUME LeasesInv, PhoneAsks PROVE LeasesInv'
  OBVIOUS
<1>1. macs' = macs /\ lease' = lease
  BY DEF PhoneAsks
<1>2. PICK p \in Phones, kind \in {"discover", "request", "other"} : air' = air \cup {Ask(kind, p)}
  BY DEF PhoneAsks
<1>3. Ask(kind, p) \in Asks
  BY DEF Ask, Asks
<1>4. \A q : Ask(kind, p) \notin Replies4(q)
  BY DEF Ask, Replies4
<1>5. LeasesTypeOK'
  BY <1>1, <1>2, <1>3 DEF LeasesInv, LeasesTypeOK
<1>6. RowsDiffer' /\ RepliesAgree' /\ NoRowNoReply' /\ LeaseAcked'
  BY <1>1, <1>2, <1>4 DEF LeasesInv, RowsDiffer, RepliesAgree, NoRowNoReply, Replied, LeaseAcked
<1> QED
  BY <1>5, <1>6 DEF LeasesInv

(* A phone takes an acknowledged address. *)
LEMMA TakeKeeps == LeasesInv /\ PhoneTakes => LeasesInv'
<1> SUFFICES ASSUME LeasesInv, PhoneTakes PROVE LeasesInv'
  OBVIOUS
<1>0. PICK p \in Phones : \E a \in air \cap Replies4(p) : lease' = [lease EXCEPT ![p] = a.host]
  BY DEF PhoneTakes
<1>1. PICK a \in air \cap Replies4(p) : lease' = [lease EXCEPT ![p] = a.host]
  BY <1>0
<1>2. macs' = macs /\ air' = air
  BY DEF PhoneTakes
<1>3. a.host \in {FirstHost + r - 1 : r \in Rows}
  BY DEF Replies4
<1>4. LeasesTypeOK'
  BY <1>1, <1>2, <1>3 DEF LeasesInv, LeasesTypeOK
<1>5. RowsDiffer' /\ RepliesAgree' /\ NoRowNoReply'
  BY <1>2 DEF LeasesInv, RowsDiffer, RepliesAgree, NoRowNoReply, Replied
<1>6. LeaseAcked'
  BY <1>1, <1>2 DEF LeasesInv, LeasesTypeOK, LeaseAcked
<1> QED
  BY <1>4, <1>5, <1>6 DEF LeasesInv

(* The invariant of the hotspot's addresses. *)
THEOREM LeasesInvariant == LeasesSpec => []LeasesInv
<1>1. LeasesInv /\ [LeasesNext]_leaseVars => LeasesInv'
  <2> SUFFICES ASSUME LeasesInv, [LeasesNext]_leaseVars PROVE LeasesInv'
    OBVIOUS
  <2>1. CASE LeasesNext
    BY <2>1, ServeKeeps, AskKeeps, TakeKeeps DEF LeasesNext
  <2>2. CASE UNCHANGED leaseVars
    BY <2>2 DEF leaseVars, LeasesInv, LeasesTypeOK, RowsDiffer, RepliesAgree, NoRowNoReply, Replied, LeaseAcked
  <2> QED
    BY <2>1, <2>2
<1> QED
  BY <1>1, InitLeases, PTL DEF LeasesSpec

(* Two phones of the table never share an address, and a phone keeps the   *)
(* one it was first offered, for any number of phones.                     *)
THEOREM LeasesNeverShared == LeasesSpec => []LeasesDiffer
<1>1. LeasesInv => LeasesDiffer
  <2> SUFFICES ASSUME LeasesInv PROVE LeasesDiffer
    OBVIOUS
  <2>1. \A r \in DOMAIN macs : lease[macs[r]] # Unleased => lease[macs[r]] = HostOf(r)
    <3> SUFFICES ASSUME NEW r \in DOMAIN macs, lease[macs[r]] # Unleased
                 PROVE  lease[macs[r]] = HostOf(r)
      OBVIOUS
    <3>1. macs[r] \in Phones
      BY DEF LeasesInv, LeasesTypeOK
    <3> QED
      BY <3>1 DEF LeasesInv, LeaseAcked, RepliesAgree
  <2>2. \A r, s \in DOMAIN macs : HostOf(r) = HostOf(s) => r = s
    BY DEF LeasesInv, LeasesTypeOK, HostOf, FirstHost
  <2> QED
    BY <2>1, <2>2 DEF LeasesDiffer, LeasesInv, RepliesAgree, HostOf
<1> QED
  BY <1>1, LeasesInvariant, PTL

-----------------------------------------------------------------------------
(* WarningLog: for any length of the ring and any number of warnings.      *)

Rises(s) == \A i, j \in DOMAIN s : i < j => s[i] < s[j]

(* A place of the ring, counted once around at most. *)
Around(a) == a % Lines

(* The unsent lines are the last ones written, each at its place. *)
RingInOrder ==
  \A k \in 1 .. ring.unsent :
    ring.lines[Around(ring.next + Lines - ring.unsent + k - 1)] = written - ring.unsent + k

(* What has left the ring, here and at the server. *)
Sent == received \o post

(* It left in order, and before what is still in the ring. *)
SentInOrder == Rises(Sent) /\ \A i \in DOMAIN Sent : Sent[i] <= written - ring.unsent

(* What left the ring was sent, lost with its POST, or overwritten. *)
SentOrLost ==
  \A w \in 1 .. written - ring.unsent :
    (\E i \in DOMAIN Sent : Sent[i] = w) \/ w \in lost \/ w <= written - Lines

LogInv == LogTypeOK /\ ring.unsent <= written /\ RingInOrder /\ SentInOrder /\ SentOrLost

LEMMA AroundTheRing ==
  ASSUME NEW a \in 0 .. 2 * Lines - 1
  PROVE  Around(a) = IF a < Lines THEN a ELSE a - Lines
<1>1. Lines \in Nat /\ Lines > 0
  BY LogAssumption
<1>2. CASE a < Lines
  BY <1>1, <1>2 DEF Around
<1>3. CASE a >= Lines
  BY <1>1, <1>3 DEF Around
<1> QED BY <1>1, <1>2, <1>3

(* Two pieces of a way. *)
LEMMA Concat ==
  ASSUME NEW S, NEW s \in Seq(S), NEW t \in Seq(S)
  PROVE  /\ s \o t \in Seq(S)
         /\ DOMAIN (s \o t) = 1 .. Len(s) + Len(t)
         /\ DOMAIN s = 1 .. Len(s) /\ Len(s) \in Nat
         /\ DOMAIN t = 1 .. Len(t) /\ Len(t) \in Nat
         /\ \A i \in DOMAIN t : t[i] \in S
         /\ \A i \in DOMAIN s : (s \o t)[i] = s[i]
         /\ \A i \in DOMAIN t : (s \o t)[Len(s) + i] = t[i]
         /\ \A i \in 1 .. Len(s) + Len(t) : i > Len(s) => (s \o t)[i] = t[i - Len(s)]
OBVIOUS

(* What drain_into copies. *)
LEMMA UnsentLines ==
  ASSUME LogInv
  PROVE  /\ Unsent = [k \in 1 .. ring.unsent |-> written - ring.unsent + k]
         /\ Unsent \in Seq(1 .. MaxWarnings)
         /\ DOMAIN Unsent = 1 .. ring.unsent
         /\ \A k \in 1 .. ring.unsent : Unsent[k] = written - ring.unsent + k
<1>1. ring.unsent \in Nat /\ written \in Nat /\ ring.unsent <= written /\ written <= MaxWarnings /\ MaxWarnings \in Nat
  BY LogAssumption DEF LogInv, LogTypeOK
<1>2. Unsent = [k \in 1 .. ring.unsent |-> written - ring.unsent + k]
  BY DEF LogInv, RingInOrder, Unsent, Around
<1>3. \A k \in 1 .. ring.unsent : written - ring.unsent + k \in 1 .. MaxWarnings
  BY <1>1
<1>4. [k \in 1 .. ring.unsent |-> written - ring.unsent + k] \in Seq(1 .. MaxWarnings)
  BY <1>1, <1>3
<1> QED BY <1>2, <1>4

(* The unsent lines, after others. *)
LEMMA ThenUnsent ==
  ASSUME LogInv, NEW s \in Seq(1 .. MaxWarnings), NEW way, way = s \o Unsent
  PROVE  /\ DOMAIN way = 1 .. Len(s) + ring.unsent
         /\ DOMAIN s = 1 .. Len(s) /\ Len(s) \in Nat
         /\ \A i \in DOMAIN s : way[i] = s[i]
         /\ \A i \in 1 .. Len(s) + ring.unsent : i > Len(s) => way[i] = written - ring.unsent + (i - Len(s))
<1>1. ring.unsent \in Nat /\ Len(s) \in Nat
  BY DEF LogInv, LogTypeOK
<1>2. Len(Unsent) = ring.unsent
  BY <1>1, UnsentLines
<1>3. /\ DOMAIN way = 1 .. Len(s) + Len(Unsent)
      /\ DOMAIN s = 1 .. Len(s)
      /\ \A i \in DOMAIN s : way[i] = s[i]
      /\ \A i \in 1 .. Len(s) + Len(Unsent) : i > Len(s) => way[i] = Unsent[i - Len(s)]
  BY UnsentLines, Concat
<1>4. \A i \in 1 .. Len(s) + ring.unsent : i > Len(s) => i - Len(s) \in 1 .. ring.unsent
  BY <1>1
<1>5. ASSUME NEW i \in 1 .. Len(s) + ring.unsent, i > Len(s)
      PROVE  way[i] = written - ring.unsent + (i - Len(s))
  <2>1. way[i] = Unsent[i - Len(s)]
    BY <1>2, <1>3, <1>5
  <2> QED BY <1>4, <1>5, <2>1, UnsentLines
<1> QED BY <1>1, <1>2, <1>3, <1>5

LEMMA RememberKeeps ==
  ASSUME LogInv, Remember
  PROVE  LogInv'
<1>1. /\ Lines \in Nat \ {0} /\ MaxWarnings \in Nat
      /\ ring.next \in 0 .. Lines - 1 /\ ring.unsent \in 0 .. Lines
      /\ written \in Nat /\ written < MaxWarnings /\ ring.unsent <= written
  BY LogAssumption DEF LogInv, LogTypeOK, Remember
<1>lines. ring.lines \in [0 .. Lines - 1 -> 0 .. MaxWarnings]
  BY DEF LogInv, LogTypeOK
<1>write. ring'.lines = [ring.lines EXCEPT ![ring.next] = written + 1]
  BY DEF Remember
<1>2. /\ written' = written + 1
      /\ ring'.next = Around(ring.next + 1)
      /\ ring'.unsent = IF ring.unsent = Lines THEN Lines ELSE ring.unsent + 1
  BY DEF Remember, Around
<1>3. ring'.next = IF ring.next + 1 = Lines THEN 0 ELSE ring.next + 1
  BY <1>1, <1>2, AroundTheRing
<1>4. LogTypeOK'
  <2>1. ring'.lines \in [0 .. Lines - 1 -> 0 .. MaxWarnings]
    BY <1>1, <1>lines, <1>write
  <2>2. ring'.next \in 0 .. Lines - 1 /\ ring'.unsent \in 0 .. Lines
    BY <1>1, <1>2, <1>3
  <2>3. ring' = [lines |-> ring'.lines, next |-> ring'.next, unsent |-> ring'.unsent]
    BY DEF Remember
  <2>4. ring' \in [lines : [0 .. Lines - 1 -> 0 .. MaxWarnings], next : 0 .. Lines - 1, unsent : 0 .. Lines]
    BY <2>1, <2>2, <2>3
  <2>5. UNCHANGED <<post, received, lost>>
    BY DEF Remember
  <2>6. written' \in 0 .. MaxWarnings
    BY <1>1, <1>2
  <2> QED BY <2>4, <2>5, <2>6 DEF LogInv, LogTypeOK
<1>5. ring'.unsent <= written'
  BY <1>1, <1>2
<1>6. RingInOrder'
  <2> SUFFICES ASSUME NEW k \in 1 .. ring'.unsent
               PROVE  ring'.lines[Around(ring'.next + Lines - ring'.unsent + k - 1)] = written' - ring'.unsent + k
    BY DEF RingInOrder
  <2> DEFINE place == Around(ring'.next + Lines - ring'.unsent + k - 1)
  <2>1. CASE k = ring'.unsent
    <3>1. place = ring.next
      BY <1>1, <1>2, <1>3, <2>1, AroundTheRing
    <3> QED BY <1>1, <1>2, <1>lines, <1>write, <2>1, <3>1
  <2>2. CASE k < ring'.unsent /\ ring.unsent < Lines
    <3>1. k \in 1 .. ring.unsent /\ ring'.unsent = ring.unsent + 1
      BY <1>1, <1>2, <2>2
    <3>2. place = Around(ring.next + Lines - ring.unsent + k - 1) /\ place \in 0 .. Lines - 1 /\ place # ring.next
      <4>1. ring.next + Lines - ring.unsent + k - 1 \in 0 .. 2 * Lines - 1
        BY <1>1, <3>1
      <4>2. ring'.next + Lines - ring'.unsent + k - 1 \in 0 .. 2 * Lines - 1
        BY <1>1, <1>3, <2>2, <3>1
      <4> QED BY <1>1, <1>3, <3>1, <2>2, <4>1, <4>2, AroundTheRing
    <3>3. ring.lines[Around(ring.next + Lines - ring.unsent + k - 1)] = written - ring.unsent + k
      BY <3>1 DEF LogInv, RingInOrder
    <3>4. ring'.lines[place] = ring.lines[place]
      BY <1>lines, <1>write, <3>2
    <3> QED BY <1>1, <1>2, <3>1, <3>2, <3>3, <3>4
  <2>3. CASE k < ring'.unsent /\ ring.unsent = Lines
    <3>1. k + 1 \in 1 .. ring.unsent /\ ring'.unsent = ring.unsent
      BY <1>1, <1>2, <2>3
    <3>2. place = Around(ring.next + Lines - ring.unsent + (k + 1) - 1) /\ place \in 0 .. Lines - 1 /\ place # ring.next
      <4>1. ring.next + Lines - ring.unsent + (k + 1) - 1 \in 0 .. 2 * Lines - 1
        BY <1>1, <3>1
      <4>2. ring'.next + Lines - ring'.unsent + k - 1 \in 0 .. 2 * Lines - 1
        BY <1>1, <1>3, <3>1
      <4> QED BY <1>1, <1>3, <3>1, <2>3, <4>1, <4>2, AroundTheRing
    <3>3. ring.lines[Around(ring.next + Lines - ring.unsent + (k + 1) - 1)] = written - ring.unsent + (k + 1)
      BY <3>1 DEF LogInv, RingInOrder
    <3>4. ring'.lines[place] = ring.lines[place]
      BY <1>lines, <1>write, <3>2
    <3> QED BY <1>1, <1>2, <2>3, <3>1, <3>2, <3>3, <3>4
  <2> QED BY <1>1, <1>2, <2>1, <2>2, <2>3
<1>7. Sent' = Sent /\ UNCHANGED lost
  BY DEF Remember, Sent
<1>8. Sent \in Seq(1 .. MaxWarnings)
  BY Concat DEF LogInv, LogTypeOK, Sent
<1>9. SentInOrder'
  <2>1. written - ring.unsent <= written' - ring'.unsent /\ written - ring.unsent \in Int /\ written' - ring'.unsent \in Int
    BY <1>1, <1>2
  <2>2. \A i \in DOMAIN Sent : Sent[i] \in Int /\ Sent[i] <= written - ring.unsent
    BY <1>1, <1>8 DEF LogInv, SentInOrder
  <2>3. \A i \in DOMAIN Sent : Sent[i] <= written' - ring'.unsent
    BY <2>1, <2>2
  <2> QED BY <1>7, <2>3 DEF LogInv, SentInOrder, Rises
<1>10. SentOrLost'
  <2> SUFFICES ASSUME NEW w \in 1 .. written' - ring'.unsent
               PROVE  (\E i \in DOMAIN Sent : Sent[i] = w) \/ w \in lost \/ w <= written' - Lines
    BY <1>7 DEF SentOrLost
  <2>1. CASE w \in 1 .. written - ring.unsent
    BY <1>1, <1>2, <2>1 DEF LogInv, SentOrLost
  <2>2. CASE w \notin 1 .. written - ring.unsent
    BY <1>1, <1>2, <2>2
  <2> QED BY <2>1, <2>2
<1> QED BY <1>4, <1>5, <1>6, <1>9, <1>10 DEF LogInv

LEMMA DrainKeeps ==
  ASSUME LogInv, Drain
  PROVE  LogInv'
<1>1. /\ received \in Seq(1 .. MaxWarnings) /\ MaxWarnings \in Nat
      /\ ring.unsent \in Nat /\ written \in Nat /\ ring.unsent <= written
  BY LogAssumption DEF LogInv, LogTypeOK
<1>2. /\ post = <<>> /\ post' = Unsent /\ received' = received
      /\ written' = written /\ lost' = lost
      /\ ring' = [ring EXCEPT !.unsent = 0]
  BY DEF Drain
<1>3. LogTypeOK' /\ ring'.unsent = 0
  <2>1. 0 \in 0 .. Lines
    BY LogAssumption
  <2>2. /\ ring' \in [lines : [0 .. Lines - 1 -> 0 .. MaxWarnings], next : 0 .. Lines - 1, unsent : 0 .. Lines]
        /\ ring'.unsent = 0
    BY <1>2, <2>1 DEF LogInv, LogTypeOK
  <2> QED BY <1>2, <2>2, UnsentLines DEF LogInv, LogTypeOK
<1>4. Sent = received
  BY <1>1, <1>2 DEF Sent
<1>5. /\ DOMAIN Sent' = 1 .. Len(received) + ring.unsent
      /\ DOMAIN received = 1 .. Len(received) /\ Len(received) \in Nat
      /\ \A i \in DOMAIN received : Sent'[i] = received[i]
      /\ \A i \in 1 .. Len(received) + ring.unsent : i > Len(received) => Sent'[i] = written - ring.unsent + (i - Len(received))
  BY <1>1, <1>2, ThenUnsent DEF Sent
<1>6. \A i \in DOMAIN received : received[i] \in Int /\ received[i] <= written - ring.unsent
  BY <1>1, <1>4 DEF LogInv, SentInOrder
<1>7. SentInOrder'
  <2>1. \A i \in DOMAIN Sent' : Sent'[i] <= written
    BY <1>1, <1>5, <1>6
  <2>2. ASSUME NEW i \in DOMAIN Sent', NEW j \in DOMAIN Sent', i < j
        PROVE  Sent'[i] < Sent'[j]
    <3>1. CASE j \in DOMAIN received
      BY <1>1, <1>4, <1>5, <2>2, <3>1 DEF LogInv, SentInOrder, Rises
    <3>2. CASE j > Len(received) /\ i \in DOMAIN received
      BY <1>1, <1>5, <1>6, <2>2, <3>2
    <3>3. CASE i > Len(received)
      <4>1. i \in 1 .. Len(received) + ring.unsent /\ j \in 1 .. Len(received) + ring.unsent /\ j > Len(received)
        BY <1>1, <1>5, <2>2, <3>3
      <4>2. /\ Sent'[i] = written - ring.unsent + (i - Len(received))
            /\ Sent'[j] = written - ring.unsent + (j - Len(received))
        BY <1>5, <3>3, <4>1
      <4> QED BY <1>1, <1>5, <2>2, <4>1, <4>2
    <3> QED BY <1>1, <1>5, <2>2, <3>1, <3>2, <3>3
  <2> QED BY <1>1, <1>2, <1>3, <2>1, <2>2 DEF SentInOrder, Rises
<1>8. SentOrLost'
  <2> SUFFICES ASSUME NEW w \in 1 .. written
               PROVE  (\E i \in DOMAIN Sent' : Sent'[i] = w) \/ w \in lost \/ w <= written - Lines
    BY <1>1, <1>2, <1>3 DEF SentOrLost
  <2>1. CASE w <= written - ring.unsent
    BY <1>1, <1>4, <1>5, <2>1 DEF LogInv, SentOrLost
  <2>2. CASE w > written - ring.unsent
    <3> DEFINE i == Len(received) + (w - (written - ring.unsent))
    <3>1. i \in 1 .. Len(received) + ring.unsent /\ i > Len(received)
      BY <1>1, <1>5, <2>2
    <3>2. Sent'[i] = written - ring.unsent + (i - Len(received))
      BY <1>5, <3>1
    <3>3. Sent'[i] = w
      BY <1>1, <1>5, <3>2
    <3> QED BY <1>5, <3>1, <3>3
  <2> QED BY <1>1, <2>1, <2>2
<1>9. RingInOrder' /\ ring'.unsent <= written'
  BY <1>1, <1>2, <1>3 DEF RingInOrder
<1> QED BY <1>3, <1>7, <1>8, <1>9 DEF LogInv

LEMMA PostKeeps ==
  ASSUME LogInv, Post
  PROVE  LogInv'
<1>1. /\ received \in Seq(1 .. MaxWarnings) /\ post \in Seq(1 .. MaxWarnings)
      /\ post' = <<>> /\ ring' = ring /\ written' = written
  BY DEF LogInv, LogTypeOK, Post
<1>2. RingInOrder' /\ ring'.unsent <= written'
  BY <1>1 DEF LogInv, RingInOrder
<1>3. CASE received' = received \o post /\ lost' = lost
  <2>1. Sent' = Sent
    BY <1>1, <1>3 DEF Sent
  <2>2. LogTypeOK'
    BY <1>1, <1>3, Concat DEF LogInv, LogTypeOK
  <2> QED BY <1>1, <1>2, <1>3, <2>1, <2>2 DEF LogInv, SentInOrder, SentOrLost, Rises
<1>4. CASE lost' = lost \cup {post[k] : k \in DOMAIN post} /\ received' = received
  <2>1. Sent' = received
    BY <1>1, <1>4 DEF Sent
  <2>2. /\ DOMAIN Sent = 1 .. Len(received) + Len(post)
        /\ DOMAIN received = 1 .. Len(received) /\ Len(received) \in Nat /\ Len(post) \in Nat
        /\ DOMAIN post = 1 .. Len(post)
        /\ \A i \in DOMAIN received : Sent[i] = received[i]
        /\ \A i \in 1 .. Len(received) + Len(post) : i > Len(received) => Sent[i] = post[i - Len(received)]
    BY <1>1, Concat DEF Sent
  <2>3. LogTypeOK'
    <3>1. \A k \in DOMAIN post : post[k] \in 1 .. MaxWarnings
      BY <1>1, Concat
    <3>2. post' \in Seq(1 .. MaxWarnings) /\ received' \in Seq(1 .. MaxWarnings)
      BY <1>1, <1>4
    <3>3. lost' \subseteq 1 .. MaxWarnings
      BY <1>4, <3>1 DEF LogInv, LogTypeOK
    <3> QED BY <1>1, <3>2, <3>3 DEF LogInv, LogTypeOK
  <2>4. SentInOrder'
    BY <1>1, <2>1, <2>2 DEF LogInv, SentInOrder, Rises
  <2>5. SentOrLost'
    <3> SUFFICES ASSUME NEW w \in 1 .. written - ring.unsent, w \notin lost', ~(w <= written - Lines)
                 PROVE  \E i \in DOMAIN received : received[i] = w
      BY <1>1, <2>1 DEF SentOrLost
    <3>1. PICK i \in DOMAIN Sent : Sent[i] = w
      BY <1>4 DEF LogInv, SentOrLost
    <3>2. CASE i > Len(received)
      <4>1. i - Len(received) \in DOMAIN post /\ w = post[i - Len(received)]
        BY <2>2, <3>1, <3>2
      <4> QED BY <1>4, <4>1
    <3>3. CASE ~(i > Len(received))
      BY <2>2, <3>1, <3>3
    <3> QED BY <3>2, <3>3
  <2> QED BY <1>2, <2>3, <2>4, <2>5 DEF LogInv
<1> QED BY <1>3, <1>4 DEF Post

(* The inductive invariant of the warnings, from the ring to the server.   *)
THEOREM LogInvariant == LogSpec => []LogInv
<1>1. LogInit => LogInv
  <2> SUFFICES ASSUME LogInit PROVE LogInv
    OBVIOUS
  <2>1. LogTypeOK /\ ring.unsent = 0 /\ written = 0 /\ Sent = <<>>
    BY LogAssumption DEF LogInit, LogTypeOK, Sent
  <2> QED BY <2>1 DEF LogInv, RingInOrder, SentInOrder, SentOrLost, Rises
<1>2. LogInv /\ [LogNext]_logVars => LogInv'
  <2> SUFFICES ASSUME LogInv, [LogNext]_logVars PROVE LogInv'
    OBVIOUS
  <2>1. CASE UNCHANGED logVars
    BY <2>1 DEF logVars, LogInv, LogTypeOK, RingInOrder, SentInOrder, SentOrLost, Rises, Sent
  <2> QED BY <2>1, RememberKeeps, DrainKeeps, PostKeeps DEF LogNext
<1> QED BY <1>1, <1>2, PTL DEF LogSpec

(* Every variable keeps its type: unsent never exceeds the ring.           *)
THEOREM LogTypeCorrect == LogSpec => []LogTypeOK
<1>1. LogInv => LogTypeOK
  BY DEF LogInv
<1> QED BY <1>1, LogInvariant, PTL

(* LogIsInOrder (drain_into and Body::RecentWarnings): the server reads    *)
(* the warnings in order and none twice, and the only ones missing were    *)
(* overwritten or lost with a failed POST.                                 *)
THEOREM WarningsInOrder == LogSpec => []LogIsInOrder
<1>1. ASSUME LogInv PROVE LogIsInOrder
  <2> DEFINE way == received \o post \o Unsent
  <2>1. /\ Sent \in Seq(1 .. MaxWarnings) /\ MaxWarnings \in Nat
        /\ ring.unsent \in Nat /\ written \in Nat /\ ring.unsent <= written
    BY <1>1, LogAssumption, Concat DEF LogInv, LogTypeOK, Sent
  <2>2. /\ DOMAIN way = 1 .. Len(Sent) + ring.unsent
        /\ DOMAIN Sent = 1 .. Len(Sent) /\ Len(Sent) \in Nat
        /\ \A i \in DOMAIN Sent : way[i] = Sent[i]
        /\ \A i \in 1 .. Len(Sent) + ring.unsent : i > Len(Sent) => way[i] = written - ring.unsent + (i - Len(Sent))
    BY <1>1, <2>1, ThenUnsent DEF Sent
  <2> HIDE DEF way
  <2>3. \A i \in DOMAIN Sent : Sent[i] \in Int /\ Sent[i] <= written - ring.unsent
    BY <1>1, <2>1 DEF LogInv, SentInOrder
  <2>4. ASSUME NEW i \in DOMAIN way, NEW j \in DOMAIN way, i < j
        PROVE  way[i] < way[j]
    <3>1. CASE j \in DOMAIN Sent
      BY <1>1, <2>1, <2>2, <2>4, <3>1 DEF LogInv, SentInOrder, Rises
    <3>2. CASE j > Len(Sent) /\ i \in DOMAIN Sent
      BY <2>1, <2>2, <2>3, <2>4, <3>2
    <3>3. CASE i > Len(Sent)
      <4>1. i \in 1 .. Len(Sent) + ring.unsent /\ j \in 1 .. Len(Sent) + ring.unsent /\ j > Len(Sent)
        BY <2>1, <2>2, <2>4, <3>3
      <4>2. /\ way[i] = written - ring.unsent + (i - Len(Sent))
            /\ way[j] = written - ring.unsent + (j - Len(Sent))
        BY <2>2, <3>3, <4>1
      <4> QED BY <2>1, <2>2, <2>4, <4>1, <4>2
    <3> QED BY <2>2, <2>4, <3>1, <3>2, <3>3
  <2>5. ASSUME NEW w \in 1 .. written
        PROVE  (\E i \in DOMAIN way : way[i] = w) \/ w \in lost \/ w <= written - Lines
    <3>1. CASE w <= written - ring.unsent
      BY <1>1, <2>1, <2>2, <3>1 DEF LogInv, SentOrLost
    <3>2. CASE w > written - ring.unsent
      <4> DEFINE i == Len(Sent) + (w - (written - ring.unsent))
      <4>1. i \in 1 .. Len(Sent) + ring.unsent /\ i > Len(Sent)
        BY <2>1, <2>2, <3>2
      <4>2. way[i] = written - ring.unsent + (i - Len(Sent))
        BY <2>2, <4>1
      <4>3. way[i] = w
        BY <2>1, <2>2, <4>2
      <4> QED BY <2>2, <4>1, <4>3
    <3> QED BY <2>1, <3>1, <3>2
  <2> QED BY <2>4, <2>5 DEF LogIsInOrder, way
<1> QED BY <1>1, LogInvariant, PTL

=============================================================================
