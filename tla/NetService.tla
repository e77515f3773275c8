----------------------------- MODULE NetService ------------------------------
(***************************************************************************)
(* The network service: the Wi-Fi task of os/src/net/wifi.rs (join, DHCP,  *)
(* setup hotspot, one request at a time) and the calls of NetHandle in     *)
(* os/src/net/mod.rs.  They share the struct Shared behind a critical      *)
(* section.  One executor runs every task, so what a task does between two *)
(* awaits is one step; states of NetState that no await follows (Lost) are *)
(* never seen by anybody and have no value of "wifi".                      *)
(***************************************************************************)
EXTENDS Naturals

CONSTANTS
  Requests,         (* what a caller may fetch *)
  Answers,          (* what a finished fetch may return *)
  Settings,         (* server and frame name, as stored and as on the page *)
  MaxJoinFailures,  (* refused joins before the hotspot opens; 3 in the code *)
  None

Lanes == {"System", "App"}

ASSUME NoneAssumption ==
  None \notin Requests \cup Settings \cup [lane : Lanes, request : Requests]
ASSUME MaxJoinFailuresAssumption == MaxJoinFailures \in Nat

VARIABLES
  shared,    (* struct Shared *)
  wifi,      (* the await the Wi-Fi task is in *)
  failures,  (* joins that failed in a row *)
  page,      (* the settings the open portal page was built from *)
  serving    (* lane and request of the fetch under way *)

netVars == <<shared, wifi, failures, page, serving>>

Idle == [kind |-> "idle"]
Pending == [kind |-> "pending"]
Failed == [kind |-> "failed"]
Done(a) == [kind |-> "done", reply |-> a]

(* NetHandle::new on a board with a radio; ssid says whether a network is  *)
(* configured.                                                             *)
NewShared(settings, ssid) ==
  [ connectRequested |-> FALSE,
    portalRequested |-> FALSE,
    portalResult |-> None,
    ssid |-> ssid,
    target |-> settings,
    requests |-> [l \in Lanes |-> None],
    jobs |-> [l \in Lanes |-> Idle] ]

IsUp == wifi \in {"serve", "fetch"}

-----------------------------------------------------------------------------
(* The calls of NetHandle, as functions of Shared. *)

RequestConnect(s) == [s EXCEPT !.connectRequested = TRUE]

RequestPortal(s) ==
  [s EXCEPT !.connectRequested = TRUE, !.portalRequested = TRUE]

TakePortalResult(s) == [s EXCEPT !.portalResult = None]

(* Variant: the network task keeps the settings it has. *)
KeepTarget(s, settings) == s

ApplyConfig(s, settings) == [s EXCEPT !.target = settings]

(* Variant: no answer "busy". *)
FetchWithoutBusy(s, lane) == IsUp

(* Does fetch_on accept a request on the lane? *)
FetchAccepted(s, lane) == IsUp /\ s.jobs[lane] # Pending

FetchOn(s, lane, request) ==
  [s EXCEPT !.requests[lane] = request, !.jobs[lane] = Pending]

(* The answer is handed out once. *)
TakeJobOn(s, lane) ==
  [s EXCEPT !.jobs[lane] = IF @ = Pending THEN Pending ELSE Idle]

-----------------------------------------------------------------------------
(* The Wi-Fi task. *)

(* Variant: a network that keeps refusing is tried for ever. *)
PortalOnRequest(s, fails) == s.portalRequested \/ ~s.ssid

(* On request, when no network is configured, or when the network refuses. *)
PortalWanted(s, fails) ==
  s.portalRequested \/ ~s.ssid \/ fails >= MaxJoinFailures

(* The head of the loop: open the hotspot, or join.                        *)
TopOfLoop(s, fails) ==
  /\ wifi' = IF PortalWanted(s, fails) THEN "hotspot" ELSE "joining"
  /\ shared' = [s EXCEPT !.portalRequested = FALSE]
  /\ failures' = fails

(* The radio stays off until somebody asks for the network. *)
WaitConnect ==
  /\ wifi = "asleep"
  /\ shared.connectRequested
  /\ wifi' = "starting"
  /\ UNCHANGED <<shared, failures, page, serving>>

(* The radio firmware partition is empty: nothing more happens. *)
NoFirmware ==
  /\ wifi = "asleep"
  /\ shared.connectRequested
  /\ wifi' = "dead"
  /\ UNCHANGED <<shared, failures, page, serving>>

StartRadio ==
  /\ wifi = "starting"
  /\ TopOfLoop(shared, 0)
  /\ UNCHANGED <<page, serving>>

(* portal::run, up to the hotspot: the page shows the settings of now. *)
OpenHotspot ==
  /\ wifi = "hotspot"
  /\ wifi' = "page"
  /\ page' = shared.target
  /\ UNCHANGED <<shared, failures, serving>>

(* The user saved the page. *)
SavePage(settings) ==
  /\ wifi = "page"
  /\ page' = None
  /\ TopOfLoop([shared EXCEPT !.ssid = TRUE,
                              !.target = settings,
                              !.portalResult = settings], 0)
  /\ UNCHANGED serving

(* Five minutes passed.  Without a network to join, wait a moment first. *)
PortalTimeout ==
  /\ wifi = "page"
  /\ page' = None
  /\ \/ shared.ssid /\ TopOfLoop(shared, 0)
     \/ ~shared.ssid /\ wifi' = "pause" /\ failures' = 0 /\ UNCHANGED shared
  /\ UNCHANGED serving

Pause ==
  /\ wifi = "pause"
  /\ TopOfLoop(shared, failures)
  /\ UNCHANGED <<page, serving>>

Joined ==
  /\ wifi = "joining"
  /\ wifi' = "dhcp"
  /\ UNCHANGED <<shared, failures, page, serving>>

JoinRefused ==
  /\ wifi = "joining"
  /\ wifi' = "retry"
  /\ failures' = failures + 1
  /\ UNCHANGED <<shared, page, serving>>

GotLease ==
  /\ wifi = "dhcp"
  /\ wifi' = "serve"
  /\ failures' = 0
  /\ UNCHANGED <<shared, page, serving>>

(* Variant: a network that joins but hands out no address is no failure. *)
LeaseNotCounted ==
  /\ wifi = "dhcp"
  /\ wifi' = "retry"
  /\ failures' = 0
  /\ UNCHANGED <<shared, page, serving>>

NoLease ==
  /\ wifi = "dhcp"
  /\ wifi' = "retry"
  /\ failures' = failures + 1
  /\ UNCHANGED <<shared, page, serving>>

Retry ==
  /\ wifi = "retry"
  /\ TopOfLoop(shared, failures)
  /\ UNCHANGED <<page, serving>>

LinkLost ==
  /\ wifi = "serve"
  /\ TopOfLoop(shared, failures)
  /\ UNCHANGED <<page, serving>>

(* Variant: the serve loop does not look at the portal request. *)
NeverBreaks == FALSE /\ UNCHANGED netVars

(* The serve loop gives way to a portal request. *)
PortalBreak ==
  /\ wifi = "serve"
  /\ shared.portalRequested
  /\ TopOfLoop(shared, failures)
  /\ UNCHANGED <<page, serving>>

(* Variant: the app lane first. *)
AppFirst(lane) == lane = "System" => shared.requests["App"] = None

(* "The system lane goes first." *)
MayGo(lane) == lane = "App" => shared.requests["System"] = None

Take(lane) ==
  /\ wifi = "serve"
  /\ ~shared.portalRequested
  /\ shared.requests[lane] # None
  /\ MayGo(lane)
  /\ serving' = [lane |-> lane, request |-> shared.requests[lane]]
  /\ shared' = [shared EXCEPT !.requests[lane] = None]
  /\ wifi' = "fetch"
  /\ UNCHANGED <<failures, page>>

(* http::fetch returned: the job of the lane is done, or failed. *)
EndFetch(job) ==
  /\ wifi = "fetch"
  /\ shared' = [shared EXCEPT !.jobs[serving.lane] = job]
  /\ serving' = None
  /\ wifi' = "serve"
  /\ UNCHANGED <<failures, page>>

(* What the task does by itself; every await in it ends. *)
Progress ==
  \/ WaitConnect \/ NoFirmware \/ StartRadio
  \/ OpenHotspot \/ PortalTimeout \/ Pause
  \/ Joined \/ JoinRefused \/ GotLease \/ NoLease \/ Retry
  \/ PortalBreak
  \/ \E lane \in Lanes : Take(lane)
  \/ EndFetch(Failed)

-----------------------------------------------------------------------------
(* The service with callers that do anything at any time; the agent and    *)
(* the apps are such callers.                                              *)

NetInit ==
  /\ \E settings \in Settings, ssid \in BOOLEAN : shared = NewShared(settings, ssid)
  /\ wifi = "asleep"
  /\ failures = 0
  /\ page = None
  /\ serving = None

Call ==
  /\ \/ shared' = RequestConnect(shared)
     \/ shared' = RequestPortal(shared)
     \/ shared' = TakePortalResult(shared)
     \/ \E settings \in Settings : shared' = ApplyConfig(shared, settings)
     \/ \E lane \in Lanes : shared' = TakeJobOn(shared, lane)
     \/ \E lane \in Lanes, request \in Requests :
          /\ FetchAccepted(shared, lane)
          /\ shared' = FetchOn(shared, lane, request)
  /\ UNCHANGED <<wifi, failures, page, serving>>

NetNext ==
  \/ Progress
  \/ \E settings \in Settings : SavePage(settings)
  \/ LinkLost
  \/ \E a \in Answers : EndFetch(Done(a))
  \/ Call

NetSpec ==
  /\ NetInit
  /\ [][NetNext]_netVars
  /\ WF_netVars(Progress)

-----------------------------------------------------------------------------
Jobs == {Idle, Pending, Failed} \cup [kind : {"done"}, reply : Answers]

(* Every variable has its type, and failures stays a small number. *)
NetTypeOK ==
  /\ shared \in [ connectRequested : BOOLEAN,
                  portalRequested : BOOLEAN,
                  portalResult : Settings \cup {None},
                  ssid : BOOLEAN,
                  target : Settings,
                  requests : [Lanes -> Requests \cup {None}],
                  jobs : [Lanes -> Jobs] ]
  /\ wifi \in {"asleep", "starting", "dead", "hotspot", "page", "pause",
               "joining", "dhcp", "retry", "serve", "fetch"}
  /\ failures \in 0 .. MaxJoinFailures
  /\ page \in Settings \cup {None}
  /\ serving \in [lane : Lanes, request : Requests] \cup {None}

(* A job is pending exactly while its request is queued or under way: no   *)
(* caller waits for an answer that cannot come, and none is answered for a *)
(* request it did not make.  Requests survive a lost link and the hotspot. *)
PendingIsOwed ==
  \A lane \in Lanes :
    shared.jobs[lane] = Pending <=>
      \/ shared.requests[lane] # None
      \/ serving # None /\ serving.lane = lane

(* The inductive invariant. *)

(* A fetch is under way exactly when the Wi-Fi task is in it, and then the *)
(* request is no longer queued.                                            *)
ServedOnce ==
  /\ serving # None <=> wifi = "fetch"
  /\ serving # None => shared.requests[serving.lane] = None

(* The task joins only while it has attempts left. *)
AttemptsLeft == wifi \in {"joining", "dhcp"} => failures < MaxJoinFailures

NetIInv == NetTypeOK /\ PendingIsOwed /\ ServedOnce /\ AttemptsLeft

(* Once somebody asked for the network, the task keeps coming back to a    *)
(* state in which the user or the server can reach the device: up, on the  *)
(* setup page, or known to have no radio firmware.  Refused joins and      *)
(* missing leases end in the hotspot.                                      *)
ReachableAgain ==
  shared.connectRequested ~> (IsUp \/ wifi \in {"page", "dead"})

(* A portal request opens the hotspot, whatever the task is doing. *)
PortalOpens == shared.portalRequested ~> wifi \in {"hotspot", "dead"}

(* While the network stays up a system request is answered, whatever the   *)
(* app on screen asks for: "the device must stay serviceable".             *)
SystemIsServed ==
  <>[]IsUp => (shared.jobs["System"] = Pending ~> shared.jobs["System"] # Pending)

(* Leaving the hotspot with a network configured means joining it: the     *)
(* README's "stores the settings, closes the hotspot and joins your        *)
(* network" and "gives up after five minutes and retries the saved         *)
(* network".                                                               *)
HotspotThenJoin ==
  [][wifi = "page" /\ wifi' # "page" /\ shared'.ssid => wifi' = "joining"]_netVars

-----------------------------------------------------------------------------
(* The request a lane owes an answer to: queued, or under way. *)
OwedOn(lane) ==
  IF serving # None /\ serving.lane = lane THEN serving.request ELSE shared.requests[lane]

NetLanes == INSTANCE AtomicLanes WITH
  AnswersOf <- [r \in Requests |-> Answers],
  job <- shared.jobs, owed <- [lane \in Lanes |-> OwedOn(lane)]

(* What net/mod.rs promises its callers: each accepted request gets one    *)
(* answer, never that of another request or lane, whatever the radio does  *)
(* in between.                                                             *)
LanesAreKept == NetLanes!Spec

=============================================================================
