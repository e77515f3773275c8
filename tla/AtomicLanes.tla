---------------------------- MODULE AtomicLanes -----------------------------
(***************************************************************************)
(* What the calls of NetHandle promise on each lane of the network         *)
(* service: a request is accepted while none is pending, and then owed     *)
(* exactly one answer, its own or the word that it failed, which lies      *)
(* there until somebody takes it or asks for something else.  Nothing else *)
(* the service does shows on the lane, and no lane shows on another.       *)
(***************************************************************************)

CONSTANTS
  Lanes,
  Requests,
  AnswersOf,  (* per request, the answers it may get *)
  None        (* not in Requests *)

VARIABLES
  job,   (* per lane what job_on shows *)
  owed   (* per lane the request that is pending, or None *)

vars == <<job, owed>>

Idle == [kind |-> "idle"]
Pending == [kind |-> "pending"]
Failed == [kind |-> "failed"]
Done(a) == [kind |-> "done", reply |-> a]

Init ==
  /\ job = [l \in Lanes |-> Idle]
  /\ owed = [l \in Lanes |-> None]

Ask(l, r) ==
  /\ job[l] # Pending
  /\ job' = [job EXCEPT ![l] = Pending]
  /\ owed' = [owed EXCEPT ![l] = r]

Answer(l) ==
  /\ owed[l] \in Requests
  /\ \E j \in {Failed} \cup {Done(a) : a \in AnswersOf[owed[l]]} :
       job' = [job EXCEPT ![l] = j]
  /\ owed' = [owed EXCEPT ![l] = None]

TakeAnswer(l) ==
  /\ job[l] # Pending
  /\ job' = [job EXCEPT ![l] = Idle]
  /\ owed' = owed

LaneStep(l) == TakeAnswer(l) \/ Answer(l) \/ \E r \in Requests : Ask(l, r)

Next == \E l \in Lanes : LaneStep(l)

Spec == Init /\ [][Next]_vars

(* The same across restarts of the device, which empty the lanes.          *)
Restart ==
  /\ job' = [l \in Lanes |-> Idle]
  /\ owed' = [l \in Lanes |-> None]

RestartingSpec == Init /\ [][Next \/ Restart]_vars

=============================================================================
