----------------------------- MODULE WarningLog -----------------------------
(* The ring of recent warnings (src/os/src/logging.rs) and its way to the  *)
(* server (Body::RecentWarnings in src/os/src/net/http.rs).  A warning is  *)
(* its number.  The buffer of the POST holds the whole ring.               *)
EXTENDS Integers, Sequences

CONSTANTS
  Lines,        \* LINES of the ring
  MaxWarnings   \* bound: warnings written

ASSUME LogAssumption == Lines \in Nat \ {0} /\ MaxWarnings \in Nat

VARIABLES
  ring,      \* lines, next, unsent
  written,   \* warnings written so far
  post,      \* the lines of the POST under way
  received,  \* what the server has, in order
  lost       \* observation: in a POST that failed

logVars == <<ring, written, post, received, lost>>

(* remember: a full ring overwrites its oldest line. *)
Remember ==
  /\ written < MaxWarnings
  /\ written' = written + 1
  /\ ring' = [lines |-> [ring.lines EXCEPT ![ring.next] = written + 1],
              next |-> (ring.next + 1) % Lines,
              unsent |-> IF ring.unsent = Lines THEN Lines ELSE ring.unsent + 1]
  /\ UNCHANGED <<post, received, lost>>

(* Variant: the lines from the start of the ring. *)
FromTheStart == [k \in 1 .. ring.unsent |-> ring.lines[k - 1]]

(* drain_into: the unsent lines, oldest first. *)
Unsent == [k \in 1 .. ring.unsent |-> ring.lines[(ring.next + Lines - ring.unsent + k - 1) % Lines]]

(* The agent posts when something is unsent; the lines are marked before   *)
(* the POST is written.                                                    *)
Drain ==
  /\ ring.unsent > 0 /\ post = <<>>
  /\ post' = Unsent
  /\ ring' = [ring EXCEPT !.unsent = 0]
  /\ UNCHANGED <<written, received, lost>>

(* The POST arrives, with or without its answer, or not at all. *)
Post ==
  /\ post # <<>>
  /\ post' = <<>>
  /\ \/ received' = received \o post /\ UNCHANGED lost
     \/ lost' = lost \cup {post[k] : k \in DOMAIN post} /\ UNCHANGED received
  /\ UNCHANGED <<ring, written>>

LogInit ==
  /\ ring = [lines |-> [i \in 0 .. Lines - 1 |-> 0], next |-> 0, unsent |-> 0]
  /\ written = 0
  /\ post = <<>>
  /\ received = <<>>
  /\ lost = {}

LogNext == Remember \/ Drain \/ Post

LogSpec == LogInit /\ [][LogNext]_logVars

-----------------------------------------------------------------------------
LogTypeOK ==
  /\ ring \in [lines : [0 .. Lines - 1 -> 0 .. MaxWarnings], next : 0 .. Lines - 1, unsent : 0 .. Lines]
  /\ written \in 0 .. MaxWarnings
  /\ post \in Seq(1 .. MaxWarnings) /\ received \in Seq(1 .. MaxWarnings)
  /\ lost \subseteq 1 .. MaxWarnings

(* The server reads warnings in the order they were written and none       *)
(* twice; a warning is only missing when the ring was full, or when the    *)
(* POST that carried it failed.                                            *)
LogIsInOrder ==
  LET way == received \o post \o Unsent
  IN /\ \A i, j \in DOMAIN way : i < j => way[i] < way[j]
     /\ \A w \in 1 .. written : (\E i \in DOMAIN way : way[i] = w) \/ w \in lost \/ w <= written - Lines

=============================================================================
