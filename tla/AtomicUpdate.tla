---------------------------- MODULE AtomicUpdate ----------------------------
(***************************************************************************)
(* What the trial boot of os/src/main.rs promises: "an update can then     *)
(* never strand a device we only reach over the network".  There always is *)
(* one image to go back to; whatever a download left behind runs on trial  *)
(* only, and takes its place once it has reached the server itself.        *)
(***************************************************************************)

CONSTANTS
  Factory,
  Reaching,  (* the images that can reach the server *)
  Contents   (* what may be swapped in: images and other bytes *)

VARIABLES
  running,
  onTrial,  (* does it run on trial? *)
  good,     (* the image to go back to *)
  reached   (* the images that have reached the server *)

vars == <<running, onTrial, good, reached>>

Init ==
  /\ running = Factory
  /\ onTrial = FALSE
  /\ good = Factory
  /\ reached = {Factory}

(* The boot loader swaps in what was downloaded. *)
Try(content) ==
  /\ ~onTrial
  /\ onTrial' = TRUE
  /\ running' = content
  /\ UNCHANGED <<good, reached>>

(* What runs reaches the server. *)
Reach ==
  /\ running \in Reaching
  /\ reached' = reached \cup {running}
  /\ UNCHANGED <<running, onTrial, good>>

(* The image on trial is kept. *)
Keep ==
  /\ onTrial
  /\ running \in reached
  /\ onTrial' = FALSE
  /\ good' = running
  /\ UNCHANGED <<running, reached>>

(* The boot loader swaps it out again. *)
GoBack ==
  /\ onTrial
  /\ onTrial' = FALSE
  /\ running' = good
  /\ UNCHANGED <<good, reached>>

Next == (\E content \in Contents : Try(content)) \/ Reach \/ Keep \/ GoBack

Spec == Init /\ [][Next]_vars

=============================================================================
