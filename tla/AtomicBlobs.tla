---------------------------- MODULE AtomicBlobs -----------------------------
(***************************************************************************)
(* What os/src/storage promises of the blob slots: "a slot is either       *)
(* complete or invalid".  A slot is empty or holds a whole blob; a blob    *)
(* appears in an empty slot in one piece, is never altered, and goes away  *)
(* in one piece.                                                           *)
(***************************************************************************)

CONSTANTS
  Slots,
  Blobs,  (* what a slot can hold *)
  Empty   (* not in Blobs *)

VARIABLE slot

Init == slot \in [Slots -> Blobs \cup {Empty}]

Store(s, b) ==
  /\ slot[s] = Empty
  /\ slot' = [slot EXCEPT ![s] = b]

Erase(s) == slot' = [slot EXCEPT ![s] = Empty]

Next == \E s \in Slots : Erase(s) \/ \E b \in Blobs : Store(s, b)

Spec == Init /\ [][Next]_slot

(* The same where one step of the caller erases several slots.             *)
Clear(S) == slot' = [s \in Slots |-> IF s \in S THEN Empty ELSE slot[s]]

ClearingSpec == Init /\ [][Next \/ \E S \in SUBSET Slots : Clear(S)]_slot

=============================================================================
