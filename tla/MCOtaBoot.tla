----------------------------- MODULE MCOtaBoot ------------------------------
(* Two images beside the first: one that never reaches the server, one     *)
(* that crashes; or only one, with a longer config record.                 *)
EXTENDS OtaBoot

CONSTANTS first, better, deaf, broken

AllImages == {first, better, deaf, broken}
SameLength == [i \in {first, better, deaf, broken} |-> 1]
FirstAndDeaf == {first, deaf}
LongerRecord == [i \in {first, deaf} |-> IF i = first THEN 1 ELSE 2]

=============================================================================
