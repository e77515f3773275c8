---------------------------- MODULE AtomicConfig ----------------------------
(***************************************************************************)
(* What os/src/storage promises of the config record: to everybody above   *)
(* it the config is one cell that survives a power cut.  A save that       *)
(* returned Ok is what the next start finds; one that failed, or that the  *)
(* power cut interrupted, either happened entirely or not at all; nothing  *)
(* else changes the cell.                                                  *)
(***************************************************************************)

CONSTANTS
  Configs,  (* the values a config can take *)
  Off       (* the live config of a device without power; not in Configs *)

VARIABLES
  live,     (* the config in RAM, or Off *)
  durable   (* the config a start of the device would find *)

vars == <<live, durable>>

Init ==
  /\ durable \in Configs
  /\ live = Off

(* update_config returned Ok. *)
Save(c) ==
  /\ live # Off
  /\ live' = c
  /\ durable' = c

(* update_config returned an error, or is still under way.  The live       *)
(* config stays; the flash holds either it or the one being saved.         *)
SaveUnacknowledged(c) ==
  /\ live # Off
  /\ live' = live
  /\ durable' \in {live, c}

(* A power cut, in the middle of saving c or not. *)
PowerCut(c) ==
  /\ live # Off
  /\ live' = Off
  /\ durable' \in {durable, live, c}

Start ==
  /\ live = Off
  /\ live' = durable
  /\ durable' = durable

Next ==
  \/ \E c \in Configs : Save(c) \/ SaveUnacknowledged(c) \/ PowerCut(c)
  \/ Start

Spec == Init /\ [][Next]_vars

=============================================================================
