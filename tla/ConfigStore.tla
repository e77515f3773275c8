---------------------------- MODULE ConfigStore -----------------------------
(***************************************************************************)
(* The config record of os/src/storage: two flash sectors written          *)
(* alternately, each record carrying a wrapping sequence number and a CRC. *)
(* A power cut may happen at any instant, also inside an erase or a        *)
(* program, and the flash driver may return an error.                      *)
(*                                                                         *)
(* A sector is abstracted to what record::decode can tell of it: a         *)
(* complete record, or Invalid (blank, half erased, half programmed).      *)
(***************************************************************************)
EXTENDS Integers

CONSTANTS
  Configs,   (* the values of the config record *)
  Defaults,  (* the built-in config, main.rs default_config *)
  SeqMod,    (* the sequence number wraps here; 2^32 in the code *)
  Formats,   (* RECORD_LEN of the firmware images that may be booted *)
  NoConfig   (* the RAM of a device without power *)

ASSUME DefaultsAssumption == Defaults \in Configs /\ NoConfig \notin Configs
ASSUME SeqModAssumption ==
  /\ SeqMod \in Nat
  /\ SeqMod >= 6
  /\ SeqMod % 2 = 0
ASSUME FormatsAssumption == Formats \subseteq Nat /\ Formats # {}

VARIABLES
  sectors,  (* the two config sectors *)
  config,   (* Storage.config, NoConfig when the power is off *)
  seq,      (* Storage.seq *)
  format,   (* RECORD_LEN of the image that runs, or ran last *)
  pc,       (* where the device is inside update_config *)
  next,     (* the config update_config is storing *)
  saved,    (* history: the config of the last save that returned Ok, or  *)
            (* the one the last start found                               *)
  tried     (* history: configs whose save began since and did not end Ok *)

storage == <<config, seq>>
vars == <<sectors, config, seq, format, pc, next, saved, tried>>

-----------------------------------------------------------------------------
(* The sequence number is a u32. *)
Seqs == 0 .. SeqMod - 1

(* Variant: a counter that does not wrap. *)
PlainAdd(s) == s + 1

(* u32::wrapping_add(1) *)
WrappingAdd(s) == IF s = SeqMod - 1 THEN 0 ELSE s + 1

(* u32::wrapping_sub *)
WrappingSub(s, t) == IF s >= t THEN s - t ELSE s - t + SeqMod

Invalid == [kind |-> "invalid"]

Records ==
  [kind : {"record"}, cfg : Configs, seq : Seqs, len : Formats]

(* record::encode *)
Encode(c, s, f) == [kind |-> "record", cfg |-> c, seq |-> s, len |-> f]

(* Does an image whose RECORD_LEN is f decode what the sector holds?       *)
(* Shorter records decode, longer ones do not.                             *)
Decodes(r, f) == r.kind = "record" /\ r.len <= f

(* Variant: a compare that knows nothing of the wrap. *)
PlainNewer(s, t) == s > t

(* seq.wrapping_sub(best_seq) < u32::MAX / 2 *)
Newer(s, t) == WrappingSub(s, t) < (SeqMod - 1) \div 2

(* config::load followed by unwrap_or((defaults, 0)): the loop keeps       *)
(* sector 0 unless sector 1 is valid and newer.                            *)
Load(secs, f) ==
  LET second == /\ Decodes(secs[1], f)
                /\ Decodes(secs[0], f) => Newer(secs[1].seq, secs[0].seq)
  IN IF second THEN [cfg |-> secs[1].cfg, seq |-> secs[1].seq]
     ELSE IF Decodes(secs[0], f) THEN [cfg |-> secs[0].cfg, seq |-> secs[0].seq]
     ELSE [cfg |-> Defaults, seq |-> 0]

(* Variant: every record in the first sector. *)
FirstSector == 0

(* sector_offset(seq % CONFIG_SECTORS), for the sequence number being      *)
(* stored.                                                                 *)
Target == WrappingAdd(seq) % 2

Outgoing == Encode(next, WrappingAdd(seq), format)

-----------------------------------------------------------------------------
(* A new device: blank flash, no power. *)
Init ==
  /\ sectors = [i \in 0 .. 1 |-> Invalid]
  /\ config = NoConfig
  /\ seq = 0
  /\ format \in Formats
  /\ pc = "off"
  /\ next = Defaults
  /\ saved = Defaults
  /\ tried = {}

(* Storage::new, run by an image that is the last one or a later one.      *)
(* RECORD_LEN only grows: "never reorder or remove a field".               *)
Boot(f) ==
  /\ pc = "off"
  /\ f >= format
  /\ format' = f
  /\ config' = Load(sectors, f).cfg
  /\ seq' = Load(sectors, f).seq
  /\ saved' = config'
  /\ tried' = {}
  /\ pc' = "idle"
  /\ UNCHANGED <<sectors, next>>

(* update_config, up to the erase; an unchanged config is not written.     *)
(* factory_reset ends in this with c = Defaults.                           *)
Update(c) ==
  /\ pc = "idle"
  /\ c # config
  /\ next' = c
  /\ tried' = tried \cup {c}
  /\ pc' = "erase"
  /\ UNCHANGED <<sectors, config, seq, format, saved>>

(* blocking_erase of the target sector returned Ok. *)
Erase ==
  /\ pc = "erase"
  /\ sectors' = [sectors EXCEPT ![Target] = Invalid]
  /\ pc' = "write"
  /\ UNCHANGED <<config, seq, format, next, saved, tried>>

(* Variant: the error is dropped and the RAM copy replaced all the same. *)
FailUpdatesRam ==
  /\ pc \in {"erase", "write"}
  /\ sectors' = sectors
  /\ config' = next
  /\ pc' = "idle"
  /\ UNCHANGED <<seq, format, next, saved, tried>>

(* blocking_erase or blocking_write returned an error: store gives up with *)
(* the RAM copy as it was.  The driver promises nothing of the sector.     *)
Fail ==
  /\ \/ pc = "erase" /\ sectors' \in {sectors, [sectors EXCEPT ![Target] = Invalid]}
     \/ pc = "write" /\ sectors' \in {sectors, [sectors EXCEPT ![Target] = Outgoing]}
  /\ pc' = "idle"
  /\ UNCHANGED <<storage, format, next, saved, tried>>

(* blocking_write returned Ok; only now do the RAM copy and seq move on. *)
Write ==
  /\ pc = "write"
  /\ sectors' = [sectors EXCEPT ![Target] = Outgoing]
  /\ config' = next
  /\ seq' = WrappingAdd(seq)
  /\ saved' = next
  /\ tried' = {}
  /\ pc' = "idle"
  /\ UNCHANGED <<format, next>>

(* A power cut or a reset.  Inside an erase or a program the target sector *)
(* is left as it was, unreadable, or just finished.                        *)
PowerCut ==
  /\ pc # "off"
  /\ \/ sectors' = sectors
     \/ pc = "erase" /\ sectors' = [sectors EXCEPT ![Target] = Invalid]
     \/ pc = "write" /\ sectors' = [sectors EXCEPT ![Target] = Outgoing]
  /\ config' = NoConfig
  /\ seq' = 0
  /\ pc' = "off"
  /\ UNCHANGED <<format, next, saved, tried>>

Next ==
  \/ \E f \in Formats : Boot(f)
  \/ \E c \in Configs : Update(c)
  \/ Erase
  \/ Write
  \/ Fail
  \/ PowerCut

Spec == Init /\ [][Next]_vars

-----------------------------------------------------------------------------
(* Every variable has its type; in particular seq stays a u32 across the   *)
(* wrap of wrapping_add (mod.rs update_config).                            *)
TypeOK ==
  /\ sectors \in [0 .. 1 -> Records \cup {Invalid}]
  /\ config \in Configs \cup {NoConfig}
  /\ seq \in Seqs
  /\ format \in Formats
  /\ pc \in {"off", "idle", "erase", "write"}
  /\ next \in Configs
  /\ saved \in Configs
  /\ tried \subseteq Configs

(* The inductive invariant, part by part. *)

Powered == pc # "off"

IsRecord(i) == sectors[i].kind = "record"

(* Records sit in the sector of their sequence number's parity, and the    *)
(* running image decodes them all.                                         *)
RecordsInPlace ==
  \A i \in 0 .. 1 : IsRecord(i) =>
     sectors[i].seq % 2 = i /\ sectors[i].len <= format

(* Two records are consecutive, in one order or the other. *)
RecordsAdjacent ==
  IsRecord(0) /\ IsRecord(1) =>
     \/ sectors[1].seq = WrappingAdd(sectors[0].seq)
     \/ sectors[0].seq = WrappingAdd(sectors[1].seq)

(* The config in RAM is in flash, or is the built-in one of a device that  *)
(* never finished a save.                                                  *)
RamIsInFlash ==
  Powered =>
     \/ \E i \in 0 .. 1 : /\ IsRecord(i)
                          /\ i = seq % 2
                          /\ sectors[i].seq = seq
                          /\ sectors[i].cfg = config
     \/ /\ seq = 0
        /\ config = Defaults
        /\ ~IsRecord(0)
        /\ IsRecord(1) => sectors[1].seq = 1

(* A record newer than the config in RAM is a save that was not            *)
(* acknowledged.                                                           *)
NewerIsTried ==
  Powered =>
    \A i \in 0 .. 1 :
       IsRecord(i) /\ sectors[i].seq = WrappingAdd(seq) => sectors[i].cfg \in tried

SaveUnderWay ==
  /\ Powered => config = saved
  /\ pc \in {"erase", "write"} => next \in tried
  /\ pc = "write" => sectors[Target] = Invalid

OffFindsSaved == ~Powered => Load(sectors, format).cfg \in {saved} \cup tried

OffIsBlank == ~Powered <=> config = NoConfig

IInv ==
  /\ TypeOK
  /\ RecordsInPlace
  /\ RecordsAdjacent
  /\ RamIsInFlash
  /\ NewerIsTried
  /\ SaveUnderWay
  /\ OffFindsSaved
  /\ OffIsBlank

(* Whatever the instant of the power cut, the next start finds the config  *)
(* of the last save that returned Ok, or one whose save was begun after it *)
(* and not acknowledged: "a power cut never loses both copies".            *)
BootFindsSaved == Load(sectors, format).cfg \in {saved} \cup tried

(* A step that leaves the record of the running config alone.              *)
KeepsLiveCopy ==
  \A i \in 0 .. 1 :
     Powered /\ IsRecord(i) /\ sectors[i].cfg = config /\ sectors[i].seq = seq
       => sectors'[i] = sectors[i]

(* update_config never erases or programs the sector the running config    *)
(* was loaded from or last stored to: the copy in use stays readable until *)
(* the other one is complete.                                              *)
LiveCopySurvives == [][KeepsLiveCopy]_vars

(* The two sectors implement one atomic cell. *)
Cell == INSTANCE AtomicConfig WITH
  Off <- NoConfig,
  live <- config,
  durable <- Load(sectors, format).cfg

(* Above storage the config is a cell that a save replaces whole or not at *)
(* all, and that a power cut cannot tear (mod.rs:5-6).                     *)
ImplementsCell == Cell!Spec

=============================================================================
