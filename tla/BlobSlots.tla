----------------------------- MODULE BlobSlots ------------------------------
(***************************************************************************)
(* The blob slots of os/src/storage/blob.rs and the fetch of               *)
(* os/src/net/http.rs that streams a body into one.  The header of a slot  *)
(* is erased first and written last; in between the Wi-Fi task waits for   *)
(* the network again and again, and other tasks run.                       *)
(*                                                                         *)
(* Lengths are counted in units, of which a sector holds Sector.  What the *)
(* writer has received and not yet flushed is the buffer of BlobWriter.    *)
(***************************************************************************)
EXTENDS Integers, Sequences

CONSTANTS
  Slots,
  Units,    (* the values of a unit of data *)
  Bodies,   (* what a server may send *)
  Sector,   (* units in a flash sector; 4096 bytes in the code *)
  Sectors,  (* data sectors of a slot; 15 in the code *)
  None

ASSUME SectorAssumption == Sector \in Nat \ {0} /\ Sectors \in Nat \ {0}
ASSUME BodiesAssumption == Bodies \subseteq Seq(Units)
ASSUME NoneAssumption ==
  /\ None \notin Units
  /\ None \notin Nat
  /\ None \notin [body : Bodies, length : Nat \cup {None}, len : Nat]
  /\ None \notin [slot : Slots, body : Bodies, length : Nat \cup {None},
                  total : Nat, written : Nat, ending : BOOLEAN]

VARIABLES
  header,  (* per slot: the header sector, None when it does not decode *)
  data,    (* per slot: the units of the data sectors, None when erased or torn *)
  writer,  (* the BlobWriter of the fetch under way and its socket, or None *)
  pc       (* "read" while the fetch awaits the network, else the next flash *)
           (* operation                                                      *)

vars == <<header, data, writer, pc>>

(* BLOB_DATA_MAX *)
DataMax == Sector * Sectors

Positions == 0 .. DataMax - 1

-----------------------------------------------------------------------------
(* Variant: the header stays until the new one is written. *)
BeginKeepsHeader(slot) == header' = header

(* BlobWriter::begin and erase_header. *)
EraseHeader(slot) == header' = [header EXCEPT ![slot] = None]

(* The head of the reply announced no body that cannot fit: begin. *)
Begin(slot, body, length) ==
  /\ writer = None
  /\ length # None => length <= DataMax
  /\ EraseHeader(slot)
  /\ writer' = [slot |-> slot, body |-> body, length |-> length,
                total |-> 0, written |-> 0, ending |-> FALSE]
  /\ pc' = "read"
  /\ UNCHANGED data

(* n units arrive.  A full buffer is flushed before the next read. *)
Receive(n) ==
  /\ pc = "read"
  /\ writer.length # None => writer.total < writer.length
  /\ writer.total + n <= Len(writer.body)
  /\ writer.total + n <= DataMax
  /\ writer' = [writer EXCEPT !.total = @ + n]
  /\ pc' = IF writer.total + n - writer.written >= Sector THEN "erase" ELSE "read"
  /\ UNCHANGED <<header, data>>

(* Variant: the body ends when the server closes, whatever it announced. *)
EndsAnyhow == TRUE

(* The stream ended as announced.  A server that announces nothing ends it *)
(* by closing.                                                             *)
EndsAsAnnounced == writer.length # None => writer.total = writer.length

(* finish: the tail is flushed, then the header written. *)
EndOfBody ==
  /\ pc = "read"
  /\ EndsAsAnnounced
  /\ writer' = [writer EXCEPT !.ending = TRUE]
  /\ pc' = IF writer.total > writer.written THEN "erase" ELSE "seal"
  /\ UNCHANGED <<header, data>>

(* flush_sector erases the sector at "written" ... *)
Chunk == writer.written .. writer.written + Sector - 1

EraseSector ==
  /\ pc = "erase"
  /\ data' = [data EXCEPT ![writer.slot] =
                [i \in Positions |-> IF i \in Chunk THEN None ELSE @[i]]]
  /\ pc' = "program"
  /\ UNCHANGED <<header, writer>>

(* Variant: the next sector goes where this one went. *)
PlainFlushed(total) == writer.written

(* Everything received is flushed, up to one sector. *)
Flushed(total) == IF total < writer.written + Sector THEN total ELSE writer.written + Sector

(* ... and programs it. *)
ProgramSector ==
  /\ pc = "program"
  /\ data' = [data EXCEPT ![writer.slot] =
                [i \in Positions |->
                   IF i \in Chunk
                   THEN IF i < writer.total THEN writer.body[i + 1] ELSE None
                   ELSE @[i]]]
  /\ writer' = [writer EXCEPT !.written = Flushed(writer.total)]
  /\ pc' = IF ~writer.ending THEN "read"
           ELSE IF Flushed(writer.total) = writer.total THEN "seal" ELSE "erase"
  /\ UNCHANGED header

(* finish writes the header: kind, number and checksum stand for the body. *)
Seal ==
  /\ pc = "seal"
  /\ header' = [header EXCEPT ![writer.slot] =
                  [body |-> writer.body, length |-> writer.length, len |-> writer.written]]
  /\ writer' = None
  /\ pc' = "idle"
  /\ UNCHANGED data

(* The fetch ends with an error and the writer is dropped: the network     *)
(* failed, the body did not end as announced or does not fit, or the flash *)
(* driver gave up somewhere in an erase or a program.                      *)
Fail ==
  /\ writer # None
  /\ \/ UNCHANGED <<header, data>>
     \/ /\ pc \in {"erase", "program"}
        /\ data' = [data EXCEPT ![writer.slot] =
                      [i \in Positions |-> IF i \in Chunk THEN None ELSE @[i]]]
        /\ UNCHANGED header
  /\ writer' = None
  /\ pc' = "idle"

(* Another task empties a slot: clear_cache or factory_reset.  It runs     *)
(* while the fetch awaits the network.                                     *)
BlobErase(slot) ==
  /\ pc \in {"idle", "read"}
  /\ header' = [header EXCEPT ![slot] = None]
  /\ UNCHANGED <<data, writer, pc>>

(* A power cut.  Inside an operation on a sector it leaves it torn; a      *)
(* header half written does not decode.                                    *)
PowerCut ==
  /\ \/ UNCHANGED data
     \/ /\ pc \in {"erase", "program"}
        /\ data' = [data EXCEPT ![writer.slot] =
                      [i \in Positions |-> IF i \in Chunk THEN None ELSE @[i]]]
  /\ writer' = None
  /\ pc' = "idle"
  /\ UNCHANGED header

Init ==
  /\ header = [s \in Slots |-> None]
  /\ data \in {[s \in Slots |-> [i \in Positions |-> u]] : u \in Units \cup {None}}
  /\ writer = None
  /\ pc = "idle"

Next ==
  \/ \E s \in Slots, b \in Bodies, l \in 0 .. DataMax \cup {None} : Begin(s, b, l)
  \/ \E n \in 1 .. Sector : Receive(n)
  \/ EndOfBody
  \/ EraseSector
  \/ ProgramSector
  \/ Seal
  \/ Fail
  \/ \E s \in Slots : BlobErase(s)
  \/ PowerCut

Spec == Init /\ [][Next]_vars

-----------------------------------------------------------------------------
Lengths == 0 .. DataMax

Headers == [body : Bodies, length : Lengths \cup {None}, len : Lengths]

Writers == [slot : Slots, body : Bodies, length : Lengths \cup {None},
            total : Lengths, written : Lengths, ending : BOOLEAN]

(* Every variable has its type; in particular no write leaves the slot. *)
TypeOK ==
  /\ header \in [Slots -> Headers \cup {None}]
  /\ data \in [Slots -> [Positions -> Units \cup {None}]]
  /\ writer \in Writers \cup {None}
  /\ pc \in {"idle", "read", "erase", "program", "seal"}
  /\ pc = "idle" <=> writer = None

(* A slot whose header decodes holds what was sent, unit by unit, and all  *)
(* of it if the server announced how much: a power cut, an error or an     *)
(* erase by another task in the middle of the stream never leaves a slot   *)
(* that reads as complete and is not (mod.rs:7-9).                         *)
HeaderMeansData ==
  \A s \in Slots :
    header[s] # None =>
      /\ header[s].len <= Len(header[s].body)
      /\ header[s].length \in {None, header[s].len}
      /\ \A i \in 0 .. header[s].len - 1 : data[s][i] = header[s].body[i + 1]

(* The inductive invariant, part by part. *)

(* The slot being written is empty. *)
WriterSlotEmpty == writer # None => header[writer.slot] = None

(* What is flushed is in place, and nothing is flushed that did not come.  *)
FlushedInPlace ==
  writer # None =>
    /\ writer.written <= writer.total
    /\ writer.total <= Len(writer.body)
    /\ \A i \in 0 .. writer.written - 1 : data[writer.slot][i] = writer.body[i + 1]

(* Only a stream that ended as announced is sealed, and as a whole. *)
SealsTheWhole ==
  /\ pc = "seal" => writer.written = writer.total /\ writer.ending
  /\ writer # None /\ writer.ending => EndsAsAnnounced

IInv ==
  /\ TypeOK
  /\ HeaderMeansData
  /\ WriterSlotEmpty
  /\ FlushedInPlace
  /\ SealsTheWhole

(* Every sector operation starts on a sector (the flash driver refuses any *)
(* other), and what came and is not flushed is the buffer and less than    *)
(* one more read.                                                          *)
SectorsAligned ==
  /\ pc \in {"erase", "program"} => writer.written % Sector = 0
  /\ writer # None => writer.total - writer.written < 2 * Sector

(* blob_data, what a reader of a slot sees. *)
BlobData(s) ==
  IF header[s] = None THEN None ELSE [i \in 0 .. header[s].len - 1 |-> data[s][i]]

Prefixes(b) == {[i \in 0 .. n - 1 |-> b[i + 1]] : n \in {m \in Lengths : m <= Len(b)}}

Contents == UNION {Prefixes(b) : b \in Bodies}

Cells == INSTANCE AtomicBlobs WITH
  Blobs <- Contents,
  Empty <- None,
  slot <- [s \in Slots |-> BlobData(s)]

(* For its readers a slot is empty or a whole blob that never changes      *)
(* while it is there, although it is written piece by piece while they     *)
(* run (mod.rs xip: "the OS never rewrites a live slot").                  *)
ImplementsCells == Cells!Spec

=============================================================================
