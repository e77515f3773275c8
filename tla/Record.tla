------------------------------- MODULE Record -------------------------------
(* Reading a config record that an older firmware wrote                    *)
(* (src/proto/src/record.rs).  Its payload is a prefix of today's layout   *)
(* that ends after some field.  A byte is its position in the layout; the  *)
(* value of a field is the position it was read from, or Default.          *)
EXTENDS Integers, Sequences

CONSTANTS
  Layout,   \* fields in order: [kind, sizes]; a string is its length byte and its capacity
  Default

ASSUME RecordAssumption ==
  /\ Layout \in Seq([kind : {"number", "string", "pet"}, sizes : Seq(Nat \ {0})])
  /\ \A i \in DOMAIN Layout :
       /\ Layout[i].sizes # <<>>
       /\ Layout[i].kind = "number" => Len(Layout[i].sizes) = 1
       /\ Layout[i].kind = "string" => Len(Layout[i].sizes) = 2 /\ Layout[i].sizes[1] = 1
  /\ Default \notin Nat

VARIABLES
  record,  \* len of the payload and whether magic, version, length and CRC fit
  reader,  \* pos, and whether decode has rejected the record
  fields   \* the values of the fields read so far

recordVars == <<record, reader, fields>>

(* The length of the first k parts. *)
SizeOf(sizes, k) ==
  LET size[i \in 0 .. Len(sizes)] == IF i = 0 THEN 0 ELSE size[i - 1] + sizes[i]
  IN size[k]

FieldSizes == [i \in 1 .. Len(Layout) |-> SizeOf(Layout[i].sizes, Len(Layout[i].sizes))]
StartOf(i) == SizeOf(FieldSizes, i - 1)
PayloadMax == StartOf(Len(Layout) + 1)

(* take: n bytes, or nothing and the position stays. *)
Take4(pos, n) == IF pos + n <= record.len THEN [ok |-> TRUE, pos |-> pos + n] ELSE [ok |-> FALSE, pos |-> pos]

(* The parts of a field, one after the other; the first that is missing    *)
(* ends it, and what was read before it stays read.                        *)
TakeAll(sizes, pos) ==
  LET at[k \in 0 .. Len(sizes)] ==
        IF k = 0 THEN [ok |-> TRUE, pos |-> pos]
        ELSE IF at[k - 1].ok THEN Take4(at[k - 1].pos, sizes[k]) ELSE at[k - 1]
  IN at[Len(sizes)]

(* Variant: every number of the pet has a default of its own. *)
ValueByParts(field, pos) == IF Take4(pos, field.sizes[1]).ok THEN pos ELSE Default

(* r.u8(), r.u16(), r.u32(), r.str(), read_pet: whole, or the default. *)
ValueAt(field, pos) == IF TakeAll(field.sizes, pos).ok THEN pos ELSE Default

(* decode: the guards, then field by field. *)
Decode ==
  /\ ~reader.rejected
  /\ IF ~record.sound \/ record.len > PayloadMax
       THEN reader' = [reader EXCEPT !.rejected = TRUE] /\ UNCHANGED fields
       ELSE /\ Len(fields) < Len(Layout)
            /\ LET field == Layout[Len(fields) + 1]
               IN /\ fields' = Append(fields, ValueAt(field, reader.pos))
                  /\ reader' = [reader EXCEPT !.pos = TakeAll(field.sizes, @).pos]
  /\ UNCHANGED record

(* Where a firmware's payload may end: after a field, or after a number of *)
(* the pet, which grew over time.                                          *)
Ends ==
  {StartOf(i) : i \in 1 .. Len(Layout) + 1} \cup
  UNION {{StartOf(i) + SizeOf(Layout[i].sizes, k) : k \in 1 .. Len(Layout[i].sizes)} :
           i \in {j \in DOMAIN Layout : Layout[j].kind = "pet"}}

RecordInit ==
  /\ record \in [len : Ends \cup {PayloadMax + 1}, sound : BOOLEAN]
  /\ reader = [pos |-> 0, rejected |-> FALSE]
  /\ fields = <<>>

RecordNext == Decode

RecordSpec == RecordInit /\ [][RecordNext]_recordVars

-----------------------------------------------------------------------------
RecordTypeOK ==
  /\ reader.pos \in 0 .. PayloadMax
  /\ fields \in Seq(0 .. PayloadMax \cup {Default}) /\ Len(fields) <= Len(Layout)

(* Every field that the older firmware wrote whole is read as it was       *)
(* written, the others take their defaults, and nothing is read as what it *)
(* is not.                                                                 *)
OlderRecordsRead ==
  \A i \in DOMAIN fields :
    fields[i] = IF StartOf(i + 1) <= record.len THEN StartOf(i) ELSE Default

=============================================================================
