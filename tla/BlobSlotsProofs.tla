-------------------------- MODULE BlobSlotsProofs ---------------------------
(***************************************************************************)
(* Proofs about BlobSlots, for every number of slots, every sector size,   *)
(* every slot size and every set of bodies.                                *)
(***************************************************************************)
EXTENDS BlobSlots, TLAPS

(* The size of a slot is a number; nothing below depends on which.         *)
LEMMA DataMaxNat == DataMax \in Nat
BY SectorAssumption DEF DataMax

(* The units of a body are units.                                          *)
LEMMA BodyUnits ==
  ASSUME NEW b \in Bodies, NEW i \in Nat, i < Len(b)
  PROVE  Len(b) \in Nat /\ b[i + 1] \in Units
<1>1. b \in Seq(Units)
  BY BodiesAssumption
<1> QED
  BY <1>1

(* A writer is there exactly when the fetch is not idle, and has its type. *)
LEMMA WriterType ==
  ASSUME TypeOK, writer # None
  PROVE  /\ writer \in Writers
         /\ writer.slot \in Slots
         /\ writer.body \in Bodies
         /\ Len(writer.body) \in Nat
         /\ writer.total \in Lengths
         /\ writer.written \in Lengths
         /\ writer.length \in Lengths \cup {None}
<1>1. writer \in Writers /\ writer.body \in Bodies
  BY DEF TypeOK, Writers
<1>2. writer.body \in Seq(Units)
  BY <1>1, BodiesAssumption
<1> QED
  BY <1>1, <1>2 DEF Writers

(* A writer is not None.                                                   *)
LEMMA WriterThere ==
  ASSUME NEW w \in Writers
  PROVE  w # None
<1>1. w \in [slot : Slots, body : Bodies, length : Nat \cup {None},
             total : Nat, written : Nat, ending : BOOLEAN]
  BY DataMaxNat DEF Writers, Lengths
<1> QED
  BY <1>1, NoneAssumption

(* A header that decodes is not None.                                      *)
LEMMA HeaderThere ==
  ASSUME NEW h \in Headers
  PROVE  h # None
<1>1. h \in [body : Bodies, length : Nat \cup {None}, len : Nat]
  BY DataMaxNat DEF Headers, Lengths
<1> QED
  BY <1>1, NoneAssumption

(* What an interrupted operation leaves: the sector at written, torn.      *)
LEMMA Torn ==
  ASSUME IInv, writer # None, NEW d,
         d = [data EXCEPT ![writer.slot] =
                [i \in Positions |-> IF i \in Chunk THEN None ELSE @[i]]]
  PROVE  /\ d \in [Slots -> [Positions -> Units \cup {None}]]
         /\ \A s \in Slots \ {writer.slot} : d[s] = data[s]
         /\ \A i \in 0 .. writer.written - 1 :
              d[writer.slot][i] = data[writer.slot][i]
<1>1. /\ writer.slot \in Slots
      /\ writer.written \in 0 .. DataMax
      /\ data \in [Slots -> [Positions -> Units \cup {None}]]
  BY WriterType DEF IInv, TypeOK, Lengths
<1>2. d[writer.slot] = [i \in Positions |-> IF i \in Chunk THEN None
                                            ELSE data[writer.slot][i]]
  BY <1>1
<1>3. d[writer.slot] \in [Positions -> Units \cup {None}]
  BY <1>1, <1>2
<1>4. \A s \in Slots \ {writer.slot} : d[s] = data[s]
  BY <1>1
<1>5. d \in [Slots -> [Positions -> Units \cup {None}]]
  BY <1>1, <1>3, <1>4
<1>6. \A i \in 0 .. writer.written - 1 : i \in Positions /\ i \notin Chunk
  BY <1>1, DataMaxNat DEF Positions, Chunk
<1> QED
  BY <1>2, <1>4, <1>5, <1>6

(* What a program leaves: the sector at written holds what came, the rest  *)
(* of the slot is as it was.                                               *)
LEMMA Programmed ==
  ASSUME IInv, pc = "program", ProgramSector
  PROVE  /\ data' \in [Slots -> [Positions -> Units \cup {None}]]
         /\ \A s \in Slots \ {writer.slot} : data'[s] = data[s]
         /\ Flushed(writer.total) \in Lengths
         /\ Flushed(writer.total) <= writer.total
         /\ \A i \in 0 .. Flushed(writer.total) - 1 :
              data'[writer.slot][i] = writer.body[i + 1]
<1>1. writer # None
  BY DEF IInv, TypeOK
<1>2. /\ writer.slot \in Slots
      /\ writer.body \in Bodies
      /\ Len(writer.body) \in Nat
      /\ writer.written \in 0 .. DataMax
      /\ writer.total \in 0 .. DataMax
      /\ writer.written <= writer.total
      /\ writer.total <= Len(writer.body)
      /\ data \in [Slots -> [Positions -> Units \cup {None}]]
  BY <1>1, WriterType DEF IInv, TypeOK, Lengths, FlushedInPlace
<1>3. DataMax \in Nat /\ Sector \in Nat \ {0}
  BY DataMaxNat, SectorAssumption
<1>4. data'[writer.slot] =
        [i \in Positions |-> IF i \in Chunk
                             THEN IF i < writer.total THEN writer.body[i + 1] ELSE None
                             ELSE data[writer.slot][i]]
  BY <1>2 DEF ProgramSector
<1>5. data'[writer.slot] \in [Positions -> Units \cup {None}]
  <2>1. \A i \in Positions : i < writer.total => writer.body[i + 1] \in Units
    BY <1>2, <1>3, BodyUnits DEF Positions
  <2> QED
    BY <1>2, <1>4, <2>1
<1>6. \A s \in Slots \ {writer.slot} : data'[s] = data[s]
  BY <1>2 DEF ProgramSector
<1>7. data' \in [Slots -> [Positions -> Units \cup {None}]]
  BY <1>2, <1>5, <1>6 DEF ProgramSector
<1>8. /\ Flushed(writer.total) \in Lengths
      /\ Flushed(writer.total) <= writer.total
  BY <1>2, <1>3 DEF Flushed, Lengths
<1>9. ASSUME NEW i \in 0 .. Flushed(writer.total) - 1
      PROVE  data'[writer.slot][i] = writer.body[i + 1]
  <2>1. /\ i \in Positions
        /\ i < writer.total
        /\ i < writer.written => i \notin Chunk
        /\ ~(i < writer.written) => i \in Chunk
    BY <1>2, <1>3 DEF Flushed, Positions, Chunk
  <2>2. i < writer.written => data[writer.slot][i] = writer.body[i + 1]
    BY <1>1, <1>2 DEF IInv, FlushedInPlace
  <2> QED
    BY <1>4, <2>1, <2>2
<1> QED
  BY <1>6, <1>7, <1>8, <1>9

-----------------------------------------------------------------------------
(* Each action keeps the invariant.                                        *)

LEMMA BeginStep ==
  ASSUME IInv, NEW s \in Slots, NEW b \in Bodies, NEW l \in 0 .. DataMax \cup {None},
         Begin(s, b, l)
  PROVE  IInv'
<1>1. /\ header' \in [Slots -> Headers \cup {None}]
      /\ header'[s] = None
      /\ \A t \in Slots : header'[t] # None => header'[t] = header[t]
  BY DEF Begin, EraseHeader, IInv, TypeOK
<1>2. 0 \in Lengths /\ Len(b) \in Nat
  BY DataMaxNat, BodiesAssumption DEF Lengths
<1>3. writer' \in Writers /\ writer'.slot = s /\ writer'.body = b
      /\ writer'.total = 0 /\ writer'.written = 0 /\ writer'.ending = FALSE
  BY <1>2 DEF Begin, Writers, Lengths
<1>4. writer' # None
  BY <1>3, WriterThere
<1>5. TypeOK'
  BY <1>1, <1>3, <1>4 DEF Begin, IInv, TypeOK
<1>6. HeaderMeansData'
  BY <1>1 DEF Begin, IInv, HeaderMeansData
<1>7. WriterSlotEmpty' /\ FlushedInPlace' /\ SealsTheWhole'
  BY <1>1, <1>2, <1>3 DEF Begin, WriterSlotEmpty, FlushedInPlace, SealsTheWhole
<1> QED
  BY <1>5, <1>6, <1>7 DEF IInv

(* A step that only moves the writer leaves the slots alone.               *)
LEMMA ReceiveStep ==
  ASSUME IInv, NEW n \in 1 .. Sector, Receive(n)
  PROVE  IInv'
<1>1. writer # None /\ pc = "read"
  BY DEF Receive, IInv, TypeOK
<1>2. /\ writer \in Writers
      /\ writer.total \in 0 .. DataMax
      /\ writer.written \in 0 .. DataMax
      /\ writer.written <= writer.total
      /\ Len(writer.body) \in Nat
  BY <1>1, WriterType DEF IInv, Lengths, FlushedInPlace
<1>3. writer.total + n \in 0 .. DataMax /\ n \in Nat /\ DataMax \in Nat
  BY <1>2, DataMaxNat, SectorAssumption DEF Receive
<1>4. /\ writer' \in Writers
      /\ writer'.slot = writer.slot
      /\ writer'.body = writer.body
      /\ writer'.length = writer.length
      /\ writer'.total = writer.total + n
      /\ writer'.written = writer.written
      /\ writer'.ending = writer.ending
  BY <1>2, <1>3 DEF Receive, Writers, Lengths
<1>5. writer' # None
  BY <1>4, WriterThere
<1>6. pc' \in {"erase", "read"} /\ header' = header /\ data' = data
  BY DEF Receive
<1>7. TypeOK'
  BY <1>4, <1>5, <1>6 DEF IInv, TypeOK
<1>8. HeaderMeansData' /\ WriterSlotEmpty'
  BY <1>1, <1>4, <1>6 DEF IInv, HeaderMeansData, WriterSlotEmpty
<1>9. FlushedInPlace'
  BY <1>1, <1>2, <1>3, <1>4, <1>6 DEF Receive, IInv, FlushedInPlace
<1>10. SealsTheWhole'
  <2>1. writer.ending => writer.length = None
    BY <1>1, <1>2 DEF Receive, IInv, SealsTheWhole, EndsAsAnnounced
  <2> QED
    BY <1>4, <1>6, <2>1 DEF SealsTheWhole, EndsAsAnnounced
<1> QED
  BY <1>7, <1>8, <1>9, <1>10 DEF IInv

LEMMA EndOfBodyStep ==
  ASSUME IInv, EndOfBody
  PROVE  IInv'
<1>1. writer # None /\ pc = "read"
  BY DEF EndOfBody, IInv, TypeOK
<1>2. /\ writer \in Writers
      /\ writer.total \in 0 .. DataMax
      /\ writer.written \in 0 .. DataMax
      /\ writer.written <= writer.total
  BY <1>1, WriterType DEF IInv, Lengths, FlushedInPlace
<1>3. /\ writer' \in Writers
      /\ writer'.slot = writer.slot
      /\ writer'.body = writer.body
      /\ writer'.length = writer.length
      /\ writer'.total = writer.total
      /\ writer'.written = writer.written
      /\ writer'.ending = TRUE
  BY <1>2 DEF EndOfBody, Writers
<1>4. writer' # None
  BY <1>3, WriterThere
<1>5. /\ pc' \in {"erase", "seal"}
      /\ pc' = "seal" => writer.total <= writer.written
      /\ header' = header
      /\ data' = data
  BY <1>2, DataMaxNat DEF EndOfBody
<1>6. TypeOK'
  BY <1>3, <1>4, <1>5 DEF IInv, TypeOK
<1>7. HeaderMeansData' /\ WriterSlotEmpty' /\ FlushedInPlace'
  BY <1>1, <1>3, <1>5 DEF IInv, HeaderMeansData, WriterSlotEmpty, FlushedInPlace
<1>8. SealsTheWhole'
  BY <1>2, <1>3, <1>5 DEF EndOfBody, SealsTheWhole, EndsAsAnnounced
<1> QED
  BY <1>6, <1>7, <1>8 DEF IInv

LEMMA EraseSectorStep ==
  ASSUME IInv, EraseSector
  PROVE  IInv'
<1>1. writer # None /\ pc = "erase" /\ pc' = "program"
      /\ header' = header /\ writer' = writer
  BY DEF EraseSector, IInv, TypeOK
<1>2. /\ data' \in [Slots -> [Positions -> Units \cup {None}]]
      /\ \A s \in Slots \ {writer.slot} : data'[s] = data[s]
      /\ \A i \in 0 .. writer.written - 1 : data'[writer.slot][i] = data[writer.slot][i]
  BY <1>1, Torn DEF EraseSector
<1>3. TypeOK'
  BY <1>1, <1>2 DEF IInv, TypeOK
<1>4. HeaderMeansData'
  BY <1>1, <1>2 DEF IInv, HeaderMeansData, WriterSlotEmpty
<1>5. WriterSlotEmpty' /\ FlushedInPlace' /\ SealsTheWhole'
  BY <1>1, <1>2 DEF IInv, WriterSlotEmpty, FlushedInPlace, SealsTheWhole, EndsAsAnnounced
<1> QED
  BY <1>3, <1>4, <1>5 DEF IInv

LEMMA ProgramSectorStep ==
  ASSUME IInv, ProgramSector
  PROVE  IInv'
<1>1. writer # None /\ pc = "program" /\ header' = header
  BY DEF ProgramSector, IInv, TypeOK
<1>2. /\ data' \in [Slots -> [Positions -> Units \cup {None}]]
      /\ \A s \in Slots \ {writer.slot} : data'[s] = data[s]
      /\ Flushed(writer.total) \in Lengths
      /\ Flushed(writer.total) <= writer.total
      /\ \A i \in 0 .. Flushed(writer.total) - 1 :
           data'[writer.slot][i] = writer.body[i + 1]
  BY <1>1, Programmed
<1>3. /\ writer' \in Writers
      /\ writer'.slot = writer.slot
      /\ writer'.body = writer.body
      /\ writer'.length = writer.length
      /\ writer'.total = writer.total
      /\ writer'.written = Flushed(writer.total)
      /\ writer'.ending = writer.ending
  <2>1. writer \in Writers
    BY <1>1, WriterType DEF IInv
  <2> QED
    BY <1>2, <2>1 DEF ProgramSector, Writers
<1>4. writer' # None
  BY <1>3, WriterThere
<1>5. /\ pc' \in {"read", "seal", "erase"}
      /\ pc' = "seal" => writer.ending /\ Flushed(writer.total) = writer.total
  BY DEF ProgramSector
<1>6. TypeOK'
  BY <1>1, <1>2, <1>3, <1>4, <1>5 DEF IInv, TypeOK
<1>7. HeaderMeansData'
  BY <1>1, <1>2 DEF IInv, HeaderMeansData, WriterSlotEmpty
<1>8. WriterSlotEmpty' /\ FlushedInPlace' /\ SealsTheWhole'
  BY <1>1, <1>2, <1>3, <1>5
     DEF IInv, WriterSlotEmpty, FlushedInPlace, SealsTheWhole, EndsAsAnnounced
<1> QED
  BY <1>6, <1>7, <1>8 DEF IInv

LEMMA SealStep ==
  ASSUME IInv, Seal
  PROVE  IInv'
<1>1. writer # None /\ pc = "seal" /\ writer' = None /\ pc' = "idle" /\ data' = data
  BY DEF Seal, IInv, TypeOK
<1> DEFINE h == [body |-> writer.body, length |-> writer.length, len |-> writer.written]
<1>2. /\ writer.slot \in Slots
      /\ h \in Headers
  BY <1>1, WriterType DEF IInv, Headers
<1>3. /\ header' \in [Slots -> Headers \cup {None}]
      /\ header'[writer.slot] = h
      /\ \A s \in Slots \ {writer.slot} : header'[s] = header[s]
  BY <1>2 DEF Seal, IInv, TypeOK
<1>4. /\ h.len <= Len(h.body)
      /\ h.length \in {None, h.len}
      /\ \A i \in 0 .. h.len - 1 : data[writer.slot][i] = h.body[i + 1]
  BY <1>1 DEF IInv, FlushedInPlace, SealsTheWhole, EndsAsAnnounced
<1>5. TypeOK'
  BY <1>1, <1>3 DEF IInv, TypeOK
<1>6. HeaderMeansData'
  <2> SUFFICES ASSUME NEW s \in Slots, header'[s] # None
               PROVE  /\ header'[s].len <= Len(header'[s].body)
                      /\ header'[s].length \in {None, header'[s].len}
                      /\ \A i \in 0 .. header'[s].len - 1 :
                           data'[s][i] = header'[s].body[i + 1]
    BY DEF HeaderMeansData
  <2>1. CASE s = writer.slot
    <3> HIDE DEF h
    <3> QED
      BY <1>1, <1>3, <1>4, <2>1
  <2>2. CASE s # writer.slot
    BY <1>1, <1>3, <2>2 DEF IInv, HeaderMeansData
  <2> QED
    BY <2>1, <2>2
<1>7. WriterSlotEmpty' /\ FlushedInPlace' /\ SealsTheWhole'
  BY <1>1 DEF WriterSlotEmpty, FlushedInPlace, SealsTheWhole
<1> QED
  BY <1>5, <1>6, <1>7 DEF IInv

(* An error and a power cut, wherever they strike.                         *)
LEMMA StopStep ==
  ASSUME IInv, Fail \/ PowerCut
  PROVE  IInv'
<1>1. header' = header /\ writer' = None /\ pc' = "idle"
  BY DEF Fail, PowerCut
<1>2. /\ data' \in [Slots -> [Positions -> Units \cup {None}]]
      /\ \A s \in Slots : header[s] # None => data'[s] = data[s]
  <2>1. CASE data' = data
    BY <2>1 DEF IInv, TypeOK
  <2>2. CASE /\ pc \in {"erase", "program"}
             /\ data' = [data EXCEPT ![writer.slot] =
                           [i \in Positions |-> IF i \in Chunk THEN None ELSE @[i]]]
    <3>1. writer # None
      BY <2>2 DEF IInv, TypeOK
    <3>2. header[writer.slot] = None
      BY <3>1 DEF IInv, WriterSlotEmpty
    <3> QED
      BY <2>2, <3>1, <3>2, Torn
  <2> QED
    BY <2>1, <2>2 DEF Fail, PowerCut
<1>3. TypeOK'
  BY <1>1, <1>2 DEF IInv, TypeOK
<1>4. HeaderMeansData'
  BY <1>1, <1>2 DEF IInv, HeaderMeansData
<1>5. WriterSlotEmpty' /\ FlushedInPlace' /\ SealsTheWhole'
  BY <1>1 DEF WriterSlotEmpty, FlushedInPlace, SealsTheWhole
<1> QED
  BY <1>3, <1>4, <1>5 DEF IInv

LEMMA BlobEraseStep ==
  ASSUME IInv, NEW s \in Slots, BlobErase(s)
  PROVE  IInv'
<1>1. /\ header' \in [Slots -> Headers \cup {None}]
      /\ \A t \in Slots : header'[t] = None \/ header'[t] = header[t]
  BY DEF BlobErase, IInv, TypeOK
<1>2. data' = data /\ writer' = writer /\ pc' = pc
  BY DEF BlobErase
<1>3. TypeOK'
  BY <1>1, <1>2 DEF IInv, TypeOK
<1>4. HeaderMeansData'
  BY <1>1, <1>2 DEF IInv, HeaderMeansData
<1>5. WriterSlotEmpty'
  BY <1>1, <1>2, WriterType DEF IInv, WriterSlotEmpty
<1>6. FlushedInPlace' /\ SealsTheWhole'
  BY <1>2 DEF IInv, FlushedInPlace, SealsTheWhole, EndsAsAnnounced
<1> QED
  BY <1>3, <1>4, <1>5, <1>6 DEF IInv

(* A step that changes nothing keeps the invariant.                        *)
LEMMA Stutter ==
  ASSUME IInv, UNCHANGED vars
  PROVE  IInv'
BY DEF vars, IInv, TypeOK, HeaderMeansData, WriterSlotEmpty, FlushedInPlace,
       SealsTheWhole, EndsAsAnnounced

(* The start: every slot empty, whatever its data sectors hold.            *)
LEMMA InitInv == Init => IInv
<1> SUFFICES ASSUME Init PROVE IInv
  OBVIOUS
<1>1. data \in [Slots -> [Positions -> Units \cup {None}]]
  BY DEF Init
<1> QED
  BY <1>1 DEF Init, IInv, TypeOK, HeaderMeansData, WriterSlotEmpty, FlushedInPlace,
              SealsTheWhole

LEMMA InductiveStep == IInv /\ [Next]_vars => IInv'
BY BeginStep, ReceiveStep, EndOfBodyStep, EraseSectorStep, ProgramSectorStep,
   SealStep, StopStep, BlobEraseStep, Stutter DEF Next

(* The inductive invariant of the slots and their writer.                  *)
THEOREM BlobInvariant == Spec => []IInv
BY InitInv, InductiveStep, PTL DEF Spec

(* Every variable has its type: no write of any body leaves its slot.      *)
THEOREM BlobTypeCorrect == Spec => []TypeOK
BY BlobInvariant, PTL DEF IInv

(* A slot that reads as complete holds what was sent, and all of it if the *)
(* server announced how much, whatever was interrupted and wherever.       *)
THEOREM CompleteOrInvalid == Spec => []HeaderMeansData
BY BlobInvariant, PTL DEF IInv

-----------------------------------------------------------------------------
(* What a reader sees.                                                     *)

(* The view of every slot at once, as the refinement mapping takes it.     *)
Seen == [s \in Slots |-> BlobData(s)]

(* A step that leaves the complete slots alone leaves the view alone.      *)
LEMMA Unseen ==
  ASSUME header' = header,
         \A s \in Slots : header[s] # None => data'[s] = data[s]
  PROVE  Seen' = Seen
<1>1. \A s \in Slots : BlobData(s)' = BlobData(s)
  BY DEF BlobData
<1> QED
  BY <1>1 DEF Seen

(* Emptying a slot is the abstract erase.                                  *)
LEMMA ErasesCell ==
  ASSUME IInv, NEW s \in Slots, EraseHeader(s), data' = data
  PROVE  Cells!Erase(s)
<1>1. header' = [header EXCEPT ![s] = None] /\ header \in [Slots -> Headers \cup {None}]
  BY DEF EraseHeader, IInv, TypeOK
<1>2. BlobData(s)' = None
  BY <1>1 DEF BlobData
<1>3. \A t \in Slots \ {s} : BlobData(t)' = BlobData(t)
  BY <1>1 DEF BlobData
<1> QED
  BY <1>2, <1>3 DEF Cells!Erase

(* Writing the header is the abstract store: the prefix of the body that   *)
(* was flushed appears at once.                                            *)
LEMMA StoresCell ==
  ASSUME IInv, Seal
  PROVE  \E s \in Slots, b \in Contents : Cells!Store(s, b)
<1> DEFINE n == writer.written
           b == [i \in 0 .. n - 1 |-> writer.body[i + 1]]
<1>1. writer # None /\ pc = "seal" /\ data' = data
  BY DEF Seal, IInv, TypeOK
<1> PICK s \in Slots : s = writer.slot
  BY <1>1, WriterType DEF IInv
<1>2. /\ n \in Lengths
      /\ writer.body \in Bodies
      /\ n <= Len(writer.body)
      /\ header[s] = None
      /\ header \in [Slots -> Headers \cup {None}]
      /\ \A i \in 0 .. n - 1 : data[s][i] = writer.body[i + 1]
  BY <1>1, WriterType
     DEF IInv, TypeOK, FlushedInPlace, WriterSlotEmpty, SealsTheWhole
<1> DEFINE h == [body |-> writer.body, length |-> writer.length, len |-> n]
<1>3. h \in Headers /\ h.len = n
  BY <1>1, <1>2, WriterType DEF IInv, Headers
<1>4. h # None
  BY <1>3, HeaderThere
<1>5. header'[s] = h /\ \A t \in Slots \ {s} : header'[t] = header[t]
  BY <1>2 DEF Seal
<1>6. BlobData(s) = None
  BY <1>2 DEF BlobData
<1>7. BlobData(s)' = b
  <2>1. BlobData(s)' = [i \in 0 .. n - 1 |-> data[s][i]]
    <3>1. header'[s] # None /\ header'[s].len = n
      BY <1>3, <1>4, <1>5
    <3> QED
      BY <3>1, <1>1 DEF BlobData
  <2> QED
    BY <2>1, <1>2
<1>8. \A t \in Slots \ {s} : BlobData(t)' = BlobData(t)
  BY <1>1, <1>5 DEF BlobData
<1>9. b \in Contents
  <2>1. b \in Prefixes(writer.body)
    BY <1>2 DEF Prefixes
  <2> QED
    BY <1>2, <2>1 DEF Contents
<1>10. Cells!Store(s, b)
  <2> HIDE DEF b
  <2> QED
    BY <1>6, <1>7, <1>8 DEF Cells!Store
<1> QED
  BY <1>2, <1>9, <1>10

(* A step of the slots is a step of the cells, or of nothing a reader sees. *)
LEMMA SlotStep ==
  IInv /\ [Next]_vars => [Cells!Next]_Seen
<1> SUFFICES ASSUME IInv, [Next]_vars
             PROVE  Cells!Next \/ Seen' = Seen
  BY DEF Seen
<1>1. ASSUME NEW s \in Slots, NEW b \in Bodies, NEW l \in 0 .. DataMax \cup {None},
             Begin(s, b, l)
      PROVE  Cells!Next
  BY <1>1, ErasesCell DEF Begin, Cells!Next
<1>2. ASSUME NEW n \in 1 .. Sector, Receive(n)
      PROVE  Seen' = Seen
  BY <1>2, Unseen DEF Receive
<1>3. CASE EndOfBody
  BY <1>3, Unseen DEF EndOfBody
<1>4. CASE EraseSector
  <2>1. writer # None /\ header[writer.slot] = None
    BY <1>4 DEF EraseSector, IInv, TypeOK, WriterSlotEmpty
  <2> QED
    BY <1>4, <2>1, Torn, Unseen DEF EraseSector
<1>5. CASE ProgramSector
  <2>1. /\ header[writer.slot] = None
        /\ pc = "program"
        /\ header' = header
    BY <1>5 DEF ProgramSector, IInv, TypeOK, WriterSlotEmpty
  <2> QED
    BY <1>5, <2>1, Programmed, Unseen
<1>6. CASE Seal
  BY <1>6, StoresCell DEF Cells!Next
<1>7. CASE Fail \/ PowerCut
  <2>1. header' = header
    BY <1>7 DEF Fail, PowerCut
  <2>2. CASE data' = data
    BY <2>1, <2>2, Unseen
  <2>3. CASE /\ pc \in {"erase", "program"}
             /\ data' = [data EXCEPT ![writer.slot] =
                           [i \in Positions |-> IF i \in Chunk THEN None ELSE @[i]]]
    <3>1. writer # None /\ header[writer.slot] = None
      BY <2>3 DEF IInv, TypeOK, WriterSlotEmpty
    <3> QED
      BY <2>1, <2>3, <3>1, Torn, Unseen
  <2> QED
    BY <1>7, <2>2, <2>3 DEF Fail, PowerCut
<1>8. ASSUME NEW s \in Slots, BlobErase(s)
      PROVE  Cells!Next
  BY <1>8, ErasesCell DEF BlobErase, EraseHeader, Cells!Next
<1>9. CASE UNCHANGED vars
  BY <1>9, Unseen DEF vars
<1> QED
  BY <1>1, <1>2, <1>3, <1>4, <1>5, <1>6, <1>7, <1>8, <1>9 DEF Next

(* For its readers a slot is empty or holds a whole blob that never        *)
(* changes while it is there, although it is written sector by sector      *)
(* while they run.                                                         *)
THEOREM BlobRefinement == Spec => ImplementsCells
<1>1. Init => Cells!Init
  <2> SUFFICES ASSUME Init PROVE \A s \in Slots : BlobData(s) = None
    BY DEF Cells!Init
  <2> QED
    BY DEF Init, BlobData
<1>2. IInv /\ [Next]_vars => [Cells!Next]_[s \in Slots |-> BlobData(s)]
  BY SlotStep DEF Seen
<1> QED
  BY <1>1, <1>2, BlobInvariant, PTL DEF Spec, ImplementsCells, Cells!Spec

-----------------------------------------------------------------------------
(* Sectors.  The data of a slot is written from its start, a whole sector  *)
(* at a time; only the last one of a body may be short.                    *)

(* A multiple between 0 and the number itself is 0. *)
LEMMA SmallMultiple ==
  ASSUME NEW s \in Nat \ {0}, NEW k \in Int, 0 <= s * k, s * k < s
  PROVE  s * k = 0
<1>1. CASE k <= -1
  <2>1. s * k <= s * (-1)
    BY <1>1
  <2> QED BY <2>1
<1>2. CASE k >= 1
  <2>1. s * k >= s * 1
    BY <1>2
  <2> QED BY <2>1
<1>3. CASE k = 0
  BY <1>3
<1> QED BY <1>1, <1>2, <1>3

(* The sector after a sector starts on a sector. *)
LEMMA NextMultiple ==
  ASSUME NEW s \in Nat \ {0}, NEW w \in Nat, w % s = 0
  PROVE  (w + s) % s = 0
<1> DEFINE r == (w + s) % s
           e == (w + s) \div s
           d == w \div s
<1>1. r \in 0 .. s - 1 /\ e \in Int /\ d \in Int
  OBVIOUS
<1>2. w + s = s * e + r
  OBVIOUS
<1>3. w = s * d
  OBVIOUS
<1> HIDE DEF r, e, d
<1>4. r = s * (d + 1 - e)
  BY <1>1, <1>2, <1>3
<1>5. d + 1 - e \in Int
  BY <1>1
<1>6. r = 0
  BY <1>1, <1>4, <1>5, SmallMultiple
<1> QED BY <1>6 DEF r

OnSector(w) == w % Sector = 0

LEMMA Aligned ==
  /\ OnSector(0)
  /\ \A w \in Nat : OnSector(w) => OnSector(w + Sector)
<1>1. Sector \in Nat \ {0}
  BY SectorAssumption
<1>2. 0 % Sector = 0
  BY <1>1
<1>3. ASSUME NEW w \in Nat, w % Sector = 0 PROVE (w + Sector) % Sector = 0
  BY <1>1, <1>3, NextMultiple
<1> QED BY <1>2, <1>3, Zenon DEF OnSector

(* The writer waits for data with less than a sector in its buffer; while  *)
(* the body goes on it flushes a whole sector, and at the end the rest.    *)
AlignInv ==
  /\ pc \in {"read", "erase", "program"} => OnSector(writer.written)
  /\ pc = "read" => ~writer.ending /\ writer.total < writer.written + Sector
  /\ pc \in {"erase", "program"} =>
       /\ writer.total < writer.written + 2 * Sector
       /\ writer.ending <=> writer.total < writer.written + Sector

(* The numbers of a writer. *)
LEMMA WriterNumbers ==
  ASSUME TypeOK, pc # "idle"
  PROVE  /\ writer # None /\ writer \in Writers /\ DataMax \in Nat
         /\ writer.total \in Nat /\ writer.written \in Nat /\ writer.ending \in BOOLEAN
         /\ Sector \in Nat /\ 0 < Sector
<1>1. writer # None
  BY DEF TypeOK
<1>2. writer \in Writers
  BY <1>1, WriterType
<1> QED BY <1>1, <1>2, DataMaxNat, SectorAssumption DEF Writers, Lengths

LEMMA AlignStep ==
  ASSUME IInv, AlignInv, Next
  PROVE  AlignInv'
<1>1. ASSUME NEW s \in Slots, NEW b \in Bodies, NEW l \in 0 .. DataMax \cup {None},
             Begin(s, b, l)
      PROVE  AlignInv'
  <2>1. writer'.total = 0 /\ writer'.written = 0 /\ writer'.ending = FALSE /\ pc' = "read"
    BY <1>1 DEF Begin
  <2> QED BY <2>1, Aligned, SectorAssumption DEF AlignInv
<1>2. ASSUME NEW n \in 1 .. Sector, Receive(n)
      PROVE  AlignInv'
  <2>1. pc = "read" /\ TypeOK
    BY <1>2 DEF Receive, IInv
  <2>2. writer'.total = writer.total + n /\ writer'.written = writer.written /\ writer'.ending = writer.ending
    BY <1>2, <2>1, WriterNumbers DEF Receive, Writers
  <2>3. pc' = IF writer.total + n - writer.written >= Sector THEN "erase" ELSE "read"
    BY <1>2 DEF Receive
  <2>4. n \in Nat /\ n <= Sector
    BY SectorAssumption
  <2> QED BY <2>1, <2>2, <2>3, <2>4, WriterNumbers DEF AlignInv
<1>3. CASE EndOfBody
  <2>1. pc = "read" /\ TypeOK
    BY <1>3 DEF EndOfBody, IInv
  <2>2. writer'.total = writer.total /\ writer'.written = writer.written /\ writer'.ending = TRUE
    BY <1>3, <2>1, WriterNumbers DEF EndOfBody, Writers
  <2>3. pc' \in {"erase", "seal"}
    BY <1>3 DEF EndOfBody
  <2> QED BY <2>1, <2>2, <2>3, WriterNumbers DEF AlignInv
<1>4. CASE EraseSector
  BY <1>4 DEF EraseSector, AlignInv
<1>5. CASE ProgramSector
  <2>1. pc = "program" /\ TypeOK
    BY <1>5 DEF ProgramSector, IInv
  <2>2. /\ writer'.total = writer.total /\ writer'.ending = writer.ending
        /\ writer'.written = Flushed(writer.total)
    BY <1>5, <2>1, WriterNumbers DEF ProgramSector, Writers
  <2>3. pc' = IF ~writer.ending THEN "read"
              ELSE IF Flushed(writer.total) = writer.total THEN "seal" ELSE "erase"
    BY <1>5 DEF ProgramSector
  <2>4. CASE writer.ending
    <3>1. Flushed(writer.total) = writer.total
      BY <2>1, <2>4 DEF AlignInv, Flushed
    <3> QED BY <2>3, <2>4, <3>1 DEF AlignInv
  <2>5. CASE ~writer.ending
    <3>1. Flushed(writer.total) = writer.written + Sector
      BY <2>1, <2>5 DEF AlignInv, Flushed
    <3>2. OnSector(writer.written + Sector)
      BY <2>1, WriterNumbers, Aligned DEF AlignInv
    <3>3. writer.total < writer.written + Sector + Sector
      BY <2>1, WriterNumbers DEF AlignInv
    <3> QED BY <2>2, <2>3, <2>5, <3>1, <3>2, <3>3 DEF AlignInv
  <2> QED BY <2>4, <2>5
<1>6. CASE Seal
  BY <1>6 DEF Seal, AlignInv
<1>7. CASE Fail \/ PowerCut
  BY <1>7 DEF Fail, PowerCut, AlignInv
<1>8. ASSUME NEW s \in Slots, BlobErase(s)
      PROVE  AlignInv'
  BY <1>8 DEF BlobErase, AlignInv
<1> QED
  BY <1>1, <1>2, <1>3, <1>4, <1>5, <1>6, <1>7, <1>8 DEF Next

(* Every erase and every program starts on a sector, whatever the pieces   *)
(* the body arrives in, and the buffer is never asked to hold more than a  *)
(* sector and one read (blob.rs flush_sector, which the flash driver would *)
(* refuse on any other place).                                             *)
THEOREM SectorsOnly == Spec => []SectorsAligned
<1>1. Init => AlignInv
  BY DEF Init, AlignInv
<1>2. IInv /\ AlignInv /\ [Next]_vars => AlignInv'
  <2>1. ASSUME AlignInv, UNCHANGED vars PROVE AlignInv'
    BY <2>1 DEF vars, AlignInv
  <2> QED BY <2>1, AlignStep
<1>3. IInv /\ AlignInv => SectorsAligned
  <2> SUFFICES ASSUME IInv, AlignInv PROVE SectorsAligned
    OBVIOUS
  <2>1. TypeOK /\ (pc = "idle" <=> writer = None) /\ pc \in {"idle", "read", "erase", "program", "seal"}
    BY DEF IInv, TypeOK
  <2>2. pc \in {"erase", "program"} => writer.written % Sector = 0
    BY DEF AlignInv, OnSector
  <2>3. ASSUME writer # None PROVE writer.total - writer.written < 2 * Sector
    BY <2>1, <2>3, WriterNumbers DEF AlignInv, IInv, SealsTheWhole
  <2> QED BY <2>2, <2>3 DEF SectorsAligned
<1> QED BY <1>1, <1>2, <1>3, BlobInvariant, PTL DEF Spec

=============================================================================
