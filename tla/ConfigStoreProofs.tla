------------------------- MODULE ConfigStoreProofs --------------------------
(***************************************************************************)
(* Proofs about ConfigStore, for every set of configs and formats and      *)
(* every even wrap of the sequence number.                                 *)
(***************************************************************************)
EXTENDS ConfigStore, TLAPS

(* The successor of a sequence number is another one, of the other parity: *)
(* a save never goes to the sector of the record in use.                   *)
LEMMA Successor ==
  ASSUME NEW s \in Seqs
  PROVE  /\ WrappingAdd(s) \in Seqs
         /\ WrappingAdd(s) # s
         /\ s % 2 \in 0 .. 1
         /\ WrappingAdd(s) % 2 = 1 - (s % 2)
         /\ WrappingAdd(WrappingAdd(s)) # s
BY SeqModAssumption DEF Seqs, WrappingAdd

(* The wrapping compare orders neighbours, across the wrap too.            *)
LEMMA NeighboursOrdered ==
  ASSUME NEW s \in Seqs
  PROVE  Newer(WrappingAdd(s), s) /\ ~Newer(s, WrappingAdd(s))
BY SeqModAssumption DEF Seqs, WrappingAdd, Newer, WrappingSub

(* With the records in place and adjacent, load picks the later of two and *)
(* the only one of one.                                                    *)
LEMMA LoadPicks ==
  ASSUME TypeOK, RecordsInPlace, RecordsAdjacent, NEW i \in 0 .. 1, IsRecord(i)
  PROVE  \/ /\ Load(sectors, format) = [cfg |-> sectors[i].cfg, seq |-> sectors[i].seq]
            /\ ~IsRecord(1 - i) \/ sectors[i].seq = WrappingAdd(sectors[1 - i].seq)
         \/ /\ IsRecord(1 - i)
            /\ sectors[1 - i].seq = WrappingAdd(sectors[i].seq)
            /\ Load(sectors, format) =
                 [cfg |-> sectors[1 - i].cfg, seq |-> sectors[1 - i].seq]
<1> DEFINE j == 1 - i
<1>1. /\ j \in 0 .. 1
      /\ \A k \in 0 .. 1 : IsRecord(k) => /\ Decodes(sectors[k], format)
                                          /\ sectors[k].seq \in Seqs
      /\ \A k \in 0 .. 1 : ~IsRecord(k) => ~Decodes(sectors[k], format)
  BY DEF TypeOK, RecordsInPlace, IsRecord, Decodes, Records, Invalid
<1>2. CASE ~IsRecord(j)
  BY <1>1, <1>2 DEF Load
<1>3. CASE IsRecord(j) /\ sectors[i].seq = WrappingAdd(sectors[j].seq)
  <2>1. Newer(sectors[i].seq, sectors[j].seq) /\ ~Newer(sectors[j].seq, sectors[i].seq)
    BY <1>1, <1>3, NeighboursOrdered
  <2> QED
    BY <1>1, <1>3, <2>1 DEF Load
<1>4. CASE IsRecord(j) /\ sectors[j].seq = WrappingAdd(sectors[i].seq)
  <2>1. Newer(sectors[j].seq, sectors[i].seq) /\ ~Newer(sectors[i].seq, sectors[j].seq)
    BY <1>1, <1>4, NeighboursOrdered
  <2> QED
    BY <1>1, <1>4, <2>1 DEF Load
<1> QED
  BY <1>2, <1>3, <1>4 DEF RecordsAdjacent

(* The config load returns is one of the values a config can take.         *)
LEMMA LoadType ==
  ASSUME TypeOK, NEW f
  PROVE  Load(sectors, f).cfg \in Configs /\ Load(sectors, f).seq \in Seqs
BY DefaultsAssumption, SeqModAssumption
   DEF TypeOK, Load, Decodes, Records, Invalid, Seqs

(* While the device runs, a start would find the config in RAM, or a save  *)
(* that was begun and not acknowledged.                                    *)
LEMMA RunningLoad ==
  ASSUME IInv, Powered
  PROVE  /\ Load(sectors, format).cfg \in {config} \cup tried
         /\ ~IsRecord(Target) => Load(sectors, format).cfg = config
         /\ \A i \in 0 .. 1 : /\ IsRecord(i)
                              /\ sectors[i].seq = seq
                              => sectors[i].cfg = config
<1> USE DEF IInv
<1>1. seq \in Seqs
  BY DEF TypeOK
<1>2. Target \in 0 .. 1 /\ Target = 1 - (seq % 2)
  BY <1>1, Successor DEF Target
<1>3. CASE \E i \in 0 .. 1 : /\ IsRecord(i)
                             /\ i = seq % 2
                             /\ sectors[i].seq = seq
                             /\ sectors[i].cfg = config
  <2>1. PICK i \in 0 .. 1 : /\ IsRecord(i)
                            /\ i = seq % 2
                            /\ sectors[i].seq = seq
                            /\ sectors[i].cfg = config
    BY <1>3
  <2>2. Target = 1 - i
    BY <1>1, <1>2, <2>1, SMT
  <2>3. IsRecord(1 - i) /\ sectors[1 - i].seq = WrappingAdd(seq) => sectors[1 - i].cfg \in tried
    BY <2>2, <1>2 DEF NewerIsTried
  <2>4. \A k \in 0 .. 1 : IsRecord(k) /\ sectors[k].seq = seq => k = i
    BY <2>1 DEF RecordsInPlace
  <2> QED
    BY <2>1, <2>2, <2>3, <2>4, LoadPicks
<1>4. CASE /\ seq = 0
           /\ config = Defaults
           /\ ~IsRecord(0)
           /\ IsRecord(1) => sectors[1].seq = 1
  <2>1. WrappingAdd(seq) = 1 /\ Target = 1
    BY <1>4, SeqModAssumption DEF WrappingAdd, Target
  <2>2. ~Decodes(sectors[0], format)
    BY <1>4 DEF Decodes, IsRecord
  <2>3. CASE IsRecord(1)
    <3>1. Load(sectors, format).cfg = sectors[1].cfg
      BY <2>2, <2>3 DEF Load, RecordsInPlace, Decodes, IsRecord
    <3>2. sectors[1].cfg \in tried
      BY <1>4, <2>1, <2>3 DEF NewerIsTried
    <3> QED
      BY <1>4, <2>1, <2>3, <3>1, <3>2
  <2>4. CASE ~IsRecord(1)
    <3>1. Load(sectors, format).cfg = Defaults
      BY <2>2, <2>4 DEF Load, Decodes, IsRecord
    <3> QED
      BY <1>4, <2>1, <2>4, <3>1 DEF IsRecord
  <2> QED
    BY <2>3, <2>4
<1> QED
  BY <1>3, <1>4 DEF RamIsInFlash

-----------------------------------------------------------------------------
(* What the step of each action does to the parts of the invariant.        *)

LEMMA InitInv == Init => IInv
BY DefaultsAssumption, SeqModAssumption
   DEF Init, IInv, TypeOK, RecordsInPlace, RecordsAdjacent, RamIsInFlash, NewerIsTried,
       SaveUnderWay, OffFindsSaved, OffIsBlank, Powered, IsRecord, Invalid, Load, Decodes, Seqs, Records

(* A later image decodes the records of an earlier one.                    *)
LEMMA BootLoad ==
  ASSUME IInv, NEW f \in Formats, f >= format
  PROVE  /\ Load(sectors, f) = Load(sectors, format)
         /\ \A i \in 0 .. 1 : IsRecord(i) => sectors[i].len <= f
<1> USE DEF IInv
<1>1. /\ f \in Int /\ format \in Int
      /\ \A i \in 0 .. 1 : IsRecord(i) => sectors[i].len \in Int /\ sectors[i].len <= format
  <2>1. f \in Int /\ format \in Int
    BY FormatsAssumption DEF TypeOK
  <2>2. \A i \in 0 .. 1 : IsRecord(i) => sectors[i] \in Records
    BY DEF TypeOK, IsRecord, Invalid
  <2>3. \A r \in Records : r.len \in Int
    <3>1. Formats \subseteq Int
      BY FormatsAssumption
    <3>2. \A r \in Records : r.len \in Formats
      BY DEF Records
    <3> QED
      BY <3>1, <3>2
  <2> QED
    BY <2>1, <2>2, <2>3 DEF RecordsInPlace
<1>2. \A i \in 0 .. 1 : IsRecord(i) => sectors[i].len <= f
  BY <1>1
<1>3. \A i \in 0 .. 1 : Decodes(sectors[i], f) = Decodes(sectors[i], format)
  BY <1>1, <1>2 DEF Decodes, IsRecord
<1> QED
  BY <1>2, <1>3 DEF Load

(* A start loads the record that OffFindsSaved speaks of.                  *)
LEMMA BootInv ==
  ASSUME IInv, NEW f \in Formats, Boot(f)
  PROVE  IInv'
<1> USE DEF IInv, Boot
<1>1. TypeOK'
  BY LoadType DEF TypeOK
<1>2. /\ Load(sectors, f) = Load(sectors, format)
      /\ \A i \in 0 .. 1 : IsRecord(i) => sectors[i].len <= f
  BY BootLoad
<1>3. RecordsInPlace' /\ RecordsAdjacent'
  BY <1>2 DEF RecordsInPlace, RecordsAdjacent, IsRecord
<1>4. RamIsInFlash' /\ NewerIsTried'
  <2>1. ASSUME NEW i \in 0 .. 1, IsRecord(i), seq' = sectors[i].seq, config' = sectors[i].cfg,
               IsRecord(1 - i) => sectors[i].seq = WrappingAdd(sectors[1 - i].seq)
        PROVE  RamIsInFlash' /\ NewerIsTried'
    <3>1. i = seq' % 2
      BY <2>1 DEF RecordsInPlace
    <3>2. RamIsInFlash'
      BY <2>1, <3>1 DEF RamIsInFlash, IsRecord
    <3>3. seq' \in Seqs
      BY <1>1 DEF TypeOK
    <3>4. ASSUME NEW k \in 0 .. 1, IsRecord(k), sectors[k].seq = WrappingAdd(seq')
          PROVE  FALSE
      <4>1. k # i
        BY <2>1, <3>3, <3>4, Successor
      <4>2. k = 1 - i
        BY <4>1
      <4>3. sectors[k].seq \in Seqs
        BY <3>4 DEF TypeOK, IsRecord, Records, Invalid
      <4> QED
        BY <2>1, <3>4, <4>2, <4>3, Successor
    <3> QED
      BY <3>2, <3>4 DEF NewerIsTried, IsRecord
  <2>2. CASE \E i \in 0 .. 1 : IsRecord(i)
    <3>1. PICK i \in 0 .. 1 : IsRecord(i)
      BY <2>2
    <3>2. CASE /\ Load(sectors, format) = [cfg |-> sectors[i].cfg, seq |-> sectors[i].seq]
               /\ ~IsRecord(1 - i) \/ sectors[i].seq = WrappingAdd(sectors[1 - i].seq)
      BY <1>2, <2>1, <3>1, <3>2
    <3>3. CASE /\ IsRecord(1 - i)
               /\ sectors[1 - i].seq = WrappingAdd(sectors[i].seq)
               /\ Load(sectors, format) =
                    [cfg |-> sectors[1 - i].cfg, seq |-> sectors[1 - i].seq]
      <4>1. 1 - i \in 0 .. 1 /\ 1 - (1 - i) = i
        OBVIOUS
      <4> QED
        BY <1>2, <2>1, <3>1, <3>3, <4>1
    <3> QED
      BY <3>1, <3>2, <3>3, LoadPicks
  <2>3. CASE ~\E i \in 0 .. 1 : IsRecord(i)
    <3>1. Load(sectors, f) = [cfg |-> Defaults, seq |-> 0]
      BY <2>3 DEF Load, Decodes, IsRecord
    <3> QED
      BY <2>3, <3>1 DEF RamIsInFlash, NewerIsTried, IsRecord
  <2> QED
    BY <2>2, <2>3
<1>5. SaveUnderWay' /\ OffFindsSaved' /\ OffIsBlank'
  BY LoadType, DefaultsAssumption DEF SaveUnderWay, OffFindsSaved, OffIsBlank, Powered
<1> QED
  BY <1>1, <1>3, <1>4, <1>5

LEMMA UpdateInv ==
  ASSUME IInv, NEW c \in Configs, Update(c)
  PROVE  IInv'
<1> USE DEF IInv, Update
<1>1. TypeOK' /\ RecordsInPlace' /\ RecordsAdjacent'
  BY DEF TypeOK, RecordsInPlace, RecordsAdjacent, IsRecord
<1>2. RamIsInFlash' /\ NewerIsTried' /\ SaveUnderWay' /\ OffFindsSaved' /\ OffIsBlank'
  BY DEF RamIsInFlash, NewerIsTried, SaveUnderWay, OffFindsSaved, OffIsBlank, IsRecord,
         Powered
<1> QED
  BY <1>1, <1>2

(* The target becomes unreadable: by an erase, or by one cut short.  What   *)
(* is left is the record of the config in RAM, if there is one.            *)
LEMMA TargetErased ==
  ASSUME IInv, Powered, sectors' = [sectors EXCEPT ![Target] = Invalid],
         UNCHANGED format
  PROVE  /\ sectors' \in [0 .. 1 -> Records \cup {Invalid}]
         /\ RecordsInPlace' /\ RecordsAdjacent'
         /\ Load(sectors', format).cfg = config
         /\ \A i \in 0 .. 1 : sectors'[i] # Invalid => i # Target /\ sectors'[i] = sectors[i]
         /\ sectors'[1 - Target] = sectors[1 - Target]
<1> USE DEF IInv
<1>1. seq \in Seqs /\ Target \in 0 .. 1 /\ Target = 1 - (seq % 2) /\ seq % 2 \in 0 .. 1
  BY Successor DEF TypeOK, Target
<1>2. /\ sectors' \in [0 .. 1 -> Records \cup {Invalid}]
      /\ RecordsInPlace' /\ RecordsAdjacent'
  BY <1>1 DEF TypeOK, RecordsInPlace, RecordsAdjacent, IsRecord, Invalid
<1>3. \A i \in 0 .. 1 : sectors'[i] # Invalid => i # Target /\ sectors'[i] = sectors[i]
  BY <1>1 DEF TypeOK
<1>4. sectors'[1 - Target] = sectors[1 - Target] /\ sectors'[Target] = Invalid
  BY <1>1 DEF TypeOK
<1>5. ASSUME IsRecord(1 - Target), sectors[1 - Target].cfg = config
      PROVE  Load(sectors', format).cfg = config
  <2>1. Decodes(sectors'[1 - Target], format) /\ ~Decodes(sectors'[Target], format)
    BY <1>1, <1>4, <1>5 DEF Decodes, RecordsInPlace, IsRecord, Invalid
  <2> QED
    BY <1>1, <1>4, <1>5, <2>1 DEF Load
<1>6. ASSUME seq = 0, config = Defaults, ~IsRecord(0)
      PROVE  Load(sectors', format).cfg = config
  <2>1. ~Decodes(sectors'[0], format) /\ ~Decodes(sectors'[1], format)
    BY <1>1, <1>3, <1>4, <1>6 DEF Decodes, IsRecord, Invalid
  <2>2. Load(sectors', format) = [cfg |-> Defaults, seq |-> 0]
    BY <2>1 DEF Load
  <2> QED
    BY <1>6, <2>2
<1>7. Load(sectors', format).cfg = config
  <2>1. 1 - Target = seq % 2
    BY <1>1
  <2> QED
    BY <2>1, <1>5, <1>6 DEF RamIsInFlash
<1> QED
  BY <1>2, <1>3, <1>4, <1>7

(* The target becomes the complete record of the save under way.           *)
LEMMA TargetWritten ==
  ASSUME IInv, Powered, sectors' = [sectors EXCEPT ![Target] = Outgoing],
         UNCHANGED format
  PROVE  /\ sectors' \in [0 .. 1 -> Records \cup {Invalid}]
         /\ RecordsInPlace' /\ RecordsAdjacent'
         /\ Load(sectors', format).cfg = next
         /\ sectors'[Target] = Outgoing
         /\ sectors'[1 - Target] = sectors[1 - Target]
<1> USE DEF IInv
<1>1. seq \in Seqs /\ Target \in 0 .. 1 /\ Target = 1 - (seq % 2) /\ seq % 2 \in 0 .. 1
  BY Successor DEF TypeOK, Target
<1>2. Outgoing \in Records /\ Outgoing.kind = "record" /\ Outgoing.seq = WrappingAdd(seq)
      /\ Outgoing.cfg = next /\ Outgoing.len = format
  BY <1>1, Successor DEF TypeOK, Outgoing, Encode, Records
<1>3. sectors'[Target] = Outgoing /\ sectors'[1 - Target] = sectors[1 - Target]
  BY <1>1 DEF TypeOK
<1>4. sectors' \in [0 .. 1 -> Records \cup {Invalid}]
  BY <1>1, <1>2 DEF TypeOK
<1>5. format \in Int
  BY FormatsAssumption DEF TypeOK
<1>6. \A i \in 0 .. 1 : i = Target \/ i = 1 - Target
  BY <1>1
<1>7. RecordsInPlace'
  <2> SUFFICES ASSUME NEW i \in 0 .. 1, IsRecord(i)'
               PROVE  sectors'[i].seq % 2 = i /\ sectors'[i].len <= format
    BY DEF RecordsInPlace
  <2>1. CASE i = Target
    BY <1>2, <1>3, <1>5, <2>1 DEF Target
  <2>2. CASE i = 1 - Target
    BY <1>3, <2>2 DEF RecordsInPlace, IsRecord
  <2> QED
    BY <1>6, <2>1, <2>2
<1>8. IsRecord(1 - Target) => sectors[1 - Target].seq = seq
  <2>1. 1 - Target = seq % 2
    BY <1>1
  <2>2. CASE seq = 0 /\ ~IsRecord(0)
    <3>1. 1 - Target = 0
      BY <2>1, <2>2
    <3> QED
      BY <2>2, <3>1
  <2> QED
    BY <2>1, <2>2 DEF RamIsInFlash
<1>9. RecordsAdjacent'
  BY <1>2, <1>3, <1>6, <1>8 DEF RecordsAdjacent, IsRecord
<1>10. Decodes(sectors'[Target], format)
  BY <1>2, <1>3, <1>5 DEF Decodes
<1>11. CASE IsRecord(1 - Target)
  <2>1. sectors'[1 - Target].seq = seq /\ sectors'[Target].seq = WrappingAdd(seq)
    BY <1>2, <1>3, <1>8, <1>11
  <2>2. Newer(sectors'[Target].seq, sectors'[1 - Target].seq)
        /\ ~Newer(sectors'[1 - Target].seq, sectors'[Target].seq)
    BY <1>1, <2>1, NeighboursOrdered
  <2>3. Decodes(sectors'[1 - Target], format)
    BY <1>1, <1>3, <1>11 DEF Decodes, RecordsInPlace, IsRecord
  <2>4. Load(sectors', format).cfg = sectors'[Target].cfg
    BY <1>1, <1>10, <2>2, <2>3 DEF Load
  <2> QED
    BY <1>2, <1>3, <1>4, <1>7, <1>9, <2>4
<1>12. CASE ~IsRecord(1 - Target)
  <2>1. ~Decodes(sectors'[1 - Target], format)
    BY <1>3, <1>12 DEF Decodes, IsRecord
  <2>2. Load(sectors', format).cfg = sectors'[Target].cfg
    BY <1>1, <1>10, <2>1 DEF Load
  <2> QED
    BY <1>2, <1>3, <1>4, <1>7, <1>9, <2>2
<1> QED
  BY <1>11, <1>12

(* An erased target leaves the parts about RAM as they were.               *)
LEMMA ErasedRam ==
  ASSUME IInv, Powered, sectors' = [sectors EXCEPT ![Target] = Invalid],
         UNCHANGED <<storage, format>>, Powered', tried' = tried
  PROVE  RamIsInFlash' /\ NewerIsTried'
<1> USE DEF IInv
<1>1. /\ \A i \in 0 .. 1 : IsRecord(i)' => i # Target /\ sectors'[i] = sectors[i]
      /\ sectors'[1 - Target] = sectors[1 - Target]
  BY TargetErased DEF storage, IsRecord, Invalid
<1>2. /\ seq' = seq /\ config' = config
      /\ seq \in Seqs /\ Target \in 0 .. 1 /\ Target = 1 - (seq % 2) /\ seq % 2 \in 0 .. 1
  BY Successor DEF TypeOK, Target, storage
<1>3. RamIsInFlash'
  <2>1. ASSUME NEW i \in 0 .. 1, IsRecord(i), i = seq % 2, sectors[i].seq = seq,
               sectors[i].cfg = config
        PROVE  RamIsInFlash'
    <3>1. i = 1 - Target
      BY <1>2, <2>1
    <3> QED
      BY <1>1, <1>2, <2>1, <3>1 DEF RamIsInFlash, IsRecord
  <2>2. CASE /\ seq = 0
             /\ config = Defaults
             /\ ~IsRecord(0)
             /\ IsRecord(1) => sectors[1].seq = 1
    BY <1>1, <1>2, <2>2 DEF RamIsInFlash, IsRecord
  <2> QED
    BY <2>1, <2>2 DEF RamIsInFlash
<1>4. NewerIsTried'
  BY <1>1, <1>2 DEF NewerIsTried, IsRecord
<1> QED
  BY <1>3, <1>4

LEMMA EraseInv ==
  ASSUME IInv, Erase
  PROVE  IInv'
<1>1. /\ Powered /\ Powered'
      /\ sectors' = [sectors EXCEPT ![Target] = Invalid]
      /\ UNCHANGED <<storage, format>> /\ tried' = tried /\ next' = next /\ saved' = saved
      /\ pc' = "write" /\ next \in tried
  BY DEF Erase, Powered, storage, IInv, SaveUnderWay
<1>2. /\ sectors' \in [0 .. 1 -> Records \cup {Invalid}]
      /\ RecordsInPlace' /\ RecordsAdjacent'
  BY <1>1, TargetErased
<1>3. TypeOK'
  BY <1>1, <1>2 DEF IInv, TypeOK, storage
<1>4. RamIsInFlash' /\ NewerIsTried'
  BY <1>1, ErasedRam
<1>5. SaveUnderWay'
  <2>1. Target' = Target /\ Target \in 0 .. 1
    BY <1>1, Successor DEF Target, storage, IInv, TypeOK
  <2>2. sectors'[Target] = Invalid
    BY <1>1, <2>1 DEF IInv, TypeOK
  <2> QED
    BY <1>1, <2>1, <2>2 DEF IInv, SaveUnderWay, storage
<1>6. OffFindsSaved' /\ OffIsBlank'
  BY <1>1 DEF OffFindsSaved, OffIsBlank, IInv, storage
<1> QED
  BY <1>2, <1>3, <1>4, <1>5, <1>6 DEF IInv

(* The save that the target now holds has begun and is not acknowledged.   *)
LEMMA FailInv ==
  ASSUME IInv, Fail
  PROVE  IInv'
<1>1. /\ Powered /\ Powered' /\ pc' = "idle"
      /\ UNCHANGED <<storage, format>> /\ tried' = tried /\ next' = next /\ saved' = saved
      /\ next \in tried
  BY DEF Fail, Powered, storage, IInv, SaveUnderWay
<1>2. SaveUnderWay' /\ OffFindsSaved' /\ OffIsBlank'
  BY <1>1 DEF SaveUnderWay, OffFindsSaved, OffIsBlank, storage, IInv
<1>3. CASE sectors' = sectors
  <2>1. TypeOK' /\ RecordsInPlace' /\ RecordsAdjacent'
    BY <1>1, <1>3 DEF IInv, TypeOK, RecordsInPlace, RecordsAdjacent, IsRecord, storage
  <2>2. RamIsInFlash' /\ NewerIsTried'
    BY <1>1, <1>3 DEF IInv, RamIsInFlash, NewerIsTried, IsRecord, storage
  <2> QED
    BY <1>2, <2>1, <2>2 DEF IInv
<1>4. CASE sectors' = [sectors EXCEPT ![Target] = Invalid]
  <2>1. /\ sectors' \in [0 .. 1 -> Records \cup {Invalid}]
        /\ RecordsInPlace' /\ RecordsAdjacent'
    BY <1>1, <1>4, TargetErased
  <2>2. TypeOK'
    BY <1>1, <2>1 DEF IInv, TypeOK, storage
  <2>3. RamIsInFlash' /\ NewerIsTried'
    BY <1>1, <1>4, ErasedRam
  <2> QED
    BY <1>2, <2>1, <2>2, <2>3 DEF IInv
<1>5. CASE sectors' = [sectors EXCEPT ![Target] = Outgoing]
  <2>1. /\ sectors' \in [0 .. 1 -> Records \cup {Invalid}]
        /\ RecordsInPlace' /\ RecordsAdjacent'
        /\ sectors'[Target] = Outgoing
        /\ sectors'[1 - Target] = sectors[1 - Target]
    BY <1>1, <1>5, TargetWritten
  <2>2. TypeOK'
    BY <1>1, <2>1 DEF IInv, TypeOK, storage
  <2>3. /\ seq' = seq /\ config' = config
        /\ seq \in Seqs /\ Target \in 0 .. 1 /\ Target = 1 - (seq % 2) /\ seq % 2 \in 0 .. 1
        /\ \A i \in 0 .. 1 : i = Target \/ i = 1 - Target
        /\ 1 - Target = seq % 2
    BY <1>1, Successor DEF IInv, TypeOK, Target, storage
  <2>4. Outgoing.kind = "record" /\ Outgoing.seq = WrappingAdd(seq) /\ Outgoing.cfg = next
    BY DEF Outgoing, Encode
  <2>5. RamIsInFlash'
    <3>1. ASSUME NEW i \in 0 .. 1, IsRecord(i), i = seq % 2, sectors[i].seq = seq,
                 sectors[i].cfg = config
          PROVE  RamIsInFlash'
      <4>1. i = 1 - Target
        BY <2>3, <3>1
      <4> QED
        BY <2>1, <2>3, <3>1, <4>1 DEF RamIsInFlash, IsRecord
    <3>2. CASE /\ seq = 0
               /\ config = Defaults
               /\ ~IsRecord(0)
      <4>1. Target = 1 /\ WrappingAdd(seq) = 1
        BY <2>3, <3>2, SeqModAssumption DEF WrappingAdd
      <4>2. sectors'[0] = sectors[0] /\ sectors'[1].seq = 1
        BY <2>1, <2>4, <4>1
      <4> QED
        BY <2>3, <3>2, <4>2 DEF RamIsInFlash, IsRecord
    <3> QED
      BY <1>1, <3>1, <3>2 DEF IInv, RamIsInFlash
  <2>6. NewerIsTried'
    BY <1>1, <2>1, <2>3, <2>4 DEF IInv, NewerIsTried, IsRecord
  <2> QED
    BY <1>2, <2>1, <2>2, <2>5, <2>6 DEF IInv
<1> QED
  BY <1>3, <1>4, <1>5 DEF Fail

LEMMA WriteInv ==
  ASSUME IInv, Write
  PROVE  IInv'
<1>1. /\ Powered /\ Powered' /\ pc' = "idle"
      /\ sectors' = [sectors EXCEPT ![Target] = Outgoing]
      /\ config' = next /\ seq' = WrappingAdd(seq) /\ saved' = next /\ tried' = {}
      /\ UNCHANGED <<format, next>>
  BY DEF Write, Powered
<1>2. /\ sectors' \in [0 .. 1 -> Records \cup {Invalid}]
      /\ RecordsInPlace' /\ RecordsAdjacent'
      /\ sectors'[Target] = Outgoing
      /\ sectors'[1 - Target] = sectors[1 - Target]
  BY <1>1, TargetWritten
<1>3. /\ seq \in Seqs /\ WrappingAdd(seq) \in Seqs
      /\ Target \in 0 .. 1 /\ Target = WrappingAdd(seq) % 2 /\ Target = 1 - (seq % 2)
      /\ \A i \in 0 .. 1 : i = Target \/ i = 1 - Target
      /\ WrappingAdd(seq) # seq
  BY Successor DEF IInv, TypeOK, Target
<1>4. TypeOK'
  BY <1>1, <1>2, <1>3 DEF IInv, TypeOK
<1>5. Outgoing.kind = "record" /\ Outgoing.seq = WrappingAdd(seq) /\ Outgoing.cfg = next
  BY DEF Outgoing, Encode
<1>6. RamIsInFlash'
  BY <1>1, <1>2, <1>3, <1>5 DEF RamIsInFlash, IsRecord
<1>7. NewerIsTried'
  <2> SUFFICES ASSUME NEW i \in 0 .. 1, IsRecord(i)',
                      sectors'[i].seq = WrappingAdd(WrappingAdd(seq))
               PROVE  FALSE
    BY <1>1 DEF NewerIsTried
  <2>1. CASE i = Target
    BY <1>2, <1>3, <1>5, <2>1, Successor
  <2>2. CASE i = 1 - Target
    <3>1. IsRecord(i) /\ sectors[i].seq = WrappingAdd(WrappingAdd(seq))
      BY <1>2, <2>2 DEF IsRecord
    <3>2. i = seq % 2
      BY <1>3, <2>2, Successor
    <3>3. sectors[i].seq = seq
      <4>1. CASE seq = 0 /\ ~IsRecord(0)
        BY <3>1, <3>2, <4>1
      <4> QED
        BY <1>1, <3>1, <3>2, <4>1 DEF IInv, RamIsInFlash
    <3> QED
      BY <1>3, <3>1, <3>3, Successor
  <2> QED
    BY <1>3, <2>1, <2>2
<1>8. SaveUnderWay' /\ OffFindsSaved' /\ OffIsBlank'
  BY <1>1, DefaultsAssumption DEF SaveUnderWay, OffFindsSaved, OffIsBlank, IInv, TypeOK
<1> QED
  BY <1>2, <1>4, <1>6, <1>7, <1>8 DEF IInv

LEMMA PowerCutInv ==
  ASSUME IInv, PowerCut
  PROVE  IInv'
<1>1. /\ Powered /\ ~Powered' /\ pc' = "off" /\ seq' = 0 /\ config' = NoConfig
      /\ UNCHANGED <<format, next, saved, tried>>
      /\ config = saved
  BY DEF PowerCut, Powered, IInv, SaveUnderWay
<1>2. 0 \in Seqs
  BY SeqModAssumption DEF Seqs
<1>3. ASSUME sectors' \in [0 .. 1 -> Records \cup {Invalid}],
             RecordsInPlace', RecordsAdjacent',
             Load(sectors', format).cfg \in {config} \cup tried
      PROVE  IInv'
  <2>1. TypeOK'
    BY <1>1, <1>2, <1>3 DEF IInv, TypeOK
  <2>2. RamIsInFlash' /\ NewerIsTried' /\ SaveUnderWay' /\ OffFindsSaved' /\ OffIsBlank'
    BY <1>1, <1>3 DEF RamIsInFlash, NewerIsTried, SaveUnderWay, OffFindsSaved, OffIsBlank
  <2> QED
    BY <1>3, <2>1, <2>2 DEF IInv
<1>4. CASE sectors' = sectors
  <2>1. RecordsInPlace' /\ RecordsAdjacent' /\ sectors \in [0 .. 1 -> Records \cup {Invalid}]
    BY <1>1, <1>4 DEF IInv, TypeOK, RecordsInPlace, RecordsAdjacent, IsRecord
  <2> QED
    BY <1>1, <1>3, <1>4, <2>1, RunningLoad
<1>5. CASE sectors' = [sectors EXCEPT ![Target] = Invalid]
  BY <1>1, <1>3, <1>5, TargetErased
<1>6. CASE pc = "write" /\ sectors' = [sectors EXCEPT ![Target] = Outgoing]
  <2>1. next \in tried
    BY <1>6 DEF IInv, SaveUnderWay
  <2> QED
    BY <1>1, <1>3, <1>6, <2>1, TargetWritten
<1> QED
  BY <1>4, <1>5, <1>6 DEF PowerCut

LEMMA StutterInv ==
  ASSUME IInv, UNCHANGED vars
  PROVE  IInv'
BY DEF vars, IInv, TypeOK, RecordsInPlace, RecordsAdjacent, RamIsInFlash, NewerIsTried,
       SaveUnderWay, OffFindsSaved, OffIsBlank, Powered, IsRecord, Target

LEMMA StepInv == IInv /\ [Next]_vars => IInv'
<1> SUFFICES ASSUME IInv, [Next]_vars
             PROVE  IInv'
  OBVIOUS
<1> QED
  BY BootInv, UpdateInv, EraseInv, WriteInv, FailInv, PowerCutInv, StutterInv DEF Next

-----------------------------------------------------------------------------
(* The inductive invariant holds of every run of the store.                *)
THEOREM Invariant == Spec => []IInv
BY InitInv, StepInv, PTL DEF Spec

(* Every variable keeps its type; the sequence number stays a u32.         *)
THEOREM TypeCorrect == Spec => []TypeOK
<1>1. IInv => TypeOK
  BY DEF IInv
<1> QED
  BY <1>1, Invariant, PTL

(* "A power cut never loses both copies": at every instant, also inside an *)
(* erase or a program, a start would find the last acknowledged config or  *)
(* a save begun after it.                                                  *)
THEOREM Durability == Spec => []BootFindsSaved
<1>1. IInv => BootFindsSaved
  <2> SUFFICES ASSUME IInv PROVE BootFindsSaved
    OBVIOUS
  <2>1. CASE Powered
    BY <2>1, RunningLoad DEF BootFindsSaved, IInv, SaveUnderWay
  <2>2. CASE ~Powered
    BY <2>2 DEF BootFindsSaved, IInv, OffFindsSaved
  <2> QED
    BY <2>1, <2>2
<1> QED
  BY <1>1, Invariant, PTL

(* No step erases or programs the sector that holds the config in use: its *)
(* sequence number has the other parity than the target's.                 *)
THEOREM LiveCopy == Spec => LiveCopySurvives
<1>1. ASSUME IInv, [Next]_vars
      PROVE  KeepsLiveCopy
  <2> SUFFICES ASSUME NEW i \in 0 .. 1, Powered, IsRecord(i), sectors[i].seq = seq
               PROVE  sectors'[i] = sectors[i]
    BY DEF KeepsLiveCopy
  <2>1. i # Target
    <3>1. i = seq % 2 /\ seq \in Seqs
      BY <1>1 DEF IInv, RecordsInPlace, TypeOK
    <3> QED
      BY <3>1, Successor DEF Target
  <2>2. \/ sectors' = sectors
        \/ sectors' = [sectors EXCEPT ![Target] = Invalid]
        \/ sectors' = [sectors EXCEPT ![Target] = Outgoing]
    BY <1>1 DEF Next, Boot, Update, Erase, Write, Fail, PowerCut, vars
  <2> QED
    BY <1>1, <2>1, <2>2 DEF IInv, TypeOK
<1>2. IInv /\ [Next]_vars => [KeepsLiveCopy]_vars
  BY <1>1
<1> QED
  BY <1>2, Invariant, PTL DEF Spec, LiveCopySurvives

-----------------------------------------------------------------------------
(* Every step of the two sectors is a step of the cell, or one it does not *)
(* see.                                                                    *)
LEMMA CellStep == IInv /\ [Next]_vars => [Cell!Next]_(Cell!vars)
<1> SUFFICES ASSUME IInv, [Next]_vars
             PROVE  [Cell!Next]_(Cell!vars)
  OBVIOUS
<1> DEFINE durable == Load(sectors, format).cfg
<1> USE DEF Cell!vars, Cell!Next
<1>1. next \in Configs /\ Defaults \in Configs
  BY DefaultsAssumption DEF IInv, TypeOK
<1>2. ASSUME NEW f \in Formats, Boot(f)
      PROVE  Cell!Start
  <2>1. config = NoConfig
    BY <1>2 DEF Boot, IInv, OffIsBlank, Powered
  <2>2. Load(sectors, f) = Load(sectors, format)
    BY <1>2, BootLoad DEF Boot
  <2> QED
    BY <1>2, <2>1, <2>2 DEF Boot, Cell!Start
<1>3. ASSUME NEW c \in Configs, Update(c)
      PROVE  UNCHANGED Cell!vars
  BY <1>3 DEF Update
<1>4. ASSUME pc \in {"erase", "write"}
      PROVE  Powered /\ config # NoConfig
  BY <1>4, DefaultsAssumption DEF Powered, IInv, SaveUnderWay, TypeOK
<1>5. CASE Erase
  <2>1. Cell!SaveUnacknowledged(next)
    BY <1>4, <1>5, TargetErased DEF Erase, Cell!SaveUnacknowledged
  <2> QED
    BY <1>1, <2>1
<1>6. CASE Write
  <2>1. Cell!Save(next)
    BY <1>4, <1>6, TargetWritten DEF Write, Cell!Save
  <2> QED
    BY <1>1, <2>1
<1>7. CASE Fail
  <2>1. CASE sectors' = sectors
    BY <1>7, <2>1 DEF Fail, storage
  <2>2. CASE sectors' = [sectors EXCEPT ![Target] = Invalid]
    <3>1. Cell!SaveUnacknowledged(next)
      BY <1>4, <1>7, <2>2, TargetErased DEF Fail, storage, Cell!SaveUnacknowledged
    <3> QED
      BY <1>1, <3>1
  <2>3. CASE sectors' = [sectors EXCEPT ![Target] = Outgoing]
    <3>1. Cell!SaveUnacknowledged(next)
      BY <1>4, <1>7, <2>3, TargetWritten DEF Fail, storage, Cell!SaveUnacknowledged
    <3> QED
      BY <1>1, <3>1
  <2> QED
    BY <1>7, <2>1, <2>2, <2>3 DEF Fail
<1>8. CASE PowerCut
  <2>1. Powered /\ config # NoConfig
    BY <1>8, DefaultsAssumption DEF PowerCut, Powered, IInv, SaveUnderWay, TypeOK
  <2>2. CASE sectors' = sectors
    <3>1. Cell!PowerCut(next)
      BY <1>8, <2>1, <2>2 DEF PowerCut, Cell!PowerCut
    <3> QED
      BY <1>1, <3>1
  <2>3. CASE sectors' = [sectors EXCEPT ![Target] = Invalid]
    <3>1. Cell!PowerCut(next)
      BY <1>8, <2>1, <2>3, TargetErased DEF PowerCut, Cell!PowerCut
    <3> QED
      BY <1>1, <3>1
  <2>4. CASE sectors' = [sectors EXCEPT ![Target] = Outgoing]
    <3>1. Cell!PowerCut(next)
      BY <1>8, <2>1, <2>4, TargetWritten DEF PowerCut, Cell!PowerCut
    <3> QED
      BY <1>1, <3>1
  <2> QED
    BY <1>8, <2>2, <2>3, <2>4 DEF PowerCut
<1>9. CASE UNCHANGED vars
  BY <1>9 DEF vars
<1> QED
  BY <1>2, <1>3, <1>5, <1>6, <1>7, <1>8, <1>9 DEF Next

(* The two alternating sectors implement an atomic cell: the refinement    *)
(* maps the durable value to what a start would load.                      *)
THEOREM Refinement == Spec => ImplementsCell
<1>1. Init => Cell!Init
  BY DefaultsAssumption DEF Init, Cell!Init, Load, Decodes, Invalid
<1> QED
  BY <1>1, CellStep, Invariant, PTL DEF Spec, ImplementsCell, Cell!Spec

=============================================================================
