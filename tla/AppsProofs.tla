---------------------------- MODULE AppsProofs -----------------------------
(***************************************************************************)
(* The parts that share no state: the timers, Hoot, the apps on the app    *)
(* lane, the sound task, the reading of config records, the shell with its *)
(* alarm, and the backlight.                                               *)
(***************************************************************************)
EXTENDS Timers, Hoot, LaneApps, Speaker, Record, Desk, Backlight, TLAPS, WellFoundedInduction,
        FiniteSetTheorems, SequenceTheorems

(* Timers: for any period of the clock, any lengths it can tell apart, and *)
(* any number of sessions, laps and ticks.                                 *)

TimerInv == TimerTypeOK /\ TimersKeepTime

PomoType ==
  [phase : {"Ready", "Work", "Break"}, work : Works, break : Breaks,
   paused : 0 .. Wrap, endsAt : 0 .. Wrap - 1, sessions : 0 .. MaxSessions]

WatchType ==
  [banked : 0 .. Wrap - 1, started : 0 .. Wrap, laps : Seq(0 .. Wrap - 1), base : Nat]

RanType == [phase : Nat, watch : Nat, laps : Seq(Nat)]

(* A time on the clock. *)
OnClock(a) == a % Wrap

LEMMA WrapFacts ==
  /\ Wrap \in Nat /\ Wrap > 0
  /\ Wrap \div 2 \in Nat /\ Wrap \div 2 < Wrap
  /\ \A n \in Works \cup Breaks : n \in Nat /\ n >= 1 /\ n < Wrap \div 2 /\ n < Wrap
<1>1. Wrap \in Nat /\ Wrap > 0
  BY TimersAssumption
<1>2. Wrap \div 2 \in Nat /\ Wrap \div 2 < Wrap
  BY <1>1
<1> QED BY <1>1, <1>2, TimersAssumption

(* What passes the end of the clock's period once at most. *)
LEMMA OnceAround ==
  ASSUME NEW a \in 0 .. 2 * Wrap - 1
  PROVE  OnClock(a) = IF a < Wrap THEN a ELSE a - Wrap
<1>1. CASE a < Wrap
  BY <1>1, WrapFacts DEF OnClock
<1>2. CASE a >= Wrap
  BY <1>2, WrapFacts DEF OnClock
<1> QED BY <1>1, <1>2, WrapFacts

(* A number is a multiple of the period and a rest in one way only. *)
LEMMA OneRest ==
  ASSUME NEW w \in Nat, w > 0, NEW p \in Int, NEW q \in Int,
         NEW r \in 0 .. w - 1, NEW s \in 0 .. w - 1, w * p + r = w * q + s
  PROVE  r = s
<1>1. ASSUME NEW a \in Int, NEW b \in Int, a >= b + 1
      PROVE  w * a >= w * b + w
  <2> DEFINE k == a - b
  <2>1. k \in Nat /\ k >= 1
    BY <1>1
  <2> HIDE DEF k
  <2>2. w * k >= w
    BY <2>1, Z3
  <2>3. w * (a - b) = w * a - w * b
    BY Z3
  <2> QED BY <2>2, <2>3, Z3 DEF k
<1>2. CASE p = q
  BY <1>2
<1>3. CASE p >= q + 1
  BY <1>1, <1>3, Z3
<1>4. CASE q >= p + 1
  BY <1>1, <1>4, Z3
<1> QED BY <1>2, <1>3, <1>4

(* A tick, however often the clock has wrapped. *)
LEMMA NextOnClock ==
  ASSUME NEW x \in Nat
  PROVE  /\ OnClock(x) \in 0 .. Wrap - 1
         /\ OnClock(x + 1) = IF OnClock(x) = Wrap - 1 THEN 0 ELSE OnClock(x) + 1
<1>1. ASSUME NEW y \in Nat
      PROVE  \E q \in Int : y = Wrap * q + OnClock(y) /\ OnClock(y) \in 0 .. Wrap - 1
  <2>1. y - (y % Wrap) = Wrap * (y \div Wrap)
    BY WrapFacts, SMT
  <2>2. y % Wrap \in 0 .. Wrap - 1 /\ y \div Wrap \in Int
    BY WrapFacts, Z3
  <2> QED BY <2>1, <2>2, Z3 DEF OnClock
<1>2. PICK q \in Int : x = Wrap * q + OnClock(x) /\ OnClock(x) \in 0 .. Wrap - 1
  BY <1>1
<1>3. PICK p \in Int : x + 1 = Wrap * p + OnClock(x + 1) /\ OnClock(x + 1) \in 0 .. Wrap - 1
  BY <1>1
<1>4. CASE OnClock(x) = Wrap - 1
  <2>1. Wrap * (q + 1) = Wrap * q + Wrap
    BY WrapFacts, Z3
  <2>2. Wrap * (q + 1) + 0 = Wrap * p + OnClock(x + 1)
    BY <1>2, <1>3, <1>4, <2>1, WrapFacts, Z3
  <2>3. 0 \in 0 .. Wrap - 1 /\ q + 1 \in Int
    BY WrapFacts
  <2> QED BY <1>2, <1>3, <1>4, <2>2, <2>3, OneRest, WrapFacts
<1>5. CASE OnClock(x) < Wrap - 1
  <2>1. Wrap * q + (OnClock(x) + 1) = Wrap * p + OnClock(x + 1)
    BY <1>2, <1>3, WrapFacts, Z3
  <2>2. OnClock(x) + 1 \in 0 .. Wrap - 1
    BY <1>2, <1>5, WrapFacts
  <2> QED BY <1>2, <1>3, <1>5, <2>1, <2>2, OneRest, WrapFacts
<1> QED BY <1>2, <1>4, <1>5, WrapFacts

(* How far ahead a time is. *)
LEMMA AheadFacts ==
  ASSUME millis \in 0 .. Wrap - 1, NEW t \in 0 .. Wrap - 1
  PROVE  /\ Ahead(t) \in 0 .. Wrap - 1
         /\ Ahead(t) = IF t >= millis THEN t - millis ELSE t - millis + Wrap
<1>1. t - millis + Wrap \in 0 .. 2 * Wrap - 1
  BY WrapFacts
<1>2. Ahead(t) = OnClock(t - millis + Wrap)
  BY DEF Ahead, OnClock
<1> QED BY <1>1, <1>2, OnceAround, WrapFacts

LEMMA AfterFacts ==
  ASSUME millis \in 0 .. Wrap - 1, NEW n \in 0 .. Wrap - 1
  PROVE  /\ After(n) \in 0 .. Wrap - 1
         /\ After(n) = IF millis + n < Wrap THEN millis + n ELSE millis + n - Wrap
         /\ Ahead(After(n)) = n
<1>1. millis + n \in 0 .. 2 * Wrap - 1
  BY WrapFacts
<1>2. After(n) = OnClock(millis + n)
  BY DEF After, OnClock
<1>3. /\ After(n) \in 0 .. Wrap - 1
      /\ After(n) = IF millis + n < Wrap THEN millis + n ELSE millis + n - Wrap
  BY <1>1, <1>2, OnceAround, WrapFacts
<1> QED BY <1>3, AheadFacts, WrapFacts

(* What remains of a phase. *)
LEMMA RemainingFacts ==
  ASSUME millis \in 0 .. Wrap - 1, NEW p \in PomoType
  PROVE  /\ p.phase = "Ready" => Remaining(p) = p.work
         /\ p.phase # "Ready" /\ p.paused # NotPaused => Remaining(p) = p.paused
         /\ p.phase # "Ready" /\ p.paused = NotPaused =>
              Remaining(p) = IF Ahead(p.endsAt) >= Wrap \div 2 THEN 0 ELSE Ahead(p.endsAt)
         /\ Remaining(p) \in 0 .. Wrap - 1 \/ p.paused = NotPaused
         /\ Remaining(p) \in Nat
         /\ LengthOf(p) \in Works \cup Breaks
<1>1. /\ p.phase = "Ready" => Remaining(p) = p.work
      /\ p.phase # "Ready" /\ p.paused # NotPaused => Remaining(p) = p.paused
      /\ p.phase # "Ready" /\ p.paused = NotPaused =>
           Remaining(p) = IF Ahead(p.endsAt) >= Wrap \div 2 THEN 0 ELSE Ahead(p.endsAt)
  BY DEF Remaining
<1>2. p.work \in Works /\ p.break \in Breaks /\ p.paused \in 0 .. Wrap /\ p.endsAt \in 0 .. Wrap - 1
  BY DEF PomoType
<1>3. Ahead(p.endsAt) \in 0 .. Wrap - 1
  BY <1>2, AheadFacts
<1>4. p.work \in 0 .. Wrap - 1
  BY <1>2, WrapFacts
<1>5. LengthOf(p) \in Works \cup Breaks
  BY <1>2 DEF LengthOf
<1> QED BY <1>1, <1>2, <1>3, <1>4, <1>5, WrapFacts DEF NotPaused

(* A phase that starts has its length before it. *)
LEMMA StartFacts ==
  ASSUME millis \in 0 .. Wrap - 1, NEW p \in PomoType, NEW phase \in {"Work", "Break"}
  PROVE  /\ Start(p, phase) \in PomoType
         /\ Start(p, phase).phase = phase
         /\ Remaining(Start(p, phase)) = LengthOf(Start(p, phase))
<1> DEFINE q == [p EXCEPT !.phase = phase]
<1> DEFINE s == Start(p, phase)
<1>1. q \in PomoType /\ q.phase = phase
  BY DEF PomoType
<1>2. LengthOf(q) \in 0 .. Wrap - 1 /\ LengthOf(q) < Wrap \div 2
  BY <1>1, RemainingFacts, WrapFacts
<1>3. After(LengthOf(q)) \in 0 .. Wrap - 1 /\ Ahead(After(LengthOf(q))) = LengthOf(q)
  BY <1>2, AfterFacts
<1>4. s = [q EXCEPT !.paused = NotPaused, !.endsAt = After(LengthOf(q))]
  BY DEF Start
<1>5. NotPaused \in 0 .. Wrap
  BY WrapFacts DEF NotPaused
<1>6. s \in PomoType
  BY <1>1, <1>3, <1>4, <1>5 DEF PomoType
<1>7. /\ s.phase = phase /\ s.paused = NotPaused /\ s.endsAt = After(LengthOf(q))
      /\ s.work = q.work /\ s.break = q.break
  BY <1>1, <1>4 DEF PomoType
<1>8. LengthOf(s) = LengthOf(q)
  BY <1>1, <1>7 DEF LengthOf
<1>9. Remaining(s) = Ahead(s.endsAt)
  BY <1>2, <1>3, <1>6, <1>7, RemainingFacts, WrapFacts
<1> QED BY <1>3, <1>6, <1>7, <1>8, <1>9

LEMMA AdvanceFacts ==
  ASSUME millis \in 0 .. Wrap - 1, NEW p \in PomoType, p.phase # "Ready"
  PROVE  /\ Advance(p) \in PomoType
         /\ Advance(p).phase \notin {"Ready", p.phase}
         /\ Remaining(Advance(p)) = LengthOf(Advance(p))
<1> DEFINE r == [p EXCEPT !.sessions = IF @ = MaxSessions THEN @ ELSE @ + 1]
<1>1. p.phase \in {"Work", "Break"}
  BY DEF PomoType
<1>2. r \in PomoType
  BY TimersAssumption DEF PomoType
<1>3. Advance(p) = IF p.phase = "Work" THEN Start(r, "Break") ELSE Start(p, "Work")
  BY DEF Advance
<1> HIDE DEF r
<1> QED BY <1>1, <1>2, <1>3, StartFacts

(* A key leaves a phase that goes on with what it had. *)
LEMMA KeyFacts ==
  ASSUME TimerInv, NEW p \in KeyFrames(pomo)
  PROVE  /\ p \in PomoType
         /\ p.phase # "Ready" /\ p.phase = pomo.phase => ran.phase + Remaining(p) = LengthOf(p)
         /\ p.phase # "Ready" /\ p.phase # pomo.phase => Remaining(p) = LengthOf(p)
<1>1. /\ millis \in 0 .. Wrap - 1 /\ pomo \in PomoType /\ ran.phase \in Nat
      /\ pomo.phase # "Ready" => ran.phase + Remaining(pomo) = LengthOf(pomo)
  BY DEF TimerInv, TimerTypeOK, TimersKeepTime, PomoType
<1>2. CASE p = pomo
  BY <1>1, <1>2
<1>3. CASE p = PressL(pomo)
  <2>1. CASE pomo.phase = "Ready"
    BY <1>1, <1>3, <2>1, StartFacts DEF PressL
  <2>2. CASE pomo.phase # "Ready" /\ pomo.paused # NotPaused
    <3>1. p = [pomo EXCEPT !.paused = NotPaused, !.endsAt = After(pomo.paused)]
      BY <1>3, <2>2 DEF PressL
    <3>2. Remaining(pomo) = pomo.paused
      BY <1>1, <2>2, RemainingFacts
    <3>3. LengthOf(pomo) \in Nat /\ LengthOf(pomo) < Wrap \div 2
      BY <1>1, RemainingFacts, WrapFacts
    <3>4. pomo.paused \in 0 .. Wrap - 1 /\ pomo.paused < Wrap \div 2
      BY <1>1, <2>2, <3>2, <3>3, RemainingFacts, WrapFacts
    <3>5. After(pomo.paused) \in 0 .. Wrap - 1 /\ Ahead(After(pomo.paused)) = pomo.paused
      BY <1>1, <3>4, AfterFacts
    <3>6. NotPaused \in 0 .. Wrap
      BY WrapFacts DEF NotPaused
    <3>7. p \in PomoType
      BY <1>1, <3>1, <3>5, <3>6 DEF PomoType
    <3>8. /\ p.phase = pomo.phase /\ p.paused = NotPaused /\ p.endsAt = After(pomo.paused)
          /\ p.work = pomo.work /\ p.break = pomo.break
      BY <1>1, <3>1 DEF PomoType
    <3>9. LengthOf(p) = LengthOf(pomo)
      BY <3>8 DEF LengthOf
    <3>10. Remaining(p) = pomo.paused
      BY <1>1, <2>2, <3>4, <3>5, <3>7, <3>8, RemainingFacts, WrapFacts
    <3> QED BY <1>1, <2>2, <3>2, <3>7, <3>8, <3>9, <3>10
  <2>3. CASE pomo.phase # "Ready" /\ pomo.paused = NotPaused
    <3>1. p = [pomo EXCEPT !.paused = Remaining(pomo)]
      BY <1>3, <2>3 DEF PressL
    <3>2. Remaining(pomo) \in 0 .. Wrap - 1
      <4>1. Remaining(pomo) = IF Ahead(pomo.endsAt) >= Wrap \div 2 THEN 0 ELSE Ahead(pomo.endsAt)
        BY <1>1, <2>3, RemainingFacts
      <4>2. Ahead(pomo.endsAt) \in 0 .. Wrap - 1
        BY <1>1, AheadFacts DEF PomoType
      <4> QED BY <4>1, <4>2, WrapFacts
    <3>3. Remaining(pomo) \in 0 .. Wrap
      BY <3>2, WrapFacts
    <3>4. p \in PomoType
      BY <1>1, <3>1, <3>3 DEF PomoType
    <3>5. /\ p.phase = pomo.phase /\ p.paused = Remaining(pomo)
          /\ p.work = pomo.work /\ p.break = pomo.break
      BY <1>1, <3>1 DEF PomoType
    <3>6. LengthOf(p) = LengthOf(pomo)
      BY <3>5 DEF LengthOf
    <3>7. p.paused # NotPaused
      BY <3>2, <3>5, WrapFacts DEF NotPaused
    <3>8. Remaining(p) = Remaining(pomo)
      BY <1>1, <2>3, <3>4, <3>5, <3>7, RemainingFacts
    <3> QED BY <1>1, <2>3, <3>4, <3>5, <3>6, <3>8
  <2> QED BY <2>1, <2>2, <2>3
<1>4. CASE p = PressK(pomo)
  <2>1. NotPaused \in 0 .. Wrap /\ 0 \in 0 .. MaxSessions
    BY WrapFacts, TimersAssumption DEF NotPaused
  <2>2. p \in PomoType /\ p.phase = "Ready"
    BY <1>1, <1>4, <2>1 DEF PressK, PomoType
  <2> QED BY <2>2
<1>5. CASE pomo.phase = "Ready" /\ \E l \in Works \X Breaks : p = [pomo EXCEPT !.work = l[1], !.break = l[2]]
  <2>1. p \in PomoType /\ p.phase = "Ready"
    BY <1>1, <1>5 DEF PomoType
  <2> QED BY <2>1
<1>6. CASE p \in IF pomo.phase = "Ready" THEN {[pomo EXCEPT !.work = l[1], !.break = l[2]] : l \in Works \X Breaks} ELSE {}
  <2>1. CASE pomo.phase = "Ready"
    <3>1. p \in {[pomo EXCEPT !.work = l[1], !.break = l[2]] : l \in Works \X Breaks}
      BY <1>6, <2>1
    <3>2. \E l \in Works \X Breaks : p = [pomo EXCEPT !.work = l[1], !.break = l[2]]
      BY <3>1
    <3> QED BY <1>5, <2>1, <3>2
  <2>2. CASE pomo.phase # "Ready"
    BY <1>6, <2>2
  <2> QED BY <2>1, <2>2
<1>7. \/ p = pomo \/ p = PressL(pomo) \/ p = PressK(pomo)
      \/ p \in IF pomo.phase = "Ready" THEN {[pomo EXCEPT !.work = l[1], !.break = l[2]] : l \in Works \X Breaks} ELSE {}
  BY DEF KeyFrames
<1> QED BY <1>2, <1>3, <1>4, <1>6, <1>7

(* What the keys of the Pomodoro and its end leave.                        *)
LEMMA PomoFrameKeeps ==
  ASSUME TimerInv, PomoFrame
  PROVE  TimerInv'
<1>1. /\ millis \in 0 .. Wrap - 1 /\ pomo \in PomoType
      /\ ran \in RanType
      /\ millis' = millis /\ watch' = watch
  BY DEF TimerInv, TimerTypeOK, PomoType, RanType, PomoFrame
<1>2. PICK p \in KeyFrames(pomo) :
        LET ends == Running(pomo) /\ Remaining(p) = 0
        IN /\ pomo' = IF ends THEN Advance(p) ELSE p
           /\ ran' = IF ends \/ pomo'.phase # pomo.phase THEN [ran EXCEPT !.phase = 0] ELSE ran
  BY DEF PomoFrame
<1> DEFINE ends == Running(pomo) /\ Remaining(p) = 0
<1>3. /\ pomo' = IF ends THEN Advance(p) ELSE p
      /\ ran' = IF ends \/ pomo'.phase # pomo.phase THEN [ran EXCEPT !.phase = 0] ELSE ran
  BY <1>2
<1> HIDE DEF ends
<1>4. /\ p \in PomoType
      /\ p.phase # "Ready" /\ p.phase = pomo.phase => ran.phase + Remaining(p) = LengthOf(p)
      /\ p.phase # "Ready" /\ p.phase # pomo.phase => Remaining(p) = LengthOf(p)
  BY KeyFacts
<1>5. ran' \in RanType /\ ran'.watch = ran.watch /\ ran'.laps = ran.laps
  BY <1>1, <1>3 DEF RanType
<1>6. pomo' \in PomoType /\ (pomo'.phase # "Ready" => ran'.phase + Remaining(pomo') = LengthOf(pomo'))
  <2>1. CASE ends
    <3>1. p.phase # "Ready"
      <4>1. p.phase = "Ready" => Remaining(p) \in Works
        BY <1>1, <1>4, RemainingFacts DEF PomoType
      <4>2. 0 \notin Works
        BY WrapFacts
      <4> QED BY <2>1, <4>1, <4>2 DEF ends
    <3>2. /\ Advance(p) \in PomoType
          /\ Remaining(Advance(p)) = LengthOf(Advance(p))
          /\ LengthOf(Advance(p)) \in Nat
      BY <1>1, <1>4, <3>1, AdvanceFacts, RemainingFacts, WrapFacts
    <3>3. pomo' = Advance(p) /\ ran'.phase = 0
      BY <1>1, <1>3, <2>1 DEF RanType
    <3> QED BY <3>2, <3>3
  <2>2. CASE ~ends /\ p.phase # pomo.phase
    <3>1. pomo' = p /\ ran'.phase = 0
      BY <1>1, <1>3, <2>2 DEF RanType
    <3>2. LengthOf(p) \in Nat
      BY <1>1, <1>4, RemainingFacts, WrapFacts
    <3> QED BY <1>4, <2>2, <3>1, <3>2
  <2>3. CASE ~ends /\ p.phase = pomo.phase
    <3>1. pomo' = p /\ ran' = ran
      BY <1>3, <2>3
    <3> QED BY <1>4, <2>3, <3>1
  <2> QED BY <2>1, <2>2, <2>3
<1>7. Remaining(pomo)' = Remaining(pomo') /\ LengthOf(pomo)' = LengthOf(pomo') /\ Elapsed' = Elapsed
  BY <1>1 DEF Remaining, Ahead, LengthOf, Elapsed
<1>8. TimerTypeOK'
  BY <1>1, <1>5, <1>6 DEF TimerInv, TimerTypeOK, PomoType, RanType
<1>9. TimersKeepTime'
  BY <1>1, <1>5, <1>6, <1>7 DEF TimerInv, TimersKeepTime
<1> QED BY <1>8, <1>9 DEF TimerInv

-----------------------------------------------------------------------------
(* The stopwatch. *)
Since == IF watch.started = Stopped THEN 0 ELSE (millis - watch.started + Wrap) % Wrap

LEMMA SinceFacts ==
  ASSUME TimerTypeOK
  PROVE  /\ Since \in 0 .. Wrap - 1
         /\ watch.started = Stopped => Since = 0
         /\ watch.started # Stopped =>
              Since = IF millis >= watch.started THEN millis - watch.started ELSE millis - watch.started + Wrap
         /\ Elapsed \in 0 .. Wrap - 1
         /\ Elapsed = IF watch.banked + Since < Wrap THEN watch.banked + Since ELSE watch.banked + Since - Wrap
<1>1. millis \in 0 .. Wrap - 1 /\ watch.banked \in 0 .. Wrap - 1 /\ watch.started \in 0 .. Wrap
  BY DEF TimerTypeOK
<1>2. CASE watch.started = Stopped
  <2>1. Since = 0
    BY <1>2 DEF Since
  <2>2. watch.banked + Since \in 0 .. 2 * Wrap - 1
    BY <1>1, <2>1, WrapFacts
  <2>3. Elapsed = OnClock(watch.banked + Since)
    BY DEF Elapsed, Since, OnClock
  <2> QED BY <1>1, <1>2, <2>1, <2>2, <2>3, OnceAround, WrapFacts
<1>3. CASE watch.started # Stopped
  <2>1. watch.started \in 0 .. Wrap - 1
    BY <1>1, <1>3, WrapFacts DEF Stopped
  <2>3. Since = OnClock(millis - watch.started + Wrap)
    BY <1>3 DEF Since, OnClock
  <2>4. millis - watch.started + Wrap \in 0 .. 2 * Wrap - 1
    BY <1>1, <2>1, WrapFacts
  <2>5. /\ Since \in 0 .. Wrap - 1
        /\ Since = IF millis >= watch.started THEN millis - watch.started ELSE millis - watch.started + Wrap
    BY <1>1, <2>1, <2>3, <2>4, OnceAround, WrapFacts
  <2>6. watch.banked + Since \in 0 .. 2 * Wrap - 1
    BY <1>1, <2>5, WrapFacts
  <2>7. Elapsed = OnClock(watch.banked + Since)
    BY DEF Elapsed, Since, OnClock
  <2> QED BY <1>1, <1>3, <2>5, <2>6, <2>7, OnceAround, WrapFacts
<1> QED BY <1>2, <1>3

(* laps are the last of those in h, of which base have left the list. *)
LapsKept(laps, base, h) ==
  /\ base + Len(laps) = Len(h)
  /\ \A i \in 1 .. Len(laps) : laps[i] = OnClock(h[base + i])

(* A lap is added to the list and to all that were taken. *)
LEMMA LapAppended ==
  ASSUME NEW laps \in Seq(0 .. Wrap - 1), NEW base \in Nat, NEW h \in Seq(Nat),
         LapsKept(laps, base, h), NEW n \in Nat, NEW e \in 0 .. Wrap - 1, e = OnClock(n)
  PROVE  /\ Append(laps, e) \in Seq(0 .. Wrap - 1)
         /\ Append(h, n) \in Seq(Nat)
         /\ Len(Append(laps, e)) = Len(laps) + 1
         /\ LapsKept(Append(laps, e), base, Append(h, n))
<1>1. /\ Append(laps, e) \in Seq(0 .. Wrap - 1)
      /\ Len(Append(laps, e)) = Len(laps) + 1 /\ Len(laps) \in Nat
      /\ \A i \in 1 .. Len(laps) : Append(laps, e)[i] = laps[i]
      /\ Append(laps, e)[Len(laps) + 1] = e
  OBVIOUS
<1>2. /\ Append(h, n) \in Seq(Nat)
      /\ Len(Append(h, n)) = Len(h) + 1 /\ Len(h) \in Nat
      /\ \A i \in 1 .. Len(h) : Append(h, n)[i] = h[i]
      /\ Append(h, n)[Len(h) + 1] = n
  OBVIOUS
<1>3. base + Len(laps) = Len(h)
  BY DEF LapsKept
<1>4. ASSUME NEW i \in 1 .. Len(laps) + 1
      PROVE  Append(laps, e)[i] = OnClock(Append(h, n)[base + i])
  <2>1. CASE i = Len(laps) + 1
    <3>1. base + i = Len(h) + 1
      <4>1. Len(laps) \in Nat
        OBVIOUS
      <4> QED BY <1>3, <2>1, <4>1
    <3>2. Append(h, n)[base + i] = n
      BY <1>2, <3>1
    <3>3. Append(laps, e)[i] = e
      BY <1>1, <2>1
    <3> QED BY <3>2, <3>3
  <2>2. CASE i # Len(laps) + 1
    <3>1. i \in 1 .. Len(laps) /\ base + i \in 1 .. Len(h)
      BY <1>1, <1>2, <1>3, <2>2
    <3> QED BY <1>1, <1>2, <3>1 DEF LapsKept
  <2> QED BY <2>1, <2>2
<1> QED BY <1>1, <1>2, <1>3, <1>4 DEF LapsKept

(* The oldest leaves the list and is counted. *)
LEMMA LapDropped ==
  ASSUME NEW laps \in Seq(0 .. Wrap - 1), Len(laps) > 0, NEW base \in Nat, NEW h \in Seq(Nat),
         LapsKept(laps, base, h)
  PROVE  /\ Tail(laps) \in Seq(0 .. Wrap - 1)
         /\ Len(Tail(laps)) = Len(laps) - 1
         /\ LapsKept(Tail(laps), base + 1, h)
<1>1. /\ Tail(laps) \in Seq(0 .. Wrap - 1)
      /\ Len(Tail(laps)) = Len(laps) - 1 /\ Len(laps) \in Nat
      /\ \A i \in 1 .. Len(laps) - 1 : Tail(laps)[i] = laps[i + 1]
  OBVIOUS
<1>2. base + 1 + Len(Tail(laps)) = Len(h)
  BY <1>1 DEF LapsKept
<1>3. ASSUME NEW i \in 1 .. Len(laps) - 1
      PROVE  Tail(laps)[i] = OnClock(h[base + 1 + i])
  <2>1. i + 1 \in 1 .. Len(laps) /\ base + (i + 1) = base + 1 + i
    BY <1>1
  <2> QED BY <1>1, <2>1 DEF LapsKept
<1> QED BY <1>1, <1>2, <1>3 DEF LapsKept

(* A lap taken: the list, its base, and the times the laps were taken at. *)
LapTaken(laps, base, h) ==
  /\ watch' = [watch EXCEPT !.laps = laps, !.base = base]
  /\ ran' = [ran EXCEPT !.laps = h]
  /\ Len(laps) <= MaxLaps
  /\ LapsKept(laps, base, h)

(* A key of the stopwatch leaves the time it shows, or clears it. *)
LEMMA WatchFrameKeeps ==
  ASSUME TimerInv, WatchFrame
  PROVE  TimerInv'
<1>1. /\ millis \in 0 .. Wrap - 1 /\ watch \in WatchType /\ Len(watch.laps) <= MaxLaps
      /\ ran \in RanType /\ ran.watch \in Nat /\ ran.laps \in Seq(Nat)
      /\ watch.laps \in Seq(0 .. Wrap - 1)
      /\ watch.banked \in 0 .. Wrap - 1 /\ watch.base \in Nat
  BY DEF TimerInv, TimerTypeOK, WatchType, RanType
<1>2. UNCHANGED <<millis, pomo>> /\ ran'.phase = ran.phase
  BY <1>1 DEF WatchFrame, RanType
<1>3. Remaining(pomo)' = Remaining(pomo)
  BY <1>2 DEF Remaining, Ahead
<1>4. /\ Elapsed \in 0 .. Wrap - 1
      /\ Elapsed = OnClock(ran.watch)
      /\ LapsKept(watch.laps, watch.base, ran.laps)
  BY SinceFacts DEF TimerInv, TimersKeepTime, LapsKept, OnClock
<1>5. 0 \in 0 .. Wrap - 1 /\ MaxLaps \in Nat /\ MaxLaps > 0 /\ millis \in 0 .. Wrap /\ Wrap \in 0 .. Wrap
  BY <1>1, WrapFacts, TimersAssumption
<1>6. SUFFICES /\ watch' \in WatchType /\ Len(watch'.laps) <= MaxLaps
               /\ ran' \in RanType
               /\ Elapsed' = OnClock(ran'.watch)
               /\ LapsKept(watch'.laps, watch'.base, ran'.laps)
  <2>1. TimerTypeOK'
    BY <1>2, <1>6 DEF TimerInv, TimerTypeOK, WatchType, RanType
  <2>2. TimersKeepTime'
    BY <1>2, <1>3, <1>6 DEF TimerInv, TimersKeepTime, LapsKept, OnClock
  <2> QED BY <2>1, <2>2 DEF TimerInv
<1>7. CASE watch.started = Stopped /\ watch' = [watch EXCEPT !.started = millis] /\ ran' = ran
  <2>1. /\ watch' \in WatchType
        /\ watch'.started = millis /\ watch'.banked = watch.banked
        /\ watch'.laps = watch.laps /\ watch'.base = watch.base
    BY <1>1, <1>5, <1>7 DEF WatchType
  <2>2. TimerTypeOK'
    BY <1>1, <1>2, <1>7, <2>1 DEF TimerInv, TimerTypeOK, WatchType, RanType
  <2>3. watch'.started # Stopped
    BY <1>1, <2>1, WrapFacts DEF Stopped
  <2>4. Since' = (millis - millis + Wrap) % Wrap
    BY <1>2, <2>1, <2>3 DEF Since
  <2>5. Since' = 0
    <3>1. Since' = OnClock(Wrap)
      BY <1>1, <2>4, WrapFacts DEF OnClock
    <3>2. Wrap \in 0 .. 2 * Wrap - 1
      BY WrapFacts
    <3> QED BY <3>1, <3>2, OnceAround, WrapFacts
  <2>6. Elapsed' = (watch'.banked + Since') % Wrap
    BY DEF Elapsed, Since
  <2>7. Elapsed = (watch.banked + Since) % Wrap /\ Since = 0
    BY <1>7 DEF Elapsed, Since
  <2>8. Elapsed' = Elapsed
    BY <2>1, <2>5, <2>6, <2>7
  <2>9. LapsKept(watch'.laps, watch'.base, ran'.laps)
    BY <1>4, <1>7, <2>1, Zenon
  <2>10. Elapsed' = OnClock(ran'.watch)
    BY <1>4, <1>7, <2>8
  <2> QED BY <1>1, <1>7, <2>1, <2>9, <2>10
<1>8. CASE watch.started = Stopped /\ watch' = WatchReset /\ ran' = [ran EXCEPT !.watch = 0, !.laps = <<>>]
  <2>1. /\ watch' \in WatchType /\ Len(watch'.laps) = 0 /\ watch'.base = 0
        /\ watch'.started = Stopped /\ watch'.banked = 0
    BY <1>5, <1>8 DEF WatchReset, WatchType, Stopped
  <2>2. ran' \in RanType /\ ran'.watch = 0 /\ ran'.laps = <<>>
    <3>1. 0 \in Nat /\ <<>> \in Seq(Nat)
      OBVIOUS
    <3> QED BY <1>1, <1>8, <3>1, Zenon DEF RanType
  <2>3. Elapsed' = OnClock(0)
    <3>1. Since' = 0
      BY <2>1 DEF Since
    <3>2. Elapsed' = (watch'.banked + Since') % Wrap
      BY DEF Elapsed, Since
    <3> QED BY <2>1, <3>1, <3>2 DEF OnClock
  <2>4. LapsKept(watch'.laps, watch'.base, ran'.laps)
    BY <2>1, <2>2 DEF LapsKept
  <2> QED BY <1>5, <2>1, <2>2, <2>3, <2>4
<1>9. CASE watch.started # Stopped /\ watch' = [watch EXCEPT !.banked = Elapsed, !.started = Stopped] /\ ran' = ran
  <2>1. /\ watch' \in WatchType
        /\ watch'.started = Stopped /\ watch'.banked = Elapsed
        /\ watch'.laps = watch.laps /\ watch'.base = watch.base
    BY <1>1, <1>4, <1>5, <1>9 DEF WatchType, Stopped
  <2>2. Elapsed' = OnClock(Elapsed)
    <3>1. Since' = 0
      BY <2>1 DEF Since
    <3>2. Elapsed' = (watch'.banked + Since') % Wrap
      BY DEF Elapsed, Since
    <3>3. Elapsed + 0 = Elapsed
      BY <1>4
    <3> QED BY <2>1, <3>1, <3>2, <3>3 DEF OnClock
  <2>3. Elapsed' = Elapsed
    <3>1. Elapsed \in 0 .. 2 * Wrap - 1 /\ Elapsed < Wrap
      BY <1>4, WrapFacts
    <3> QED BY <2>2, <3>1, OnceAround
  <2> QED BY <1>1, <1>4, <1>9, <2>1, <2>3
<1>10. CASE watch.started # Stopped /\ watch' = Lapped /\ ran' = [ran EXCEPT !.laps = Append(@, ran.watch)]
  <2> DEFINE h == Append(ran.laps, ran.watch)
  <2>1. PICK laps \in Seq(0 .. Wrap - 1), base \in Nat : h \in Seq(Nat) /\ LapTaken(laps, base, h)
    <3>1. ran' = [ran EXCEPT !.laps = h]
      BY <1>1, <1>10 DEF RanType
    <3>2. CASE Len(watch.laps) = MaxLaps
      <4>1. /\ Tail(watch.laps) \in Seq(0 .. Wrap - 1) /\ Len(Tail(watch.laps)) = MaxLaps - 1
            /\ LapsKept(Tail(watch.laps), watch.base + 1, ran.laps)
        BY <1>1, <1>4, <1>5, <3>2, LapDropped
      <4>2. watch.base + 1 \in Nat
        BY <1>1
      <4>3. /\ Append(Tail(watch.laps), Elapsed) \in Seq(0 .. Wrap - 1)
            /\ h \in Seq(Nat)
            /\ Len(Append(Tail(watch.laps), Elapsed)) = MaxLaps - 1 + 1
            /\ LapsKept(Append(Tail(watch.laps), Elapsed), watch.base + 1, h)
        BY <1>1, <1>4, <4>1, <4>2, LapAppended
      <4>4. watch' = [watch EXCEPT !.laps = Append(Tail(watch.laps), Elapsed), !.base = watch.base + 1]
        BY <1>1, <1>10, <3>2 DEF Lapped, WatchType
      <4>5. LapTaken(Append(Tail(watch.laps), Elapsed), watch.base + 1, h)
        BY <1>5, <3>1, <4>3, <4>4 DEF LapTaken
      <4> QED BY <4>2, <4>3, <4>5
    <3>3. CASE Len(watch.laps) # MaxLaps
      <4>1. /\ Append(watch.laps, Elapsed) \in Seq(0 .. Wrap - 1)
            /\ h \in Seq(Nat)
            /\ Len(Append(watch.laps, Elapsed)) = Len(watch.laps) + 1 /\ Len(watch.laps) \in Nat
            /\ LapsKept(Append(watch.laps, Elapsed), watch.base, h)
        BY <1>1, <1>4, LapAppended
      <4>2. watch' = [watch EXCEPT !.laps = Append(watch.laps, Elapsed), !.base = watch.base]
        BY <1>1, <1>10, <3>3 DEF Lapped, WatchType
      <4>3. Len(watch.laps) + 1 <= MaxLaps
        BY <1>1, <1>5, <3>3, <4>1
      <4>4. LapTaken(Append(watch.laps, Elapsed), watch.base, h)
        BY <3>1, <4>1, <4>2, <4>3 DEF LapTaken
      <4> QED BY <1>1, <4>1, <4>4
    <3> QED BY <3>2, <3>3
  <2> HIDE DEF h
  <2>2. /\ watch' \in WatchType
        /\ watch'.started = watch.started /\ watch'.banked = watch.banked
        /\ watch'.laps = laps /\ watch'.base = base
    BY <1>1, <2>1 DEF WatchType, LapTaken
  <2>3. ran' \in RanType /\ ran'.watch = ran.watch /\ ran'.laps = h
    BY <1>1, <2>1 DEF RanType, LapTaken
  <2>4. Elapsed' = Elapsed
    BY <1>2, <2>2 DEF Elapsed
  <2>5. LapsKept(watch'.laps, watch'.base, ran'.laps) /\ Len(watch'.laps) <= MaxLaps
    BY <2>1, <2>2, <2>3, Zenon DEF LapTaken
  <2>6. Elapsed' = OnClock(ran'.watch)
    BY <1>4, <2>3, <2>4
  <2> QED BY <2>2, <2>3, <2>5, <2>6
<1> QED BY <1>7, <1>8, <1>9, <1>10 DEF WatchFrame

(* A tick takes one from what remains and adds one to what is shown. *)
LEMMA TickKeeps ==
  ASSUME TimerInv, Tick
  PROVE  TimerInv'
<1>1. /\ millis \in 0 .. Wrap - 1 /\ pomo \in PomoType /\ watch \in WatchType
      /\ ran \in RanType /\ ran.phase \in Nat /\ ran.watch \in Nat
      /\ TimerTypeOK
  BY DEF TimerInv, TimerTypeOK, PomoType, WatchType, RanType
<1>2. /\ pomo' = pomo /\ watch' = watch
      /\ millis' = After(1)
      /\ ran'.phase = IF Running(pomo) THEN ran.phase + 1 ELSE ran.phase
      /\ ran'.watch = IF watch.started # Stopped THEN ran.watch + 1 ELSE ran.watch
      /\ ran'.laps = ran.laps
      /\ ~(Running(pomo) /\ Remaining(pomo) = 0)
  BY <1>1 DEF Tick, RanType
<1>3. ran' \in RanType
  <2>1. PICK a \in Nat, b \in Nat : ran' = [ran EXCEPT !.phase = a, !.watch = b]
    <3>1. /\ (IF Running(pomo) THEN ran.phase + 1 ELSE ran.phase) \in Nat
          /\ (IF watch.started # Stopped THEN ran.watch + 1 ELSE ran.watch) \in Nat
      BY <1>1
    <3> QED BY <3>1, Zenon DEF Tick
  <2> QED BY <1>1, <2>1 DEF RanType
<1>4. /\ millis' \in 0 .. Wrap - 1
      /\ millis' = IF millis + 1 < Wrap THEN millis + 1 ELSE 0
  <2>1. After(1) = OnClock(millis + 1) /\ millis + 1 \in 0 .. 2 * Wrap - 1
    BY <1>1, WrapFacts DEF After, OnClock
  <2> QED BY <1>1, <1>2, <2>1, OnceAround, WrapFacts
<1>5. TimerTypeOK'
  BY <1>1, <1>2, <1>3, <1>4 DEF TimerTypeOK, RanType
<1>6. pomo.phase # "Ready" => ran'.phase + Remaining(pomo)' = LengthOf(pomo)
  <2>1. CASE Running(pomo)
    <3>1. /\ pomo.phase # "Ready" /\ pomo.paused = NotPaused /\ pomo.endsAt \in 0 .. Wrap - 1
          /\ Remaining(pomo) # 0
      BY <1>1, <1>2, <2>1 DEF Running, PomoType
    <3>2. /\ Remaining(pomo) = IF Ahead(pomo.endsAt) >= Wrap \div 2 THEN 0 ELSE Ahead(pomo.endsAt)
          /\ Ahead(pomo.endsAt) \in 0 .. Wrap - 1
          /\ Ahead(pomo.endsAt) = IF pomo.endsAt >= millis THEN pomo.endsAt - millis ELSE pomo.endsAt - millis + Wrap
      BY <1>1, <3>1, RemainingFacts, AheadFacts
    <3>3. /\ Remaining(pomo)' = IF Ahead(pomo.endsAt)' >= Wrap \div 2 THEN 0 ELSE Ahead(pomo.endsAt)'
          /\ Ahead(pomo.endsAt)' = (pomo.endsAt - millis' + Wrap) % Wrap
      BY <1>2, <3>1 DEF Remaining, Ahead
    <3>4. Ahead(pomo.endsAt)' = IF pomo.endsAt >= millis' THEN pomo.endsAt - millis' ELSE pomo.endsAt - millis' + Wrap
      <4>1. pomo.endsAt - millis' + Wrap \in 0 .. 2 * Wrap - 1
        BY <1>4, <3>1, WrapFacts
      <4>2. Ahead(pomo.endsAt)' = OnClock(pomo.endsAt - millis' + Wrap)
        BY <3>3 DEF OnClock
      <4> QED BY <1>4, <3>1, <4>1, <4>2, OnceAround, WrapFacts
    <3> HIDE DEF Remaining, Ahead
    <3>5. Remaining(pomo) = Ahead(pomo.endsAt) /\ Ahead(pomo.endsAt) # 0 /\ Ahead(pomo.endsAt) < Wrap \div 2
      BY <3>1, <3>2, WrapFacts
    <3>6. Ahead(pomo.endsAt)' = Ahead(pomo.endsAt) - 1
      BY <1>1, <1>4, <3>1, <3>2, <3>4, <3>5, WrapFacts
    <3>7. Remaining(pomo)' = Remaining(pomo) - 1
      BY <3>2, <3>3, <3>5, <3>6, WrapFacts
    <3>8. ran'.phase = ran.phase + 1
      BY <1>2, <2>1
    <3>9. ran.phase + Remaining(pomo) = LengthOf(pomo)
      BY <3>1 DEF TimerInv, TimersKeepTime
    <3> QED BY <1>1, <3>2, <3>5, <3>7, <3>8, <3>9
  <2>2. CASE pomo.phase # "Ready" /\ ~Running(pomo)
    <3>1. Remaining(pomo)' = Remaining(pomo)
      BY <1>2, <2>2 DEF Running, Remaining
    <3>2. ran'.phase = ran.phase
      BY <1>2, <2>2
    <3> QED BY <2>2, <3>1, <3>2 DEF TimerInv, TimersKeepTime
  <2> QED BY <2>1, <2>2
<1>7. /\ Elapsed \in 0 .. Wrap - 1
      /\ Elapsed = OnClock(ran.watch)
  BY <1>1, SinceFacts DEF TimerInv, TimersKeepTime, OnClock
<1>8. Elapsed' = OnClock(ran'.watch)
  <2>1. CASE watch.started = Stopped
    <3>1. Elapsed' = Elapsed
      BY <1>2, <2>1 DEF Elapsed
    <3>2. ran'.watch = ran.watch
      BY <1>2, <2>1
    <3> QED BY <1>7, <3>1, <3>2
  <2>2. CASE watch.started # Stopped
    <3>1. ran'.watch = ran.watch + 1
      BY <1>2, <2>2
    <3>2. OnClock(ran'.watch) = IF OnClock(ran.watch) = Wrap - 1 THEN 0 ELSE OnClock(ran.watch) + 1
      BY <1>1, <3>1, NextOnClock
    <3>3. /\ watch.banked \in 0 .. Wrap - 1 /\ watch.started \in 0 .. Wrap - 1
      BY <1>1, <2>2, WrapFacts DEF WatchType, Stopped
    <3>4. /\ Since \in 0 .. Wrap - 1
          /\ Since = IF millis >= watch.started THEN millis - watch.started ELSE millis - watch.started + Wrap
          /\ Elapsed = IF watch.banked + Since < Wrap THEN watch.banked + Since ELSE watch.banked + Since - Wrap
      BY <1>1, <2>2, SinceFacts
    <3>5. Since' = IF millis' >= watch.started THEN millis' - watch.started ELSE millis' - watch.started + Wrap
      <4>1. Since' = OnClock(millis' - watch.started + Wrap)
        BY <1>2, <2>2 DEF Since, OnClock
      <4>2. millis' - watch.started + Wrap \in 0 .. 2 * Wrap - 1
        BY <1>4, <3>3, WrapFacts
      <4> QED BY <1>4, <3>3, <4>1, <4>2, OnceAround, WrapFacts
    <3>6. Since' = IF Since = Wrap - 1 THEN 0 ELSE Since + 1
      <4>1. millis \in 0 .. Wrap - 1
        BY <1>1
      <4>2. CASE millis + 1 < Wrap
        BY <1>4, <3>3, <3>4, <3>5, <4>1, <4>2, WrapFacts
      <4>3. CASE ~(millis + 1 < Wrap)
        BY <1>4, <3>3, <3>4, <3>5, <4>1, <4>3, WrapFacts
      <4> QED BY <4>2, <4>3
    <3>7. Elapsed' = IF watch.banked + Since' < Wrap THEN watch.banked + Since' ELSE watch.banked + Since' - Wrap
      <4>1. Elapsed' = OnClock(watch.banked + Since')
        BY <1>2 DEF Elapsed, Since, OnClock
      <4>2. watch.banked + Since' \in 0 .. 2 * Wrap - 1
        BY <3>3, <3>4, <3>6, WrapFacts
      <4> QED BY <3>3, <3>4, <3>6, <4>1, <4>2, OnceAround, WrapFacts
    <3>8. Elapsed' = IF Elapsed = Wrap - 1 THEN 0 ELSE Elapsed + 1
      BY <3>3, <3>4, <3>6, <3>7, WrapFacts
    <3> QED BY <1>7, <3>2, <3>8
  <2> QED BY <2>1, <2>2
<1>9. TimersKeepTime'
  <2>1. LengthOf(pomo)' = LengthOf(pomo)
    BY <1>2 DEF LengthOf
  <2> QED BY <1>2, <1>6, <1>8, <2>1 DEF TimerInv, TimersKeepTime, OnClock
<1> QED BY <1>5, <1>9 DEF TimerInv

(* TimersKeepTime, with the types, is inductive.                           *)
THEOREM TimerInvariant == TimerSpec => []TimerInv
<1>1. TimerInit => TimerInv
  <2> SUFFICES ASSUME TimerInit PROVE TimerInv
    OBVIOUS
  <2>1. /\ millis = 0 /\ pomo.phase = "Ready" /\ watch = WatchReset
        /\ ran = [phase |-> 0, watch |-> 0, laps |-> <<>>]
    BY DEF TimerInit
  <2>2. 0 \in 0 .. Wrap - 1 /\ Wrap \in 0 .. Wrap /\ 0 \in 0 .. MaxSessions /\ 0 <= MaxLaps
    BY WrapFacts, TimersAssumption
  <2>3. TimerTypeOK
    BY <2>1, <2>2 DEF TimerInit, TimerTypeOK, WatchReset, Stopped, NotPaused
  <2>4. Elapsed = 0 % Wrap /\ watch.laps = <<>> /\ watch.base = 0 /\ ran.laps = <<>>
    BY <2>1 DEF Elapsed, WatchReset
  <2> QED BY <2>1, <2>3, <2>4 DEF TimerInv, TimersKeepTime
<1>2. TimerInv /\ [PomoNext \/ WatchNext]_timerVars => TimerInv'
  <2> SUFFICES ASSUME TimerInv, [PomoNext \/ WatchNext]_timerVars PROVE TimerInv'
    OBVIOUS
  <2>1. CASE UNCHANGED timerVars
    BY <2>1 DEF timerVars, TimerInv, TimerTypeOK, TimersKeepTime, Remaining, Ahead, LengthOf, Elapsed
  <2> QED BY <2>1, PomoFrameKeeps, WatchFrameKeeps, TickKeeps DEF PomoNext, WatchNext
<1> QED BY <1>1, <1>2, PTL DEF TimerSpec

(* The clock, the Pomodoro and the stopwatch keep their types.             *)
THEOREM TimerTypeCorrect == TimerSpec => []TimerTypeOK
<1>1. TimerInv => TimerTypeOK
  BY DEF TimerInv
<1> QED BY <1>1, TimerInvariant, PTL

(* TimersKeepTime (remaining_ms, elapsed_ms, lap): a phase ends after its  *)
(* length, the stopwatch shows what it ran, and each lap it lists is under *)
(* its own number with the time it was taken at, over any number of wraps  *)
(* of the clock and of laps.                                               *)
THEOREM TimeIsKept == TimerSpec => []TimersKeepTime
<1>1. TimerInv => TimersKeepTime
  BY DEF TimerInv
<1> QED BY <1>1, TimerInvariant, PTL

-----------------------------------------------------------------------------
(* Hoot: for any goals, rules of the pet and number of saves the flash     *)
(* refuses, a change is marked until it is handed to the flash.            *)

(* A record with the fields of NewApp, whatever they hold. *)
Fields == {"pet", "loaded", "dirty", "screen", "step"}
IsApp(h) == h = [x \in Fields |-> h[x]]

(* From h to g: another pet is marked, and no mark is lost. *)
Marks(h, g) ==
  /\ IsApp(g)
  /\ g.loaded = h.loaded
  /\ g.pet = h.pet \/ g.dirty
  /\ h.dirty => g.dirty

(* h may go on to be saved: its pet was handed to the flash or is marked.  *)
Owed(h) ==
  /\ IsApp(h) /\ h.loaded
  /\ h.pet # handed => h.dirty
  /\ handed # kept => unkept > 0

(* Before it is loaded nothing of the pet was handed over or refused.      *)
HootInv ==
  /\ IsApp(hoot) /\ unkept \in Nat
  /\ UnsavedIsDirty
  /\ ~hoot.loaded => handed = kept

(* What an assignment to a field leaves alone. *)
LEMMA WithSets ==
  ASSUME NEW h, IsApp(h), NEW v
  PROVE  /\ IsApp(With(h, v))
         /\ With(h, v).pet = v
         /\ With(h, v).loaded = h.loaded /\ With(h, v).dirty = h.dirty
  BY DEF IsApp, Fields, With

LEMMA ToSets ==
  ASSUME NEW h, IsApp(h), NEW v
  PROVE  /\ IsApp(To(h, v))
         /\ To(h, v).pet = h.pet
         /\ To(h, v).loaded = h.loaded /\ To(h, v).dirty = h.dirty
  BY DEF IsApp, Fields, To

LEMMA AtSets ==
  ASSUME NEW h, IsApp(h), NEW v
  PROVE  /\ IsApp(At(h, v))
         /\ At(h, v).pet = h.pet
         /\ At(h, v).loaded = h.loaded /\ At(h, v).dirty = h.dirty
  BY DEF IsApp, Fields, At

LEMMA ChangedSets ==
  ASSUME NEW h, IsApp(h)
  PROVE  /\ IsApp(Changed(h))
         /\ Changed(h).pet = h.pet
         /\ Changed(h).loaded = h.loaded /\ Changed(h).dirty = TRUE
  BY DEF IsApp, Fields, Changed

LEMMA CleanSets ==
  ASSUME NEW h, IsApp(h)
  PROVE  /\ IsApp(Clean(h))
         /\ Clean(h).pet = h.pet
         /\ Clean(h).loaded = h.loaded /\ Clean(h).dirty = FALSE
  BY DEF IsApp, Fields, Clean

(* Another screen or step changes neither. *)
LEMMA ScreenMarks ==
  ASSUME NEW h, IsApp(h), NEW t, NEW o
  PROVE  Marks(h, h) /\ Marks(h, To(h, t)) /\ Marks(h, At(h, o)) /\ Marks(h, At(To(h, t), o))
<1>1. Marks(h, To(h, t)) /\ IsApp(To(h, t))
  BY ToSets DEF Marks
<1>2. Marks(h, At(h, o)) /\ Marks(h, At(To(h, t), o))
  BY <1>1, AtSets DEF Marks
<1> QED
  BY <1>1, <1>2 DEF Marks

(* A new pet with its mark, on this screen or another. *)
LEMMA ChangedMarks ==
  ASSUME NEW h, IsApp(h), NEW q, NEW t, NEW o
  PROVE  /\ Marks(h, Changed(With(h, q)))
         /\ Marks(h, Changed(To(With(h, q), t)))
         /\ Marks(h, Changed(At(To(With(h, q), t), o)))
<1>1. IsApp(With(h, q)) /\ With(h, q).loaded = h.loaded
  BY WithSets
<1>2. IsApp(To(With(h, q), t)) /\ To(With(h, q), t).loaded = h.loaded
  BY <1>1, ToSets
<1>3. IsApp(At(To(With(h, q), t), o)) /\ At(To(With(h, q), t), o).loaded = h.loaded
  BY <1>2, AtSets
<1> QED
  BY <1>1, <1>2, <1>3, ChangedSets DEF Marks

LEMMA MarksChain ==
  ASSUME NEW f, NEW g, NEW h, Marks(f, g), Marks(g, h) PROVE Marks(f, h)
  BY DEF Marks

(* What simulate does to the pet, flag by flag. *)
LEMMA SimulateMarks ==
  ASSUME HootInv, NEW today, NEW flagged
  PROVE  Owed(Simulate(today, flagged))
<1> DEFINE a == Loaded(hoot)
           b == Dated(a, today)
           c == Restarted(b, flagged)
           d == Focused(c, flagged)
           e == Hugged(d, flagged)
<1>1. Owed(a)
  <2>1. CASE hoot.loaded
    BY <2>1 DEF Loaded, Owed, HootInv, UnsavedIsDirty
  <2>2. CASE ~hoot.loaded
    <3>1. IsApp(With(hoot, kept)) /\ With(hoot, kept).pet = kept
      BY WithSets DEF HootInv
    <3>2. a = [With(hoot, kept) EXCEPT !.loaded = TRUE]
      BY <2>2 DEF Loaded
    <3>3. IsApp(a) /\ a.pet = kept /\ a.loaded
      BY <3>1, <3>2 DEF IsApp, Fields
    <3> QED
      BY <2>2, <3>3 DEF Owed, HootInv
  <2> QED
    BY <2>1, <2>2
<1> HIDE DEF a
<1>2. Marks(a, b)
  BY <1>1, ScreenMarks, ChangedMarks DEF Dated, Owed
<1> HIDE DEF b
<1>3. Marks(b, c)
  <2>1. IsApp(b)
    BY <1>2 DEF Marks
  <2> QED
    BY <2>1, ScreenMarks, ChangedMarks DEF Restarted
<1> HIDE DEF c
<1>4. Marks(c, d)
  <2>1. IsApp(c)
    BY <1>3 DEF Marks
  <2> QED
    BY <2>1, ScreenMarks, ChangedMarks DEF Focused
<1> HIDE DEF d
<1>5. Marks(d, e)
  <2>1. IsApp(d)
    BY <1>4 DEF Marks
  <2> QED
    BY <2>1, ScreenMarks, ChangedMarks DEF Hugged
<1>6. Simulate(today, flagged) = e
  BY DEF Simulate, a, b, c, d
<1> HIDE DEF e
<1>7. Marks(a, e)
  BY <1>2, <1>3, <1>4, <1>5, MarksChain
<1> QED
  BY <1>1, <1>6, <1>7 DEF Owed, Marks

(* Every screen marks what it changes. *)
LEMMA ScreenFrameMarks ==
  ASSUME NEW h, IsApp(h), NEW k
  PROVE  Marks(h, ScreenFrame(h, k))
<1>0. Marks(h, h)
  BY ScreenMarks
<1>1. Marks(h, IntroFrame(h, k))
  BY <1>0, ScreenMarks, ChangedMarks DEF IntroFrame
<1>2. Marks(h, HomeFrame(h, k))
  <2>1. Marks(h, TickGoal(h, k))
    BY <1>0, ScreenMarks, ChangedMarks DEF TickGoal
  <2>2. Marks(h, Dressed(h))
    BY <1>0, ChangedMarks DEF Dressed
  <2>3. Marks(h, Flies(h))
    BY ChangedMarks DEF Flies
  <2> QED
    BY <1>0, <2>1, <2>2, <2>3, ScreenMarks DEF HomeFrame
<1>3. Marks(h, CheckInFrame(h, k))
  BY <1>0, ScreenMarks, ChangedMarks DEF CheckInFrame
<1>4. Marks(h, BreatheFrame(h, k))
  BY <1>0, ScreenMarks, ChangedMarks DEF BreatheFrame
<1>5. Marks(h, AdventureFrame(h, k)) /\ Marks(h, WeekFrame(h, k))
  BY <1>0, ScreenMarks DEF AdventureFrame, WeekFrame
<1> QED
  BY <1>0, <1>1, <1>2, <1>3, <1>4, <1>5 DEF ScreenFrame

(* A save, or a refusal that gives the change up. *)
LEMMA SavedOrGivenUp ==
  ASSUME HootInv, NEW h, Owed(h), SaveInto(h.pet), Marks(Clean(h), hoot')
  PROVE  HootInv'
<1>1. Clean(h).pet = h.pet /\ Clean(h).loaded
  BY CleanSets DEF Owed
<1>2. unkept' \in Nat
  BY DEF SaveInto, HootInv
<1>3. handed' = h.pet /\ (kept' = h.pet \/ unkept' > 0)
  BY DEF SaveInto, HootInv
<1> QED
  BY <1>1, <1>2, <1>3 DEF Marks, HootInv, UnsavedIsDirty

LEMMA NotSavedYet ==
  ASSUME HootInv, NEW h, Owed(h), KeepNothing, Marks(h, hoot')
  PROVE  HootInv'
  BY DEF KeepNothing, Owed, Marks, HootInv, UnsavedIsDirty

(* A frame in the background. *)
LEMMA BackgroundKeeps ==
  ASSUME HootInv, NEW h, Owed(h), HootBackground(h) PROVE HootInv'
<1>1. IsApp(h) /\ IsApp(Clean(h))
  BY CleanSets DEF Owed
<1>2. \/ hoot' = h /\ KeepNothing
      \/ hoot' = Clean(h) /\ SaveInto(h.pet)
  BY DEF HootBackground, SaveOrNot
<1> QED
  BY <1>1, <1>2, ScreenMarks, NotSavedYet, SavedOrGivenUp

(* Entering the app. *)
LEMMA EnterKeeps ==
  ASSUME HootInv, NEW h, Owed(h), HootEnter(h) PROVE HootInv'
<1> DEFINE E(a) == IF a.pet.intro THEN To(a, "home") ELSE At(To(a, "intro"), 0)
<1>1. \A a : IsApp(a) => Marks(a, E(a))
  BY ScreenMarks
<1>2. \/ hoot' = E(h) /\ KeepNothing
      \/ hoot' = E(Clean(h)) /\ SaveInto(h.pet)
  BY DEF HootEnter, SaveOrNot
<1>3. IsApp(h) /\ IsApp(Clean(h))
  BY CleanSets DEF Owed
<1> HIDE DEF E
<1> QED
  BY <1>1, <1>2, <1>3, NotSavedYet, SavedOrGivenUp

(* A frame of the app on screen. *)
LEMMA UpdateKeeps ==
  ASSUME HootInv, NEW h, Owed(h), NEW k, HootUpdate(h, k) PROVE HootInv'
<1>1. \/ hoot' = ScreenFrame(h, k) /\ KeepNothing
      \/ hoot' = ScreenFrame(Clean(h), k) /\ SaveInto(h.pet)
  BY DEF HootUpdate, SaveOrNot
<1>2. IsApp(h) /\ IsApp(Clean(h))
  BY CleanSets DEF Owed
<1> QED
  BY <1>1, <1>2, ScreenFrameMarks, NotSavedYet, SavedOrGivenUp

(* Leaving the app saves what is marked. *)
LEMMA ExitKeeps ==
  ASSUME HootInv, NEW h, Owed(h), HootExit(h) PROVE HootInv'
<1>1. IsApp(h) /\ IsApp(Clean(h))
  BY CleanSets DEF Owed
<1>2. CASE h.dirty
  <2>1. hoot' = Clean(h) /\ SaveInto(h.pet)
    BY <1>2 DEF HootExit
  <2> QED
    BY <2>1, <1>1, ScreenMarks, SavedOrGivenUp
<1>3. CASE ~h.dirty
  <2>1. hoot' = Clean(h) /\ KeepNothing
    BY <1>3 DEF HootExit
  <2>2. Marks(h, Clean(h))
    BY <1>1, <1>3, CleanSets DEF Marks
  <2> QED
    BY <2>1, <2>2, NotSavedYet
<1> QED
  BY <1>2, <1>3

LEMMA NewAppKeeps == IsApp(NewApp) /\ ~NewApp.loaded
  BY DEF NewApp, IsApp, Fields

LEMMA HootInvStep == HootInv /\ [HootNext]_hootVars => HootInv'
<1> SUFFICES ASSUME HootInv, [HootNext]_hootVars PROVE HootInv'
  OBVIOUS
<1>1. CASE HootFrame
  <2>1. PICK today, flagged :
          LET h == Simulate(today, flagged)
          IN \/ HootBackground(h) \/ HootEnter(h) \/ HootExit(h)
             \/ \E k : HootUpdate(h, k)
    BY <1>1 DEF HootFrame
  <2> DEFINE h == Simulate(today, flagged)
  <2>2. Owed(h)
    BY SimulateMarks
  <2> HIDE DEF h
  <2>3. \/ HootBackground(h) \/ HootEnter(h) \/ HootExit(h)
        \/ \E k : HootUpdate(h, k)
    BY <2>1 DEF h
  <2> QED
    BY <2>2, <2>3, BackgroundKeeps, EnterKeeps, UpdateKeeps, ExitKeeps
<1>2. CASE HootReboot
  <2>1. hoot' = NewApp /\ handed' = kept /\ kept' = kept /\ unkept' = 0
    BY <1>2 DEF HootReboot
  <2> QED
    BY <2>1, NewAppKeeps DEF HootInv, UnsavedIsDirty
<1>3. CASE UNCHANGED hootVars
  BY <1>3 DEF hootVars, HootInv, IsApp, UnsavedIsDirty
<1> QED
  BY <1>1, <1>2, <1>3 DEF HootNext

(* The invariant of Hoot's app. *)
THEOREM HootInvariant == HootSpec => []HootInv
<1>1. HootInit => HootInv
  BY NewAppKeeps DEF HootInit, HootInv, UnsavedIsDirty
<1> QED
  BY <1>1, HootInvStep, PTL DEF HootSpec

(* UnsavedIsDirty (HootApp::changed, save): a change that came after the   *)
(* last save, one that the flash refused or not, is marked; and what that  *)
(* save was to store is in flash, or a save was refused since the last     *)
(* good one.                                                               *)
THEOREM ChangesAreMarked == HootSpec => []UnsavedIsDirty
<1>1. HootInv => UnsavedIsDirty
  BY DEF HootInv
<1> QED
  BY <1>1, HootInvariant, PTL

-----------------------------------------------------------------------------
(* LaneApps: for any photos, notes, slots and lengths of the list.         *)

(* The least of a set of numbers. *)
LEMMA LeastNumber ==
  ASSUME NEW S, S \subseteq Nat, S # {}
  PROVE  Min(S) \in S /\ \A n \in S : Min(S) <= n
<1> DEFINE Less == {ss \in Nat \X Nat : ss[1] < ss[2]}
<1>1. IsWellFoundedOn(Less, Nat)
  BY NatLessThanWellFounded DEF OpToRel
<1> HIDE DEF Less
<1>2. PICK x \in S : \A y \in S : ~ (<<y, x>> \in Less)
  BY <1>1, WFMin
<1>3. \A y \in S : x <= y
  <2> SUFFICES ASSUME NEW y \in S PROVE ~(y < x)
    OBVIOUS
  <2>1. <<y, x>> \in Nat \X Nat
    OBVIOUS
  <2> QED BY <2>1, <1>2 DEF Less
<1> QED BY <1>3 DEF Min

(* How many are newer. *)
Rank(S, x) == Cardinality({y \in S : y > x})

LEMMA RanksDiffer ==
  ASSUME NEW S, S \subseteq Nat, IsFiniteSet(S), NEW x \in S, NEW y \in S, x > y
  PROVE  Rank(S, x) < Rank(S, y)
<1> DEFINE A == {z \in S : z > x}
<1> DEFINE B == {z \in S : z > y}
<1>1. A \in SUBSET B /\ x \in B /\ x \notin A /\ B \in SUBSET S
  <2>1. x \in Nat /\ y \in Nat /\ \A z \in S : z \in Nat
    OBVIOUS
  <2>2. \A z \in S : z > x => z > y
    BY <2>1
  <2>3. A \in SUBSET B
    BY <2>2
  <2>4. x \in B /\ B \in SUBSET S
    OBVIOUS
  <2>5. x \notin A
    BY <2>1
  <2> QED BY <2>3, <2>4, <2>5
<1>2. IsFiniteSet(B)
  BY <1>1, FS_Subset
<1>3. Cardinality(A) <= Cardinality(B) /\ Cardinality(A) # Cardinality(B)
  BY <1>1, <1>2, FS_Subset
<1>4. Cardinality(A) \in Nat /\ Cardinality(B) \in Nat
  BY <1>1, <1>2, FS_Subset, FS_CardinalityType
<1> QED BY <1>3, <1>4 DEF Rank

(* Each place of the list is that of one member. *)
LEMMA Ranked ==
  ASSUME NEW S, S \subseteq Nat, IsFiniteSet(S), NEW k \in 1 .. Cardinality(S)
  PROVE  \E x \in S : Rank(S, x) = k - 1
<1> DEFINE n == Cardinality(S)
<1> DEFINE T == 0 .. n - 1
<1> DEFINE f == [x \in S |-> Rank(S, x)]
<1>1. n \in Nat
  BY FS_CardinalityType
<1>2. \A x \in S : Rank(S, x) \in T
  <2> SUFFICES ASSUME NEW x \in S PROVE Rank(S, x) \in T
    OBVIOUS
  <2> DEFINE A == {y \in S : y > x}
  <2>1. A \in SUBSET S /\ x \notin A
    OBVIOUS
  <2>2. IsFiniteSet(A) /\ Cardinality(A) <= n /\ Cardinality(A) # n
    BY <2>1, FS_Subset
  <2>3. Cardinality(A) \in Nat
    BY <2>2, FS_CardinalityType
  <2> QED BY <1>1, <2>2, <2>3 DEF Rank
<1>3. \A x, y \in S : Rank(S, x) = Rank(S, y) => x = y
  <2> SUFFICES ASSUME NEW x \in S, NEW y \in S, x # y PROVE Rank(S, x) # Rank(S, y)
    OBVIOUS
  <2>1. x > y \/ y > x
    OBVIOUS
  <2>2. Rank(S, x) < Rank(S, y) \/ Rank(S, y) < Rank(S, x)
    BY <2>1, RanksDiffer
  <2>3. Rank(S, x) \in Nat /\ Rank(S, y) \in Nat
    BY <1>1, <1>2
  <2> QED BY <2>2, <2>3
<1>4. f \in Injection(S, T)
  BY <1>2, <1>3 DEF Injection, IsInjective
<1>5. IsFiniteSet(T) /\ Cardinality(T) = n
  <2>1. 0 \in Int /\ n - 1 \in Int
    BY <1>1
  <2>2. IsFiniteSet(T) /\ Cardinality(T) = IF 0 > n - 1 THEN 0 ELSE (n - 1) - 0 + 1
    BY <2>1, FS_Interval
  <2> QED BY <1>1, <2>2
<1>6. f \in Surjection(S, T)
  BY <1>4, <1>5, FS_Injection
<1>7. k - 1 \in T
  BY <1>1
<1>8. \E x \in S : f[x] = k - 1
  BY <1>6, <1>7 DEF Surjection
<1> QED BY <1>8

(* The newest of a finite set are members of it. *)
LEMMA NewestFacts ==
  ASSUME NEW S, S \subseteq Nat, IsFiniteSet(S), NEW n \in Nat
  PROVE  /\ Newest(S, n) \in Seq(S)
         /\ \A i \in DOMAIN Newest(S, n) : Newest(S, n)[i] \in S
         /\ Len(Newest(S, n)) <= n /\ Len(Newest(S, n)) <= Cardinality(S)
         /\ n = Cardinality(S) => DOMAIN Newest(S, n) = 1 .. n
<1> DEFINE m == Min({n, Cardinality(S)})
<1>1. Cardinality(S) \in Nat
  BY FS_CardinalityType
<1>2. m \in Nat /\ m <= n /\ m <= Cardinality(S) /\ m \in {n, Cardinality(S)}
  BY <1>1, LeastNumber
<1> HIDE DEF m
<1>3. \A k \in 1 .. m : (CHOOSE x \in S : Rank(S, x) = k - 1) \in S
  <2> SUFFICES ASSUME NEW k \in 1 .. m PROVE (CHOOSE x \in S : Rank(S, x) = k - 1) \in S
    OBVIOUS
  <2>1. k \in 1 .. Cardinality(S)
    BY <1>1, <1>2
  <2>2. \E x \in S : Rank(S, x) = k - 1
    BY <2>1, Ranked
  <2> QED BY <2>2
<1>4. Newest(S, n) = [k \in 1 .. m |-> CHOOSE x \in S : Rank(S, x) = k - 1]
  BY DEF Newest, Rank, m
<1>5. Newest(S, n) \in [1 .. m -> S]
  BY <1>3, <1>4
<1>6. Newest(S, n) \in Seq(S) /\ Len(Newest(S, n)) = m /\ DOMAIN Newest(S, n) = 1 .. m
  BY <1>2, <1>5
<1> QED BY <1>2, <1>5, <1>6

(* Records with the fields of the apps and of the lane. *)
IsLane(l) == l = [x \in {"request", "state", "body"} |-> l[x]]
IsAlbum(a) == a = [x \in {"ids", "job", "due", "showing"} |-> a[x]]
IsInbox(b) == b = [x \in {"list", "selected", "job", "due"} |-> b[x]]
IsWeather(w) == w = [x \in {"data", "fetching", "due"} |-> w[x]]

(* What the apps ask for. *)
IsPhotoRequest(r) == \E id : \E slot \in AlbumSlots : r = PhotoRequest(id, slot)
IsSeenRequest(r) == \E id \in NoteIds : r = SeenRequest(id)

IsRequest(r) ==
  \/ r \in {ListRequest, InboxRequest, WeatherRequest}
  \/ IsPhotoRequest(r) \/ IsSeenRequest(r)

(* Notes of the server; one seen was marked. *)
Reported(l, ns) ==
  \A i \in DOMAIN l : /\ l[i] = [id |-> l[i].id, seen |-> l[i].seen]
                      /\ l[i].id \in NoteIds
                      /\ l[i].seen => ns[l[i].id]

(* The lane: a photo on its way is not in flash, and an answer tells of    *)
(* the server's notes as they are.                                         *)
LanePart ==
  /\ IsLane(lane)
  /\ LaneBusy => IsRequest(lane.request)
  /\ lane.state = "streaming" => lane.request.what = "photo"
  /\ LaneBusy /\ lane.request.what = "photo" => lane.request.id \notin CacheIds
  /\ lane.state = "ok" /\ lane.request = InboxRequest => Reported(lane.body, notes)
  /\ \A id \in NoteIds : lane.state = "ok" /\ lane.request = SeenRequest(id) => notes[id]

(* The slots, and the notes of the server and of the inbox. *)
StoredPart ==
  /\ cards = [s \in AlbumSlots |-> cards[s]]
  /\ notes \in [NoteIds -> BOOLEAN]
  /\ \A s, t \in AlbumSlots : cards[s] \in Ids /\ cards[s] = cards[t] => s = t
  /\ Reported(inbox.list, notes)

(* The photo awaited has a slot to itself. *)
SlotIsFree ==
  top = "album" /\ album.job # Nil /\ album.job.what = "photo" /\ lane.state = "pending" =>
    cards[album.job.slot] \notin Range(Wanted(album))

AppsPart ==
  /\ IsAlbum(album) /\ IsInbox(inbox) /\ IsWeather(weather)
  /\ \/ inbox.job = Nil \/ inbox.job = [what |-> "list"]
     \/ \E n \in DOMAIN inbox.list : inbox.job = [what |-> "seen", n |-> n]

LaneInv == LanePart /\ StoredPart /\ SlotIsFree /\ AppsPart /\ AwaitsItsOwn

(* What a step does to the slideshow while a request is under way. *)
SameTask(a, b) == IsAlbum(b) /\ b.ids = a.ids /\ b.job = a.job

LEMMA SteppedTask ==
  ASSUME NEW a, IsAlbum(a), NEW d
  PROVE  SameTask(a, StepBy(a, d))
<1>1. \A v : SameTask(a, [a EXCEPT !.showing = v])
  BY DEF SameTask, IsAlbum
<1>2. SameTask(a, a)
  BY DEF SameTask
<1>3. StepBy(a, d) = a \/ \E v : StepBy(a, d) = [a EXCEPT !.showing = v]
  BY DEF StepBy
<1> QED BY <1>1, <1>2, <1>3

LEMMA RedrawnTask ==
  ASSUME NEW a, IsAlbum(a)
  PROVE  SameTask(a, Redrawn(a))
<1>1. SameTask(a, a)
  BY DEF SameTask
<1>2. \A v : SameTask(a, [a EXCEPT !.showing.id = v])
  BY DEF SameTask, IsAlbum
<1> QED BY <1>1, <1>2 DEF Redrawn

(* When its answer is taken the slideshow waits for nothing. *)
LEMMA EndedTask ==
  ASSUME NEW a, IsAlbum(a)
  PROVE  IsAlbum(AlbumEnds(a)) /\ AlbumEnds(a).job = Nil
<1>1. \A b : IsAlbum(b) => IsAlbum([b EXCEPT !.job = Nil]) /\ [b EXCEPT !.job = Nil].job = Nil
  BY DEF IsAlbum
<1>2. IsAlbum(PhotoEnds(a))
  <2>1. IsAlbum(StepBy(a, 0))
    BY SteppedTask DEF SameTask
  <2>2. \A v : IsAlbum([a EXCEPT !.ids = v])
    BY DEF IsAlbum
  <2> QED BY <2>1, <2>2 DEF PhotoEnds
<1>3. \A ids : IsAlbum(Listed(a, ids))
  <2>1. \A v : IsAlbum([a EXCEPT !.ids = v, !.due = FALSE])
    BY DEF IsAlbum
  <2>2. \A b, v : IsAlbum(b) => IsAlbum([b EXCEPT !.showing = v])
    BY DEF IsAlbum
  <2> QED BY <2>1, <2>2 DEF Listed
<1>4. IsAlbum([a EXCEPT !.due = FALSE])
  BY DEF IsAlbum
<1>5. \E b : IsAlbum(b) /\ AlbumEnds(a) = [b EXCEPT !.job = Nil]
  BY <1>2, <1>3, <1>4 DEF AlbumEnds
<1> QED BY <1>1, <1>5

LEMMA EnteredTask == IsAlbum(AlbumEntered) /\ AlbumEntered.job = Nil
<1> DEFINE a == [ids |-> Newest(CacheIds, Cardinality(AlbumSlots)), job |-> Nil, due |-> TRUE, showing |-> Nil]
<1>1. IsAlbum(a) /\ a.job = Nil
  BY DEF IsAlbum
<1>2. AlbumEntered = StepBy(a, 0)
  BY DEF AlbumEntered
<1> HIDE DEF a
<1> QED BY <1>1, <1>2, SteppedTask DEF SameTask

(* A photo asked for is not in flash and takes no place of the list. *)
LEMMA MissingFacts ==
  ASSUME NEW a, NEW r \in Missing(a)
  PROVE  /\ IsPhotoRequest(r) /\ r.what = "photo"
         /\ r.id \notin CacheIds
         /\ r.slot \in AlbumSlots /\ cards[r.slot] \notin Range(Wanted(a))
<1> DEFINE absent == {k \in DOMAIN Wanted(a) : Wanted(a)[k] \notin CacheIds}
<1> DEFINE free == {s \in AlbumSlots : cards[s] \notin Range(Wanted(a))}
<1>1. absent # {} /\ free # {} /\ r = PhotoRequest(Wanted(a)[Min(absent)], Min(free))
  BY DEF Missing
<1>2. Min(free) \in free
  BY <1>1, LeastNumber, LaneAssumption
<1>3. absent \subseteq Nat
  BY DEF Wanted
<1>4. Min(absent) \in absent
  BY <1>1, <1>3, LeastNumber
<1> QED BY <1>1, <1>2, <1>4 DEF PhotoRequest, IsPhotoRequest

(* The four kinds of answers and requests differ. *)
LEMMA RequestKinds ==
  /\ ListRequest.what = "list" /\ ListRequest # InboxRequest
  /\ InboxRequest.what = "list" /\ WeatherRequest.what = "forecast"
  /\ \A id : ListRequest # SeenRequest(id) /\ InboxRequest # SeenRequest(id) /\ WeatherRequest # SeenRequest(id)
  /\ \A id : SeenRequest(id).what = "seen" /\ SeenRequest(id).id = id
  /\ \A r : IsPhotoRequest(r) => r.what = "photo" /\ r.slot \in AlbumSlots
  /\ \A r : IsRequest(r) /\ r.what = "photo" => IsPhotoRequest(r)
  /\ \A r : IsRequest(r) /\ r.what = "seen" => IsSeenRequest(r)
BY DEF ListRequest, InboxRequest, WeatherRequest, SeenRequest, PhotoRequest, IsPhotoRequest, IsSeenRequest, IsRequest

(* A lane that was emptied, or asked by an app. *)
LEMMA IdledLane ==
  ASSUME lane' = Idled
  PROVE  LanePart'
<1>1. lane'.state = "idle" /\ IsLane(lane')
  BY DEF Idled, IsLane
<1> QED BY <1>1 DEF LanePart, LaneBusy

LEMMA AskedLane ==
  ASSUME NEW r, IsRequest(r), r.what = "photo" => r.id \notin CacheIds,
         lane' = Asked(r), cards' = cards
  PROVE  LanePart' /\ lane'.request = r
<1>1. lane'.state = "pending" /\ lane'.request = r /\ IsLane(lane')
  BY DEF Asked, IsLane
<1>2. CacheIds' = CacheIds
  BY DEF CacheIds
<1> QED BY <1>1, <1>2 DEF LanePart, LaneBusy

LEMMA SameLane ==
  ASSUME LanePart, lane' = lane, cards' = cards, notes' = notes
  PROVE  LanePart'
<1>1. CacheIds' = CacheIds
  BY DEF CacheIds
<1> QED BY <1>1 DEF LanePart, LaneBusy, Reported

LEMMA AlbumFrameKeeps ==
  ASSUME LaneInv, AlbumFrame
  PROVE  LaneInv'
<1>1. top = "album" /\ UNCHANGED <<top, cards, inbox, weather, notes>>
  BY DEF AlbumFrame
<1>2. PICK a \in {album, StepBy(album, 1), StepBy(album, -1), Redrawn(album)} :
       \/ /\ a.job # Nil
          /\ IF LaneBusy THEN album' = a ELSE album' = AlbumEnds(a)
          /\ lane' = Taken
       \/ /\ a.job = Nil
          /\ \/ album' = a /\ UNCHANGED lane
             \/ \E r \in AlbumStarts(a) :
                  IF LaneBusy
                    THEN album' = [a EXCEPT !.due = FALSE] /\ UNCHANGED lane
                    ELSE album' = [a EXCEPT !.job = r] /\ lane' = Asked(r)
  BY DEF AlbumFrame
<1>3. SameTask(album, a)
  <2>1. IsAlbum(album)
    BY DEF LaneInv, AppsPart
  <2> QED BY <2>1, SteppedTask, RedrawnTask DEF SameTask
<1>4. StoredPart'
  BY <1>1 DEF LaneInv, StoredPart, Reported
<1>5. SUFFICES LanePart' /\ IsAlbum(album') /\ SlotIsFree' /\ (album'.job # Nil => lane'.request = album'.job)
  BY <1>1, <1>4 DEF LaneInv, AppsPart, AwaitsItsOwn
<1>6. CASE lane' = lane /\ SameTask(album, album')
  <2>1. LanePart'
    BY <1>1, <1>6, SameLane DEF LaneInv
  <2>2. Wanted(album)' = Wanted(album)
    BY <1>6 DEF SameTask, Wanted
  <2>3. SlotIsFree'
    BY <1>1, <1>6, <2>2 DEF LaneInv, SlotIsFree, SameTask
  <2> QED BY <1>1, <1>6, <2>1, <2>3 DEF LaneInv, AwaitsItsOwn, SameTask
<1>7. CASE lane' = Idled /\ IsAlbum(album') /\ album'.job = Nil
  BY <1>7, IdledLane DEF SlotIsFree
<1>8. ASSUME NEW r \in AlbumStarts(a), album' = [a EXCEPT !.job = r], lane' = Asked(r)
      PROVE  LanePart' /\ IsAlbum(album') /\ SlotIsFree' /\ (album'.job # Nil => lane'.request = album'.job)
  <2>1. /\ IsAlbum(album') /\ album'.job = r /\ album'.ids = a.ids
    BY <1>3, <1>8 DEF SameTask, IsAlbum
  <2>2. Wanted(album)' = Wanted(a)
    BY <2>1 DEF Wanted
  <2>3. CASE r = ListRequest
    <3>1. LanePart' /\ lane'.request = r
      BY <1>1, <1>8, <2>3, AskedLane, RequestKinds DEF IsRequest
    <3>2. SlotIsFree'
      BY <2>1, <2>3, RequestKinds DEF SlotIsFree
    <3> QED BY <2>1, <3>1, <3>2
  <2>4. CASE r \in Missing(a)
    <3>1. LanePart' /\ lane'.request = r
      BY <1>1, <1>8, <2>4, MissingFacts, AskedLane DEF IsRequest
    <3>2. SlotIsFree'
      BY <1>1, <2>1, <2>2, <2>4, MissingFacts DEF SlotIsFree
    <3> QED BY <2>1, <3>1, <3>2
  <2> QED BY <1>8, <2>3, <2>4 DEF AlbumStarts
<1>9. CASE a.job # Nil
  <2>1. CASE LaneBusy
    BY <1>2, <1>3, <1>6, <1>9, <2>1 DEF Taken
  <2>2. CASE ~LaneBusy
    <3>1. IsAlbum(AlbumEnds(a)) /\ AlbumEnds(a).job = Nil
      BY <1>3, EndedTask DEF SameTask
    <3> QED BY <1>2, <1>7, <1>9, <2>2, <3>1 DEF Taken
  <2> QED BY <2>1, <2>2
<1>10. CASE a.job = Nil
  <2>1. CASE album' = a /\ lane' = lane
    BY <1>3, <1>6, <2>1
  <2>2. CASE \E r \in AlbumStarts(a) :
               IF LaneBusy
                 THEN album' = [a EXCEPT !.due = FALSE] /\ UNCHANGED lane
                 ELSE album' = [a EXCEPT !.job = r] /\ lane' = Asked(r)
    <3>1. CASE LaneBusy
      <4>1. album' = [a EXCEPT !.due = FALSE] /\ lane' = lane
        BY <2>2, <3>1
      <4>2. SameTask(album, album')
        BY <1>3, <4>1 DEF SameTask, IsAlbum
      <4> QED BY <1>6, <4>1, <4>2
    <3>2. CASE ~LaneBusy
      BY <1>8, <2>2, <3>2
    <3> QED BY <3>1, <3>2
  <2> QED BY <1>2, <1>10, <2>1, <2>2
<1> QED BY <1>9, <1>10

(* The inbox waits for its own request, or for nothing. *)
InboxWaits(b, l) ==
  b.job # Nil =>
    l.request = IF b.job.what = "list" THEN InboxRequest ELSE SeenRequest(b.list[b.job.n].id)

InboxJob(b) ==
  \/ b.job = Nil \/ b.job = [what |-> "list"]
  \/ \E n \in DOMAIN b.list : b.job = [what |-> "seen", n |-> n]

(* What the answer brings is what the server knows. *)
LEMMA AnsweredInbox ==
  ASSUME LaneInv, top = "inbox", inbox.job # Nil, lane.state = "ok"
  PROVE  IsInbox(InboxAnswered) /\ InboxAnswered.job = Nil /\ Reported(InboxAnswered.list, notes)
<1>1. IsInbox(inbox) /\ InboxWaits(inbox, lane) /\ InboxJob(inbox)
  BY DEF LaneInv, AppsPart, AwaitsItsOwn, InboxWaits, InboxJob
<1> DEFINE b == [inbox EXCEPT !.job = Nil]
<1>2. IsInbox(b) /\ b.job = Nil /\ b.list = inbox.list
  BY <1>1 DEF IsInbox
<1>3. CASE inbox.job = [what |-> "list"]
  <2>1. Reported(lane.body, notes)
    BY <1>1, <1>3 DEF InboxWaits, LaneInv, LanePart
  <2>2. InboxAnswered = [b EXCEPT !.list = lane.body, !.selected = Min({@, Max({1, Len(lane.body)})})]
    BY <1>3 DEF InboxAnswered
  <2>3. IsInbox(InboxAnswered) /\ InboxAnswered.job = Nil /\ InboxAnswered.list = lane.body
    BY <1>2, <2>2 DEF IsInbox
  <2> QED BY <2>1, <2>3
<1>4. ASSUME NEW n \in DOMAIN inbox.list, inbox.job = [what |-> "seen", n |-> n]
      PROVE  IsInbox(InboxAnswered) /\ InboxAnswered.job = Nil /\ Reported(InboxAnswered.list, notes)
  <2>1. inbox.job.what = "seen" /\ inbox.job.n = n
    BY <1>4
  <2>2. InboxAnswered = [b EXCEPT !.list[n].seen = TRUE]
    BY <2>1 DEF InboxAnswered
  <2> DEFINE note == inbox.list[n]
             list == [inbox.list EXCEPT ![n] = [note EXCEPT !.seen = TRUE]]
  <2>3. IsInbox(InboxAnswered) /\ InboxAnswered.job = Nil /\ InboxAnswered.list = list
    BY <1>2, <2>2 DEF IsInbox
  <2>4. lane.request = SeenRequest(note.id)
    BY <1>1, <1>4, <2>1 DEF InboxWaits
  <2>5. Reported(inbox.list, notes) /\ note.id \in NoteIds
    BY <1>4 DEF LaneInv, StoredPart, Reported
  <2>6. notes[note.id]
    BY <2>4, <2>5 DEF LaneInv, LanePart
  <2>7. note = [id |-> note.id, seen |-> note.seen]
    BY <1>4, <2>5 DEF Reported
  <2>8. list[n] = [id |-> note.id, seen |-> TRUE]
    BY <1>4, <2>7
  <2>9. \A i \in DOMAIN inbox.list : i # n => list[i] = inbox.list[i]
    OBVIOUS
  <2>10. DOMAIN list = DOMAIN inbox.list
    OBVIOUS
  <2> HIDE DEF list
  <2>11. Reported(list, notes)
    BY <2>5, <2>6, <2>8, <2>9, <2>10 DEF Reported
  <2> QED BY <2>3, <2>11
<1> QED BY <1>1, <1>3, <1>4 DEF InboxJob

LEMMA InboxFrameKeeps ==
  ASSUME LaneInv, InboxFrame
  PROVE  LaneInv'
<1>1. top = "inbox" /\ UNCHANGED <<top, album, cards, weather, notes>>
  BY DEF InboxFrame
<1>2. IsInbox(inbox) /\ InboxWaits(inbox, lane) /\ InboxJob(inbox) /\ Reported(inbox.list, notes)
  BY <1>1 DEF LaneInv, AppsPart, AwaitsItsOwn, InboxWaits, InboxJob, StoredPart
<1>3. SUFFICES LanePart' /\ IsInbox(inbox') /\ Reported(inbox'.list, notes) /\ InboxWaits(inbox', lane') /\ InboxJob(inbox')
  <2>1. StoredPart'
    BY <1>1, <1>3 DEF LaneInv, StoredPart, Reported
  <2>2. AppsPart'
    BY <1>1, <1>3 DEF LaneInv, AppsPart, InboxJob
  <2>3. AwaitsItsOwn' /\ SlotIsFree'
    BY <1>1, <1>3 DEF InboxWaits, AwaitsItsOwn, SlotIsFree
  <2> QED BY <1>3, <2>1, <2>2, <2>3 DEF LaneInv
<1>4. ASSUME NEW i \in DOMAIN inbox.list, inbox' = [inbox EXCEPT !.selected = i], UNCHANGED lane
      PROVE  LanePart' /\ IsInbox(inbox') /\ Reported(inbox'.list, notes) /\ InboxWaits(inbox', lane') /\ InboxJob(inbox')
  <2>1. LanePart'
    BY <1>1, <1>4, SameLane DEF LaneInv
  <2>2. IsInbox(inbox') /\ inbox'.list = inbox.list /\ inbox'.job = inbox.job
    BY <1>2, <1>4 DEF IsInbox
  <2> QED BY <1>2, <1>4, <2>1, <2>2 DEF InboxWaits, InboxJob
<1>5. CASE inbox.job # Nil /\ ~LaneBusy /\ InboxEnds /\ lane' = Taken
  <2>1. LanePart'
    BY <1>5, IdledLane DEF Taken
  <2>2. IsInbox(inbox') /\ inbox'.job = Nil /\ Reported(inbox'.list, notes)
    <3>1. CASE lane.state = "ok"
      BY <1>1, <1>5, <3>1, AnsweredInbox DEF InboxEnds
    <3>2. CASE lane.state # "ok"
      <4>1. inbox' = [inbox EXCEPT !.job = Nil]
        BY <1>5, <3>2 DEF InboxEnds
      <4>2. IsInbox(inbox') /\ inbox'.job = Nil /\ inbox'.list = inbox.list
        BY <1>2, <4>1 DEF IsInbox
      <4> QED BY <1>2, <4>2
    <3> QED BY <3>1, <3>2
  <2> QED BY <2>1, <2>2 DEF InboxWaits, InboxJob
<1>6. CASE inbox.job = Nil /\ InboxStarts
  <2>1. CASE LaneBusy
    <3>1. lane' = lane /\ \E d : inbox' = [inbox EXCEPT !.due = d, !.job = inbox.job] \/ inbox' = [inbox EXCEPT !.job = inbox.job]
      BY <1>6, <2>1 DEF InboxStarts
    <3>2. IsInbox(inbox') /\ inbox'.job = Nil /\ inbox'.list = inbox.list
      BY <1>2, <1>6, <3>1 DEF IsInbox
    <3>3. LanePart'
      BY <1>1, <3>1, SameLane DEF LaneInv
    <3> QED BY <1>2, <3>2, <3>3 DEF InboxWaits, InboxJob
  <2>2. CASE ~LaneBusy /\ inbox' = [inbox EXCEPT !.due = FALSE, !.job = [what |-> "list"]] /\ lane' = Asked(InboxRequest)
    <3>1. IsInbox(inbox') /\ inbox'.job = [what |-> "list"] /\ inbox'.list = inbox.list
      BY <1>2, <2>2 DEF IsInbox
    <3>2. LanePart' /\ lane'.request = InboxRequest
      BY <1>1, <2>2, AskedLane, RequestKinds DEF IsRequest
    <3> QED BY <1>2, <3>1, <3>2 DEF InboxWaits, InboxJob
  <2>3. CASE /\ ~LaneBusy /\ inbox.selected \in DOMAIN inbox.list
             /\ inbox' = [inbox EXCEPT !.job = [what |-> "seen", n |-> inbox.selected]]
             /\ lane' = Asked(SeenRequest(inbox.list[inbox.selected].id))
    <3>1. /\ IsInbox(inbox') /\ inbox'.list = inbox.list
          /\ inbox'.job = [what |-> "seen", n |-> inbox.selected]
      BY <1>2, <2>3 DEF IsInbox
    <3>2. inbox.list[inbox.selected].id \in NoteIds
      BY <1>2, <2>3 DEF Reported
    <3>3. LanePart' /\ lane'.request = SeenRequest(inbox.list[inbox.selected].id)
      BY <1>1, <2>3, <3>2, AskedLane, RequestKinds DEF IsRequest, IsSeenRequest
    <3>4. inbox'.job.what = "seen" /\ inbox'.job.n = inbox.selected
      BY <3>1
    <3> QED BY <1>2, <2>3, <3>1, <3>3, <3>4 DEF InboxWaits, InboxJob
  <2> QED BY <1>6, <2>1, <2>2, <2>3 DEF InboxStarts
<1> QED BY <1>4, <1>5, <1>6 DEF InboxFrame

LEMMA WeatherFrameKeeps ==
  ASSUME LaneInv, WeatherFrame
  PROVE  LaneInv'
<1>1. top = "weather" /\ UNCHANGED <<top, album, cards, inbox, notes>> /\ IsWeather(weather)
  BY DEF WeatherFrame, LaneInv, AppsPart
<1>2. SUFFICES LanePart' /\ IsWeather(weather') /\ (weather'.fetching => lane'.request = WeatherRequest)
  BY <1>1, <1>2 DEF LaneInv, StoredPart, AppsPart, AwaitsItsOwn, SlotIsFree, Reported
<1>3. CASE lane' = lane /\ IsWeather(weather') /\ (weather'.fetching => weather.fetching)
  BY <1>1, <1>3, SameLane DEF LaneInv, AwaitsItsOwn
<1>4. CASE lane' = Idled /\ IsWeather(weather') /\ ~weather'.fetching
  BY <1>4, IdledLane
<1>5. CASE lane' = Asked(WeatherRequest) /\ IsWeather(weather')
  BY <1>1, <1>5, AskedLane, RequestKinds DEF IsRequest
<1>6. CASE weather.fetching /\ ~LaneBusy /\ lane' = Taken
           /\ weather' = [data |-> weather.data \/ lane.state = "ok", fetching |-> FALSE, due |-> FALSE]
  BY <1>4, <1>6 DEF Taken, IsWeather
<1>7. CASE /\ ~weather.fetching
           /\ weather' = [weather EXCEPT !.due = FALSE, !.fetching = ~LaneBusy]
           /\ lane' = IF LaneBusy THEN lane ELSE Asked(WeatherRequest)
  <2>1. IsWeather(weather') /\ (weather'.fetching <=> ~LaneBusy)
    BY <1>1, <1>7 DEF IsWeather
  <2> QED BY <1>3, <1>5, <1>7, <2>1
<1>8. CASE ~weather.fetching /\ weather' = [weather EXCEPT !.due = TRUE] /\ lane' = lane
  <2>1. IsWeather(weather') /\ weather'.fetching = weather.fetching
    BY <1>1, <1>8 DEF IsWeather
  <2> QED BY <1>3, <1>8, <2>1
<1> QED BY <1>6, <1>7, <1>8 DEF WeatherFrame

(* The user comes and goes; an app left waits no longer. *)
LEMMA AppEnterKeeps ==
  ASSUME LaneInv, Enter
  PROVE  LaneInv'
<1>1. /\ top' \in {"album", "inbox", "weather"} /\ UNCHANGED <<lane, cards, notes>>
      /\ album' = IF top' = "album" THEN AlbumEntered ELSE album
      /\ inbox' = IF top' = "inbox" THEN InboxEntered ELSE inbox
      /\ weather' = IF top' = "weather" THEN WeatherEntered ELSE weather
  BY DEF Enter
<1>2. IsAlbum(album) /\ IsInbox(inbox) /\ IsWeather(weather)
  BY DEF LaneInv, AppsPart
<1>3. IsAlbum(album') /\ (top' = "album" => album'.job = Nil)
  BY <1>1, <1>2, EnteredTask
<1>4. IsInbox(inbox') /\ (top' = "inbox" => inbox'.job = Nil) /\ inbox'.list = inbox.list
      /\ (inbox'.job = Nil \/ inbox'.job = inbox.job)
  BY <1>1, <1>2 DEF InboxEntered, IsInbox
<1>5. IsWeather(weather') /\ (top' = "weather" => ~weather'.fetching)
  BY <1>1, <1>2 DEF WeatherEntered, IsWeather
<1>6. LanePart'
  BY <1>1, SameLane DEF LaneInv
<1>7. StoredPart'
  BY <1>1, <1>4 DEF LaneInv, StoredPart, Reported
<1>8. AppsPart'
  BY <1>3, <1>4, <1>5 DEF LaneInv, AppsPart
<1>9. AwaitsItsOwn' /\ SlotIsFree'
  BY <1>1, <1>3, <1>4, <1>5 DEF AwaitsItsOwn, SlotIsFree
<1> QED BY <1>6, <1>7, <1>8, <1>9 DEF LaneInv

LEMMA AppLeaveKeeps ==
  ASSUME LaneInv, Leave
  PROVE  LaneInv'
<1>1. /\ top' = "menu" /\ UNCHANGED <<lane, cards, notes>>
      /\ album' = [album EXCEPT !.ids = <<>>, !.showing = Nil, !.due = FALSE]
      /\ inbox' = [inbox EXCEPT !.job = Nil, !.due = FALSE]
      /\ weather' = [weather EXCEPT !.fetching = FALSE]
  BY DEF Leave
<1>2. IsAlbum(album') /\ IsInbox(inbox') /\ IsWeather(weather') /\ inbox'.job = Nil /\ inbox'.list = inbox.list
  BY <1>1 DEF LaneInv, AppsPart, IsAlbum, IsInbox, IsWeather
<1>3. LanePart'
  BY <1>1, SameLane DEF LaneInv
<1>4. StoredPart'
  BY <1>1, <1>2 DEF LaneInv, StoredPart, Reported
<1> QED BY <1>1, <1>2, <1>3, <1>4 DEF LaneInv, AppsPart, AwaitsItsOwn, SlotIsFree

LEMMA DueAgainKeeps ==
  ASSUME LaneInv, DueAgain
  PROVE  LaneInv'
<1>1. /\ UNCHANGED <<top, lane, cards, weather, notes>>
      /\ album' = [album EXCEPT !.due = album.due \/ top = "album"]
      /\ inbox' = [inbox EXCEPT !.due = inbox.due \/ top = "inbox"]
  BY DEF DueAgain
<1>2. /\ IsAlbum(album') /\ album'.ids = album.ids /\ album'.job = album.job
      /\ IsInbox(inbox') /\ inbox'.job = inbox.job /\ inbox'.list = inbox.list
  BY <1>1 DEF LaneInv, AppsPart, IsAlbum, IsInbox
<1>3. LanePart'
  BY <1>1, SameLane DEF LaneInv
<1>4. StoredPart'
  BY <1>1, <1>2 DEF LaneInv, StoredPart, Reported
<1>5. SlotIsFree'
  BY <1>1, <1>2 DEF LaneInv, SlotIsFree, Wanted
<1> QED BY <1>1, <1>2, <1>3, <1>4, <1>5 DEF LaneInv, AppsPart, AwaitsItsOwn

(* The request stays while the lane is busy; only its state goes on. *)
LEMMA RequestStays ==
  ASSUME LaneInv, UNCHANGED <<top, album, inbox, weather>>, lane'.request = lane.request
  PROVE  AppsPart' /\ AwaitsItsOwn'
BY DEF LaneInv, AppsPart, AwaitsItsOwn

LEMMA StreamsKeeps ==
  ASSUME LaneInv, Streams
  PROVE  LaneInv'
<1>1. /\ lane.state = "pending" /\ lane.request.what = "photo"
      /\ lane' = [lane EXCEPT !.state = "streaming"]
      /\ cards' = [cards EXCEPT ![lane.request.slot] = Nil]
      /\ UNCHANGED <<top, album, inbox, weather, notes>>
  BY DEF Streams
<1>2. /\ IsLane(lane) /\ IsRequest(lane.request) /\ lane.request.id \notin CacheIds
      /\ cards = [s \in AlbumSlots |-> cards[s]]
  BY <1>1 DEF LaneInv, LanePart, StoredPart, LaneBusy
<1>3. lane.request.slot \in AlbumSlots
  BY <1>1, <1>2, RequestKinds
<1>4. IsLane(lane') /\ lane'.state = "streaming" /\ lane'.request = lane.request
  BY <1>1, <1>2 DEF IsLane
<1>5. /\ cards' = [s \in AlbumSlots |-> cards'[s]]
      /\ \A s \in AlbumSlots : cards'[s] = Nil \/ cards'[s] = cards[s]
  BY <1>1, <1>2
<1>6. CacheIds' \subseteq CacheIds
  BY <1>5 DEF CacheIds
<1>7. LanePart'
  BY <1>1, <1>2, <1>4, <1>6 DEF LanePart
<1>8. Nil \notin Ids
  BY LaneAssumption
<1>9. StoredPart'
  BY <1>1, <1>5, <1>8 DEF LaneInv, StoredPart, Reported
<1>10. SlotIsFree'
  BY <1>4 DEF SlotIsFree
<1> QED BY <1>1, <1>4, <1>7, <1>9, <1>10, RequestStays DEF LaneInv

LEMMA StreamEndsKeeps ==
  ASSUME LaneInv, StreamEnds
  PROVE  LaneInv'
<1>1. lane.state = "streaming" /\ UNCHANGED <<top, album, inbox, weather, notes>>
  BY DEF StreamEnds
<1>2. /\ IsLane(lane) /\ IsRequest(lane.request) /\ lane.request.what = "photo"
      /\ lane.request.id \notin CacheIds
      /\ cards = [s \in AlbumSlots |-> cards[s]]
  BY <1>1 DEF LaneInv, LanePart, StoredPart, LaneBusy
<1>3. PICK c : /\ \/ c = lane.request.id \/ c = Other \/ c = cards[lane.request.slot]
               /\ cards' = [cards EXCEPT ![lane.request.slot] = c]
               /\ LaneEnds("ok") \/ LaneEnds("error") \/ LaneEnds("failed")
  <2>1. cards = [cards EXCEPT ![lane.request.slot] = cards[lane.request.slot]]
    BY <1>2
  <2> QED BY <2>1 DEF StreamEnds
<1>4. lane.request.slot \in AlbumSlots
  BY <1>2, RequestKinds
<1>5. IsLane(lane') /\ lane'.state \in {"ok", "error", "failed"} /\ lane'.request = lane.request
  BY <1>2, <1>3 DEF IsLane, LaneEnds
<1>6. LanePart'
  <2>1. lane'.request # InboxRequest /\ \A id : lane'.request # SeenRequest(id)
    BY <1>2, <1>5, RequestKinds
  <2> QED BY <1>5, <2>1 DEF LanePart, LaneBusy
<1>7. /\ cards' = [s \in AlbumSlots |-> cards'[s]]
      /\ \A s \in AlbumSlots : cards'[s] = IF s = lane.request.slot THEN c ELSE cards[s]
  BY <1>2, <1>3
<1>8. \A s \in AlbumSlots : lane.request.id \in Ids => cards[s] # lane.request.id
  BY <1>2, LaneAssumption DEF CacheIds
<1>9. Other \notin Ids
  BY LaneAssumption
<1>10. \A s, t \in AlbumSlots : cards'[s] \in Ids /\ cards'[s] = cards'[t] => s = t
  BY <1>3, <1>4, <1>7, <1>8, <1>9 DEF LaneInv, StoredPart
<1>11. StoredPart'
  BY <1>1, <1>7, <1>10 DEF LaneInv, StoredPart, Reported
<1>12. SlotIsFree'
  BY <1>5 DEF SlotIsFree
<1> QED BY <1>1, <1>5, <1>6, <1>11, <1>12, RequestStays DEF LaneInv

LEMMA ServerAnswersKeeps ==
  ASSUME LaneInv, ServerAnswers
  PROVE  LaneInv'
<1>1. lane.state = "pending" /\ UNCHANGED <<top, album, cards, inbox, weather>>
  BY DEF ServerAnswers
<1>2. IsLane(lane) /\ IsRequest(lane.request) /\ Reported(inbox.list, notes) /\ notes \in [NoteIds -> BOOLEAN]
  BY <1>1 DEF LaneInv, LanePart, StoredPart, LaneBusy
<1>3. SUFFICES /\ IsLane(lane') /\ lane'.state \in {"ok", "error", "failed"} /\ lane'.request = lane.request
               /\ notes' \in [NoteIds -> BOOLEAN] /\ Reported(inbox.list, notes')
               /\ lane'.state = "ok" /\ lane.request = InboxRequest => Reported(lane'.body, notes')
               /\ \A id \in NoteIds : lane'.state = "ok" /\ lane.request = SeenRequest(id) => notes'[id]
  <2>1. LanePart'
    BY <1>3 DEF LanePart, LaneBusy
  <2>2. StoredPart'
    BY <1>1, <1>3 DEF LaneInv, StoredPart
  <2>3. SlotIsFree'
    BY <1>3 DEF SlotIsFree
  <2> QED BY <1>1, <1>3, <2>1, <2>2, <2>3, RequestStays DEF LaneInv
<1>4. \A s : LaneEnds(s) => IsLane(lane') /\ lane'.state = s /\ lane'.request = lane.request /\ lane'.body = lane.body
  BY <1>2 DEF LaneEnds, IsLane
<1>5. \A b : Answered(b) => IsLane(lane') /\ lane'.state = "ok" /\ lane'.request = lane.request /\ lane'.body = b
  BY <1>2 DEF Answered, IsLane
<1>6. CASE (LaneEnds("failed") \/ LaneEnds("error")) /\ notes' = notes
  BY <1>2, <1>4, <1>6
<1>7. CASE lane.request = ListRequest /\ notes' = notes /\ \E S \in SUBSET Ids : Answered(Newest(S, ListMax))
  BY <1>2, <1>5, <1>7, RequestKinds
<1>8. CASE lane.request = InboxRequest /\ notes' = notes /\ Answered(NoteList)
  <2>1. DOMAIN NoteList = 1 .. Cardinality(NoteIds)
    BY DEF NoteList
  <2>2. \A i \in 1 .. Cardinality(NoteIds) : Newest(NoteIds, Cardinality(NoteIds))[i] \in NoteIds
    <3>1. Cardinality(NoteIds) \in Nat
      BY FS_CardinalityType, LaneAssumption
    <3> DEFINE s == Newest(NoteIds, Cardinality(NoteIds))
    <3>2. DOMAIN s = 1 .. Cardinality(NoteIds) /\ \A i \in DOMAIN s : s[i] \in NoteIds
      BY <3>1, NewestFacts, LaneAssumption
    <3> HIDE DEF s
    <3> QED BY <3>2 DEF s
  <2>3. \A i \in 1 .. Cardinality(NoteIds) :
          LET id == Newest(NoteIds, Cardinality(NoteIds))[i] IN NoteList[i] = [id |-> id, seen |-> notes[id]]
    BY DEF NoteList
  <2>4. Reported(NoteList, notes)
    BY <2>1, <2>2, <2>3 DEF Reported
  <2> QED BY <1>2, <1>5, <1>8, <2>4, RequestKinds
<1>9. CASE lane.request = WeatherRequest /\ notes' = notes /\ LaneEnds("ok")
  <2>1. WeatherRequest # InboxRequest
    BY RequestKinds
  <2> QED BY <1>2, <1>4, <1>9, <2>1, RequestKinds
<1>10. CASE lane.request.what = "seen" /\ notes' = [notes EXCEPT ![lane.request.id] = TRUE] /\ (LaneEnds("failed") \/ LaneEnds("ok"))
  <2>1. PICK id \in NoteIds : lane.request = SeenRequest(id)
    BY <1>2, <1>10, RequestKinds DEF IsSeenRequest
  <2>2. lane.request.id = id /\ lane.request # InboxRequest /\ \A x : SeenRequest(x) = lane.request => x = id
    BY <2>1, RequestKinds
  <2>3. /\ notes' \in [NoteIds -> BOOLEAN] /\ notes'[id]
        /\ \A x \in NoteIds : notes[x] => notes'[x]
    BY <1>2, <1>10, <2>2
  <2>4. Reported(inbox.list, notes')
    BY <1>2, <2>3 DEF Reported
  <2> QED BY <1>4, <1>10, <2>1, <2>2, <2>3, <2>4
<1> QED BY <1>6, <1>7, <1>8, <1>9, <1>10 DEF ServerAnswers

(* The inductive invariant of the app lane and the apps that share it.     *)
THEOREM LaneInvariant == LaneSpec => []LaneInv
<1>1. LaneInit => LaneInv
  <2> SUFFICES ASSUME LaneInit PROVE LaneInv
    OBVIOUS
  <2>1. LanePart
    BY DEF LaneInit, LanePart, LaneBusy, Idled, IsLane
  <2>2. Nil \notin Ids
    BY LaneAssumption
  <2>3. StoredPart
    BY <2>2 DEF LaneInit, StoredPart, Reported
  <2>4. AppsPart
    BY DEF LaneInit, AppsPart, IsAlbum, IsInbox, IsWeather
  <2> QED BY <2>1, <2>3, <2>4 DEF LaneInit, LaneInv, SlotIsFree, AwaitsItsOwn
<1>2. LaneInv /\ [LaneNext]_laneVars => LaneInv'
  <2> SUFFICES ASSUME LaneInv, [LaneNext]_laneVars PROVE LaneInv'
    OBVIOUS
  <2>1. CASE UNCHANGED laneVars
    <3>1. LanePart'
      BY <2>1, SameLane DEF laneVars, LaneInv
    <3> QED BY <2>1, <3>1 DEF laneVars, LaneInv, StoredPart, SlotIsFree, AppsPart, AwaitsItsOwn, Reported, Wanted
  <2> QED BY <2>1, AlbumFrameKeeps, InboxFrameKeeps, WeatherFrameKeeps, AppEnterKeeps, AppLeaveKeeps, DueAgainKeeps,
             StreamsKeeps, StreamEndsKeeps, ServerAnswersKeeps DEF LaneNext
<1> QED BY <1>1, <1>2, PTL DEF LaneSpec

(* AwaitsItsOwn (Slideshow, Messages and Weather: take_job after           *)
(* on_enter): no app takes the answer to another's request, or to one of   *)
(* an earlier visit, for its own.                                          *)
THEOREM NoStrayAnswer == LaneSpec => []AwaitsItsOwn
<1>1. LaneInv => AwaitsItsOwn
  BY DEF LaneInv
<1> QED BY <1>1, LaneInvariant, PTL

(* SeenIsReported (Messages::finish): what the inbox shows as seen the     *)
(* server was told, whatever failed or came in between.                    *)
THEOREM SeenWasReported == LaneSpec => []SeenIsReported
<1>1. LaneInv => SeenIsReported
  BY DEF LaneInv, StoredPart, Reported, SeenIsReported
<1> QED BY <1>1, LaneInvariant, PTL

(* The types of the lane and of what travels on it: an album list is one   *)
(* of photos, not longer than the array that takes it, and the notes that  *)
(* come are as many as the server has.                                     *)
AlbumLists == {l \in Seq(Ids) : Len(l) <= ListMax}
NoteLists == {l \in Seq([id : NoteIds, seen : BOOLEAN]) : Len(l) <= Cardinality(NoteIds)}
IsPhotoOfIds(r) == \E id \in Ids : \E slot \in AlbumSlots : r = PhotoRequest(id, slot)

LaneStates == {"idle", "pending", "streaming", "ok", "error", "failed"}
AlbumTypes(a) ==
  /\ a.ids \in AlbumLists
  /\ a.job \in {Nil, ListRequest} \/ IsPhotoOfIds(a.job)
InboxTypes(b) ==
  /\ b.list \in NoteLists
  /\ b.selected = 1 \/ b.selected \in 1 .. Cardinality(NoteIds)
Travels(l) ==
  /\ l.state \in LaneStates
  /\ l.state \in {"pending", "streaming"} /\ l.request.what = "photo" => IsPhotoOfIds(l.request)
  /\ l.state = "ok" /\ l.request = ListRequest => l.body \in AlbumLists
  /\ l.state = "ok" /\ l.request = InboxRequest => l.body \in NoteLists

LaneTypes ==
  /\ top \in {"menu", "album", "inbox", "weather"}
  /\ cards \in [AlbumSlots -> Ids \cup {Nil, Other}]
  /\ Travels(lane) /\ AlbumTypes(album) /\ InboxTypes(inbox)

LEMMA NoteCount == Cardinality(NoteIds) \in Nat /\ Cardinality(AlbumSlots) \in Nat /\ ListMax \in Nat
BY FS_CardinalityType, LaneAssumption

(* A list without one of its photos is a list. *)
LEMMA DroppedFacts ==
  ASSUME NEW l \in AlbumLists, NEW id
  PROVE  Dropped(l, id) \in AlbumLists
<1> DEFINE at == {p \in DOMAIN l : l[p] = id}
<1>1. l \in Seq(Ids) /\ Len(l) \in Nat /\ Len(l) <= ListMax /\ DOMAIN l = 1 .. Len(l) /\ ListMax \in Nat
  BY NoteCount DEF AlbumLists
<1>2. CASE at = {}
  BY <1>2 DEF Dropped
<1>3. CASE at # {}
  <2> DEFINE m == Min(at)
             head == SubSeq(l, 1, m - 1)
             rest == SubSeq(l, m + 1, Len(l))
  <2>1. at \subseteq Nat
    BY <1>1
  <2>2. m \in at
    BY <1>3, <2>1, LeastNumber
  <2>3. m \in 1 .. Len(l)
    BY <1>1, <2>2
  <2>4. Dropped(l, id) = head \o rest
    BY <1>3 DEF Dropped
  <2> HIDE DEF at, m
  <2>5. head \in Seq(Ids) /\ Len(head) = m - 1
    BY <1>1, <2>3
  <2>6. rest \in Seq(Ids) /\ Len(rest) = Len(l) - m
    <3>1. \A i \in m + 1 .. Len(l) : l[i] \in Ids
      BY <1>1, <2>3
    <3>2. m + 1 \in Int /\ Len(l) \in Int
      BY <1>1, <2>3
    <3>3. rest \in Seq(Ids) /\ Len(rest) = IF m + 1 <= Len(l) THEN Len(l) - (m + 1) + 1 ELSE 0
      BY <3>1, <3>2, SubSeqProperties
    <3> HIDE DEF rest
    <3>4. CASE m + 1 <= Len(l)
      BY <1>1, <2>3, <3>3, <3>4
    <3>5. CASE ~(m + 1 <= Len(l))
      <4>1. Len(rest) = 0
        BY <3>3, <3>5
      <4>2. m \in Nat /\ Len(l) \in Nat /\ m <= Len(l)
        BY <1>1, <2>3
      <4>3. m = Len(l)
        BY <3>5, <4>2
      <4>4. Len(l) - m = 0
        BY <4>2, <4>3
      <4> QED BY <3>3, <4>1, <4>4
    <3> QED BY <3>4, <3>5
  <2> HIDE DEF head, rest
  <2>7. head \o rest \in Seq(Ids) /\ Len(head \o rest) = Len(l) - 1
    <3>1. head \o rest \in Seq(Ids) /\ Len(head \o rest) = Len(head) + Len(rest)
      BY <2>5, <2>6, ConcatProperties
    <3> QED BY <1>1, <2>3, <2>5, <2>6, <3>1
  <2> QED BY <1>1, <2>4, <2>7 DEF AlbumLists
<1> QED BY <1>2, <1>3

(* The newest of some photos. *)
LEMMA NewestIsList ==
  ASSUME NEW S \in SUBSET Ids, NEW n \in Nat, n <= ListMax
  PROVE  Newest(S, n) \in AlbumLists
<1>1. S \subseteq Nat /\ IsFiniteSet(S)
  BY LaneAssumption, FS_Subset
<1> DEFINE l == Newest(S, n)
<1>2. l \in Seq(S) /\ Len(l) <= n
  BY <1>1, NewestFacts
<1> HIDE DEF l
<1>3. l \in Seq(Ids) /\ Len(l) \in Nat
  BY <1>2
<1>4. Len(l) <= ListMax
  BY <1>2, <1>3, NoteCount
<1> QED BY <1>3, <1>4 DEF AlbumLists, l

LEMMA NoteListShape ==
  ASSUME notes \in [NoteIds -> BOOLEAN]
  PROVE  NoteList \in [1 .. Cardinality(NoteIds) -> [id : NoteIds, seen : BOOLEAN]]
<1> DEFINE n == Cardinality(NoteIds)
           s == Newest(NoteIds, n)
<1>1. n \in Nat /\ NoteIds \subseteq Nat /\ IsFiniteSet(NoteIds)
  BY NoteCount, LaneAssumption
<1>2. DOMAIN s = 1 .. n /\ \A i \in DOMAIN s : s[i] \in NoteIds
  BY <1>1, NewestFacts
<1>3. NoteList = [i \in 1 .. n |-> [id |-> s[i], seen |-> notes[s[i]]]]
  BY DEF NoteList
<1> HIDE DEF n, s
<1>4. NoteList \in [1 .. n -> [id : NoteIds, seen : BOOLEAN]]
  BY <1>2, <1>3
<1> QED BY <1>4 DEF n

LEMMA NoteListIsOne ==
  ASSUME notes \in [NoteIds -> BOOLEAN]
  PROVE  NoteList \in NoteLists
<1> DEFINE n == Cardinality(NoteIds)
           f == NoteList
           R == [id : NoteIds, seen : BOOLEAN]
<1>1. n \in Nat
  BY NoteCount
<1>2. f \in [1 .. n -> R]
  BY NoteListShape
<1> HIDE DEF n, f, R
<1>3. f \in Seq(R) /\ Len(f) = n /\ n <= n
  BY <1>1, <1>2
<1> QED BY <1>3 DEF NoteLists, n, f, R

(* The slideshow keeps its list through a step, a redraw and an answer. *)
LEMMA SameTaskTypes ==
  ASSUME NEW a, AlbumTypes(a), NEW b, SameTask(a, b)
  PROVE  AlbumTypes(b)
BY DEF SameTask, AlbumTypes

LEMMA EndedTypes ==
  ASSUME NEW a, IsAlbum(a), AlbumTypes(a), a.job # Nil, lane.request = a.job,
         Travels(lane)
  PROVE  AlbumTypes(AlbumEnds(a))
<1>1. /\ a.ids \in AlbumLists
      /\ a.job = ListRequest \/ IsPhotoOfIds(a.job)
  BY DEF AlbumTypes
<1>2. \A b : IsAlbum(b) => [b EXCEPT !.job = Nil].ids = b.ids /\ [b EXCEPT !.job = Nil].job = Nil
  BY DEF IsAlbum
<1>3. IsAlbum(PhotoEnds(a)) /\ PhotoEnds(a).ids \in AlbumLists
  <2>1. CASE lane.state = "error"
    <3>1. PhotoEnds(a) = [a EXCEPT !.ids = Dropped(a.ids, a.job.id)]
      BY <2>1 DEF PhotoEnds
    <3>2. Dropped(a.ids, a.job.id) \in AlbumLists
      BY <1>1, DroppedFacts
    <3> QED BY <3>1, <3>2 DEF IsAlbum
  <2>2. CASE lane.state # "error"
    <3>1. PhotoEnds(a) = a \/ PhotoEnds(a) = StepBy(a, 0)
      BY <2>2 DEF PhotoEnds
    <3>2. SameTask(a, StepBy(a, 0))
      BY SteppedTask
    <3> QED BY <1>1, <3>1, <3>2 DEF SameTask
  <2> QED BY <2>1, <2>2
<1>4. \A ids : IsAlbum(Listed(a, ids)) /\ Listed(a, ids).ids = ids
  <2>1. \A v : IsAlbum([a EXCEPT !.ids = v, !.due = FALSE]) /\ [a EXCEPT !.ids = v, !.due = FALSE].ids = v
    BY DEF IsAlbum
  <2>2. \A b, v : IsAlbum(b) => IsAlbum([b EXCEPT !.showing = v]) /\ [b EXCEPT !.showing = v].ids = b.ids
    BY DEF IsAlbum
  <2> SUFFICES ASSUME NEW ids PROVE IsAlbum(Listed(a, ids)) /\ Listed(a, ids).ids = ids
    OBVIOUS
  <2> DEFINE b == [a EXCEPT !.ids = ids, !.due = FALSE]
  <2>3. PICK v : Listed(a, ids) = [b EXCEPT !.showing = v]
    BY DEF Listed
  <2>4. IsAlbum(b) /\ b.ids = ids
    BY <2>1
  <2> HIDE DEF b
  <2> QED BY <2>2, <2>3, <2>4
<1>5. IsAlbum([a EXCEPT !.due = FALSE]) /\ [a EXCEPT !.due = FALSE].ids = a.ids
  BY DEF IsAlbum
<1>6. lane.state = "ok" /\ a.job.what = "list" => lane.body \in AlbumLists
  <2>1. IsPhotoOfIds(a.job) => a.job.what = "photo"
    BY DEF IsPhotoOfIds, PhotoRequest
  <2> QED BY <1>1, <2>1 DEF Travels
<1>7. \E b : IsAlbum(b) /\ b.ids \in AlbumLists /\ AlbumEnds(a) = [b EXCEPT !.job = Nil]
  <2>1. CASE lane.state # "failed" /\ a.job.what = "photo"
    BY <1>3, <2>1 DEF AlbumEnds
  <2>2. CASE ~(lane.state # "failed" /\ a.job.what = "photo") /\ lane.state = "ok" /\ a.job.what = "list"
    <3>1. AlbumEnds(a) = [Listed(a, lane.body) EXCEPT !.job = Nil]
      BY <2>2 DEF AlbumEnds
    <3> QED BY <1>4, <1>6, <2>2, <3>1
  <2>3. CASE ~(lane.state # "failed" /\ a.job.what = "photo") /\ ~(lane.state = "ok" /\ a.job.what = "list")
    <3>1. AlbumEnds(a) = [[a EXCEPT !.due = FALSE] EXCEPT !.job = Nil]
      BY <2>3 DEF AlbumEnds
    <3> QED BY <1>1, <1>5, <3>1
  <2> QED BY <2>1, <2>2, <2>3
<1> QED BY <1>2, <1>7 DEF AlbumTypes

(* The part of the list that is kept has room in the slots. *)
LEMMA WantedFacts ==
  ASSUME NEW a, AlbumTypes(a)
  PROVE  Wanted(a) \in Seq(Ids) /\ Len(Wanted(a)) \in Nat /\ Len(Wanted(a)) <= Cardinality(AlbumSlots)
<1> DEFINE w == Wanted(a)
           n == IF Len(a.ids) < Cardinality(AlbumSlots) THEN Len(a.ids) ELSE Cardinality(AlbumSlots)
<1>1. a.ids \in Seq(Ids) /\ Len(a.ids) \in Nat
  BY DEF AlbumTypes, AlbumLists
<1>2. n \in Nat /\ n <= Len(a.ids) /\ n <= Cardinality(AlbumSlots)
  BY <1>1, NoteCount
<1>3. w = SubSeq(a.ids, 1, n)
  BY DEF Wanted
<1> HIDE DEF n, w
<1>4. \A i \in 1 .. n : a.ids[i] \in Ids
  BY <1>1, <1>2
<1>5. w \in Seq(Ids) /\ Len(w) = n
  BY <1>2, <1>3, <1>4, SubSeqProperties
<1> QED BY <1>2, <1>5 DEF w

(* It asks for the list, or for a photo of it. *)
LEMMA StartsTypes ==
  ASSUME NEW a, AlbumTypes(a), NEW r \in AlbumStarts(a)
  PROVE  r = ListRequest \/ IsPhotoOfIds(r)
<1>1. CASE r = ListRequest
  BY <1>1
<1>2. CASE r \in Missing(a)
  <2> DEFINE w == Wanted(a)
             absent == {k \in DOMAIN w : w[k] \notin CacheIds}
             free == {s \in AlbumSlots : cards[s] \notin Range(w)}
  <2>1. absent # {} /\ free # {} /\ r = PhotoRequest(w[Min(absent)], Min(free))
    BY <1>2 DEF Missing
  <2>2. Min(free) \in AlbumSlots
    BY <2>1, LeastNumber, LaneAssumption
  <2>3. w \in Seq(Ids)
    BY WantedFacts
  <2> HIDE DEF w
  <2>4. absent \subseteq Nat
    BY <2>3
  <2>5. Min(absent) \in absent
    BY <2>1, <2>4, LeastNumber
  <2>6. w[Min(absent)] \in Ids
    BY <2>3, <2>5
  <2> QED BY <2>1, <2>2, <2>6 DEF IsPhotoOfIds
<1> QED BY <1>1, <1>2 DEF AlbumStarts

(* An answer to the inbox: a list of notes, or one of them marked. *)
LEMMA AnsweredTypes ==
  ASSUME LaneInv, InboxTypes(inbox), Travels(lane),
         top = "inbox", inbox.job # Nil, lane.state = "ok"
  PROVE  InboxTypes(InboxAnswered)
<1> DEFINE b == [inbox EXCEPT !.job = Nil]
<1>1. IsInbox(inbox) /\ InboxWaits(inbox, lane) /\ InboxJob(inbox)
  BY DEF LaneInv, AppsPart, AwaitsItsOwn, InboxWaits, InboxJob
<1>2. IsInbox(b) /\ b.list = inbox.list /\ b.selected = inbox.selected
  BY <1>1 DEF IsInbox
<1>3. CASE inbox.job = [what |-> "list"]
  <2>1. lane.request = InboxRequest
    BY <1>1, <1>3 DEF InboxWaits
  <2>2. lane.body \in NoteLists
    BY <2>1 DEF Travels
  <2> DEFINE m == Max({1, Len(lane.body)})
             s == Min({inbox.selected, m})
  <2>3. InboxAnswered = [b EXCEPT !.list = lane.body, !.selected = Min({@, Max({1, Len(lane.body)})})]
    BY <1>3 DEF InboxAnswered
  <2>4. InboxAnswered.list = lane.body /\ InboxAnswered.selected = s
    BY <1>2, <2>3 DEF IsInbox
  <2>5. Len(lane.body) \in Nat /\ Len(lane.body) <= Cardinality(NoteIds)
    BY <2>2 DEF NoteLists
  <2>6. m \in {1, Len(lane.body)} /\ m >= 1
    <3>1. \E x \in {1, Len(lane.body)} : \A y \in {1, Len(lane.body)} : x >= y
      BY <2>5
    <3> QED BY <2>5, <3>1 DEF Max
  <2> HIDE DEF m
  <2>7. inbox.selected \in Nat /\ inbox.selected >= 1 /\ m \in Nat
    BY <2>5, <2>6, NoteCount DEF InboxTypes
  <2>8. s \in {inbox.selected, m} /\ s <= m /\ s <= inbox.selected
    <3>1. {inbox.selected, m} \subseteq Nat /\ {inbox.selected, m} # {}
      BY <2>7
    <3>2. s \in {inbox.selected, m} /\ \A n \in {inbox.selected, m} : s <= n
      BY <3>1, LeastNumber
    <3> QED BY <3>2
  <2> HIDE DEF s
  <2>9. s = 1 \/ s \in 1 .. Cardinality(NoteIds)
    BY <2>5, <2>6, <2>7, <2>8, NoteCount
  <2> QED BY <2>2, <2>4, <2>9 DEF InboxTypes
<1>4. ASSUME NEW n \in DOMAIN inbox.list, inbox.job = [what |-> "seen", n |-> n]
      PROVE  InboxTypes(InboxAnswered)
  <2>1. inbox.job.what = "seen" /\ inbox.job.n = n
    BY <1>4
  <2>2. InboxAnswered = [b EXCEPT !.list[n].seen = TRUE]
    BY <2>1 DEF InboxAnswered
  <2> DEFINE l == inbox.list
             note == [l[n] EXCEPT !.seen = TRUE]
             R == [id : NoteIds, seen : BOOLEAN]
             list == [l EXCEPT ![n] = note]
  <2>3. InboxAnswered.list = list /\ InboxAnswered.selected = inbox.selected
    BY <1>2, <2>2 DEF IsInbox
  <2>4. l \in Seq(R) /\ Len(l) <= Cardinality(NoteIds)
    BY DEF InboxTypes, NoteLists
  <2>5. n \in 1 .. Len(l) /\ l[n] \in R
    <3>1. n \in DOMAIN l
      BY <1>4
    <3> HIDE DEF l, R
    <3>2. n \in 1 .. Len(l)
      BY <2>4, <3>1
    <3> QED BY <2>4, <3>2, ElementOfSeq
  <2>6. note \in R
    BY <2>5
  <2> HIDE DEF note, R
  <2>7. list \in Seq(R) /\ Len(list) = Len(l)
    BY <2>4, <2>5, <2>6
  <2> QED BY <2>3, <2>4, <2>7 DEF InboxTypes, NoteLists, R
<1> QED BY <1>1, <1>3, <1>4 DEF InboxJob

LEMMA LaneTypesStep ==
  ASSUME LaneInv, LaneTypes, [LaneNext]_laneVars
  PROVE  LaneTypes'
<1>0. /\ IsLane(lane) /\ IsAlbum(album) /\ IsInbox(inbox) /\ Travels(lane)
      /\ AlbumTypes(album) /\ InboxTypes(inbox)
      /\ cards \in [AlbumSlots -> Ids \cup {Nil, Other}]
  BY DEF LaneInv, LanePart, AppsPart, LaneTypes
<1>1. Travels(Idled)
  BY DEF Travels, Idled, LaneStates
<1>2. ASSUME NEW r, r \in {ListRequest, InboxRequest, WeatherRequest} \/ IsSeenRequest(r) \/ IsPhotoOfIds(r)
      PROVE  Travels(Asked(r))
  <2>1. Asked(r).state = "pending" /\ Asked(r).request = r
    BY DEF Asked
  <2>2. r.what = "photo" => IsPhotoOfIds(r)
    BY <1>2, RequestKinds DEF IsSeenRequest
  <2> QED BY <2>1, <2>2 DEF Travels, LaneStates
<1>3. Travels(Taken)
  BY <1>0, <1>1 DEF Taken
<1>4. CASE AlbumFrame
  <2>1. top = "album" /\ UNCHANGED <<top, cards, inbox, weather, notes>>
    BY <1>4 DEF AlbumFrame
  <2>2. PICK a \in {album, StepBy(album, 1), StepBy(album, -1), Redrawn(album)} :
         \/ /\ a.job # Nil
            /\ IF LaneBusy THEN album' = a ELSE album' = AlbumEnds(a)
            /\ lane' = Taken
         \/ /\ a.job = Nil
            /\ \/ album' = a /\ UNCHANGED lane
               \/ \E r \in AlbumStarts(a) :
                    IF LaneBusy
                      THEN album' = [a EXCEPT !.due = FALSE] /\ UNCHANGED lane
                      ELSE album' = [a EXCEPT !.job = r] /\ lane' = Asked(r)
    BY <1>4 DEF AlbumFrame
  <2>3. SameTask(album, a)
    BY <1>0, SteppedTask, RedrawnTask DEF SameTask
  <2>4. IsAlbum(a) /\ AlbumTypes(a) /\ a.job = album.job
    BY <1>0, <2>3, SameTaskTypes DEF SameTask
  <2>5. SUFFICES AlbumTypes(album') /\ Travels(lane')
    BY <2>1, <2>5 DEF LaneTypes
  <2>6. CASE a.job # Nil
    <3>1. lane.request = a.job
      BY <2>1, <2>4, <2>6 DEF LaneInv, AwaitsItsOwn
    <3>2. AlbumTypes(AlbumEnds(a))
      BY <1>0, <2>4, <2>6, <3>1, EndedTypes
    <3> QED BY <1>3, <2>2, <2>4, <2>6, <3>2
  <2>7. CASE a.job = Nil
    <3>1. CASE album' = a /\ lane' = lane
      BY <1>0, <2>4, <3>1
    <3>2. CASE album' = [a EXCEPT !.due = FALSE] /\ lane' = lane
      <4>1. album'.ids = a.ids /\ album'.job = a.job
        BY <2>4, <3>2 DEF IsAlbum
      <4> QED BY <1>0, <2>4, <3>2, <4>1 DEF AlbumTypes
    <3>3. ASSUME NEW r \in AlbumStarts(a), album' = [a EXCEPT !.job = r], lane' = Asked(r)
          PROVE  AlbumTypes(album') /\ Travels(lane')
      <4>1. r = ListRequest \/ IsPhotoOfIds(r)
        BY <2>4, StartsTypes
      <4>2. album'.ids = a.ids /\ album'.job = r
        BY <2>4, <3>3 DEF IsAlbum
      <4>3. AlbumTypes(album')
        BY <2>4, <4>1, <4>2 DEF AlbumTypes
      <4>4. Travels(lane')
        BY <1>2, <3>3, <4>1
      <4> QED BY <4>3, <4>4
    <3> QED BY <2>2, <2>7, <3>1, <3>2, <3>3
  <2> QED BY <2>6, <2>7
<1>5. CASE InboxFrame
  <2>1. top = "inbox" /\ UNCHANGED <<top, album, cards, weather, notes>>
    BY <1>5 DEF InboxFrame
  <2>2. SUFFICES InboxTypes(inbox') /\ Travels(lane')
    BY <1>0, <2>1, <2>2 DEF LaneTypes
  <2>3. inbox.list \in NoteLists /\ Reported(inbox.list, notes)
    BY <1>0 DEF InboxTypes, LaneInv, StoredPart
  <2>4. DOMAIN inbox.list = 1 .. Len(inbox.list) /\ Len(inbox.list) \in 0 .. Cardinality(NoteIds)
    BY <2>3, NoteCount DEF NoteLists
  <2>5. ASSUME NEW i \in DOMAIN inbox.list, inbox' = [inbox EXCEPT !.selected = i], UNCHANGED lane
        PROVE  InboxTypes(inbox') /\ Travels(lane')
    <3>1. inbox'.list = inbox.list /\ inbox'.selected = i
      BY <1>0, <2>5 DEF IsInbox
    <3>2. i \in 1 .. Cardinality(NoteIds)
      BY <2>4, NoteCount
    <3> QED BY <1>0, <2>3, <2>5, <3>1, <3>2 DEF InboxTypes
  <2>6. CASE inbox.job # Nil /\ ~LaneBusy /\ InboxEnds /\ lane' = Taken
    <3>1. CASE inbox' = [inbox EXCEPT !.job = Nil]
      <4>1. inbox'.list = inbox.list /\ inbox'.selected = inbox.selected
        BY <1>0, <3>1 DEF IsInbox
      <4> QED BY <1>0, <1>3, <2>6, <4>1 DEF InboxTypes
    <3>2. CASE inbox' = InboxAnswered /\ lane.state = "ok"
      BY <1>0, <1>3, <2>1, <2>6, <3>2, AnsweredTypes
    <3> QED BY <2>6, <3>1, <3>2 DEF InboxEnds
  <2>7. CASE inbox.job = Nil /\ InboxStarts
    <3>1. \E d, j : inbox' = [inbox EXCEPT !.due = d, !.job = j] \/ inbox' = [inbox EXCEPT !.job = j]
      BY <2>7 DEF InboxStarts
    <3>2. inbox'.list = inbox.list /\ inbox'.selected = inbox.selected
      BY <1>0, <3>1 DEF IsInbox
    <3>3. Travels(lane')
      <4>1. CASE lane' = lane
        BY <1>0, <4>1
      <4>2. CASE lane' = Asked(InboxRequest)
        BY <1>2, <4>2
      <4>3. CASE inbox.selected \in DOMAIN inbox.list /\ lane' = Asked(SeenRequest(inbox.list[inbox.selected].id))
        <5>1. IsSeenRequest(SeenRequest(inbox.list[inbox.selected].id))
          BY <2>3, <4>3 DEF Reported, IsSeenRequest
        <5> QED BY <1>2, <4>3, <5>1
      <4> QED BY <2>7, <4>1, <4>2, <4>3 DEF InboxStarts
    <3> QED BY <1>0, <3>2, <3>3 DEF InboxTypes
  <2> QED BY <1>5, <2>5, <2>6, <2>7 DEF InboxFrame
<1>6. CASE WeatherFrame
  <2>1. UNCHANGED <<top, album, cards, inbox, notes>> /\ lane' \in {lane, Taken, Asked(WeatherRequest)}
    BY <1>6 DEF WeatherFrame
  <2> QED BY <1>0, <1>2, <1>3, <2>1 DEF LaneTypes
<1>7. CASE Enter
  <2>1. /\ top' \in {"album", "inbox", "weather"} /\ UNCHANGED <<lane, cards, notes>>
        /\ album' = (IF top' = "album" THEN AlbumEntered ELSE album)
        /\ inbox' = (IF top' = "inbox" THEN InboxEntered ELSE inbox)
    BY <1>7 DEF Enter
  <2>2. AlbumTypes(AlbumEntered)
    <3> DEFINE a == [ids |-> Newest(CacheIds, Cardinality(AlbumSlots)), job |-> Nil, due |-> TRUE, showing |-> Nil]
    <3>1. CacheIds \in SUBSET Ids
      BY <1>0 DEF CacheIds
    <3>2. Newest(CacheIds, Cardinality(AlbumSlots)) \in AlbumLists
      BY <3>1, NewestIsList, NoteCount, LaneAssumption
    <3>3. IsAlbum(a) /\ AlbumTypes(a)
      BY <3>2 DEF IsAlbum, AlbumTypes
    <3>4. AlbumEntered = StepBy(a, 0)
      BY DEF AlbumEntered
    <3> HIDE DEF a
    <3> QED BY <3>3, <3>4, SteppedTask, SameTaskTypes
  <2>3. InboxTypes(InboxEntered)
    <3>1. InboxEntered.list = inbox.list /\ InboxEntered.selected = inbox.selected
      BY <1>0 DEF InboxEntered, IsInbox
    <3> QED BY <1>0, <3>1 DEF InboxTypes
  <2> QED BY <1>0, <2>1, <2>2, <2>3 DEF LaneTypes
<1>8. CASE Leave
  <2>1. /\ top' = "menu" /\ UNCHANGED <<lane, cards, notes>>
        /\ album' = [album EXCEPT !.ids = <<>>, !.showing = Nil, !.due = FALSE]
        /\ inbox' = [inbox EXCEPT !.job = Nil, !.due = FALSE]
    BY <1>8 DEF Leave
  <2>2. album'.ids = <<>> /\ album'.job = album.job /\ inbox'.list = inbox.list /\ inbox'.selected = inbox.selected
    BY <1>0, <2>1 DEF IsAlbum, IsInbox
  <2>3. <<>> \in AlbumLists
    BY NoteCount DEF AlbumLists
  <2> QED BY <1>0, <2>1, <2>2, <2>3 DEF LaneTypes, AlbumTypes, InboxTypes
<1>9. CASE DueAgain
  <2>1. /\ UNCHANGED <<top, lane, cards, weather, notes>>
        /\ album' = [album EXCEPT !.due = album.due \/ top = "album"]
        /\ inbox' = [inbox EXCEPT !.due = inbox.due \/ top = "inbox"]
    BY <1>9 DEF DueAgain
  <2>2. album'.ids = album.ids /\ album'.job = album.job /\ inbox'.list = inbox.list /\ inbox'.selected = inbox.selected
    BY <1>0, <2>1 DEF IsAlbum, IsInbox
  <2> QED BY <1>0, <2>1, <2>2 DEF LaneTypes, AlbumTypes, InboxTypes
<1>10. CASE Streams
  <2>1. /\ lane.state = "pending" /\ lane.request.what = "photo"
        /\ lane' = [lane EXCEPT !.state = "streaming"]
        /\ cards' = [cards EXCEPT ![lane.request.slot] = Nil]
        /\ UNCHANGED <<top, album, inbox, weather, notes>>
    BY <1>10 DEF Streams
  <2>2. lane'.state = "streaming" /\ lane'.request = lane.request
    BY <1>0, <2>1 DEF IsLane
  <2>3. Travels(lane')
    BY <1>0, <2>1, <2>2 DEF Travels, LaneStates
  <2>4. cards' \in [AlbumSlots -> Ids \cup {Nil, Other}]
    BY <1>0, <2>1
  <2> QED BY <1>0, <2>1, <2>3, <2>4 DEF LaneTypes
<1>11. CASE StreamEnds
  <2>1. lane.state = "streaming" /\ UNCHANGED <<top, album, inbox, weather, notes>>
    BY <1>11 DEF StreamEnds
  <2>2. IsPhotoOfIds(lane.request)
    BY <1>0, <2>1 DEF Travels, LaneInv, LanePart
  <2>3. lane.request.id \in Ids /\ lane.request # ListRequest /\ lane.request # InboxRequest
    BY <2>2 DEF IsPhotoOfIds, PhotoRequest, ListRequest, InboxRequest
  <2>4. LaneEnds("ok") \/ LaneEnds("error") \/ LaneEnds("failed")
    BY <1>11 DEF StreamEnds
  <2>5. lane'.state \in {"ok", "error", "failed"} /\ lane'.request = lane.request
    BY <1>0, <2>4 DEF LaneEnds, IsLane
  <2>6. Travels(lane')
    BY <2>3, <2>5 DEF Travels, LaneStates
  <2>7. cards' \in [AlbumSlots -> Ids \cup {Nil, Other}]
    BY <1>0, <1>11, <2>3 DEF StreamEnds
  <2> QED BY <1>0, <2>1, <2>6, <2>7 DEF LaneTypes
<1>12. CASE ServerAnswers
  <2>1. lane.state = "pending" /\ UNCHANGED <<top, album, cards, inbox, weather>>
    BY <1>12 DEF ServerAnswers
  <2>2. SUFFICES Travels(lane')
    BY <1>0, <2>1, <2>2 DEF LaneTypes
  <2>3. \A s : LaneEnds(s) => lane'.state = s /\ lane'.request = lane.request
    BY <1>0 DEF LaneEnds, IsLane
  <2>4. \A b : Answered(b) => lane'.state = "ok" /\ lane'.request = lane.request /\ lane'.body = b
    BY <1>0 DEF Answered, IsLane
  <2>5. CASE LaneEnds("failed") \/ LaneEnds("error")
    BY <2>3, <2>5 DEF Travels, LaneStates
  <2>6. CASE lane.request = ListRequest /\ \E S \in SUBSET Ids : Answered(Newest(S, ListMax))
    <3>1. PICK S \in SUBSET Ids : Answered(Newest(S, ListMax))
      BY <2>6
    <3>2. Newest(S, ListMax) \in AlbumLists
      BY NewestIsList, NoteCount
    <3> QED BY <2>4, <2>6, <3>1, <3>2, RequestKinds DEF Travels, LaneStates
  <2>7. CASE lane.request = InboxRequest /\ Answered(NoteList)
    <3>1. NoteList \in NoteLists
      BY NoteListIsOne DEF LaneInv, StoredPart
    <3> QED BY <2>4, <2>7, <3>1, RequestKinds DEF Travels, LaneStates
  <2>8. CASE (lane.request = WeatherRequest \/ lane.request.what = "seen") /\ LaneEnds("ok")
    <3>1. lane.request # ListRequest /\ lane.request # InboxRequest
      BY <2>8, RequestKinds
    <3> QED BY <2>3, <2>8, <3>1 DEF Travels, LaneStates
  <2> QED BY <1>12, <2>5, <2>6, <2>7, <2>8 DEF ServerAnswers
<1>13. CASE UNCHANGED laneVars
  BY <1>0, <1>13 DEF laneVars, LaneTypes
<1> QED BY <1>4, <1>5, <1>6, <1>7, <1>8, <1>9, <1>10, <1>11, <1>12, <1>13 DEF LaneNext

LEMMA InitLaneTypes == LaneInit => LaneTypes
<1> SUFFICES ASSUME LaneInit PROVE LaneTypes
  OBVIOUS
<1>1. <<>> \in AlbumLists /\ <<>> \in NoteLists
  BY NoteCount DEF AlbumLists, NoteLists
<1> QED BY <1>1 DEF LaneInit, LaneTypes, AlbumTypes, InboxTypes, Travels, Idled, LaneStates

(* The slideshow, the inbox, the weather and their lane keep their types.  *)
THEOREM LaneTypeCorrect == LaneSpec => []LaneTypeOK
<1>1. LaneInit => LaneTypes
  BY InitLaneTypes
<1>2. LaneInv /\ LaneTypes /\ [LaneNext]_laneVars => LaneTypes'
  BY LaneTypesStep
<1>3. LaneInv /\ LaneTypes => LaneTypeOK
  BY DEF LaneInv, StoredPart, LaneTypes, LaneTypeOK, Travels, LaneStates, AlbumTypes, AlbumLists, InboxTypes
<1> QED BY <1>1, <1>2, <1>3, LaneInvariant, PTL DEF LaneSpec

(* While a request is under way the lane has no body yet, and the slot that *)
(* a photo streams into is empty.                                           *)
UnderWay ==
  /\ LaneBusy => lane.body = <<>>
  /\ lane.state = "streaming" => cards[lane.request.slot] = Nil

TurnsInv == LaneInv /\ LaneTypes /\ UnderWay

(* What is under way is a request of the apps. *)
LEMMA BusyRequest ==
  ASSUME LaneInv, LaneTypes, LaneBusy
  PROVE  lane.request \in LaneRequests
<1>1. IsRequest(lane.request) /\ (lane.request.what = "photo" => IsPhotoOfIds(lane.request))
  BY DEF LaneInv, LanePart, LaneTypes, Travels, LaneBusy
<1>2. IsPhotoRequest(lane.request) => IsPhotoOfIds(lane.request)
  BY <1>1, RequestKinds
<1> QED BY <1>1, <1>2 DEF IsRequest, IsPhotoOfIds, IsSeenRequest, LaneRequests

(* The frames ask, take or wait; only the server does anything else.       *)
LEMMA FramesOnLane ==
  ASSUME LaneInv, LaneTypes, [LaneNext]_laneVars
  PROVE  \/ /\ cards' = cards
            /\ \/ lane' = lane
               \/ ~LaneBusy /\ lane' = Idled
               \/ ~LaneBusy /\ \E r \in LaneRequests : lane' = Asked(r)
         \/ Streams \/ StreamEnds \/ ServerAnswers
<1> DEFINE Quiet ==
      /\ cards' = cards
      /\ \/ lane' = lane
         \/ ~LaneBusy /\ lane' = Idled
         \/ ~LaneBusy /\ \E r \in LaneRequests : lane' = Asked(r)
<1>1. ASSUME cards' = cards, lane' = Taken
      PROVE  Quiet
  BY <1>1 DEF Taken
<1>2. CASE AlbumFrame
  <2>1. cards' = cards
    BY <1>2 DEF AlbumFrame
  <2>2. PICK a \in {album, StepBy(album, 1), StepBy(album, -1), Redrawn(album)} :
         \/ lane' = Taken \/ lane' = lane
         \/ ~LaneBusy /\ \E r \in AlbumStarts(a) : lane' = Asked(r)
    BY <1>2 DEF AlbumFrame
  <2>3. SameTask(album, a)
    BY SteppedTask, RedrawnTask DEF SameTask, LaneInv, AppsPart
  <2>4. AlbumTypes(a)
    BY <2>3, SameTaskTypes DEF LaneTypes
  <2>5. \A r \in AlbumStarts(a) : r \in LaneRequests
    BY <2>4, StartsTypes DEF LaneRequests, IsPhotoOfIds
  <2> QED BY <1>1, <2>1, <2>2, <2>5
<1>3. CASE InboxFrame
  <2>1. cards' = cards
    BY <1>3 DEF InboxFrame
  <2>2. CASE InboxStarts
    <3>1. CASE LaneBusy
      BY <2>1, <2>2, <3>1 DEF InboxStarts
    <3>2. CASE ~LaneBusy /\ lane' = Asked(InboxRequest)
      BY <2>1, <3>2 DEF LaneRequests
    <3>3. CASE /\ ~LaneBusy /\ inbox.selected \in DOMAIN inbox.list
               /\ lane' = Asked(SeenRequest(inbox.list[inbox.selected].id))
      <4>1. inbox.list[inbox.selected].id \in NoteIds
        BY <3>3 DEF LaneInv, StoredPart, Reported
      <4>2. SeenRequest(inbox.list[inbox.selected].id) \in LaneRequests
        BY <4>1 DEF LaneRequests
      <4> QED BY <2>1, <3>3, <4>2
    <3> QED BY <2>2, <3>1, <3>2, <3>3 DEF InboxStarts
  <2> QED BY <1>1, <1>3, <2>1, <2>2 DEF InboxFrame
<1>4. CASE WeatherFrame
  <2>1. cards' = cards
    BY <1>4 DEF WeatherFrame
  <2>2. lane' \in {lane, Taken} \/ (~LaneBusy /\ lane' = Asked(WeatherRequest))
    BY <1>4 DEF WeatherFrame
  <2>3. WeatherRequest \in LaneRequests
    BY DEF LaneRequests
  <2> QED BY <1>1, <2>1, <2>2, <2>3
<1>5. CASE Enter \/ Leave \/ DueAgain \/ UNCHANGED laneVars
  BY <1>5 DEF Enter, Leave, DueAgain, laneVars
<1>6. CASE Streams \/ StreamEnds \/ ServerAnswers
  BY <1>6
<1> HIDE DEF Quiet
<1> QED BY <1>2, <1>3, <1>4, <1>5, <1>6 DEF LaneNext

(* An answer that ends a request, with the body the request can bring.     *)
LEMMA AnswersOnLane ==
  ASSUME LaneInv, LaneTypes, UnderWay, StreamEnds \/ ServerAnswers
  PROVE  /\ LaneBusy /\ lane'.state \in {"ok", "error", "failed"}
         /\ lane'.state = "error" => lane'.body = <<>>
         /\ lane'.state = "ok" => lane'.body \in BodiesOf(lane.request)
<1>1. LaneBusy /\ lane.body = <<>> /\ IsLane(lane) /\ IsRequest(lane.request)
  BY DEF StreamEnds, ServerAnswers, LaneBusy, UnderWay, LaneInv, LanePart
<1>2. \A s : LaneEnds(s) => lane'.state = s /\ lane'.body = <<>>
  BY <1>1 DEF LaneEnds, IsLane
<1>3. \A b : Answered(b) => lane'.state = "ok" /\ lane'.body = b
  BY <1>1 DEF Answered, IsLane
<1>4. CASE LaneEnds("failed") \/ LaneEnds("error")
  BY <1>1, <1>2, <1>4
<1>5. CASE lane.request \notin {ListRequest, InboxRequest} /\ LaneEnds("ok")
  BY <1>1, <1>2, <1>5 DEF BodiesOf
<1>6. CASE lane.request = ListRequest /\ \E S \in SUBSET Ids : Answered(Newest(S, ListMax))
  BY <1>1, <1>3, <1>6 DEF BodiesOf
<1>7. CASE lane.request = InboxRequest /\ Answered(NoteList)
  <2>1. NoteList \in [1 .. Cardinality(NoteIds) -> [id : NoteIds, seen : BOOLEAN]]
    BY NoteListShape DEF LaneInv, StoredPart
  <2> QED BY <1>1, <1>3, <1>7, <2>1, RequestKinds DEF BodiesOf
<1>8. CASE StreamEnds
  <2>1. lane.request.what = "photo"
    BY <1>8 DEF StreamEnds, LaneInv, LanePart
  <2>2. lane.request \notin {ListRequest, InboxRequest}
    BY <2>1, RequestKinds
  <2> QED BY <1>4, <1>5, <1>8, <2>2 DEF StreamEnds
<1>9. CASE ServerAnswers
  <2>1. lane.request = WeatherRequest \/ lane.request.what = "seen" => lane.request \notin {ListRequest, InboxRequest}
    BY RequestKinds
  <2> QED BY <1>4, <1>5, <1>6, <1>7, <1>9, <2>1 DEF ServerAnswers
<1> QED BY <1>8, <1>9

LEMMA UnderWayStep ==
  ASSUME LaneInv, LaneTypes, UnderWay, [LaneNext]_laneVars
  PROVE  UnderWay'
<1>1. CASE cards' = cards /\ lane' = lane
  BY <1>1 DEF UnderWay, LaneBusy
<1>2. CASE lane' = Idled
  BY <1>2 DEF UnderWay, LaneBusy, Idled
<1>3. CASE \E r \in LaneRequests : lane' = Asked(r)
  BY <1>3 DEF UnderWay, LaneBusy, Asked
<1>4. CASE Streams
  <2>1. /\ lane.state = "pending" /\ IsLane(lane) /\ lane.body = <<>>
        /\ IsRequest(lane.request) /\ lane.request.what = "photo"
        /\ lane' = [lane EXCEPT !.state = "streaming"]
        /\ cards' = [cards EXCEPT ![lane.request.slot] = Nil]
        /\ cards = [s \in AlbumSlots |-> cards[s]]
    BY <1>4 DEF Streams, UnderWay, LaneBusy, LaneInv, LanePart, StoredPart
  <2>2. lane.request.slot \in AlbumSlots
    BY <2>1, RequestKinds
  <2>3. lane'.body = <<>> /\ lane'.request = lane.request
    BY <2>1 DEF IsLane
  <2>4. cards'[lane.request.slot] = Nil
    BY <2>1, <2>2
  <2> QED BY <2>3, <2>4 DEF UnderWay
<1>5. CASE StreamEnds \/ ServerAnswers
  <2>1. lane'.state \in {"ok", "error", "failed"}
    BY <1>5, AnswersOnLane
  <2> QED BY <2>1 DEF UnderWay, LaneBusy
<1> QED BY <1>1, <1>2, <1>3, <1>4, <1>5, FramesOnLane

(* What a lane in state l shows and owes. *)
Shown == [l \in {"app"} |-> JobShown]
OwedNow == [l \in {"app"} |-> IF LaneBusy THEN lane.request ELSE Nil]

LEMMA TurnsStep ==
  ASSUME TurnsInv, [LaneNext]_laneVars
  PROVE  [Turns!Next]_(Turns!vars)
<1> USE DEF TurnsInv
<1>1. CASE lane' = lane
  BY <1>1 DEF Turns!vars, JobShown, LaneBusy
<1>2. CASE ~LaneBusy /\ lane' = Idled
  <2>1. /\ Shown["app"] # [kind |-> "pending"]
        /\ Shown' = [Shown EXCEPT !["app"] = [kind |-> "idle"]]
        /\ OwedNow' = OwedNow
    BY <1>2 DEF Shown, OwedNow, JobShown, LaneBusy, Idled
  <2>2. Turns!TakeAnswer("app")
    BY <2>1 DEF Turns!TakeAnswer, Turns!Pending, Turns!Idle, Shown, OwedNow
  <2> QED BY <2>2 DEF Turns!Next, Turns!LaneStep
<1>3. ASSUME ~LaneBusy, NEW r \in LaneRequests, lane' = Asked(r)
      PROVE  [Turns!Next]_(Turns!vars)
  <2>1. /\ Shown["app"] # [kind |-> "pending"]
        /\ Shown' = [Shown EXCEPT !["app"] = [kind |-> "pending"]]
        /\ OwedNow' = [OwedNow EXCEPT !["app"] = r]
    BY <1>3 DEF Shown, OwedNow, JobShown, LaneBusy, Asked
  <2>2. Turns!Ask("app", r)
    BY <2>1 DEF Turns!Ask, Turns!Pending, Shown, OwedNow
  <2> QED BY <2>2 DEF Turns!Next, Turns!LaneStep
<1>4. CASE Streams
  <2>1. LaneBusy /\ LaneBusy' /\ lane'.request = lane.request
    BY <1>4 DEF Streams, LaneBusy, LaneInv, LanePart, IsLane
  <2> QED BY <2>1 DEF Turns!vars, JobShown
<1>5. CASE StreamEnds \/ ServerAnswers
  <2> DEFINE a == [status |-> lane'.state, body |-> lane'.body]
             j == IF lane'.state = "failed" THEN [kind |-> "failed"] ELSE [kind |-> "done", reply |-> a]
  <2>1. /\ LaneBusy /\ lane'.state \in {"ok", "error", "failed"}
        /\ lane'.state = "error" => lane'.body = <<>>
        /\ lane'.state = "ok" => lane'.body \in BodiesOf(lane.request)
    BY <1>5, AnswersOnLane
  <2>2. lane.request \in LaneRequests
    BY <2>1, BusyRequest
  <2>3. OwedNow["app"] = lane.request
    BY <2>1 DEF OwedNow
  <2>4. lane'.state # "failed" => a \in LaneReplies[lane.request]
    BY <2>1, <2>2 DEF LaneReplies
  <2>5. Shown' = [Shown EXCEPT !["app"] = j] /\ OwedNow' = [OwedNow EXCEPT !["app"] = Nil]
    BY <2>1 DEF Shown, OwedNow, JobShown, LaneBusy
  <2>6. j \in {Turns!Failed} \cup {Turns!Done(b) : b \in LaneReplies[OwedNow["app"]]}
    BY <2>1, <2>3, <2>4 DEF Turns!Failed, Turns!Done
  <2> HIDE DEF j
  <2>7. Turns!Answer("app")
    BY <2>2, <2>3, <2>5, <2>6 DEF Turns!Answer, Shown, OwedNow
  <2> QED BY <2>7 DEF Turns!Next, Turns!LaneStep
<1> QED BY <1>1, <1>2, <1>3, <1>4, <1>5, FramesOnLane

LEMMA FlashStep ==
  ASSUME TurnsInv, [LaneNext]_laneVars
  PROVE  [Flash!Next]_cards
<1> USE DEF TurnsInv
<1>1. CASE cards' = cards
  BY <1>1
<1>2. CASE Streams
  <2>1. IsRequest(lane.request) /\ lane.request.what = "photo"
    BY <1>2 DEF Streams, LaneInv, LanePart, LaneBusy
  <2>2. lane.request.slot \in AlbumSlots
    BY <2>1, RequestKinds
  <2>3. Flash!Erase(lane.request.slot)
    BY <1>2 DEF Streams, Flash!Erase
  <2> QED BY <2>2, <2>3 DEF Flash!Next
<1>3. CASE StreamEnds
  <2>1. /\ lane.state = "streaming" /\ cards[lane.request.slot] = Nil
        /\ lane.request.what = "photo" /\ IsPhotoOfIds(lane.request)
    BY <1>3 DEF StreamEnds, UnderWay, LaneInv, LanePart, LaneTypes, Travels
  <2>2. lane.request.slot \in AlbumSlots /\ lane.request.id \in Ids
    BY <2>1 DEF IsPhotoOfIds, PhotoRequest
  <2>3. \A b \in {lane.request.id, Other} :
          cards' = [cards EXCEPT ![lane.request.slot] = b] => Flash!Store(lane.request.slot, b)
    BY <2>1 DEF Flash!Store
  <2>4. cards' = cards \/ \E b \in {lane.request.id, Other} : Flash!Store(lane.request.slot, b)
    BY <1>3, <2>3 DEF StreamEnds
  <2> QED BY <2>2, <2>4 DEF Flash!Next
<1>4. CASE ServerAnswers
  BY <1>4 DEF ServerAnswers
<1> QED BY <1>1, <1>2, <1>3, <1>4, FramesOnLane

(* The lane and its apps have the strengthened invariant.                  *)
LEMMA TurnsInvariant == LaneSpec => []TurnsInv
<1>1. LaneInit => LaneTypes
  BY InitLaneTypes
<1>2. LaneInit => UnderWay
  BY DEF LaneInit, UnderWay, LaneBusy, Idled
<1>3. LaneInv /\ LaneTypes /\ [LaneNext]_laneVars => LaneTypes'
  BY LaneTypesStep
<1>4. LaneInv /\ LaneTypes /\ UnderWay /\ [LaneNext]_laneVars => UnderWay'
  BY UnderWayStep
<1>5. LaneInv /\ LaneTypes /\ UnderWay <=> TurnsInv
  BY DEF TurnsInv
<1> QED BY <1>1, <1>2, <1>3, <1>4, <1>5, LaneInvariant, PTL DEF LaneSpec

(* While a photo of the list is missing some slot holds none of the list:  *)
(* the photos kept differ, and the list is no longer than there are slots. *)
LEMMA RoomForMissing ==
  ASSUME LaneInv, LaneTypes
  PROVE  \/ Range(Wanted(album)) \subseteq CacheIds
         \/ \E s \in AlbumSlots : cards[s] \notin Range(Wanted(album))
<1> DEFINE w == Wanted(album)
           R == Range(w)
           T == R \cap CacheIds
<1>1. w \in Seq(Ids) /\ Len(w) \in Nat /\ Len(w) <= Cardinality(AlbumSlots)
  BY WantedFacts DEF LaneTypes
<1> HIDE DEF w
<1>2. R = {w[i] : i \in 1 .. Len(w)} /\ R \subseteq Ids
  BY <1>1 DEF Range
<1>3. IsFiniteSet(R) /\ Cardinality(R) \in Nat
  BY <1>2, LaneAssumption, FS_Subset, FS_CardinalityType
<1>4. Cardinality(R) <= Len(w)
  <2>1. w \in Surjection(1 .. Len(w), R)
    <3>1. w = [i \in 1 .. Len(w) |-> w[i]]
      BY <1>1
    <3> HIDE DEF R
    <3>2. w \in [1 .. Len(w) -> R]
      BY <1>2, <3>1
    <3> QED BY <1>2, <3>2 DEF Surjection
  <2>2. ExistsSurjection(1 .. Len(w), R)
    BY <2>1 DEF ExistsSurjection
  <2> QED BY <1>1, <2>2, FS_SurjCardinalityBound
<1> SUFFICES ASSUME ~(R \subseteq CacheIds), \A s \in AlbumSlots : cards[s] \in R
             PROVE  FALSE
  BY DEF w
<1> HIDE DEF R
<1>5. /\ IsFiniteSet(T) /\ Cardinality(T) \in Nat
      /\ Cardinality(T) < Cardinality(R)
  <2>1. T \in SUBSET R /\ T # R
    OBVIOUS
  <2> HIDE DEF T
  <2>2. IsFiniteSet(T) /\ Cardinality(T) <= Cardinality(R) /\ (Cardinality(R) = Cardinality(T) => R = T)
    BY <1>3, <2>1, FS_Subset
  <2>3. Cardinality(T) \in Nat
    BY <2>2, FS_CardinalityType
  <2> QED BY <1>3, <2>1, <2>2, <2>3
<1>6. cards \in [AlbumSlots -> T]
  <2>1. cards = [s \in AlbumSlots |-> cards[s]]
    BY DEF LaneInv, StoredPart
  <2>2. ASSUME NEW s \in AlbumSlots PROVE cards[s] \in T
    <3>1. cards[s] \in Ids /\ cards[s] \notin {Nil, Other}
      BY <1>2, LaneAssumption
    <3> QED BY <3>1 DEF CacheIds
  <2> HIDE DEF T
  <2> QED BY <2>1, <2>2
<1>7. IsFiniteSet(AlbumSlots) /\ Cardinality(T) < Cardinality(AlbumSlots)
  <2> HIDE DEF T
  <2> QED BY <1>1, <1>3, <1>4, <1>5, LaneAssumption, NoteCount
<1>8. PICK s \in AlbumSlots, t \in AlbumSlots : s # t /\ cards[s] = cards[t]
  <2> HIDE DEF T
  <2> QED BY <1>5, <1>6, <1>7, FS_PigeonHole
<1>9. cards[s] \in Ids
  BY <1>2
<1> QED BY <1>8, <1>9 DEF LaneInv, StoredPart

(* AlbumIsKept (next_missing, Storage::blob_writer): a photo is in flash   *)
(* once, the one awaited takes the place of none of the list, and a photo  *)
(* of the list that is missing has a slot to come to: one the list has not,*)
(* whatever an earlier visit's request has put or erased.                  *)
THEOREM AlbumKept == LaneSpec => []AlbumIsKept
<1>1. TurnsInv => AlbumIsKept
  BY RoomForMissing DEF TurnsInv, LaneInv, StoredPart, SlotIsFree, AlbumIsKept
<1> QED BY <1>1, TurnsInvariant, PTL

(* LaneApps implements AtomicLanes on its lane: Slideshow, Messages and    *)
(* Weather ask only when nothing is pending, and each request is answered  *)
(* once with something it can bring.                                       *)
THEOREM TurnsRefinement == LaneSpec => TurnsAreTaken
<1>1. LaneInit => Turns!Init
  BY DEF LaneInit, Turns!Init, Turns!Idle, JobShown, LaneBusy, Idled
<1>2. TurnsInv /\ [LaneNext]_laneVars => [Turns!Next]_(Turns!vars)
  BY TurnsStep
<1> QED BY <1>1, <1>2, TurnsInvariant, PTL DEF LaneSpec, Turns!Spec, TurnsAreTaken

(* The album's cache implements AtomicBlobs: each photo comes in one piece *)
(* to a slot that was emptied, and stays as it came until erased.          *)
THEOREM AlbumRefinement == LaneSpec => CardsAreWhole
<1>1. LaneInit => Flash!Init
  BY DEF LaneInit, Flash!Init
<1>2. TurnsInv /\ [LaneNext]_laneVars => [Flash!Next]_cards
  BY FlashStep
<1> QED BY <1>1, <1>2, TurnsInvariant, PTL DEF LaneSpec, Flash!Spec, CardsAreWhole

-----------------------------------------------------------------------------
(* Speaker: for any sounds, lengths and size of the buffers.               *)

Buffers == [sound : Sounds \cup {Silence}, from : Nat, len : Nat]

(* Buffer b goes on where the listener is, and the synth after it. *)
GoesOn(b) ==
  /\ heard.sound \in Sounds
  /\ b.sound = heard.sound /\ synth.sound = heard.sound
  /\ b.from = heard.samples /\ b.from + b.len = synth.made
  /\ synth.made <= Samples[heard.sound]
  /\ synth.done => synth.made = Samples[heard.sound]

SpeakerInv ==
  /\ SpeakerTypeOK
  /\ synth \in [sound : Sounds \cup {NoSound}, made : Nat, done : BOOLEAN]
  /\ buffers \in [front : Buffers, back : Buffers]
  /\ heard \in [sound : Sounds \cup {NoSound}, samples : Nat, order : {TRUE}]
  /\ player # "plays" => dma = NoSound
  /\ player = "plays" /\ dma = NoSound => GoesOn(buffers.front) /\ ~synth.done
  /\ player = "plays" /\ dma # NoSound => GoesOn(buffers.back)
  /\ player = "ends" => GoesOn(buffers.front) /\ (synth.done \/ asked # NoSound)
  /\ player = "silences" /\ asked = NoSound => heard.samples = Samples[heard.sound]

(* A buffer is never the missing one. *)
LEMMA BufferIsThere == ASSUME NEW b \in Buffers PROVE b # NoSound
BY SpeakerAssumption DEF Buffers

(* What fill makes. *)
LEMMA FilledFacts ==
  ASSUME NEW s \in [sound : Sounds, made : Nat, done : BOOLEAN], s.made <= Samples[s.sound]
  PROVE  LET f == FilledBy(s)
         IN /\ f.buffer \in Buffers
            /\ f.synth \in [sound : Sounds, made : Nat, done : BOOLEAN]
            /\ f.buffer.sound = s.sound /\ f.buffer.from = s.made
            /\ f.synth.sound = s.sound /\ f.synth.made = s.made + f.buffer.len
            /\ f.synth.made <= Samples[s.sound]
            /\ f.synth.done => f.synth.made = Samples[s.sound]
<1> DEFINE left == Samples[s.sound] - s.made
           n == IF left < Chunk THEN left ELSE Chunk
           f == FilledBy(s)
<1>1. Samples[s.sound] \in Nat /\ s.made \in Nat /\ Chunk \in Nat /\ s.sound \in Sounds
  BY SpeakerAssumption
<1>2. n \in Nat /\ s.made + n <= Samples[s.sound] /\ (left < Chunk => s.made + n = Samples[s.sound])
  BY <1>1
<1>3. /\ f.buffer = [sound |-> s.sound, from |-> s.made, len |-> n]
      /\ f.synth = [s EXCEPT !.made = s.made + n, !.done = left < Chunk]
  BY DEF FilledBy
<1> HIDE DEF n, left, f
<1>4. f.buffer \in Buffers /\ f.buffer.sound = s.sound /\ f.buffer.from = s.made /\ f.buffer.len = n
  BY <1>1, <1>2, <1>3 DEF Buffers
<1>5. s.made + n \in Nat /\ (left < Chunk) \in BOOLEAN
  BY <1>1, <1>2
<1>6. /\ f.synth \in [sound : Sounds, made : Nat, done : BOOLEAN]
      /\ f.synth.sound = s.sound /\ f.synth.made = s.made + n /\ f.synth.done = (left < Chunk)
  BY <1>3, <1>5
<1> QED BY <1>2, <1>4, <1>6 DEF f

(* What is heard goes on with b, and then past it. *)
LEMMA HeardFacts ==
  ASSUME SpeakerInv, NEW b \in Buffers, GoesOn(b)
  PROVE  /\ HeardWith(b) \in [sound : Sounds \cup {NoSound}, samples : Nat, order : {TRUE}]
         /\ HeardWith(b).sound = heard.sound
         /\ HeardWith(b).samples = synth.made
<1>1. heard \in [sound : Sounds \cup {NoSound}, samples : Nat, order : {TRUE}] /\ b.len \in Nat /\ b.from \in Nat
  BY DEF SpeakerInv, Buffers
<1>2. b.from = heard.samples /\ b.sound = heard.sound /\ heard.samples + b.len = synth.made
  BY DEF GoesOn
<1>3. CASE b.len > 0
  <2> DEFINE going == heard.order /\ b.from = heard.samples /\ b.sound = heard.sound
             total == heard.samples + b.len
  <2>1. HeardWith(b) = [heard EXCEPT !.order = going, !.samples = total]
    BY <1>3 DEF HeardWith
  <2>2. going = TRUE
    BY <1>1, <1>2
  <2>3. total \in Nat /\ total = synth.made
    BY <1>1, <1>2
  <2> HIDE DEF going, total
  <2> QED BY <1>1, <2>1, <2>2, <2>3
<1>4. CASE ~(b.len > 0)
  <2>1. HeardWith(b) = heard
    BY <1>4 DEF HeardWith
  <2>2. b.len = 0
    BY <1>1, <1>4
  <2>3. heard.samples = synth.made
    BY <1>1, <1>2, <2>2
  <2> QED BY <1>1, <2>1, <2>3
<1> QED BY <1>1, <1>3, <1>4

LEMMA TakeSoundKeeps ==
  ASSUME SpeakerInv, TakeSound
  PROVE  SpeakerInv'
<1> DEFINE s == [sound |-> asked, made |-> 0, done |-> FALSE]
           first == FilledBy(s)
<1>1. /\ player = "waits" /\ asked # NoSound /\ asked \in Sounds /\ dma = NoSound
      /\ UNCHANGED <<volume, dma>> /\ asked' = NoSound
      /\ heard' = [sound |-> asked, samples |-> 0, order |-> TRUE]
      /\ synth' = first.synth
      /\ buffers' = [front |-> first.buffer, back |-> Empty]
      /\ player' = IF first.synth.done THEN "ends" ELSE "plays"
  BY DEF TakeSound, SpeakerInv, SpeakerTypeOK
<1>2. s \in [sound : Sounds, made : Nat, done : BOOLEAN] /\ s.made <= Samples[s.sound]
      /\ s.sound = asked /\ s.made = 0
  BY <1>1, SpeakerAssumption
<1> HIDE DEF s
<1>3. /\ first.buffer \in Buffers
      /\ first.synth \in [sound : Sounds, made : Nat, done : BOOLEAN]
      /\ first.buffer.sound = asked /\ first.buffer.from = 0
      /\ first.synth.sound = asked /\ first.synth.made = 0 + first.buffer.len
      /\ first.synth.made <= Samples[asked]
      /\ first.synth.done => first.synth.made = Samples[asked]
  BY <1>2, FilledFacts
<1> HIDE DEF first
<1>4. Empty \in Buffers
  BY DEF Empty, Buffers
<1>5. buffers'.front = first.buffer /\ buffers' \in [front : Buffers, back : Buffers]
  BY <1>1, <1>3, <1>4
<1>6. GoesOn(buffers.front)'
  BY <1>1, <1>3, <1>5 DEF GoesOn
<1>7. synth'.done \in BOOLEAN /\ (player' = "plays" => ~synth'.done) /\ (player' = "ends" => synth'.done)
  BY <1>1, <1>3
<1> QED BY <1>1, <1>3, <1>5, <1>6, <1>7 DEF SpeakerInv, SpeakerTypeOK

LEMMA TransferKeeps ==
  ASSUME SpeakerInv, Transfer
  PROVE  SpeakerInv'
<1> DEFINE next == FilledBy(synth)
<1>1. /\ player = "plays" /\ dma = NoSound /\ UNCHANGED <<asked, volume, player>>
      /\ dma' = buffers.front /\ heard' = HeardWith(buffers.front)
      /\ synth' = next.synth /\ buffers' = [buffers EXCEPT !.back = next.buffer]
  BY DEF Transfer
<1>2. GoesOn(buffers.front) /\ buffers.front \in Buffers
  BY <1>1 DEF SpeakerInv
<1>3. synth \in [sound : Sounds, made : Nat, done : BOOLEAN] /\ synth.made <= Samples[synth.sound] /\ synth.sound = heard.sound
  BY <1>2 DEF GoesOn, SpeakerInv
<1>4. /\ next.buffer \in Buffers
      /\ next.synth \in [sound : Sounds, made : Nat, done : BOOLEAN]
      /\ next.buffer.sound = synth.sound /\ next.buffer.from = synth.made
      /\ next.synth.sound = synth.sound /\ next.synth.made = synth.made + next.buffer.len
      /\ next.synth.made <= Samples[synth.sound]
      /\ next.synth.done => next.synth.made = Samples[synth.sound]
  BY <1>3, FilledFacts
<1> HIDE DEF next
<1>5. /\ heard' \in [sound : Sounds \cup {NoSound}, samples : Nat, order : {TRUE}]
      /\ heard'.sound = heard.sound /\ heard'.samples = synth.made
  BY <1>1, <1>2, HeardFacts
<1>6. buffers' \in [front : Buffers, back : Buffers] /\ buffers'.front = buffers.front /\ buffers'.back = next.buffer
  BY <1>1, <1>4 DEF SpeakerInv
<1>7. GoesOn(buffers.back)'
  BY <1>1, <1>2, <1>3, <1>4, <1>5, <1>6 DEF GoesOn
<1>8. dma' # NoSound
  BY <1>1, <1>2, BufferIsThere
<1> QED BY <1>1, <1>4, <1>5, <1>6, <1>7, <1>8 DEF SpeakerInv, SpeakerTypeOK

LEMMA TransferDoneKeeps ==
  ASSUME SpeakerInv, TransferDone
  PROVE  SpeakerInv'
<1>1. /\ player = "plays" /\ dma # NoSound /\ dma' = NoSound
      /\ buffers' = [front |-> buffers.back, back |-> buffers.front]
      /\ player' = IF synth.done \/ asked # NoSound THEN "ends" ELSE "plays"
      /\ UNCHANGED <<asked, volume, synth, heard>>
  BY DEF TransferDone
<1>2. buffers' \in [front : Buffers, back : Buffers] /\ buffers'.front = buffers.back
  BY <1>1 DEF SpeakerInv
<1>3. GoesOn(buffers.front)'
  BY <1>1, <1>2 DEF SpeakerInv, GoesOn
<1> QED BY <1>1, <1>2, <1>3 DEF SpeakerInv, SpeakerTypeOK

LEMMA LastChunkKeeps ==
  ASSUME SpeakerInv, LastChunk
  PROVE  SpeakerInv'
<1>1. /\ player = "ends" /\ player' = "silences" /\ heard' = HeardWith(buffers.front)
      /\ buffers' = [buffers EXCEPT !.back = Empty]
      /\ UNCHANGED <<asked, volume, synth, dma>>
  BY DEF LastChunk
<1>2. GoesOn(buffers.front) /\ buffers.front \in Buffers /\ (synth.done \/ asked # NoSound)
  BY <1>1 DEF SpeakerInv
<1>3. /\ heard' \in [sound : Sounds \cup {NoSound}, samples : Nat, order : {TRUE}]
      /\ heard'.sound = heard.sound /\ heard'.samples = synth.made
  BY <1>1, <1>2, HeardFacts
<1>4. Empty \in Buffers
  BY DEF Empty, Buffers
<1>5. buffers' \in [front : Buffers, back : Buffers] /\ buffers'.front = buffers.front
  BY <1>1, <1>4 DEF SpeakerInv
<1>6. asked' = NoSound => heard'.samples = Samples[heard'.sound]
  BY <1>1, <1>2, <1>3 DEF GoesOn
<1> QED BY <1>1, <1>3, <1>5, <1>6 DEF SpeakerInv, SpeakerTypeOK

(* The inductive invariant of the sound task.                              *)
THEOREM SpeakerInvariant == SpeakerSpec => []SpeakerInv
<1>1. SpeakerInit => SpeakerInv
  BY DEF SpeakerInit, SpeakerInv, SpeakerTypeOK, NoSynth, Empty, Buffers
<1>2. SpeakerInv /\ [SpeakerNext]_speakerVars => SpeakerInv'
  <2> SUFFICES ASSUME SpeakerInv, [SpeakerNext]_speakerVars PROVE SpeakerInv'
    OBVIOUS
  <2>1. CASE Play
    <3>1. asked' \in Sounds /\ asked' # NoSound /\ UNCHANGED <<volume, player, synth, buffers, dma, heard>>
      BY <2>1, SpeakerAssumption DEF Play, PlayAsked
    <3> QED BY <3>1 DEF SpeakerInv, SpeakerTypeOK, GoesOn
  <2>2. CASE SetVolume
    BY <2>2 DEF SetVolume, SpeakerInv, SpeakerTypeOK, GoesOn
  <2>3. CASE Stop
    BY <2>3 DEF Stop, NoSynth, SpeakerInv, SpeakerTypeOK, GoesOn
  <2>4. CASE UNCHANGED speakerVars
    BY <2>4 DEF speakerVars, SpeakerInv, SpeakerTypeOK, GoesOn
  <2> QED BY <2>1, <2>2, <2>3, <2>4, TakeSoundKeeps, TransferKeeps, TransferDoneKeeps, LastChunkKeeps DEF SpeakerNext
<1> QED BY <1>1, <1>2, PTL DEF SpeakerSpec

(* The sound task keeps its types; DMA plays the front buffer or nothing.  *)
THEOREM SpeakerTypeCorrect == SpeakerSpec => []SpeakerTypeOK
<1>1. SpeakerInv => SpeakerTypeOK
  BY DEF SpeakerInv
<1> QED BY <1>1, SpeakerInvariant, PTL

(* SoundIsWhole (audio_task, Synth::fill): what is heard of a sound is a   *)
(* piece of it from its start, in order and without a gap, and the whole   *)
(* unless a newer sound was asked for.                                     *)
THEOREM SoundsAreWhole == SpeakerSpec => []SoundIsWhole
<1>1. SpeakerInv => SoundIsWhole
  BY DEF SpeakerInv, SoundIsWhole
<1> QED BY <1>1, SpeakerInvariant, PTL

-----------------------------------------------------------------------------
(* The pet: for any goals, any days of any clock and any outfits, the      *)
(* goals of the week are in the all-time count.                            *)

(* Running sums of the first n entries of a history.  What is shown of     *)
(* them below is shown for a least counterexample.                         *)
IsSum(g, h, n) == g = [i \in 0 .. n |-> IF i = 0 THEN 0 ELSE g[i - 1] + h[i]]

LEMMA SumExists ==
  ASSUME NEW h, NEW n \in Nat
  PROVE  \E g : IsSum(g, h, n)
<1> DEFINE S == {m \in Nat : ~ \E g : IsSum(g, h, m)}
<1>1. ASSUME S # {} PROVE FALSE
  <2>1. PICK m \in S : \A k \in S : m <= k
    <3>1. S \subseteq Nat
      OBVIOUS
    <3> HIDE DEF S
    <3> QED BY <1>1, <3>1, LeastNumber
  <2>2. CASE m = 0
    <3> DEFINE g == [i \in 0 .. 0 |-> 0]
    <3>1. g = [i \in 0 .. 0 |-> IF i = 0 THEN 0 ELSE g[i - 1] + h[i]]
      OBVIOUS
    <3>2. IsSum(g, h, 0)
      BY <3>1 DEF IsSum
    <3> HIDE DEF g
    <3> QED BY <2>2, <3>2
  <2>3. CASE m # 0
    <3>1. m - 1 \in Nat /\ m - 1 \notin S
      BY <2>1, <2>3
    <3>2. PICK f : IsSum(f, h, m - 1)
      BY <3>1
    <3> DEFINE g == [i \in 0 .. m |-> IF i = m THEN f[m - 1] + h[m] ELSE f[i]]
    <3>3. DOMAIN g = 0 .. m
      OBVIOUS
    <3>4. \A i \in 0 .. m : g[i] = IF i = 0 THEN 0 ELSE g[i - 1] + h[i]
      BY <2>3, <3>1, <3>2 DEF IsSum
    <3>5. g = [i \in 0 .. m |-> g[i]]
      OBVIOUS
    <3> HIDE DEF g
    <3>6. IsSum(g, h, m)
      BY <3>4, <3>5 DEF IsSum
    <3> QED BY <3>6
  <2> QED BY <2>2, <2>3
<1>2. S = {}
  BY <1>1
<1> QED BY <1>2

(* Sums are numbers. *)
LEMMA SumsAreNumbers ==
  ASSUME NEW n \in Nat, NEW h \in [1 .. n -> Nat], NEW g, IsSum(g, h, n)
  PROVE  \A i \in 0 .. n : g[i] \in Nat
<1> DEFINE S == {m \in 0 .. n : g[m] \notin Nat}
<1>0. /\ g[0] = 0
      /\ \A i \in 1 .. n : g[i] = g[i - 1] + h[i]
  <2>1. \A i \in 0 .. n : g[i] = IF i = 0 THEN 0 ELSE g[i - 1] + h[i]
    BY DEF IsSum
  <2> QED BY <2>1
<1>1. ASSUME S # {} PROVE FALSE
  <2>1. PICK m \in S : \A k \in S : m <= k
    <3>1. S \subseteq Nat
      OBVIOUS
    <3> HIDE DEF S
    <3> QED BY <1>1, <3>1, LeastNumber
  <2>2. m \in 1 .. n
    BY <1>0
  <2>3. m - 1 \in 0 .. n /\ m - 1 \notin S
    BY <2>1, <2>2
  <2>4. g[m] = g[m - 1] + h[m] /\ h[m] \in Nat
    BY <1>0, <2>2
  <2> QED BY <2>3, <2>4
<1> QED BY <1>1

(* SumOfWeek is the last of them. *)
LEMMA WeekSum ==
  ASSUME NEW p, p.goalHist \in [1 .. HistoryDays -> Nat]
  PROVE  \E g : /\ IsSum(g, p.goalHist, HistoryDays)
                /\ SumOfWeek(p) = g[HistoryDays]
                /\ \A i \in 0 .. HistoryDays : g[i] \in Nat
<1>0. HistoryDays \in Nat /\ HistoryDays > 0
  BY PetAssumption
<1> DEFINE s == CHOOSE g : g = [i \in 0 .. HistoryDays |->
                                  IF i = 0 THEN 0 ELSE g[i - 1] + p.goalHist[i]]
<1>1. SumOfWeek(p) = s[HistoryDays]
  BY DEF SumOfWeek
<1>2. \E g : IsSum(g, p.goalHist, HistoryDays)
  BY <1>0, SumExists
<1>3. IsSum(s, p.goalHist, HistoryDays)
  BY <1>2 DEF IsSum
<1> HIDE DEF s
<1>4. \A i \in 0 .. HistoryDays : s[i] \in Nat
  BY <1>0, <1>3, SumsAreNumbers
<1> QED BY <1>1, <1>3, <1>4

(* One history, one sum. *)
LEMMA SameWeek ==
  ASSUME NEW p, NEW q, p.goalHist = q.goalHist
  PROVE  SumOfWeek(p) = SumOfWeek(q)
BY DEF SumOfWeek

(* A history after another day: the first leaves it, x joins it. *)
Moved(h, x) == Append(Tail(h), x)
IsMoved(S, h, x) ==
  /\ Moved(h, x) \in [1 .. HistoryDays -> S]
  /\ \A i \in 1 .. HistoryDays - 1 : Moved(h, x)[i] = h[i + 1]
  /\ Moved(h, x)[HistoryDays] = x

LEMMA Shifted ==
  ASSUME NEW S, NEW h \in [1 .. HistoryDays -> S], NEW x \in S
  PROVE  IsMoved(S, h, x)
<1>0. HistoryDays \in Nat /\ HistoryDays > 0
  BY PetAssumption
<1>1. h \in Seq(S) /\ Len(h) = HistoryDays
  BY <1>0
<1>2. Tail(h) \in Seq(S) /\ Len(Tail(h)) = HistoryDays - 1
      /\ \A i \in 1 .. HistoryDays - 1 : Tail(h)[i] = h[i + 1]
  BY <1>0, <1>1
<1> DEFINE t == Tail(h)
<1> HIDE DEF t
<1>3. /\ Append(t, x) \in Seq(S) /\ Len(Append(t, x)) = HistoryDays
      /\ \A i \in 1 .. HistoryDays - 1 : Append(t, x)[i] = t[i]
      /\ Append(t, x)[HistoryDays] = x
  BY <1>0, <1>2 DEF t
<1>4. Append(t, x) \in [1 .. HistoryDays -> S]
  <2> DEFINE u == Append(t, x)
  <2>1. u \in Seq(S) /\ Len(u) = HistoryDays
    BY <1>3
  <2> HIDE DEF u
  <2>2. u \in [1 .. Len(u) -> S]
    BY <2>1
  <2> QED BY <2>1, <2>2 DEF u
<1> QED BY <1>2, <1>3, <1>4 DEF t, Moved, IsMoved

(* The day that leaves the history leaves its sum, the new one joins it. *)
LEMMA ShiftedSum ==
  ASSUME NEW p, p.goalHist \in [1 .. HistoryDays -> Nat], NEW x \in Nat,
         NEW q, q.goalHist = Moved(p.goalHist, x)
  PROVE  /\ SumOfWeek(q) \in Nat /\ SumOfWeek(p) \in Nat
         /\ SumOfWeek(q) <= SumOfWeek(p) + x
<1> DEFINE h == p.goalHist
           k == q.goalHist
           n == HistoryDays
<1>0. n \in Nat /\ n > 0
  BY PetAssumption
<1>1. h \in [1 .. n -> Nat] /\ k \in [1 .. n -> Nat]
      /\ (\A i \in 1 .. n - 1 : k[i] = h[i + 1]) /\ k[n] = x
  <2>1. IsMoved(Nat, h, x)
    BY Shifted
  <2> QED BY <2>1 DEF IsMoved
<1>2. PICK f : IsSum(f, h, n) /\ SumOfWeek(p) = f[n] /\ \A i \in 0 .. n : f[i] \in Nat
  BY <1>1, WeekSum
<1>3. PICK g : IsSum(g, k, n) /\ SumOfWeek(q) = g[n] /\ \A i \in 0 .. n : g[i] \in Nat
  BY <1>1, WeekSum
<1> HIDE DEF h, k, n
<1>4. /\ f[0] = 0 /\ \A i \in 1 .. n : f[i] = f[i - 1] + h[i]
      /\ g[0] = 0 /\ \A i \in 1 .. n : g[i] = g[i - 1] + k[i]
  <2>1. \A i \in 0 .. n : f[i] = IF i = 0 THEN 0 ELSE f[i - 1] + h[i]
    BY <1>2 DEF IsSum
  <2>2. \A i \in 0 .. n : g[i] = IF i = 0 THEN 0 ELSE g[i - 1] + k[i]
    BY <1>3 DEF IsSum
  <2>3. f[0] = 0 /\ g[0] = 0
    BY <1>0, <2>1, <2>2
  <2>4. \A i \in 1 .. n : f[i] = f[i - 1] + h[i]
    BY <1>0, <2>1
  <2>5. \A i \in 1 .. n : g[i] = g[i - 1] + k[i]
    BY <1>0, <2>2
  <2> QED BY <2>3, <2>4, <2>5
<1> DEFINE S == {m \in 0 .. n - 1 : g[m] + h[1] # f[m + 1]}
<1>5. ASSUME S # {} PROVE FALSE
  <2>1. PICK m \in S : \A l \in S : m <= l
    <3>1. S \subseteq Nat
      OBVIOUS
    <3> HIDE DEF S
    <3> QED BY <1>5, <3>1, LeastNumber
  <2>2. 1 \in 1 .. n /\ f[1] = f[0] + h[1] /\ h[1] \in Nat
    <3>1. 1 \in 1 .. n
      BY <1>0
    <3>2. f[1] = f[1 - 1] + h[1]
      BY <1>4, <3>1
    <3> QED BY <1>1, <3>1, <3>2
  <2>3. m # 0
    BY <1>4, <2>2
  <2>4. m - 1 \in 0 .. n - 1 /\ m \in 1 .. n - 1 /\ m + 1 \in 1 .. n /\ m \in 1 .. n
    BY <1>0, <2>3
  <2>5. g[m - 1] + h[1] = f[(m - 1) + 1] /\ (m - 1) + 1 = m
    BY <2>1, <2>4
  <2>6. g[m] = g[m - 1] + h[m + 1]
    BY <1>1, <1>4, <2>4
  <2>7. f[m + 1] = f[(m + 1) - 1] + h[m + 1] /\ (m + 1) - 1 = m
    BY <1>4, <2>4
  <2>8. f[m] \in Nat /\ g[m - 1] \in Nat /\ h[m + 1] \in Nat /\ g[m] \in Nat
    <3>1. m \in 0 .. n /\ m - 1 \in 0 .. n
      BY <1>0, <2>4
    <3>2. h[m + 1] \in Nat
      BY <1>1, <2>4
    <3> QED BY <1>2, <1>3, <3>1, <3>2
  <2>9. g[m] + h[1] = f[m + 1]
    BY <2>2, <2>5, <2>6, <2>7, <2>8
  <2> QED BY <2>9
<1>6. n - 1 \in 0 .. n - 1 /\ n - 1 \notin S /\ n \in 1 .. n
  BY <1>0, <1>5
<1>7. g[n - 1] + h[1] = f[(n - 1) + 1] /\ (n - 1) + 1 = n
  BY <1>0, <1>6
<1>8. g[n] = g[n - 1] + x
  BY <1>1, <1>4, <1>6
<1>9. g[n - 1] \in Nat /\ g[n] \in Nat /\ f[n] \in Nat /\ h[1] \in Nat
  BY <1>0, <1>1, <1>2, <1>3, <1>6
<1>10. g[n] <= f[n] + x
  BY <1>7, <1>8, <1>9
<1> QED BY <1>2, <1>3, <1>9, <1>10

PetRecords ==
  [energy : 0 .. FullEnergy, adventures : Nat, total : Nat, day : Nat, done : SUBSET Goals,
   checkin : Nat, goalHist : [1 .. HistoryDays -> 0 .. Cardinality(Goals)],
   intro : BOOLEAN, outfit : Outfits]

(* A pet whose goals add up. *)
GoodPet(p) == p \in PetRecords /\ SumOfWeek(p) + Cardinality(p.done) <= p.total

(* The goals of a day are counted. *)
LEMMA SomeGoals ==
  /\ IsFiniteSet(Goals) /\ Cardinality(Goals) \in Nat
  /\ \A D \in SUBSET Goals : IsFiniteSet(D) /\ Cardinality(D) \in 0 .. Cardinality(Goals)
<1>1. IsFiniteSet({CheckInGoal}) /\ IsFiniteSet({FocusGoal}) /\ IsFiniteSet({BreatheGoal})
  BY FS_Singleton
<1>2. IsFiniteSet({CheckInGoal} \cup {FocusGoal}) /\ IsFiniteSet(PlainGoals)
  BY <1>1, FS_Union, PetAssumption
<1>3. IsFiniteSet(({CheckInGoal} \cup {FocusGoal}) \cup {BreatheGoal})
  BY <1>1, <1>2, FS_Union
<1>4. IsFiniteSet(PlainGoals \cup (({CheckInGoal} \cup {FocusGoal}) \cup {BreatheGoal}))
  BY <1>2, <1>3, FS_Union
<1>5. Goals = PlainGoals \cup (({CheckInGoal} \cup {FocusGoal}) \cup {BreatheGoal})
  BY DEF Goals
<1>6. IsFiniteSet(Goals)
  BY <1>4, <1>5
<1>7. Cardinality(Goals) \in Nat
  BY <1>6, FS_CardinalityType
<1>8. ASSUME NEW D \in SUBSET Goals
      PROVE  IsFiniteSet(D) /\ Cardinality(D) \in 0 .. Cardinality(Goals)
  <2>1. IsFiniteSet(D) /\ Cardinality(D) <= Cardinality(Goals)
    BY <1>6, FS_Subset
  <2>2. Cardinality(D) \in Nat
    BY <2>1, FS_CardinalityType
  <2> QED BY <1>7, <2>1, <2>2
<1> QED BY <1>6, <1>7, <1>8

(* The fields of a good pet, and its numbers. *)
LEMMA GoodFields ==
  ASSUME NEW p, GoodPet(p)
  PROVE  /\ p.energy \in 0 .. FullEnergy /\ p.adventures \in Nat /\ p.total \in Nat
         /\ p.day \in Nat /\ p.done \in SUBSET Goals /\ p.checkin \in Nat
         /\ p.goalHist \in [1 .. HistoryDays -> 0 .. Cardinality(Goals)]
         /\ p.goalHist \in [1 .. HistoryDays -> Nat]
         /\ p.outfit \in Outfits
         /\ SumOfWeek(p) \in Nat /\ Cardinality(p.done) \in Nat
         /\ Cardinality(p.done) \in 0 .. Cardinality(Goals) /\ IsFiniteSet(p.done)
         /\ SumOfWeek(p) + Cardinality(p.done) <= p.total
<1>1. p \in PetRecords /\ SumOfWeek(p) + Cardinality(p.done) <= p.total
  BY DEF GoodPet
<1>2. p.goalHist \in [1 .. HistoryDays -> 0 .. Cardinality(Goals)] /\ p.done \in SUBSET Goals
  BY <1>1 DEF PetRecords
<1>3. p.goalHist \in [1 .. HistoryDays -> Nat]
  BY <1>2, SomeGoals
<1>4. HistoryDays \in Nat
  BY PetAssumption
<1>5. HistoryDays \in 0 .. HistoryDays
  BY <1>4
<1>6. SumOfWeek(p) \in Nat
  BY <1>3, <1>5, WeekSum
<1>7. /\ Cardinality(p.done) \in 0 .. Cardinality(Goals) /\ IsFiniteSet(p.done)
      /\ Cardinality(p.done) \in Nat
  BY <1>2, SomeGoals
<1> QED BY <1>1, <1>2, <1>3, <1>6, <1>7 DEF PetRecords

(* What does not touch the counts. *)
LEMMA SameCounts ==
  ASSUME NEW p, GoodPet(p), NEW q \in PetRecords,
         q.goalHist = p.goalHist, q.done = p.done, q.total = p.total
  PROVE  GoodPet(q)
BY SameWeek DEF GoodPet

LEMMA EnergyNumbers == FullEnergy \in Nat /\ PerGoal \in Nat /\ PerHug \in Nat
BY PetAssumption

LEMMA NewPetIsGood == GoodPet(NewPet)
<1> DEFINE h == NewPet.goalHist
<1>0. HistoryDays \in Nat /\ Len(UnlockAt) \in Nat /\ Len(UnlockAt) > 0
  BY PetAssumption
<1>1. 0 \in Outfits /\ 0 \in 0 .. FullEnergy /\ 0 \in 0 .. Cardinality(Goals)
  BY <1>0, EnergyNumbers, SomeGoals DEF Outfits
<1>2. NewPet \in PetRecords /\ NewPet.done = {} /\ NewPet.total = 0
      /\ h = [i \in 1 .. HistoryDays |-> 0]
  BY <1>1 DEF NewPet, PetRecords
<1>3. h \in [1 .. HistoryDays -> Nat]
  BY <1>2
<1>4. PICK g : /\ IsSum(g, h, HistoryDays) /\ SumOfWeek(NewPet) = g[HistoryDays]
               /\ \A i \in 0 .. HistoryDays : g[i] \in Nat
  BY <1>3, WeekSum
<1> HIDE DEF h
<1>5. \A i \in 0 .. HistoryDays : g[i] = IF i = 0 THEN 0 ELSE g[i - 1] + h[i]
  BY <1>4 DEF IsSum
<1> DEFINE S == {m \in 0 .. HistoryDays : g[m] # 0}
<1>6. ASSUME S # {} PROVE FALSE
  <2>1. PICK m \in S : \A k \in S : m <= k
    <3>1. S \subseteq Nat
      OBVIOUS
    <3> HIDE DEF S
    <3> QED BY <1>6, <3>1, LeastNumber
  <2>2. m \in 1 .. HistoryDays
    BY <1>0, <1>5
  <2>3. m - 1 \in 0 .. HistoryDays /\ m - 1 \notin S
    <3>1. m - 1 \in 0 .. HistoryDays /\ ~(m <= m - 1)
      BY <1>0, <2>2
    <3> HIDE DEF S
    <3> QED BY <2>1, <3>1
  <2>4. g[m - 1] = 0 /\ h[m] = 0
    BY <1>2, <2>2, <2>3
  <2>5. m \in 0 .. HistoryDays /\ m # 0
    BY <2>2
  <2>6. g[m] = g[m - 1] + h[m]
    BY <1>5, <2>5
  <2>7. g[m] = 0
    BY <2>4, <2>6
  <2> QED BY <2>7
<1>7. HistoryDays \in 0 .. HistoryDays /\ HistoryDays \notin S
  BY <1>0, <1>6
<1>8. SumOfWeek(NewPet) = 0
  BY <1>4, <1>7
<1>9. Cardinality(NewPet.done) = 0
  BY <1>2, FS_EmptySet
<1> QED BY <1>2, <1>8, <1>9 DEF GoodPet

LEMMA NewDayIsGood ==
  ASSUME NEW p, GoodPet(p), NEW d \in Nat
  PROVE  GoodPet(NewDay(p, d))
<1> DEFINE q == NewDay(p, d)
           x == Cardinality(p.done)
<1>0. p \in PetRecords
  BY DEF GoodPet
<1>1. CASE p.day = d
  BY <1>1 DEF NewDay
<1>2. CASE p.day # d
  <2> DEFINE h == IF p.day = 0 THEN p.goalHist ELSE Moved(p.goalHist, x)
  <2>1. q = [p EXCEPT !.goalHist = h, !.day = d, !.done = {}, !.checkin = 0]
    BY <1>2 DEF NewDay, Moved, GoalsToday
  <2>2. IsMoved(0 .. Cardinality(Goals), p.goalHist, x)
    BY GoodFields, Shifted
  <2>3. h \in [1 .. HistoryDays -> 0 .. Cardinality(Goals)]
    BY <2>2, GoodFields DEF IsMoved
  <2> HIDE DEF h, q
  <2>4. q \in PetRecords
    <3>1. {} \in SUBSET Goals /\ 0 \in Nat
      OBVIOUS
    <3> QED BY <1>0, <2>1, <2>3, <3>1 DEF PetRecords
  <2>5. q.goalHist = h /\ q.done = {} /\ q.total = p.total
    BY <1>0, <2>1 DEF PetRecords
  <2>6. Cardinality(q.done) = 0
    BY <2>5, FS_EmptySet
  <2> HIDE DEF q
  <2>7. SumOfWeek(q) \in Nat /\ SumOfWeek(q) <= SumOfWeek(p) + x
    <3>1. CASE p.day = 0
      <4>1. SumOfWeek(q) = SumOfWeek(p)
        BY <2>5, <3>1, SameWeek DEF h
      <4> QED BY <4>1, GoodFields
    <3>2. CASE p.day # 0
      <4>1. q.goalHist = Moved(p.goalHist, x) /\ x \in Nat /\ p.goalHist \in [1 .. HistoryDays -> Nat]
        BY <2>5, <3>2, GoodFields DEF h
      <4> HIDE DEF x
      <4> QED BY <4>1, ShiftedSum
    <3> QED BY <3>1, <3>2
  <2>8. SumOfWeek(q) + Cardinality(q.done) <= q.total
    <3>1. SumOfWeek(p) + x <= p.total /\ p.total \in Nat /\ SumOfWeek(p) \in Nat /\ x \in Nat
      BY GoodFields
    <3> HIDE DEF x
    <3> QED BY <2>5, <2>6, <2>7, <3>1
  <2>9. GoodPet(q)
    BY <2>4, <2>8 DEF GoodPet
  <2> QED BY <2>9 DEF q
<1> QED BY <1>1, <1>2

LEMMA CompleteIsGood ==
  ASSUME NEW p, GoodPet(p), NEW g \in Goals
  PROVE  GoodPet(Complete(p, g))
<1> DEFINE q == Complete(p, g)
           e == IF p.energy + PerGoal > FullEnergy THEN FullEnergy ELSE p.energy + PerGoal
<1>0. p \in PetRecords
  BY DEF GoodPet
<1>1. CASE g \in p.done
  BY <1>1 DEF Complete
<1>2. CASE g \notin p.done
  <2>1. q = [p EXCEPT !.done = p.done \cup {g}, !.total = p.total + 1, !.energy = e]
    BY <1>2 DEF Complete
  <2>2. e \in 0 .. FullEnergy
    BY GoodFields, EnergyNumbers
  <2>3. p.total + 1 \in Nat /\ p.done \cup {g} \in SUBSET Goals
    BY GoodFields
  <2> HIDE DEF e
  <2>4. q \in PetRecords
    BY <1>0, <2>1, <2>2, <2>3 DEF PetRecords
  <2>5. q.goalHist = p.goalHist /\ q.done = p.done \cup {g} /\ q.total = p.total + 1
    BY <1>0, <2>1 DEF PetRecords
  <2> HIDE DEF q
  <2>6. Cardinality(q.done) = Cardinality(p.done) + 1
    BY <1>2, <2>5, GoodFields, FS_AddElement
  <2>7. SumOfWeek(q) = SumOfWeek(p)
    BY <2>5, SameWeek
  <2>8. SumOfWeek(q) + Cardinality(q.done) <= q.total
    BY <2>5, <2>6, <2>7, GoodFields
  <2> QED BY <2>4, <2>8 DEF GoodPet, q
<1> QED BY <1>1, <1>2

LEMMA UncompleteIsGood ==
  ASSUME NEW p, GoodPet(p), NEW g \in Goals
  PROVE  GoodPet(Uncomplete(p, g))
<1> DEFINE q == Uncomplete(p, g)
           e == IF p.energy < PerGoal THEN 0 ELSE p.energy - PerGoal
           t == IF p.total = 0 THEN 0 ELSE p.total - 1
<1>0. p \in PetRecords
  BY DEF GoodPet
<1>1. CASE g \notin p.done
  BY <1>1 DEF Uncomplete
<1>2. CASE g \in p.done
  <2>1. q = [p EXCEPT !.done = p.done \ {g}, !.total = t, !.energy = e]
    BY <1>2 DEF Uncomplete
  <2>2. e \in 0 .. FullEnergy
    BY GoodFields, EnergyNumbers
  <2>3. t \in Nat /\ p.done \ {g} \in SUBSET Goals /\ (p.total # 0 => t = p.total - 1)
    BY GoodFields
  <2> HIDE DEF e, t
  <2>4. q \in PetRecords
    BY <1>0, <2>1, <2>2, <2>3 DEF PetRecords
  <2>5. q.goalHist = p.goalHist /\ q.done = p.done \ {g} /\ q.total = t
    BY <1>0, <2>1 DEF PetRecords
  <2> HIDE DEF q
  <2>6. Cardinality(q.done) = Cardinality(p.done) - 1
    <3>1. IsFiniteSet(p.done)
      BY GoodFields
    <3>2. Cardinality(p.done \ {g}) = IF g \in p.done THEN Cardinality(p.done) - 1 ELSE Cardinality(p.done)
      BY <3>1, FS_RemoveElement
    <3> QED BY <1>2, <2>5, <3>2
  <2>7. SumOfWeek(q) = SumOfWeek(p)
    BY <2>5, SameWeek
  <2>8. Cardinality(q.done) \in Nat
    BY <2>4, SomeGoals DEF PetRecords
  <2>9. SumOfWeek(q) + Cardinality(q.done) <= q.total
    <3>1. /\ SumOfWeek(p) + Cardinality(p.done) <= p.total /\ SumOfWeek(p) \in Nat
          /\ Cardinality(p.done) \in Nat /\ p.total \in Nat
      BY GoodFields
    <3> QED BY <2>3, <2>5, <2>6, <2>7, <2>8, <3>1
  <2> QED BY <2>4, <2>9 DEF GoodPet, q
<1> QED BY <1>1, <1>2

LEMMA CheckInIsGood ==
  ASSUME NEW p, GoodPet(p), NEW face \in Nat
  PROVE  GoodPet(CheckIn(p, face))
<1> DEFINE q == [p EXCEPT !.checkin = face]
<1>1. q \in PetRecords /\ q.goalHist = p.goalHist /\ q.done = p.done /\ q.total = p.total
  BY DEF GoodPet, PetRecords
<1>2. GoodPet(q)
  BY <1>1, SameCounts
<1>3. CheckInGoal \in Goals
  BY DEF Goals
<1> HIDE DEF q
<1>4. GoodPet(Complete(q, CheckInGoal))
  BY <1>2, <1>3, CompleteIsGood
<1> QED BY <1>4 DEF CheckIn, q

LEMMA AdventureIsGood ==
  ASSUME NEW p, GoodPet(p)
  PROVE  GoodPet(Adventure(p))
<1> DEFINE q == [p EXCEPT !.energy = 0, !.adventures = p.adventures + 1]
<1>1. 0 \in 0 .. FullEnergy /\ p.adventures + 1 \in Nat
  BY GoodFields, EnergyNumbers
<1>2. q \in PetRecords /\ q.goalHist = p.goalHist /\ q.done = p.done /\ q.total = p.total
  BY <1>1 DEF GoodPet, PetRecords
<1>3. GoodPet(q)
  BY <1>2, SameCounts
<1> QED BY <1>3 DEF Adventure

LEMMA HugIsGood ==
  ASSUME NEW p, GoodPet(p)
  PROVE  GoodPet(Hug(p))
<1> DEFINE e == IF p.energy + PerHug > FullEnergy THEN FullEnergy ELSE p.energy + PerHug
           q == [p EXCEPT !.energy = e]
<1>1. e \in 0 .. FullEnergy
  BY GoodFields, EnergyNumbers
<1>0. Hug(p) = q
  BY DEF Hug
<1> HIDE DEF e
<1>2. q \in PetRecords /\ q.goalHist = p.goalHist /\ q.done = p.done /\ q.total = p.total
  BY <1>1 DEF GoodPet, PetRecords
<1>3. GoodPet(q)
  BY <1>2, SameCounts
<1> QED BY <1>0, <1>3

LEMMA IntroIsGood ==
  ASSUME NEW p, GoodPet(p)
  PROVE  GoodPet([p EXCEPT !.intro = TRUE])
<1> DEFINE q == [p EXCEPT !.intro = TRUE]
<1>2. q \in PetRecords /\ q.goalHist = p.goalHist /\ q.done = p.done /\ q.total = p.total
  BY DEF GoodPet, PetRecords
<1> QED BY <1>2, SameCounts

(* Round and round there is an outfit that was earned: outfit 0. *)
LEMMA NextOutfitIsGood ==
  ASSUME NEW p, GoodPet(p)
  PROVE  GoodPet(NextOutfit(p))
<1> DEFINE n == Len(UnlockAt)
           after(s) == (p.outfit + s) % n
           W == {s \in 1 .. n : Unlocked(p, after(s))}
           first == CHOOSE s \in 1 .. n : Unlocked(p, after(s)) /\ \A t \in 1 .. s - 1 : ~Unlocked(p, after(t))
           q == [p EXCEPT !.outfit = after(first)]
<1>0. n \in Nat /\ n > 0 /\ UnlockAt[1] = 0
  BY PetAssumption
<1>1. p.outfit \in 0 .. n - 1 /\ p.adventures \in Nat
  BY GoodFields DEF Outfits
<1>2. after(n - p.outfit) = 0
  <2>1. p.outfit + (n - p.outfit) = n
    BY <1>0, <1>1
  <2>2. n % n = 0
    BY <1>0
  <2> QED BY <2>1, <2>2
<1>3. n - p.outfit \in W
  <2>1. n - p.outfit \in 1 .. n
    BY <1>0, <1>1
  <2>2. Unlocked(p, 0)
    BY <1>0, <1>1 DEF Unlocked
  <2> QED BY <1>2, <2>1, <2>2
<1>4. PICK m \in W : \A s \in W : m <= s
  <2>1. W \subseteq Nat /\ W # {}
    BY <1>3
  <2> HIDE DEF W
  <2> QED BY <2>1, LeastNumber
<1>5. m \in 1 .. n /\ Unlocked(p, after(m)) /\ \A t \in 1 .. m - 1 : ~Unlocked(p, after(t))
  <2>1. m \in 1 .. n /\ Unlocked(p, after(m))
    BY <1>4
  <2>2. ASSUME NEW t \in 1 .. m - 1, Unlocked(p, after(t)) PROVE FALSE
    <3>1. t \in 1 .. n /\ ~(m <= t)
      BY <1>0, <2>1
    <3>2. t \in W
      BY <2>2, <3>1
    <3> QED BY <1>4, <3>1, <3>2
  <2> QED BY <2>1, <2>2
<1>6. first \in 1 .. n
  <2> HIDE DEF after
  <2> QED BY <1>5
<1>7. after(first) \in Outfits
  <2> HIDE DEF first
  <2>1. p.outfit + first \in Nat
    BY <1>1, <1>6
  <2>2. \A y \in Nat : y % n \in 0 .. n - 1
    BY <1>0
  <2> QED BY <2>1, <2>2 DEF Outfits
<1>8. NextOutfit(p) = q
  BY DEF NextOutfit
<1> HIDE DEF first, after
<1>9. q \in PetRecords /\ q.goalHist = p.goalHist /\ q.done = p.done /\ q.total = p.total
  BY <1>7 DEF GoodPet, PetRecords
<1>10. GoodPet(q)
  BY <1>9, SameCounts
<1> QED BY <1>8, <1>10

(* The app, with a good pet. *)
AppRecords ==
  [pet : {p \in PetRecords : GoodPet(p)}, loaded : BOOLEAN, dirty : BOOLEAN,
   screen : HootScreens, step : 0 .. 5]

WeekInv ==
  /\ hoot \in AppRecords /\ front \in BOOLEAN
  /\ GoodPet(kept) /\ GoodPet(handed) /\ unkept \in Nat

LEMMA AppFields ==
  ASSUME NEW h \in AppRecords
  PROVE  GoodPet(h.pet) /\ h.screen \in HootScreens /\ h.step \in 0 .. 5
BY DEF AppRecords

(* An assignment to a field. *)
LEMMA AppKept ==
  ASSUME NEW h \in AppRecords
  PROVE  /\ \A p : GoodPet(p) => With(h, p) \in AppRecords
         /\ \A s \in HootScreens : To(h, s) \in AppRecords
         /\ \A o \in 0 .. 5 : At(h, o) \in AppRecords
         /\ Changed(h) \in AppRecords /\ Clean(h) \in AppRecords
<1>1. ASSUME NEW p, GoodPet(p) PROVE With(h, p) \in AppRecords
  <2>1. p \in {q \in PetRecords : GoodPet(q)}
    BY <1>1 DEF GoodPet
  <2> QED BY <2>1 DEF With, AppRecords
<1>2. ASSUME NEW s \in HootScreens PROVE To(h, s) \in AppRecords
  BY DEF To, AppRecords
<1>3. ASSUME NEW o \in 0 .. 5 PROVE At(h, o) \in AppRecords
  BY DEF At, AppRecords
<1>4. Changed(h) \in AppRecords /\ Clean(h) \in AppRecords
  BY DEF Changed, Clean, AppRecords
<1> QED BY <1>1, <1>2, <1>3, <1>4

(* A changed pet, on this screen or another. *)
LEMMA PetKept ==
  ASSUME NEW h \in AppRecords, NEW p, GoodPet(p)
  PROVE  /\ Changed(With(h, p)) \in AppRecords
         /\ \A s \in HootScreens : Changed(To(With(h, p), s)) \in AppRecords
<1>1. With(h, p) \in AppRecords
  BY AppKept
<1>2. ASSUME NEW s \in HootScreens PROVE Changed(To(With(h, p), s)) \in AppRecords
  <2>1. To(With(h, p), s) \in AppRecords
    BY <1>1, AppKept
  <2> QED BY <2>1, AppKept
<1>3. Changed(With(h, p)) \in AppRecords
  BY <1>1, AppKept
<1> QED BY <1>2, <1>3

LEMMA SimulateKept ==
  ASSUME WeekInv, NEW today \in Nat, NEW flagged
  PROVE  Simulate(today, flagged) \in AppRecords
<1> DEFINE a == Loaded(hoot)
           b == Dated(a, today)
           c == Restarted(b, flagged)
           d == Focused(c, flagged)
           e == Hugged(d, flagged)
<1>0. "intro" \in HootScreens /\ 0 \in 0 .. 5 /\ FocusGoal \in Goals
  BY DEF HootScreens, Goals
<1>1. a \in AppRecords
  <2>1. With(hoot, kept) \in AppRecords
    BY AppKept DEF WeekInv
  <2>2. [With(hoot, kept) EXCEPT !.loaded = TRUE] \in AppRecords
    BY <2>1 DEF AppRecords
  <2> QED BY <2>2 DEF Loaded, WeekInv
<1> HIDE DEF a
<1>2. b \in AppRecords
  <2>1. GoodPet(NewDay(a.pet, today))
    BY <1>1, AppFields, NewDayIsGood
  <2> QED BY <1>1, <2>1, PetKept DEF Dated
<1> HIDE DEF b
<1>3. c \in AppRecords
  <2>1. With(b, NewPet) \in AppRecords
    BY <1>2, AppKept, NewPetIsGood
  <2>2. To(With(b, NewPet), "intro") \in AppRecords
    BY <1>0, <2>1, AppKept
  <2>3. At(To(With(b, NewPet), "intro"), 0) \in AppRecords
    BY <1>0, <2>2, AppKept
  <2>4. Changed(At(To(With(b, NewPet), "intro"), 0)) \in AppRecords
    BY <2>3, AppKept
  <2> QED BY <1>2, <2>4 DEF Restarted
<1> HIDE DEF c
<1>4. d \in AppRecords
  <2>1. GoodPet(Complete(c.pet, FocusGoal))
    BY <1>0, <1>3, AppFields, CompleteIsGood
  <2> QED BY <1>3, <2>1, PetKept DEF Focused
<1> HIDE DEF d
<1>5. e \in AppRecords
  <2>1. GoodPet(Hug(d.pet))
    BY <1>4, AppFields, HugIsGood
  <2> QED BY <1>4, <2>1, PetKept DEF Hugged
<1>6. Simulate(today, flagged) = e
  BY DEF Simulate, a, b, c, d
<1> QED BY <1>5, <1>6

LEMMA FrameKept ==
  ASSUME NEW h \in AppRecords, NEW k
  PROVE  ScreenFrame(h, k) \in AppRecords
<1>0. {"home", "checkin", "breathe", "adventure", "week", "intro"} \subseteq HootScreens
  BY DEF HootScreens
<1>1. IntroFrame(h, k) \in AppRecords
  <2>1. h.step \in {0, 1, 2, 3, 4} => At(h, h.step + 1) \in AppRecords
    BY AppKept
  <2>2. GoodPet([h.pet EXCEPT !.intro = TRUE])
    BY AppFields, IntroIsGood
  <2>3. Changed(To(With(h, [h.pet EXCEPT !.intro = TRUE]), "home")) \in AppRecords
    BY <1>0, <2>2, PetKept
  <2>4. (h.step \in {0, 3, 4} \/ h.step \in {1, 2}) => h.step \in {0, 1, 2, 3, 4}
    OBVIOUS
  <2> QED BY <2>1, <2>3, <2>4, Zenon DEF IntroFrame
<1>2. HomeFrame(h, k) \in AppRecords
  <2>1. TickGoal(h, k) \in AppRecords \/ k \notin L
    <3>1. CASE k \in L
      <4>1. GoodPet(Complete(h.pet, k)) /\ GoodPet(Uncomplete(h.pet, k))
        BY <3>1, AppFields, CompleteIsGood, UncompleteIsGood DEF L
      <4>2. /\ Changed(With(h, Complete(h.pet, k))) \in AppRecords
            /\ Changed(With(h, Uncomplete(h.pet, k))) \in AppRecords
        BY <4>1, PetKept
      <4>3. To(h, "checkin") \in AppRecords /\ To(h, "breathe") \in AppRecords
        BY <1>0, AppKept
      <4> QED BY <4>2, <4>3 DEF TickGoal
    <3> QED BY <3>1
  <2>2. Dressed(h) \in AppRecords
    <3>1. GoodPet(NextOutfit(h.pet))
      BY AppFields, NextOutfitIsGood
    <3> QED BY <3>1, PetKept DEF Dressed
  <2>3. Flies(h) \in AppRecords
    <3>1. GoodPet(Adventure(h.pet))
      BY AppFields, AdventureIsGood
    <3> QED BY <1>0, <3>1, PetKept DEF Flies
  <2>4. To(h, "week") \in AppRecords
    BY <1>0, AppKept
  <2> QED BY <2>1, <2>2, <2>3, <2>4 DEF HomeFrame
<1>3. CheckInFrame(h, k) \in AppRecords
  <2>1. GoodPet(CheckIn(h.pet, Face))
    BY AppFields, CheckInIsGood DEF Face
  <2>2. Changed(To(With(h, CheckIn(h.pet, Face)), "home")) \in AppRecords
    BY <1>0, <2>1, PetKept
  <2>3. To(h, "home") \in AppRecords
    BY <1>0, AppKept
  <2> QED BY <2>2, <2>3 DEF CheckInFrame
<1>4. BreatheFrame(h, k) \in AppRecords
  <2>1. GoodPet(Complete(h.pet, BreatheGoal))
    BY AppFields, CompleteIsGood DEF Goals
  <2>2. Changed(To(With(h, Complete(h.pet, BreatheGoal)), "home")) \in AppRecords
    BY <1>0, <2>1, PetKept
  <2>3. To(h, "home") \in AppRecords
    BY <1>0, AppKept
  <2> QED BY <2>2, <2>3 DEF BreatheFrame
<1>5. AdventureFrame(h, k) \in AppRecords /\ WeekFrame(h, k) \in AppRecords
  BY <1>0, AppKept DEF AdventureFrame, WeekFrame
<1> QED BY <1>1, <1>2, <1>3, <1>4, <1>5 DEF ScreenFrame

LEMMA SaveKept ==
  ASSUME WeekInv, NEW p, GoodPet(p), SaveInto(p) \/ KeepNothing
  PROVE  GoodPet(kept') /\ GoodPet(handed') /\ unkept' \in Nat
BY DEF SaveInto, KeepNothing, WeekInv

LEMMA WeekStep ==
  ASSUME WeekInv, HootFrame
  PROVE  WeekInv'
<1>1. PICK today \in {hoot.pet.day} \cup 1 .. MaxDay,
          flagged \in {{}} \cup {{f} : f \in Flags} :
        LET h == Simulate(today, flagged)
        IN \/ HootBackground(h) \/ HootEnter(h) \/ HootExit(h)
           \/ \E k : HootUpdate(h, k)
  BY DEF HootFrame
<1> DEFINE h == Simulate(today, flagged)
<1>2. today \in Nat
  <2>1. hoot.pet.day \in Nat
    <3>1. GoodPet(hoot.pet)
      BY AppFields DEF WeekInv
    <3> QED BY <3>1, GoodFields
  <2>2. MaxDay \in Nat
    BY HootAssumption
  <2> QED BY <2>1, <2>2
<1>3. h \in AppRecords
  BY <1>2, SimulateKept
<1> HIDE DEF h
<1>4. \/ HootBackground(h) \/ HootEnter(h) \/ HootExit(h)
      \/ \E k : HootUpdate(h, k)
  BY <1>1 DEF h
<1>5. /\ Clean(h) \in AppRecords /\ GoodPet(h.pet)
      /\ "home" \in HootScreens /\ "intro" \in HootScreens /\ 0 \in 0 .. 5
  BY <1>3, AppKept, AppFields DEF HootScreens
<1>6. GoodPet(kept') /\ GoodPet(handed') /\ unkept' \in Nat
  <2>1. SaveInto(h.pet) \/ KeepNothing
    BY <1>4 DEF HootBackground, HootEnter, HootUpdate, HootExit, SaveOrNot
  <2> QED BY <1>5, <2>1, SaveKept
<1>7. hoot' \in AppRecords /\ front' \in BOOLEAN
  <2>0. front \in BOOLEAN
    BY DEF WeekInv
  <2>1. CASE HootBackground(h)
    BY <1>3, <1>5, <2>0, <2>1 DEF HootBackground
  <2>2. CASE HootEnter(h)
    <3>1. PICK a \in {h, Clean(h)} :
            hoot' = IF a.pet.intro THEN To(a, "home") ELSE At(To(a, "intro"), 0)
      BY <2>2 DEF HootEnter
    <3>2. a \in AppRecords
      BY <1>3, <1>5
    <3>3. To(a, "home") \in AppRecords /\ To(a, "intro") \in AppRecords
      BY <1>5, <3>2, AppKept
    <3>4. At(To(a, "intro"), 0) \in AppRecords
      BY <1>5, <3>3, AppKept
    <3> QED BY <2>2, <3>1, <3>3, <3>4 DEF HootEnter
  <2>3. CASE HootExit(h)
    BY <1>5, <2>3 DEF HootExit
  <2>4. ASSUME NEW k, HootUpdate(h, k) PROVE hoot' \in AppRecords /\ front' \in BOOLEAN
    <3>1. PICK a \in {h, Clean(h)} : hoot' = ScreenFrame(a, k)
      BY <2>4 DEF HootUpdate
    <3>2. a \in AppRecords
      BY <1>3, <1>5
    <3> QED BY <2>0, <2>4, <3>1, <3>2, FrameKept DEF HootUpdate
  <2> QED BY <1>4, <2>1, <2>2, <2>3, <2>4
<1> QED BY <1>6, <1>7 DEF WeekInv

LEMMA NewAppKept == NewApp \in AppRecords
<1>1. NewPet \in {p \in PetRecords : GoodPet(p)}
  BY NewPetIsGood DEF GoodPet
<1> QED BY <1>1 DEF NewApp, AppRecords, HootScreens

(* The pets on screen, in flash and last handed to the flash are good.     *)
THEOREM WeekInvariant == HootSpec => []WeekInv
<1>1. HootInit => WeekInv
  <2> SUFFICES ASSUME HootInit PROVE WeekInv
    OBVIOUS
  <2>1. hoot = NewApp /\ kept = NewPet /\ handed = NewPet /\ front = FALSE /\ unkept = 0
    BY DEF HootInit
  <2>2. GoodPet(kept) /\ GoodPet(handed) /\ unkept \in Nat
    BY <2>1, NewPetIsGood
  <2> QED BY <2>1, <2>2, NewAppKept DEF WeekInv
<1>2. WeekInv /\ [HootNext]_hootVars => WeekInv'
  <2> SUFFICES ASSUME WeekInv, [HootNext]_hootVars PROVE WeekInv'
    OBVIOUS
  <2>1. CASE HootFrame
    BY <2>1, WeekStep
  <2>2. CASE HootReboot
    BY <2>2, NewAppKept DEF HootReboot, WeekInv
  <2>3. CASE UNCHANGED hootVars
    BY <2>3 DEF hootVars, WeekInv
  <2> QED BY <2>1, <2>2, <2>3 DEF HootNext
<1> QED BY <1>1, <1>2, PTL DEF HootSpec

(* The goals of the week are in the all-time count, whatever the goals,    *)
(* the days, the clock and the saves (pet.rs goal_hist, goals_total).      *)
THEOREM WeekAddsUp == HootSpec => []GoalsAddUp
<1>1. WeekInv => GoalsAddUp
  BY AppFields DEF WeekInv, GoodPet, GoalsAddUp, GoalsToday
<1> QED BY <1>1, WeekInvariant, PTL

(* Energy, outfit, history and the screens of the app stay in their types. *)
THEOREM HootTypeCorrect == HootSpec => []HootTypeOK
<1>1. \A p : GoodPet(p) => PetOK(p)
  <2> SUFFICES ASSUME NEW p, GoodPet(p) PROVE PetOK(p)
    OBVIOUS
  <2>1. p.intro \in BOOLEAN
    BY DEF GoodPet, PetRecords
  <2> QED BY <2>1, GoodFields DEF PetOK
<1>2. WeekInv => HootTypeOK
  BY <1>1, AppFields DEF WeekInv, HootTypeOK
<1> QED BY <1>2, WeekInvariant, PTL

-----------------------------------------------------------------------------
(* Records: for any layout, the record of an older firmware is read right. *)

(* What of sizes is first, added up. *)
LEMMA SizeFacts ==
  ASSUME NEW s \in Seq(Nat)
  PROVE  /\ Len(s) \in Nat /\ SizeOf(s, 0) = 0
         /\ \A k \in 1 .. Len(s) : SizeOf(s, k) = SizeOf(s, k - 1) + s[k]
         /\ \A k \in 0 .. Len(s) : SizeOf(s, k) \in Nat
         /\ \A k \in 1 .. Len(s) : s[k] \in Nat
<1> DEFINE n == Len(s)
           f == CHOOSE g : g = [i \in 0 .. Len(s) |-> IF i = 0 THEN 0 ELSE g[i - 1] + s[i]]
<1>0. n \in Nat /\ s \in [1 .. n -> Nat]
  OBVIOUS
<1>1. \A k : SizeOf(s, k) = f[k]
  BY DEF SizeOf
<1>2. IsSum(f, s, n)
  <2>1. \E g : IsSum(g, s, n)
    BY <1>0, SumExists
  <2> QED BY <2>1 DEF IsSum
<1> HIDE DEF f
<1>3. \A i \in 0 .. n : f[i] \in Nat
  BY <1>0, <1>2, SumsAreNumbers
<1> HIDE DEF n
<1>4. \A i \in 0 .. n : f[i] = IF i = 0 THEN 0 ELSE f[i - 1] + s[i]
  BY <1>2 DEF IsSum
<1>5. f[0] = 0 /\ \A k \in 1 .. n : f[k] = f[k - 1] + s[k]
  BY <1>0, <1>4
<1>6. \A k \in 1 .. n : s[k] \in Nat
  BY <1>0
<1> QED BY <1>0, <1>1, <1>3, <1>5, <1>6 DEF n

(* More parts are not shorter. *)
LEMMA SizeGrows ==
  ASSUME NEW s \in Seq(Nat), NEW j \in 0 .. Len(s), NEW k \in 0 .. Len(s), j <= k
  PROVE  SizeOf(s, j) <= SizeOf(s, k)
<1> DEFINE size(m) == SizeOf(s, m)
           S == {m \in 0 .. Len(s) : j <= m /\ ~(size(j) <= size(m))}
<1>0. /\ Len(s) \in Nat /\ \A m \in 1 .. Len(s) : size(m) = size(m - 1) + s[m] /\ s[m] \in Nat
      /\ \A m \in 0 .. Len(s) : size(m) \in Nat
  BY SizeFacts
<1> HIDE DEF size
<1>1. ASSUME S # {} PROVE FALSE
  <2>1. PICK m \in S : \A l \in S : m <= l
    <3>1. S \subseteq Nat
      OBVIOUS
    <3> HIDE DEF S
    <3> QED BY <1>1, <3>1, LeastNumber
  <2>2. m # j
    BY <1>0
  <2>3. m \in 1 .. Len(s) /\ m - 1 \in 0 .. Len(s) /\ j <= m - 1 /\ ~(m <= m - 1)
    BY <1>0, <2>2
  <2>4. m - 1 \notin S
    <3> HIDE DEF S
    <3> QED BY <2>1, <2>3
  <2>5. size(j) <= size(m - 1)
    BY <2>3, <2>4
  <2>6. /\ size(m) = size(m - 1) + s[m] /\ s[m] \in Nat
        /\ size(m) \in Nat /\ size(m - 1) \in Nat /\ size(j) \in Nat
    BY <1>0, <2>3
  <2>7. size(j) <= size(m)
    BY <2>5, <2>6
  <2> QED BY <2>7
<1>2. k \notin S
  BY <1>1
<1> QED BY <1>2 DEF size

LEMMA LayoutIsSeq ==
  /\ Len(Layout) \in Nat /\ DOMAIN Layout = 1 .. Len(Layout)
  /\ \A i \in 1 .. Len(Layout) : Layout[i].sizes \in Seq(Nat \ {0})
<1> DEFINE F == [kind : {"number", "string", "pet"}, sizes : Seq(Nat \ {0})]
<1>1. Layout \in Seq(F)
  BY RecordAssumption
<1>2. \A x \in F : x.sizes \in Seq(Nat \ {0})
  OBVIOUS
<1> HIDE DEF F
<1>3. Len(Layout) \in Nat /\ DOMAIN Layout = 1 .. Len(Layout) /\ \A i \in 1 .. Len(Layout) : Layout[i] \in F
  BY <1>1
<1> QED BY <1>2, <1>3

(* A field has parts, and each has a length. *)
LEMMA FieldFacts ==
  ASSUME NEW i \in 1 .. Len(Layout)
  PROVE  /\ Layout[i].sizes \in Seq(Nat) /\ Len(Layout[i].sizes) > 0
         /\ \A k \in 1 .. Len(Layout[i].sizes) : Layout[i].sizes[k] > 0
<1>1. Layout[i].sizes \in Seq(Nat \ {0}) /\ i \in DOMAIN Layout
  BY LayoutIsSeq
<1>2. Layout[i].sizes \in Seq(Nat \ {0}) /\ Layout[i].sizes # <<>>
  BY <1>1, RecordAssumption
<1> DEFINE s == Layout[i].sizes
<1> HIDE DEF s
<1>3. s \in Seq(Nat \ {0}) /\ s # <<>>
  BY <1>2 DEF s
<1>4. s \in Seq(Nat) /\ Len(s) > 0 /\ \A k \in 1 .. Len(s) : s[k] > 0
  <2>1. Len(s) > 0 /\ \A k \in 1 .. Len(s) : s[k] \in Nat \ {0}
    BY <1>3
  <2>2. s \in Seq(Nat)
    BY <1>3
  <2> QED BY <2>1, <2>2
<1> QED BY <1>4 DEF s

(* The length of field i, and where the fields start. *)
Whole(i) == SizeOf(Layout[i].sizes, Len(Layout[i].sizes))

LEMMA FieldStarts ==
  /\ Len(Layout) \in Nat /\ StartOf(1) = 0
  /\ \A i \in 1 .. Len(Layout) + 1 : StartOf(i) \in Nat
  /\ \A i \in 1 .. Len(Layout) : Whole(i) \in Nat /\ StartOf(i + 1) = StartOf(i) + Whole(i)
  /\ \A i, j \in 1 .. Len(Layout) + 1 : i <= j => StartOf(i) <= StartOf(j)
<1>0. Len(Layout) \in Nat
  BY LayoutIsSeq
<1>1. \A i \in 1 .. Len(Layout) : Whole(i) \in Nat
  <2> SUFFICES ASSUME NEW i \in 1 .. Len(Layout) PROVE Whole(i) \in Nat
    OBVIOUS
  <2> DEFINE s == Layout[i].sizes
  <2>1. s \in Seq(Nat)
    BY FieldFacts
  <2> HIDE DEF s
  <2>2. Len(s) \in 0 .. Len(s)
    BY <2>1
  <2>3. SizeOf(s, Len(s)) \in Nat
    BY <2>1, <2>2, SizeFacts
  <2> QED BY <2>3 DEF Whole, s
<1>2. FieldSizes = [i \in 1 .. Len(Layout) |-> Whole(i)]
  BY DEF FieldSizes, Whole
<1>3. FieldSizes \in [1 .. Len(Layout) -> Nat]
  BY <1>1, <1>2
<1>4. FieldSizes \in Seq(Nat) /\ Len(FieldSizes) = Len(Layout)
  BY <1>0, <1>3
<1>5. \A i \in 1 .. Len(Layout) : FieldSizes[i] = Whole(i)
  BY <1>2
<1> DEFINE size(k) == SizeOf(FieldSizes, k)
<1>6. /\ size(0) = 0
      /\ \A k \in 1 .. Len(Layout) : size(k) = size(k - 1) + FieldSizes[k]
      /\ \A k \in 0 .. Len(Layout) : size(k) \in Nat
  BY <1>4, SizeFacts
<1>7. \A j, k \in 0 .. Len(Layout) : j <= k => size(j) <= size(k)
  BY <1>4, SizeGrows
<1>8. \A i : StartOf(i) = size(i - 1)
  BY DEF StartOf
<1> HIDE DEF size
<1>9. StartOf(1) = 0
  BY <1>6, <1>8
<1>10. \A i \in 1 .. Len(Layout) + 1 : i - 1 \in 0 .. Len(Layout)
  BY <1>0
<1>11. \A i \in 1 .. Len(Layout) + 1 : StartOf(i) \in Nat
  BY <1>6, <1>8, <1>10
<1>12. ASSUME NEW i \in 1 .. Len(Layout) PROVE StartOf(i + 1) = StartOf(i) + Whole(i)
  <2>1. (i + 1) - 1 = i
    BY <1>0
  <2> QED BY <1>5, <1>6, <1>8, <2>1
<1>13. ASSUME NEW i \in 1 .. Len(Layout) + 1, NEW j \in 1 .. Len(Layout) + 1, i <= j
       PROVE  StartOf(i) <= StartOf(j)
  <2>1. i - 1 \in 0 .. Len(Layout) /\ j - 1 \in 0 .. Len(Layout) /\ i - 1 <= j - 1
    BY <1>0, <1>13
  <2> QED BY <1>7, <1>8, <2>1
<1>14. \A i, j \in 1 .. Len(Layout) + 1 : i <= j => StartOf(i) <= StartOf(j)
  BY <1>13
<1>15. \A i \in 1 .. Len(Layout) : StartOf(i + 1) = StartOf(i) + Whole(i)
  BY <1>12
<1> QED BY <1>0, <1>1, <1>9, <1>11, <1>14, <1>15

(* The parts of a field are read until one is missing. *)
IsRead(at, sizes, pos, n) ==
  at = [k \in 0 .. n |-> IF k = 0 THEN [ok |-> TRUE, pos |-> pos]
                         ELSE IF at[k - 1].ok THEN Take4(at[k - 1].pos, sizes[k]) ELSE at[k - 1]]

LEMMA ReadExists ==
  ASSUME NEW sizes, NEW pos, NEW n \in Nat
  PROVE  \E at : IsRead(at, sizes, pos, n)
<1> DEFINE S == {m \in Nat : ~ \E at : IsRead(at, sizes, pos, m)}
           next(at, m) == IF at[m - 1].ok THEN Take4(at[m - 1].pos, sizes[m]) ELSE at[m - 1]
<1>1. ASSUME S # {} PROVE FALSE
  <2>1. PICK m \in S : \A k \in S : m <= k
    <3>1. S \subseteq Nat
      OBVIOUS
    <3> HIDE DEF S
    <3> QED BY <1>1, <3>1, LeastNumber
  <2>2. CASE m = 0
    <3> DEFINE at == [k \in 0 .. 0 |-> [ok |-> TRUE, pos |-> pos]]
    <3>1. at = [k \in 0 .. 0 |-> IF k = 0 THEN [ok |-> TRUE, pos |-> pos] ELSE next(at, k)]
      OBVIOUS
    <3>2. IsRead(at, sizes, pos, 0)
      BY <3>1 DEF IsRead
    <3> HIDE DEF at
    <3> QED BY <2>2, <3>2
  <2>3. CASE m # 0
    <3>1. m - 1 \in Nat /\ m - 1 \notin S
      BY <2>1, <2>3
    <3>2. PICK f : IsRead(f, sizes, pos, m - 1)
      BY <3>1
    <3> DEFINE at == [k \in 0 .. m |-> IF k = m THEN next(f, m) ELSE f[k]]
    <3>3. \A k \in 0 .. m - 1 : f[k] = IF k = 0 THEN [ok |-> TRUE, pos |-> pos] ELSE next(f, k)
      BY <3>2 DEF IsRead
    <3>4. \A k \in 0 .. m : at[k] = IF k = 0 THEN [ok |-> TRUE, pos |-> pos] ELSE next(at, k)
      <4> SUFFICES ASSUME NEW k \in 0 .. m
                   PROVE  at[k] = IF k = 0 THEN [ok |-> TRUE, pos |-> pos] ELSE next(at, k)
        OBVIOUS
      <4>1. k # 0 => k - 1 \in 0 .. m /\ k - 1 # m
        BY <3>1
      <4>2. k # 0 => at[k - 1] = f[k - 1]
        BY <4>1
      <4>3. CASE k = m
        BY <2>3, <4>2, <4>3
      <4>4. CASE k # m
        <5>1. k \in 0 .. m - 1 /\ at[k] = f[k]
          BY <3>1, <4>4
        <5> HIDE DEF at
        <5> QED BY <3>3, <4>2, <5>1
      <4> QED BY <4>3, <4>4
    <3>5. at = [k \in 0 .. m |-> at[k]]
      OBVIOUS
    <3> HIDE DEF at
    <3>6. at = [k \in 0 .. m |-> IF k = 0 THEN [ok |-> TRUE, pos |-> pos] ELSE next(at, k)]
      <4> HIDE DEF next
      <4> QED BY <3>4, <3>5
    <3>7. IsRead(at, sizes, pos, m)
      BY <3>6 DEF IsRead
    <3> QED BY <3>7
  <2> QED BY <2>2, <2>3
<1>2. S = {}
  BY <1>1
<1> QED BY <1>2

(* Where the reader is after n parts of a field that starts at pos: past   *)
(* them all, or before the first that is missing.                          *)
PartsRead(at, sizes, pos, n) ==
  \/ at.ok /\ at.pos = pos + SizeOf(sizes, n) /\ at.pos <= record.len
  \/ /\ ~at.ok
     /\ \E j \in 0 .. n - 1 : /\ at.pos = pos + SizeOf(sizes, j) /\ at.pos <= record.len
                              /\ record.len < pos + SizeOf(sizes, j + 1)

LEMMA OneMorePart ==
  ASSUME NEW at, NEW sizes \in Seq(Nat), NEW pos \in Nat, NEW n \in 1 .. Len(sizes),
         record.len \in Nat, PartsRead(at, sizes, pos, n - 1)
  PROVE  PartsRead(IF at.ok THEN Take4(at.pos, sizes[n]) ELSE at, sizes, pos, n)
<1> DEFINE next == IF at.ok THEN Take4(at.pos, sizes[n]) ELSE at
           size(k) == SizeOf(sizes, k)
<1>1. size(n) = size(n - 1) + sizes[n] /\ size(n - 1) \in Nat /\ sizes[n] \in Nat /\ size(n) \in Nat
  <2>1. n - 1 \in 0 .. Len(sizes) /\ n \in 0 .. Len(sizes)
    OBVIOUS
  <2> QED BY <2>1, SizeFacts
<1>2. \/ at.ok /\ at.pos = pos + size(n - 1) /\ at.pos <= record.len
      \/ /\ ~at.ok
         /\ \E j \in 0 .. n - 2 : /\ at.pos = pos + size(j) /\ at.pos <= record.len
                                  /\ record.len < pos + size(j + 1)
  <2>1. (n - 1) - 1 = n - 2
    OBVIOUS
  <2> QED BY <2>1 DEF PartsRead
<1> HIDE DEF size
<1>3. \/ next.ok /\ next.pos = pos + size(n) /\ next.pos <= record.len
      \/ /\ ~next.ok
         /\ \E j \in 0 .. n - 1 : /\ next.pos = pos + size(j) /\ next.pos <= record.len
                                  /\ record.len < pos + size(j + 1)
  <2>1. CASE ~at.ok
    <3>1. next = at /\ \A j \in 0 .. n - 2 : j \in 0 .. n - 1
      BY <2>1
    <3> HIDE DEF next
    <3> QED BY <1>2, <2>1, <3>1
  <2>2. CASE at.ok
    <3>1. next = Take4(at.pos, sizes[n]) /\ at.pos = pos + size(n - 1) /\ at.pos <= record.len
      BY <1>2, <2>2
    <3> HIDE DEF next
    <3>2. at.pos + sizes[n] = pos + size(n)
      BY <1>1, <3>1
    <3>3. CASE at.pos + sizes[n] <= record.len
      BY <3>1, <3>2, <3>3 DEF Take4
    <3>4. CASE ~(at.pos + sizes[n] <= record.len)
      <4>1. ~next.ok /\ next.pos = at.pos
        BY <3>1, <3>4 DEF Take4
      <4>2. record.len < pos + size(n) /\ n - 1 \in 0 .. n - 1 /\ (n - 1) + 1 = n
        BY <1>1, <3>2, <3>4
      <4> QED BY <3>1, <4>1, <4>2
    <3> QED BY <3>3, <3>4
  <2> QED BY <2>1, <2>2
<1> HIDE DEF next
<1>4. PartsRead(next, sizes, pos, n)
  BY <1>3 DEF PartsRead, size
<1> QED BY <1>4 DEF next

LEMMA TakeAllFacts ==
  ASSUME NEW sizes \in Seq(Nat), NEW pos \in Nat, record.len \in Nat, pos <= record.len
  PROVE  PartsRead(TakeAll(sizes, pos), sizes, pos, Len(sizes))
<1> DEFINE n == Len(sizes)
           at == CHOOSE f : f = [k \in 0 .. Len(sizes) |->
                   IF k = 0 THEN [ok |-> TRUE, pos |-> pos]
                   ELSE IF f[k - 1].ok THEN Take4(f[k - 1].pos, sizes[k]) ELSE f[k - 1]]
           S == {m \in 0 .. n : ~PartsRead(at[m], sizes, pos, m)}
<1>0. n \in Nat /\ SizeOf(sizes, 0) = 0
  BY SizeFacts
<1>1. TakeAll(sizes, pos) = at[n]
  BY DEF TakeAll
<1>2. IsRead(at, sizes, pos, n)
  <2>1. \E f : IsRead(f, sizes, pos, n)
    BY <1>0, ReadExists
  <2> QED BY <2>1 DEF IsRead
<1> HIDE DEF at
<1>3. \A k \in 0 .. n : at[k] = IF k = 0 THEN [ok |-> TRUE, pos |-> pos]
                                ELSE IF at[k - 1].ok THEN Take4(at[k - 1].pos, sizes[k]) ELSE at[k - 1]
  BY <1>2 DEF IsRead
<1>4. ASSUME S # {} PROVE FALSE
  <2>1. PICK m \in S : \A l \in S : m <= l
    <3>1. S \subseteq Nat
      OBVIOUS
    <3> HIDE DEF S
    <3> QED BY <1>4, <3>1, LeastNumber
  <2>2. m \in 0 .. n /\ ~PartsRead(at[m], sizes, pos, m)
    OBVIOUS
  <2>3. CASE m = 0
    <3>1. at[m] = [ok |-> TRUE, pos |-> pos]
      BY <1>3, <2>2, <2>3
    <3>2. at[m].ok /\ at[m].pos = pos
      BY <3>1
    <3>3. pos = pos + SizeOf(sizes, m)
      BY <1>0, <2>3
    <3> QED BY <2>2, <3>2, <3>3 DEF PartsRead
  <2>4. CASE m # 0
    <3>1. m \in 1 .. Len(sizes) /\ m - 1 \in 0 .. n /\ ~(m <= m - 1)
      BY <1>0, <2>2, <2>4
    <3>2. m - 1 \notin S
      <4> HIDE DEF S
      <4> QED BY <2>1, <3>1
    <3>3. PartsRead(at[m - 1], sizes, pos, m - 1)
      BY <3>1, <3>2
    <3>4. at[m] = IF at[m - 1].ok THEN Take4(at[m - 1].pos, sizes[m]) ELSE at[m - 1]
      BY <1>3, <2>2, <2>4
    <3>5. PartsRead(at[m], sizes, pos, m)
      <4> DEFINE b == at[m - 1]
      <4>1. PartsRead(b, sizes, pos, m - 1) /\ at[m] = IF b.ok THEN Take4(b.pos, sizes[m]) ELSE b
        BY <3>3, <3>4
      <4> HIDE DEF b
      <4> QED BY <3>1, <4>1, OneMorePart
    <3> QED BY <2>2, <3>5
  <2> QED BY <2>3, <2>4
<1>5. n \in 0 .. n /\ n \notin S
  BY <1>0, <1>4
<1> QED BY <1>1, <1>5

(* A record that ends in a field ends after some of its parts. *)
LEMMA EndsInField ==
  ASSUME NEW e \in Ends, NEW i \in 1 .. Len(Layout), StartOf(i) <= e, e < StartOf(i + 1)
  PROVE  /\ e \in Nat
         /\ \E k \in 0 .. Len(Layout[i].sizes) : e = StartOf(i) + SizeOf(Layout[i].sizes, k)
<1>0. /\ Len(Layout) \in Nat /\ i \in 1 .. Len(Layout) + 1 /\ i + 1 \in 1 .. Len(Layout) + 1
      /\ StartOf(i) \in Nat /\ StartOf(i + 1) \in Nat
  <2>1. Len(Layout) \in Nat
    BY FieldStarts
  <2>2. i \in 1 .. Len(Layout) + 1 /\ i + 1 \in 1 .. Len(Layout) + 1
    BY <2>1
  <2> QED BY <2>1, <2>2, FieldStarts
<1>1. SizeOf(Layout[i].sizes, 0) = 0 /\ 0 \in 0 .. Len(Layout[i].sizes)
  <2> DEFINE s == Layout[i].sizes
  <2>1. s \in Seq(Nat)
    BY FieldFacts
  <2> HIDE DEF s
  <2>2. SizeOf(s, 0) = 0 /\ 0 \in 0 .. Len(s)
    BY <2>1, SizeFacts
  <2> QED BY <2>2 DEF s
<1>2. ASSUME e = StartOf(i)
      PROVE  \E k \in 0 .. Len(Layout[i].sizes) : e = StartOf(i) + SizeOf(Layout[i].sizes, k)
  <2>1. e = StartOf(i) + SizeOf(Layout[i].sizes, 0)
    BY <1>0, <1>1, <1>2
  <2> QED BY <1>1, <2>1
<1>3. CASE e \in {StartOf(j) : j \in 1 .. Len(Layout) + 1}
  <2>1. PICK j \in 1 .. Len(Layout) + 1 : e = StartOf(j)
    BY <1>3
  <2>2. StartOf(j) \in Nat
    BY FieldStarts
  <2>3. CASE j <= i
    <3>1. StartOf(j) <= StartOf(i)
      BY <1>0, <2>3, FieldStarts
    <3> QED BY <1>0, <1>2, <2>1, <2>2, <3>1
  <2>4. CASE ~(j <= i)
    <3>1. i + 1 <= j
      BY <1>0, <2>4
    <3>2. StartOf(i + 1) <= StartOf(j)
      BY <1>0, <3>1, FieldStarts
    <3> QED BY <1>0, <2>1, <2>2, <3>2
  <2> QED BY <2>3, <2>4
<1>4. CASE e \notin {StartOf(j) : j \in 1 .. Len(Layout) + 1}
  <2>1. PICK j \in DOMAIN Layout :
          \E k \in 1 .. Len(Layout[j].sizes) : e = StartOf(j) + SizeOf(Layout[j].sizes, k)
    BY <1>4 DEF Ends
  <2>2. PICK k \in 1 .. Len(Layout[j].sizes) : e = StartOf(j) + SizeOf(Layout[j].sizes, k)
    BY <2>1
  <2>3. /\ j \in 1 .. Len(Layout) /\ j \in 1 .. Len(Layout) + 1 /\ j + 1 \in 1 .. Len(Layout) + 1
        /\ StartOf(j) \in Nat /\ StartOf(j + 1) = StartOf(j) + Whole(j)
    <3>1. j \in 1 .. Len(Layout)
      BY LayoutIsSeq
    <3>2. j \in 1 .. Len(Layout) + 1 /\ j + 1 \in 1 .. Len(Layout) + 1
      BY <1>0, <3>1
    <3> QED BY <3>1, <3>2, FieldStarts
  <2>4. SizeOf(Layout[j].sizes, k) \in Nat /\ SizeOf(Layout[j].sizes, k) <= Whole(j) /\ Whole(j) \in Nat
    <3> DEFINE s == Layout[j].sizes
    <3>1. s \in Seq(Nat)
      BY <2>3, FieldFacts
    <3>2. k \in 1 .. Len(s)
      BY <2>2
    <3> HIDE DEF s
    <3>3. k \in 0 .. Len(s) /\ Len(s) \in 0 .. Len(s) /\ k <= Len(s)
      BY <3>1, <3>2
    <3>4. SizeOf(s, k) \in Nat /\ SizeOf(s, Len(s)) \in Nat /\ SizeOf(s, k) <= SizeOf(s, Len(s))
      BY <3>1, <3>3, SizeFacts, SizeGrows
    <3> QED BY <3>4 DEF s, Whole
  <2>5. CASE j = i
    <3>1. k \in 0 .. Len(Layout[i].sizes)
      BY <2>2, <2>5
    <3> QED BY <1>0, <2>2, <2>4, <2>5, <3>1
  <2>6. CASE j < i
    <3>1. j + 1 <= i
      BY <1>0, <2>3, <2>6
    <3>2. StartOf(j + 1) <= StartOf(i)
      BY <1>0, <2>3, <3>1, FieldStarts
    <3>3. e = StartOf(i)
      BY <1>0, <2>2, <2>3, <2>4, <3>2
    <3> QED BY <1>0, <1>2, <3>3
  <2>7. CASE j > i
    <3>1. i + 1 <= j
      BY <1>0, <2>3, <2>7
    <3>2. StartOf(i + 1) <= StartOf(j)
      BY <1>0, <2>3, <3>1, FieldStarts
    <3> QED BY <1>0, <2>2, <2>3, <2>4, <3>2
  <2> QED BY <1>0, <2>3, <2>5, <2>6, <2>7
<1> QED BY <1>3, <1>4, <1>0

(* After n fields the reader is where the next one starts, or, when the    *)
(* record ends before, at its end: then nothing more is read.              *)
PlaceAfter(n) == IF StartOf(n + 1) <= record.len THEN StartOf(n + 1) ELSE record.len

RecordInv ==
  /\ record \in [len : Ends \cup {PayloadMax + 1}, sound : BOOLEAN]
  /\ reader \in [pos : Nat, rejected : BOOLEAN]
  /\ fields \in Seq(Nat \cup {Default}) /\ Len(fields) <= Len(Layout)
  /\ fields # <<>> => record.len <= PayloadMax
  /\ reader.pos = PlaceAfter(Len(fields))
  /\ OlderRecordsRead

LEMMA EndsAreNumbers ==
  /\ PayloadMax \in Nat
  /\ \A e \in Ends \cup {PayloadMax + 1} : e \in Nat
<1>0. Len(Layout) \in Nat /\ DOMAIN Layout = 1 .. Len(Layout)
  BY LayoutIsSeq
<1>1. PayloadMax \in Nat
  <2>1. Len(Layout) + 1 \in 1 .. Len(Layout) + 1
    BY <1>0
  <2> QED BY <2>1, FieldStarts DEF PayloadMax
<1>2. ASSUME NEW e \in Ends PROVE e \in Nat
  <2>1. CASE e \in {StartOf(j) : j \in 1 .. Len(Layout) + 1}
    BY <2>1, FieldStarts
  <2>2. CASE e \notin {StartOf(j) : j \in 1 .. Len(Layout) + 1}
    <3>1. PICK j \in DOMAIN Layout :
            \E k \in 1 .. Len(Layout[j].sizes) : e = StartOf(j) + SizeOf(Layout[j].sizes, k)
      BY <2>2 DEF Ends
    <3>2. PICK k \in 1 .. Len(Layout[j].sizes) : e = StartOf(j) + SizeOf(Layout[j].sizes, k)
      BY <3>1
    <3>3. j \in 1 .. Len(Layout) /\ j \in 1 .. Len(Layout) + 1
      BY <1>0
    <3>4. StartOf(j) \in Nat
      BY <3>3, FieldStarts
    <3> DEFINE s == Layout[j].sizes
    <3>5. s \in Seq(Nat)
      BY <3>3, FieldFacts
    <3>6. k \in 1 .. Len(s)
      BY <3>2
    <3>7. e = StartOf(j) + SizeOf(s, k)
      BY <3>2
    <3> HIDE DEF s
    <3>8. k \in 0 .. Len(s)
      BY <3>5, <3>6
    <3>9. SizeOf(s, k) \in Nat
      BY <3>5, <3>8, SizeFacts
    <3> QED BY <3>4, <3>7, <3>9
  <2> QED BY <2>1, <2>2
<1> QED BY <1>1, <1>2

(* One field: read whole and the reader at the next one, or its default    *)
(* and the reader at the end of the record.                                *)
LEMMA OneField ==
  ASSUME NEW i \in 1 .. Len(Layout), record.len \in Ends, NEW pos, pos = PlaceAfter(i - 1)
  PROVE  /\ ValueAt(Layout[i], pos) = IF StartOf(i + 1) <= record.len THEN StartOf(i) ELSE Default
         /\ TakeAll(Layout[i].sizes, pos).pos = PlaceAfter(i)
<1> DEFINE s == Layout[i].sizes
           size(k) == SizeOf(Layout[i].sizes, k)
           t == TakeAll(Layout[i].sizes, pos)
           n == Len(Layout[i].sizes)
<1>0. /\ Len(Layout) \in Nat /\ record.len \in Nat
      /\ StartOf(i) \in Nat /\ StartOf(i + 1) \in Nat
      /\ StartOf(i + 1) = StartOf(i) + Whole(i) /\ Whole(i) = size(n)
  <2>1. Len(Layout) \in Nat
    BY LayoutIsSeq
  <2>2. i \in 1 .. Len(Layout) + 1 /\ i + 1 \in 1 .. Len(Layout) + 1
    BY <2>1
  <2> QED BY <2>1, <2>2, FieldStarts, EndsAreNumbers DEF Whole
<1>1. pos = IF StartOf(i) <= record.len THEN StartOf(i) ELSE record.len
  <2>1. (i - 1) + 1 = i
    BY <1>0
  <2> QED BY <2>1 DEF PlaceAfter
<1>2. pos \in Nat /\ pos <= record.len
  BY <1>0, <1>1
<1>3. s \in Seq(Nat) /\ n \in Nat /\ n > 0
  BY FieldFacts
<1>4. PartsRead(t, s, pos, n)
  <2> HIDE DEF s
  <2>1. PartsRead(TakeAll(s, pos), s, pos, Len(s))
    BY <1>0, <1>2, <1>3, TakeAllFacts
  <2> QED BY <2>1 DEF s
<1>5. /\ \A k \in 0 .. n : size(k) \in Nat
      /\ size(0) = 0 /\ size(1) > 0
      /\ \A j, k \in 0 .. n : j <= k => size(j) <= size(k)
  <2>1. /\ \A k \in 0 .. n : size(k) \in Nat
        /\ size(0) = 0 /\ \A k \in 1 .. n : size(k) = size(k - 1) + s[k]
    BY <1>3, SizeFacts
  <2>2. \A j, k \in 0 .. n : j <= k => size(j) <= size(k)
    BY <1>3, SizeGrows
  <2>3. 1 \in 1 .. n /\ s[1] > 0
    BY <1>3, FieldFacts
  <2>4. size(1) = size(1 - 1) + s[1]
    BY <2>1, <2>3
  <2>5. s[1] \in Nat
    BY <1>3, <2>3
  <2> HIDE DEF size, n, s
  <2>6. size(1) > 0
    BY <2>1, <2>3, <2>4, <2>5
  <2> QED BY <2>1, <2>2, <2>6
<1>6. StartOf(i) <= record.len /\ record.len < StartOf(i + 1) =>
        \E k \in 0 .. n : record.len = StartOf(i) + size(k)
  BY EndsInField
<1>7. \/ t.ok /\ t.pos = pos + size(n) /\ t.pos <= record.len
      \/ /\ ~t.ok
         /\ \E j \in 0 .. n - 1 : /\ t.pos = pos + size(j) /\ t.pos <= record.len
                                  /\ record.len < pos + size(j + 1)
  BY <1>4 DEF PartsRead
<1>8. ValueAt(Layout[i], pos) = IF t.ok THEN pos ELSE Default
  BY DEF ValueAt
<1> HIDE DEF s, size, t, n
<1>9. CASE t.ok
  <2>1. t.pos = pos + size(n) /\ t.pos <= record.len
    BY <1>7, <1>9
  <2>2. size(n) \in Nat /\ size(n) > 0
    <3>1. 1 \in 0 .. n /\ n \in 0 .. n /\ 1 <= n
      BY <1>3
    <3>2. size(1) \in Nat /\ size(n) \in Nat /\ size(1) <= size(n) /\ size(1) > 0
      BY <1>5, <3>1
    <3> QED BY <3>2
  <2>3. pos = StartOf(i)
    BY <1>0, <1>1, <2>1, <2>2
  <2>4. t.pos = StartOf(i + 1) /\ StartOf(i + 1) <= record.len
    BY <1>0, <2>1, <2>3
  <2> QED BY <1>8, <1>9, <2>3, <2>4 DEF PlaceAfter, t
<1>10. CASE ~t.ok
  <2>1. PICK j \in 0 .. n - 1 : /\ t.pos = pos + size(j) /\ t.pos <= record.len
                                /\ record.len < pos + size(j + 1)
    BY <1>7, <1>10
  <2>2. j \in 0 .. n /\ j + 1 \in 0 .. n /\ n \in 0 .. n /\ j + 1 <= n
    BY <1>3
  <2>3. size(j) \in Nat /\ size(j + 1) \in Nat /\ size(n) \in Nat /\ size(j + 1) <= size(n)
    BY <1>5, <2>2
  <2>4. ~(StartOf(i + 1) <= record.len) /\ t.pos = record.len
    <3>1. CASE StartOf(i) <= record.len
      <4>1. pos = StartOf(i)
        BY <1>1, <3>1
      <4>2. record.len < StartOf(i + 1)
        BY <1>0, <2>1, <2>3, <4>1
      <4>3. PICK k \in 0 .. n : record.len = StartOf(i) + size(k)
        BY <1>6, <3>1, <4>2
      <4>4. size(k) \in Nat
        BY <1>5
      <4>5. ~(j + 1 <= k)
        <5>1. j + 1 <= k => size(j + 1) <= size(k)
          BY <1>5, <2>2
        <5> QED BY <1>0, <2>1, <2>3, <4>1, <4>3, <4>4, <5>1
      <4>6. k <= j
        BY <1>3, <4>5
      <4>7. size(k) <= size(j)
        BY <1>5, <2>2, <4>6
      <4>8. t.pos = record.len
        BY <1>0, <2>1, <2>3, <4>1, <4>3, <4>4, <4>7
      <4> QED BY <1>0, <4>2, <4>8
    <3>2. CASE ~(StartOf(i) <= record.len)
      <4>1. pos = record.len
        BY <1>1, <3>2
      <4>2. t.pos = record.len
        BY <1>0, <2>1, <2>3, <4>1
      <4>3. StartOf(i) <= StartOf(i + 1)
        BY <1>0, <2>3
      <4> QED BY <1>0, <3>2, <4>2, <4>3
    <3> QED BY <3>1, <3>2
  <2> QED BY <1>8, <1>10, <2>4 DEF PlaceAfter, t
<1> QED BY <1>9, <1>10

LEMMA DecodeKeeps ==
  ASSUME RecordInv, Decode
  PROVE  RecordInv'
<1>0. /\ record' = record /\ record.len \in Nat /\ PayloadMax \in Nat /\ Len(Layout) \in Nat
      /\ Len(fields) \in Nat /\ Len(fields) <= Len(Layout)
  <2>1. record.len \in Ends \cup {PayloadMax + 1}
    BY DEF RecordInv
  <2> QED BY <2>1, EndsAreNumbers, LayoutIsSeq DEF Decode, RecordInv
<1>1. CASE ~record.sound \/ record.len > PayloadMax
  <2>1. fields' = fields /\ reader' = [reader EXCEPT !.rejected = TRUE]
    BY <1>1 DEF Decode
  <2>2. reader' \in [pos : Nat, rejected : BOOLEAN] /\ reader'.pos = reader.pos
    BY <2>1 DEF RecordInv
  <2> QED BY <1>0, <2>1, <2>2 DEF RecordInv, OlderRecordsRead, PlaceAfter
<1>2. CASE ~(~record.sound \/ record.len > PayloadMax)
  <2> DEFINE i == Len(fields) + 1
             v == ValueAt(Layout[i], reader.pos)
             p == TakeAll(Layout[i].sizes, reader.pos).pos
  <2>1. /\ Len(fields) < Len(Layout)
        /\ fields' = Append(fields, v)
        /\ reader' = [reader EXCEPT !.pos = p]
    BY <1>2 DEF Decode
  <2>2. i \in 1 .. Len(Layout) /\ i - 1 = Len(fields)
    BY <1>0, <2>1
  <2>3. record.len \in Ends
    <3>1. record.len \in Ends \cup {PayloadMax + 1}
      BY DEF RecordInv
    <3> QED BY <1>0, <1>2, <3>1
  <2>4. reader.pos = PlaceAfter(i - 1)
    BY <2>2 DEF RecordInv
  <2>5. v = (IF StartOf(i + 1) <= record.len THEN StartOf(i) ELSE Default) /\ p = PlaceAfter(i)
    <3> DEFINE pos == reader.pos
    <3>1. pos = PlaceAfter(i - 1)
      BY <2>4
    <3> HIDE DEF i
    <3>2. /\ ValueAt(Layout[i], pos) = IF StartOf(i + 1) <= record.len THEN StartOf(i) ELSE Default
          /\ TakeAll(Layout[i].sizes, pos).pos = PlaceAfter(i)
      BY <2>2, <2>3, <3>1, OneField
    <3> QED BY <3>2
  <2>6. StartOf(i) \in Nat /\ StartOf(i + 1) \in Nat
    <3>1. i \in 1 .. Len(Layout) + 1 /\ i + 1 \in 1 .. Len(Layout) + 1
      BY <1>0, <2>2
    <3> HIDE DEF i
    <3> QED BY <3>1, FieldStarts
  <2>7. p \in Nat /\ v \in Nat \cup {Default}
    BY <1>0, <2>5, <2>6 DEF PlaceAfter
  <2> HIDE DEF v, p
  <2>8. reader' \in [pos : Nat, rejected : BOOLEAN] /\ reader'.pos = p
    BY <2>1, <2>7 DEF RecordInv
  <2>9. fields \in Seq(Nat \cup {Default})
    BY DEF RecordInv
  <2>10. /\ fields' \in Seq(Nat \cup {Default}) /\ Len(fields') = i
         /\ \A k \in 1 .. Len(fields) : fields'[k] = fields[k]
         /\ fields'[i] = v /\ DOMAIN fields' = 1 .. i /\ DOMAIN fields = 1 .. Len(fields)
    BY <2>1, <2>7, <2>9
  <2>11. OlderRecordsRead'
    <3> SUFFICES ASSUME NEW k \in 1 .. i
                 PROVE  fields'[k] = IF StartOf(k + 1) <= record.len THEN StartOf(k) ELSE Default
      BY <1>0, <2>10 DEF OlderRecordsRead
    <3>1. CASE k = i
      BY <2>5, <2>10, <3>1
    <3>2. CASE k # i
      <4>1. k \in 1 .. Len(fields)
        BY <1>0, <3>2
      <4> QED BY <2>10, <4>1 DEF RecordInv, OlderRecordsRead
    <3> QED BY <3>1, <3>2
  <2>12. reader'.pos = PlaceAfter(Len(fields))'
    BY <1>0, <2>5, <2>8, <2>10 DEF PlaceAfter
  <2>13. Len(fields') <= Len(Layout)
    BY <2>2, <2>10
  <2>14. record.len <= PayloadMax
    BY <1>0, <1>2
  <2>15. record' \in [len : Ends \cup {PayloadMax + 1}, sound : BOOLEAN]
    BY <1>0 DEF RecordInv
  <2>16. record'.len <= PayloadMax /\ reader' \in [pos : Nat, rejected : BOOLEAN]
    BY <1>0, <2>8, <2>14
  <2> QED BY <1>0, <2>10, <2>11, <2>12, <2>13, <2>15, <2>16 DEF RecordInv
<1> QED BY <1>1, <1>2

(* The reader's place is that of the layout, or the end of the record. *)
THEOREM RecordInvariant == RecordSpec => []RecordInv
<1>1. RecordInit => RecordInv
  <2> SUFFICES ASSUME RecordInit PROVE RecordInv
    OBVIOUS
  <2>1. record \in [len : Ends \cup {PayloadMax + 1}, sound : BOOLEAN] /\ fields = <<>>
        /\ reader = [pos |-> 0, rejected |-> FALSE]
    BY DEF RecordInit
  <2>2. record.len \in Nat
    BY <2>1, EndsAreNumbers
  <2>3. Len(fields) = 0 /\ Len(fields) <= Len(Layout) /\ DOMAIN fields = {} /\ 0 + 1 = 1
    BY <2>1, LayoutIsSeq
  <2>4. PlaceAfter(Len(fields)) = 0
    BY <2>2, <2>3, FieldStarts DEF PlaceAfter
  <2>5. OlderRecordsRead
    BY <2>3 DEF OlderRecordsRead
  <2>6. reader \in [pos : Nat, rejected : BOOLEAN] /\ reader.pos = 0
    BY <2>1
  <2>7. fields \in Seq(Nat \cup {Default})
    BY <2>1
  <2> QED BY <2>1, <2>3, <2>4, <2>5, <2>6, <2>7 DEF RecordInv
<1>2. RecordInv /\ [RecordNext]_recordVars => RecordInv'
  <2> SUFFICES ASSUME RecordInv, [RecordNext]_recordVars PROVE RecordInv'
    OBVIOUS
  <2>1. CASE Decode
    BY <2>1, DecodeKeeps
  <2>2. CASE UNCHANGED recordVars
    BY <2>2 DEF recordVars, RecordInv, OlderRecordsRead, PlaceAfter
  <2> QED BY <2>1, <2>2 DEF RecordNext
<1> QED BY <1>1, <1>2, PTL DEF RecordSpec

(* What an older firmware wrote whole is read as it was written, the rest  *)
(* takes its default, for any layout of numbers, strings and pets.         *)
THEOREM OldRecordsAreRead == RecordSpec => []OlderRecordsRead
<1>1. RecordInv => OlderRecordsRead
  BY DEF RecordInv
<1> QED BY <1>1, RecordInvariant, PTL

(* The reader never leaves the payload. *)
THEOREM RecordTypeCorrect == RecordSpec => []RecordTypeOK
<1>1. RecordInv => RecordTypeOK
  <2> SUFFICES ASSUME RecordInv PROVE RecordTypeOK
    OBVIOUS
  <2>0. /\ record.len \in Nat /\ PayloadMax \in Nat /\ Len(Layout) \in Nat /\ Len(fields) \in Nat
        /\ Len(fields) <= Len(Layout) /\ DOMAIN fields = 1 .. Len(fields)
    BY EndsAreNumbers, LayoutIsSeq DEF RecordInv
  <2>1. \A i \in 1 .. Len(Layout) + 1 : StartOf(i) \in 0 .. PayloadMax
    <3>1. \A i \in 1 .. Len(Layout) + 1 : i <= Len(Layout) + 1 /\ Len(Layout) + 1 \in 1 .. Len(Layout) + 1
      BY <2>0
    <3>2. \A i \in 1 .. Len(Layout) + 1 : StartOf(i) \in Nat /\ StartOf(i) <= PayloadMax
      BY <3>1, FieldStarts DEF PayloadMax
    <3> QED BY <2>0, <3>2
  <2>2. StartOf(Len(fields) + 1) \in 0 .. PayloadMax
    <3>1. Len(fields) + 1 \in 1 .. Len(Layout) + 1
      BY <2>0
    <3> QED BY <2>1, <3>1
  <2>3. reader.pos \in 0 .. PayloadMax
    <3>1. reader.pos = IF StartOf(Len(fields) + 1) <= record.len THEN StartOf(Len(fields) + 1) ELSE record.len
      BY DEF RecordInv, PlaceAfter
    <3> QED BY <2>0, <2>2, <3>1
  <2>4. \A i \in 1 .. Len(fields) : fields[i] \in 0 .. PayloadMax \cup {Default}
    <3> SUFFICES ASSUME NEW i \in 1 .. Len(fields) PROVE fields[i] \in 0 .. PayloadMax \cup {Default}
      OBVIOUS
    <3>1. fields[i] \in {StartOf(i), Default}
      BY <2>0 DEF RecordInv, OlderRecordsRead
    <3>2. i \in 1 .. Len(Layout) + 1
      BY <2>0
    <3> QED BY <2>1, <3>1, <3>2
  <2>5. fields \in Seq(0 .. PayloadMax \cup {Default})
    <3>1. fields \in Seq(Nat \cup {Default})
      BY DEF RecordInv
    <3> DEFINE T == 0 .. PayloadMax \cup {Default}
    <3>2. \A i \in 1 .. Len(fields) : fields[i] \in T
      BY <2>4
    <3> HIDE DEF T
    <3>3. fields \in Seq(T)
      BY <3>1, <3>2
    <3> QED BY <3>3 DEF T
  <2> QED BY <2>0, <2>3, <2>5 DEF RecordTypeOK
<1> QED BY <1>1, RecordInvariant, PTL

-----------------------------------------------------------------------------
(* Desk: the shell and its alarm, with a radio and without, for any length *)
(* of the day and of the snooze.                                           *)

DeskInv == DeskTypeOK /\ ScreenIsOwned

ItemNames == {"BatterySaver", "Reboot", "CheckUpdate", "ClearPhotoCache", "RebootToUsb", "FactoryReset"}

(* What a menu can hold. *)
IsEntry(e) ==
  \/ e.do = "launch"
  \/ e.do = "open" /\ e.what \in Menus
  \/ e.do = "item" /\ e.what \in ItemNames

LEMMA EntryKinds == ASSUME NEW menu \in Menus, NEW e \in EntriesOf(menu) PROVE IsEntry(e)
<1>1. CASE menu = "Main"
  <2>1. \/ \E a : e = Launch(a)
        \/ \E g \in Groups \cup {"Settings"} : e = Open(g)
    BY <1>1 DEF EntriesOf
  <2>2. Groups \cup {"Settings"} \subseteq Menus
    BY DEF Menus
  <2>3. CASE \E a : e = Launch(a)
    BY <2>3 DEF IsEntry, Launch
  <2>4. CASE \E g \in Groups \cup {"Settings"} : e = Open(g)
    BY <2>2, <2>4 DEF IsEntry, Open
  <2> QED
    BY <2>1, <2>3, <2>4
<1>2. CASE menu = "Settings"
  <2>1. \/ \E a : e = Launch(a)
        \/ \E i \in ItemNames : e = Item(i)
    BY <1>2 DEF EntriesOf, ItemNames
  <2> QED
    BY <2>1 DEF IsEntry, Launch, Item
<1>3. CASE menu \notin {"Main", "Settings"}
  <2>1. menu \in Groups
    BY <1>3 DEF Menus
  <2>2. \/ \E a : e = Launch(a)
        \/ \E i \in ItemNames : e = Item(i)
    BY <1>3, <2>1 DEF EntriesOf, ItemNames
  <2> QED
    BY <2>2 DEF IsEntry, Launch, Item
<1> QED
  BY <1>1, <1>2, <1>3

LEMMA LaunchedIsApp == ASSUME NEW e \in Entries, e.do = "launch" PROVE e.what \in Apps
  BY DEF Apps

(* The shell's own launches. *)
LEMMA OwnLaunches == {"Alarm", "Hoot"} \subseteq Apps
<1>a. "Main" \notin Groups
  BY DEF Groups, GroupApps
<1>0. EntriesOf("Main") =
        {Launch("Hoot"), Launch("About"), Open("Settings")} \cup
        {Open(g) : g \in {g \in Groups : \E a \in GroupApps[g] : Usable(a)}}
  BY <1>a DEF EntriesOf
<1>1. Launch("Hoot") \in EntriesOf("Main") /\ "Main" \in Menus
  BY <1>0 DEF Menus
<1>2. "Tools" \in Groups /\ "Alarm" \in GroupApps["Tools"] /\ Usable("Alarm")
  BY DEF Groups, GroupApps, Usable, Networked
<1>3. Launch("Alarm") \in EntriesOf("Tools") /\ "Tools" \in Menus
  BY <1>2 DEF EntriesOf, Menus
<1>4. Launch("Hoot") \in Entries /\ Launch("Alarm") \in Entries
  BY <1>1, <1>3 DEF Entries
<1>5. Launch("Hoot").do = "launch" /\ Launch("Hoot").what = "Hoot"
  BY DEF Launch
<1>6. Launch("Alarm").do = "launch" /\ Launch("Alarm").what = "Alarm"
  BY DEF Launch
<1> QED
  BY <1>4, <1>5, <1>6, LaunchedIsApp

(* perform touches the running app, the menu, the notice or the reset.     *)
LEMMA PerformedFacts ==
  ASSUME NEW d \in Desks, NEW e \in Entries
  PROVE  /\ Performed(d, e) \in Desks
         /\ ~(e.do = "item" /\ e.what \in Dangers) => Performed(d, e).reset = d.reset
<1>1. PICK menu \in Menus : e \in EntriesOf(menu)
  BY DEF Entries
<1>2. IsEntry(e)
  BY <1>1, EntryKinds
<1>3. CASE e.do = "launch"
  <2>1. Performed(d, e) = [d EXCEPT !.running = e.what]
    BY <1>3 DEF Performed
  <2> QED
    BY <2>1, <1>3, LaunchedIsApp DEF Desks
<1>4. CASE e.do = "open" /\ e.what \in Menus
  <2>1. Performed(d, e) = [d EXCEPT !.menu = e.what]
    BY <1>4 DEF Performed
  <2> QED
    BY <2>1, <1>4 DEF Desks
<1>5. CASE e.do = "item" /\ e.what \in {"ClearPhotoCache", "BatterySaver", "CheckUpdate"}
  <2>1. Performed(d, e) = [d EXCEPT !.notice = TRUE]
    BY <1>5 DEF Performed
  <2> QED
    BY <2>1 DEF Desks
<1>6. CASE e.do = "item" /\ e.what \in {"Reboot", "FactoryReset"}
  <2>1. Performed(d, e) = [d EXCEPT !.reset = "normal"]
    BY <1>6 DEF Performed
  <2>2. [d EXCEPT !.reset = "normal"] \in Desks
    BY DEF Desks
  <2>3. e.what \in Dangers
    BY <1>6 DEF Dangers
  <2> QED
    BY <2>1, <2>2, <2>3, <1>6
<1>7. CASE e.do = "item" /\ e.what = "RebootToUsb"
  <2>1. Performed(d, e) = [d EXCEPT !.reset = "usb"]
    BY <1>7 DEF Performed
  <2>2. [d EXCEPT !.reset = "usb"] \in Desks
    BY DEF Desks
  <2>3. e.what \in Dangers
    BY <1>7 DEF Dangers
  <2> QED
    BY <2>1, <2>2, <2>3, <1>7
<1> QED
  BY <1>2, <1>3, <1>4, <1>5, <1>6, <1>7 DEF IsEntry, ItemNames

-----------------------------------------------------------------------------

Stored == [on : BOOLEAN, minute : Minutes, tone : 0 .. Tunes - 1]

(* A day has a first minute, and there is a first tune. *)
LEMMA DayIsLong == 0 \in Minutes /\ 0 \in 0 .. Tunes - 1
  BY DeskAssumption DEF Minutes

(* What the alarm's operators make of an alarm is one. *)
LEMMA RungIsAlarm ==
  ASSUME DeskTypeOK PROVE AlarmBackground \in Alarms
<1>1. CASE Due
  <2>1. now \in Nat
    BY <1>1, DeskAssumption DEF Due, DeskTypeOK
  <2>2. Today \in Nat
    BY <2>1, DeskAssumption DEF Today
  <2> QED
    BY <1>1, <2>2 DEF AlarmBackground, Rung, DeskTypeOK, Alarms
<1>2. CASE ~Due
  BY <1>2 DEF AlarmBackground, DeskTypeOK
<1> QED
  BY <1>1, <1>2

LEMMA EnteredIsAlarm ==
  ASSUME DeskTypeOK, NEW al \in Alarms
  PROVE  AlarmEntered(al) \in Alarms /\ AlarmEntered(al).ringing = al.ringing
  BY DEF AlarmEntered, DeskTypeOK, Alarms

LEMMA SilencedIsAlarm ==
  ASSUME DeskTypeOK, NEW al \in Alarms, NEW k \in AlarmKeys
  PROVE  Silenced(al, k) \in Alarms
<1>1. (IF now = Nothing THEN Nothing ELSE now + SnoozeMin) \in Nat \cup {Nothing}
  BY DeskAssumption DEF DeskTypeOK
<1> DEFINE later == IF now = Nothing THEN Nothing ELSE now + SnoozeMin
<1>2. Silenced(al, k) \in {al, [al EXCEPT !.ringing = FALSE],
                            [al EXCEPT !.ringing = FALSE, !.snooze = later]}
  BY DEF Silenced
<1> HIDE DEF later
<1> QED
  BY <1>1, <1>2 DEF Alarms, later

LEMMA AdjustedIsAlarm ==
  ASSUME NEW al \in Alarms, NEW k \in AlarmKeys
  PROVE  Adjusted(al, k) \in Alarms /\ Adjusted(al, k).ringing = al.ringing
<1>1. /\ al.minute \in Minutes /\ al.tone \in 0 .. Tunes - 1 /\ al.on \in BOOLEAN
      /\ DayLength \in Nat \ {0} /\ Tunes \in Nat \ {0}
  BY DeskAssumption DEF Alarms
<1>2. /\ (al.minute + 1) % DayLength \in Minutes
      /\ (al.minute + DayLength - 1) % DayLength \in Minutes
  BY <1>1 DEF Minutes
<1>3. (al.tone + 1) % Tunes \in 0 .. Tunes - 1
  BY <1>1
<1>4. Adjusted(al, k) \in {al, [al EXCEPT !.minute = (@ + 1) % DayLength],
                            [al EXCEPT !.minute = (@ + DayLength - 1) % DayLength],
                            [al EXCEPT !.on = ~@, !.snooze = Nothing],
                            [al EXCEPT !.tone = (@ + 1) % Tunes]}
  BY DEF Adjusted
<1> QED
  BY <1>1, <1>2, <1>3, <1>4 DEF Alarms

(* The frame of the Alarm app, entered just now or before. *)
LEMMA AlarmScreenKeeps ==
  ASSUME DeskInv, NEW al \in Alarms, NEW k \in AlarmKeys, AlarmScreen(al, k),
         now' \in 0 .. MaxNow \cup {Nothing}
  PROVE  DeskInv' /\ desk'.reset = desk.reset
<1>0. desk \in Desks /\ opened = {desk.running} \ {Nothing} /\ "Alarm" \in Apps /\ Nothing \notin Apps
  BY OwnLaunches, NothingAssumption DEF DeskInv, DeskTypeOK, ScreenIsOwned
<1>1. Silenced(al, k) \in Alarms
  BY SilencedIsAlarm DEF DeskInv
<1>2. AlarmFrame(al, k) \in Alarms
  BY <1>1, AdjustedIsAlarm DEF AlarmFrame
<1>3. AlarmSettings(al) \in Stored
  BY DEF AlarmSettings, Alarms, Stored
<1>4. stored \in Stored
  BY DEF DeskInv, DeskTypeOK, Stored
<1>5. CASE AlarmLeaves(al, k)
  <2>1. /\ desk' = [desk EXCEPT !.running = Nothing]
        /\ alarm' = Silenced(al, k) /\ stored' \in {stored, AlarmSettings(al)}
        /\ opened' = opened \ {desk.running}
    BY <1>5 DEF AlarmScreen
  <2>2. ~alarm'.ringing
    BY <1>5, <2>1 DEF AlarmLeaves
  <2>3. desk' \in Desks /\ desk'.running = Nothing /\ desk'.reset = desk.reset
    BY <2>1, <1>0 DEF Desks
  <2>4. DeskTypeOK'
    BY <2>1, <2>3, <1>0, <1>1, <1>3 DEF DeskTypeOK, Stored, DeskInv
  <2> QED
    BY <2>1, <2>2, <2>3, <2>4, <1>0 DEF DeskInv, ScreenIsOwned
<1>6. CASE ~AlarmLeaves(al, k)
  <2>1. /\ desk' = [desk EXCEPT !.running = "Alarm"]
        /\ alarm' = AlarmFrame(al, k) /\ stored' = stored
        /\ opened' = (opened \ {desk.running}) \cup {"Alarm"}
    BY <1>6 DEF AlarmScreen
  <2>3. desk' \in Desks /\ desk'.running = "Alarm" /\ desk'.reset = desk.reset
    BY <2>1, <1>0 DEF Desks
  <2>4. DeskTypeOK'
    BY <2>1, <2>3, <1>0, <1>2, <1>4 DEF DeskTypeOK, Stored, DeskInv
  <2> QED
    BY <2>1, <2>3, <2>4, <1>0 DEF DeskInv, ScreenIsOwned
<1> QED
  BY <1>5, <1>6

(* The menu: what is on screen is what was opened, and only a question     *)
(* that was put before leads to a reset.                                   *)
LEMMA MenuFacts ==
  ASSUME DeskInv, MenuFrame
  PROVE  /\ desk' \in Desks
         /\ opened' = {desk'.running} \ {Nothing}
         /\ desk'.reset # desk.reset => desk.confirming # Nothing
<1>0. desk \in Desks /\ desk.running = Nothing /\ opened = {}
  BY DEF DeskInv, DeskTypeOK, ScreenIsOwned, MenuFrame
<1>1. opened' = {desk'.running} \ {Nothing}
  BY <1>0 DEF MenuFrame
<1>2. CASE desk.confirming # Nothing
  <2>1. desk.confirming \in Entries
    BY <1>0, <1>2 DEF Desks
  <2>2. [desk EXCEPT !.confirming = Nothing] \in Desks
    BY <1>0 DEF Desks
  <2>3. desk' \in {Performed([desk EXCEPT !.confirming = Nothing], desk.confirming),
                    [desk EXCEPT !.confirming = Nothing]}
    BY <1>2 DEF MenuFrame
  <2> QED
    BY <1>1, <1>2, <2>1, <2>2, <2>3, PerformedFacts
<1>3. CASE desk.confirming = Nothing /\ desk' = [desk EXCEPT !.menu = "Main"]
  <2>1. "Main" \in Menus
    BY DEF Menus
  <2> QED
    BY <1>0, <1>1, <1>3, <2>1 DEF Desks
<1>4. CASE desk.confirming = Nothing /\ \E e \in EntriesOf(desk.menu) : desk' = Selected(e)
  <2>1. PICK e \in EntriesOf(desk.menu) : desk' = Selected(e)
    BY <1>4
  <2>2. e \in Entries
    BY <1>0 DEF Entries, Desks
  <2>3. CASE e.do = "item" /\ e.what \in Dangers
    <3>1. desk' = [desk EXCEPT !.confirming = e]
      BY <2>1, <2>3 DEF Selected
    <3> QED
      BY <3>1, <2>2, <1>0, <1>1 DEF Desks
  <2>4. CASE ~(e.do = "item" /\ e.what \in Dangers)
    <3>1. desk' = Performed(desk, e)
      BY <2>1, <2>4 DEF Selected
    <3> QED
      BY <3>1, <2>2, <2>4, <1>0, <1>1, PerformedFacts
  <2> QED
    BY <2>3, <2>4
<1> QED
  BY <1>2, <1>3, <1>4 DEF MenuFrame

(* The frame of another app, or of the menu. *)
LEMMA OtherFrameFacts ==
  ASSUME DeskInv, AppFrame \/ IdleToHoot \/ Notice \/ MenuFrame
  PROVE  /\ desk' \in Desks
         /\ opened' = {desk'.running} \ {Nothing}
         /\ desk'.reset # desk.reset => desk.confirming # Nothing
<1>0. desk \in Desks /\ opened = {desk.running} \ {Nothing} /\ "Hoot" \in Apps /\ Nothing \notin Apps
  BY OwnLaunches, NothingAssumption DEF DeskInv, DeskTypeOK, ScreenIsOwned
<1>1. CASE AppFrame
  <2>1. \/ desk' = desk /\ opened' = opened
        \/ desk' = [desk EXCEPT !.running = Nothing] /\ opened' = opened \ {desk.running}
    BY <1>1 DEF AppFrame
  <2> QED
    BY <2>1, <1>0 DEF Desks
<1>2. CASE IdleToHoot
  <2>1. /\ desk.running = Nothing /\ desk' = [desk EXCEPT !.running = "Hoot"]
        /\ opened' = opened \cup {"Hoot"}
    BY <1>2 DEF IdleToHoot
  <2> QED
    BY <2>1, <1>0 DEF Desks
<1>3. CASE Notice
  <2>1. desk' = [desk EXCEPT !.notice = ~@] /\ opened' = opened
    BY <1>3 DEF Notice
  <2> QED
    BY <2>1, <1>0 DEF Desks
<1>4. CASE MenuFrame
  BY <1>4, MenuFacts
<1> QED
  BY <1>1, <1>2, <1>3, <1>4

(* One frame of the shell. *)
LEMMA FrameKeeps ==
  ASSUME DeskInv, DeskFrame
  PROVE  DeskInv' /\ (desk'.reset # desk.reset => desk.confirming # Nothing)
<1>0. alarm \in Alarms /\ stored \in Stored
  BY DEF DeskInv, DeskTypeOK, Stored
<1>1. now' \in 0 .. MaxNow \cup {Nothing}
  BY DeskAssumption DEF DeskFrame, Later, DeskInv, DeskTypeOK
<1>2. CASE \E k \in AlarmKeys : AlarmScreen(alarm, k)
  BY <1>0, <1>1, <1>2, AlarmScreenKeeps
<1>3. CASE \E k \in AlarmKeys : AlarmScreen(AlarmEntered(AlarmBackground), k)
  <2>1. AlarmEntered(AlarmBackground) \in Alarms
    BY RungIsAlarm, EnteredIsAlarm DEF DeskInv
  <2> QED
    BY <2>1, <1>1, <1>3, AlarmScreenKeeps
<1>4. CASE /\ desk.running # "Alarm"
           /\ AppFrame \/ IdleToHoot \/ Notice \/ MenuFrame
           /\ alarm' = IF desk'.running = "Alarm" THEN AlarmEntered(alarm) ELSE alarm
           /\ stored' \in StoredBy
  <2>1. /\ desk' \in Desks
        /\ opened' = {desk'.running} \ {Nothing}
        /\ desk'.reset # desk.reset => desk.confirming # Nothing
    BY <1>4, OtherFrameFacts
  <2>2. ~alarm.ringing
    BY <1>4 DEF DeskInv, ScreenIsOwned
  <2>3. alarm' \in Alarms /\ ~alarm'.ringing
    BY <1>0, <1>4, <2>2, EnteredIsAlarm DEF DeskInv
  <2>4. AlarmSettings(NewAlarm) \in Stored
    BY DayIsLong DEF AlarmSettings, NewAlarm, Stored
  <2>5. stored' \in Stored
    BY <1>0, <1>4, <2>4 DEF StoredBy
  <2>6. opened' \subseteq Apps
    BY <2>1 DEF Desks
  <2>7. DeskTypeOK'
    BY <1>1, <2>1, <2>3, <2>5, <2>6 DEF DeskTypeOK, Stored
  <2> QED
    BY <2>1, <2>3, <2>7 DEF DeskInv, ScreenIsOwned
<1> QED
  BY <1>2, <1>3, <1>4 DEF DeskFrame

LEMMA InitDesk == DeskInit => DeskInv
<1> SUFFICES ASSUME DeskInit PROVE DeskInv
  OBVIOUS
<1>1. desk \in Desks /\ desk.running = Nothing
  BY DEF DeskInit, NewDesk, Desks, Menus
<1>2. alarm \in Alarms /\ ~alarm.ringing
  BY DayIsLong DEF DeskInit, NewAlarm, Alarms
<1>3. stored \in [on : BOOLEAN, minute : Minutes, tone : 0 .. Tunes - 1]
  BY DayIsLong DEF DeskInit, Minutes
<1> QED
  BY <1>1, <1>2, <1>3 DEF DeskInit, DeskInv, DeskTypeOK, ScreenIsOwned

LEMMA ResetKeeps == DeskInv /\ DeskReset => DeskInv'
<1> SUFFICES ASSUME DeskInv, DeskReset PROVE DeskInv'
  OBVIOUS
<1>1. desk' \in Desks /\ desk'.running = Nothing
  BY DEF DeskReset, NewDesk, Desks, Menus
<1>2. alarm' \in Alarms /\ ~alarm'.ringing
  BY DayIsLong DEF DeskReset, NewAlarm, Alarms
<1> QED
  BY <1>1, <1>2 DEF DeskReset, DeskInv, DeskTypeOK, ScreenIsOwned

LEMMA DeskInvStep == DeskInv /\ [DeskNext]_deskVars => DeskInv'
<1>1. DeskInv /\ UNCHANGED deskVars => DeskInv'
  BY DEF deskVars, DeskInv, DeskTypeOK, ScreenIsOwned
<1> QED
  BY <1>1, FrameKeeps, ResetKeeps DEF DeskNext

THEOREM DeskInvariant == DeskSpec => []DeskInv
  BY InitDesk, DeskInvStep, PTL DEF DeskSpec

(* Every variable of the shell and the alarm keeps its type, for any       *)
(* length of the day.                                                      *)
THEOREM DeskTypeCorrect == DeskSpec => []DeskTypeOK
<1>1. DeskInv => DeskTypeOK
  BY DEF DeskInv
<1> QED
  BY <1>1, DeskInvariant, PTL

(* Every app that left the screen was left through on_exit, and an alarm   *)
(* that rings has the screen.                                              *)
THEOREM OneOwner == DeskSpec => []ScreenIsOwned
<1>1. DeskInv => ScreenIsOwned
  BY DEF DeskInv
<1> QED
  BY <1>1, DeskInvariant, PTL

(* A restart or a wipe answers a question put in an earlier frame.         *)
THEOREM ResetsAreConfirmed == DeskSpec => ResetWasConfirmed
<1>1. DeskInv /\ [DeskNext]_deskVars =>
        [desk.reset = Nothing /\ desk'.reset # Nothing => desk.confirming # Nothing]_deskVars
  BY FrameKeeps DEF DeskNext, DeskReset
<1> QED
  BY <1>1, DeskInvariant, PTL DEF DeskSpec, ResetWasConfirmed

-----------------------------------------------------------------------------
(* Backlight: the brightness of the screen, for any levels.                *)

(* The level under the dimmer, or the one that shows, is the user's. *)
LevelIsKept ==
  screen # "Bedside" => cut \/ (IF dimmer.dimmed THEN dimmer.user ELSE light) = wanted

LightInv == LightTypeOK /\ LevelIsKept

(* A share of a level is a level. *)
LEMMA ShareOf ==
  ASSUME NEW l \in 0 .. FullLight
  PROVE  (l * DimPercent) \div 100 \in 0 .. FullLight
<1>1. FullLight \in Nat /\ DimPercent \in 0 .. 100
  BY BacklightAssumption
<1>2. l * DimPercent \in Nat /\ l * DimPercent <= l * 100
  BY <1>1, Z3
<1> DEFINE n == l * DimPercent
<1>3. n \in Nat /\ n <= l * 100
  BY <1>2
<1> HIDE DEF n
<1>4. n \div 100 \in Nat /\ n \div 100 <= l
  BY <1>3, Z3
<1> QED
  BY <1>1, <1>4 DEF n

(* What the dimmer makes of the light. *)
LEMMA RestedFacts ==
  ASSUME LightInv, NEW saver \in BOOLEAN, NEW idle \in BOOLEAN
  PROVE  /\ Rested(saver, idle).light \in 0 .. FullLight
         /\ Rested(saver, idle).dimmer \in [dimmed : BOOLEAN, user : 0 .. FullLight]
         /\ IF Rested(saver, idle).dimmer.dimmed
              THEN Rested(saver, idle).dimmer.user = IF dimmer.dimmed THEN dimmer.user ELSE light
              ELSE Rested(saver, idle).light = IF dimmer.dimmed THEN dimmer.user ELSE light
<1> DEFINE r == Rested(saver, idle)
<1>0. light \in 0 .. FullLight /\ dimmer \in [dimmed : BOOLEAN, user : 0 .. FullLight]
  BY DEF LightInv, LightTypeOK
<1>1. CASE dimmer.dimmed /\ ~saver
  <2>1. r = [light |-> dimmer.user, dimmer |-> [dimmer EXCEPT !.dimmed = FALSE]]
    BY <1>1 DEF Rested, Woken
  <2>2. r.light = dimmer.user /\ r.dimmer = [dimmer EXCEPT !.dimmed = FALSE]
    BY <2>1
  <2>3. [dimmer EXCEPT !.dimmed = FALSE] \in [dimmed : BOOLEAN, user : 0 .. FullLight]
    BY <1>0
  <2>4. ~[dimmer EXCEPT !.dimmed = FALSE].dimmed
    BY <1>0
  <2> QED
    BY <2>2, <2>3, <2>4, <1>0, <1>1
<1>2. CASE saver /\ ~dimmer.dimmed /\ idle
  <2> DEFINE low == Larger((light * DimPercent) \div 100, DimMin)
  <2>1. r = [light |-> low, dimmer |-> [dimmed |-> TRUE, user |-> light]]
    BY <1>2 DEF Rested
  <2>2. low \in 0 .. FullLight
    BY <1>0, ShareOf, BacklightAssumption DEF Larger
  <2> HIDE DEF low
  <2> QED
    BY <2>1, <2>2, <1>0, <1>2
<1>3. CASE ~(dimmer.dimmed /\ ~saver) /\ ~(saver /\ ~dimmer.dimmed /\ idle)
  <2>1. r = [light |-> light, dimmer |-> dimmer]
    BY <1>3 DEF Rested
  <2> QED
    BY <2>1, <1>0
<1> QED
  BY <1>1, <1>2, <1>3

(* A frame without a key, an alarm that takes the screen included. *)
LEMMA QuietKeeps == LightInv /\ QuietFrame => LightInv'
<1> SUFFICES ASSUME LightInv, QuietFrame PROVE LightInv'
  OBVIOUS
<1>0. /\ light \in 0 .. FullLight /\ wanted \in 0 .. FullLight /\ cut \in BOOLEAN
      /\ dimmer \in [dimmed : BOOLEAN, user : 0 .. FullLight] /\ screen \in LightScreens
      /\ FullLight \in 0 .. FullLight /\ BedsideDim \in 0 .. FullLight
  BY BacklightAssumption DEF LightInv, LightTypeOK
<1>1. PICK saver \in BOOLEAN, idle \in BOOLEAN :
        /\ dimmer' = Rested(saver, idle).dimmer
        /\ \/ /\ UNCHANGED <<screen, wanted, cut>>
              /\ light' \in IF screen = "Bedside" THEN {FullLight, BedsideDim} ELSE {Rested(saver, idle).light}
           \/ /\ screen # "Alarm" /\ screen' = "Alarm"
              /\ cut' = (cut \/ (screen = "Bedside" /\ Rested(saver, idle).dimmer.dimmed))
              /\ light' = IF screen = "Bedside" THEN FullLight ELSE Rested(saver, idle).light
              /\ wanted' = IF screen = "Bedside" THEN FullLight ELSE wanted
  BY DEF QuietFrame
<1> DEFINE r == Rested(saver, idle)
<1>2. /\ r.light \in 0 .. FullLight
      /\ r.dimmer \in [dimmed : BOOLEAN, user : 0 .. FullLight]
      /\ IF r.dimmer.dimmed THEN r.dimmer.user = IF dimmer.dimmed THEN dimmer.user ELSE light
                            ELSE r.light = IF dimmer.dimmed THEN dimmer.user ELSE light
  BY RestedFacts
<1>3. dimmer' = r.dimmer
  BY <1>1
<1>4. CASE /\ UNCHANGED <<screen, wanted, cut>>
           /\ light' \in IF screen = "Bedside" THEN {FullLight, BedsideDim} ELSE {r.light}
  <2> HIDE DEF r
  <2>1. LightTypeOK'
    BY <1>0, <1>2, <1>3, <1>4 DEF LightTypeOK
  <2>2. LevelIsKept'
    BY <1>0, <1>2, <1>3, <1>4 DEF LevelIsKept, LightInv
  <2> QED
    BY <2>1, <2>2 DEF LightInv
<1>5. CASE /\ screen # "Alarm" /\ screen' = "Alarm"
           /\ cut' = (cut \/ (screen = "Bedside" /\ r.dimmer.dimmed))
           /\ light' = IF screen = "Bedside" THEN FullLight ELSE r.light
           /\ wanted' = IF screen = "Bedside" THEN FullLight ELSE wanted
  <2> HIDE DEF r
  <2>1. LightTypeOK'
    BY <1>0, <1>2, <1>3, <1>5 DEF LightTypeOK, LightScreens
  <2>2. LevelIsKept'
    BY <1>0, <1>2, <1>3, <1>5 DEF LevelIsKept, LightInv
  <2> QED
    BY <2>1, <2>2 DEF LightInv
<1> QED
  BY <1>1, <1>4, <1>5

(* A frame with a key the app on screen acts on. *)
LEMMA KeyKeeps == LightInv /\ KeyFrame => LightInv'
<1> SUFFICES ASSUME LightInv, KeyFrame PROVE LightInv'
  OBVIOUS
<1>0. /\ light \in 0 .. FullLight /\ wanted \in 0 .. FullLight /\ cut \in BOOLEAN
      /\ dimmer \in [dimmed : BOOLEAN, user : 0 .. FullLight] /\ screen \in LightScreens
      /\ FullLight \in 0 .. FullLight
  BY BacklightAssumption DEF LightInv, LightTypeOK
<1>1. \A up \in BOOLEAN : AdjustedLight(light, up) \in 0 .. FullLight
  BY <1>0, BacklightAssumption DEF AdjustedLight, Smaller, Larger
<1>2. LightTypeOK'
  BY <1>0, <1>1 DEF KeyFrame, LightTypeOK, LightScreens
<1>3. LevelIsKept'
  BY <1>0 DEF KeyFrame, LevelIsKept, LightInv
<1> QED
  BY <1>2, <1>3 DEF LightInv

(* A frame with a key that only lights the screen. *)
LEMMA WakeKeeps == LightInv /\ WakeFrame => LightInv'
<1> SUFFICES ASSUME LightInv, WakeFrame PROVE LightInv'
  OBVIOUS
<1>0. /\ light \in 0 .. FullLight /\ wanted \in 0 .. FullLight /\ cut \in BOOLEAN
      /\ dimmer \in [dimmed : BOOLEAN, user : 0 .. FullLight] /\ screen \in LightScreens
      /\ FullLight \in 0 .. FullLight /\ BedsideDim \in 0 .. FullLight
  BY BacklightAssumption DEF LightInv, LightTypeOK
<1>1. LightTypeOK'
  BY <1>0 DEF WakeFrame, Woken, LightTypeOK
<1>2. LevelIsKept'
  BY <1>0 DEF WakeFrame, Woken, LevelIsKept, LightInv
<1> QED
  BY <1>1, <1>2 DEF LightInv

(* The invariant of the backlight. *)
THEOREM LightInvariant == LightSpec => []LightInv
<1>1. LightInit => LightInv
  <2> SUFFICES ASSUME LightInit PROVE LightInv
    OBVIOUS
  <2>1. FullLight \in 0 .. FullLight
    BY BacklightAssumption
  <2>2. LightTypeOK
    BY <2>1 DEF LightInit, LightTypeOK, LightScreens
  <2>3. LevelIsKept
    BY DEF LightInit, LevelIsKept
  <2> QED
    BY <2>2, <2>3 DEF LightInv
<1>2. LightInv /\ [LightNext]_lightVars => LightInv'
  <2>1. LightInv /\ LightNext => LightInv'
    BY QuietKeeps, KeyKeeps, WakeKeeps DEF LightNext
  <2>2. LightInv /\ UNCHANGED lightVars => LightInv'
    BY DEF lightVars, LightInv, LightTypeOK, LevelIsKept
  <2> QED
    BY <2>1, <2>2
<1> QED
  BY <1>1, <1>2, PTL DEF LightSpec

(* Every level fits its range: the dimmer's share and the steps of the     *)
(* LEDs app neither overflow nor go below zero.                            *)
THEOREM LightTypeCorrect == LightSpec => []LightTypeOK
<1>1. LightInv => LightTypeOK
  BY DEF LightInv
<1> QED
  BY <1>1, LightInvariant, PTL

(* The dimmer gives back the user's level, save where an alarm cut off a   *)
(* dimmed Bedside.                                                         *)
THEOREM LightComesBack == LightSpec => []LightIsRestored
<1>1. LightInv => LightIsRestored
  BY DEF LightInv, LightTypeOK, LevelIsKept, LightIsRestored
<1> QED
  BY <1>1, LightInvariant, PTL

=============================================================================
