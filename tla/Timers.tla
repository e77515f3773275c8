------------------------------- MODULE Timers -------------------------------
(* The Pomodoro and the Stopwatch (src/os/src/apps/pomodoro.rs,            *)
(* stopwatch.rs).  Both count on a 32-bit millisecond clock that wraps.    *)
(* Here a tick stands for a minute of work and the clock has period Wrap.  *)
EXTENDS Integers, Sequences

CONSTANTS
  Wrap,        \* 2^32
  Works,       \* lengths of work the keys reach (5 .. 90 min)
  Breaks,      \* lengths of a break the keys reach (1 .. 30 min)
  MaxSessions, \* 255: sessions saturates
  MaxLaps,     \* MAX_LAPS
  MaxRun,      \* bound: ticks the stopwatch may run
  MaxBase      \* bound: laps the list may drop

ASSUME TimersAssumption ==
  /\ {Wrap, MaxSessions, MaxLaps} \subseteq Nat \ {0}
  /\ Works \cup Breaks \subseteq 1 .. (Wrap \div 2) - 1

VARIABLES
  millis,   \* the clock, modulo Wrap
  pomo,     \* the Pomodoro: phase, work, break, paused, endsAt, sessions
  ran,      \* observation: ticks the phase and the stopwatch have run, and
            \* what the stopwatch had run at each lap since its reset
  watch     \* the Stopwatch: banked, started, laps, base

timerVars == <<millis, pomo, ran, watch>>

NotPaused == Wrap      \* paused_ms: None
Stopped == Wrap        \* started_ms: None

Ahead(t) == (t - millis + Wrap) % Wrap
After(n) == (millis + n) % Wrap

LengthOf(p) == IF p.phase = "Work" THEN p.work ELSE p.break

Running(p) == p.phase # "Ready" /\ p.paused = NotPaused

(* Variant: a compare that knows nothing of the wrap. *)
PlainRemaining(p) ==
  CASE p.phase = "Ready" -> p.work
    [] p.phase # "Ready" /\ p.paused # NotPaused -> p.paused
    [] OTHER -> IF p.endsAt <= millis THEN 0 ELSE p.endsAt - millis

(* remaining_ms: more than half a period ahead is past. *)
Remaining(p) ==
  CASE p.phase = "Ready" -> p.work
    [] p.phase # "Ready" /\ p.paused # NotPaused -> p.paused
    [] OTHER -> IF Ahead(p.endsAt) >= Wrap \div 2 THEN 0 ELSE Ahead(p.endsAt)

Start(p, phase) ==
  LET q == [p EXCEPT !.phase = phase]
  IN [q EXCEPT !.paused = NotPaused, !.endsAt = After(LengthOf(q))]

Advance(p) ==
  IF p.phase = "Work"
    THEN Start([p EXCEPT !.sessions = IF @ = MaxSessions THEN @ ELSE @ + 1], "Break")
    ELSE Start(p, "Work")

(* The keys: L starts, pauses and resumes; K stops, or clears the count;   *)
(* the others set the lengths while nothing runs.                          *)
PressL(p) ==
  CASE p.phase = "Ready" -> Start(p, "Work")
    [] p.phase # "Ready" /\ p.paused # NotPaused ->
         [p EXCEPT !.paused = NotPaused, !.endsAt = After(p.paused)]
    [] OTHER -> [p EXCEPT !.paused = Remaining(p)]

PressK(p) ==
  IF p.phase = "Ready" THEN [p EXCEPT !.sessions = 0]
  ELSE [p EXCEPT !.phase = "Ready", !.paused = NotPaused]

KeyFrames(p) ==
  {p, PressL(p), PressK(p)} \cup
  IF p.phase = "Ready" THEN {[p EXCEPT !.work = l[1], !.break = l[2]] : l \in Works \X Breaks} ELSE {}

(* update, and background with no key: the phase ends when it was running  *)
(* before the key and has nothing left after it.                           *)
PomoFrame ==
  \E p \in KeyFrames(pomo) :
    LET ends == Running(pomo) /\ Remaining(p) = 0
    IN /\ pomo' = IF ends THEN Advance(p) ELSE p
       /\ ran' = IF ends \/ pomo'.phase # pomo.phase THEN [ran EXCEPT !.phase = 0] ELSE ran
       /\ UNCHANGED <<millis, watch>>

-----------------------------------------------------------------------------
Elapsed == (watch.banked + IF watch.started = Stopped THEN 0 ELSE (millis - watch.started + Wrap) % Wrap) % Wrap

(* lap: a full list drops its oldest and counts it. *)
Lapped ==
  IF Len(watch.laps) = MaxLaps
    THEN [watch EXCEPT !.laps = Append(Tail(@), Elapsed), !.base = @ + 1]
    ELSE [watch EXCEPT !.laps = Append(@, Elapsed)]

WatchReset == [banked |-> 0, started |-> Stopped, laps |-> <<>>, base |-> 0]

(* L starts and stops; K takes a lap, or resets a stopped watch. *)
WatchFrame ==
  /\ \/ /\ watch.started = Stopped
        /\ \/ watch' = [watch EXCEPT !.started = millis] /\ UNCHANGED ran
           \/ watch' = WatchReset /\ ran' = [ran EXCEPT !.watch = 0, !.laps = <<>>]
     \/ /\ watch.started # Stopped
        /\ \/ watch' = [watch EXCEPT !.banked = Elapsed, !.started = Stopped] /\ UNCHANGED ran
           \/ watch' = Lapped /\ ran' = [ran EXCEPT !.laps = Append(@, ran.watch)]
  /\ watch'.base <= MaxBase
  /\ UNCHANGED <<millis, pomo>>

(* Time passes between two frames.  A tick takes many frames: the phase    *)
(* that has run out is advanced before the next one.                       *)
Tick ==
  /\ ~(Running(pomo) /\ Remaining(pomo) = 0)
  /\ millis' = After(1)
  /\ ran.watch <= MaxRun
  /\ ran' = [ran EXCEPT !.phase = IF Running(pomo) THEN @ + 1 ELSE @,
                        !.watch = IF watch.started # Stopped THEN @ + 1 ELSE @]
  /\ UNCHANGED <<pomo, watch>>

TimerInit ==
  /\ millis = 0
  /\ pomo \in [phase : {"Ready"}, work : Works, break : Breaks, paused : {NotPaused},
               endsAt : {0}, sessions : {0}]
  /\ ran = [phase |-> 0, watch |-> 0, laps |-> <<>>]
  /\ watch = WatchReset

(* The two share nothing but the clock. *)
PomoNext == PomoFrame \/ Tick
WatchNext == WatchFrame \/ Tick

TimerSpec == TimerInit /\ [][PomoNext \/ WatchNext]_timerVars

-----------------------------------------------------------------------------
TimerTypeOK ==
  /\ millis \in 0 .. Wrap - 1
  /\ pomo \in [phase : {"Ready", "Work", "Break"}, work : Works, break : Breaks,
               paused : 0 .. Wrap, endsAt : 0 .. Wrap - 1, sessions : 0 .. MaxSessions]
  /\ ran \in [phase : Nat, watch : Nat, laps : Seq(Nat)]
  /\ watch \in [banked : 0 .. Wrap - 1, started : 0 .. Wrap, laps : Seq(0 .. Wrap - 1), base : Nat]
  /\ Len(watch.laps) <= MaxLaps

(* A phase lasts its length, whatever the pauses and wherever the clock    *)
(* wraps: what has run and what remains add up to it.  The stopwatch shows *)
(* the time it ran; the laps it lists are the last ones taken, each under  *)
(* its own number and with the time run when it was taken, and those that  *)
(* left the list are counted.                                              *)
TimersKeepTime ==
  /\ pomo.phase # "Ready" => ran.phase + Remaining(pomo) = LengthOf(pomo)
  /\ Elapsed = ran.watch % Wrap
  /\ watch.base + Len(watch.laps) = Len(ran.laps)
  /\ \A i \in 1 .. Len(watch.laps) : watch.laps[i] = ran.laps[watch.base + i] % Wrap

=============================================================================
