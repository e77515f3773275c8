-------------------------------- MODULE Pet --------------------------------
(* The owl as plain numbers (src/proto/src/pet.rs): energy, adventures,    *)
(* today's goals and the days before.  Operators only; Hoot.tla has the    *)
(* app that keeps one of these and saves it.  The check-ins of the last    *)
(* days, which shift along with goalHist, and the hour of birth are left   *)
(* out: they are only drawn.                                               *)
EXTENDS Integers, FiniteSets, Sequences

CONSTANTS
  CheckInGoal,    \* the goal a check-in completes
  FocusGoal,      \* the goal a Pomodoro session completes
  BreatheGoal,    \* the goal a breathing exercise completes
  PlainGoals,     \* the goals that are only ticked
  PerGoal,        \* ENERGY_PER_GOAL
  PerHug,         \* ENERGY_PER_HUG
  FullEnergy,           \* ENERGY_FULL
  HistoryDays,    \* length of history and goal_hist
  UnlockAt        \* adventures each outfit needs, outfit 0 first

ASSUME PetAssumption ==
  /\ {PerGoal, PerHug, FullEnergy, HistoryDays} \subseteq Nat \ {0}
  /\ IsFiniteSet(PlainGoals)
  /\ UnlockAt \in Seq(Nat) /\ Len(UnlockAt) > 0 /\ UnlockAt[1] = 0

Goals == PlainGoals \cup {CheckInGoal, FocusGoal, BreatheGoal}

Outfits == 0 .. Len(UnlockAt) - 1

NewPet ==
  [energy |-> 0, adventures |-> 0, total |-> 0, day |-> 0, done |-> {},
   checkin |-> 0, goalHist |-> [i \in 1 .. HistoryDays |-> 0],
   intro |-> FALSE, outfit |-> 0]

GoalsToday(p) == Cardinality(p.done)

Unlocked(p, o) == p.adventures >= UnlockAt[o + 1]

(* The next one earned, round and round; outfit 0 is always earned. *)
NextOutfit(p) ==
  LET after(s) == (p.outfit + s) % Len(UnlockAt)
      first == CHOOSE s \in 1 .. Len(UnlockAt) :
                 /\ Unlocked(p, after(s))
                 /\ \A t \in 1 .. s - 1 : ~Unlocked(p, after(t))
  IN [p EXCEPT !.outfit = after(first)]

(* Variant: yesterday's ticks stay on the list of the new day. *)
NewDayKeepsDone(p, d) ==
  IF p.day = d THEN p
  ELSE [p EXCEPT !.goalHist = Append(Tail(@), GoalsToday(p)),
                 !.day = d, !.checkin = 0]

(* Any other day is a new one, an earlier one too; the day before the      *)
(* first known date joins no history.                                      *)
NewDay(p, d) ==
  IF p.day = d THEN p
  ELSE [p EXCEPT !.goalHist = IF p.day = 0 THEN @ ELSE Append(Tail(@), GoalsToday(p)),
                 !.day = d, !.done = {}, !.checkin = 0]

Complete(p, g) ==
  IF g \in p.done THEN p
  ELSE [p EXCEPT !.done = @ \cup {g}, !.total = @ + 1,
                 !.energy = IF @ + PerGoal > FullEnergy THEN FullEnergy ELSE @ + PerGoal]

Uncomplete(p, g) ==
  IF g \notin p.done THEN p
  ELSE [p EXCEPT !.done = @ \ {g}, !.total = IF @ = 0 THEN 0 ELSE @ - 1,
                 !.energy = IF @ < PerGoal THEN 0 ELSE @ - PerGoal]

(* Once a day; it counts as a goal. *)
CheckIn(p, face) ==
  IF p.checkin # 0 THEN p ELSE Complete([p EXCEPT !.checkin = face], CheckInGoal)

Ready(p) == p.energy >= FullEnergy

Adventure(p) ==
  IF Ready(p) THEN [p EXCEPT !.energy = 0, !.adventures = @ + 1] ELSE p

Hug(p) == [p EXCEPT !.energy = IF @ + PerHug > FullEnergy THEN FullEnergy ELSE @ + PerHug]

PetOK(p) ==
  /\ p.energy \in 0 .. FullEnergy
  /\ {p.adventures, p.total, p.day} \subseteq Nat
  /\ p.done \subseteq Goals
  /\ p.checkin \in Nat
  /\ p.goalHist \in [1 .. HistoryDays -> 0 .. Cardinality(Goals)]
  /\ p.intro \in BOOLEAN
  /\ p.outfit \in Outfits

=============================================================================
