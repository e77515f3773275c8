-------------------------------- MODULE Hoot --------------------------------
(* Hoot's app (src/os/src/apps/hoot.rs): it lives in every frame, on the   *)
(* screen or not, takes the hugs, focus sessions and resets other parts    *)
(* flagged for it, and saves the pet to the config a while after a change. *)
(*                                                                         *)
(* A frame sees one event at most: a key, the end of a breath or a flight, *)
(* or one of the flags; several in a frame act as in frames that follow    *)
(* one another.  It sees the day of the clock: that of the pet, which also *)
(* stands for a clock that is not set, or any other, as one corrected has. *)
EXTENDS Pet

CONSTANTS MaxDay, MaxTotal, MaxTrips, MaxFaults   \* bounds of the exploration

ASSUME HootAssumption == {MaxDay, MaxTotal, MaxTrips, MaxFaults} \subseteq Nat

VARIABLES
  hoot,    \* the fields of HootApp
  kept,    \* the pet of the config in flash
  front,   \* Hoot's screen is the one shown
  handed,  \* observation: the pet last loaded from the flash or handed to it
  unkept   \* observation: saves the flash refused since the last good one

hootVars == <<hoot, kept, front, handed, unkept>>

Flags == {"hug", "focus", "reset"}

(* What a frame may see: nothing, a key, the end of a breath or a flight,  *)
(* or L, given as the goal that W and S had chosen (any of them).          *)
Events == {"none", "J", "K", "I", "D", "over"} \cup Goals
L == Goals
Face == 1     \* the faces are not told apart
HootScreens == {"intro", "home", "checkin", "breathe", "adventure", "week"}

NewApp == [pet |-> NewPet, loaded |-> FALSE, dirty |-> FALSE,
           screen |-> "home", step |-> 0]

HootInit ==
  /\ hoot = NewApp
  /\ kept = NewPet
  /\ front = FALSE
  /\ handed = kept
  /\ unkept = 0

-----------------------------------------------------------------------------
Changed(h) == [h EXCEPT !.dirty = TRUE]

With(h, p) == [h EXCEPT !.pet = p]

To(h, screen) == [h EXCEPT !.screen = screen]

At(h, step) == [h EXCEPT !.step = step]

Loaded(h) == IF h.loaded THEN h ELSE [With(h, kept) EXCEPT !.loaded = TRUE]

(* The clock is known: it may be a new day. *)
Dated(h, today) ==
  LET p == NewDay(h.pet, today)
  IN IF today = 0 \/ p = h.pet THEN h ELSE Changed(With(h, p))

Restarted(h, asked) ==
  IF "reset" \in asked
    THEN Changed(At(To(With(h, NewPet), "intro"), 0))
    ELSE h

Focused(h, asked) ==
  IF "focus" \in asked /\ FocusGoal \notin h.pet.done
    THEN Changed(With(h, Complete(h.pet, FocusGoal))) ELSE h

Hugged(h, asked) == IF "hug" \in asked THEN Changed(With(h, Hug(h.pet))) ELSE h

Clean(h) == [h EXCEPT !.dirty = FALSE]

(* What simulate makes of the app before it decides to save. *)
Simulate(today, asked) ==
  Hugged(Focused(Restarted(Dated(Loaded(hoot), today), asked), asked), asked)

-----------------------------------------------------------------------------
(* The screens: what a frame makes of the app, by the event it saw.        *)

IntroFrame(h, k) ==
  CASE h.step \in {0, 3, 4} /\ k \in L -> At(h, h.step + 1)
    [] h.step \in {1, 2} /\ k = "over" -> At(h, h.step + 1)
    [] h.step = 5 /\ k \in L -> Changed(To(With(h, [h.pet EXCEPT !.intro = TRUE]), "home"))
    [] OTHER -> h

(* L on the selected goal. *)
TickGoal(h, g) ==
  CASE g = CheckInGoal -> IF h.pet.checkin = 0 THEN To(h, "checkin") ELSE h
    [] g = BreatheGoal -> To(h, "breathe")
    [] OTHER -> Changed(With(h, IF g \in h.pet.done THEN Uncomplete(h.pet, g)
                                                     ELSE Complete(h.pet, g)))

Dressed(h) ==
  LET p == NextOutfit(h.pet)
  IN IF p.outfit = h.pet.outfit THEN h ELSE Changed(With(h, p))

(* Variant: the flight is not marked as a change. *)
FliesUnmarked(h) == To(With(h, Adventure(h.pet)), "adventure")

Flies(h) == Changed(To(With(h, Adventure(h.pet)), "adventure"))

HomeFrame(h, k) ==
  CASE k \in L -> TickGoal(h, k)
    [] k = "K" /\ Ready(h.pet) -> Flies(h)
    [] k = "I" -> To(h, "week")
    [] k = "D" -> Dressed(h)
    [] OTHER -> h

CheckInFrame(h, k) ==
  CASE k \in L -> Changed(To(With(h, CheckIn(h.pet, Face)), "home"))
    [] k = "J" -> To(h, "home")
    [] OTHER -> h

BreatheFrame(h, k) ==
  CASE k = "J" -> To(h, "home")
    [] k = "over" ->
         IF BreatheGoal \in h.pet.done THEN To(h, "home")
         ELSE Changed(To(With(h, Complete(h.pet, BreatheGoal)), "home"))
    [] OTHER -> h

AdventureFrame(h, k) == IF k = "over" THEN To(h, "home") ELSE h

WeekFrame(h, k) == IF k \in {"J", "I"} THEN To(h, "home") ELSE h

ScreenFrame(h, k) ==
  CASE h.screen = "intro" -> IntroFrame(h, k)
    [] h.screen = "home" -> HomeFrame(h, k)
    [] h.screen = "checkin" -> CheckInFrame(h, k)
    [] h.screen = "breathe" -> BreatheFrame(h, k)
    [] h.screen = "adventure" -> AdventureFrame(h, k)
    [] OTHER -> WeekFrame(h, k)

Within(p) == p.total <= MaxTotal /\ p.adventures <= MaxTrips

-----------------------------------------------------------------------------
(* save: the flash takes the pet or refuses it; either way the app thinks  *)
(* it is saved.                                                            *)
SaveInto(p) ==
  /\ handed' = p
  /\ \/ kept' = p /\ unkept' = 0
     \/ p # kept /\ unkept < MaxFaults /\ kept' = kept /\ unkept' = unkept + 1

KeepNothing == UNCHANGED <<kept, handed, unkept>>

(* The end of simulate: a, which goes on to the rest of the frame, is h    *)
(* saved when the last save is 2 s ago (10 min for a new day alone), or    *)
(* not yet.  Loading counts as a save.                                     *)
SaveOrNot(h, a) ==
  \/ a = h /\ KeepNothing
  \/ h.dirty /\ hoot.loaded /\ a = Clean(h) /\ SaveInto(h.pet)

(* background: another app, or the menu, has the screen. *)
HootBackground(h) ==
  /\ ~front
  /\ \E a \in {h, Clean(h)} : SaveOrNot(h, a) /\ hoot' = a
  /\ UNCHANGED front

HootEnter(h) ==
  /\ ~front
  /\ front' = TRUE
  /\ \E a \in {h, Clean(h)} :
       /\ SaveOrNot(h, a)
       /\ hoot' = IF a.pet.intro THEN To(a, "home") ELSE At(To(a, "intro"), 0)

HootUpdate(h, k) ==
  /\ front
  /\ ~(h.screen = "home" /\ k = "J")
  /\ \E a \in {h, Clean(h)} : SaveOrNot(h, a) /\ hoot' = ScreenFrame(a, k)
  /\ UNCHANGED front

(* J on the home screen, or the shell that takes the screen for the alarm: *)
(* on_exit saves what is dirty.                                            *)
HootExit(h) ==
  /\ front
  /\ front' = FALSE
  /\ hoot' = Clean(h)
  /\ IF h.dirty THEN SaveInto(h.pet) ELSE KeepNothing

HootFrame ==
  \E today \in {hoot.pet.day} \cup 1 .. MaxDay, asked \in {{}} \cup {{f} : f \in Flags} :
     LET h == Simulate(today, asked)
         more == today # hoot.pet.day \/ asked # {}
     IN \/ HootBackground(h)
        \/ HootEnter(h)
        \/ \E k \in IF more THEN {"none"} ELSE Events : HootUpdate(h, k)
        \/ HootExit(h)

(* RAM is lost; a save is atomic here (ConfigStore, ImplementsCell). *)
HootReboot ==
  /\ hoot' = NewApp
  /\ front' = FALSE
  /\ handed' = kept
  /\ unkept' = 0
  /\ UNCHANGED kept

(* Bound: a second change waits until the first is saved; on top of one    *)
(* that the flash refused it comes while no goal is stored.                *)
Prompt ==
  hoot.loaded /\ hoot'.pet # hoot.pet =>
    \/ hoot.pet = kept \/ kept' # kept
    \/ hoot.pet = handed /\ kept.total = 0

HootNext ==
  \/ HootFrame /\ Within(hoot'.pet) /\ Prompt
  \/ HootReboot

HootSpec == HootInit /\ [][HootNext]_hootVars

-----------------------------------------------------------------------------
HootTypeOK ==
  /\ PetOK(hoot.pet) /\ PetOK(kept) /\ PetOK(handed) /\ unkept \in Nat
  /\ hoot.screen \in HootScreens /\ hoot.step \in 0 .. 5
  /\ front \in BOOLEAN

SumOfWeek(p) ==
  LET sum[i \in 0 .. HistoryDays] == IF i = 0 THEN 0 ELSE sum[i - 1] + p.goalHist[i]
  IN sum[HistoryDays]

(* The goals of today and of the remembered days are all in the all-time   *)
(* count (pet.rs goals_total, goal_hist): through check-ins, ticks taken   *)
(* back, days that end in the middle of an exercise, a clock that is       *)
(* corrected, resets and reboots, no goal of the week is counted twice.    *)
GoalsAddUp ==
  \A p \in {hoot.pet, kept} : SumOfWeek(p) + GoalsToday(p) <= p.total

(* A change stays marked until it is handed to the flash, after a refused  *)
(* save as before; and what was handed is in flash unless it was refused,  *)
(* which is what gives a change up (hoot.rs save drops error and mark).    *)
UnsavedIsDirty ==
  /\ hoot.loaded /\ hoot.pet # handed => hoot.dirty
  /\ handed # kept => unkept > 0

=============================================================================
