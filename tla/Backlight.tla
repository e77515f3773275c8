----------------------------- MODULE Backlight ------------------------------
(* Who sets the brightness of the screen: the idle dimmer of the frame     *)
(* loop (src/os/src/main.rs), the Bedside app, the LEDs app, and the shell *)
(* when an alarm takes the screen from one of them.                        *)
EXTENDS Integers

CONSTANTS
  FullLight,         \* 255
  BedsideDim,   \* DIM of bedside.rs
  DimPercent,   \* DIM_PERCENT
  DimMin,       \* DIM_MIN
  LedsStep,     \* STEP of leds.rs
  LedsMin       \* BACKLIGHT_MIN

ASSUME BacklightAssumption ==
  /\ {FullLight, BedsideDim, DimPercent, DimMin, LedsStep, LedsMin} \subseteq Nat
  /\ BedsideDim <= FullLight /\ DimMin <= FullLight /\ LedsMin <= FullLight /\ DimPercent <= 100

VARIABLES
  light,    \* level of the backlight
  dimmer,   \* IdleDimmer: dimmed and user_level
  screen,   \* the app on screen
  wanted,   \* observation: the level the user has last chosen or got back
  cut       \* observation: an alarm ended Bedside while the screen was dimmed,
            \* and nobody has chosen a level since

lightVars == <<light, dimmer, screen, wanted, cut>>

LightScreens == {"menu", "Bedside", "Leds", "Alarm"}

Larger(a, b) == IF a > b THEN a ELSE b
Smaller(a, b) == IF a < b THEN a ELSE b

LightInit ==
  /\ light = FullLight
  /\ dimmer = [dimmed |-> FALSE, user |-> FullLight]
  /\ screen = "menu"
  /\ wanted = FullLight
  /\ cut = FALSE

(* Variant: a key only ends the dimming. *)
KeyLeavesLight == [light |-> light, dimmer |-> [dimmer EXCEPT !.dimmed = FALSE]]

(* IdleDimmer::update while a key is held. *)
Woken ==
  [light |-> IF dimmer.dimmed THEN dimmer.user ELSE light,
   dimmer |-> [dimmer EXCEPT !.dimmed = FALSE]]

(* IdleDimmer::update without a key: dim after a while on battery, light   *)
(* up again on external power.                                             *)
Rested(saver, idle) ==
  CASE dimmer.dimmed /\ ~saver -> Woken
    [] saver /\ ~dimmer.dimmed /\ idle ->
         [light |-> Larger((light * DimPercent) \div 100, DimMin),
          dimmer |-> [dimmed |-> TRUE, user |-> light]]
    [] OTHER -> [light |-> light, dimmer |-> dimmer]

(* Dimmer::adjust of the LEDs app. *)
AdjustedLight(l, up) ==
  IF up THEN Smaller(l + LedsStep, FullLight) ELSE Larger(l - LedsStep, LedsMin)

(* A frame without a key.  Bedside sets its own level in every frame; an   *)
(* alarm that starts to ring ends it with on_exit and full light.          *)
QuietFrame ==
  \E saver \in BOOLEAN, idle \in BOOLEAN :
    LET r == Rested(saver, idle)
    IN /\ dimmer' = r.dimmer
       /\ \/ /\ UNCHANGED <<screen, wanted, cut>>
             /\ light' \in IF screen = "Bedside" THEN {FullLight, BedsideDim} ELSE {r.light}
          \/ /\ screen # "Alarm"
             /\ screen' = "Alarm"
             /\ cut' = (cut \/ (screen = "Bedside" /\ r.dimmer.dimmed))
             /\ light' = IF screen = "Bedside" THEN FullLight ELSE r.light
             /\ wanted' = IF screen = "Bedside" THEN FullLight ELSE wanted

(* A frame with a key that found the screen lit: the app acts on it. *)
KeyFrame ==
  /\ ~dimmer.dimmed
  /\ UNCHANGED dimmer
  /\ \/ /\ screen' = (IF screen = "menu" THEN "Bedside" ELSE "menu")
        /\ light' = FullLight /\ wanted' = FullLight /\ cut' = FALSE
        /\ screen \in {"menu", "Bedside"}
     \/ /\ screen \in {"menu", "Leds", "Alarm"}
        /\ screen' \in IF screen = "menu" THEN {"menu", "Leds"} ELSE {"menu"}
        /\ UNCHANGED <<light, wanted, cut>>
     \/ /\ screen = "Leds"
        /\ \E up \in BOOLEAN : light' = AdjustedLight(light, up)
        /\ wanted' = light' /\ cut' = FALSE
        /\ UNCHANGED screen
     \/ /\ screen = "Bedside"
        /\ light' = FullLight
        /\ UNCHANGED <<screen, wanted, cut>>

(* A frame with a key that found the screen dimmed: the key is swallowed,  *)
(* no app acts on it.                                                      *)
WakeFrame ==
  /\ dimmer.dimmed
  /\ dimmer' = Woken.dimmer
  /\ light' \in IF screen = "Bedside" THEN {FullLight, BedsideDim} ELSE {Woken.light}
  /\ UNCHANGED <<screen, wanted, cut>>

LightNext == QuietFrame \/ KeyFrame \/ WakeFrame

LightSpec == LightInit /\ [][LightNext]_lightVars

-----------------------------------------------------------------------------
LightTypeOK ==
  /\ light \in 0 .. FullLight /\ wanted \in 0 .. FullLight
  /\ dimmer \in [dimmed : BOOLEAN, user : 0 .. FullLight]
  /\ screen \in LightScreens
  /\ cut \in BOOLEAN

(* main.rs:93-94: the dimmer "restores it on the first key press".  While  *)
(* the screen is not dimmed it has the level the user last chose; Bedside  *)
(* alone has its own.  The one exception: an alarm that ends Bedside while *)
(* it is dimmed, for the dimmer then gives back what it found in Bedside.  *)
LightIsRestored == ~dimmer.dimmed /\ screen # "Bedside" => (light = wanted) \/ cut

=============================================================================
