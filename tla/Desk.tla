-------------------------------- MODULE Desk --------------------------------
(* The shell of the device and its daily alarm (src/os/src/ui/shell.rs,    *)
(* src/os/src/apps/alarm.rs).  The shell runs one frame after the other:   *)
(* the app on screen, or the menu.  Apps that are not on screen only get   *)
(* their background call; the alarm is the one whose background call can   *)
(* take the screen.                                                        *)
(*                                                                         *)
(* Time is counted in minutes, as many frames to a minute as may be.  The  *)
(* other apps are represented by being on screen or not.                   *)
EXTENDS Integers, FiniteSets

CONSTANTS
  Radio,       \* the board has one: has_radio
  DayLength,   \* minutes in a day
  SnoozeMin,   \* SNOOZE_SECS
  Tunes,       \* number of tunes
  Nothing,
  MaxNow       \* bound: the last minute explored

ASSUME DeskAssumption ==
  /\ Radio \in BOOLEAN
  /\ {DayLength, SnoozeMin, Tunes} \subseteq Nat \ {0}
  /\ MaxNow \in Nat

VARIABLES
  desk,    \* the shell: menu, running, confirming, notice, reset
  alarm,   \* the Alarm app: ringing, fired, snooze, and the copies it edits
  stored,  \* the alarm settings of the config
  now,     \* the clock in minutes, Nothing while it is not set
  opened   \* observation: apps entered and not left since

deskVars == <<desk, alarm, stored, now, opened>>

-----------------------------------------------------------------------------
(* The registries. *)

Networked == {"PhotoFrame", "Messages", "Slideshow", "Weather", "Network"}

GroupApps ==
  [ Frame |-> {"PhotoFrame", "Messages", "Slideshow", "Weather"},
    Fun |-> {"Fireplace", "Aquarium", "Sounds", "Snake"},
    Tools |-> {"Pomodoro", "Stopwatch", "Clock", "Alarm", "Bedside"},
    Developer |-> {"InputTest", "Leds", "DisplayTest", "SpeakerTest"} ]

Groups == DOMAIN GroupApps
Menus == Groups \cup {"Main", "Settings"}

Launch(a) == [do |-> "launch", what |-> a]
Open(m) == [do |-> "open", what |-> m]
Item(i) == [do |-> "item", what |-> i]

Usable(a) == Radio \/ a \notin Networked

(* danger(..) and the entries with confirm: true. *)
Dangers == {"ClearPhotoCache", "Reboot", "RebootToUsb", "FactoryReset"}

(* open: what a menu shows.  A group without a usable app is left off. *)
EntriesOf(menu) ==
  CASE menu = "Main" ->
         {Launch("Hoot"), Launch("About"), Open("Settings")} \cup
         {Open(g) : g \in {g \in Groups : \E a \in GroupApps[g] : Usable(a)}}
    [] menu = "Settings" ->
         {Launch(a) : a \in {a \in {"Network", "Volume"} : Usable(a)}} \cup
         {Item(i) : i \in {"BatterySaver", "Reboot"}
                          \cup IF Radio THEN {"CheckUpdate", "ClearPhotoCache"} ELSE {}}
    [] menu \in Groups ->
         {Launch(a) : a \in {a \in GroupApps[menu] : Usable(a)}} \cup
         {Item(i) : i \in IF menu = "Developer" THEN {"RebootToUsb", "FactoryReset"} ELSE {}}

Entries == UNION {EntriesOf(m) : m \in Menus}
Apps == {e.what : e \in {e \in Entries : e.do = "launch"}}

ASSUME NothingAssumption == Nothing \notin Apps \cup Nat

-----------------------------------------------------------------------------
(* The alarm. *)

AlarmKeys == {"none", "L", "K", "J", "W", "A", "late"}

MinuteOfDay == now % DayLength
Today == now \div DayLength

(* background: is the alarm due, now that it is not on screen? *)
Due ==
  /\ ~alarm.ringing /\ stored.on /\ now # Nothing
  /\ IF alarm.snooze # Nothing THEN now >= alarm.snooze
     ELSE MinuteOfDay = stored.minute /\ alarm.fired # Today

Rung == [alarm EXCEPT !.ringing = TRUE, !.fired = Today, !.snooze = Nothing]

AlarmBackground == IF Due THEN Rung ELSE alarm

(* on_enter copies the settings of the config. *)
AlarmEntered(al) ==
  [al EXCEPT !.on = stored.on, !.minute = stored.minute, !.tone = stored.tone]

(* update, first half: a ringing alarm is stopped, snoozed or gives up. *)
Silenced(al, k) ==
  CASE al.ringing /\ k \in {"L", "J", "late"} -> [al EXCEPT !.ringing = FALSE]
    [] al.ringing /\ k = "K" ->
         [al EXCEPT !.ringing = FALSE, !.snooze = IF now = Nothing THEN Nothing ELSE now + SnoozeMin]
    [] OTHER -> al

(* update, second half, in the same frame: the settings.  J has left by    *)
(* then; W and S, D and A go round the day in hours and in minutes.        *)
Adjusted(al, k) ==
  CASE k = "W" -> [al EXCEPT !.minute = (@ + 1) % DayLength]
    [] k = "A" -> [al EXCEPT !.minute = (@ + DayLength - 1) % DayLength]
    [] k = "L" -> [al EXCEPT !.on = ~@, !.snooze = Nothing]
    [] k = "K" -> [al EXCEPT !.tone = (@ + 1) % Tunes]
    [] OTHER -> al

AlarmFrame(al, k) == LET s == Silenced(al, k) IN IF s.ringing THEN s ELSE Adjusted(s, k)

AlarmLeaves(al, k) == ~Silenced(al, k).ringing /\ k = "J"

(* on_exit saves what was edited, unless the flash refuses. *)
AlarmSettings(al) == [on |-> al.on, minute |-> al.minute, tone |-> al.tone]

-----------------------------------------------------------------------------
(* The shell. *)

NewDesk == [menu |-> "Main", running |-> Nothing, confirming |-> Nothing,
            notice |-> FALSE, reset |-> Nothing]

NewAlarm == [ringing |-> FALSE, fired |-> Nothing, snooze |-> Nothing,
             on |-> FALSE, minute |-> 0, tone |-> 0]

DeskInit ==
  /\ desk = NewDesk
  /\ stored \in [on : BOOLEAN, minute : 0 .. DayLength - 1, tone : {0}]
  /\ alarm = NewAlarm
  /\ now = Nothing
  /\ opened = {}

(* Variant: the alarm takes the screen without a word to the app there. *)
AlarmScreenSilently(al, k) ==
  /\ desk' = [desk EXCEPT !.running = IF AlarmLeaves(al, k) THEN Nothing ELSE "Alarm"]
  /\ alarm' = IF AlarmLeaves(al, k) THEN Silenced(al, k) ELSE AlarmFrame(al, k)
  /\ stored' \in IF AlarmLeaves(al, k) THEN {stored, AlarmSettings(al)} ELSE {stored}
  /\ opened' = IF AlarmLeaves(al, k) THEN opened \ {"Alarm"} ELSE opened \cup {"Alarm"}

(* The frame of the Alarm app, which may have taken the screen just now;   *)
(* whatever was there is left.                                             *)
AlarmScreen(al, k) ==
  LET leaves == AlarmLeaves(al, k)
  IN /\ desk' = [desk EXCEPT !.running = IF leaves THEN Nothing ELSE "Alarm"]
     /\ alarm' = IF leaves THEN Silenced(al, k) ELSE AlarmFrame(al, k)
     /\ stored' \in IF leaves THEN {stored, AlarmSettings(al)} ELSE {stored}
     /\ opened' = (opened \ {desk.running}) \cup (IF leaves THEN {} ELSE {"Alarm"})

(* The frame of another app, whose on_exit follows its Exit. *)
AppFrame ==
  /\ desk.running # Nothing
  /\ \/ UNCHANGED <<desk, opened>>
     \/ /\ desk' = [desk EXCEPT !.running = Nothing]
        /\ opened' = opened \ {desk.running}

(* A quiet minute on the top menu brings Hoot's screen back. *)
IdleToHoot ==
  /\ desk.running = Nothing /\ desk.menu = "Main" /\ ~desk.notice
  /\ desk' = [desk EXCEPT !.running = "Hoot"]
  /\ opened' = opened \cup {"Hoot"}

(* A saved portal page or the answer of an update check puts up a notice,  *)
(* which hides the menu until its time is over.                            *)
Notice ==
  /\ desk' = [desk EXCEPT !.notice = ~@]
  /\ desk.notice => desk.running = Nothing
  /\ UNCHANGED opened

(* perform *)
Performed(d, e) ==
  CASE e.do = "launch" -> [d EXCEPT !.running = e.what]
    [] e.do = "open" -> [d EXCEPT !.menu = e.what]
    [] e.do = "item" /\ e.what \in {"ClearPhotoCache", "BatterySaver", "CheckUpdate"} ->
         [d EXCEPT !.notice = TRUE]
    [] e.do = "item" /\ e.what \in {"Reboot", "FactoryReset"} -> [d EXCEPT !.reset = "normal"]
    [] e.do = "item" /\ e.what = "RebootToUsb" -> [d EXCEPT !.reset = "usb"]

(* Variant: the entry is performed at the first L. *)
SelectedAtOnce(e) == Performed(desk, e)

(* handle_input on the selected entry: dangers ask first. *)
Selected(e) ==
  IF e.do = "item" /\ e.what \in Dangers THEN [desk EXCEPT !.confirming = e]
  ELSE Performed(desk, e)

(* The menu.  W and S move the selection, also under a question, so any    *)
(* entry may be the selected one; the question keeps its own.              *)
MenuFrame ==
  /\ desk.running = Nothing /\ ~desk.notice
  /\ IF desk.confirming # Nothing
       THEN \/ desk' = Performed([desk EXCEPT !.confirming = Nothing], desk.confirming)
            \/ desk' = [desk EXCEPT !.confirming = Nothing]
       ELSE \/ desk' = [desk EXCEPT !.menu = "Main"]
            \/ \E e \in EntriesOf(desk.menu) : desk' = Selected(e)
  /\ opened' = opened \cup ({desk'.running} \ {Nothing})

(* What the frame of the shell saves itself: a factory reset puts the      *)
(* built-in settings back, unless the flash refuses and it is dropped.     *)
StoredBy ==
  IF desk.confirming = Item("FactoryReset") /\ desk'.reset # Nothing
    THEN {stored, AlarmSettings(NewAlarm)} ELSE {stored}

(* After a frame the clock may have moved on: every minute sees a frame. *)
Later == (IF now = Nothing THEN 0 .. DayLength - 1 ELSE {now + 1}) \cap 0 .. MaxNow

DeskFrame ==
  /\ desk.reset = Nothing
  /\ now' \in {now} \cup Later
  /\ IF desk.running = "Alarm" THEN \E k \in AlarmKeys : AlarmScreen(alarm, k)
     ELSE IF AlarmBackground.ringing
       THEN \E k \in AlarmKeys : AlarmScreen(AlarmEntered(AlarmBackground), k)
     ELSE /\ AppFrame \/ IdleToHoot \/ Notice \/ MenuFrame
          /\ alarm' = IF desk'.running = "Alarm" THEN AlarmEntered(alarm) ELSE alarm
          /\ stored' \in StoredBy

(* The frame after a reset was asked for, when its notice has been drawn:  *)
(* the device starts over with what is stored.                             *)
DeskReset ==
  /\ desk.reset # Nothing
  /\ desk' = NewDesk
  /\ alarm' = NewAlarm
  /\ now' = Nothing
  /\ opened' = {}
  /\ UNCHANGED stored

DeskNext == DeskFrame \/ DeskReset

DeskSpec == DeskInit /\ [][DeskNext]_deskVars

-----------------------------------------------------------------------------
Desks == [menu : Menus, running : Apps \cup {Nothing}, confirming : Entries \cup {Nothing},
          notice : BOOLEAN, reset : {Nothing, "normal", "usb"}]
Minutes == 0 .. DayLength - 1
Alarms == [ringing : BOOLEAN, fired : Nat \cup {Nothing}, snooze : Nat \cup {Nothing},
           on : BOOLEAN, minute : Minutes, tone : 0 .. Tunes - 1]

DeskTypeOK ==
  /\ desk \in Desks
  /\ alarm \in Alarms
  /\ stored \in [on : BOOLEAN, minute : Minutes, tone : 0 .. Tunes - 1]
  /\ now \in 0 .. MaxNow \cup {Nothing}
  /\ opened \subseteq Apps

(* The screen has one owner: every app that was entered and is not on      *)
(* screen any more has been left through on_exit, where the apps put out   *)
(* the LEDs and save; and an alarm that rings is the one on screen, where  *)
(* the keys can stop it.                                                   *)
ScreenIsOwned ==
  /\ opened = {desk.running} \ {Nothing}
  /\ alarm.ringing => desk.running = "Alarm"

(* Nothing is wiped or restarted by one key: the step to a reset answers a *)
(* question that was asked in an earlier frame, whatever took the screen   *)
(* in between.                                                             *)
ResetWasConfirmed ==
  [][desk.reset = Nothing /\ desk'.reset # Nothing => desk.confirming # Nothing]_deskVars

(* README.md:178: "While ringing: L stops, K snoozes 5 min". *)
RingingKeysOnlySilence ==
  [][alarm.ringing /\ desk.reset = Nothing => stored' = stored /\ AlarmSettings(alarm') = AlarmSettings(alarm)]_deskVars

=============================================================================
