# Hoot, specified in TLA+

Hoot is the operating system of a Hack Club Sprig (RP2040, plain Pico or Pico
W): a Rust program on Embassy that shows photos, keeps a pet owl, sets itself
up over a hotspot, is served remotely over a heartbeat, and updates itself.
This directory holds TLA+ modules of the parts whose correctness depends on
order, failure and time, the TLC configurations that check them, and TLAPS
proofs of the properties that matter most. Every definition is translated from
the source; `PROJECT.json` maps each one to its lines.

## 1. Inventory

The program is one cooperative executor. The main task runs a frame every
16 ms: `agent.update`, then `shell.update`, with no await between them
(main.rs:320-377). The Wi-Fi task, its drivers and the audio task run in the
awaits between frames. They share the struct `Shared` (net/mod.rs:220-261)
behind a critical section, and the flash behind a mutex. So a step of the
system is what one task does between two awaits, and the interesting
interleavings are those of frames and steps of the Wi-Fi task. Two things
interrupt at any instant: the power, and the flash or network failing.

| Part | Source | State | Operations | Hard behaviour |
| --- | --- | --- | --- | --- |
| Config store | storage/mod.rs, storage/config.rs | two flash sectors, RAM copy, sequence number | load, update_config, factory reset | power cut inside an erase or a program, driver errors, wrap of the sequence number, longer records of newer firmware |
| Blob slots | storage/blob.rs | 64 KiB slots with a header sector | begin, write, finish, erase | power cut while streaming, erase by another task meanwhile |
| Network service | net/mod.rs, net/wifi.rs | `Shared`: flags, settings, one request and one job per lane; where the Wi-Fi task is | join, DHCP, hotspot, serve; the calls of `NetHandle` | requests queued while the link drops or the hotspot opens, refused joins, starvation of a lane |
| HTTP client | net/http.rs | one socket | fetch into RAM, slot, frame or update partition | every read and write may fail half way |
| Setup portal | net/portal.rs, dhcp.rs, dns.rs | the settings the page was built from, leases | page, save, timeout | page older than the settings, a fifth client |
| OS agent | agent.rs, clock.rs | the job it waits for, timers, the trial of a server, update state | heartbeat, commands, revert, update check, goals, warnings | stale answers, trial across restarts, failing saves, commands in answers |
| Shell | ui/shell.rs | running app, menu, notices, open question, pending reset | store the page's settings, switch apps, background calls | an alarm or an idle minute changes the screen under a question; one frame of delay between a reset and its restart |
| Photo apps | apps/photo_frame.rs, slideshow.rs | slot on screen, timestamp, list of ids | poll, show, cache | commands that forget the cache while a fetch is in flight |
| Network apps | apps/slideshow.rs, messages.rs, weather.rs | what each waits for, lists, cached photos | ask, take the answer, leave | one lane for all, answers after their app has gone |
| Alarm and timers | apps/alarm.rs, pomodoro.rs, stopwatch.rs | ringing, snooze, day fired; ends of phases on a 32-bit clock | background, stop, snooze, pause | keys that act twice in a frame, wrap of the clock |
| Backlight | main.rs, drivers/dimmer.rs, apps/bedside.rs, leds.rs | level, level to go back to | dim, wake, set, leave | three owners of one level |
| Pet | apps/hoot.rs, proto/src/pet.rs | goals, energy, history, unsaved changes | goals, hugs, new day, save | days that end in the middle of an exercise, failing saves |
| Sound | audio.rs | one request, two buffers | play, take over | a new sound while DMA plays |
| Firmware update | ota.rs, main.rs, boot/src/main.rs | two partitions, swap state | stream, mark, confirm, roll back | restart before the confirmation, rollback with a newer config record |
| Warning log | logging.rs | ring of lines, count unsent | remember, drain | drained before the POST succeeded |
| Config record | proto/src/record.rs | fields in order | encode, decode | a record of older firmware ends anywhere |
| Games, drawing, drivers, other parsers | the rest | local | local | few: one underflow in the snake |

What makes each part correct:

- config store: a start finds the last acknowledged save; nothing tears;
- blob slots: a valid header means complete data;
- network service: every job ends, each caller gets its own answer, the device
  is reachable again after any trouble, the system lane is not starved;
- agent: a device moved to a dead server comes back, an answer is taken by
  the request that asked for it, an update check ends, RAM, flash and network
  task agree on the settings;
- photo apps: the slot in use is not rewritten, the timestamp belongs to the
  photo and to the server in use;
- firmware update: an image that reached the server stays, one that does not
  goes away, and the config survives either;
- shell and alarm: the screen has one owner, a ringing alarm gets the keys, and
  nothing is wiped or restarted unasked;
- backlight: a screen that is not dimmed has the level the user chose;
- pet: what changed is saved in the end, and no goal counts twice;
- network apps: each takes only its own answer, what a visit asks for takes the
  place of no photo of its list, a note shown as seen was reported;
- timers, hotspot leases, warning log, sound, record: phases last their length,
  addresses differ, warnings arrive in order, a sound is heard whole and in
  order, older records read field by field.

`PROJECT.json` lists every component with its status, and under "hazards" each
thing that is hard to test, at the line where it bites, with the properties
that cover it, or the reason none does.

## 2. Modules

| Module | Models | Uses |
| --- | --- | --- |
| `AtomicConfig` | the promise of the storage: one config cell that survives power cuts | |
| `ConfigStore` | storage/mod.rs and config.rs, implements `AtomicConfig` | `AtomicConfig` |
| `ConfigStoreProofs` | theorems about `ConfigStore` | TLAPS |
| `AtomicBlobs` | the promise of the blob slots: empty or a whole blob | |
| `BlobSlots` | storage/blob.rs and the body loop of net/http.rs, implements `AtomicBlobs` | `AtomicBlobs` |
| `BlobSlotsProofs` | theorems about `BlobSlots` | TLAPS |
| `AtomicLanes` | the promise of `NetHandle`: on each lane one request, owed one answer of its own | |
| `NetService` | net/wifi.rs and the calls of `NetHandle` in net/mod.rs, implements `AtomicLanes` | `AtomicLanes` |
| `NetworkProofs` | theorems about `NetService`, `Leases` and `WarningLog` | TLAPS |
| `Agent` | agent.rs, the portal handling of ui/shell.rs, the photo server | instance of `NetService`, `AtomicLanes` |
| `AgentProofs` | theorems about `Agent` | TLAPS |
| `PhotoFrame` | apps/photo_frame.rs, the commands of agent.rs and ui/shell.rs that touch its cache, another app on the lane | instance of `NetService`, `AtomicLanes`; slots as `AtomicBlobs` promises |
| `PhotoFrameProofs` | theorems about `PhotoFrame` | TLAPS |
| `AtomicUpdate` | the promise of the trial boot: one image to go back to, perhaps another on trial | |
| `OtaBoot` | ota.rs, the trial boot of main.rs, the update jobs of agent.rs, the boot loader, implements `AtomicUpdate` | operators of `ConfigStore`, `AtomicUpdate` |
| `OtaBootProofs` | theorems about `OtaBoot` | TLAPS |
| `Desk` | menus, questions, resets and app switching of ui/shell.rs with apps/alarm.rs | |
| `Backlight` | the idle dimmer of main.rs, apps/bedside.rs, apps/leds.rs | |
| `Pet`, `Hoot` | proto/src/pet.rs (operators), apps/hoot.rs | `Pet` |
| `LaneApps` | apps/slideshow.rs, messages.rs, weather.rs on the app lane | `AtomicLanes`, `AtomicBlobs` |
| `Leases` | net/dhcp.rs and the phones of the hotspot | |
| `Timers` | apps/pomodoro.rs, apps/stopwatch.rs | |
| `WarningLog` | logging.rs and its POST | |
| `Speaker` | audio.rs | |
| `Record` | the fields of proto/src/record.rs | |
| `AppsProofs` | theorems about `Timers`, `Hoot`, `LaneApps`, `Speaker`, `Record`, `Desk` and `Backlight` | TLAPS |
| `MCParts` | the parts that share no state, one instance | all of these, `ConfigStore`, `NetService` |
| `PartsProofs` | theorems about the device that `MCParts` composes | the three modules of proofs of its parts |
| other `MC*` | small instances for TLC | |

### ConfigStore

A sector is what `record::decode` can tell of it: a complete record (config,
sequence number, record length) or `Invalid`. `update_config` is cut into the
three points a power cut can separate: `Update` (decide, choose the sector),
`Erase`, `Write`. `Fail` is a driver error in either, with the sector in any
state the operation can leave; `PowerCut` may come at any time and leaves the
sector under way as it was, unreadable, or finished. `Boot` is `Storage::new`
with the wrapping compare of `load`, by an image whose record is at least as
long as the last one's. `saved` and `tried` are history variables. The config
is an opaque value; factory reset is an update to `Defaults`.

### BlobSlots

A slot is its header sector (`None` when `from_bytes` refuses it) and its data
sectors, unit by unit. `pc` is the next thing the fetch does: wait for the
network ("read"), erase or program the sector at `written`, or write the
header. `Begin` is `BlobWriter::begin` after the check of the announced
length, `Receive` a read and `write`, `EndOfBody` the end of the loop and the
checks after it, `EraseSector` and `ProgramSector` the two halves of
`flush_sector`, `Seal` the end of `finish`. `BlobErase` is what the main task
does to a slot (cache cleared, factory reset): it runs only while the fetch
awaits the network. `Fail` and `PowerCut` may strike anywhere and tear the
sector under way. Assumed: a header torn by a power cut does not decode (its
magic, version and length are checked, nothing else of it). The header keeps
the body it was written for in place of kind, number and checksum, which no
code reads back to verify the data. What the server announces and what it
sends are unrelated in the model.

### NetService

`shared` is the struct `Shared`; `wifi` is the await the Wi-Fi task is in
(state `Lost` has no value: no await follows it, so no frame sees it).
`TopOfLoop` is the head of the outer loop, run in the same step as whatever
led back to it. The calls of `NetHandle` are functions of the record
`shared`, so that the agent can apply several of them in one frame. On its
own (`NetSpec`), the service is composed with callers that do anything.

### Agent

One frame is two steps, `AgentUpdate` and `ShellUpdate`; the Wi-Fi task moves
only at `turn = "agent"`, that is while the next frame is awaited. The
disjuncts of `AgentUpdate` are the branches of `Agent::update`. A *place* is a
server address with a frame name. `proven` is a history variable: the last
place whose own server answered a heartbeat while it was in use. The photo
server is external: it answers any request in any way, and its heartbeat
answers carry any command. Timers of the agent are over-approximated (a timer
may be due in any frame), the time of the trial is `TimePasses`.

Not in `Agent`: the counters and texts of the headers, `heartbeat_ok`, unread
messages, the clock, the names of the goals, and the commands that touch only
the photo cache (see `PhotoFrame`), the pet or the saver (they are "none" here).

A save that fails leaves the settings as they were, also for the next start;
`ConfigStore` admits that the new record was written all the same and is found
then. `Agent` has only the first outcome.

### PhotoFrame

Frames and the Wi-Fi task are composed as in `Agent`. `config` has the fields
the app uses: the server, the slot in use and the timestamp (`stamp`); a server
with a frame name is one "server". `app` is the struct `PhotoFrame` without its
texts and timers, `screen` what `load_raw` last copied to the frame buffer.
`Branches` is the chain of `PhotoFrame::update`, one CASE arm per branch, with
the keys (K pressed, L held for two seconds) and "a timer ran out" as choices.
The app's own drawing over a missing photo is left out. A fetch that ends in an
error reply or in a photo of a wrong size has the effect of one that fails (the
app then also notes how many motion frames the reply announces, which the next
good reply does again). A slot is a complete photo or `None`: that is what
`BlobSlots` is shown to implement. `ClearCache` is cut into its three stores,
where an error or a power cut may end it. The agent is reduced to its heartbeat
and the commands `refetch`, `clear-cache` and a move, which is also what the end
of a trial does; its other requests use the other lane. `OtherApp` fetches and
takes answers as apps/messages.rs and weather.rs do. The server keeps the newest
photo of each frame and answers as If-Modified-Since demands.

### OtaBoot

A partition holds a whole image, something torn, or nothing. `magic` and
`swapped` are what embassy-boot keeps in its state sector; that crate is
external: `SetMagic` (erase, then write, an error in either), `LoaderSwaps` (a
marked image is swapped in once; found in its trial again, it is swapped back),
`WritesFirmware` (no writes while a swap is pending). A frame is `MainCheck`, the
head of main's loop, then `AgentUpdate`; `phase` says which is next, and the
Wi-Fi task and the server move at "main". `answer` is the one request of the
agent that is under way: a heartbeat, a version check or a download, whose body
begins in the update partition, ends (whole or, without an announced length,
perhaps cut short) and is marked. A reply with an empty body is marked without
being written, as in the code. `Restart` is any restart; `Boot` is the boot loader,
`Storage::new` by the image that comes up (ConfigStore's `Load`, so that an image
reads only records it can decode) and `in_trial`. An image is known by what it
can do: reach the server, run, or not even run. The device has a radio: without
one it never downloads. Timers are choices, except the end of the trial.

### Desk

A step is a frame of the shell. `desk` is the part of the struct `Shell` that
decides: menu, running app, the question that is open, whether a notice hides
the menu, the reset that waits for the next frame. `alarm` is the struct `Alarm`
and `stored` its three fields of the config. `opened` is an observation: the
apps entered through `on_enter` and not left through `on_exit`. The selection is
any entry of the menu: W and S move it in every frame, under a question too.
The alarm sees one key per frame; "W" stands for W and D, "A" for S and A,
"late" for a ringing that gave up. Where the alarm rings in a frame that would
also have moved the shell elsewhere, the alarm wins, as in the code. `now` is
the clock, unset after a start; every minute sees a frame.

### Backlight

The level, the dimmer's memory of it, and which of the screens that set it is
shown. `wanted` and `cut` are observations. Idle and on battery are choices of
every frame. A frame in which the alarm takes the screen has no key.

### Pet and Hoot

`Pet` has the rules as operators on a record; `Hoot` is the app. A frame is
`simulate` (load, day, flags of other parts) and, when Hoot is on screen, the
screen's own code, in one step with the save the code makes or not by then
(`SaveOrNot`: the two seconds and ten minutes are a choice). A save that the
flash refuses clears the mark all the same, as in the code. Two observations
keep apart what that gives up: `handed` is the pet last loaded from flash or
handed to it, `unkept` counts the saves refused since the last good one.
`UnsavedIsDirty` says that what differs from `handed` is marked, whatever was
refused before, and that `handed` is in flash unless a save was refused. That a
change is marked until it is in flash does not hold (section 6). The check-ins of past days, badges and the hour of birth are
only drawn and left out. Days are numbers; the clock may be corrected to any.

### LaneApps

`lane` is the one request and answer of the app lane, with a body only for
lists. Each app's `update` is one action with the branches of the code; entering
and leaving are the shell's. What the next `on_enter` sets anew, and nothing
reads before, is forgotten at `Leave`, which keeps the states few. Ids order the
photos. A list names at most `ListMax` of them, in any selection. `AlbumIsKept`
is about what a visit asks for itself; a photo request that outlives its visit
is under the known limits below.

### Leases, Timers, WarningLog, Speaker, Record

`Leases`: `air` holds every datagram ever sent, so that each may be lost,
repeated or overtaken. `Timers`: a clock of period `Wrap`; the shell calls
`update` or `background` many times in a tick, so a phase that has run out is
advanced before the next one; the observation `ran` has the ticks the phase and
the watch have run, and what the watch had run at each lap since its reset, to
which the listed laps and their numbers are compared. `WarningLog`: a warning is its number; a POST may
arrive, or fail before or after the server read it. `Speaker`: buffers hold
pieces of a sound counted in samples; the DMA transfer is a step of its own, so
a new sound may be asked for at any point of it. `Record`: a byte is its
position, so a field read from the wrong place is seen; the payload ends after
any field, or inside the pet's, which grew over time.

## 3. Runs

| Run | Checks | Bounds |
| --- | --- | --- |
| `parts` | `PartsTypeOK` and, of `ConfigStore`: `BootFindsSaved`, `LiveCopySurvives`, `ImplementsCell` | 3 configs, sequence number modulo 6, 2 record lengths; no other bound |
| | of `NetService`: `PendingIsOwed`, `LanesAreKept`, `ReachableAgain`, `PortalOpens`, `SystemIsServed` | 1 request, 1 answer, 2 settings, 3 refused joins |
| | of `Hoot`: `GoalsAddUp`, `UnsavedIsDirty` | 3 goals, energy 2, 1 remembered day, days to 2, 2 goals in all, 1 flight, 1 failing save; `Prompt` |
| | of `Desk`: `ScreenIsOwned`, `ResetWasConfirmed` | days of 2 minutes, 2 days, 2 tunes, snooze of 1 minute |
| | of `Backlight`: `LightIsRestored` | the code's levels |
| | of `Timers`: `TimersKeepTime` | clock of period 6, work of 1 or 2 ticks, 2 laps of which one may leave the list, watch of 8 ticks |
| | of `LaneApps`: `AwaitsItsOwn`, `AlbumIsKept`, `SeenIsReported` | 2 photos, 2 slots, 1 note |
| | of `Leases`: `LeasesDiffer` | 3 phones, 2 rows |
| | of `WarningLog`: `LogIsInOrder` | ring of 3, 7 warnings |
| | of `Speaker`: `SoundIsWhole` | sounds of 7 and 4 samples, chunks of 2 |
| | of `Record`: `OlderRecordsRead` | 11 fields of every kind, every end |
| `blobs` | `HeaderMeansData`, `SectorsAligned`, `ImplementsCells` | 2 slots of 2 sectors of 2 units, 3 bodies, every announced length |
| `agent` | `TypeOK`, `WaitsForItsAnswer`, `NeverStranded`, `TargetIsConfig` | 2 servers, 1 name, blank values; 2 moves, 1 restart, 1 failing save; the page is saved unchanged |
| `agent_live` | `TrialEnds`, `CheckIsAnswered` | as `agent`, with 1 move |
| `photo` | `TypeOK`, `OwnAnswer`, `StampOfPhoto`, `PhotoIsKept` | 1 server, 2 motion frames, 1 upload, cache command or press of K, 1 flash fault, 1 refused join |
| `photo_live` | `PhotoArrives` | 1 server, no motion and no commands; the menu clears the cache; 1 upload, 1 flash fault |
| `photo_moved` | `StampOfServer`: violated | 2 servers, 1 move |
| `ota` | `OtaTypeOK`, `WayBack`, `UpdateIsSafe`, `TrialEnds` | 4 images: the first, a better one, one that never reaches the server, one that crashes; 1 save, 1 restart not ordered, 1 flash error |
| `ota_rollback` | `SettingsSurvive`: violated | 2 images, the newer with a longer config record, 2 saves, no error and no other restart |
| `net_hotspot` | `HotspotThenJoin`: violated | as `NetService` in `parts` |
| `alarm_keys` | `RingingKeysOnlySilence`: violated | as `Desk` in `parts` |
| `agent_portal` | `NeverStranded`: violated | `PortalEdits`: the page may change server and name; 1 move |

`MCParts` is a sum, not a product: its first state chooses a part, only that
part moves, and the others stay in one initial state. Its states are those of the
parts added up. Its fairness is that of `NetSpec`, for the states in which the
network service is the part.

Why the bounds are enough. The two sectors are always consecutive in the
sequence, so a period of 6 contains every pair, the wrap, and more than twice
the distance the compare must tell apart; the proof removes the bound. A slot of
two sectors of two units has a first and a last sector and a body that ends
inside one, at the end of the slot, or past it; the proof removes the sizes.
In the network service the callers are unconstrained and only equality of values
matters; three refused joins is the code's own number. The agent's history is
forgotten by a settled place, so two moves (one trial inside another, which is
where the settings to go back to could be lost), one restart and one failing
save in any order contain the interactions of any pair of them. The photo frame
forgets its past with every photo shown; an upload, a command and a fault meet
the fetch they interfere with at every point of it, and clearing the cache from
the menu, leaving and entering the app, L, power cuts and lost links are not
counted. For updates, the four images are all the kinds the code tells apart; the
proof removes the bounds on restarts and errors.

Hoot's `Prompt` lets a second change of the pet happen only when the first is
saved, or was refused while the flash holds no goal; the proof of `UnsavedIsDirty` does not use it, nor the other
bounds. Two goals in all are enough to tick one, take it back and count it over
the end of a day. On days of two minutes an alarm comes due before, at and after
the minute it rang, on the same day and the next; the proofs remove the bound. In
`Timers` the clock wraps within a phase and a pause, and the watch runs longer than
the period. With two slots and two ids the cache is full, half full or holds the
other's photo; the app on screen changes at any point of a request. Three phones
meet a full table of two; the proof is for any number. The ring of three wraps
twice with seven warnings. A sound of seven samples ends inside a chunk, one of
four at its end.

No run limits the number of frames, answers, link losses or hotspot
openings.

### What the violations show

- `agent_portal`. A heartbeat is queued on the system lane and the portal is
  requested before it is taken. The hotspot opens, the user moves the device
  to another server, the network comes back and the *old* request is sent to
  the *old* server. Its success ends the trial of the new one (agent.rs:335):
  if the new one is dead, the device stays with it. With `PortalEdits` FALSE
  the same property holds (run `agent`): a command can only come in an answer
  on the same lane, so no request of the old server is left behind.
- `photo_moved`. A photo is asked for, a command moves the device and clears the
  timestamp, and the old server's photo arrives: `finish` stores the old server's
  timestamp beside the new server (photo_frame.rs:243). The new server answers
  304 until it has a photo newer than that, and the old one stays on the screen,
  against "The photo is fetched afresh afterwards" (agent.rs:369).
- `ota_rollback`. A new firmware whose config record is longer saves twice during
  its trial (any setting, the pet, a photo's timestamp). Both config sectors then
  hold records the previous firmware cannot decode. When the boot loader brings
  that firmware back, it starts from the built-in config: the way back exists
  (`WayBack`), but the device may not be reachable on it.
- `alarm_keys`. `Alarm::update` silences the ringing and goes on to the settings
  with the same key press. Stopping with L also switches the alarm off (or on),
  which `on_exit` saves, so it does not ring the next day; snoozing with K also
  takes the next tune. README.md:178 promises "L stops, K snoozes 5 min".
- `net_hotspot`. K in the Network app works while the page is open
  (apps/network.rs:36); the request outlives the page and the hotspot opens
  again instead of the join (wifi.rs:145).

## 4. Fairness

- `NetSpec`, and `NetService` in `parts`: weak fairness of `Progress`, what the Wi-Fi task does by itself.
  Every await in it is a timer, a call with a timeout, or a call of the radio
  driver; that the driver's calls (join, leave, start and close of the access
  point) end is assumed. The user saving the page, the link dropping and the
  server answering are not fair: nobody has to do that.
- `Agent`: weak fairness of the frames (the ticker) and of `TimePasses`;
  strong fairness of `WifiProgress`, because the Wi-Fi task may move only
  between two frames: it is enabled again and again, not continuously, and
  the executor polls every woken task before it returns to the ticker.
- `PhotoFrame`: the same for frames and the Wi-Fi task. `PhotoArrives` is about a
  network that stays up, so it also assumes that the app's timers run out in the
  end (`TimersDue`), that the Wi-Fi task gets to the app lane, and that a photo
  request that is made again and again is answered and its body arrives
  (strong fairness): single fetches may fail any number of times.
- `OtaBoot`: weak fairness of the boot loader, the watchdog and the frames, strong
  fairness of the trial's timer. The server and the network owe nothing.
- A heartbeat need never be answered well, and timers need never be due, in
  any liveness property.

## 5. Proofs

Every safety property of a part that a passing run checks is a theorem, for
every value of the constants that the `ASSUME`s admit, and so is the type
invariant of every part. Bounds are guards of the modules; a theorem holds
whatever they are.

Each theorem `Spec => []P` goes through an inductive invariant: the initial
states have it, each action keeps it (one lemma or step per action), and it
gives `P`. What each had to say beyond `P`:

| Theorems | Inductive invariant | What it adds, and why |
| --- | --- | --- |
| `ConfigStoreProofs`: `Durability`, `LiveCopy`, `TypeCorrect` | `IInv` | `BootFindsSaved` says nothing of the sector a save is about to overwrite: records sit in the sector of their parity, two records are consecutive, the RAM copy is in flash (or is the built-in config before the first save), a record newer than it is an unacknowledged save |
| `BlobSlotsProofs`: `CompleteOrInvalid`, `BlobTypeCorrect` | `IInv` | the slot under the writer is empty, everything below `written` is in place, only a stream that ended as announced reaches the header |
| `SectorsOnly` | `AlignInv` | where the writer is, modulo a sector, at each point: less than a sector waits in the buffer while it reads, and the last flush is the only short one |
| `NetworkProofs`: `JobsAreOwed`, `NetTypeCorrect` | `NetIInv` | the request under way is not queued as well; the task joins only below the limit, which bounds the counter |
| `LeasesNeverShared` | `LeasesInv` | datagrams stay on air for ever, so it speaks of them all: a reply to a phone of the table names its row, a phone outside it was answered only with the first row of a full table, an address in use was acknowledged |
| `WarningsInOrder`, `LogTypeCorrect` | `LogInv` | the ring holds the newest warnings at the places their numbers say, and what was sent is in order and older than what was not |
| `AgentProofs`: `AnswersAreAwaited`, `TargetFollowsConfig`, `AgentTypeCorrect` | `AgentInv` | the system lane owes exactly what the agent waits for (`LaneOK`); in the middle of a frame the network task's settings may differ from the stored ones only by what the page saved (`TargetFollows`) |
| `TrialsLeadBack` | `AgentInv` and `TrialInv` | the heartbeat awaited in a trial was made for the settings on trial (`AsksTheTrial`). Assumes `~PortalEdits`: with it the run `agent_portal` shows the opposite |
| `PhotoFrameProofs`: `AnswersAreOwn`, `StampsMatch`, `PhotoStays`, `PhotoTypeCorrect` | `PhotoInv` | a photo under way goes to the slot not in use unless the cache was cleared meanwhile (`SlotIsFree`); an answer not yet taken has the timestamp of what it left in its slot (`AnswerIsStored`); the app waits for what the lane has (`AppWaits`) |
| `OtaBootProofs`: `NeverWithoutAWayBack` | `WayInv` | the update partition is written only while no swap is pending or on trial; `heartbeat_ok` holds only of an image that has reached the server, and every restart forgets it |
| `OtaTypeCorrect` | `OtaInv`, `RunningInv` | both sectors hold records some image wrote; what runs is an image |
| `SettingsSurviveOneLength` | and `UsersInv` | the RAM copy and both records are the user's. Under the hypothesis `OneLength`, that all images write records of one length: that is the whole cause of the violation of `ota_rollback` |
| `AppsProofs`: `OneOwner`, `DeskTypeCorrect`; `ResetsAreConfirmed` | `DeskInv` | the lemmas say what each menu can hold, so that no entry performed at once asks for a reset |
| `LightComesBack`, `LightTypeCorrect` | `LightInv` | what is remembered while dimmed, or shown while not, is what the user wanted |
| `AppsProofs`: `TimeIsKept`, `TimerTypeCorrect` | `TimerInv` | the property is inductive with the types; the work is in the lemmas on the wrapping clock and on the list of laps, which drops its oldest as its base grows (`LapsKept`) |
| `ChangesAreMarked` | `HootInv` | before the pet is loaded nothing was handed to the flash; the lemmas go along a frame: each thing `simulate` and a screen may do to the app leaves the pet alone or marks it, and only a save, good or refused, takes the mark away |
| `WeekAddsUp`, `HootTypeCorrect` | `WeekInv` | the goals add up in every record a save or a restart can bring, in RAM, in flash and last handed to it |
| `NoStrayAnswer`, `AlbumKept`, `SeenWasReported` | `LaneInv` | a photo under way is not in flash yet; an answer with notes tells of them as they are; each job is one its app can make. That a missing photo of the list has a slot (`RoomForMissing`) is a count: the photos kept differ and the list is cut at the number of slots, so they cannot all be of a list that is not all there; it needs `LaneTypes` |
| `LaneTypeCorrect` | and `LaneTypes` | what the answers bring fits the arrays that take it |
| `SoundsAreWhole`, `SpeakerTypeCorrect` | `SpeakerInv` | the buffer that DMA plays next goes on exactly where the listener is, and the synth after it |
| `OldRecordsAreRead`, `RecordTypeCorrect` | `RecordInv` | after n fields the reader is where the next one starts or, when the record ends before, at its end |

Three theorems are about steps: `LiveCopy`, `ResetsAreConfirmed` and `PhotoStays`.

### Refinements

Four abstract modules say what a part promises to the others. Each has an
implementation, and the parts that rely on a promise in place of the
implementation are shown to keep to it:

| Abstract | Theorem and property | Argument |
| --- | --- | --- |
| `AtomicConfig` | `Refinement`: `ImplementsCell` of `ConfigStore` | `Write` is `Save`, `Erase` and a failing save are a stutter or `SaveUnacknowledged`, `Boot` is `Start` |
| `AtomicBlobs` | `BlobRefinement`: `ImplementsCells` of `BlobSlots` | `Seal` is `Store`, `Begin` and `BlobErase` are `Erase`, the rest is invisible |
| | `CacheRefinement`: `PhotosAreWhole` of `PhotoFrame` | `PhotoComplete` is `Store`: the slot was emptied when the body began and nothing filled it since (`SlotAwaits`); a command that clears the cache is `Clear` |
| | `AlbumRefinement`: `CardsAreWhole` of `LaneApps` | the same for the slideshow: the slot is empty while a photo streams (`UnderWay`) |
| `AtomicLanes` | `LanesRefinement`: `LanesAreKept` of `NetService` | what a lane owes is its queued request or the one under way (`OwedOn`); `EndFetch` is `Answer`, with a reply or the word that it failed; `Take`, lost links, the hotspot and refused joins are invisible; the calls are `Ask` and `TakeAnswer` |
| | `AgentOnLanes`: `LanesAreOwn` of `Agent` | a frame that takes an answer and asks again is one `Ask`; `RestartingSpec` lets a restart empty the lanes; the answers are those of the server to that very request |
| | `FrameOnLanes`: `LanesAreShared` of `PhotoFrame` | the same for the frame, the other app and the agent on both lanes |
| | `TurnsRefinement`: `TurnsAreTaken` of `LaneApps` | its own small lane has what the service promises, with the bodies a request can bring |
| `AtomicUpdate` | `UpdateRefinement`: `UpdateIsSafe` of `OtaBoot` | a swap is `Try`, the swap back is `GoBack`, confirming is `Keep`; that the image confirmed is one that reached the server needs `AnsweredInv`: only an image that reaches the server has an answered heartbeat, and the answer is gone before another image runs |

`LaneApps` has a lane of three states in place of `NetService`, and `PhotoFrame`
slots that hold whole photos in place of sectors. The theorems say that whatever
happens on them is what the abstract module allows, which is also what
`NetService` and `BlobSlots` are shown to implement. That they show every
behaviour of the abstract module, a failed fetch or a power cut at any point for
example, is by how they are modelled and not a theorem.

### The device

`PartsTypeCorrect` and `PartsAreSafe` are about `MCSpec`, the device that `parts`
checks: a step of it is a step of each part or leaves the part alone
(`DeviceStep`), so it runs each part as that part's own specification has it
(`EachPart`), and the theorems of the parts give all their safety properties
and refinements at once, for every value of the constants.

### Lemmas and assumptions

Sums and readings are recursive functions (`SumOfWeek`, `SizeOf`, `TakeAll`).
What is proved of them for every length is proved for a least counterexample:
a non-empty set of numbers has a least member (`LeastNumber`, from
`WFMin` of the library), and its predecessor is no counterexample. The same
lemma gives what `Min` returns, which `LaneApps` uses to choose slots. Rank
arguments on finite sets (`Ranked`) give what `Newest` returns.

The assumptions are the named `ASSUME`s on constants, which TLC evaluates in
the runs. The code justifies them: sizes and limits are positive; periods of
counters are what the compare needs; a list of photos has room for every slot
(LIST_MAX 8, SLOTS 6); ids, notes and goals are finitely many; at least two
saves fit below `MaxSeq`. Others only keep encodings apart: a value that stands
for "nothing" is none of the things it stands beside, and an image is not
named like a state of its partition. `TrialsLeadBack` and
`SettingsSurviveOneLength` have the hypotheses named above and no others.

### Model-checked only

All liveness (`ReachableAgain`, `PortalOpens`,
`SystemIsServed`, `TrialEnds`, `CheckIsAnswered`, `PhotoArrives`), which needs
fairness and ENABLED. The five violations are counterexamples; what is
proved beside them says where each comes from.
`LanesAreOwn`, `LanesAreShared`, `PhotosAreWhole`, `TurnsAreTaken` and
`CardsAreWhole` are theorems that no configuration lists; TLC finds them true when
they are added as PROPERTY to the configurations of `agent`, `photo` and `parts`.
The inductive invariants are in the modules of proofs, for any instance, and not
in the runs.

## 6. Not modelled, and why

Drawing, the input and display drivers and the vendored radio driver are I/O.
The other parsers and encoders of proto/ are pure functions over bytes; where
their effect matters (a list, a datagram, an error) it is modelled as that. The
waveform of a sound is data. The snake, the fish and the flames are game rules
whose state no other part reads, and so is the Clock. The DNS answers of the
hotspot keep no state, and the text of the setup page is not told apart. A plain
Pico, without a radio, is covered in the menus only (`Radio`). The
record length only grows in `ConfigStore`; what a rollback to an image with a
shorter record does is in `OtaBoot`. A place with a blank
server or name is assumed never to answer a heartbeat. In `PhotoFrame` the
setup page is not open while settings change.

A known limit of the photo frame that no run states: a `clear_cache` that fails
half way erases the photo and keeps its timestamp. If the command comes from the
server while the app shows the photo, one flash error is enough: the app asks
conditionally, and once a motion has played there is no still to go back to
until a newer photo is uploaded, L is held, or the app is opened again. From the
menu it takes a second error: opened again, the app asks unconditionally, and
the timestamp of the photo that is gone stays only if the save of the next
photo's slot and timestamp fails too. `photo` has the first case, and none of
its properties forbids it; `photo_live`, about the photo that must arrive, has
no commands and one error.

Known limits of the update, all steps of `OtaBoot` but stated by no run:

- an image that reached the server can still be taken back: by a "reboot" in the
  answer to its first heartbeat (agent.rs:406 restarts before main.rs:331
  confirms), or by a flash error in `confirm_boot`, whose outcome is dropped;
- an image that never reaches the server is downloaded again a minute after it
  was taken back, for ever: nothing remembers that it failed;
- after a reply without a body the state stays "swap" until the next restart,
  every download is refused meanwhile, and that restart swaps in what an earlier
  download left;
- README.md:222 says that the OS confirms the boot after 20 seconds; with a radio
  it is the first heartbeat (main.rs:326).

Known limits of the smaller parts:

- an alarm that takes the screen from Bedside while it is dimmed leaves the level
  wrong at the next key: the dimmer gives back what it found in Bedside, against
  main.rs:93 ("restores it"). `LightIsRestored` excepts exactly this (`cut`),
  until the user sets a level again;
- a snoozed alarm does not ring while its own screen is open: the shell calls no
  `background` for the app on screen (shell.rs:488). `Desk` has it, and no text
  promises otherwise;
- an album photo that cannot be fetched is asked for again in the next frame,
  without a pause (slideshow.rs:337); `LaneApps` has it;
- a photo request that outlives its visit to the Slideshow takes its slot from
  the list of that visit: `on_enter` forgets the job and seeds the list from
  flash (slideshow.rs:262-268), while the download goes on into the slot chosen
  before (slideshow.rs:116-122), which may hold a photo of the new list. That photo
  is erased and missing; `AlbumIsKept` says that it then has a slot to be fetched
  into, not that it stays;
- a save of the pet that the flash refuses is not tried again: `save` ignores the
  error and clears the marks (hoot.rs:321-323), and `simulate` saves only what is
  marked (hoot.rs:311). The change stays out of flash, beyond the ten minutes of
  README.md:322, until another change takes it along; a restart before that loses
  it;
- a failed POST loses its warnings
  (http.rs:82); a fifth client of the hotspot gets the address of the first
  (dhcp.rs:41). The properties of these parts name the exception;
- the snake's step time underflows at a score of 41 (snake.rs:142).

Another known limit: the menu can say "downloading" while nothing is, when the
version answer is read after the link was lost (agent.rs:444).

## 7. What could come next

- the step from a leads-to property to its invariants: for `PhotoArrives` and
  `ReachableAgain`, the ranking that TLC's liveness check stands for;
- `ConfigStore` under `Agent`, whose saves are one step that succeeds or leaves nothing,
  as `BlobSlots` and `NetService` are under `PhotoFrame` and `LaneApps` through
  `AtomicBlobs` and `AtomicLanes`;
- `PhotoFrame` and `LaneApps` on one lane, in place of `OtherApp`.
