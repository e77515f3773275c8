------------------------------ MODULE LaneApps ------------------------------
(* The apps Slideshow, Messages and Weather (src/os/src/apps/slideshow.rs, *)
(* messages.rs, weather.rs).  One of them is on screen; they take turns on *)
(* the app lane of the network service, which holds one request and one    *)
(* answer, and an answer may come when its app has gone.                   *)
EXTENDS Integers, Sequences, FiniteSetsExt

CONSTANTS
  Ids,         \* album ids: the upload time, so they order the photos
  AlbumSlots,  \* SLOTS blob slots of the album
  ListMax,     \* LIST_MAX
  NoteIds,     \* notes the server may hold
  Other,       \* another blob in a slot, or a photo of a wrong length
  Nil

ASSUME LaneAssumption ==
  /\ Ids \subseteq Nat /\ NoteIds \subseteq Nat /\ AlbumSlots \subseteq Nat
  /\ IsFiniteSet(Ids) /\ IsFiniteSet(NoteIds) /\ IsFiniteSet(AlbumSlots)
  /\ ListMax \in Nat \ {0} /\ Cardinality(AlbumSlots) <= ListMax
  /\ {Nil, Other} \cap Nat = {}

VARIABLES
  top,      \* the app on screen, or "menu"
  lane,     \* request, state and body of the app lane
  album,    \* the Slideshow: ids, job, due (a list is due), showing
  cards,    \* the id each album slot holds, Nil, or Other
  inbox,    \* Messages: list, selected, job, due
  weather,  \* Weather: data, fetching, due
  notes     \* the server's notes, and whether each was marked seen

laneVars == <<top, lane, album, cards, inbox, weather, notes>>

ListRequest == [app |-> "album", what |-> "list"]
PhotoRequest(id, slot) == [app |-> "album", what |-> "photo", id |-> id, slot |-> slot]
InboxRequest == [app |-> "inbox", what |-> "list"]
SeenRequest(id) == [app |-> "inbox", what |-> "seen", id |-> id]
WeatherRequest == [app |-> "weather", what |-> "forecast"]

(* The lane: fetch is refused while a request is under way; take_job hands *)
(* out an answer once: "failed", "error" (another status) or "ok".         *)
LaneBusy == lane.state \in {"pending", "streaming"}
Asked(r) == [request |-> r, state |-> "pending", body |-> <<>>]
Idled == [request |-> Nil, state |-> "idle", body |-> <<>>]
Taken == IF LaneBusy THEN lane ELSE Idled

-----------------------------------------------------------------------------
(* Slideshow. *)

(* The n newest of S, newest first: before the k-th are k - 1 newer ones. *)
Newest(S, n) ==
  [k \in 1 .. Min({n, Cardinality(S)}) |-> CHOOSE x \in S : Cardinality({y \in S : y > x}) = k - 1]

CacheIds == {cards[s] : s \in AlbumSlots} \ {Nil, Other}
Wanted(a) == SubSeq(a.ids, 1, IF Len(a.ids) < Cardinality(AlbumSlots) THEN Len(a.ids) ELSE Cardinality(AlbumSlots))

(* step: the next kept photo in a direction from the current one. *)
StepBy(a, direction) ==
  LET n == Len(Wanted(a))
      from == IF a.showing = Nil THEN 0 ELSE a.showing.pos - 1
      At(k) == ((from + direction * k) % n) + 1
      hits == {k \in 1 .. n : a.ids[At(k)] \in CacheIds}
  IN IF hits = {} THEN a
     ELSE [a EXCEPT !.showing = [id |-> a.ids[At(Min(hits))], pos |-> At(Min(hits))]]

(* The overlay has gone: the photo at the position is drawn again.  Past   *)
(* the end of the list the array still holds the photo on screen.          *)
Redrawn(a) ==
  IF a.showing = Nil \/ a.showing.pos > Len(a.ids) \/ a.ids[a.showing.pos] \notin CacheIds THEN a
  ELSE [a EXCEPT !.showing.id = a.ids[a.showing.pos]]

(* Variant: any slot will do. *)
MissingAnySlot(a) ==
  {PhotoRequest(id, slot) : id \in Range(Wanted(a)) \ CacheIds, slot \in {Min(AlbumSlots)}}

(* next_missing: the newest wanted photo not in flash, into the first slot *)
(* that holds no wanted one.                                               *)
Missing(a) ==
  LET absent == {k \in DOMAIN Wanted(a) : Wanted(a)[k] \notin CacheIds}
      free == {s \in AlbumSlots : cards[s] \notin Range(Wanted(a))}
  IN IF absent = {} \/ free = {} THEN {} ELSE {PhotoRequest(Wanted(a)[Min(absent)], Min(free))}

(* finish_list: the position follows the photo on screen. *)
Listed(a, ids) ==
  LET b == [a EXCEPT !.ids = ids, !.due = FALSE]
      at == {p \in 1 .. Len(Wanted(b)) : a.showing # Nil /\ ids[p] = a.showing.id}
  IN [b EXCEPT !.showing = IF at = {} THEN Nil ELSE [id |-> a.showing.id, pos |-> Min(at)]]

Dropped(ids, id) ==
  LET at == {p \in DOMAIN ids : ids[p] = id}
  IN IF at = {} THEN ids ELSE SubSeq(ids, 1, Min(at) - 1) \o SubSeq(ids, Min(at) + 1, Len(ids))

(* finish_photo: shown if nothing else is; one that cannot be had is       *)
(* dropped from the list.                                                  *)
PhotoEnds(a) ==
  IF lane.state = "error" THEN [a EXCEPT !.ids = Dropped(@, a.job.id)]
  ELSE IF a.showing = Nil THEN StepBy(a, 0) ELSE a

(* An error sets the time of the next list; a photo is asked for again.    *)
AlbumEnds(a) ==
  LET ended ==
        CASE lane.state # "failed" /\ a.job.what = "photo" -> PhotoEnds(a)
          [] lane.state = "ok" /\ a.job.what = "list" -> Listed(a, lane.body)
          [] OTHER -> [a EXCEPT !.due = FALSE]
  IN [ended EXCEPT !.job = Nil]

AlbumStarts(a) ==
  IF a.due THEN {ListRequest} ELSE Missing(a)

(* Variant: what the last visit asked for is still awaited. *)
AlbumEnteredWaiting ==
  LET a == [album EXCEPT !.showing = Nil, !.ids = Newest(CacheIds, ListMax), !.due = TRUE]
  IN StepBy(a, 0)

(* on_enter: starts from what flash holds. *)
AlbumEntered ==
  LET a == [ids |-> Newest(CacheIds, Cardinality(AlbumSlots)), job |-> Nil, due |-> TRUE, showing |-> Nil]
  IN StepBy(a, 0)

(* A key or the dwell time steps; then one request at a time. *)
AlbumFrame ==
  /\ top = "album"
  /\ \E a \in {album, StepBy(album, 1), StepBy(album, -1), Redrawn(album)} :
       \/ /\ a.job # Nil
          /\ IF LaneBusy THEN album' = a ELSE album' = AlbumEnds(a)
          /\ lane' = Taken
       \/ /\ a.job = Nil
          /\ \/ album' = a /\ UNCHANGED lane                    \* not up
             \/ \E r \in AlbumStarts(a) :
                  IF LaneBusy
                    THEN album' = [a EXCEPT !.due = FALSE] /\ UNCHANGED lane
                    ELSE album' = [a EXCEPT !.job = r] /\ lane' = Asked(r)
  /\ UNCHANGED <<top, cards, inbox, weather, notes>>

-----------------------------------------------------------------------------
(* Messages. *)

(* The inbox with what the answer brings: the list, or a note marked seen. *)
InboxAnswered ==
  LET b == [inbox EXCEPT !.job = Nil]
  IN IF inbox.job.what = "list"
       THEN [b EXCEPT !.list = lane.body, !.selected = Min({@, Max({1, Len(lane.body)})})]
       ELSE [b EXCEPT !.list[inbox.job.n].seen = TRUE]

(* Variant: the note is marked whatever came back. *)
InboxEndsAnyway ==
  inbox' = IF lane.state = "ok" \/ inbox.job.what = "seen" THEN InboxAnswered ELSE [inbox EXCEPT !.job = Nil]

(* Only 2xx brings anything. *)
InboxEnds == inbox' = IF lane.state = "ok" THEN InboxAnswered ELSE [inbox EXCEPT !.job = Nil]

InboxStarts ==
  \/ /\ inbox' = [inbox EXCEPT !.due = FALSE, !.job = IF LaneBusy THEN @ ELSE [what |-> "list"]]
     /\ lane' = IF LaneBusy THEN lane ELSE Asked(InboxRequest)
  \/ /\ ~inbox.due
     /\ inbox.selected \in DOMAIN inbox.list
     /\ LET note == inbox.list[inbox.selected]
        IN /\ ~note.seen
           /\ inbox' = [inbox EXCEPT !.job = IF LaneBusy THEN @ ELSE [what |-> "seen", n |-> inbox.selected]]
           /\ lane' = IF LaneBusy THEN lane ELSE Asked(SeenRequest(note.id))

(* A key moves the selection, or asks for the list; a due list comes first.*)
InboxFrame ==
  /\ top = "inbox"
  /\ \/ \E i \in DOMAIN inbox.list : inbox' = [inbox EXCEPT !.selected = i] /\ UNCHANGED lane
     \/ inbox.job # Nil /\ ~LaneBusy /\ InboxEnds /\ lane' = Taken
     \/ inbox.job = Nil /\ InboxStarts
  /\ UNCHANGED <<top, album, cards, weather, notes>>

InboxEntered == [inbox EXCEPT !.job = Nil, !.due = TRUE]

-----------------------------------------------------------------------------
(* Weather: a forecast, or an error that leaves the old one on screen. *)
WeatherFrame ==
  /\ top = "weather"
  /\ \/ /\ weather.fetching /\ ~LaneBusy
        /\ weather' = [data |-> weather.data \/ lane.state = "ok",
                       fetching |-> FALSE, due |-> FALSE]
        /\ lane' = Taken
     \/ /\ ~weather.fetching
        /\ weather' = [weather EXCEPT !.due = FALSE, !.fetching = ~LaneBusy]
        /\ lane' = IF LaneBusy THEN lane ELSE Asked(WeatherRequest)
        /\ weather.due
     \/ ~weather.fetching /\ weather' = [weather EXCEPT !.due = TRUE] /\ UNCHANGED lane   \* K
  /\ UNCHANGED <<top, album, cards, inbox, notes>>

(* on_enter; a forecast at hand is kept until it is old. *)
WeatherEntered == [weather EXCEPT !.fetching = FALSE, !.due = @ \/ ~weather.data]

-----------------------------------------------------------------------------
Enter ==
  /\ top = "menu"
  /\ top' \in {"album", "inbox", "weather"}
  /\ album' = IF top' = "album" THEN AlbumEntered ELSE album
  /\ inbox' = IF top' = "inbox" THEN InboxEntered ELSE inbox
  /\ weather' = IF top' = "weather" THEN WeatherEntered ELSE weather
  /\ UNCHANGED <<lane, cards, notes>>

(* What the next on_enter sets anew, and nothing reads before, is forgotten*)
(* at once; the album's job is not, for on_enter is what clears it.        *)
Leave ==
  /\ top # "menu"
  /\ top' = "menu"
  /\ album' = [album EXCEPT !.ids = <<>>, !.showing = Nil, !.due = FALSE]
  /\ inbox' = [inbox EXCEPT !.job = Nil, !.due = FALSE]
  /\ weather' = [weather EXCEPT !.fetching = FALSE]
  /\ UNCHANGED <<lane, cards, notes>>

(* Another list or forecast is due. *)
DueAgain ==
  /\ album' = [album EXCEPT !.due = @ \/ top = "album"]
  /\ inbox' = [inbox EXCEPT !.due = @ \/ top = "inbox"]
  /\ UNCHANGED <<top, lane, cards, weather, notes>>

-----------------------------------------------------------------------------
(* The Wi-Fi task and the server. *)

LaneEnds(state) == lane' = [lane EXCEPT !.state = state]
Answered(body) == lane' = [lane EXCEPT !.state = "ok", !.body = body]

(* 200: the slot is erased and the photo streamed into it. *)
Streams ==
  /\ lane.state = "pending" /\ lane.request.what = "photo"
  /\ lane' = [lane EXCEPT !.state = "streaming"]
  /\ cards' = [cards EXCEPT ![lane.request.slot] = Nil]
  /\ UNCHANGED <<top, album, inbox, weather, notes>>

(* The whole photo, a file of another length, or a broken connection. *)
StreamEnds ==
  /\ lane.state = "streaming"
  /\ \/ cards' = [cards EXCEPT ![lane.request.slot] = lane.request.id] /\ LaneEnds("ok")
     \/ cards' = [cards EXCEPT ![lane.request.slot] = Other] /\ LaneEnds("error")
     \/ UNCHANGED cards /\ LaneEnds("failed")
  /\ UNCHANGED <<top, album, inbox, weather, notes>>

NoteList == [i \in 1 .. Cardinality(NoteIds) |->
               LET id == Newest(NoteIds, Cardinality(NoteIds))[i] IN [id |-> id, seen |-> notes[id]]]

(* Any request may fail, before the server acts or after. *)
ServerAnswers ==
  /\ lane.state = "pending"
  /\ LET r == lane.request
     IN \/ (LaneEnds("failed") \/ LaneEnds("error")) /\ UNCHANGED notes
        \/ r = ListRequest /\ UNCHANGED notes /\ \E S \in SUBSET Ids : Answered(Newest(S, ListMax))
        \/ r = InboxRequest /\ UNCHANGED notes /\ Answered(NoteList)
        \/ r = WeatherRequest /\ UNCHANGED notes /\ LaneEnds("ok")
        \/ r.what = "seen" /\ notes' = [notes EXCEPT ![r.id] = TRUE] /\ (LaneEnds("failed") \/ LaneEnds("ok"))
  /\ UNCHANGED <<top, album, cards, inbox, weather>>

LaneInit ==
  /\ top = "menu"
  /\ lane = Idled
  /\ album = [ids |-> <<>>, job |-> Nil, due |-> FALSE, showing |-> Nil]
  /\ cards = [s \in AlbumSlots |-> Nil]
  /\ inbox = [list |-> <<>>, selected |-> 1, job |-> Nil, due |-> FALSE]
  /\ weather = [data |-> FALSE, fetching |-> FALSE, due |-> FALSE]
  /\ notes = [n \in NoteIds |-> FALSE]

LaneNext ==
  \/ Enter \/ Leave \/ DueAgain
  \/ AlbumFrame \/ InboxFrame \/ WeatherFrame
  \/ Streams \/ StreamEnds \/ ServerAnswers

LaneSpec == LaneInit /\ [][LaneNext]_laneVars

-----------------------------------------------------------------------------
LaneTypeOK ==
  /\ top \in {"menu", "album", "inbox", "weather"}
  /\ lane.state \in {"idle", "pending", "streaming", "ok", "error", "failed"}
  /\ cards \in [AlbumSlots -> Ids \cup {Nil, Other}]
  /\ album.ids \in Seq(Ids) /\ Len(album.ids) <= ListMax
  /\ notes \in [NoteIds -> BOOLEAN]
  /\ inbox.selected = 1 \/ inbox.selected \in 1 .. Cardinality(NoteIds)

(* An app on screen that waits, waits for its own request: what another    *)
(* app or an earlier visit asked for is never taken for its answer.        *)
AwaitsItsOwn ==
  /\ top = "album" /\ album.job # Nil => lane.request = album.job
  /\ top = "inbox" /\ inbox.job # Nil =>
       lane.request = IF inbox.job.what = "list" THEN InboxRequest ELSE SeenRequest(inbox.list[inbox.job.n].id)
  /\ top = "weather" /\ weather.fetching => lane.request = WeatherRequest

(* Flash holds a photo once; the photo a visit awaits goes to a slot that  *)
(* holds none of its list; and while a photo of the list is missing there  *)
(* is such a slot.  So a visit's own requests cost it no photo of its      *)
(* list, and one lost to what an earlier visit left under way, which knows *)
(* nothing of this list, can be fetched again.                             *)
AlbumIsKept ==
  /\ \A s, t \in AlbumSlots : cards[s] \in Ids /\ cards[s] = cards[t] => s = t
  /\ top = "album" /\ album.job # Nil /\ album.job.what = "photo" /\ lane.state = "pending" =>
       cards[album.job.slot] \notin Range(Wanted(album))
  /\ Range(Wanted(album)) \subseteq CacheIds \/ \E s \in AlbumSlots : cards[s] \notin Range(Wanted(album))

(* A note shown as seen was marked seen on the server, whichever answers   *)
(* to this or an earlier visit, or to another app, came in between.        *)
SeenIsReported ==
  \A i \in DOMAIN inbox.list : inbox.list[i].seen => notes[inbox.list[i].id]

-----------------------------------------------------------------------------
(* What the apps ask, and what the server may say to it. *)
LaneRequests ==
  {ListRequest, InboxRequest, WeatherRequest}
    \cup {PhotoRequest(id, slot) : id \in Ids, slot \in AlbumSlots}
    \cup {SeenRequest(id) : id \in NoteIds}

BodiesOf(r) ==
  IF r = ListRequest THEN {Newest(S, ListMax) : S \in SUBSET Ids}
  ELSE IF r = InboxRequest THEN [1 .. Cardinality(NoteIds) -> [id : NoteIds, seen : BOOLEAN]]
  ELSE {<<>>}

LaneReplies ==
  [r \in LaneRequests |->
     {[status |-> "error", body |-> <<>>]} \cup {[status |-> "ok", body |-> b] : b \in BodiesOf(r)}]

(* What job_on shows of the lane. *)
JobShown ==
  IF LaneBusy THEN [kind |-> "pending"]
  ELSE IF lane.state \in {"idle", "failed"} THEN [kind |-> lane.state]
  ELSE [kind |-> "done", reply |-> [status |-> lane.state, body |-> lane.body]]

Turns == INSTANCE AtomicLanes WITH
  Lanes <- {"app"}, Requests <- LaneRequests, AnswersOf <- LaneReplies, None <- Nil,
  job <- [l \in {"app"} |-> JobShown], owed <- [l \in {"app"} |-> IF LaneBusy THEN lane.request ELSE Nil]

(* The apps take turns on a lane as net/mod.rs promises it: none asks over *)
(* another's pending request, and a body that comes is one that the request*)
(* can bring, though the app that asked may have gone.                     *)
TurnsAreTaken == Turns!Spec

Flash == INSTANCE AtomicBlobs WITH
  Slots <- AlbumSlots, Blobs <- Ids \cup {Other}, Empty <- Nil, slot <- cards

(* A photo comes to an empty slot in one piece and is never altered, while *)
(* lists, visits and requests change around it.                            *)
CardsAreWhole == Flash!Spec

=============================================================================
