------------------------------ MODULE Speaker ------------------------------
(* The sound task (src/os/src/audio.rs): a one-place request, a synth that *)
(* makes a sound chunk by chunk, and two buffers, one played by DMA while  *)
(* the other is filled.  Time is counted in samples of the chunks.         *)
EXTENDS Integers, Sequences

CONSTANTS
  Sounds,     \* names of sounds
  TestSound,  \* Sound::Test, which plays even when sounds are off
  Samples,    \* samples of each sound's notes
  Chunk,      \* CHUNK: samples of a buffer
  Silence, NoSound

ASSUME SpeakerAssumption ==
  /\ TestSound \in Sounds
  /\ Samples \in [Sounds -> Nat \ {0}]
  /\ Chunk \in Nat \ {0}
  /\ {NoSound, Silence} \cap Sounds = {}
  /\ NoSound \notin [sound : Sounds \cup {Silence}, from : Nat, len : Nat]

VARIABLES
  asked,     \* REQUEST: the last sound asked for, or NoSound
  volume,    \* is the volume off?
  player,    \* where the task is: "waits", "plays", "ends", "silences"
  synth,     \* sound, samples made, done
  buffers,   \* front and back: what each holds
  dma,       \* the buffer DMA plays, or NoSound
  heard      \* observation: the samples heard of the sound that plays

speakerVars == <<asked, volume, player, synth, buffers, dma, heard>>

NoSynth == [sound |-> NoSound, made |-> 0, done |-> TRUE]
Empty == [sound |-> Silence, from |-> 0, len |-> 0]

(* fill: the next samples, silence after the last.  The end is noticed by  *)
(* the sample after it.                                                    *)
FilledBy(s) ==
  LET left == Samples[s.sound] - s.made
      n == IF left < Chunk THEN left ELSE Chunk
  IN [buffer |-> [sound |-> s.sound, from |-> s.made, len |-> n],
      synth |-> [s EXCEPT !.made = @ + n, !.done = left < Chunk]]

(* play: the last one asked for wins. *)
PlayAsked(sound) == sound

Play ==
  \E sound \in Sounds :
    /\ sound = TestSound \/ volume # "off"
    /\ asked' = PlayAsked(sound)
    /\ UNCHANGED <<volume, player, synth, buffers, dma, heard>>

SetVolume ==
  /\ volume' = IF volume = "off" THEN "on" ELSE "off"
  /\ UNCHANGED <<asked, player, synth, buffers, dma, heard>>

(* A write of the front buffer to the amplifier. *)
HeardWith(b) ==
  IF b.len > 0 THEN [heard EXCEPT !.order = @ /\ b.from = heard.samples /\ b.sound = heard.sound,
                                  !.samples = @ + b.len]
  ELSE heard

(* The request is taken and the first chunk made. *)
TakeSound ==
  /\ player = "waits" /\ asked # NoSound
  /\ LET first == FilledBy([sound |-> asked, made |-> 0, done |-> FALSE])
     IN /\ synth' = first.synth
        /\ buffers' = [front |-> first.buffer, back |-> Empty]
        /\ player' = IF first.synth.done THEN "ends" ELSE "plays"
  /\ heard' = [sound |-> asked, samples |-> 0, order |-> TRUE]
  /\ asked' = NoSound
  /\ UNCHANGED <<volume, dma>>

(* DMA takes the front buffer; the next chunk is made meanwhile. *)
Transfer ==
  /\ player = "plays" /\ dma = NoSound
  /\ dma' = buffers.front
  /\ heard' = HeardWith(buffers.front)
  /\ LET next == FilledBy(synth)
     IN synth' = next.synth /\ buffers' = [buffers EXCEPT !.back = next.buffer]
  /\ UNCHANGED <<asked, volume, player>>

(* Variant: the buffers keep their places when a new sound takes over. *)
DoneUnswapped ==
  /\ player = "plays" /\ dma # NoSound
  /\ dma' = NoSound
  /\ buffers' = IF asked # NoSound THEN buffers ELSE [front |-> buffers.back, back |-> buffers.front]
  /\ player' = IF synth.done \/ asked # NoSound THEN "ends" ELSE "plays"
  /\ UNCHANGED <<asked, volume, synth, heard>>

(* The transfer is over; a new sound ends this one early. *)
TransferDone ==
  /\ player = "plays" /\ dma # NoSound
  /\ dma' = NoSound
  /\ buffers' = [front |-> buffers.back, back |-> buffers.front]
  /\ player' = IF synth.done \/ asked # NoSound THEN "ends" ELSE "plays"
  /\ UNCHANGED <<asked, volume, synth, heard>>

(* The last chunk, then silence so the amp does not click off. *)
LastChunk ==
  /\ player = "ends"
  /\ heard' = HeardWith(buffers.front)
  /\ buffers' = [buffers EXCEPT !.back = Empty]
  /\ player' = "silences"
  /\ UNCHANGED <<asked, volume, synth, dma>>

Stop ==
  /\ player = "silences"
  /\ player' = "waits"
  /\ synth' = NoSynth
  /\ UNCHANGED <<asked, volume, buffers, dma, heard>>

SpeakerInit ==
  /\ asked = NoSound /\ volume = "on"
  /\ player = "waits" /\ synth = NoSynth
  /\ buffers = [front |-> Empty, back |-> Empty]
  /\ dma = NoSound
  /\ heard = [sound |-> NoSound, samples |-> 0, order |-> TRUE]

SpeakerNext == Play \/ SetVolume \/ TakeSound \/ Transfer \/ TransferDone \/ LastChunk \/ Stop

SpeakerSpec == SpeakerInit /\ [][SpeakerNext]_speakerVars

-----------------------------------------------------------------------------
SpeakerTypeOK ==
  /\ asked \in Sounds \cup {NoSound} /\ volume \in {"on", "off"}
  /\ player \in {"waits", "plays", "ends", "silences"}
  /\ dma = NoSound \/ dma = buffers.front
  /\ heard.sound \in Sounds \cup {NoSound}

(* What is heard of a sound is a piece of it from the start, each sample   *)
(* once and in order; unless a newer sound was asked for it is the whole.  *)
SoundIsWhole ==
  /\ heard.order
  /\ player = "silences" /\ asked = NoSound => heard.samples = Samples[heard.sound]

=============================================================================
