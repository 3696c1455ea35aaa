------------------------------- MODULE Voice -------------------------------
(***************************************************************************)
(* One player talks and another listens: crates/voice (the gate), the      *)
(* audio module of the raylib client (crates/goats/src/audio.rs) and of    *)
(* the Godot client (crates/godot/src/voice.rs).                           *)
(*                                                                         *)
(* The microphone's callback cuts frames and must not wait; an encoder     *)
(* thread gates them and sends what is speech, one datagram each (see      *)
(* Relay for the way through the host).  The listener queues what arrives  *)
(* for a decoder, mixes it, and a sound card takes it from there.  Which   *)
(* frames are loud enough for the gate's floor is left open.  A frame is   *)
(* named by its place among those the encoder took.                        *)
(***************************************************************************)
EXTENDS Naturals, Sequences, SequencesExt

CONSTANTS
  MaxFrames,       \* bound: how many frames the microphone gives, by listener
  MaxSwitches,     \* bound: how often the listener mutes or unmutes
  CaptureBacklog,  \* CAPTURE_BACKLOG
  PrerollFrames,   \* PREROLL_FRAMES
  HoldFrames,      \* VAD_HOLD_FRAMES
  VoiceBacklog,    \* VOICE_BACKLOG
  Cushion,         \* VOICE_CUSHION_FRAMES, in packets
  QueueMax         \* VOICE_QUEUE_MAX_FRAMES, in packets

ASSUME VoiceAssumption ==
  /\ MaxFrames \in [{"raylib", "godot", "nobody"} -> Nat]
  /\ {MaxSwitches, HoldFrames} \subseteq Nat
  /\ {CaptureBacklog, PrerollFrames, VoiceBacklog} \subseteq Nat \ {0}
  /\ Cushion \in 1 .. QueueMax
  /\ QueueMax \in Nat

VARIABLES
  captured,  \* how many frames the microphone gave
  raw,       \* frames the encoder has yet to take: are they loud?
  taken,     \* history: the frames the encoder took
  hold,      \* Gate::hold
  active,    \* Gate::active
  preroll,   \* the last silent frames
  sent,      \* history: what went out
  flying,    \* datagrams on their way
  client,    \* which client listens: "raylib", "godot", or "nobody" while offline
  inbox,     \* delivered and not yet decoded
  mix,       \* decoded and not yet played
  came,      \* history: everything that was put into the mix
  playing,   \* the raylib stream was started
  muted,     \* the scene set the gain to 0
  switches   \* how often it was changed

talker == <<captured, raw, taken, hold, active, preroll, sent>>
listener == <<client, inbox, mix, came, playing, muted, switches>>
voiceVars == <<talker, flying, listener>>

VoiceInit ==
  /\ captured = 0
  /\ raw = << >>
  /\ taken = << >>
  /\ hold = 0
  /\ active = FALSE
  /\ preroll = << >>
  /\ sent = << >>
  /\ flying = {}
  /\ client \in {"raylib", "godot", "nobody"}
  /\ inbox = << >>
  /\ mix = << >>
  /\ came = << >>
  /\ playing = FALSE
  /\ muted = FALSE
  /\ switches = 0

\* The last n of a sequence, or all of it.
Latest(queue, n) ==
  SubSeq(queue, IF Len(queue) > n THEN Len(queue) - n + 1 ELSE 1, Len(queue))

-----------------------------------------------------------------------------
(* The talker.                                                             *)

\* A frame more, dropped if the encoder is behind (`try_send`).
Capture ==
  /\ captured < MaxFrames[client]
  /\ captured' = captured + 1
  /\ \E loud \in BOOLEAN :
       raw' = IF Len(raw) < CaptureBacklog THEN Append(raw, loud) ELSE raw
  /\ UNCHANGED <<taken, hold, active, preroll, sent, flying, listener>>

\* Faulty variant: the frame that ends the hold is cut off.
HoldsButOne == hold > 1

Holds == hold > 0

\* `Gate::push`: a loud frame opens the gate, and it stays open for HoldFrames
\* frames after the last one.
Push(loud) ==
  /\ hold' = IF loud THEN HoldFrames ELSE IF Holds THEN hold - 1 ELSE hold
  /\ active' = (loud \/ (Holds /\ active))

\* `Outgoing::send`: offline there is no session to say them in.
Out(frames) == flying' = IF client = "nobody" THEN flying ELSE flying \cup Range(frames)

Utter(frames) == sent' = sent \o frames /\ Out(frames)

\* What the gate made of a frame: silence is kept for the next onset, and the
\* onset sends what was kept.
Step(frame) ==
  \/ /\ ~active'
     /\ preroll' = Latest(Append(preroll, frame), PrerollFrames)
     /\ UNCHANGED <<sent, flying>>
  \/ active' /\ ~active /\ Utter(Append(preroll, frame)) /\ preroll' = << >>
  \/ active' /\ active /\ Utter(<<frame>>) /\ UNCHANGED preroll

\* The encoder's thread, or the frame thread of the Godot client.
Encode ==
  /\ raw # << >>
  /\ raw' = Tail(raw)
  /\ taken' = Append(taken, raw[1])
  /\ Push(raw[1])
  /\ Step(Len(taken) + 1)
  /\ UNCHANGED <<captured, listener>>

-----------------------------------------------------------------------------
(* The way, and the listener's queue.  The raylib client's is bounded, and *)
(* a frame that finds it full is dropped.                                  *)

Deliver(frame) ==
  /\ flying' = flying \ {frame}
  /\ inbox' = IF client = "raylib" /\ Len(inbox) = VoiceBacklog
              THEN inbox
              ELSE Append(inbox, frame)
  /\ UNCHANGED <<talker, client, mix, came, playing, muted, switches>>

LoseFrame(frame) ==
  /\ flying' = flying \ {frame}
  /\ UNCHANGED <<talker, listener>>

\* The host's scene changes the gain.
SetGain ==
  /\ switches < MaxSwitches
  /\ switches' = switches + 1
  /\ muted' = ~muted
  /\ UNCHANGED <<talker, flying, client, inbox, mix, came, playing>>

-----------------------------------------------------------------------------
(* The raylib client.                                                      *)

\* Faulty variant: a frame that does not fit the mix is dropped.
NewestDropped(queue) ==
  SubSeq(queue, 1, IF Len(queue) > QueueMax THEN QueueMax ELSE Len(queue))

\* Half a second is kept, the latest.
Fitted(queue) == Latest(queue, QueueMax)

\* Faulty variant: a packet that fills the cushion is not enough to start.
StartsLate(queue) == Len(queue) > Cushion

\* The stream is started once the cushion is there.
Starts(queue) == Len(queue) >= Cushion

\* `Incoming::next`: the decoder's thread takes the next frame there is.
Take == inbox # << >> /\ inbox' = Tail(inbox)

\* What the decoder's thread took, `pump` appends on the frame thread.
Pump ==
  /\ client = "raylib"
  /\ Take
  /\ came' = Append(came, inbox[1])
  /\ mix' = Fitted(Append(mix, inbox[1]))
  /\ playing' = (playing \/ Starts(mix'))
  /\ UNCHANGED <<talker, flying, client, muted, switches>>

\* `mix_callback`: a muted stream is silent and leaves the mix as it is.
Callback ==
  /\ client = "raylib"
  /\ playing
  /\ ~muted
  /\ mix # << >>
  /\ mix' = Tail(mix)
  /\ UNCHANGED <<talker, flying, client, inbox, came, playing, muted, switches>>

-----------------------------------------------------------------------------
(* The Godot client: `pull_voice`, once a frame.  What was delivered is    *)
(* decoded, and the scene takes what it has room for, silent or not.       *)

Pull ==
  /\ client = "godot"
  /\ inbox # << >> \/ mix # << >>
  /\ inbox' = << >>
  /\ came' = came \o inbox
  /\ LET all == Fitted(mix \o inbox)
     IN  \E room \in 0 .. 1 : mix' = SubSeq(all, 1 + room, Len(all))
  /\ UNCHANGED <<talker, flying, client, playing, muted, switches>>

-----------------------------------------------------------------------------

VoiceNext ==
  \/ Capture \/ Encode
  \/ \E frame \in flying : Deliver(frame) \/ LoseFrame(frame)
  \/ SetGain
  \/ Pump \/ Callback
  \/ Pull

\* The frame loop, the threads and the sound card go on.  A generator that is
\* being played has room again and again.
Fairness ==
  /\ WF_voiceVars(Pump)
  /\ WF_voiceVars(Callback)
  /\ WF_voiceVars(Pull)
  /\ SF_voiceVars(Pull /\ Len(mix') < Len(Fitted(mix \o inbox)))

VoiceSpec == VoiceInit /\ [][VoiceNext]_voiceVars /\ Fairness

-----------------------------------------------------------------------------
(* Properties.                                                             *)

\* The frames a listener should get: everything from PrerollFrames before a
\* loud frame to HoldFrames after it.
Spoken ==
  {k \in DOMAIN taken :
     \E j \in DOMAIN taken :
       taken[j] /\ j <= k + PrerollFrames /\ k <= j + HoldFrames}

\* "A hold plus a small pre-roll keep word tails and onsets intact": what goes
\* out is every utterance with its first syllable and its tail, each frame once
\* and in the order it was spoken, however close one utterance is to the next
\* (`Gate::push`, `encode_loop`).
UtterancesAreWhole ==
  /\ Range(sent) = Spoken
  /\ \A i, j \in DOMAIN sent : i < j => sent[i] < sent[j]

\* A mix that is behind loses its oldest audio and nothing else: what it holds
\* is the latest of all that came, without a hole (`Voice::pump`,
\* `Voice::receive`).
MixIsTheLatest == mix = Latest(came, Len(mix)) /\ Len(mix) <= QueueMax

\* Once a listener stays unmuted, whatever got to its mix is played: nothing is
\* left over for the next time somebody talks, except less than a cushion before
\* the stream was ever started.
TheMixIsPlayedOut ==
  <>[](~muted) => <>[](inbox = << >> =>
                         mix = << >> \/ (client = "raylib" /\ Len(came) < Cushion))

=============================================================================
