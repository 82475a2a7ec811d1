------------------------------- MODULE Playout -------------------------------
(***************************************************************************)
(* The client's sound, between the jitter buffer and the devices.          *)
(*                                                                         *)
(* Playback: recv_decode_loop pushes each frame that it plays or conceals  *)
(* (JitterStream) into a ring of samples; the callback of the output       *)
(* device pops what it needs, resamples it and fills the device's buffer.  *)
(* Capture: the callback of the input device resamples what it is given    *)
(* and pushes it into another ring, capture_encode_loop pops one frame     *)
(* every 20 ms, encodes and sends it. Without devices, test_tone_loop      *)
(* encodes and sends a tone. The halves share nothing: a behaviour here    *)
(* follows one of them.                                                    *)
(*                                                                         *)
(* A sample is a number that tells its moment in the sound, so that the    *)
(* order of what is heard can be told; in playback it tells first through  *)
(* which jitter buffer it came. Channels are left out: downmix and upmix   *)
(* map a mono sample to every channel of its frame and back.               *)
(***************************************************************************)
EXTENDS JitterStream, Resampler, Encoder

CONSTANTS
    Rates,      \* ratios of the devices' rates to 48 kHz
    FrameSize,  \* FRAME_SIZE (960)
    RingSize,   \* ring_buffer_size, in samples
    MaxFrames,  \* bound: frames in one buffer of a device
    MaxMic,     \* bound: samples the input device gives
    MaxReset,   \* bound: new jitter buffers
    Bitrate,    \* the configured bit rate, in thousands
    CodecReset  \* CODEC_RESET_THRESHOLD

ASSUME PlayoutConstants ==
    /\ Rates \subseteq Rate
    /\ {FrameSize, RingSize, MaxFrames} \subseteq Nat \ {0}
    /\ MaxMic \in Nat /\ MaxReset \in Nat
    /\ {Bitrate, CodecReset} \subseteq Nat \ {0}

VARIABLES
    side,     \* which part of the client's sound the behaviour follows
    rate,     \* Resampler::ratio
    pos,      \* Resampler::pos
    ring,     \* the ring buffer of samples
    resets,   \* jitter buffers replaced so far
    mic,      \* samples the input device has given so far
    starved,  \* the last taker found fewer samples than it wanted
    silent,   \* how much of its buffer it filled with silence
    encoder,  \* the encoder's bit rate; history: whether it refused one
    streak,   \* encode_fail_streak
    heard,    \* history: the last value taken
    forward   \* history: what was taken was in the order of its numbers

encoder_vars == <<encoder, streak>>
sound_vars == <<side, rate, pos, ring, resets, mic, starved, silent, encoder_vars, heard,
                forward>>
vars == <<stream_vars, sound_vars>>

SoundTypeOK ==
    /\ TypeOK
    /\ side \in {"playback", "capture", "tone"} /\ rate \in Rates
    /\ pos \in 0..(rate.src - 1)
    /\ ring \in Seq(Int) /\ Len(ring) <= RingSize
    /\ resets \in 0..MaxReset /\ mic \in 0..MaxMic
    /\ starved \in BOOLEAN /\ silent \in 0..(MaxFrames + FrameSize)
    /\ heard \in Int /\ forward \in BOOLEAN
    /\ encoder \in [bps : {Bitrate, 16, 12}, refused : BOOLEAN]
    /\ streak \in 0..CodecReset

NewEncoder == [bps |-> Bitrate, refused |-> FALSE]

SoundInit ==
    /\ Init
    /\ side \in {"playback", "capture", "tone"} /\ rate \in Rates
    /\ pos = 0 /\ ring = <<>>
    /\ resets = 0 /\ mic = 0
    /\ starved = FALSE /\ silent = 0
    /\ heard = 0 /\ forward = TRUE
    /\ encoder = NewEncoder /\ streak = 0

AtMost(a, b) == IF a <= b THEN a ELSE b

\* HeapProd::push_slice: what does not fit is dropped.
Pushed(samples) == ring \o SubSeq(samples, 1, AtMost(Len(samples), RingSize - Len(ring)))

Ascending(values) == \A k \in 2..Len(values) : values[k - 1] <= values[k]

Got(wanted) == AtMost(wanted, Len(ring))
Front(n) == SubSeq(ring, 1, n)

\* A taker that wants that many samples pops what there is, makes `values` of
\* it, and fills the rest of its buffer of `frames` with silence.
Take(wanted, values, frames) ==
    LET taken == SubSeq(values, 1, AtMost(Len(values), frames))
    IN  /\ ring' = SubSeq(ring, Got(wanted) + 1, Len(ring))
        /\ starved' = (Got(wanted) < wanted)
        /\ silent' = frames - Len(taken)
        /\ heard' = IF taken = <<>> THEN heard ELSE taken[Len(taken)]
        /\ forward' = (forward /\ Ascending(<<heard>> \o taken))

\* What comes out of the resampler, or goes around it.
Resampled(input) == IF IsIdentity(rate) THEN input ELSE Processed(rate, pos, input)
Advance(n) == pos' = IF IsIdentity(rate) THEN pos ELSE PosAfter(rate, pos, n)

-----------------------------------------------------------------------------
(* Playback. *)

\* The samples of a frame: its jitter buffer, and their moments. A frame that a
\* new buffer plays has a larger number than all of the buffers before, though
\* it may be the older frame.
SamplesOf(n) == [i \in 1..FrameSize |-> (resets * (Last + 2) + n) * FrameSize + i]

PushFrame(n) ==
    /\ side = "playback"
    /\ ring' = Pushed(SamplesOf(n))
    /\ UNCHANGED <<side, rate, pos, resets, mic, starved, silent, encoder_vars, heard,
                   forward>>

PlayIntoRing == Play /\ PushFrame(NextSlot(jb))

ConcealIntoRing == Conceal /\ PushFrame(expected)

Receive ==
    /\ side = "playback"
    /\ \E n \in Frame : Arrive(n)
    /\ UNCHANGED sound_vars

ReplaceBuffer ==
    /\ side = "playback" /\ resets < MaxReset
    /\ ResetBuffer
    /\ resets' = resets + 1
    /\ UNCHANGED <<side, rate, pos, ring, mic, starved, silent, encoder_vars, heard,
                   forward>>

\* The callback of the output device, for a buffer of `frames`.
FillBuffer(frames) ==
    LET wanted == Needed(rate, frames)
    IN  /\ side = "playback"
        /\ Take(wanted, Resampled(Front(Got(wanted))), frames)
        /\ Advance(Got(wanted))
        /\ UNCHANGED <<stream_vars, side, rate, resets, mic, encoder_vars>>

-----------------------------------------------------------------------------
(* Capture. *)

\* The callback of the input device, given a buffer of `frames`.
TakeBuffer(frames) ==
    /\ side = "capture" /\ mic + frames <= MaxMic
    /\ mic' = mic + frames
    /\ ring' = Pushed(Resampled([k \in 1..frames |-> mic + k]))
    /\ Advance(frames)
    /\ UNCHANGED <<stream_vars, side, rate, resets, starved, silent, encoder_vars, heard,
                   forward>>

\* encoder.encode: a failure counts, and enough of them in a row replace the
\* encoder, if a new one can be made. (A longer streak makes no difference.)
EncodeFrame ==
    \E e \in Encodings(encoder.bps) :
        LET used == [e.encoder EXCEPT !.refused = @ \/ encoder.refused] IN
        \/ e.ok /\ streak' = 0 /\ encoder' = used
        \/ ~e.ok /\ streak' = AtMost(streak + 1, CodecReset) /\ encoder' = used
        \/ /\ ~e.ok /\ streak + 1 >= CodecReset
           /\ streak' = 0 /\ encoder' = NewEncoder

\* A tick of capture_encode_loop: a frame, the end of it silent at need; what
\* is encoded is sent (Upstream has the numbers).
CaptureTick ==
    /\ side = "capture"
    /\ Take(FrameSize, Front(Got(FrameSize)), FrameSize)
    /\ EncodeFrame
    /\ UNCHANGED <<stream_vars, side, rate, pos, resets, mic>>

\* A tick of test_tone_loop.
ToneTick ==
    /\ side = "tone"
    /\ EncodeFrame
    /\ UNCHANGED <<stream_vars, side, rate, pos, ring, resets, mic, starved, silent, heard,
                   forward>>

-----------------------------------------------------------------------------
SoundNext ==
    \/ Receive \/ PlayIntoRing \/ ConcealIntoRing \/ ReplaceBuffer \/ CaptureTick \/ ToneTick
    \/ \E frames \in 1..MaxFrames : FillBuffer(frames) \/ TakeBuffer(frames)

SoundSpec == SoundInit /\ [][SoundNext]_vars

-----------------------------------------------------------------------------
(* Properties. *)

\* What is encoded is in the order it was spoken in. What is heard is in that
\* order from one replacement of the jitter buffer to the next, and nothing of a
\* replaced buffer is heard after something of its successor: through reordered,
\* lost and stale frames, overflow of the ring, interpolation across the cut,
\* and the samples a callback pops and throws away. At a replacement the sound
\* may go back: a new buffer starts with any frame that arrives (NeverBack).
BackOnlyAtReplacement == forward

\* A callback or tick that finds all the samples it asks for leaves no gap of
\* silence, whatever fraction of a sample the resampler starts from.
NoGapWhenFed == ~starved => silent = 0

\* A frame that was too large, or failed, costs no quality afterwards: between
\* two frames the encoder has the configured bit rate, after any sequence of
\* retries, failures and replacements; unless Opus refused a rate.
RateKept == encoder.bps # Bitrate => encoder.refused

-----------------------------------------------------------------------------
(* What the documentation and the comments say, and the code does not do.  *)

\* audio_io.rs:116: the resampler keeps a "fractional position and the
\* previous chunk's last sample so that output is seamless across successive
\* calls". What is heard goes on by the ratio from one value to the next, as
\* long as no frame is lost before the ring, the ring never overflows and the
\* jitter buffer is not replaced.
Seamless ==
    [][\A frames \in 1..MaxFrames :
          FillBuffer(frames) /\ heard # 0 /\ resets = 0
             => heard' - heard <= frames * rate.src]_vars

\* The moment of a value that a device of 48 kHz plays.
Moment(value) == (value - 1) % ((Last + 2) * FrameSize)

\* README.md:348: a jitter buffer "that reorders out-of-sequence packets". No
\* sample is heard after a later one.
NeverBack ==
    [][side = "playback" /\ IsIdentity(rate) /\ heard # 0
          => Moment(heard') >= Moment(heard)]_vars
=============================================================================
