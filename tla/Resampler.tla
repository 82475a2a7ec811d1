------------------------------ MODULE Resampler ------------------------------
(***************************************************************************)
(* client/src/audio_io.rs: the linear-interpolation Resampler between the  *)
(* rate of a device and 48 kHz, one chunk of samples at a time.            *)
(*                                                                         *)
(* rate.src / rate.dst is Resampler::ratio. Positions and values are whole *)
(* numbers, in units of 1 / rate.dst of the code's f64 and f32: rounding   *)
(* is left out. prev_sample is left out too: it is read only at a negative *)
(* position, and pos never is negative (PosStaysAhead in PlayoutProofs).   *)
(***************************************************************************)
EXTENDS Integers, Sequences

Rate == [src : Nat \ {0}, dst : Nat \ {0}]

IsIdentity(rate) == rate.src = rate.dst

\* How often `while self.pos < len` runs for a chunk of n samples.
OutputCount(rate, pos, n) ==
    IF pos < n * rate.dst THEN (n * rate.dst - pos - 1) \div rate.src + 1 ELSE 0

\* The value at position p; past the last sample it is the last sample's.
Interpolated(rate, input, p) ==
    LET idx  == p \div rate.dst + 1
        a    == input[idx]
        b    == IF idx < Len(input) THEN input[idx + 1] ELSE a
    IN  a * rate.dst + (b - a) * (p % rate.dst)

\* What process appends to its output.
Processed(rate, pos, input) ==
    [k \in 1..OutputCount(rate, pos, Len(input)) |->
        Interpolated(rate, input, pos + (k - 1) * rate.src)]

\* Mutant of PosAfter: every chunk starts at its first sample.
PosRestarted(rate, pos, n) == 0 - n * rate.dst

\* What process leaves in self.pos.
PosAfter(rate, pos, n) == pos + OutputCount(rate, pos, n) * rate.src - n * rate.dst

\* Mutant of Needed: the fraction of a sample is cut off.
NeededCut(rate, frames) == (frames * rate.src) \div rate.dst

\* How many samples the playback callback takes for a buffer of that many
\* frames: the number that covers them, rounded up, and two more.
Needed(rate, frames) ==
    IF IsIdentity(rate) THEN frames
    ELSE (frames * rate.src + rate.dst - 1) \div rate.dst + 2
=============================================================================
