------------------------------- MODULE Encoder -------------------------------
(***************************************************************************)
(* common/src/codec.rs: OpusEncoder::encode. A frame that does not fit the *)
(* largest datagram is tried again at two lower bit rates; whatever comes  *)
(* of it, the encoder is set back to the rate it had. What the Opus        *)
(* library answers, and whether it takes a new rate, is left open.         *)
(***************************************************************************)
EXTENDS Naturals

\* The bit rate of attempt k, in thousands.
RateOfAttempt(saved, k) == IF k = 0 THEN saved ELSE IF k = 1 THEN 16 ELSE 12

Attempts == 0..2

\* Mutant of SetBack: only a failure is followed by it.
SetBackOnFailure(ok, saved, k) ==
    IF ok THEN {[bps |-> RateOfAttempt(saved, k), refused |-> FALSE]}
    ELSE {[bps |-> saved, refused |-> FALSE]}

\* set_bitrate(saved) before attempt k's answer is returned; its own error is
\* ignored. The first attempt was at the saved rate.
SetBack(ok, saved, k) ==
    {[bps |-> saved, refused |-> FALSE]}
    \cup IF k = 0 THEN {} ELSE {[bps |-> RateOfAttempt(saved, k), refused |-> TRUE]}

\* What encode may do to an encoder at the rate `saved`: it returns at some
\* attempt, with a packet or an error; or a lower rate is refused, which
\* returns at once.
Encodings(saved) ==
    (UNION {{[ok |-> ok, encoder |-> e] : e \in SetBack(ok, saved, k)} :
               ok \in BOOLEAN, k \in Attempts})
    \cup {[ok |-> FALSE,
           encoder |-> [bps |-> RateOfAttempt(saved, k), refused |-> TRUE]] : k \in {0, 1}}
=============================================================================
