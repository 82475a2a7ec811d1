------------------------------ MODULE MCPlayout ------------------------------
(* The small instances of Playout that TLC explores. *)
EXTENDS Playout

\* A device faster and one slower than 48 kHz for playback (for capture the
\* other way round), and 5 : 3, which leaves more fractions of a sample.
MCUnequal == {[src |-> 2, dst |-> 3], [src |-> 3, dst |-> 2], [src |-> 5, dst |-> 3]}

\* And a device of 48 kHz.
MCRates == MCUnequal \cup {[src |-> 1, dst |-> 1]}
=============================================================================
