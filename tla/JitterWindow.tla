---------------------------- MODULE JitterWindow ----------------------------
(***************************************************************************)
(* What a jitter buffer of Depth slots promises: a window of Depth frame   *)
(* numbers that slides upward. A frame inside it or ahead of it is kept    *)
(* until it is read or the window has moved past it; frames are read in    *)
(* the order of their numbers.                                             *)
(***************************************************************************)
EXTENDS Integers

CONSTANTS
    Depth,  \* the width of the window
    Frame   \* the numbers of the frames of the stream

VARIABLES
    primed,    \* a frame has been inserted since the start or the last reset
    expected,  \* the number of the next frame to read, when primed
    held       \* the numbers of the frames kept

window_vars == <<primed, expected, held>>

WindowInit == primed = FALSE /\ expected = 0 /\ held = {}

From(n) == IF primed THEN expected ELSE n

Keep(n) ==
    /\ n >= From(n)
    /\ primed' = TRUE
    /\ expected' = IF n >= From(n) + Depth THEN n - Depth + 1 ELSE From(n)
    /\ held' = {m \in held \cup {n} : m >= expected'}

Read ==
    /\ primed
    /\ expected \in held
    /\ expected' = expected + 1
    /\ held' = held \ {expected}
    /\ UNCHANGED primed

Skip ==
    /\ primed
    /\ expected \notin held
    /\ expected' = expected + 1
    /\ UNCHANGED <<primed, held>>

Reset == primed' = FALSE /\ expected' = 0 /\ held' = {}

WindowNext == (\E n \in Frame : Keep(n)) \/ Read \/ Skip \/ Reset

WindowSpec == WindowInit /\ [][WindowNext]_window_vars
=============================================================================
