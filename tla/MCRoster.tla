------------------------------- MODULE MCRoster -------------------------------
\* Model values for Roster.
EXTENDS Roster

\* 1 is called by the digits of 3's id, 2 and 3 have the same name.
MCName == 1 :> 3 @@ 2 :> 9 @@ 3 :> 9

\* Three names that differ.
MCNames == 1 :> 7 @@ 2 :> 8 @@ 3 :> 9
=============================================================================
