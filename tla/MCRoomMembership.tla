-------------------------- MODULE MCRoomMembership --------------------------
(* The small instances of RoomMembership that TLC explores. *)
EXTENDS HostRole, TLC

\* Before they have an id the connections are alike, and no property or
\* action names one. Used by the runs that check no liveness.
ConnSymmetry == Permutations(Conn)
=============================================================================
