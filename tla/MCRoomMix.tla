------------------------------ MODULE MCRoomMix ------------------------------
(* The small instances of RoomMix that TLC explores. *)
EXTENDS RoomMix, TLC

\* As in MCRoomMembership: the connections are alike.
ConnSymmetry == Permutations(Conn)
=============================================================================
