------------------------------ MODULE HostRole ------------------------------
(***************************************************************************)
(* RoomMembership with a record of the steps that leave the host role with *)
(* nobody who is there. Room::host is written and read without the lock of *)
(* room.clients, so that whoever is given the role may be gone by then.    *)
(***************************************************************************)
EXTENDS RoomMembership

VARIABLE misplaced  \* history: the role has been given to, or left with, nobody

RoleInit == Init /\ misplaced = FALSE

\* ClaimHost by a client that a kick has removed in the meantime.
ClaimedByRemoved(c) ==
    /\ pc[c] = "claim" /\ (is_new_room[c] \/ host = 0)
    /\ client_id[c] \notin clients

\* HandOver to a client that has left since the scan.
GivenToDeparted(c) ==
    /\ pc[c] = "transfer" /\ host = client_id[c] /\ peer[c] # 0
    /\ peer[c] \notin clients

\* HandOver that stores 0, since the scan found nobody, when somebody is there.
EmptiedTooLate(c) == pc[c] = "transfer" /\ peer[c] = 0 /\ clients # {}

\* KickRemove of the client that is host by now.
HostKicked(c) == pc[c] = "kick_remove" /\ peer[c] = host /\ host \in clients

Misplaces(c) ==
    \/ ClaimedByRemoved(c) \/ GivenToDeparted(c)
    \/ EmptiedTooLate(c) \/ HostKicked(c)

RoleNext ==
    \/ \E c \in Conn :
          /\ Progress(c) \/ ClientChoice(c)
          /\ misplaced' = (misplaced \/ (Misplaces(c) /\ pc'[c] # pc[c]))
    \/ CollectEmptyRoom /\ UNCHANGED misplaced

RoleSpec == RoleInit /\ [][RoleNext]_<<vars, misplaced>>

-----------------------------------------------------------------------------
\* Once nobody is claiming the role or handing it over, a room with clients has
\* a host and it is one of them: however joins, departures and hand-overs have
\* overlapped, two makers of the room included. The four steps above are all
\* that can take this from a room.
RoleIsHeld ==
    (\A c \in Conn : pc[c] \notin {"claim", "left", "transfer"})
    /\ clients # {} /\ ~misplaced => host \in clients
=============================================================================
