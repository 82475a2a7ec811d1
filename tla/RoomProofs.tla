------------------------------- MODULE RoomProofs -------------------------------
(***************************************************************************)
(* What holds of RoomMembership for every set of connections, room size    *)
(* and first id; of the host role, but for the steps HostRole names; and   *)
(* of RoomMix, which implements it, for every capacity of its queue:       *)
(* whoever has been told that it is in the room is mixed in the room.      *)
(***************************************************************************)
EXTENDS RoomMix, HostRole, FiniteSetTheorems, SequenceTheorems, TLAPS

-----------------------------------------------------------------------------
(* The room. *)

\* next_id hands out every id once, and a handler has one from the entry on.
IdsIssued ==
    /\ \A c \in Conn : client_id[c] < next_client_id
    /\ \A c \in Conn : pc[c] \in {"register"} \cup Joined => client_id[c] # 0
    /\ \A c, d \in Conn : client_id[c] = client_id[d] /\ client_id[c] # 0 => c = d

-----------------------------------------------------------------------------
(* Type correctness and the identity of the handlers. *)

\* Every step of a handler, of the cleanup and of the network keeps the types.
LEMMA TypeStep == TypeOK /\ IdsIssued /\ [Next]_vars => TypeOK'
<1> SUFFICES ASSUME TypeOK, IdsIssued, [Next]_vars PROVE TypeOK'
  OBVIOUS
<1> USE DEF Where, Admitted, Joined, Departing, Ended, room_vars
<1>1. ASSUME NEW c \in Conn, RefuseJoin(c) PROVE TypeOK'
  BY <1>1 DEF TypeOK, RefuseJoin, Go
<1>2. ASSUME NEW c \in Conn, CheckCapacity(c) PROVE TypeOK'
  BY <1>2 DEF TypeOK, CheckCapacity, Go
<1>3. ASSUME NEW c \in Conn, WriteFull(c) PROVE TypeOK'
  BY <1>3 DEF TypeOK, WriteFull, Go
<1>4. ASSUME NEW c \in Conn, EnterRoom(c) PROVE TypeOK'
  BY <1>4 DEF TypeOK, EnterRoom, Go
<1>5. ASSUME NEW c \in Conn, Register(c) PROVE TypeOK'
  <2>1. client_id[c] \in Nat \ {0}
    BY <1>5 DEF TypeOK, IdsIssued, Register, Go
  <2>2. pc' \in [Conn -> Where]
    BY <1>5 DEF TypeOK, Register, Go
  <2>3. QED
    BY <1>5, <2>1, <2>2 DEF TypeOK, Register
<1>6. ASSUME NEW c \in Conn, RegisterPanics(c) PROVE TypeOK'
  BY <1>6 DEF TypeOK, RegisterPanics, Go
<1>7. ASSUME NEW c \in Conn, ClaimHost(c) PROVE TypeOK'
  BY <1>7 DEF TypeOK, ClaimHost, Go
<1>8. ASSUME NEW c \in Conn, SendAddClient(c) PROVE TypeOK'
  BY <1>8 DEF TypeOK, SendAddClient, Go
<1>9. ASSUME NEW c \in Conn, WriteJoined(c) PROVE TypeOK'
  BY <1>9 DEF TypeOK, WriteJoined, Go
<1>10. ASSUME NEW c \in Conn, WriteFails(c) PROVE TypeOK'
  BY <1>10 DEF TypeOK, WriteFails, Go
<1>11. ASSUME NEW c \in Conn, GetRoomInfo(c) PROVE TypeOK'
  BY <1>11 DEF TypeOK, GetRoomInfo, Go
<1>12. ASSUME NEW c \in Conn, WriteRoomInfo(c) PROVE TypeOK'
  BY <1>12 DEF TypeOK, WriteRoomInfo, Go
<1>13. ASSUME NEW c \in Conn, Announce(c) PROVE TypeOK'
  <2>1. client_id[c] \in Nat \ {0}
    BY <1>13 DEF TypeOK, IdsIssued, Announce, Go
  <2>2. pc' \in [Conn -> Where]
    BY <1>13 DEF TypeOK, Announce, Go
  <2>3. QED
    BY <1>13, <2>1, <2>2 DEF TypeOK, Announce
<1>14. ASSUME NEW c \in Conn, ReadKick(c) PROVE TypeOK'
  <2>1. PICK target \in Ids : peer' = [peer EXCEPT ![c] = target]
    BY <1>14 DEF ReadKick
  <2>2. target \in Nat
    BY <2>1 DEF Ids, TypeOK
  <2>3. peer' \in [Conn -> Nat]
    BY <2>1, <2>2 DEF TypeOK
  <2>4. pc' \in [Conn -> Where]
    BY <1>14 DEF TypeOK, ReadKick, Go
  <2>5. QED
    BY <1>14, <2>3, <2>4 DEF TypeOK, ReadKick
<1>15. ASSUME NEW c \in Conn, CheckKick(c) PROVE TypeOK'
  BY <1>15 DEF TypeOK, CheckKick, Go
<1>16. ASSUME NEW c \in Conn, KickRemove(c) PROVE TypeOK'
  <2>1. pc' \in [Conn -> Where] /\ peer' \in [Conn -> Nat]
    BY <1>16 DEF TypeOK, KickRemove, Go
  <2>2. clients' \subseteq Nat \ {0}
    BY <1>16 DEF TypeOK, KickRemove
  <2>3. QED
    BY <1>16, <2>1, <2>2 DEF TypeOK, KickRemove
<1>17. ASSUME NEW c \in Conn, KickClose(c) PROVE TypeOK'
  BY <1>17 DEF TypeOK, KickClose, Go
<1>18. ASSUME NEW c \in Conn, Leave(c) PROVE TypeOK'
  BY <1>18 DEF TypeOK, Leave, Go
<1>19. ASSUME NEW c \in Conn, StreamClosed(c) PROVE TypeOK'
  BY <1>19 DEF TypeOK, StreamClosed, Go
<1>20. ASSUME NEW c \in Conn, RemoveSelf(c) PROVE TypeOK'
  BY <1>20 DEF TypeOK, RemoveSelf, Go
<1>21. ASSUME NEW c \in Conn, FindSuccessor(c) PROVE TypeOK'
  BY <1>21 DEF TypeOK, FindSuccessor, Go, LowestId
<1>22. ASSUME NEW c \in Conn, HandOver(c) PROVE TypeOK'
  BY <1>22 DEF TypeOK, HandOver, Go
<1>23. ASSUME NEW c \in Conn, Disconnect(c) PROVE TypeOK'
  BY <1>23 DEF TypeOK, Disconnect
<1>24. ASSUME CollectEmptyRoom PROVE TypeOK'
  BY <1>24 DEF TypeOK, CollectEmptyRoom
<1>25. CASE UNCHANGED vars
  BY <1>25 DEF TypeOK, vars
<1>26. QED
  BY <1>1, <1>2, <1>3, <1>4, <1>5, <1>6, <1>7, <1>8, <1>9, <1>10, <1>11, <1>12, <1>13, <1>14, <1>15, <1>16, <1>17, <1>18, <1>19, <1>20, <1>21, <1>22, <1>23, <1>24, <1>25 DEF Next, Progress, ClientChoice

\* Every step keeps the ids apart: next_id never hands out one of them again.
LEMMA IdsStep == TypeOK /\ IdsIssued /\ [Next]_vars => IdsIssued'
<1> SUFFICES ASSUME TypeOK, IdsIssued, [Next]_vars PROVE IdsIssued'
  OBVIOUS
<1> USE DEF Joined, room_vars
<1>1. ASSUME NEW c \in Conn, RefuseJoin(c) PROVE IdsIssued'
  BY <1>1 DEF TypeOK, IdsIssued, RefuseJoin, Go
<1>2. ASSUME NEW c \in Conn, CheckCapacity(c) PROVE IdsIssued'
  BY <1>2 DEF TypeOK, IdsIssued, CheckCapacity, Go
<1>3. ASSUME NEW c \in Conn, WriteFull(c) PROVE IdsIssued'
  BY <1>3 DEF TypeOK, IdsIssued, WriteFull, Go
<1>4. ASSUME NEW c \in Conn, EnterRoom(c) PROVE IdsIssued'
  BY <1>4 DEF TypeOK, IdsIssued, EnterRoom, Go
<1>5. ASSUME NEW c \in Conn, Register(c) PROVE IdsIssued'
  BY <1>5 DEF TypeOK, IdsIssued, Register, Go
<1>6. ASSUME NEW c \in Conn, RegisterPanics(c) PROVE IdsIssued'
  BY <1>6 DEF TypeOK, IdsIssued, RegisterPanics, Go
<1>7. ASSUME NEW c \in Conn, ClaimHost(c) PROVE IdsIssued'
  BY <1>7 DEF TypeOK, IdsIssued, ClaimHost, Go
<1>8. ASSUME NEW c \in Conn, SendAddClient(c) PROVE IdsIssued'
  BY <1>8 DEF TypeOK, IdsIssued, SendAddClient, Go
<1>9. ASSUME NEW c \in Conn, WriteJoined(c) PROVE IdsIssued'
  BY <1>9 DEF TypeOK, IdsIssued, WriteJoined, Go
<1>10. ASSUME NEW c \in Conn, WriteFails(c) PROVE IdsIssued'
  BY <1>10 DEF TypeOK, IdsIssued, WriteFails, Go
<1>11. ASSUME NEW c \in Conn, GetRoomInfo(c) PROVE IdsIssued'
  BY <1>11 DEF TypeOK, IdsIssued, GetRoomInfo, Go
<1>12. ASSUME NEW c \in Conn, WriteRoomInfo(c) PROVE IdsIssued'
  BY <1>12 DEF TypeOK, IdsIssued, WriteRoomInfo, Go
<1>13. ASSUME NEW c \in Conn, Announce(c) PROVE IdsIssued'
  BY <1>13 DEF TypeOK, IdsIssued, Announce, Go
<1>14. ASSUME NEW c \in Conn, ReadKick(c) PROVE IdsIssued'
  BY <1>14 DEF TypeOK, IdsIssued, ReadKick, Go
<1>15. ASSUME NEW c \in Conn, CheckKick(c) PROVE IdsIssued'
  BY <1>15 DEF TypeOK, IdsIssued, CheckKick, Go
<1>16. ASSUME NEW c \in Conn, KickRemove(c) PROVE IdsIssued'
  BY <1>16 DEF TypeOK, IdsIssued, KickRemove, Go
<1>17. ASSUME NEW c \in Conn, KickClose(c) PROVE IdsIssued'
  BY <1>17 DEF TypeOK, IdsIssued, KickClose, Go
<1>18. ASSUME NEW c \in Conn, Leave(c) PROVE IdsIssued'
  BY <1>18 DEF TypeOK, IdsIssued, Leave, Go
<1>19. ASSUME NEW c \in Conn, StreamClosed(c) PROVE IdsIssued'
  BY <1>19 DEF TypeOK, IdsIssued, StreamClosed, Go
<1>20. ASSUME NEW c \in Conn, RemoveSelf(c) PROVE IdsIssued'
  BY <1>20 DEF TypeOK, IdsIssued, RemoveSelf, Go
<1>21. ASSUME NEW c \in Conn, FindSuccessor(c) PROVE IdsIssued'
  BY <1>21 DEF TypeOK, IdsIssued, FindSuccessor, Go
<1>22. ASSUME NEW c \in Conn, HandOver(c) PROVE IdsIssued'
  BY <1>22 DEF TypeOK, IdsIssued, HandOver, Go
<1>23. ASSUME NEW c \in Conn, Disconnect(c) PROVE IdsIssued'
  BY <1>23 DEF TypeOK, IdsIssued, Disconnect
<1>24. ASSUME CollectEmptyRoom PROVE IdsIssued'
  BY <1>24 DEF TypeOK, IdsIssued, CollectEmptyRoom
<1>25. CASE UNCHANGED vars
  BY <1>25 DEF TypeOK, IdsIssued, vars
<1>26. QED
  BY <1>1, <1>2, <1>3, <1>4, <1>5, <1>6, <1>7, <1>8, <1>9, <1>10, <1>11, <1>12, <1>13, <1>14, <1>15, <1>16, <1>17, <1>18, <1>19, <1>20, <1>21, <1>22, <1>23, <1>24, <1>25 DEF Next, Progress, ClientChoice

\* TypeOK, with it the non-zero ids that "host = 0 means no host" depends on;
\* and every handler has an id of its own.
THEOREM TypeCorrect == Spec => [](TypeOK /\ IdsIssued)
<1>1. Init => TypeOK /\ IdsIssued
  <2> SUFFICES ASSUME Init PROVE TypeOK /\ IdsIssued
    OBVIOUS
  <2>1. TypeOK
    BY RoomConstants DEF Init, TypeOK, Where
  <2>2. IdsIssued
    BY RoomConstants DEF Init, IdsIssued, Joined
  <2>3. QED
    BY <2>1, <2>2
<1>2. TypeOK /\ IdsIssued /\ [Next]_vars => TypeOK' /\ IdsIssued'
  BY TypeStep, IdsStep
<1>3. QED
  BY <1>1, <1>2, PTL DEF Spec

-----------------------------------------------------------------------------
(* Who is in the roster. *)

\* Every step leaves in the roster only clients whose handler is still there.
LEMMA MembersStep ==
    TypeOK /\ MembersHaveHandlers /\ [Next]_vars => MembersHaveHandlers'
<1> SUFFICES ASSUME TypeOK, MembersHaveHandlers, [Next]_vars
             PROVE  MembersHaveHandlers'
  OBVIOUS
<1> USE DEF Joined, room_vars
<1>1. ASSUME NEW c \in Conn, RefuseJoin(c) PROVE MembersHaveHandlers'
  BY <1>1 DEF TypeOK, MembersHaveHandlers, RefuseJoin, Go
<1>2. ASSUME NEW c \in Conn, CheckCapacity(c) PROVE MembersHaveHandlers'
  BY <1>2 DEF TypeOK, MembersHaveHandlers, CheckCapacity, Go
<1>3. ASSUME NEW c \in Conn, WriteFull(c) PROVE MembersHaveHandlers'
  BY <1>3 DEF TypeOK, MembersHaveHandlers, WriteFull, Go
<1>4. ASSUME NEW c \in Conn, EnterRoom(c) PROVE MembersHaveHandlers'
  BY <1>4 DEF TypeOK, MembersHaveHandlers, EnterRoom, Go
<1>5. ASSUME NEW c \in Conn, Register(c) PROVE MembersHaveHandlers'
  BY <1>5 DEF TypeOK, MembersHaveHandlers, Register, Go
<1>6. ASSUME NEW c \in Conn, RegisterPanics(c) PROVE MembersHaveHandlers'
  BY <1>6 DEF TypeOK, MembersHaveHandlers, RegisterPanics, Go
<1>7. ASSUME NEW c \in Conn, ClaimHost(c) PROVE MembersHaveHandlers'
  BY <1>7 DEF TypeOK, MembersHaveHandlers, ClaimHost, Go
<1>8. ASSUME NEW c \in Conn, SendAddClient(c) PROVE MembersHaveHandlers'
  BY <1>8 DEF TypeOK, MembersHaveHandlers, SendAddClient, Go
<1>9. ASSUME NEW c \in Conn, WriteJoined(c) PROVE MembersHaveHandlers'
  BY <1>9 DEF TypeOK, MembersHaveHandlers, WriteJoined, Go
<1>10. ASSUME NEW c \in Conn, WriteFails(c) PROVE MembersHaveHandlers'
  BY <1>10 DEF TypeOK, MembersHaveHandlers, WriteFails, Go
<1>11. ASSUME NEW c \in Conn, GetRoomInfo(c) PROVE MembersHaveHandlers'
  BY <1>11 DEF TypeOK, MembersHaveHandlers, GetRoomInfo, Go
<1>12. ASSUME NEW c \in Conn, WriteRoomInfo(c) PROVE MembersHaveHandlers'
  BY <1>12 DEF TypeOK, MembersHaveHandlers, WriteRoomInfo, Go
<1>13. ASSUME NEW c \in Conn, Announce(c) PROVE MembersHaveHandlers'
  BY <1>13 DEF TypeOK, MembersHaveHandlers, Announce, Go
<1>14. ASSUME NEW c \in Conn, ReadKick(c) PROVE MembersHaveHandlers'
  BY <1>14 DEF TypeOK, MembersHaveHandlers, ReadKick, Go
<1>15. ASSUME NEW c \in Conn, CheckKick(c) PROVE MembersHaveHandlers'
  BY <1>15 DEF TypeOK, MembersHaveHandlers, CheckKick, Go
<1>16. ASSUME NEW c \in Conn, KickRemove(c) PROVE MembersHaveHandlers'
  BY <1>16 DEF TypeOK, MembersHaveHandlers, KickRemove, Go
<1>17. ASSUME NEW c \in Conn, KickClose(c) PROVE MembersHaveHandlers'
  BY <1>17 DEF TypeOK, MembersHaveHandlers, KickClose, Go
<1>18. ASSUME NEW c \in Conn, Leave(c) PROVE MembersHaveHandlers'
  BY <1>18 DEF TypeOK, MembersHaveHandlers, Leave, Go
<1>19. ASSUME NEW c \in Conn, StreamClosed(c) PROVE MembersHaveHandlers'
  BY <1>19 DEF TypeOK, MembersHaveHandlers, StreamClosed, Go
<1>20. ASSUME NEW c \in Conn, RemoveSelf(c) PROVE MembersHaveHandlers'
  BY <1>20 DEF TypeOK, MembersHaveHandlers, RemoveSelf, Go
<1>21. ASSUME NEW c \in Conn, FindSuccessor(c) PROVE MembersHaveHandlers'
  BY <1>21 DEF TypeOK, MembersHaveHandlers, FindSuccessor, Go
<1>22. ASSUME NEW c \in Conn, HandOver(c) PROVE MembersHaveHandlers'
  BY <1>22 DEF TypeOK, MembersHaveHandlers, HandOver, Go
<1>23. ASSUME NEW c \in Conn, Disconnect(c) PROVE MembersHaveHandlers'
  BY <1>23 DEF TypeOK, MembersHaveHandlers, Disconnect
<1>24. ASSUME CollectEmptyRoom PROVE MembersHaveHandlers'
  BY <1>24 DEF TypeOK, MembersHaveHandlers, CollectEmptyRoom
<1>25. CASE UNCHANGED vars
  BY <1>25 DEF TypeOK, MembersHaveHandlers, vars
<1>26. QED
  BY <1>1, <1>2, <1>3, <1>4, <1>5, <1>6, <1>7, <1>8, <1>9, <1>10, <1>11, <1>12, <1>13, <1>14, <1>15, <1>16, <1>17, <1>18, <1>19, <1>20, <1>21, <1>22, <1>23, <1>24, <1>25 DEF Next, Progress, ClientChoice

\* Every step that takes a served client out of the roster is a kick, and every
\* kick goes on to close the connection.
LEMMA RemovedStep ==
    TypeOK /\ IdsIssued /\ RemovedMeansKicked /\ [Next]_vars => RemovedMeansKicked'
<1> SUFFICES ASSUME TypeOK, IdsIssued, RemovedMeansKicked, [Next]_vars
             PROVE  RemovedMeansKicked'
  OBVIOUS
<1> USE DEF Joined, room_vars
<1>1. ASSUME NEW c \in Conn, RefuseJoin(c) PROVE RemovedMeansKicked'
  BY <1>1 DEF TypeOK, IdsIssued, RemovedMeansKicked, RefuseJoin, Go
<1>2. ASSUME NEW c \in Conn, CheckCapacity(c) PROVE RemovedMeansKicked'
  BY <1>2 DEF TypeOK, IdsIssued, RemovedMeansKicked, CheckCapacity, Go
<1>3. ASSUME NEW c \in Conn, WriteFull(c) PROVE RemovedMeansKicked'
  BY <1>3 DEF TypeOK, IdsIssued, RemovedMeansKicked, WriteFull, Go
<1>4. ASSUME NEW c \in Conn, EnterRoom(c) PROVE RemovedMeansKicked'
  BY <1>4 DEF TypeOK, IdsIssued, RemovedMeansKicked, EnterRoom, Go
<1>5. ASSUME NEW c \in Conn, Register(c) PROVE RemovedMeansKicked'
  BY <1>5 DEF TypeOK, IdsIssued, RemovedMeansKicked, Register, Go
<1>6. ASSUME NEW c \in Conn, RegisterPanics(c) PROVE RemovedMeansKicked'
  BY <1>6 DEF TypeOK, IdsIssued, RemovedMeansKicked, RegisterPanics, Go
<1>7. ASSUME NEW c \in Conn, ClaimHost(c) PROVE RemovedMeansKicked'
  BY <1>7 DEF TypeOK, IdsIssued, RemovedMeansKicked, ClaimHost, Go
<1>8. ASSUME NEW c \in Conn, SendAddClient(c) PROVE RemovedMeansKicked'
  BY <1>8 DEF TypeOK, IdsIssued, RemovedMeansKicked, SendAddClient, Go
<1>9. ASSUME NEW c \in Conn, WriteJoined(c) PROVE RemovedMeansKicked'
  BY <1>9 DEF TypeOK, IdsIssued, RemovedMeansKicked, WriteJoined, Go
<1>10. ASSUME NEW c \in Conn, WriteFails(c) PROVE RemovedMeansKicked'
  BY <1>10 DEF TypeOK, IdsIssued, RemovedMeansKicked, WriteFails, Go
<1>11. ASSUME NEW c \in Conn, GetRoomInfo(c) PROVE RemovedMeansKicked'
  BY <1>11 DEF TypeOK, IdsIssued, RemovedMeansKicked, GetRoomInfo, Go
<1>12. ASSUME NEW c \in Conn, WriteRoomInfo(c) PROVE RemovedMeansKicked'
  BY <1>12 DEF TypeOK, IdsIssued, RemovedMeansKicked, WriteRoomInfo, Go
<1>13. ASSUME NEW c \in Conn, Announce(c) PROVE RemovedMeansKicked'
  BY <1>13 DEF TypeOK, IdsIssued, RemovedMeansKicked, Announce, Go
<1>14. ASSUME NEW c \in Conn, ReadKick(c) PROVE RemovedMeansKicked'
  BY <1>14 DEF TypeOK, IdsIssued, RemovedMeansKicked, ReadKick, Go
<1>15. ASSUME NEW c \in Conn, CheckKick(c) PROVE RemovedMeansKicked'
  BY <1>15 DEF TypeOK, IdsIssued, RemovedMeansKicked, CheckKick, Go
<1>16. ASSUME NEW c \in Conn, KickRemove(c) PROVE RemovedMeansKicked'
  BY <1>16 DEF TypeOK, IdsIssued, RemovedMeansKicked, KickRemove, Go
<1>17. ASSUME NEW c \in Conn, KickClose(c) PROVE RemovedMeansKicked'
  BY <1>17 DEF TypeOK, IdsIssued, RemovedMeansKicked, KickClose, Go
<1>18. ASSUME NEW c \in Conn, Leave(c) PROVE RemovedMeansKicked'
  BY <1>18 DEF TypeOK, IdsIssued, RemovedMeansKicked, Leave, Go
<1>19. ASSUME NEW c \in Conn, StreamClosed(c) PROVE RemovedMeansKicked'
  BY <1>19 DEF TypeOK, IdsIssued, RemovedMeansKicked, StreamClosed, Go
<1>20. ASSUME NEW c \in Conn, RemoveSelf(c) PROVE RemovedMeansKicked'
  BY <1>20 DEF TypeOK, IdsIssued, RemovedMeansKicked, RemoveSelf, Go
<1>21. ASSUME NEW c \in Conn, FindSuccessor(c) PROVE RemovedMeansKicked'
  BY <1>21 DEF TypeOK, IdsIssued, RemovedMeansKicked, FindSuccessor, Go
<1>22. ASSUME NEW c \in Conn, HandOver(c) PROVE RemovedMeansKicked'
  BY <1>22 DEF TypeOK, IdsIssued, RemovedMeansKicked, HandOver, Go
<1>23. ASSUME NEW c \in Conn, Disconnect(c) PROVE RemovedMeansKicked'
  BY <1>23 DEF TypeOK, IdsIssued, RemovedMeansKicked, Disconnect
<1>24. ASSUME CollectEmptyRoom PROVE RemovedMeansKicked'
  BY <1>24 DEF TypeOK, IdsIssued, RemovedMeansKicked, CollectEmptyRoom
<1>25. CASE UNCHANGED vars
  BY <1>25 DEF TypeOK, IdsIssued, RemovedMeansKicked, vars
<1>26. QED
  BY <1>1, <1>2, <1>3, <1>4, <1>5, <1>6, <1>7, <1>8, <1>9, <1>10, <1>11, <1>12, <1>13, <1>14, <1>15, <1>16, <1>17, <1>18, <1>19, <1>20, <1>21, <1>22, <1>23, <1>24, <1>25 DEF Next, Progress, ClientChoice

\* MembersHaveHandlers: a client is in the roster only while its handler serves
\* it, or after that handler gave up on a failed write.
THEOREM RosterCorrect == Spec => []MembersHaveHandlers
<1>1. Init => MembersHaveHandlers
  BY DEF Init, MembersHaveHandlers
<1>2. TypeOK /\ MembersHaveHandlers /\ [Next]_vars => MembersHaveHandlers'
  BY MembersStep
<1>3. QED
  BY <1>1, <1>2, TypeCorrect, PTL DEF Spec

\* RemovedMeansKicked: only a kick takes a served client out of the roster, and
\* its connection is closed or about to be.
THEOREM KickDisconnects == Spec => []RemovedMeansKicked
<1>1. Init => RemovedMeansKicked
  BY DEF Init, RemovedMeansKicked, Joined
<1>2. TypeOK /\ IdsIssued /\ RemovedMeansKicked /\ [Next]_vars => RemovedMeansKicked'
  BY RemovedStep
<1>3. QED
  BY <1>1, <1>2, TypeCorrect, PTL DEF Spec

-----------------------------------------------------------------------------
(* The size of the room. The check of the capacity counts the clients, not *)
(* the joiners that have passed it and are yet to register, so the count   *)
(* that a check bounds is the sum of both.                                 *)

SizeInv ==
    /\ ~present => clients = {}
    /\ IsFiniteSet(clients)
    /\ Cardinality(clients) + Cardinality(Joining) <= MaxRoomSize + MaxJoining - 1

\* The joiners between check and registration can be counted.
LEMMA JoiningFinite ==
    /\ IsFiniteSet(Joining)
    /\ Cardinality(Joining) \in Nat
BY RoomConstants, FS_Subset, FS_CardinalityType DEF Joining

\* A joiner that registers, or passes the check, adds one to its side of the sum.
LEMMA OneMore ==
    ASSUME NEW S, NEW x, IsFiniteSet(S)
    PROVE  /\ IsFiniteSet(S \cup {x})
           /\ Cardinality(S) \in Nat
           /\ Cardinality(S \cup {x}) \in Nat
           /\ Cardinality(S \cup {x}) <= Cardinality(S) + 1
<1>1. IsFiniteSet(S \cup {x}) /\ Cardinality(S) \in Nat
  BY FS_AddElement, FS_CardinalityType
<1>2. Cardinality(S \cup {x}) = IF x \in S THEN Cardinality(S) ELSE Cardinality(S) + 1
  BY FS_AddElement
<1>3. QED
  BY <1>1, <1>2

\* A step after which nobody is new in the room or among the joiners.
LEMMA SizeShrinks ==
    ASSUME SizeInv, clients' \subseteq clients, Joining' \subseteq Joining,
           ~present' => clients' = {}
    PROVE  SizeInv'
<1>1. /\ IsFiniteSet(clients')
      /\ Cardinality(clients') <= Cardinality(clients)
      /\ Cardinality(clients') \in Nat /\ Cardinality(clients) \in Nat
  BY FS_Subset, FS_CardinalityType DEF SizeInv
<1>2. /\ Cardinality(Joining') <= Cardinality(Joining)
      /\ Cardinality(Joining') \in Nat /\ Cardinality(Joining) \in Nat
  BY JoiningFinite, FS_Subset, FS_CardinalityType
<1>3. QED
  BY <1>1, <1>2, RoomConstants DEF SizeInv

\* Every step keeps the members and the joiners together within the bound.
LEMMA SizeStep == TypeOK /\ SizeInv /\ [Next]_vars => SizeInv'
<1> SUFFICES ASSUME TypeOK, SizeInv, [Next]_vars PROVE SizeInv'
  OBVIOUS
<1> USE DEF room_vars
<1>1. ASSUME NEW c \in Conn, CheckCapacity(c) PROVE SizeInv'
  <2>1. CASE RoomFull
    <3>1. Joining' = Joining
      BY <1>1, <2>1 DEF CheckCapacity, Go, Joining, Admitted, TypeOK
    <3>2. clients' = clients /\ present' = present
      BY <1>1 DEF CheckCapacity
    <3>3. QED
      BY <3>1, <3>2, SizeShrinks DEF SizeInv
  <2>2. CASE ~RoomFull
    <3>1. /\ clients' = clients /\ present' = present
          /\ Cardinality(Joining) < MaxJoining
          /\ pc[c] = "connect" /\ pc' = [pc EXCEPT ![c] = "enter"]
      BY <1>1, <2>2 DEF CheckCapacity, Go
    <3>2. Joining' = Joining \cup {c}
      BY <3>1 DEF Joining, Admitted, TypeOK
    <3>3. Cardinality(Joining') <= MaxJoining /\ Cardinality(Joining') \in Nat
      <4>1. /\ Cardinality(Joining \cup {c}) \in Nat
            /\ Cardinality(Joining \cup {c}) <= Cardinality(Joining) + 1
        BY JoiningFinite, OneMore
      <4>2. QED
        BY <4>1, <3>1, <3>2, JoiningFinite, RoomConstants
    <3>4. Cardinality(clients) \in Nat /\ Cardinality(clients) < MaxRoomSize
      BY <2>2, FS_CardinalityType, FS_EmptySet, RoomConstants DEF RoomFull, SizeInv
    <3>5. QED
      BY <3>1, <3>3, <3>4, RoomConstants DEF SizeInv
  <2>3. QED
    BY <2>1, <2>2
<1>2. ASSUME NEW c \in Conn, Register(c) PROVE SizeInv'
  <2>1. /\ clients' = clients \cup {client_id[c]}
        /\ present /\ present' = present
        /\ pc[c] = "register" /\ pc' = [pc EXCEPT ![c] = "claim"]
    BY <1>2 DEF Register, Go
  <2>2. Joining' = Joining \ {c} /\ c \in Joining
    BY <2>1 DEF Joining, Admitted, TypeOK
  <2>3. Cardinality(Joining') = Cardinality(Joining) - 1
    BY <2>2, JoiningFinite, FS_RemoveElement
  <2>4. /\ IsFiniteSet(clients')
        /\ Cardinality(clients') <= Cardinality(clients) + 1
        /\ Cardinality(clients') \in Nat /\ Cardinality(clients) \in Nat
    BY <2>1, OneMore DEF SizeInv
  <2>5. QED
    BY <2>1, <2>3, <2>4, JoiningFinite, RoomConstants DEF SizeInv
<1>3. ASSUME NEW c \in Conn, RefuseJoin(c) PROVE SizeInv'
  BY <1>3, SizeShrinks DEF SizeInv, RefuseJoin, Joining, Admitted, TypeOK, Go
<1>4. ASSUME NEW c \in Conn, WriteFull(c) PROVE SizeInv'
  BY <1>4, SizeShrinks DEF SizeInv, WriteFull, Joining, Admitted, TypeOK, Go
<1>5. ASSUME NEW c \in Conn, EnterRoom(c) PROVE SizeInv'
  BY <1>5, SizeShrinks DEF SizeInv, EnterRoom, Joining, Admitted, TypeOK, Go
<1>6. ASSUME NEW c \in Conn, RegisterPanics(c) PROVE SizeInv'
  BY <1>6, SizeShrinks DEF SizeInv, RegisterPanics, Joining, Admitted, TypeOK, Go
<1>7. ASSUME NEW c \in Conn, ClaimHost(c) PROVE SizeInv'
  BY <1>7, SizeShrinks DEF SizeInv, ClaimHost, Joining, Admitted, TypeOK, Go
<1>8. ASSUME NEW c \in Conn, SendAddClient(c) PROVE SizeInv'
  BY <1>8, SizeShrinks DEF SizeInv, SendAddClient, Joining, Admitted, TypeOK, Go
<1>9. ASSUME NEW c \in Conn, WriteJoined(c) PROVE SizeInv'
  BY <1>9, SizeShrinks DEF SizeInv, WriteJoined, Joining, Admitted, TypeOK, Go
<1>10. ASSUME NEW c \in Conn, WriteFails(c) PROVE SizeInv'
  BY <1>10, SizeShrinks DEF SizeInv, WriteFails, Joining, Admitted, TypeOK, Go
<1>11. ASSUME NEW c \in Conn, GetRoomInfo(c) PROVE SizeInv'
  BY <1>11, SizeShrinks DEF SizeInv, GetRoomInfo, Joining, Admitted, TypeOK, Go
<1>12. ASSUME NEW c \in Conn, WriteRoomInfo(c) PROVE SizeInv'
  BY <1>12, SizeShrinks DEF SizeInv, WriteRoomInfo, Joining, Admitted, TypeOK, Go
<1>13. ASSUME NEW c \in Conn, Announce(c) PROVE SizeInv'
  BY <1>13, SizeShrinks DEF SizeInv, Announce, Joining, Admitted, TypeOK, Go
<1>14. ASSUME NEW c \in Conn, ReadKick(c) PROVE SizeInv'
  BY <1>14, SizeShrinks DEF SizeInv, ReadKick, Joining, Admitted, TypeOK, Go
<1>15. ASSUME NEW c \in Conn, CheckKick(c) PROVE SizeInv'
  BY <1>15, SizeShrinks DEF SizeInv, CheckKick, Joining, Admitted, TypeOK, Go
<1>16. ASSUME NEW c \in Conn, KickRemove(c) PROVE SizeInv'
  BY <1>16, SizeShrinks DEF SizeInv, KickRemove, Joining, Admitted, TypeOK, Go
<1>17. ASSUME NEW c \in Conn, KickClose(c) PROVE SizeInv'
  BY <1>17, SizeShrinks DEF SizeInv, KickClose, Joining, Admitted, TypeOK, Go
<1>18. ASSUME NEW c \in Conn, Leave(c) PROVE SizeInv'
  BY <1>18, SizeShrinks DEF SizeInv, Leave, Joining, Admitted, TypeOK, Go
<1>19. ASSUME NEW c \in Conn, StreamClosed(c) PROVE SizeInv'
  BY <1>19, SizeShrinks DEF SizeInv, StreamClosed, Joining, Admitted, TypeOK, Go
<1>20. ASSUME NEW c \in Conn, RemoveSelf(c) PROVE SizeInv'
  BY <1>20, SizeShrinks DEF SizeInv, RemoveSelf, Joining, Admitted, TypeOK, Go
<1>21. ASSUME NEW c \in Conn, FindSuccessor(c) PROVE SizeInv'
  BY <1>21, SizeShrinks DEF SizeInv, FindSuccessor, Joining, Admitted, TypeOK, Go
<1>22. ASSUME NEW c \in Conn, HandOver(c) PROVE SizeInv'
  BY <1>22, SizeShrinks DEF SizeInv, HandOver, Joining, Admitted, TypeOK, Go
<1>23. ASSUME NEW c \in Conn, Disconnect(c) PROVE SizeInv'
  BY <1>23, SizeShrinks DEF SizeInv, Disconnect, Joining, Admitted, TypeOK
<1>24. ASSUME CollectEmptyRoom PROVE SizeInv'
  BY <1>24, SizeShrinks DEF SizeInv, CollectEmptyRoom, Joining
<1>25. CASE UNCHANGED vars
  BY <1>25, SizeShrinks DEF SizeInv, vars, Joining
<1>26. QED
  BY <1>1, <1>2, <1>3, <1>4, <1>5, <1>6, <1>7, <1>8, <1>9, <1>10, <1>11, <1>12, <1>13, <1>14, <1>15, <1>16, <1>17, <1>18, <1>19, <1>20, <1>21, <1>22, <1>23, <1>24, <1>25 DEF Next, Progress, ClientChoice

\* RoomSizeBound: the room is over max_room_size by at most the number of
\* concurrent joiners, less one; with one joiner at a time never.
THEOREM RoomSizeBounded == Spec => []RoomSizeBound
<1>1. Init => SizeInv
  <2> SUFFICES ASSUME Init PROVE SizeInv
    OBVIOUS
  <2>1. clients = {} /\ Joining = {}
    BY DEF Init, Joining, Admitted
  <2>2. QED
    BY <2>1, FS_EmptySet, RoomConstants DEF SizeInv
<1>2. TypeOK /\ SizeInv /\ [Next]_vars => SizeInv'
  BY SizeStep
<1>3. SizeInv => RoomSizeBound
  BY JoiningFinite, FS_CardinalityType, RoomConstants DEF SizeInv, RoomSizeBound
<1>4. QED
  BY <1>1, <1>2, <1>3, TypeCorrect, PTL DEF Spec

-----------------------------------------------------------------------------
(* Hosts are told. *)

\* Every id in use has been issued.
IssuedSoFar ==
    /\ host < next_client_id
    /\ \A i \in clients : i < next_client_id
    /\ \A c \in Conn : peer[c] < next_client_id

\* A client that is not registered yet is neither host nor picked as successor.
NotYetChosen ==
    \A c \in Conn : pc[c] = "register" =>
        /\ client_id[c] \notin clients
        /\ host # client_id[c]
        /\ \A h \in Conn : pc[h] = "transfer" => peer[h] # client_id[c]

\* A client that is host and registered has been told by a hand-over, or has
\* claimed the role itself and will announce it.
WillBeTold ==
    \A c \in Conn : host = client_id[c] /\ client_id[c] \in clients =>
        /\ pc[c] \in {"claim"} \cup (Serving \ {"announce"}) => client_id[c] \in told
        /\ pc[c] \in {"add", "joined", "info", "info_write", "announce"} =>
              became_host[c] \/ client_id[c] \in told

\* Ids are taken from those issued.
LEMMA IssuedStep ==
  TypeOK /\ IdsIssued /\ IssuedSoFar /\ [Next]_vars => IssuedSoFar'
<1> SUFFICES ASSUME TypeOK, IdsIssued, IssuedSoFar, [Next]_vars PROVE IssuedSoFar'
  OBVIOUS
<1> USE DEF Joined, Serving, room_vars
<1>1. ASSUME NEW c \in Conn, RefuseJoin(c) PROVE IssuedSoFar'
  BY <1>1 DEF TypeOK, IdsIssued, IssuedSoFar, RefuseJoin, Go
<1>2. ASSUME NEW c \in Conn, CheckCapacity(c) PROVE IssuedSoFar'
  BY <1>2 DEF TypeOK, IdsIssued, IssuedSoFar, CheckCapacity, Go
<1>3. ASSUME NEW c \in Conn, WriteFull(c) PROVE IssuedSoFar'
  BY <1>3 DEF TypeOK, IdsIssued, IssuedSoFar, WriteFull, Go
<1>4. ASSUME NEW c \in Conn, EnterRoom(c) PROVE IssuedSoFar'
  BY <1>4 DEF TypeOK, IdsIssued, IssuedSoFar, EnterRoom, Go
<1>5. ASSUME NEW c \in Conn, Register(c) PROVE IssuedSoFar'
  BY <1>5 DEF TypeOK, IdsIssued, IssuedSoFar, Register, Go
<1>6. ASSUME NEW c \in Conn, RegisterPanics(c) PROVE IssuedSoFar'
  BY <1>6 DEF TypeOK, IdsIssued, IssuedSoFar, RegisterPanics, Go
<1>7. ASSUME NEW c \in Conn, ClaimHost(c) PROVE IssuedSoFar'
  BY <1>7 DEF TypeOK, IdsIssued, IssuedSoFar, ClaimHost, Go
<1>8. ASSUME NEW c \in Conn, SendAddClient(c) PROVE IssuedSoFar'
  BY <1>8 DEF TypeOK, IdsIssued, IssuedSoFar, SendAddClient, Go
<1>9. ASSUME NEW c \in Conn, WriteJoined(c) PROVE IssuedSoFar'
  BY <1>9 DEF TypeOK, IdsIssued, IssuedSoFar, WriteJoined, Go
<1>10. ASSUME NEW c \in Conn, WriteFails(c) PROVE IssuedSoFar'
  BY <1>10 DEF TypeOK, IdsIssued, IssuedSoFar, WriteFails, Go
<1>11. ASSUME NEW c \in Conn, GetRoomInfo(c) PROVE IssuedSoFar'
  BY <1>11 DEF TypeOK, IdsIssued, IssuedSoFar, GetRoomInfo, Go
<1>12. ASSUME NEW c \in Conn, WriteRoomInfo(c) PROVE IssuedSoFar'
  BY <1>12 DEF TypeOK, IdsIssued, IssuedSoFar, WriteRoomInfo, Go
<1>13. ASSUME NEW c \in Conn, Announce(c) PROVE IssuedSoFar'
  BY <1>13 DEF TypeOK, IdsIssued, IssuedSoFar, Announce, Go
<1>14. ASSUME NEW c \in Conn, ReadKick(c) PROVE IssuedSoFar'
  BY <1>14 DEF TypeOK, IdsIssued, IssuedSoFar, ReadKick, Go, Ids
<1>15. ASSUME NEW c \in Conn, CheckKick(c) PROVE IssuedSoFar'
  BY <1>15 DEF TypeOK, IdsIssued, IssuedSoFar, CheckKick, Go
<1>16. ASSUME NEW c \in Conn, KickRemove(c) PROVE IssuedSoFar'
  BY <1>16 DEF TypeOK, IdsIssued, IssuedSoFar, KickRemove, Go
<1>17. ASSUME NEW c \in Conn, KickClose(c) PROVE IssuedSoFar'
  BY <1>17 DEF TypeOK, IdsIssued, IssuedSoFar, KickClose, Go
<1>18. ASSUME NEW c \in Conn, Leave(c) PROVE IssuedSoFar'
  BY <1>18 DEF TypeOK, IdsIssued, IssuedSoFar, Leave, Go
<1>19. ASSUME NEW c \in Conn, StreamClosed(c) PROVE IssuedSoFar'
  BY <1>19 DEF TypeOK, IdsIssued, IssuedSoFar, StreamClosed, Go
<1>20. ASSUME NEW c \in Conn, RemoveSelf(c) PROVE IssuedSoFar'
  BY <1>20 DEF TypeOK, IdsIssued, IssuedSoFar, RemoveSelf, Go
<1>21. ASSUME NEW c \in Conn, FindSuccessor(c) PROVE IssuedSoFar'
  BY <1>21 DEF TypeOK, IdsIssued, IssuedSoFar, FindSuccessor, Go, LowestId
<1>22. ASSUME NEW c \in Conn, HandOver(c) PROVE IssuedSoFar'
  BY <1>22 DEF TypeOK, IdsIssued, IssuedSoFar, HandOver, Go
<1>23. ASSUME NEW c \in Conn, Disconnect(c) PROVE IssuedSoFar'
  BY <1>23 DEF TypeOK, IdsIssued, IssuedSoFar, Disconnect
<1>24. ASSUME CollectEmptyRoom PROVE IssuedSoFar'
  BY <1>24 DEF TypeOK, IdsIssued, IssuedSoFar, CollectEmptyRoom
<1>25. CASE UNCHANGED vars
  BY <1>25 DEF TypeOK, IdsIssued, IssuedSoFar, vars
<1>26. QED
  BY <1>1, <1>2, <1>3, <1>4, <1>5, <1>6, <1>7, <1>8, <1>9, <1>10, <1>11, <1>12, <1>13, <1>14, <1>15, <1>16, <1>17, <1>18, <1>19, <1>20, <1>21, <1>22, <1>23, <1>24, <1>25 DEF Next, Progress, ClientChoice

\* Only registered clients are picked, and ids are never registered twice.
LEMMA ChosenStep ==
  TypeOK /\ IdsIssued /\ IssuedSoFar /\ NotYetChosen /\ [Next]_vars => NotYetChosen'
<1> SUFFICES ASSUME TypeOK, IdsIssued, IssuedSoFar, NotYetChosen, [Next]_vars PROVE NotYetChosen'
  OBVIOUS
<1> USE DEF Joined, Serving, room_vars
<1>1. ASSUME NEW c \in Conn, RefuseJoin(c) PROVE NotYetChosen'
  BY <1>1 DEF TypeOK, IdsIssued, IssuedSoFar, NotYetChosen, RefuseJoin, Go
<1>2. ASSUME NEW c \in Conn, CheckCapacity(c) PROVE NotYetChosen'
  BY <1>2 DEF TypeOK, IdsIssued, IssuedSoFar, NotYetChosen, CheckCapacity, Go
<1>3. ASSUME NEW c \in Conn, WriteFull(c) PROVE NotYetChosen'
  BY <1>3 DEF TypeOK, IdsIssued, IssuedSoFar, NotYetChosen, WriteFull, Go
<1>4. ASSUME NEW c \in Conn, EnterRoom(c) PROVE NotYetChosen'
  BY <1>4 DEF TypeOK, IdsIssued, IssuedSoFar, NotYetChosen, EnterRoom, Go
<1>5. ASSUME NEW c \in Conn, Register(c) PROVE NotYetChosen'
  BY <1>5 DEF TypeOK, IdsIssued, IssuedSoFar, NotYetChosen, Register, Go
<1>6. ASSUME NEW c \in Conn, RegisterPanics(c) PROVE NotYetChosen'
  BY <1>6 DEF TypeOK, IdsIssued, IssuedSoFar, NotYetChosen, RegisterPanics, Go
<1>7. ASSUME NEW c \in Conn, ClaimHost(c) PROVE NotYetChosen'
  BY <1>7 DEF TypeOK, IdsIssued, IssuedSoFar, NotYetChosen, ClaimHost, Go
<1>8. ASSUME NEW c \in Conn, SendAddClient(c) PROVE NotYetChosen'
  BY <1>8 DEF TypeOK, IdsIssued, IssuedSoFar, NotYetChosen, SendAddClient, Go
<1>9. ASSUME NEW c \in Conn, WriteJoined(c) PROVE NotYetChosen'
  BY <1>9 DEF TypeOK, IdsIssued, IssuedSoFar, NotYetChosen, WriteJoined, Go
<1>10. ASSUME NEW c \in Conn, WriteFails(c) PROVE NotYetChosen'
  BY <1>10 DEF TypeOK, IdsIssued, IssuedSoFar, NotYetChosen, WriteFails, Go
<1>11. ASSUME NEW c \in Conn, GetRoomInfo(c) PROVE NotYetChosen'
  BY <1>11 DEF TypeOK, IdsIssued, IssuedSoFar, NotYetChosen, GetRoomInfo, Go
<1>12. ASSUME NEW c \in Conn, WriteRoomInfo(c) PROVE NotYetChosen'
  BY <1>12 DEF TypeOK, IdsIssued, IssuedSoFar, NotYetChosen, WriteRoomInfo, Go
<1>13. ASSUME NEW c \in Conn, Announce(c) PROVE NotYetChosen'
  BY <1>13 DEF TypeOK, IdsIssued, IssuedSoFar, NotYetChosen, Announce, Go
<1>14. ASSUME NEW c \in Conn, ReadKick(c) PROVE NotYetChosen'
  BY <1>14 DEF TypeOK, IdsIssued, IssuedSoFar, NotYetChosen, ReadKick, Go, Ids
<1>15. ASSUME NEW c \in Conn, CheckKick(c) PROVE NotYetChosen'
  BY <1>15 DEF TypeOK, IdsIssued, IssuedSoFar, NotYetChosen, CheckKick, Go
<1>16. ASSUME NEW c \in Conn, KickRemove(c) PROVE NotYetChosen'
  BY <1>16 DEF TypeOK, IdsIssued, IssuedSoFar, NotYetChosen, KickRemove, Go
<1>17. ASSUME NEW c \in Conn, KickClose(c) PROVE NotYetChosen'
  BY <1>17 DEF TypeOK, IdsIssued, IssuedSoFar, NotYetChosen, KickClose, Go
<1>18. ASSUME NEW c \in Conn, Leave(c) PROVE NotYetChosen'
  BY <1>18 DEF TypeOK, IdsIssued, IssuedSoFar, NotYetChosen, Leave, Go
<1>19. ASSUME NEW c \in Conn, StreamClosed(c) PROVE NotYetChosen'
  BY <1>19 DEF TypeOK, IdsIssued, IssuedSoFar, NotYetChosen, StreamClosed, Go
<1>20. ASSUME NEW c \in Conn, RemoveSelf(c) PROVE NotYetChosen'
  BY <1>20 DEF TypeOK, IdsIssued, IssuedSoFar, NotYetChosen, RemoveSelf, Go
<1>21. ASSUME NEW c \in Conn, FindSuccessor(c) PROVE NotYetChosen'
  BY <1>21 DEF TypeOK, IdsIssued, IssuedSoFar, NotYetChosen, FindSuccessor, Go, LowestId
<1>22. ASSUME NEW c \in Conn, HandOver(c) PROVE NotYetChosen'
  BY <1>22 DEF TypeOK, IdsIssued, IssuedSoFar, NotYetChosen, HandOver, Go
<1>23. ASSUME NEW c \in Conn, Disconnect(c) PROVE NotYetChosen'
  BY <1>23 DEF TypeOK, IdsIssued, IssuedSoFar, NotYetChosen, Disconnect
<1>24. ASSUME CollectEmptyRoom PROVE NotYetChosen'
  BY <1>24 DEF TypeOK, IdsIssued, IssuedSoFar, NotYetChosen, CollectEmptyRoom
<1>25. CASE UNCHANGED vars
  BY <1>25 DEF TypeOK, IdsIssued, IssuedSoFar, NotYetChosen, vars
<1>26. QED
  BY <1>1, <1>2, <1>3, <1>4, <1>5, <1>6, <1>7, <1>8, <1>9, <1>10, <1>11, <1>12, <1>13, <1>14, <1>15, <1>16, <1>17, <1>18, <1>19, <1>20, <1>21, <1>22, <1>23, <1>24, <1>25 DEF Next, Progress, ClientChoice

\* Whoever gets the role is told, at once or when it announces itself.
LEMMA ToldStep ==
  TypeOK /\ IdsIssued /\ NotYetChosen /\ WillBeTold /\ [Next]_vars => WillBeTold'
<1> SUFFICES ASSUME TypeOK, IdsIssued, NotYetChosen, WillBeTold, [Next]_vars PROVE WillBeTold'
  OBVIOUS
<1> USE DEF Joined, Serving, room_vars
<1>1. ASSUME NEW c \in Conn, RefuseJoin(c) PROVE WillBeTold'
  BY <1>1 DEF TypeOK, IdsIssued, NotYetChosen, WillBeTold, RefuseJoin, Go
<1>2. ASSUME NEW c \in Conn, CheckCapacity(c) PROVE WillBeTold'
  BY <1>2 DEF TypeOK, IdsIssued, NotYetChosen, WillBeTold, CheckCapacity, Go
<1>3. ASSUME NEW c \in Conn, WriteFull(c) PROVE WillBeTold'
  BY <1>3 DEF TypeOK, IdsIssued, NotYetChosen, WillBeTold, WriteFull, Go
<1>4. ASSUME NEW c \in Conn, EnterRoom(c) PROVE WillBeTold'
  BY <1>4 DEF TypeOK, IdsIssued, NotYetChosen, WillBeTold, EnterRoom, Go
<1>5. ASSUME NEW c \in Conn, Register(c) PROVE WillBeTold'
  BY <1>5 DEF TypeOK, IdsIssued, NotYetChosen, WillBeTold, Register, Go
<1>6. ASSUME NEW c \in Conn, RegisterPanics(c) PROVE WillBeTold'
  BY <1>6 DEF TypeOK, IdsIssued, NotYetChosen, WillBeTold, RegisterPanics, Go
<1>7. ASSUME NEW c \in Conn, ClaimHost(c) PROVE WillBeTold'
  BY <1>7 DEF TypeOK, IdsIssued, NotYetChosen, WillBeTold, ClaimHost, Go
<1>8. ASSUME NEW c \in Conn, SendAddClient(c) PROVE WillBeTold'
  BY <1>8 DEF TypeOK, IdsIssued, NotYetChosen, WillBeTold, SendAddClient, Go
<1>9. ASSUME NEW c \in Conn, WriteJoined(c) PROVE WillBeTold'
  BY <1>9 DEF TypeOK, IdsIssued, NotYetChosen, WillBeTold, WriteJoined, Go
<1>10. ASSUME NEW c \in Conn, WriteFails(c) PROVE WillBeTold'
  BY <1>10 DEF TypeOK, IdsIssued, NotYetChosen, WillBeTold, WriteFails, Go
<1>11. ASSUME NEW c \in Conn, GetRoomInfo(c) PROVE WillBeTold'
  BY <1>11 DEF TypeOK, IdsIssued, NotYetChosen, WillBeTold, GetRoomInfo, Go
<1>12. ASSUME NEW c \in Conn, WriteRoomInfo(c) PROVE WillBeTold'
  BY <1>12 DEF TypeOK, IdsIssued, NotYetChosen, WillBeTold, WriteRoomInfo, Go
<1>13. ASSUME NEW c \in Conn, Announce(c) PROVE WillBeTold'
  BY <1>13 DEF TypeOK, IdsIssued, NotYetChosen, WillBeTold, Announce, Go
<1>14. ASSUME NEW c \in Conn, ReadKick(c) PROVE WillBeTold'
  BY <1>14 DEF TypeOK, IdsIssued, NotYetChosen, WillBeTold, ReadKick, Go, Ids
<1>15. ASSUME NEW c \in Conn, CheckKick(c) PROVE WillBeTold'
  BY <1>15 DEF TypeOK, IdsIssued, NotYetChosen, WillBeTold, CheckKick, Go
<1>16. ASSUME NEW c \in Conn, KickRemove(c) PROVE WillBeTold'
  BY <1>16 DEF TypeOK, IdsIssued, NotYetChosen, WillBeTold, KickRemove, Go
<1>17. ASSUME NEW c \in Conn, KickClose(c) PROVE WillBeTold'
  BY <1>17 DEF TypeOK, IdsIssued, NotYetChosen, WillBeTold, KickClose, Go
<1>18. ASSUME NEW c \in Conn, Leave(c) PROVE WillBeTold'
  BY <1>18 DEF TypeOK, IdsIssued, NotYetChosen, WillBeTold, Leave, Go
<1>19. ASSUME NEW c \in Conn, StreamClosed(c) PROVE WillBeTold'
  BY <1>19 DEF TypeOK, IdsIssued, NotYetChosen, WillBeTold, StreamClosed, Go
<1>20. ASSUME NEW c \in Conn, RemoveSelf(c) PROVE WillBeTold'
  BY <1>20 DEF TypeOK, IdsIssued, NotYetChosen, WillBeTold, RemoveSelf, Go
<1>21. ASSUME NEW c \in Conn, FindSuccessor(c) PROVE WillBeTold'
  BY <1>21 DEF TypeOK, IdsIssued, NotYetChosen, WillBeTold, FindSuccessor, Go, LowestId
<1>22. ASSUME NEW c \in Conn, HandOver(c) PROVE WillBeTold'
  BY <1>22 DEF TypeOK, IdsIssued, NotYetChosen, WillBeTold, HandOver, Go
<1>23. ASSUME NEW c \in Conn, Disconnect(c) PROVE WillBeTold'
  BY <1>23 DEF TypeOK, IdsIssued, NotYetChosen, WillBeTold, Disconnect
<1>24. ASSUME CollectEmptyRoom PROVE WillBeTold'
  BY <1>24 DEF TypeOK, IdsIssued, NotYetChosen, WillBeTold, CollectEmptyRoom
<1>25. CASE UNCHANGED vars
  BY <1>25 DEF TypeOK, IdsIssued, NotYetChosen, WillBeTold, vars
<1>26. QED
  BY <1>1, <1>2, <1>3, <1>4, <1>5, <1>6, <1>7, <1>8, <1>9, <1>10, <1>11, <1>12, <1>13, <1>14, <1>15, <1>16, <1>17, <1>18, <1>19, <1>20, <1>21, <1>22, <1>23, <1>24, <1>25 DEF Next, Progress, ClientChoice

\* HostIsTold: a served client that is host has been sent YouAreHost, whether
\* it claimed the role or was picked while it was still joining, for any number
\* of handlers at once.
THEOREM HostsAreTold == Spec => []HostIsTold
<1> DEFINE HostInv == IssuedSoFar /\ NotYetChosen /\ WillBeTold
<1>1. Init => HostInv
  BY RoomConstants DEF Init, IssuedSoFar, NotYetChosen, WillBeTold
<1>2. TypeOK /\ IdsIssued /\ HostInv /\ [Next]_vars => HostInv'
  BY IssuedStep, ChosenStep, ToldStep
<1>3. HostInv => HostIsTold
  BY DEF WillBeTold, HostIsTold
<1> HIDE DEF HostInv
<1>4. QED
  BY <1>1, <1>2, <1>3, TypeCorrect, PTL DEF Spec

-----------------------------------------------------------------------------
(* The role is held. *)

\* Where a handler decides who is host.
Deciding == {"claim", "left", "transfer"}

\* A dropped room has no host and nobody in it; the guards held by a claim and by
\* a hand-over keep the room from being dropped.
RoomKept ==
    /\ ~present => host = 0 /\ clients = {}
    /\ \A c \in Conn : pc[c] \in {"claim", "transfer"} => present

\* The host is there, or its own handler is about to pass the role on.
HostHeld ==
    host # 0 => \/ host \in clients
                \/ \E c \in Conn : client_id[c] = host /\ pc[c] \in {"left", "transfer"}

\* While there is none, everybody in the room is about to claim the role.
RoleFree ==
    host = 0 => \A i \in clients : \E c \in Conn : client_id[c] = i /\ pc[c] = "claim"

RoleInv ==
    /\ misplaced \in BOOLEAN
    /\ RoomKept
    /\ ~misplaced => HostHeld /\ RoleFree

\* The other steps change nothing that the role depends on.
LEMMA RoleUntouched ==
    ASSUME TypeOK, NEW c \in Conn,
           \/ RefuseJoin(c) \/ CheckCapacity(c) \/ WriteFull(c) \/ RegisterPanics(c)
           \/ SendAddClient(c) \/ WriteJoined(c) \/ WriteFails(c) \/ GetRoomInfo(c)
           \/ WriteRoomInfo(c) \/ Announce(c) \/ ReadKick(c) \/ CheckKick(c)
           \/ KickClose(c) \/ Leave(c) \/ StreamClosed(c) \/ Disconnect(c)
    PROVE  /\ UNCHANGED <<present, clients, host, client_id>>
           /\ \A d \in Conn : pc[d] \in Deciding \/ pc'[d] \in Deciding => pc'[d] = pc[d]
<1> USE DEF room_vars, TypeOK, Go, Deciding
<1>1. CASE RefuseJoin(c) \/ CheckCapacity(c) \/ WriteFull(c) \/ RegisterPanics(c)
  BY <1>1 DEF RefuseJoin, CheckCapacity, WriteFull, RegisterPanics
<1>2. CASE SendAddClient(c) \/ WriteJoined(c) \/ WriteFails(c) \/ GetRoomInfo(c)
  BY <1>2 DEF SendAddClient, WriteJoined, WriteFails, GetRoomInfo
<1>3. CASE WriteRoomInfo(c) \/ Announce(c) \/ ReadKick(c) \/ CheckKick(c)
  BY <1>3 DEF WriteRoomInfo, Announce, ReadKick, CheckKick
<1>4. CASE KickClose(c) \/ Leave(c) \/ StreamClosed(c) \/ Disconnect(c)
  BY <1>4 DEF KickClose, Leave, StreamClosed, Disconnect
<1>5. QED
  BY <1>1, <1>2, <1>3, <1>4

\* A step that changes nothing the role depends on keeps the invariant.
LEMMA RoleKept ==
    ASSUME RoleInv, misplaced' \in BOOLEAN, misplaced => misplaced',
           UNCHANGED <<present, clients, host, client_id>>,
           \A d \in Conn : pc[d] \in Deciding \/ pc'[d] \in Deciding => pc'[d] = pc[d]
    PROVE  RoleInv'
<1>1. RoomKept'
  BY DEF RoleInv, RoomKept, Deciding
<1>2. ASSUME ~misplaced' PROVE HostHeld' /\ RoleFree'
  <2>1. HostHeld /\ RoleFree
    BY <1>2 DEF RoleInv
  <2>2. HostHeld'
    BY <2>1 DEF HostHeld, Deciding
  <2>3. RoleFree'
    BY <2>1 DEF RoleFree, Deciding
  <2>4. QED
    BY <2>2, <2>3
<1>3. QED
  BY <1>1, <1>2 DEF RoleInv

\* The step of a handler that decides on the role, or takes somebody out of the
\* roster, keeps it with somebody or is one of those that misplace it.
LEMMA RoleMoves ==
    ASSUME TypeOK, IdsIssued, RoleInv, NEW c \in Conn,
           \/ EnterRoom(c) \/ Register(c) \/ ClaimHost(c) \/ KickRemove(c)
           \/ RemoveSelf(c) \/ FindSuccessor(c) \/ HandOver(c),
           misplaced' = (misplaced \/ (Misplaces(c) /\ pc'[c] # pc[c]))
    PROVE  RoleInv'
<1> USE DEF TypeOK, Go
<1>1. misplaced' \in BOOLEAN
  BY DEF RoleInv
<1>2. RoomKept'
  <2>1. CASE EnterRoom(c) \/ Register(c)
    BY <2>1 DEF RoleInv, RoomKept, EnterRoom, Register
  <2>2. CASE ClaimHost(c) \/ HandOver(c)
    BY <2>2 DEF RoleInv, RoomKept, ClaimHost, HandOver
  <2>3. CASE KickRemove(c) \/ RemoveSelf(c) \/ FindSuccessor(c)
    BY <2>3 DEF RoleInv, RoomKept, KickRemove, RemoveSelf, FindSuccessor, room_vars
  <2>4. QED
    BY <2>1, <2>2, <2>3
<1>3. ASSUME ~misplaced' PROVE HostHeld' /\ RoleFree'
  <2>1. HostHeld /\ RoleFree
    BY <1>3 DEF RoleInv
  <2>2. pc'[c] # pc[c] => ~Misplaces(c)
    BY <1>3
  <2>3. CASE EnterRoom(c)
    <3>1. \A d \in Conn \ {c} : pc'[d] = pc[d] /\ client_id'[d] = client_id[d]
      BY <2>3 DEF EnterRoom
    <3>2. pc[c] = "enter"
      BY <2>3 DEF EnterRoom
    <3>3. HostHeld'
      BY <2>1, <2>3, <3>1, <3>2 DEF EnterRoom, HostHeld
    <3>4. RoleFree'
      BY <2>1, <2>3, <3>1, <3>2 DEF EnterRoom, RoleFree
    <3>5. QED
      BY <3>3, <3>4
  <2>4. CASE Register(c)
    BY <2>1, <2>4 DEF Register, HostHeld, RoleFree
  <2>5. CASE ClaimHost(c)
    <3>1. host' = client_id[c] => client_id[c] \in clients \/ host' = host
      BY <2>2, <2>5 DEF ClaimHost, Misplaces, ClaimedByRemoved
    <3>2. host' # 0
      BY <2>5 DEF ClaimHost, IdsIssued, Joined
    <3>3. \A d \in Conn : pc[d] \in {"left", "transfer"} => pc'[d] = pc[d]
      BY <2>5 DEF ClaimHost
    <3>4. HostHeld'
      BY <2>1, <2>5, <3>1, <3>3 DEF ClaimHost, HostHeld
    <3>5. QED
      BY <3>2, <3>4 DEF RoleFree
  <2>6. CASE KickRemove(c)
    <3>1. ~(peer[c] = host /\ host \in clients)
      BY <2>2, <2>6 DEF KickRemove, Misplaces, HostKicked
    <3>2. \A d \in Conn : pc[d] \in Deciding => pc'[d] = pc[d]
      BY <2>6 DEF KickRemove, Deciding
    <3>3. HostHeld'
      BY <2>1, <2>6, <3>1, <3>2 DEF KickRemove, HostHeld, Deciding
    <3>4. RoleFree'
      BY <2>1, <2>6, <3>2 DEF KickRemove, RoleFree, Deciding
    <3>5. QED
      BY <3>3, <3>4
  <2>7. CASE RemoveSelf(c)
    <3>1. \A d \in Conn : pc[d] \in Deciding => pc'[d] = pc[d]
      BY <2>7 DEF RemoveSelf, Deciding
    <3>2. host = client_id[c] /\ host \in clients => pc'[c] = "left"
      BY <2>7 DEF RemoveSelf
    <3>3. HostHeld'
      BY <2>1, <2>7, <3>1, <3>2 DEF RemoveSelf, HostHeld, Deciding
    <3>4. RoleFree'
      BY <2>1, <2>7, <3>1 DEF RemoveSelf, RoleFree, Deciding
    <3>5. QED
      BY <3>3, <3>4
  <2>8. CASE FindSuccessor(c)
    <3>1. host = client_id[c] /\ host # 0 => pc'[c] = "transfer"
      BY <2>8 DEF FindSuccessor, RoleInv, RoomKept
    <3>2. \A d \in Conn \ {c} : pc'[d] = pc[d]
      BY <2>8 DEF FindSuccessor
    <3>3. HostHeld'
      BY <2>1, <2>8, <3>1, <3>2 DEF FindSuccessor, HostHeld, room_vars
    <3>4. RoleFree'
      BY <2>1, <2>8, <3>2 DEF FindSuccessor, RoleFree, room_vars
    <3>5. QED
      BY <3>3, <3>4
  <2>9. CASE HandOver(c)
    <3>1. \A d \in Conn \ {c} : pc'[d] = pc[d]
      BY <2>9 DEF HandOver
    <3>2. pc[c] = "transfer" /\ pc'[c] = "done"
      BY <2>9 DEF HandOver
    <3>3. peer[c] = 0 => clients = {}
      BY <2>2, <3>2 DEF Misplaces, EmptiedTooLate
    <3>4. peer[c] # 0 /\ host = client_id[c] => peer[c] \in clients
      BY <2>2, <3>2 DEF Misplaces, GivenToDeparted
    <3>5. HostHeld'
      BY <2>1, <2>9, <3>1, <3>2, <3>4 DEF HandOver, HostHeld
    <3>6. RoleFree'
      BY <2>1, <2>9, <3>1, <3>2, <3>3 DEF HandOver, RoleFree
    <3>7. QED
      BY <3>5, <3>6
  <2>10. QED
    BY <2>3, <2>4, <2>5, <2>6, <2>7, <2>8, <2>9
<1>4. QED
  BY <1>1, <1>2, <1>3 DEF RoleInv

\* Every step of the handlers, of the cleanup and of the network keeps it.
LEMMA RoleStep ==
    TypeOK /\ IdsIssued /\ RoleInv /\ [RoleNext]_<<vars, misplaced>> => RoleInv'
<1> SUFFICES ASSUME TypeOK, IdsIssued, RoleInv, [RoleNext]_<<vars, misplaced>>
             PROVE  RoleInv'
  OBVIOUS
<1>1. ASSUME NEW c \in Conn, Progress(c) \/ ClientChoice(c),
             misplaced' = (misplaced \/ (Misplaces(c) /\ pc'[c] # pc[c]))
      PROVE  RoleInv'
  <2>1. CASE \/ EnterRoom(c) \/ Register(c) \/ ClaimHost(c) \/ KickRemove(c)
             \/ RemoveSelf(c) \/ FindSuccessor(c) \/ HandOver(c)
    BY <1>1, <2>1, RoleMoves
  <2>2. CASE ~(\/ EnterRoom(c) \/ Register(c) \/ ClaimHost(c) \/ KickRemove(c)
               \/ RemoveSelf(c) \/ FindSuccessor(c) \/ HandOver(c))
    <3>1. /\ UNCHANGED <<present, clients, host, client_id>>
          /\ \A d \in Conn : pc[d] \in Deciding \/ pc'[d] \in Deciding => pc'[d] = pc[d]
      BY <1>1, <2>2, RoleUntouched DEF Progress, ClientChoice
    <3>2. misplaced' \in BOOLEAN /\ (misplaced => misplaced')
      BY <1>1 DEF RoleInv
    <3>3. QED
      BY <3>1, <3>2, RoleKept
  <2>3. QED
    BY <2>1, <2>2
<1>2. CASE CollectEmptyRoom /\ UNCHANGED misplaced
  <2>1. \A c \in Conn : pc[c] \notin {"claim", "transfer"}
    BY <1>2 DEF CollectEmptyRoom, MapUnguarded, Guarding
  <2>2. RoomKept'
    BY <1>2, <2>1 DEF CollectEmptyRoom, RoleInv, RoomKept
  <2>3. ASSUME ~misplaced PROVE HostHeld' /\ RoleFree'
    BY <1>2, <2>3 DEF CollectEmptyRoom, RoleInv, HostHeld, RoleFree
  <2>4. QED
    BY <1>2, <2>2, <2>3 DEF RoleInv
<1>3. CASE UNCHANGED <<vars, misplaced>>
  BY <1>3, RoleKept DEF vars, RoleInv
<1>4. QED
  BY <1>1, <1>2, <1>3 DEF RoleNext

\* RoleIsHeld: four steps apart, a room with clients has one of them for host
\* once nobody is claiming the role or handing it over; for any connections.
THEOREM RoleStaysHeld == RoleSpec => []RoleIsHeld
<1>1. RoleInit => Init /\ RoleInv
  BY DEF RoleInit, Init, RoleInv, RoomKept, HostHeld, RoleFree
<1>2. [RoleNext]_<<vars, misplaced>> => [Next]_vars
  BY DEF RoleNext, Next, vars
<1>3. RoleInv => RoleIsHeld
  BY DEF RoleInv, RoleIsHeld, HostHeld, RoleFree
<1>4. QED
  BY <1>1, <1>2, <1>3, RoleStep, TypeCorrect, PTL DEF RoleSpec, Spec

-----------------------------------------------------------------------------
(* The mix tasks add to the handlers, and take nothing from them.          *)

\* A step of a handler or of the cleanup is one of RoomMembership, a tick of a
\* mix task leaves the room alone.
LEMMA MixStepIsRoomStep == [MixNext]_<<vars, mix_vars>> => [Next]_vars
<1> SUFFICES ASSUME [MixNext]_<<vars, mix_vars>> PROVE [Next]_vars
  OBVIOUS
<1>1. ASSUME NEW c \in Conn, MixProgress(c) PROVE Next
  <2>1. Progress(c)
    BY <1>1 DEF MixProgress, OtherProgress, Progress, EnterRoomAndSpawn,
       RegisterWithSender, QueueAdd, KickFromMix, RemoveSelfFromMix
  <2>2. QED
    BY <2>1 DEF Next
<1>2. ASSUME NEW c \in Conn, ClientChoice(c) PROVE Next
  BY <1>2 DEF Next
<1>3. CASE CollectRoomAndSender
  BY <1>3 DEF CollectRoomAndSender, Next
<1>4. ASSUME NEW m \in Conn, MixTick(m) PROVE UNCHANGED vars
  BY <1>4 DEF MixTick
<1>5. QED
  BY <1>1, <1>2, <1>3, <1>4 DEF MixNext

\* RoomMix implements RoomMembership: what the handlers do with the command
\* queue, and the waiting for a place in it, adds no behaviour to the room.
THEOREM MixImplementsRoom == MixSpec => Spec
<1>1. MixInit => Init
  BY DEF MixInit
<1>2. QED
  BY <1>1, MixStepIsRoomStep, PTL DEF MixSpec, Spec

-----------------------------------------------------------------------------
(* The parts of the inductive invariant. *)

Command == [add : BOOLEAN, client_id : Nat]

MixTypes ==
    /\ mix_cmd_tx \in [Conn -> SUBSET Conn]
    /\ cmds \in [Conn -> Seq(Command)]
    /\ mix_clients \in [Conn -> SUBSET Nat]
    /\ running \subseteq Conn

\* The room in the map has a maker, whose task runs; without it nobody is in it.
MakerInv ==
    /\ present => \E m \in Conn : maker = {m}
    /\ ~present => maker = {} /\ clients = {}
    /\ maker \subseteq running

\* A member's handler holds the sender of the room in the map.
SenderInv ==
    \A c \in Conn : pc[c] \in Joined /\ client_id[c] \in clients => mix_cmd_tx[c] = maker

\* Where a handler is once it has queued its AddClient.
Informed == Joined \ {"claim", "add"}

KnownInv ==
    \A c \in Conn : pc[c] \in Informed /\ client_id[c] \in clients =>
        \A m \in maker : client_id[c] \in Known(m)

Early == {"connect", "full", "enter"}

\* No id before the entry; what is queued and known are ids that were given out.
QueueInv ==
    /\ \A c \in Conn : pc[c] \in Early => client_id[c] = 0
    /\ \A m \in Conn :
          /\ Len(cmds[m]) <= QueueCap
          /\ \A k \in DOMAIN cmds[m] : cmds[m][k].client_id \in Ids
          /\ mix_clients[m] \subseteq Ids
          /\ m \notin running => mix_clients[m] = {}

\* What has been proved of the room above.
RoomInv == TypeOK /\ IdsIssued /\ MembersHaveHandlers

-----------------------------------------------------------------------------
(* What the steps have in common. *)

\* A step that takes no handler over the points the invariants tell apart.
NoFurther ==
    \A d \in Conn :
        /\ pc'[d] \in Joined => pc[d] \in Joined
        /\ pc'[d] \in Informed => pc[d] \in Informed
        /\ pc'[d] \in Early => pc[d] \in Early

\* The steps that do not concern the mix tasks leave the roster alone, and take
\* no handler over these points.
LEMMA QuietStep ==
    ASSUME TypeOK, NEW c \in Conn, OtherProgress(c) \/ ClientChoice(c)
    PROVE  /\ UNCHANGED <<present, clients, client_id>>
           /\ NoFurther
<1> USE DEF Joined, Informed, Early, room_vars, TypeOK, Go, NoFurther
<1>1. CASE WriteFull(c) \/ RegisterPanics(c) \/ ClaimHost(c)
  BY <1>1 DEF WriteFull, RegisterPanics, ClaimHost
<1>2. CASE WriteJoined(c) \/ WriteFails(c) \/ GetRoomInfo(c) \/ WriteRoomInfo(c)
  BY <1>2 DEF WriteJoined, WriteFails, GetRoomInfo, WriteRoomInfo
<1>3. CASE Announce(c) \/ CheckKick(c) \/ KickClose(c) \/ StreamClosed(c)
  BY <1>3 DEF Announce, CheckKick, KickClose, StreamClosed
<1>4. CASE FindSuccessor(c) \/ HandOver(c)
  BY <1>4 DEF FindSuccessor, HandOver
<1>5. CASE RefuseJoin(c) \/ CheckCapacity(c) \/ ReadKick(c) \/ Leave(c) \/ Disconnect(c)
  BY <1>5 DEF RefuseJoin, CheckCapacity, ReadKick, Leave, Disconnect
<1>6. QED
  BY <1>1, <1>2, <1>3, <1>4, <1>5 DEF OtherProgress, ClientChoice

\* What a task knows after one more command: of everybody what it did, but for
\* the client that the command is about.
LEMMA QueueKnows ==
    ASSUME MixTypes, NEW m \in Conn, NEW cmd \in Command, Queue(m, cmd),
           UNCHANGED <<mix_clients, client_id>>
    PROVE  /\ \A n \in Conn : \A id \in Known(n) :
                 (n = m => cmd # RemoveClient(id)) => id \in Known(n)'
           /\ \A id \in Ids : cmd = AddClient(id) => id \in Known(m)'
<1>1. /\ cmds'[m] = Append(cmds[m], cmd) /\ cmds[m] \in Seq(Command)
      /\ \A n \in Conn : n # m => cmds'[n] = cmds[n]
      /\ Ids' = Ids
  BY DEF Queue, MixTypes, Ids
<1>2. /\ Len(cmds[m]) \in Nat /\ Len(cmds'[m]) = Len(cmds[m]) + 1
      /\ DOMAIN cmds'[m] = DOMAIN cmds[m] \cup {Len(cmds[m]) + 1}
      /\ DOMAIN cmds[m] = 1..Len(cmds[m])
      /\ cmds'[m][Len(cmds[m]) + 1] = cmd
      /\ \A k \in DOMAIN cmds[m] : cmds'[m][k] = cmds[m][k]
  BY <1>1, AppendProperties
<1>3. ASSUME NEW n \in Conn, NEW id \in Known(n), n = m => cmd # RemoveClient(id)
      PROVE  id \in Known(n)'
  <2>1. CASE n # m
    BY <1>1, <1>3, <2>1 DEF Known, Added, Removed
  <2>2. CASE n = m
    <3>1. Removed(m, id)' => Removed(m, id)
      BY <1>2, <1>3, <2>2 DEF Removed
    <3>2. Added(m, id) => Added(m, id)'
      BY <1>2, <1>3, <2>2 DEF Added
    <3>3. QED
      BY <1>1, <1>3, <2>2, <3>1, <3>2 DEF Known
  <2>3. QED
    BY <2>1, <2>2
<1>4. ASSUME NEW id \in Ids, cmd = AddClient(id) PROVE id \in Known(m)'
  <2>1. Added(m, id)'
    BY <1>2, <1>4 DEF Added
  <2>2. QED
    BY <1>1, <1>4, <2>1 DEF Known
<1>5. QED
  BY <1>3, <1>4

MixInv == MixTypes /\ MakerInv /\ SenderInv /\ KnownInv /\ QueueInv

\* A queue that gets one more command, about an id given out.
LEMMA QueueKeeps ==
    ASSUME MixTypes, QueueInv, NEW m \in Conn, NEW cmd \in Command, cmd.client_id \in Ids,
           Len(cmds[m]) < QueueCap, Queue(m, cmd), UNCHANGED <<mix_clients, client_id>>
    PROVE  /\ cmds' \in [Conn -> Seq(Command)]
           /\ \A n \in Conn :
                 /\ Len(cmds'[n]) <= QueueCap
                 /\ \A k \in DOMAIN cmds'[n] : cmds'[n][k].client_id \in Ids'
<1>1. /\ cmds'[m] = Append(cmds[m], cmd) /\ cmds[m] \in Seq(Command)
      /\ \A n \in Conn : n # m => cmds'[n] = cmds[n]
      /\ Ids' = Ids
      /\ cmds' = [cmds EXCEPT ![m] = Append(cmds[m], cmd)]
  BY DEF Queue, MixTypes, Ids
<1>2. /\ Append(cmds[m], cmd) \in Seq(Command)
      /\ Len(cmds[m]) \in Nat /\ Len(cmds'[m]) = Len(cmds[m]) + 1
      /\ DOMAIN cmds'[m] = DOMAIN cmds[m] \cup {Len(cmds[m]) + 1}
      /\ DOMAIN cmds[m] = 1..Len(cmds[m])
      /\ cmds'[m][Len(cmds[m]) + 1] = cmd
      /\ \A k \in DOMAIN cmds[m] : cmds'[m][k] = cmds[m][k]
  BY <1>1, AppendProperties
<1>3. cmds' \in [Conn -> Seq(Command)]
  BY <1>1, <1>2 DEF MixTypes
<1>4. Len(cmds'[m]) <= QueueCap
  BY <1>2, MixConstants
<1>5. \A k \in DOMAIN cmds'[m] : cmds'[m][k].client_id \in Ids'
  BY <1>1, <1>2 DEF QueueInv
<1>6. QED
  BY <1>1, <1>3, <1>4, <1>5 DEF QueueInv

\* Taking a client out of the roster, by a kick or by its own cleanup.
LEMMA RemovalStep ==
    ASSUME RoomInv, MixInv, NEW id, TryQueueRemove(id), clients' = clients \ {id},
           UNCHANGED <<present, client_id, maker, mix_cmd_tx, mix_clients, running>>,
           NoFurther
    PROVE  MixInv'
<1>1. id \in clients => id \in Nat \ {0} /\ id \in Ids
  BY DEF RoomInv, TypeOK, MembersHaveHandlers, Ids
<1>2. \/ UNCHANGED cmds
      \/ /\ id \in clients
         /\ \E m \in maker : Len(cmds[m]) < QueueCap /\ Queue(m, RemoveClient(id))
  BY DEF TryQueueRemove
<1>3. maker \subseteq Conn
  BY DEF MixInv, MakerInv, RoomInv, TypeOK
<1>4. CASE UNCHANGED cmds
  <2>1. \A m \in Conn : UNCHANGED Known(m)
    BY <1>4 DEF Known, Added, Removed, Ids
  <2>2. MixTypes' /\ MakerInv' /\ SenderInv' /\ QueueInv'
    BY <1>4 DEF MixInv, MixTypes, MakerInv, SenderInv, QueueInv, Ids, NoFurther
  <2>3. KnownInv'
    BY <2>1, <1>3 DEF MixInv, KnownInv, NoFurther
  <2>4. QED
    BY <2>2, <2>3 DEF MixInv
<1>5. ASSUME id \in clients, NEW m \in maker, Len(cmds[m]) < QueueCap, Queue(m, RemoveClient(id))
      PROVE  MixInv'
  <2>1. m \in Conn /\ RemoveClient(id) \in Command /\ RemoveClient(id).client_id = id
    BY <1>1, <1>3, <1>5 DEF Command, RemoveClient
  <2>2. /\ cmds' \in [Conn -> Seq(Command)]
        /\ \A n \in Conn :
              /\ Len(cmds'[n]) <= QueueCap
              /\ \A k \in DOMAIN cmds'[n] : cmds'[n][k].client_id \in Ids'
    BY <1>1, <1>5, <2>1, QueueKeeps DEF MixInv
  <2>3. \A n \in Conn : \A i \in Known(n) : i # id => i \in Known(n)'
    <3>1. \A i : i # id => RemoveClient(id) # RemoveClient(i)
      BY DEF RemoveClient
    <3>2. QED
      BY <1>5, <2>1, <3>1, QueueKnows DEF MixInv
  <2>4. MixTypes' /\ MakerInv' /\ SenderInv' /\ QueueInv'
    BY <2>2 DEF MixInv, MixTypes, MakerInv, SenderInv, QueueInv, Ids, NoFurther
  <2>5. KnownInv'
    BY <1>3, <2>3 DEF MixInv, KnownInv, NoFurther
  <2>6. QED
    BY <2>4, <2>5 DEF MixInv
<1>6. QED
  BY <1>2, <1>4, <1>5

\* A step that leaves roster, queues and tasks alone.
LEMMA QuietKeeps ==
    ASSUME RoomInv, MixInv, UNCHANGED <<present, clients, client_id, mix_vars>>,
           NoFurther
    PROVE  MixInv'
<1>1. \A m : UNCHANGED Known(m)
  BY DEF Known, Added, Removed, Ids, mix_vars
<1>2. KnownInv'
  BY <1>1 DEF MixInv, KnownInv, NoFurther, mix_vars
<1>3. MixTypes' /\ MakerInv' /\ SenderInv' /\ QueueInv'
  BY DEF MixInv, MixTypes, MakerInv, SenderInv, QueueInv, Ids, NoFurther, mix_vars
<1>4. QED
  BY <1>2, <1>3 DEF MixInv

-----------------------------------------------------------------------------
(* Every step. *)

\* The entry of a joiner: of a room in the map, or of the room it makes.
LEMMA EnterStep ==
    ASSUME RoomInv, MixInv, NEW c \in Conn, EnterRoomAndSpawn(c) PROVE MixInv'
<1>1. /\ pc[c] = "enter" /\ pc' = [pc EXCEPT ![c] = "register"]
      /\ client_id' = [client_id EXCEPT ![c] = next_client_id]
      /\ present' = TRUE /\ UNCHANGED <<clients, mix_cmd_tx, cmds, mix_clients>>
      /\ maker' = IF present THEN maker ELSE {c}
      /\ running' = IF present THEN running ELSE running \cup {c}
  BY DEF EnterRoomAndSpawn, EnterRoom, Go
<1>2. client_id[c] = 0
  BY <1>1 DEF MixInv, QueueInv, Early
<1>3. Ids \subseteq Ids'
  BY <1>1, <1>2 DEF Ids, RoomInv, TypeOK
<1>4. \A m \in Conn : Known(m) \subseteq Known(m)'
  BY <1>1, <1>3 DEF Known, Added, Removed
<1>5. \A d \in Conn : pc'[d] \in Joined => d # c /\ pc'[d] = pc[d] /\ client_id'[d] = client_id[d]
  BY <1>1 DEF Joined, RoomInv, TypeOK
<1>6. MixTypes' /\ MakerInv'
  BY <1>1 DEF MixInv, MixTypes, MakerInv
<1>7. SenderInv'
  BY <1>1, <1>5 DEF MixInv, SenderInv, MakerInv
<1>8. KnownInv'
  <2>1. maker \subseteq Conn
    BY DEF MixInv, MakerInv, RoomInv, TypeOK
  <2>2. QED
    BY <1>1, <1>4, <1>5, <2>1 DEF MixInv, KnownInv, Informed, MakerInv
<1>9. QueueInv'
  <2>1. \A d \in Conn : pc'[d] \in Early => client_id'[d] = 0
    BY <1>1 DEF MixInv, QueueInv, Early, RoomInv, TypeOK
  <2>2. QED
    BY <1>1, <1>3, <2>1 DEF MixInv, QueueInv
<1>10. QED
  BY <1>6, <1>7, <1>8, <1>9 DEF MixInv

\* Whoever registers takes the sender of the room in the map.
LEMMA RegisterStep ==
    ASSUME RoomInv, MixInv, NEW c \in Conn, RegisterWithSender(c) PROVE MixInv'
<1>1. /\ pc[c] = "register" /\ pc' = [pc EXCEPT ![c] = "claim"]
      /\ present /\ clients' = clients \cup {client_id[c]}
      /\ mix_cmd_tx' = [mix_cmd_tx EXCEPT ![c] = maker]
      /\ UNCHANGED <<present, client_id, maker, cmds, mix_clients, running>>
  BY DEF RegisterWithSender, Register, Go
<1>2. \A d \in Conn : d # c /\ pc[d] \in Joined => client_id[d] # client_id[c]
  BY <1>1 DEF RoomInv, IdsIssued
<1>3. \A m : UNCHANGED Known(m)
  BY <1>1 DEF Known, Added, Removed, Ids
<1>4. \A d \in Conn : /\ pc'[d] \in Joined => d = c \/ pc[d] \in Joined
                      /\ pc'[d] \in Informed => d # c /\ pc[d] \in Informed
                      /\ pc'[d] \in Early => pc[d] \in Early
  BY <1>1 DEF Joined, Informed, Early, RoomInv, TypeOK
<1>5. maker \subseteq Conn
  BY DEF MixInv, MakerInv, RoomInv, TypeOK
<1>6. MixTypes' /\ MakerInv'
  BY <1>1, <1>5 DEF MixInv, MixTypes, MakerInv
<1>7. SenderInv'
  BY <1>1, <1>2, <1>4 DEF MixInv, SenderInv, MixTypes
<1>8. KnownInv'
  <2> SUFFICES ASSUME NEW d \in Conn, pc'[d] \in Informed, client_id[d] \in clients',
                      NEW m \in maker
               PROVE  client_id[d] \in Known(m)
    BY <1>1, <1>3 DEF KnownInv
  <2>1. pc[d] \in Informed /\ pc[d] \in Joined /\ d # c
    BY <1>4 DEF Informed
  <2>2. client_id[d] \in clients
    BY <1>1, <1>2, <2>1
  <2>3. QED
    BY <2>1, <2>2 DEF MixInv, KnownInv
<1>9. QueueInv'
  <2>1. \A d \in Conn : pc'[d] \in Early => client_id'[d] = 0
    BY <1>1, <1>4 DEF MixInv, QueueInv
  <2>2. Ids' = Ids
    BY <1>1 DEF Ids
  <2>3. QED
    BY <1>1, <2>1, <2>2 DEF MixInv, QueueInv
<1>10. QED
  BY <1>6, <1>7, <1>8, <1>9 DEF MixInv

\* AddClient is in the queue of the room in the map, whose task runs, before its
\* handler goes on.
LEMMA AddStep ==
    ASSUME RoomInv, MixInv, NEW c \in Conn, QueueAdd(c) PROVE MixInv'
<1>1. /\ pc[c] = "add" /\ pc' = [pc EXCEPT ![c] = "joined"]
      /\ UNCHANGED <<present, clients, client_id, maker, mix_cmd_tx, mix_clients, running>>
  BY DEF QueueAdd, SendAddClient, Go, room_vars
<1>2. PICK m \in mix_cmd_tx[c] :
        IF m \in running
        THEN Len(cmds[m]) < QueueCap /\ Queue(m, AddClient(client_id[c]))
        ELSE UNCHANGED cmds
  BY DEF QueueAdd
<1>3. /\ m \in Conn /\ client_id[c] \in Ids
      /\ AddClient(client_id[c]) \in Command /\ AddClient(client_id[c]).client_id = client_id[c]
      /\ \A i : AddClient(client_id[c]) # RemoveClient(i)
  BY <1>1, <1>2 DEF MixInv, MixTypes, RoomInv, TypeOK, IdsIssued, Joined, Ids, Command,
     AddClient, RemoveClient
<1>4. \A d \in Conn : /\ pc'[d] \in Joined => pc[d] \in Joined
                      /\ pc'[d] \in Informed => d = c \/ pc[d] \in Informed
                      /\ pc'[d] \in Early => pc[d] \in Early
  BY <1>1 DEF Joined, Informed, Early, RoomInv, TypeOK
<1>5. client_id[c] \in clients => m \in running /\ maker = {m}
  <2>1. client_id[c] \in clients => m \in maker
    BY <1>1, <1>2 DEF MixInv, SenderInv, Joined
  <2>2. QED
    BY <2>1 DEF MixInv, MakerInv, RoomInv, TypeOK
<1>6. CASE m \in running
  <2>1. Len(cmds[m]) < QueueCap /\ Queue(m, AddClient(client_id[c]))
    BY <1>2, <1>6
  <2>2. /\ cmds' \in [Conn -> Seq(Command)]
        /\ \A n \in Conn :
              /\ Len(cmds'[n]) <= QueueCap
              /\ \A k \in DOMAIN cmds'[n] : cmds'[n][k].client_id \in Ids'
    BY <1>1, <1>3, <2>1, QueueKeeps DEF MixInv
  <2>3. /\ \A n \in Conn : Known(n) \subseteq Known(n)'
        /\ client_id[c] \in Known(m)'
    BY <1>1, <1>3, <2>1, QueueKnows DEF MixInv
  <2>4. MixTypes' /\ MakerInv' /\ SenderInv'
    BY <1>1, <1>4, <2>2 DEF MixInv, MixTypes, MakerInv, SenderInv
  <2>5. QueueInv'
    BY <1>1, <1>4, <2>2 DEF MixInv, QueueInv, Ids
  <2>6. KnownInv'
    <3> SUFFICES ASSUME NEW d \in Conn, pc'[d] \in Informed, client_id[d] \in clients,
                        NEW n \in maker
                 PROVE  client_id[d] \in Known(n)'
      BY <1>1 DEF KnownInv
    <3>1. n \in Conn
      BY DEF MixInv, MakerInv, RoomInv, TypeOK
    <3>2. CASE d = c
      BY <1>5, <2>3, <3>2
    <3>3. CASE d # c
      BY <1>4, <2>3, <3>1, <3>3 DEF MixInv, KnownInv
    <3>4. QED
      BY <3>2, <3>3
  <2>7. QED
    BY <2>4, <2>5, <2>6 DEF MixInv
<1>7. CASE m \notin running
  <2>1. UNCHANGED cmds /\ client_id[c] \notin clients
    BY <1>2, <1>5, <1>7
  <2>2. \A n : UNCHANGED Known(n)
    BY <1>1, <2>1 DEF Known, Added, Removed, Ids
  <2>3. MixTypes' /\ MakerInv' /\ SenderInv'
    BY <1>1, <1>4, <2>1 DEF MixInv, MixTypes, MakerInv, SenderInv
  <2>4. QueueInv'
    BY <1>1, <1>4, <2>1 DEF MixInv, QueueInv, Ids
  <2>5. KnownInv'
    <3> SUFFICES ASSUME NEW d \in Conn, pc'[d] \in Informed, client_id[d] \in clients,
                        NEW n \in maker
                 PROVE  client_id[d] \in Known(n)
      BY <1>1, <2>2 DEF KnownInv
    <3>1. pc[d] \in Informed
      BY <1>4, <2>1
    <3>2. QED
      BY <3>1 DEF MixInv, KnownInv
  <2>6. QED
    BY <2>3, <2>4, <2>5 DEF MixInv
<1>8. QED
  BY <1>6, <1>7

\* cleanup_loop drops the room only when nobody is in it.
LEMMA CollectStep ==
    ASSUME RoomInv, MixInv, CollectRoomAndSender PROVE MixInv'
<1>1. /\ present' = (present /\ clients # {})
      /\ maker' = IF present' THEN maker ELSE {}
      /\ UNCHANGED <<clients, pc, client_id, mix_cmd_tx, cmds, mix_clients, running>>
  BY DEF CollectRoomAndSender, CollectEmptyRoom
<1>2. \A m : UNCHANGED Known(m)
  BY <1>1 DEF Known, Added, Removed, Ids
<1>3. MixTypes' /\ MakerInv'
  BY <1>1 DEF MixInv, MixTypes, MakerInv
<1>4. SenderInv'
  BY <1>1 DEF MixInv, SenderInv, MakerInv
<1>5. KnownInv'
  <2> SUFFICES ASSUME NEW d \in Conn, pc[d] \in Informed, client_id[d] \in clients,
                      NEW m \in maker'
               PROVE  client_id[d] \in Known(m)
    BY <1>1, <1>2 DEF KnownInv
  <2>1. m \in maker
    BY <1>1
  <2>2. QED
    BY <2>1 DEF MixInv, KnownInv
<1>6. QueueInv'
  BY <1>1 DEF MixInv, QueueInv, Ids
<1>7. QED
  BY <1>3, <1>4, <1>5, <1>6 DEF MixInv

\* The task of the room in the map does not end, and forgets nobody.
LEMMA TickStep ==
    ASSUME RoomInv, MixInv, NEW m \in Conn, MixTick(m) PROVE MixInv'
<1>1. /\ UNCHANGED <<present, clients, pc, client_id, maker, mix_cmd_tx>>
      /\ cmds' = [cmds EXCEPT ![m] = <<>>]
      /\ \/ /\ m \notin maker
            /\ running' = running \ {m}
            /\ mix_clients' = [mix_clients EXCEPT ![m] = {}]
         \/ /\ mix_clients' = [mix_clients EXCEPT ![m] = Known(m)]
            /\ UNCHANGED running /\ m \in running
  BY DEF MixTick, Disconnected, RoomGone, MixInv, MakerInv, vars
<1>2. /\ <<>> \in Seq(Command) /\ Len(<<>>) = 0 /\ DOMAIN <<>> = {}
      /\ QueueCap \in Nat
  BY MixConstants
<1>3. Ids' = Ids /\ Ids \subseteq Nat /\ Known(m) \subseteq Ids
  BY <1>1 DEF Ids, Known, RoomInv, TypeOK
<1>4. cmds'[m] = <<>> /\ \A n \in Conn : n # m => cmds'[n] = cmds[n]
  BY <1>1 DEF MixInv, MixTypes
<1>5. MixTypes'
  BY <1>1, <1>2, <1>3 DEF MixInv, MixTypes
<1>6. MakerInv' /\ SenderInv'
  BY <1>1 DEF MixInv, MakerInv, SenderInv
<1>7. \A n \in maker : Known(n)' = Known(n)
  <2> SUFFICES ASSUME NEW n \in maker PROVE Known(n)' = Known(n)
    OBVIOUS
  <2>1. n \in Conn
    BY DEF MixInv, MakerInv, RoomInv, TypeOK
  <2>2. CASE n # m
    <3>1. mix_clients'[n] = mix_clients[n] /\ cmds'[n] = cmds[n]
      BY <1>1, <1>4, <2>1, <2>2 DEF MixInv, MixTypes
    <3>2. QED
      BY <1>3, <3>1 DEF Known, Added, Removed
  <2>3. CASE n = m
    <3>1. mix_clients'[m] = Known(m)
      BY <1>1, <2>3 DEF MixInv, MixTypes
    <3>2. \A i : ~Added(m, i)' /\ ~Removed(m, i)'
      BY <1>2, <1>4 DEF Added, Removed
    <3>3. Known(m)' = {i \in Ids : i \in Known(m)}
      BY <1>3, <3>1, <3>2, Zenon DEF Known
    <3>4. QED
      BY <1>3, <2>3, <3>3
  <2>4. QED
    BY <2>2, <2>3
<1>8. KnownInv'
  BY <1>1, <1>7 DEF MixInv, KnownInv
<1>9. QueueInv'
  <2>1. \A d \in Conn : pc'[d] \in Early => client_id'[d] = 0
    BY <1>1 DEF MixInv, QueueInv
  <2>2. ASSUME NEW n \in Conn
        PROVE  /\ Len(cmds'[n]) <= QueueCap
               /\ \A k \in DOMAIN cmds'[n] : cmds'[n][k].client_id \in Ids'
    BY <1>2, <1>3, <1>4 DEF MixInv, QueueInv
  <2>3. ASSUME NEW n \in Conn
        PROVE  mix_clients'[n] \subseteq Ids' /\ (n \notin running' => mix_clients'[n] = {})
    BY <1>1, <1>3 DEF MixInv, QueueInv, MixTypes
  <2>4. QED
    BY <2>1, <2>2, <2>3 DEF QueueInv
<1>10. QED
  BY <1>5, <1>6, <1>8, <1>9 DEF MixInv

\* Every action keeps the invariant.
LEMMA MixStep == RoomInv /\ MixInv /\ [MixNext]_<<vars, mix_vars>> => MixInv'
<1> SUFFICES ASSUME RoomInv, MixInv, [MixNext]_<<vars, mix_vars>> PROVE MixInv'
  OBVIOUS
<1>1. ASSUME NEW c \in Conn, EnterRoomAndSpawn(c) PROVE MixInv'
  BY <1>1, EnterStep
<1>2. ASSUME NEW c \in Conn, RegisterWithSender(c) PROVE MixInv'
  BY <1>2, RegisterStep
<1>3. ASSUME NEW c \in Conn, QueueAdd(c) PROVE MixInv'
  BY <1>3, AddStep
<1>4. ASSUME NEW c \in Conn, KickFromMix(c) PROVE MixInv'
  <2>1. /\ TryQueueRemove(peer[c]) /\ clients' = clients \ {peer[c]}
        /\ UNCHANGED <<present, client_id, maker, mix_cmd_tx, mix_clients, running>>
    BY <1>4 DEF KickFromMix, KickRemove
  <2>2. NoFurther
    BY <1>4 DEF KickFromMix, KickRemove, Go, Joined, Informed, Early, NoFurther, RoomInv, TypeOK
  <2>3. QED
    BY <2>1, <2>2, RemovalStep
<1>5. ASSUME NEW c \in Conn, RemoveSelfFromMix(c) PROVE MixInv'
  <2>1. /\ TryQueueRemove(client_id[c]) /\ clients' = clients \ {client_id[c]}
        /\ UNCHANGED <<present, client_id, maker, mix_cmd_tx, mix_clients, running>>
    BY <1>5 DEF RemoveSelfFromMix, RemoveSelf
  <2>2. NoFurther
    BY <1>5 DEF RemoveSelfFromMix, RemoveSelf, Go, Joined, Informed, Early, NoFurther, RoomInv, TypeOK
  <2>3. QED
    BY <2>1, <2>2, RemovalStep
<1>6. ASSUME NEW c \in Conn, OtherProgress(c) \/ ClientChoice(c), UNCHANGED mix_vars
      PROVE  MixInv'
  BY <1>6, QuietStep, QuietKeeps DEF RoomInv
<1>7. CASE CollectRoomAndSender
  BY <1>7, CollectStep
<1>8. ASSUME NEW m \in Conn, MixTick(m) PROVE MixInv'
  BY <1>8, TickStep
<1>9. CASE UNCHANGED <<vars, mix_vars>>
  BY <1>9, QuietKeeps DEF vars, NoFurther
<1>10. QED
  BY <1>1, <1>2, <1>3, <1>4, <1>5, <1>6, <1>7, <1>8, <1>9 DEF MixNext, MixProgress

-----------------------------------------------------------------------------
(* What follows. *)

\* The invariant, in every state.
LEMMA MixInvariant == MixSpec => [](RoomInv /\ MixInv)
<1>1. MixInit => MixInv
  <2> SUFFICES ASSUME MixInit PROVE MixInv
    OBVIOUS
  <2>1. /\ <<>> \in Seq(Command) /\ Len(<<>>) = 0 /\ DOMAIN <<>> = {}
        /\ QueueCap \in Nat
    BY MixConstants
  <2>2. MixTypes
    BY <2>1 DEF MixInit, MixTypes
  <2>3. MakerInv /\ SenderInv /\ KnownInv
    BY DEF MixInit, Init, MakerInv, SenderInv, KnownInv
  <2>4. QueueInv
    BY <2>1 DEF MixInit, Init, QueueInv
  <2>5. QED
    BY <2>2, <2>3, <2>4 DEF MixInv
<1>2. MixSpec => []RoomInv
  BY MixImplementsRoom, TypeCorrect, RosterCorrect, PTL DEF RoomInv
<1>3. QED
  BY <1>1, <1>2, MixStep, PTL DEF MixSpec

\* Types: at most one maker, no queue over its capacity, and only ids that were
\* given out in queues and in the tasks' maps.
THEOREM MixTypeCorrect == MixSpec => []MixTypeOK
<1>1. RoomInv /\ MixInv => MixTypeOK
  <2> SUFFICES ASSUME RoomInv, MixInv PROVE MixTypeOK
    OBVIOUS
  <2>1. maker \subseteq Conn /\ Cardinality(maker) = (IF present THEN 1 ELSE 0)
    BY FS_EmptySet, FS_Singleton DEF MixInv, MakerInv, RoomInv, TypeOK
  <2>2. QED
    BY <2>1 DEF MixTypeOK, MixInv, MixTypes, QueueInv
<1>2. QED
  BY <1>1, MixInvariant, PTL

\* Whoever is in the roster and has been told so is mixed, and by the task that
\* its audio goes to: through any drops and re-creations of the room, tasks that
\* live on, and removals that a full queue loses.
THEOREM MembersMixed == MixSpec => []MembersAreMixed
<1>1. RoomInv /\ MixInv => MembersAreMixed
  <2> SUFFICES ASSUME RoomInv, MixInv, NEW c \in Conn, pc[c] \in Joined \ {"claim", "add"},
                      client_id[c] \in clients
               PROVE  \E m \in maker \cap running :
                         mix_cmd_tx[c] = {m} /\ client_id[c] \in Known(m)
    BY DEF MembersAreMixed
  <2>1. PICK m \in Conn : maker = {m} /\ m \in running
    BY DEF MixInv, MakerInv, RoomInv, TypeOK
  <2>2. mix_cmd_tx[c] = {m}
    BY <2>1 DEF MixInv, SenderInv
  <2>3. client_id[c] \in Known(m)
    BY <2>1 DEF MixInv, KnownInv, Informed
  <2>4. QED
    BY <2>1, <2>2, <2>3
<1>2. QED
  BY <1>1, MixInvariant, PTL
=================================================================================
