--------------------------- MODULE RoomMembership ---------------------------
(***************************************************************************)
(* Membership and the host role of one room of the voicemcu server:        *)
(* handle_connection and the Kick arm of handle_signaling (one process per *)
(* QUIC connection), the room map entry they share, Room::try_claim_host   *)
(* and Room::transfer_host_from, and cleanup_loop, which drops empty rooms.*)
(*                                                                         *)
(* A step ends where the code can be descheduled with its effect visible:  *)
(* at an .await, or between two operations on the shared maps and atomics. *)
(* server.rooms.get(..) hands out a read guard of the map: while a handler *)
(* holds one, `entry` and `retain`, which write the map, have to wait.     *)
(***************************************************************************)
EXTENDS Naturals, FiniteSets

CONSTANTS
    Conn,         \* the connections; each one has its own handler task
    MaxRoomSize,  \* config.max_room_size
    MaxJoining,   \* bound: connections between the capacity check and the roster
    FirstId       \* the random non-zero id Server::new starts from

ASSUME RoomConstants ==
    /\ IsFiniteSet(Conn)
    /\ MaxRoomSize \in Nat \ {0}
    /\ MaxJoining \in Nat \ {0}
    /\ FirstId \in Nat \ {0}

VARIABLES
    present,         \* server.rooms holds the room
    clients,         \* the keys of room.clients
    host,            \* room.host, 0 for none
    next_client_id,  \* server.next_client_id
    pc,              \* where each handler is
    client_id,       \* the handler's own id, 0 before it has one
    is_new_room,     \* the handler found the entry vacant and made the room
    became_host,     \* local of handle_connection
    peer,            \* the target of a Kick, or the successor transfer_host_from found
    closed,          \* connections that are lost, left or closed by the server
    told             \* ids to which YouAreHost has been pushed

room_vars == <<present, clients, host>>
vars == <<present, clients, host, next_client_id, pc, client_id, is_new_room,
          became_host, peer, closed, told>>

-----------------------------------------------------------------------------
(* Where a handler can be. *)

\* Past the capacity check, not yet in room.clients.
Admitted == {"enter", "register"}

\* Registered, and not yet at the cleanup that ends handle_connection.
Joined == {"claim", "add", "joined", "info", "info_write", "announce", "serve",
           "kick", "kick_remove", "kick_close", "cleanup"}

\* Its client has the Joined and RoomInfo messages.
Serving == {"announce", "serve", "kick", "kick_remove", "kick_close"}

\* Unregistered by its own cleanup.
Departing == {"left", "transfer"}

\* The handler returned: normally, through `?` on a failed write, or by a panic.
Ended == {"done", "aborted", "panicked"}

\* The handler keeps a guard of server.rooms between two of its steps.
Guarding == {"full", "claim", "info_write", "kick_remove", "transfer"}

Where == {"connect", "full"} \cup Admitted \cup Joined \cup Departing \cup Ended

Ids == {client_id[c] : c \in Conn} \ {0}

MapUnguarded == \A c \in Conn : pc[c] \notin Guarding

Joining == {c \in Conn : pc[c] \in Admitted}

TypeOK ==
    /\ present \in BOOLEAN
    /\ clients \subseteq Nat \ {0}
    /\ host \in Nat
    /\ next_client_id \in Nat \ {0}
    /\ pc \in [Conn -> Where]
    /\ client_id \in [Conn -> Nat]
    /\ is_new_room \in [Conn -> BOOLEAN]
    /\ became_host \in [Conn -> BOOLEAN]
    /\ peer \in [Conn -> Nat]
    /\ closed \subseteq Conn
    /\ told \subseteq Nat \ {0}

\* Mutant of Init: the seed of the ids may be 0.
InitSeedZero ==
    /\ present = FALSE
    /\ clients = {}
    /\ host = 0
    /\ next_client_id = 0
    /\ pc = [c \in Conn |-> "connect"]
    /\ client_id = [c \in Conn |-> 0]
    /\ is_new_room = [c \in Conn |-> FALSE]
    /\ became_host = [c \in Conn |-> FALSE]
    /\ peer = [c \in Conn |-> 0]
    /\ closed = {}
    /\ told = {}

Init ==
    /\ present = FALSE
    /\ clients = {}
    /\ host = 0
    /\ next_client_id = FirstId
    /\ pc = [c \in Conn |-> "connect"]
    /\ client_id = [c \in Conn |-> 0]
    /\ is_new_room = [c \in Conn |-> FALSE]
    /\ became_host = [c \in Conn |-> FALSE]
    /\ peer = [c \in Conn |-> 0]
    /\ closed = {}
    /\ told = {}

Go(c, from, to) ==
    /\ pc[c] = from
    /\ pc' = [pc EXCEPT ![c] = to]

-----------------------------------------------------------------------------
(* Joining. *)

\* The first message is not a Join, a name is empty once sanitized, or the
\* connection is lost before it: the handler returns.
RefuseJoin(c) ==
    /\ Go(c, "connect", "done")
    /\ UNCHANGED <<room_vars, next_client_id, client_id, is_new_room,
                   became_host, peer, closed, told>>

\* Mutant of RoomFull: the limit is off by one.
RoomFullLate == present /\ Cardinality(clients) > MaxRoomSize

RoomFull == present /\ Cardinality(clients) >= MaxRoomSize

CheckCapacity(c) ==
    /\ IF RoomFull
       THEN Go(c, "connect", "full")
       ELSE /\ Cardinality(Joining) < MaxJoining
            /\ Go(c, "connect", "enter")
    /\ UNCHANGED <<room_vars, next_client_id, client_id, is_new_room,
                   became_host, peer, closed, told>>

\* The "room is full" error is written with the guard of the check still held;
\* whether it could be is ignored.
WriteFull(c) ==
    /\ Go(c, "full", "done")
    /\ UNCHANGED <<room_vars, next_client_id, client_id, is_new_room,
                   became_host, peer, closed, told>>

\* next_id, then rooms.entry(..), in one step: what is lost are entries that come
\* in another order than their ids. An id is a u64, too large to wrap.
EnterRoom(c) ==
    /\ MapUnguarded
    /\ Go(c, "enter", "register")
    /\ client_id' = [client_id EXCEPT ![c] = next_client_id]
    /\ next_client_id' = next_client_id + 1
    /\ is_new_room' = [is_new_room EXCEPT ![c] = ~present]
    /\ present' = TRUE
    /\ UNCHANGED <<clients, host, became_host, peer, closed, told>>

\* rooms.get(..).expect(..), then room.clients.insert.
Register(c) ==
    /\ present
    /\ Go(c, "register", "claim")
    /\ clients' = clients \cup {client_id[c]}
    /\ UNCHANGED <<present, host, next_client_id, client_id, is_new_room,
                   became_host, peer, closed, told>>

\* The room is gone: the expect panics, and the task ends.
RegisterPanics(c) ==
    /\ ~present
    /\ Go(c, "register", "panicked")
    /\ UNCHANGED <<room_vars, next_client_id, client_id, is_new_room,
                   became_host, peer, closed, told>>

\* The maker of the room stores itself as host; anybody else may only take a
\* role nobody holds (try_claim_host, a compare-and-swap from 0).
ClaimHost(c) ==
    /\ Go(c, "claim", "add")
    /\ host' = IF is_new_room[c] \/ host = 0 THEN client_id[c] ELSE host
    /\ became_host' = [became_host EXCEPT ![c] = is_new_room[c] \/ host = 0]
    /\ UNCHANGED <<present, clients, next_client_id, client_id, is_new_room,
                   peer, closed, told>>

\* AddClient is queued for the mix task (see RoomMix for the queue).
SendAddClient(c) ==
    /\ Go(c, "add", "joined")
    /\ UNCHANGED <<room_vars, next_client_id, client_id, is_new_room,
                   became_host, peer, closed, told>>

WriteJoined(c) ==
    /\ c \notin closed
    /\ Go(c, "joined", "info")
    /\ UNCHANGED <<room_vars, next_client_id, client_id, is_new_room,
                   became_host, peer, closed, told>>

\* Writing Joined or RoomInfo fails: `?` returns from handle_connection.
WriteFails(c) ==
    /\ c \in closed
    /\ Go(c, "joined", "aborted") \/ Go(c, "info_write", "aborted")
    /\ UNCHANGED <<room_vars, next_client_id, client_id, is_new_room,
                   became_host, peer, closed, told>>

\* The roster is built and then written under one guard; without the room
\* nothing is sent.
GetRoomInfo(c) ==
    /\ Go(c, "info", IF present THEN "info_write" ELSE "announce")
    /\ UNCHANGED <<room_vars, next_client_id, client_id, is_new_room,
                   became_host, peer, closed, told>>

WriteRoomInfo(c) ==
    /\ c \notin closed
    /\ Go(c, "info_write", "announce")
    /\ UNCHANGED <<room_vars, next_client_id, client_id, is_new_room,
                   became_host, peer, closed, told>>

\* YouAreHost to itself if the claim succeeded, ClientJoined to the others.
Announce(c) ==
    /\ Go(c, "announce", "serve")
    /\ told' = IF became_host[c] THEN told \cup {client_id[c]} ELSE told
    /\ UNCHANGED <<room_vars, next_client_id, client_id, is_new_room,
                   became_host, peer, closed>>

-----------------------------------------------------------------------------
(* Serving: the arms of handle_signaling that touch membership. Mute,      *)
(* ServerMute, BlockPeer and a rate-limited message change nothing here.   *)

\* A Kick was read; its target is any id given out so far, present or not. What
\* had arrived before the connection was lost is read after it, too.
ReadKick(c) ==
    /\ Go(c, "serve", "kick")
    /\ \E target \in Ids : peer' = [peer EXCEPT ![c] = target]
    /\ UNCHANGED <<room_vars, next_client_id, client_id, is_new_room,
                   became_host, closed, told>>

MayKick(c) == present /\ host = client_id[c] /\ peer[c] # client_id[c]

CheckKick(c) ==
    /\ IF MayKick(c)
       THEN Go(c, "kick", "kick_remove") /\ UNCHANGED peer
       ELSE Go(c, "kick", "serve") /\ peer' = [peer EXCEPT ![c] = 0]
    /\ UNCHANGED <<room_vars, next_client_id, client_id, is_new_room,
                   became_host, closed, told>>

\* Mutant of KickRemove: the connection of the kicked client is left open.
KickRemoveOnly(c) ==
    /\ Go(c, "kick_remove", "serve")
    /\ peer' = [peer EXCEPT ![c] = 0]
    /\ clients' = clients \ {peer[c]}
    /\ UNCHANGED <<present, host, next_client_id, client_id, is_new_room,
                   became_host, closed, told>>

\* clients.remove and, for a client that was there, RemoveClient to the mix
\* task. ClientLeft is broadcast whether or not the target was there.
KickRemove(c) ==
    /\ IF peer[c] \in clients
       THEN Go(c, "kick_remove", "kick_close") /\ UNCHANGED peer
       ELSE Go(c, "kick_remove", "serve") /\ peer' = [peer EXCEPT ![c] = 0]
    /\ clients' = clients \ {peer[c]}
    /\ UNCHANGED <<present, host, next_client_id, client_id, is_new_room,
                   became_host, closed, told>>

\* Kicked has been written on a new stream, which the kicked client had to
\* grant, or could not be: the connection is closed.
KickClose(c) ==
    /\ Go(c, "kick_close", "serve")
    /\ closed' = closed \cup {d \in Conn : client_id[d] = peer[c]}
    /\ peer' = [peer EXCEPT ![c] = 0]
    /\ UNCHANGED <<room_vars, next_client_id, client_id, is_new_room,
                   became_host, told>>

\* read_signal returns Leave.
Leave(c) ==
    /\ Go(c, "serve", "cleanup")
    /\ UNCHANGED <<room_vars, next_client_id, client_id, is_new_room,
                   became_host, peer, closed, told>>

\* Mutant of StreamClosed: an error of read_signal is logged and read again.
StreamClosedIgnored(c) ==
    /\ c \in closed
    /\ pc[c] = "serve"
    /\ UNCHANGED vars

\* read_signal fails.
StreamClosed(c) ==
    /\ c \in closed
    /\ Go(c, "serve", "cleanup")
    /\ UNCHANGED <<room_vars, next_client_id, client_id, is_new_room,
                   became_host, peer, closed, told>>

-----------------------------------------------------------------------------
(* Leaving. *)

\* Mutant of RemoveSelf: only a client that said Leave is removed.
RemoveSelfOnLeave(c) ==
    /\ Go(c, "cleanup", IF client_id[c] \in clients THEN "left" ELSE "done")
    /\ clients' = IF c \in closed THEN clients ELSE clients \ {client_id[c]}
    /\ UNCHANGED <<present, host, next_client_id, client_id, is_new_room,
                   became_host, peer, closed, told>>

\* A client that a kick has already removed skips the rest of the cleanup.
RemoveSelf(c) ==
    /\ Go(c, "cleanup", IF client_id[c] \in clients THEN "left" ELSE "done")
    /\ clients' = clients \ {client_id[c]}
    /\ UNCHANGED <<present, host, next_client_id, client_id, is_new_room,
                   became_host, peer, closed, told>>

\* The lowest id left in the room, 0 (no host) when nobody is.
LowestId == IF clients = {} THEN {0}
            ELSE {i \in clients : \A j \in clients : i <= j}

\* Mutant of FindSuccessor: only a client that said Leave hands the role over.
FindSuccessorOnLeave(c) ==
    /\ IF present /\ host = client_id[c] /\ c \notin closed
       THEN /\ Go(c, "left", "transfer")
            /\ \E i \in LowestId : peer' = [peer EXCEPT ![c] = i]
       ELSE Go(c, "left", "done") /\ UNCHANGED peer
    /\ UNCHANGED <<room_vars, next_client_id, client_id, is_new_room,
                   became_host, closed, told>>

\* transfer_host_from, up to the result of its scan.
FindSuccessor(c) ==
    /\ IF present /\ host = client_id[c]
       THEN /\ Go(c, "left", "transfer")
            /\ \E i \in LowestId : peer' = [peer EXCEPT ![c] = i]
       ELSE Go(c, "left", "done") /\ UNCHANGED peer
    /\ UNCHANGED <<room_vars, next_client_id, client_id, is_new_room,
                   became_host, closed, told>>

\* Mutant of HandOver: nobody tells the successor.
HandOverSilently(c) ==
    /\ Go(c, "transfer", "done")
    /\ host' = IF peer[c] = 0 THEN 0
               ELSE IF host = client_id[c] THEN peer[c] ELSE host
    /\ peer' = [peer EXCEPT ![c] = 0]
    /\ UNCHANGED <<present, clients, next_client_id, client_id, is_new_room,
                   became_host, closed, told>>

\* The rest of it: a plain store of 0 when nobody was left, else a
\* compare-and-swap; a successor still in the room is told (it is looked up
\* after the swap; whoever goes in between need not be).
HandOver(c) ==
    /\ Go(c, "transfer", "done")
    /\ host' = IF peer[c] = 0 THEN 0
               ELSE IF host = client_id[c] THEN peer[c] ELSE host
    /\ told' = IF peer[c] # 0 /\ host = client_id[c]
               THEN told \cup ({peer[c]} \cap clients) ELSE told
    /\ peer' = [peer EXCEPT ![c] = 0]
    /\ UNCHANGED <<present, clients, next_client_id, client_id, is_new_room,
                   became_host, closed>>

-----------------------------------------------------------------------------
(* The rest of the server, and the network. *)

\* Mutant of CollectEmptyRoom: a room whose host is set is kept.
CollectUnhostedRoom ==
    /\ MapUnguarded
    /\ present' = (present /\ (clients # {} \/ host # 0))
    /\ UNCHANGED <<clients, host, next_client_id, pc, client_id, is_new_room,
                   became_host, peer, closed, told>>

\* One tick of cleanup_loop: rooms.retain keeps a room that has clients.
CollectEmptyRoom ==
    /\ MapUnguarded
    /\ present' = (present /\ clients # {})
    /\ host' = IF clients = {} THEN 0 ELSE host
    /\ UNCHANGED <<clients, next_client_id, pc, client_id, is_new_room,
                   became_host, peer, closed, told>>

Disconnect(c) ==
    /\ pc[c] \notin Ended
    /\ closed' = closed \cup {c}
    /\ UNCHANGED <<room_vars, next_client_id, pc, client_id, is_new_room,
                   became_host, peer, told>>

-----------------------------------------------------------------------------
\* What the handler does, given that the locks it needs are free and that the
\* peers it writes to take what it writes.
Progress(c) ==
    \/ WriteFull(c) \/ EnterRoom(c)
    \/ Register(c) \/ RegisterPanics(c) \/ ClaimHost(c)
    \/ SendAddClient(c) \/ WriteJoined(c) \/ WriteFails(c)
    \/ GetRoomInfo(c) \/ WriteRoomInfo(c) \/ Announce(c)
    \/ CheckKick(c) \/ KickRemove(c) \/ KickClose(c)
    \/ StreamClosed(c) \/ RemoveSelf(c) \/ FindSuccessor(c) \/ HandOver(c)

\* What the client on the other side decides. Its Join leads to CheckCapacity.
ClientChoice(c) ==
    RefuseJoin(c) \/ CheckCapacity(c) \/ ReadKick(c) \/ Leave(c) \/ Disconnect(c)

Next ==
    \/ \E c \in Conn : Progress(c) \/ ClientChoice(c)
    \/ CollectEmptyRoom

Spec == Init /\ [][Next]_vars

\* The handler is at an await that its own client ends, which has to take what is
\* written. If the connection is closed the await ends by itself, with an error.
AwaitsClient(c) == pc[c] \in {"full", "joined", "info_write"} /\ c \notin closed

\* At one that the client it kicks ends, which has to grant a stream for Kicked
\* and to take it.
AwaitsKicked(c) ==
    pc[c] = "kick_close" /\ \E d \in Conn \ closed : client_id[d] = peer[c]

AwaitsPeer(c) == AwaitsClient(c) \/ AwaitsKicked(c)

\* A spawned task that can run is run by the executor, and the cleanup timer
\* fires again and again. Nothing is assumed of the clients: they need not send
\* a Join, nor take what they are sent. What a closed connection has brought is
\* finite, so that reading comes to its end; and retain is let in at last by a lock
\* that handlers take and release again and again.
Fairness ==
    /\ \A c \in Conn : WF_vars(Progress(c) /\ ~AwaitsPeer(c))
    /\ \A c \in Conn : SF_vars(StreamClosed(c))
    /\ SF_vars(CollectEmptyRoom)

FairSpec == Spec /\ Fairness

-----------------------------------------------------------------------------
(* Properties. *)

\* A client is in the roster only while its handler serves it, or after the
\* handler gave up on a failed write: once the cleanup at the end of
\* handle_connection has run, or before the client is registered, it is not.
MembersHaveHandlers ==
    \A i \in clients : \E c \in Conn :
        client_id[c] = i /\ pc[c] \in Joined \cup {"aborted"}

\* Nothing but a kick takes a served client out of the roster, and a client
\* so removed is disconnected, or its kicker is about to disconnect it: the
\* handler of a removed client does not serve it for ever.
RemovedMeansKicked ==
    \A c \in Conn : pc[c] \in Joined /\ client_id[c] \notin clients =>
        c \in closed \/ \E h \in Conn : pc[h] = "kick_close" /\ peer[h] = client_id[c]

\* A host that is in the roster and served has been sent YouAreHost, whichever
\* way it came by the role: its own claim, or a hand-over while it was joining.
HostIsTold ==
    \A c \in Conn :
        /\ pc[c] \in Serving \ {"announce"}
        /\ host = client_id[c] /\ client_id[c] \in clients
        => client_id[c] \in told

\* max_room_size is checked before a client is registered, so that joiners can
\* all pass the check for the last place. The roster is over the limit by at
\* most the number of joiners between check and registration, less one.
RoomSizeBound == Cardinality(clients) <= MaxRoomSize + MaxJoining - 1

\* A client whose connection is lost while it is served leaves the room, and its
\* handler returns, whatever other handlers wait for: unless it is kicking a
\* client that stays connected and never takes the message.
LostClientsLeave ==
    \A c \in Conn : []<>~AwaitsPeer(c) =>
        ((c \in closed /\ pc[c] \in Serving) ~>
         (pc[c] = "done" /\ client_id[c] \notin clients))

\* A room without clients does not stay: cleanup_loop drops it or a joiner
\* enters it. Only a guard of the map held over an await can keep it: it is
\* supposed that no peer makes the "room is full" answer or the first roster
\* wait for ever.
EmptyRoomsGo ==
    (\A c \in Conn : []<>~(pc[c] \in Guarding /\ AwaitsClient(c))) =>
        ((present /\ clients = {}) ~> (~present \/ clients # {}))

-----------------------------------------------------------------------------
(* What the documentation and the comments say, and the code does not do.  *)

\* server/src/main.rs:293, the message of the expect: "room was just created
\* or already exists".
RoomExistsAtRegister == \A c \in Conn : pc[c] # "panicked"

\* server/src/room.rs:84: "Uses CAS so only one concurrent joiner can win".
OneJoinerBecomesHost ==
    \A c, d \in Conn :
        (/\ became_host[c] /\ client_id[c] \in clients
         /\ became_host[d] /\ client_id[d] \in clients) => c = d

\* README.md:202: "All host transitions use compare-and-swap". A role that is held
\* passes to another client only from a departing holder: no swap from 0 or from
\* the departing id takes it from somebody else.
HostMovesByCas ==
    [][host # 0 /\ host' \notin {0, host} =>
         \E c \in Conn : client_id[c] = host /\ pc[c] = "transfer"]_vars

\* README.md:358: the server "rejects joins when a room has reached the
\* configured max size".
RoomWithinLimit == Cardinality(clients) <= MaxRoomSize

\* README.md:168: "live roster". A client whose connection is gone and whose
\* handler has returned is not in it.
LeftTheRoster == \A c \in Conn : pc[c] \in Ended => client_id[c] \notin clients

AtRest == \A c \in Conn :
    pc[c] \in {"connect", "done"} \/ (pc[c] = "serve" /\ c \notin closed)

\* README.md:198: "If the host disconnects, the server transfers the role to
\* the remaining client with the lowest ID".
HostIsPresent == AtRest /\ clients # {} /\ host # 0 => host \in clients

\* README.md:200: a newcomer to an emptied room is made host.
RoomHasHost == AtRest /\ clients # {} => host # 0
=============================================================================
