------------------------------- MODULE RoomMix -------------------------------
(***************************************************************************)
(* RoomMembership composed with the mix tasks: the maker of a room spawns  *)
(* room_mix_loop with the receiving end of a bounded channel; the handlers *)
(* queue AddClient and RemoveClient, and the task obeys them at its ticks. *)
(*                                                                         *)
(* A room that is dropped and made again is another room with another      *)
(* task, while the old task may live on. A room, its channel and its task  *)
(* are named by the connection that made the room. The channel is closed   *)
(* when its senders are gone: the one in the room, and the clone each      *)
(* handler takes when it registers and keeps until it returns.             *)
(***************************************************************************)
EXTENDS RoomMembership, Sequences

CONSTANT QueueCap  \* the capacity of the command channel (64)

ASSUME MixConstants == QueueCap \in Nat \ {0}

VARIABLES
    maker,        \* who made the room in server.rooms: one connection, or none
    mix_cmd_tx,   \* the room whose sender a handler has cloned: one, or none
    cmds,         \* the commands queued for each task
    mix_clients,  \* the keys of the task's own map of clients
    running       \* the tasks that have not returned

mix_vars == <<maker, mix_cmd_tx, cmds, mix_clients, running>>

AddClient(id) == [add |-> TRUE, client_id |-> id]
RemoveClient(id) == [add |-> FALSE, client_id |-> id]

MixTypeOK ==
    /\ maker \subseteq Conn /\ Cardinality(maker) = (IF present THEN 1 ELSE 0)
    /\ mix_cmd_tx \in [Conn -> SUBSET Conn]
    /\ running \subseteq Conn
    /\ \A m \in Conn :
          /\ Len(cmds[m]) <= QueueCap
          /\ \A k \in DOMAIN cmds[m] : cmds[m][k].client_id \in Ids
          /\ mix_clients[m] \subseteq Ids
          /\ m \notin running => mix_clients[m] = {}

MixInit ==
    /\ Init
    /\ maker = {}
    /\ mix_cmd_tx = [c \in Conn |-> {}]
    /\ cmds = [m \in Conn |-> <<>>]
    /\ mix_clients = [m \in Conn |-> {}]
    /\ running = {}

Queue(m, cmd) == cmds' = [cmds EXCEPT ![m] = Append(@, cmd)]

-----------------------------------------------------------------------------
(* What the handlers do, with the part that concerns the mix tasks.        *)

\* The vacant entry is filled with a room and its task is spawned.
EnterRoomAndSpawn(c) ==
    /\ EnterRoom(c)
    /\ maker' = IF present THEN maker ELSE {c}
    /\ running' = IF present THEN running ELSE running \cup {c}
    /\ UNCHANGED <<mix_cmd_tx, cmds, mix_clients>>

RegisterWithSender(c) ==
    /\ Register(c)
    /\ mix_cmd_tx' = [mix_cmd_tx EXCEPT ![c] = maker]
    /\ UNCHANGED <<maker, cmds, mix_clients, running>>

\* Mutant of QueueAdd: a full queue drops the command.
QueueAddOrDrop(c) ==
    /\ SendAddClient(c)
    /\ \E m \in mix_cmd_tx[c] :
          IF m \in running /\ Len(cmds[m]) < QueueCap
          THEN Queue(m, AddClient(client_id[c]))
          ELSE UNCHANGED cmds
    /\ UNCHANGED <<maker, mix_cmd_tx, mix_clients, running>>

\* send(AddClient).await: waits for a place in the queue, and fails when the
\* task has returned.
QueueAdd(c) ==
    /\ SendAddClient(c)
    /\ \E m \in mix_cmd_tx[c] :
          IF m \in running
          THEN Len(cmds[m]) < QueueCap /\ Queue(m, AddClient(client_id[c]))
          ELSE UNCHANGED cmds
    /\ UNCHANGED <<maker, mix_cmd_tx, mix_clients, running>>

\* Mutant of TryQueueRemove: a queue without a limit.
QueueRemoveAnyway(id) ==
    IF id \in clients
    THEN \E m \in maker : Queue(m, RemoveClient(id))
    ELSE UNCHANGED cmds

\* try_send(RemoveClient) to the room in the map, by whoever took the client
\* out of the roster: a full queue drops the command.
TryQueueRemove(id) ==
    IF id \in clients
    THEN \E m \in maker :
            IF m \in running /\ Len(cmds[m]) < QueueCap
            THEN Queue(m, RemoveClient(id))
            ELSE UNCHANGED cmds
    ELSE UNCHANGED cmds

KickFromMix(c) ==
    /\ KickRemove(c) /\ TryQueueRemove(peer[c])
    /\ UNCHANGED <<maker, mix_cmd_tx, mix_clients, running>>

RemoveSelfFromMix(c) ==
    /\ RemoveSelf(c) /\ TryQueueRemove(client_id[c])
    /\ UNCHANGED <<maker, mix_cmd_tx, mix_clients, running>>

\* A dropped room drops its sender.
CollectRoomAndSender ==
    /\ CollectEmptyRoom
    /\ maker' = IF present' THEN maker ELSE {}
    /\ UNCHANGED <<mix_cmd_tx, cmds, mix_clients, running>>

-----------------------------------------------------------------------------
(* The mix task. *)

\* The queue tells the task of id, and does not take it back: MixTick obeys the
\* commands in their order, so that the last one about an id is what counts.
Added(m, id) ==
    \E k \in DOMAIN cmds[m] :
        /\ cmds[m][k] = AddClient(id)
        /\ \A l \in DOMAIN cmds[m] : l > k => cmds[m][l] # RemoveClient(id)

Removed(m, id) == \E k \in DOMAIN cmds[m] : cmds[m][k] = RemoveClient(id)

\* What the task knows once it has emptied its queue.
Known(m) ==
    {id \in Ids : Added(m, id) \/ (id \in mix_clients[m] /\ ~Removed(m, id))}

Senders(c) == IF pc[c] \in Ended THEN {} ELSE mix_cmd_tx[c]

Disconnected(m) == m \notin maker /\ \A c \in Conn : m \notin Senders(c)

\* Two clients or more, and no room of this code in server.rooms.
RoomGone(m) == Cardinality(Known(m)) >= 2 /\ ~present

MixTick(m) ==
    /\ m \in running
    /\ cmds' = [cmds EXCEPT ![m] = <<>>]
    /\ IF Disconnected(m) \/ RoomGone(m)
       THEN /\ running' = running \ {m}
            /\ mix_clients' = [mix_clients EXCEPT ![m] = {}]
       ELSE /\ mix_clients' = [mix_clients EXCEPT ![m] = Known(m)]
            /\ UNCHANGED running
    /\ UNCHANGED <<vars, maker, mix_cmd_tx>>

-----------------------------------------------------------------------------
\* The steps of a handler that do not concern the mix tasks.
OtherProgress(c) ==
    \/ WriteFull(c) \/ RegisterPanics(c) \/ ClaimHost(c)
    \/ WriteJoined(c) \/ WriteFails(c) \/ GetRoomInfo(c) \/ WriteRoomInfo(c)
    \/ Announce(c) \/ CheckKick(c) \/ KickClose(c) \/ StreamClosed(c)
    \/ FindSuccessor(c) \/ HandOver(c)

MixProgress(c) ==
    \/ EnterRoomAndSpawn(c) \/ RegisterWithSender(c) \/ QueueAdd(c)
    \/ KickFromMix(c) \/ RemoveSelfFromMix(c)
    \/ OtherProgress(c) /\ UNCHANGED mix_vars

MixNext ==
    \/ \E c \in Conn : MixProgress(c) \/ (ClientChoice(c) /\ UNCHANGED mix_vars)
    \/ CollectRoomAndSender
    \/ \E m \in Conn : MixTick(m)

MixSpec == MixInit /\ [][MixNext]_<<vars, mix_vars>>

\* As in RoomMembership, and the interval of a mix task keeps ticking.
FairMixSpec ==
    /\ MixSpec
    /\ \A c \in Conn : WF_<<vars, mix_vars>>(MixProgress(c) /\ ~AwaitsPeer(c))
    /\ \A c \in Conn : SF_<<vars, mix_vars>>(StreamClosed(c) /\ UNCHANGED mix_vars)
    /\ SF_<<vars, mix_vars>>(CollectRoomAndSender)
    /\ \A m \in Conn : WF_<<vars, mix_vars>>(MixTick(m))

-----------------------------------------------------------------------------
(* Properties. *)

\* Whoever is in the roster and has been told so is mixed: the task of the
\* room in the map, not of an earlier one, runs and knows the client, or has
\* its AddClient in the queue; and it is the task the client's audio goes to.
MembersAreMixed ==
    \A c \in Conn :
        pc[c] \in Joined \ {"claim", "add"} /\ client_id[c] \in clients =>
            \E m \in maker \cap running :
                /\ mix_cmd_tx[c] = {m}
                /\ client_id[c] \in Known(m)

\* The task of a room that has been dropped returns, if no peer keeps a handler
\* waiting for ever: those that still hold its sender return, too.
MixTasksEnd ==
    (\A c \in Conn : []<>~AwaitsPeer(c)) =>
        \A m \in Conn : m \in running \ maker ~> m \notin running

\* README.md:284: "Solo room (one client)". When everything is at rest, a room
\* with one client is one to its mix task.
SoloIsSolo ==
    AtRest /\ (\A m \in Conn : cmds[m] = <<>>) /\ Cardinality(clients) = 1 =>
        \A m \in maker : Cardinality(mix_clients[m]) <= 1
=============================================================================
