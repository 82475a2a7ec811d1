-------------------------------- MODULE Roster --------------------------------
(***************************************************************************)
(* The roster as one client, Me, shows it: set_peers_from_info and         *)
(* handle_signal of the TUI, fed by what the handlers of the server push   *)
(* when the others join, leave, are kicked, and hand over the host role.   *)
(*                                                                         *)
(* A push is a task of its own that opens a stream of its own: the client  *)
(* reads the streams in the order they were opened, which is not always    *)
(* the order they were pushed in. The mute flags are in MuteFlags, the     *)
(* races inside a join or a hand-over in RoomMembership: here each of      *)
(* these changes the room in one step, and its announcements follow.       *)
(*                                                                         *)
(* A command names its peer by a word, the digits of an id or a display    *)
(* name; find_peer looks it up on the screen, and the server gets an id.   *)
(***************************************************************************)
EXTENDS Naturals, SequencesExt, FiniteSetsExt

CONSTANTS
    Id,          \* client ids
    Me,          \* the client that looks
    Name,        \* display names: a number is a word, and a word in Id is the
                 \* digits of that id, which a client may have for its name
    MaxKick,     \* bound: kicks
    MaxReorder   \* bound, 0 or 1: how often two pushes change places

ASSUME RosterConstants ==
    /\ Id \subseteq Nat \ {0}
    /\ Me \in Id
    /\ Name \in [Id -> Nat \ {0}]
    /\ MaxKick \in Nat /\ MaxReorder \in {0, 1}

VARIABLES
    clients,    \* room.clients
    host,       \* room.host, 0 for none
    pc,         \* where the handler of each client is
    claimed,    \* the clients that became host as they joined
    info,       \* the roster a departing host's handler has built and not yet sent
    left_due,   \* clients whose kicker has not broadcast ClientLeft yet
    kicks,
    pushes,     \* to Me, in the order they were made
    peers,      \* AppState::peers: how many entries there are for each client
    is_host,    \* AppState::is_host
    orders,     \* the targets of the Kick commands of Me, on their way
    spoiled     \* history: what has happened that the UI is not made for

server_vars == <<clients, host, pc, claimed, info, left_due, kicks>>
ui_vars == <<peers, is_host, orders>>
vars == <<server_vars, pushes, ui_vars, spoiled>>

Where == {"out", "joining", "announce", "in", "removed", "left", "info", "push", "done"}

RoomInfo == [clients : SUBSET Id, host : Id \cup {0}]

Pushes ==
    [type : {"ClientJoined", "ClientLeft"}, client_id : Id]
    \cup [type : {"YouAreHost"}]
    \cup [type : {"RoomInfo"}, info : RoomInfo]

Spoilers == {"joiner kicked", "read early", "roster stale"}

Empty == [clients |-> {}, host |-> 0]

TypeOK ==
    /\ clients \subseteq Id /\ host \in Id \cup {0}
    /\ pc \in [Id -> Where] /\ claimed \subseteq Id
    /\ info \in [Id -> RoomInfo]
    /\ left_due \subseteq Id /\ kicks \in 0..MaxKick
    /\ \A k \in DOMAIN pushes : pushes[k] \in Pushes
    /\ peers \in [Id -> 0..2] /\ is_host \in BOOLEAN
    /\ orders \in BoundedSeq(Id, MaxKick)
    /\ spoiled \subseteq Spoilers

Init ==
    /\ clients = {} /\ host = 0
    /\ pc = [i \in Id |-> "out"]
    /\ claimed = {}
    /\ info = [i \in Id |-> Empty]
    /\ left_due = {} /\ kicks = 0
    /\ pushes = <<>>
    /\ peers = [i \in Id |-> 0] /\ is_host = FALSE /\ orders = <<>>
    /\ spoiled = {}

Go(i, from, to) ==
    /\ pc[i] = from
    /\ pc' = [pc EXCEPT ![i] = to]

\* broadcast_signal reaches who is in the room; so does send_to_client.
Push(m) == pushes' = IF Me \in clients THEN Append(pushes, m) ELSE pushes

-----------------------------------------------------------------------------
(* The server. *)

\* Registered, and host if there is none.
Join(i) ==
    /\ Go(i, "out", "joining")
    /\ clients' = clients \cup {i}
    /\ host' = IF host = 0 THEN i ELSE host
    /\ claimed' = IF host = 0 THEN claimed \cup {i} ELSE claimed
    /\ UNCHANGED <<info, left_due, kicks, pushes, ui_vars, spoiled>>

Shown(room) == [i \in Id |-> IF i \in room.clients THEN 1 ELSE 0]

\* Joined and RoomInfo are written and, before any push is, read: for Me,
\* set_peers_from_info.
SendRoomInfo(i) ==
    /\ Go(i, "joining", "announce")
    /\ IF i = Me
       THEN /\ peers' = Shown([clients |-> clients, host |-> host])
            /\ is_host' = (host = Me)
       ELSE UNCHANGED <<peers, is_host>>
    /\ UNCHANGED <<orders, clients, host, claimed, info, left_due, kicks, pushes, spoiled>>

\* Joined or RoomInfo cannot be written: the connection is lost, or was closed
\* by a kick. The handler ends, without a word to anybody; a client that nobody
\* kicked stays in the room. (Me keeps its connection.)
GiveUp(i) ==
    /\ i # Me
    /\ Go(i, "joining", "done")
    /\ UNCHANGED <<clients, host, claimed, info, left_due, kicks, pushes, ui_vars,
                   spoiled>>

\* ClientJoined to the others; YouAreHost to a client that became host.
Announce(i) ==
    /\ Go(i, "announce", "in")
    /\ IF i # Me THEN Push([type |-> "ClientJoined", client_id |-> i])
       ELSE IF Me \in claimed THEN Push([type |-> "YouAreHost"])
       ELSE UNCHANGED pushes
    /\ UNCHANGED <<clients, host, claimed, info, left_due, kicks, ui_vars, spoiled>>

\* i is removed, if it is still there; ClientLeft is broadcast, in any case,
\* when Kicked has been written.
KickOut(i) ==
    /\ clients' = clients \ {i}
    /\ left_due' = left_due \cup {i}
    /\ spoiled' = IF pc[i] \in {"joining", "announce"}
                  THEN spoiled \cup {"joiner kicked"} ELSE spoiled
    /\ UNCHANGED <<host, pc, claimed, info, pushes, peers, is_host>>

\* Another client that is host kicks one that is, or was, in the room.
Kick(i) ==
    /\ kicks < MaxKick
    /\ host \notin {0, Me} /\ pc[host] = "in"
    /\ i \notin {host, Me} /\ pc[i] # "out"
    /\ kicks' = kicks + 1
    /\ KickOut(i)
    /\ UNCHANGED orders

\* Me's command arrives: refused unless Me is host, ignored if it is about Me.
HandleKick ==
    /\ pc[Me] = "in"
    /\ orders # <<>>
    /\ orders' = Tail(orders)
    /\ IF host = Me /\ Head(orders) # Me THEN KickOut(Head(orders))
       ELSE UNCHANGED <<host, pc, claimed, info, pushes, peers, is_host, clients,
                        left_due, spoiled>>
    /\ UNCHANGED kicks

AnnounceKick(i) ==
    /\ i \in left_due
    /\ left_due' = left_due \ {i}
    /\ Push([type |-> "ClientLeft", client_id |-> i])
    /\ UNCHANGED <<clients, host, pc, claimed, info, kicks, ui_vars, spoiled>>

\* The cleanup of a client other than Me; a kicked one has been removed.
Leave(i) ==
    /\ i # Me
    /\ Go(i, "in", IF i \in clients THEN "removed" ELSE "done")
    /\ clients' = clients \ {i}
    /\ UNCHANGED <<host, claimed, info, left_due, kicks, pushes, ui_vars, spoiled>>

AnnounceLeft(i) ==
    /\ Go(i, "removed", "left")
    /\ Push([type |-> "ClientLeft", client_id |-> i])
    /\ UNCHANGED <<clients, host, claimed, info, left_due, kicks, ui_vars, spoiled>>

\* transfer_host_from, and YouAreHost to the successor.
Transfer(i) ==
    /\ Go(i, "left", IF host = i /\ clients # {} THEN "info" ELSE "done")
    /\ host' = IF host # i THEN host ELSE IF clients = {} THEN 0 ELSE Min(clients)
    /\ IF host = i /\ host' = Me THEN Push([type |-> "YouAreHost"]) ELSE UNCHANGED pushes
    /\ UNCHANGED <<clients, claimed, info, left_due, kicks, ui_vars, spoiled>>

\* build_room_info.
BuildInfo(i) ==
    /\ Go(i, "info", "push")
    /\ info' = [info EXCEPT ![i] = [clients |-> clients, host |-> host]]
    /\ UNCHANGED <<clients, host, claimed, left_due, kicks, pushes, ui_vars, spoiled>>

PushInfo(i) ==
    /\ Go(i, "push", "done")
    /\ Push([type |-> "RoomInfo", info |-> info[i]])
    /\ info' = [info EXCEPT ![i] = Empty]
    /\ spoiled' = IF info[i] = [clients |-> clients, host |-> host] THEN spoiled
                  ELSE spoiled \cup {"roster stale"}
    /\ UNCHANGED <<clients, host, claimed, left_due, kicks, ui_vars>>

-----------------------------------------------------------------------------
(* The client. *)

\* Mutant of HandleSignal: one entry of the client that left is removed.
HandleRemovingOne(m) ==
    CASE m.type = "ClientJoined" ->
            peers' = [peers EXCEPT ![m.client_id] = @ + 1] /\ UNCHANGED is_host
      [] m.type = "ClientLeft" ->
            /\ peers' = [peers EXCEPT ![m.client_id] = IF @ = 0 THEN 0 ELSE @ - 1]
            /\ UNCHANGED is_host
      [] m.type = "YouAreHost" -> is_host' = TRUE /\ UNCHANGED peers
      [] m.type = "RoomInfo" ->
            /\ peers' = Shown(m.info)
            /\ is_host' = IF Me \in m.info.clients THEN m.info.host = Me ELSE is_host

\* Mutant of HandleSignal: a roster is added to the entries there are.
HandleAddingInfo(m) ==
    CASE m.type = "ClientJoined" ->
            peers' = [peers EXCEPT ![m.client_id] = @ + 1] /\ UNCHANGED is_host
      [] m.type = "ClientLeft" ->
            peers' = [peers EXCEPT ![m.client_id] = 0] /\ UNCHANGED is_host
      [] m.type = "YouAreHost" -> is_host' = TRUE /\ UNCHANGED peers
      [] m.type = "RoomInfo" ->
            /\ peers' = [i \in Id |-> peers[i] + Shown(m.info)[i]]
            /\ is_host' = IF Me \in m.info.clients THEN m.info.host = Me ELSE is_host

\* handle_signal: ClientJoined pushes an entry, ClientLeft removes every entry
\* of the client, RoomInfo replaces them all.
HandleSignal(m) ==
    CASE m.type = "ClientJoined" ->
            peers' = [peers EXCEPT ![m.client_id] = @ + 1] /\ UNCHANGED is_host
      [] m.type = "ClientLeft" ->
            peers' = [peers EXCEPT ![m.client_id] = 0] /\ UNCHANGED is_host
      [] m.type = "YouAreHost" -> is_host' = TRUE /\ UNCHANGED peers
      [] m.type = "RoomInfo" ->
            /\ peers' = Shown(m.info)
            /\ is_host' = IF Me \in m.info.clients THEN m.info.host = Me ELSE is_host

\* The listeners are started when the first roster has been read.
Read ==
    /\ pc[Me] \notin {"out", "joining"}
    /\ pushes # <<>>
    /\ HandleSignal(Head(pushes))
    /\ pushes' = Tail(pushes)
    /\ UNCHANGED <<orders, server_vars, spoiled>>

Nobody == 0

Named(w) == {i \in Id : peers[i] > 0 /\ Name[i] = w}

\* w is the display name of exactly one entry.
Unambiguous(w) == \E i \in Named(w) : Named(w) = {i} /\ peers[i] = 1

\* Mutant of FindPeer: names are looked up before ids.
FindPeerByNameFirst(w) ==
    IF Unambiguous(w) THEN Min(Named(w))
    ELSE IF w \in Id /\ peers[w] > 0 THEN w ELSE Nobody

\* find_peer: the id on the screen whose digits were typed, or else the only
\* entry of the name.
FindPeer(w) ==
    IF w \in Id /\ peers[w] > 0 THEN w
    ELSE IF Unambiguous(w) THEN Min(Named(w)) ELSE Nobody

Word == Id \cup {Name[i] : i \in Id}

\* process_command: /kick, refused on the spot if the screen shows no host flag
\* or the word names nobody.
TypeKick ==
    /\ pc[Me] \notin {"out", "joining"}
    /\ is_host /\ kicks < MaxKick
    /\ kicks' = kicks + 1
    /\ \E w \in Word : /\ FindPeer(w) # Nobody
                      /\ orders' = Append(orders, FindPeer(w))
    /\ UNCHANGED <<clients, host, pc, claimed, info, left_due, pushes, peers, is_host,
                   spoiled>>

\* Two pushes change places: their tasks run in the other order.
Overtake ==
    /\ "read early" \notin spoiled /\ MaxReorder > 0
    /\ \E k \in 1..(Len(pushes) - 1) :
          pushes' = [pushes EXCEPT ![k] = pushes[k + 1], ![k + 1] = pushes[k]]
    /\ spoiled' = spoiled \cup {"read early"}
    /\ UNCHANGED <<server_vars, ui_vars>>

Handler(i) ==
    \/ Join(i) \/ SendRoomInfo(i) \/ GiveUp(i) \/ Announce(i) \/ Kick(i)
    \/ AnnounceKick(i) \/ Leave(i) \/ AnnounceLeft(i) \/ Transfer(i)
    \/ BuildInfo(i) \/ PushInfo(i)

Next == (\E i \in Id : Handler(i)) \/ TypeKick \/ HandleKick \/ Read \/ Overtake

Spec == Init /\ [][Next]_vars

-----------------------------------------------------------------------------
(* Properties. *)

\* Nothing is under way, and Me has joined.
Quiet ==
    /\ pc[Me] = "in" /\ \A i \in Id : pc[i] \in {"out", "in", "done"}
    /\ pushes = <<>> /\ left_due = {} /\ orders = <<>>

OnScreen == {i \in Id : peers[i] > 0}

\* In the room without a handler, which gave up before it announced them.
Ghosts == {i \in clients : pc[i] = "done"}

\* When everything announced has been read, the screen shows whether Me is host
\* and who is in the room, in whatever order the others came, went and handed
\* over: nobody else, and everybody but ghosts, who are only shown where a roster
\* named them. Except that pushes overtook each other, a roster was out of date
\* when it was sent, or a client was kicked while it joined.
RosterSettles ==
    Quiet /\ spoiled = {} =>
        /\ OnScreen \subseteq clients /\ clients \ Ghosts \subseteq OnScreen
        /\ is_host = (host = Me)

\* A word aims at the client the user means. At rest, with the exceptions of
\* RosterSettles, what find_peer finds is in the room and has this id or is the
\* only one of this name, ghosts aside; a name that is the digits of another's id
\* never hides that id; and every client with a handler is found by its id,
\* whatever the names are.
CommandsAim ==
    Quiet /\ spoiled = {} =>
        /\ \A w \in Word : FindPeer(w) # Nobody =>
              /\ FindPeer(w) \in clients
              /\ \/ w = FindPeer(w)
                 \/ /\ Name[FindPeer(w)] = w
                    /\ \A i \in clients \ Ghosts : Name[i] = w => i = FindPeer(w)
        /\ \A i \in clients \ Ghosts : FindPeer(i) = i

\* README.md:192: "<peer> accepts a display name". A name that only one client
\* in the room has, and that is not the digits of an id, finds this client.
NamesAccepted ==
    Quiet /\ spoiled = {} =>
        \A i \in clients : {j \in clients : Name[j] = Name[i]} = {i} /\ Name[i] \notin Id
                          => FindPeer(Name[i]) = i

\* README.md:167: "live roster". It shows nobody who is not there.
ShownIsPresent == Quiet => OnScreen \subseteq clients

\* The same line. It shows everybody who is.
PresentIsShown == Quiet => clients \subseteq OnScreen

\* README.md:174: "The title bar shows your display name, room code, and
\* current `[HOST]`" flag.
HostIsShown == Quiet => (host = Me) = is_host
=============================================================================
