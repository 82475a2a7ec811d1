------------------------------ MODULE MuteFlags ------------------------------
(***************************************************************************)
(* The two mute flags of one client: its own and the host's. The TUI shows *)
(* both; those of the server decide whether the client is heard. /mute     *)
(* flips the client's own flag in the TUI at once and sends a command;     *)
(* /forcemute and /forceunmute are commands of the host, on another        *)
(* stream. handle_signaling stores the flag and pushes PeerMuted to        *)
(* everybody, the sender included, or refuses a command that comes too     *)
(* fast. A hand-over of the host role pushes a RoomInfo with both flags.   *)
(***************************************************************************)
EXTENDS Naturals, Sequences

CONSTANTS
    MaxToggle,   \* bound: /mute commands
    MaxForce,    \* bound: /forcemute and /forceunmute commands
    MaxRefuse,   \* bound: commands the server refuses
    MaxReorder,  \* bound, 0 or 1: how often two pushes change places
    MaxInfo      \* bound, 0 or 1: hand-overs of the host role

ASSUME MuteConstants ==
    /\ {MaxToggle, MaxForce, MaxRefuse} \subseteq Nat
    /\ MaxReorder \in {0, 1} /\ MaxInfo \in {0, 1}

Kind == {"self", "server"}

VARIABLES
    shown,     \* AppState::self_muted and server_muted
    flags,     \* ClientState::muted and server_muted
    commands,  \* Mute and ServerMute commands, each kind on its sender's stream
    due,       \* what a ServerMute has stored and not yet broadcast: at most one
    info,      \* a roster that is built and not sent: at most one
    pushes,    \* the flags in PeerMuted and RoomInfo pushes, in the order made
    issued, refused, infos,
    spoiled    \* history: what has happened that the UI is not made for

ui_vars == <<shown, issued>>
vars == <<ui_vars, flags, commands, due, info, pushes, refused, infos, spoiled>>

Budget == [self |-> MaxToggle, server |-> MaxForce]

Spoilers == {"refused", "read early", "roster stale"}

\* A PeerMuted tells one flag, a RoomInfo both.
Push == [{"self"} -> BOOLEAN] \cup [{"server"} -> BOOLEAN] \cup [Kind -> BOOLEAN]

TypeOK ==
    /\ shown \in [Kind -> BOOLEAN] /\ flags \in [Kind -> BOOLEAN]
    /\ \A k \in Kind : commands[k] \in Seq(BOOLEAN) /\ Len(commands[k]) <= Budget[k]
    /\ due \subseteq BOOLEAN /\ info \subseteq [Kind -> BOOLEAN]
    /\ Len(pushes) <= MaxToggle + MaxForce + MaxInfo
    /\ \A i \in DOMAIN pushes : pushes[i] \in Push
    /\ \A k \in Kind : issued[k] \in 0..Budget[k]
    /\ refused \in 0..MaxRefuse /\ infos \in 0..MaxInfo
    /\ spoiled \subseteq Spoilers

Unmuted == [k \in Kind |-> FALSE]

Init ==
    /\ shown = Unmuted /\ flags = Unmuted
    /\ commands = [k \in Kind |-> <<>>]
    /\ due = {} /\ info = {} /\ pushes = <<>>
    /\ issued = [k \in Kind |-> 0] /\ refused = 0 /\ infos = 0
    /\ spoiled = {}

-----------------------------------------------------------------------------
(* The two users. *)

Issue(k, muted) ==
    /\ issued[k] < Budget[k]
    /\ issued' = [issued EXCEPT ![k] = @ + 1]
    /\ commands' = [commands EXCEPT ![k] = Append(@, muted)]
    /\ UNCHANGED <<flags, due, info, pushes, refused, infos, spoiled>>

\* process_command: /mute.
ToggleMute ==
    /\ shown' = [shown EXCEPT !["self"] = ~@]
    /\ Issue("self", shown'["self"])

\* process_command of the host: /forcemute or /forceunmute, whatever it shows.
ForceMute ==
    /\ \E muted \in BOOLEAN : Issue("server", muted)
    /\ UNCHANGED shown

-----------------------------------------------------------------------------
(* The server. *)

Store(k) ==
    /\ commands[k] # <<>>
    /\ commands' = [commands EXCEPT ![k] = Tail(@)]
    /\ flags' = [flags EXCEPT ![k] = Head(commands[k])]
    /\ UNCHANGED <<ui_vars, info, refused, infos, spoiled>>

PeerMuted(k, muted) == [kind \in {k} |-> muted]

Tell(k, muted) == pushes' = Append(pushes, PeerMuted(k, muted))

\* Mutant of StoreMute: the sender is told twice.
StoreMuteTellTwice ==
    /\ Store("self")
    /\ pushes' = pushes \o [i \in 1..2 |-> PeerMuted("self", Head(commands["self"]))]
    /\ UNCHANGED due

\* Mutant of StoreMute: the sender is left out of the broadcast.
StoreMuteNoEcho == Store("self") /\ UNCHANGED <<pushes, due>>

\* The Mute arm of handle_signaling: stored and broadcast under one guard of the
\* room map, here in one step. What is read in between, a roster that is built or
\* the mix's load, finds the flag as it does after the broadcast.
StoreMute ==
    /\ Store("self")
    /\ Tell("self", Head(commands["self"]))
    /\ UNCHANGED due

\* The ServerMute arm, of the host's handler: the guard of the room is dropped
\* before the broadcast.
StoreServerMute ==
    /\ due = {}
    /\ Store("server")
    /\ due' = {Head(commands["server"])}
    /\ UNCHANGED pushes

PushServerMute ==
    /\ \E muted \in due : Tell("server", muted)
    /\ due' = {}
    /\ UNCHANGED <<ui_vars, flags, commands, info, refused, infos, spoiled>>

\* try_consume is false, or the sender of a ServerMute is not host (any more):
\* an Error is written, which the TUI only logs. A /mute has been shown already.
Refuse(k) ==
    /\ commands[k] # <<>> /\ (k = "server" => due = {})
    /\ refused < MaxRefuse
    /\ refused' = refused + 1
    /\ commands' = [commands EXCEPT ![k] = Tail(@)]
    /\ spoiled' = IF k = "self" THEN spoiled \cup {"refused"} ELSE spoiled
    /\ UNCHANGED <<ui_vars, flags, due, info, pushes, infos>>

\* build_room_info, and then the broadcast of it.
BuildInfo ==
    /\ infos < MaxInfo
    /\ infos' = infos + 1
    /\ info' = {flags}
    /\ UNCHANGED <<ui_vars, flags, commands, due, pushes, refused, spoiled>>

PushInfo ==
    /\ \E roster \in info :
          /\ pushes' = Append(pushes, roster)
          /\ spoiled' = IF roster = flags THEN spoiled ELSE spoiled \cup {"roster stale"}
    /\ info' = {}
    /\ UNCHANGED <<ui_vars, flags, commands, due, refused, infos>>

-----------------------------------------------------------------------------
\* handle_signal: PeerMuted about this client sets the flag it is about,
\* RoomInfo both.
After(push, screen) ==
    [k \in Kind |-> IF k \in DOMAIN push THEN push[k] ELSE screen[k]]

ReadPush ==
    /\ pushes # <<>>
    /\ pushes' = Tail(pushes)
    /\ shown' = After(Head(pushes), shown)
    /\ UNCHANGED <<issued, flags, commands, due, info, refused, infos, spoiled>>

\* Two pushes change places: their tasks run in the other order.
Overtake ==
    /\ MaxReorder > 0 /\ "read early" \notin spoiled
    /\ \E k \in 1..(Len(pushes) - 1) :
          pushes' = [pushes EXCEPT ![k] = pushes[k + 1], ![k + 1] = pushes[k]]
    /\ spoiled' = spoiled \cup {"read early"}
    /\ UNCHANGED <<ui_vars, flags, commands, due, info, refused, infos>>

Next ==
    \/ ToggleMute \/ ForceMute
    \/ StoreMute \/ StoreServerMute \/ PushServerMute \/ (\E k \in Kind : Refuse(k))
    \/ BuildInfo \/ PushInfo
    \/ ReadPush \/ Overtake

Spec == Init /\ [][Next]_vars

-----------------------------------------------------------------------------
(* Properties. *)

Quiet == commands = [k \in Kind |-> <<>>] /\ due = {} /\ info = {} /\ pushes = <<>>

\* When every command has been answered and every push read, the TUI shows
\* both flags as the server mixes by them, however the commands of the two
\* users, their echoes and a roster crossed on the way; unless a /mute was
\* refused, pushes overtook each other, or a roster was out of date when sent.
FlagsSettle == Quiet /\ spoiled = {} => shown = flags

\* README.md:174: "The title bar shows your display name, room code, and
\* current `[HOST]` / `[MUTED]` / `[SILENCED]` flags". A user who is shown as
\* muted is not heard.
ShownMutedIsMuted == Quiet /\ shown["self"] => flags["self"]
=============================================================================
