-------------------------------- MODULE Mixing --------------------------------
(***************************************************************************)
(* Who is heard: steps 4 and 5 of room_mix_loop. A tick loads the flags of *)
(* every client whose frame it has popped, and later, for each listener,   *)
(* the listener's block list. It holds a read guard of the room map, as    *)
(* the handlers do, so that Mute, ServerMute, BlockPeer, UnblockPeer and   *)
(* departures run between any two of its loads.                            *)
(*                                                                         *)
(* The talker is the client of MuteFlags: its flags change by all that     *)
(* goes on there. The others are listeners that block it and leave, and    *)
(* talk too, unmuted; the sum of the frames is the set of their senders.   *)
(***************************************************************************)
EXTENDS MuteFlags

CONSTANTS Talker, Other

ASSUME MixingConstants == Talker \notin Other

Client == Other \cup {Talker}

VARIABLES
    present,        \* room.clients
    blocked,        \* the others whose blocked_peers hold the talker
    tick,           \* where the mix task is
    voice,          \* whose frame was popped and is_voice_active
    client_frames,  \* the ids that client_frames has as active
    unmixed,        \* the listeners whose turn is to come in this tick
    mixes,          \* the sources of the frame mixed in this tick, {} for none
    was_set,        \* history: what silenced whom for whom during this tick
    was_clear,      \* history: what did not, at some moment of it
    promise         \* history: both flags as shown, if all was quiet when the
                    \* tick began and no command was given since

mix_vars == <<tick, voice, client_frames, unmixed, mixes>>
mixing_vars == <<present, blocked, mix_vars, was_set, was_clear, promise>>

Reason == (Kind \X {Talker} \X Other) \cup ({"blocked"} \X {Talker} \X Other)
          \cup ({"gone"} \X Client \X Client)

MixingTypeOK ==
    /\ TypeOK
    /\ present \subseteq Client /\ Talker \in present
    /\ blocked \subseteq Other
    /\ tick \in {"wait", "pop", "mix"}
    /\ voice \subseteq Client /\ client_frames \subseteq Client
    /\ unmixed \subseteq Client
    /\ mixes \in [Client -> SUBSET client_frames]
    /\ was_set \subseteq Reason /\ was_clear \subseteq Reason
    /\ promise \subseteq [Kind -> BOOLEAN]

MixingInit ==
    /\ Init
    /\ present = Client /\ blocked = {}
    /\ tick = "wait" /\ voice = {} /\ client_frames = {}
    /\ unmixed = {} /\ mixes = [d \in Client |-> {}]
    /\ was_set = {} /\ was_clear = {} /\ promise = {}

\* What keeps a source from a listener, in the present state.
Silencing ==
    ({k \in Kind : flags[k]} \X {Talker} \X Other)
    \cup ({"blocked"} \X {Talker} \X blocked)
    \cup {r \in {"gone"} \X Client \X Client : r[2] \notin present}

-----------------------------------------------------------------------------
(* The handlers, beside those of MuteFlags. *)

\* The BlockPeer and UnblockPeer arms, of a client that is in the room.
BlockPeer(d) ==
    /\ d \in present
    /\ blocked' = blocked \cup {d}
    /\ UNCHANGED <<present, mix_vars>>

UnblockPeer(d) ==
    /\ d \in present
    /\ blocked' = blocked \ {d}
    /\ UNCHANGED <<present, mix_vars>>

\* An other leaves or is kicked; the mix task learns of it later, or never.
Depart(d) ==
    /\ present' = present \ {d}
    /\ UNCHANGED <<blocked, mix_vars>>

-----------------------------------------------------------------------------
(* The tick. *)

Go(from, to) == tick = from /\ tick' = to

\* Mutant of Pushed: client_frames is not cleared.
PushedUncleared(frames) == client_frames \cup frames

\* client_frames is cleared, and each popped frame is pushed.
Pushed(frames) == frames

\* Mutant of LoadFlag: both flags must be set to silence the talker.
LoadFlagBoth(k, active) ==
    IF \A j \in Kind : flags[j] THEN active \ {Talker} ELSE active

\* One operand of `active`: a relaxed load, each at its own moment.
LoadFlag(k, active) == IF flags[k] THEN active \ {Talker} ELSE active

\* The frames are popped, the talker's with a voice or without. What is active
\* so far: the muted flag has been loaded; the others are unmuted, and active
\* if they are in the room.
PopFrames ==
    /\ Go("wait", "pop")
    /\ voice' \in {Client, Other}
    /\ client_frames' = Pushed(LoadFlag("self", voice' \cap present))
    /\ UNCHANGED <<present, blocked, unmixed, mixes>>

LoadServerMuted ==
    /\ Go("pop", "mix")
    /\ client_frames' = LoadFlag("server", client_frames)
    /\ unmixed' = Client
    /\ UNCHANGED <<present, blocked, voice, mixes>>

\* Everybody's active frame but the listener's own and those of who it blocks.
Sources(d) == client_frames \ ({d} \cup IF d \in blocked THEN {Talker} ELSE {})

\* The listener's turn, if it is in the room; without a source nothing is sent.
MixFor(d) ==
    /\ tick = "mix" /\ d \in unmixed
    /\ unmixed' = unmixed \ {d}
    /\ mixes' = [mixes EXCEPT ![d] = IF d \in present THEN Sources(d) ELSE {}]
    /\ UNCHANGED <<present, blocked, tick, voice, client_frames>>

EndTick ==
    /\ unmixed = {} /\ Go("mix", "wait")
    /\ voice' = {} /\ mixes' = [d \in Client |-> {}]
    /\ UNCHANGED <<present, blocked, client_frames, unmixed>>

-----------------------------------------------------------------------------
\* The history of the tick; forgotten between two ticks.
History ==
    IF tick' = "wait" THEN was_set' = {} /\ was_clear' = {} /\ promise' = {}
    ELSE LET begins == tick = "wait" IN
         /\ was_set' = Silencing' \cup IF begins THEN {} ELSE was_set
         /\ was_clear' = (Reason \ Silencing') \cup IF begins THEN {} ELSE was_clear
         /\ promise' = IF issued' # issued THEN {}
                       ELSE IF begins /\ Quiet /\ spoiled = {} THEN {shown}
                       ELSE promise

MixStep ==
    \/ \E d \in Other : BlockPeer(d) \/ UnblockPeer(d) \/ Depart(d)
    \/ PopFrames \/ LoadServerMuted
    \/ (\E d \in Client : MixFor(d)) \/ EndTick

MixingNext ==
    /\ \/ Next /\ UNCHANGED <<present, blocked, mix_vars>>
       \/ MixStep /\ UNCHANGED vars
    /\ History

MixingSpec == MixingInit /\ [][MixingNext]_<<vars, mixing_vars>>

-----------------------------------------------------------------------------
(* Properties. *)

Mixed == IF tick = "mix" THEN (Client \ unmixed) \cap present ELSE {}

\* A tick decides by flags, block lists and roster of its own time, however
\* they change while it runs. Whoever a listener hears has a voice in this tick
\* and was at some moment of it free of each thing that silences; whoever had a
\* voice and was free of all of them throughout is heard; nobody hears itself.
MixIsExact ==
    \A d \in Mixed :
        /\ d \notin mixes[d]
        /\ \A s \in mixes[d] :
              s \in voice /\ \A r \in Reason : r[2] = s /\ r[3] = d => r \in was_clear
        /\ \A s \in voice \ (mixes[d] \cup {d}) :
              \E r \in was_set : r[2] = s /\ r[3] = d

\* The flags on the talker's screen tell the truth about who hears it. When a
\* tick begins with nothing on its way, and no command is given while it runs,
\* a talker that is shown as muted or silenced is heard by nobody; unless
\* spoiled as in FlagsSettle.
SilentAsShown ==
    \A told \in promise, d \in Mixed :
        Talker \in mixes[d] => told = [k \in Kind |-> FALSE]
=============================================================================
