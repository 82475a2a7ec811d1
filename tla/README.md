# A TLA+ model of voicemcu

voicemcu is a voice server that mixes (an MCU) and its terminal client, in
Rust on tokio and QUIC. This directory holds TLA+ modules of its concurrent
core, TLC configurations that check them on small instances, and TLAPS proofs
for the parts where every value of the constants matters. `PROJECT.json` lists
the components, the runs, the lines of code each definition stands for, the
hazards and the theorems.

Paths below are relative to the repository's root.

## 1. Inventory

### Components and their state

| Component | Code | State | Operations |
|---|---|---|---|
| Server, rooms, membership | `server/src/main.rs:203-390`, `room.rs` | `rooms: DashMap<code, Room>`, `Room { clients, host, mix_cmd_tx }`, `next_client_id`; per handler its position, id, `is_new_room`, `became_host` | join, register, claim host, leave, cleanup, hand-over |
| Signaling | `main.rs:436-678` | flags and block list in `ClientState`, a token bucket per client | Mute, Kick, ServerMute, BlockPeer, UnblockPeer, Leave; pushes, each a task and a stream of its own |
| Room garbage collection | `main.rs:899-912` | none of its own | drops rooms without clients |
| Mix task, one per room | `main.rs:686-893` | `mix_clients`: per client a jitter buffer, codecs, `audio_rx`, `out_sequence`, `plc_streak` | AddClient, RemoveClient, a tick of 20 ms: drain, pop or conceal, choose sources, mix, send |
| Datagram receiver, one per client | `main.rs:398-430` | none; feeds a channel of 256 frames | `try_send`, drops when full |
| Jitter buffer | `common/src/jitter.rs` | slots, `read_seq`, `initialized` | insert, pop, advance_expected, reset |
| Connection limiter | `main.rs:36-64, 117-153` | a table of token buckets by address, time of the last cleanup | accept or refuse, drop stale buckets |
| Server program | `main.rs:67-115, 155-176`, `config.rs`, `tls.rs` | the configuration; certificate and key, on disk and in memory | load and check, set up TLS, serve, shut down |
| Client capture | `client/src/main.rs:315-461` | sequence number, encoder, failure streak | one frame per tick; a test tone without devices |
| Client playout | `client/src/main.rs:467-556` | jitter buffer, decoder, failure streak | receive, play or conceal, reset |
| Audio devices | `client/src/audio_io.rs` | two ring buffers, each callback's resampler with ratio and position | capture callback, playback callback |
| Opus encoder | `common/src/codec.rs:25-53` | the library's bit rate | encode, with a lower rate for a frame that is too large |
| Client TUI | `client/src/tui.rs` | `AppState`: roster, own flags, events, input | handle_signal, process_command, find_peer |
| Client tasks | `client/src/main.rs:31-309` | bounded channels between TUI, command writer and listeners; the terminal's modes | main from options to exit, three tasks |
| Wire protocol, drawing | `common/src/protocol.rs`, `tui.rs` | none | sequential helpers |

### How they interact

- Handlers (one tokio task per connection) share the room map, the DashMap of
  clients and the atomic `host`. `cleanup_loop` writes the map; the mix task
  reads it.
- A guard of `server.rooms` is a shared lock. `entry` and `retain` need it
  exclusively and wait while any handler holds one; a handler holds one over an
  `.await` in two places (the "room is full" answer and the first roster).
- Handlers tell the mix task about joins with `send().await` and about
  departures with `try_send`, through a channel of 64. The channel closes when
  the room and every handler that cloned the sender are gone.
- Audio reaches the mix task through a channel of 256 frames per client, and
  leaves it as numbered datagrams, one per listener and tick with a source.
- The server pushes each event to each client on a new stream, from a new
  task. Nothing orders two pushes to one client.
- In the client, the TUI hands commands to a writer task and takes events from
  two listeners, each through a channel of 64 whose sender waits; a handler of
  the server does not read while it writes an answer.
- The audio callbacks run on the device's threads and share only a ring with
  their task; both ends go on when it is full or empty.
- A start of the server knows of earlier ones by the certificate files alone.

### What is hard

Overlapping joins, departures and kicks around a few unsynchronised steps; a
room that is dropped and made again; locks held over awaits; a command queue at
its limit; queues that wait for each other in a circle; two clocks that are not
in phase; frames lost, late, overtaken or corrupt; sequence numbers that wrap;
fractions of a sample carried from chunk to chunk; buckets that vanish and
reappear; flags that change between the loads of one tick; notifications
applied out of order; a stop between two files. `PROJECT.json`, "hazards", lists each one
at the line where it bites.

### What makes each component correct

- Membership: whoever left is out of the roster, whoever was removed is
  disconnected, the size is limited, the host is one of those present, and
  knows it; every handler, room and task ends.
- Mix task: it mixes exactly the members of its own room.
- Jitter buffer: a sliding window, read in order, each frame once.
- Upstream and downstream: reading does not overtake the network for good;
  after any disturbance audio is heard again.
- Limiter: burst plus rate times time, whatever the table forgets.
- Mixing: who is heard is decided by the flags, block lists and roster of the
  tick, and the talker's screen tells the truth about it.
- TUI: what is shown agrees with the server when nothing is under way, and a
  command aims at whom its word means.
- Devices and encoder: sound stays in order, a fed callback leaves no gap, a
  retry leaves no trace.
- Client tasks: told to quit, the program ends and gives the terminal back.
- Server program: no unchecked setting is used, the fingerprint that clients
  have pinned stays, and shutdown is announced to all who are there.

## 2. Modules

| Module | Models | Notes |
|---|---|---|
| `RoomMembership` | `handle_connection`, Kick and Leave, `Room`, `cleanup_loop` | one room, one process per connection |
| `HostRole` | the same, with a record of the steps that leave the role with nobody | extends `RoomMembership` |
| `RoomMix` | `RoomMembership` with the mix tasks and their queues | extends `RoomMembership`; each concerned action is the membership action conjoined with its effect on the queue |
| `RoomProofs` | | theorems about the three |
| `JitterBuffer` | `jitter.rs` | pure operators on a record |
| `JitterWindow` | what a jitter buffer promises | abstract |
| `JitterStream` | a stream through a buffer with any reader | refines `JitterWindow` |
| `Resampler` | `Resampler::process`, the count the playback callback pops | pure operators, exact ratios |
| `Encoder` | `OpusEncoder::encode` | pure operators: the outcomes of one call |
| `Playout` | both callbacks, both rings, capture and playout loop at their ends, test tone | extends `JitterStream`, `Resampler`, `Encoder` |
| `PlayoutProofs` | | theorems about it, and about the jitter buffer |
| `Upstream` | capture, datagrams, channel, steps 2-4 of the tick for one client | uses `JitterBuffer` |
| `UpstreamProofs` | | theorems about it |
| `Downstream` | numbering and sending of the mix, `recv_decode_loop` | uses `JitterBuffer` |
| `DownstreamProofs` | | theorems about it |
| `MuteFlags` | Mute and ServerMute, pushes, the flags of one TUI | |
| `Mixing` | steps 4 and 5 of the tick, load by load; BlockPeer, UnblockPeer | extends `MuteFlags` |
| `MixingProofs` | | theorems about it and about `MuteFlags` |
| `Roster` | pushes, the roster and host flag of one TUI, `find_peer`, `/kick` | server side in coarser steps |
| `RosterProofs` | | theorems about it |
| `TokenBucket` | `TokenBucket` | pure operators |
| `ConnectLimit` | what the limiter promises | abstract |
| `AcceptLoop` | `accept_loop` | refines `ConnectLimit` |
| `ClientSession` | the client's `main`, TUI loop, three tasks, and the handler they talk to | |
| `ClientSessionProofs` | | theorems about it |
| `ServerLife` | configuration, `setup_tls`, shutdown, over starts and crashes; the client's pin | |
| `ServerProofs` | | theorems about it and about `AcceptLoop` |
| `MCRoomMembership`, `MCRoomMix`, `MCRoster`, `MCPlayout`, `MCServerLife` | | instances for TLC |

### Reading the models

*RoomMembership.* `pc[c]` says where the handler of connection `c` stands; a
step of the model ends where the task can be descheduled with its effect
visible, at an `.await` or between two operations on shared maps and atomics.
States in `Guarding` hold a guard of the room map, so `EnterRoom` and
`CollectEmptyRoom` need `MapUnguarded`. `Register` and `ClaimHost` are two
steps because `clients.insert` and the store of `host` are two operations;
`FindSuccessor` and `HandOver` split `transfer_host_from` between its scan and
its store. `Disconnect` may happen at any time. A failed write of `Joined` or
`RoomInfo` leaves through `?` to "aborted", with no cleanup, as in the code;
the failed `expect` leaves to "panicked". `AwaitsClient` and `AwaitsKicked` are the
awaits that a peer ends: the writes to the handler's own client, and in a kick
the stream and the notice to the kicked one. In three steps the model is coarser
than the code: `EnterRoom` takes the id and the entry at once, `HandOver` swaps and
tells at once, and a handler that has had its target removed goes on in one step
from `Kicked` to the close.

*HostRole.* `misplaced` is history: one of four steps has been taken that give
the role to, or leave it with, nobody who is there. Section 5 has configurations
that show what comes of them.

*RoomMix.* A room, its channel and its task are named by the connection that
made the room, so that a dropped room and its successor are told apart. A tick
empties the queue (`Known`: of the commands about a client the last one counts) and returns when the channel
is closed or, with two known clients, the code is no longer in the map. That
making the codecs for an AddClient can fail is left out.

*JitterBuffer.* A frame is its true number; `Wire` is what the header carries.
`SeqSpace` stands for 2^32 and `Depth` divides it, as the default depth of 8
does. `JitterWrap.cfg` (section 5) shows what happens when it does not. A stream
is at most half as long as there are numbers, since the buffer tells late from
early by half the range: in the code that is 2^31 frames, more than a year.

*Upstream.* `Tick` drains the whole channel and then takes exactly one branch
of the code, in its order: solo, heard, unprimed, reset, wait, conceal.
`DrainedTo[k]` is the buffer after `k` frames of the channel. The clocks of sender and mix task drift freely, up to `MaxFlight` frames.

*Downstream.* Both ends tick at one rate and take turns. From the third frame in a
row that does not decode, each may bring a new decoder and buffer, or find that
none can be made and leave both; the streak saturates at `StreakMax`. `Happens`
counts each disturbance against its bound: a silent tick, a lost frame, a corrupt
one, a rise of the delay of the route.

*AcceptLoop.* Tokens are integer parts of a token and time is in ticks. `granted`
and `elapsed` are history: `OpenWindow` starts a window at any time.

*Roster, MuteFlags.* `pushes` is the sequence of pushes under way to one client;
`Overtake` swaps two of them. `spoiled` is history: it records the events after
which the UI is not made to agree, and the properties excuse only those, and in
`Roster` the ghosts below. In `MuteFlags` a push is the function of the flags it tells; `After` applies it. In
`Roster`, `FindPeer` looks a word up the way `find_peer` does, first as an id,
then as a name that is listed once; a name may be the digits of an id. `GiveUp` is
the failed write of `RoomMembership`, by a lost connection or a kick: the client
it leaves in the room, unannounced and without a handler, is one of `Ghosts`.

*Mixing.* A tick makes three kinds of loads, each an action: with the pop the
muted flag and the roster, then the server_muted flag, then for each listener
its block list. Every handler's step may come between two. `was_set` and
`was_clear` are history: what silenced whom for whom at some moment of this
tick, and what at some moment did not. `promise` is what the talker's screen
said when the tick began with nothing on its way.

*Playout.* A sample is the moment of the sound it was taken at, so that
interpolation gives numbers in between; `rate` is a ratio of two small numbers
and `pos` counts in parts of a sample. A behaviour follows one of the halves
(playback, capture, test tone), which share no state. `Encodings` is the set of
outcomes of one `encode`: a packet or an error, and the rate it leaves behind.
After `ReplaceBuffer` the stream may go back, since a new buffer starts with
whatever frame arrives; a sample's value then also counts the replacements, and
`Moment` is the moment without them.

*ClientSession.* `pc` is where `main` stands; "send" is inside `handle_key`,
waiting for a place in the command channel. Each task is a variable that holds
its position or the message it tries to hand on. What a message says matters
only where it ends something (Leave, Kicked, Disconnected). The handler at the
server reads, answers, or is held up by others ("held"): by a guard, or in a kick by
the kicked client. So may its cleanup be ("leaving").

*ServerLife.* A file is absent, partial, or holds a certificate or a key of a
numbered pair; `fs::write` is two steps, emptying and filling, and `Crash` may
come at any step. A setting is in range or not. `pinned` is history: which pair
was announced for two paths, until one of the files is removed or is written by
a run that shares only one of them.

## 3. Runs

Every run finishes with `tlc -workers 2 -config <cfg> <module>`.

| Run | Question | Instance | Distinct states |
|---|---|---|---|
| room_membership | ghosts, removed clients, a host that was not told, the limit, a room without its host | 3 connections, room for 1, two past the check at once, symmetry | 337 000 |
| room_mix | members known to the right mix task | 3 connections, room for 2, joins one at a time, queue of 1 | 629 000 |
| room_liveness | lost clients leave, empty rooms and old mix tasks end | 2 connections, room for 1, both past the check at once, queue of 1, fairness | 91 000 |
| playout | the ring of slots is a sliding window; sound goes back only at a new buffer, without gaps, at its bit rate | 3 slots, 12 numbers, 5 frames across the wrap, ring of 2 frames, three ratios | 528 000 |
| upstream | reading never overtakes an ordered stream; heard again | 2 slots, channel of 2, one loss, one overtaking, fairness | 78 000 |
| downstream | playout keeps step; heard again | 2 slots, 2 losses, 4 corrupt frames, one pause, one delay, fairness | 60 000 |
| accept_loop | burst plus rate; cleanup cannot be observed | 2 addresses, 3 tokens, 9 ticks | 827 000 |
| roster | roster and host flag settle; commands aim at whom they mean | 3 clients, one kick, one overtaking, names that are digits or alike | 610 000 |
| mixing | flags settle; who is heard is decided within the tick; the screen is true | 2 + 1 commands, a refusal, a roster, one overtaking, one other client | 1.4 million |
| client_session | quit, disconnect and handler come to their ends; the terminal is given back | every queue of 1, 6 commands, one push and a kick, fairness | 235 000 |
| server_life | pins stay, settings are checked, shutdown reaches those who stay | 4 starts in 7 ways, 3 files, 2 clients, one file removed, a crash at any step | 1.0 million |
| downstream_pause | one silent tick silences a listener for good | one pause, nothing else | violation |

*Bounds.* The races of membership need at most three parties: a departing host,
its successor, and a newcomer; or a maker, a joiner and a kicker. Three
connections cover each, and 3 connections with a queue of one place reach every
order of commands the queue can hold back. `MaxJoining` bounds how many
connections are between the capacity check and the roster, which is how far the
capacity can be missed: with a room for one and two joiners the roster does reach
two, while the third connection is still to come. The same properties hold with
room for two and all three joining at once (1.9 million states, not among the
runs); the theorems have no such bound on the values. In `RoleIsHeld` none of the
four steps is excused in vain: without any one of them the run finds the room
without its host. A jitter
buffer's behaviour depends on the distance of numbers and on their remainders:
four slots, a range four times as wide and a stream across the wrap exercise
late, ahead, overrun and stale frames. In the audio models the depth of two and
thresholds of three keep every branch reachable: each is longer than the
number of disturbances that must pass under it, or shorter where they must
reach it (four corrupt frames against a threshold of three). MaxNow is nine ticks
against six for a bucket to fill and five between cleanups: a bucket can outlive
one cleanup and fill up before the next, or be dropped and made anew. In `Playout` the ratios are slower than, faster
than and equal to 48 kHz, and a frame of two samples is shorter than a device's
buffer can ask for: the position takes every fraction, and the ring overflows
and runs dry. `ClientSession` has one place in each queue, which is the least
that lets a message wait, and enough commands to fill all of them. In
`ServerLife` four starts allow one run to announce a pair, one to be stopped
inside `setup_tls`, one to share a file, and one to come back. `Mixing` has a
single other client: listeners decide apart from each other, and the theorem
has any number.

*Fairness.* Weak fairness of a handler's own steps and of a mix task's tick: a
spawned task that can run is run by the tokio executor, and intervals tick for
ever. Not of the steps that end an await on a peer (`AwaitsPeer`): a client need
not take what is written to it, nor grant a stream to its kicker. So
`LostClientsLeave` and `MixTasksEnd` suppose of each handler that it is not kept at
such an await for good, and `EmptyRoomsGo` that none is that holds a guard of the
room map; without these hypotheses `LostClientsLeave` and `EmptyRoomsGo` are
violated, by a kicked client that grants no stream and by a refused one that
does not take "room is full". Two fairness conditions are
strong. What a closed connection has brought is finite, so that reading it comes
to its end (`StreamClosed`). And `retain` is let in at last by a lock that handlers
take and release again and again (`CollectEmptyRoom`); the timer of
`cleanup_loop` fires again and again. Weak fairness of the
receive task when a datagram is there. None is assumed of users, of the network
losing or overtaking, or of other clients. In `Upstream` and `Downstream`
the bounds on loss make the network behave in the end; `TalkerHeardAgain`
supposes a room that stays multi-client, `SteadyListenerHears` a talker without
pauses. In `ClientSession`, weak fairness of `main` and of each task, as above,
and of the close of a connection whose handler has ended. Nothing is assumed of
the user, nor of the network, nor of the others that hold up the handler
(`ServerGoesOn`, `ServerCleanup`): `QuitEnds` and `ServerNotices` suppose that they do
not for good (`HeldUp`), `DisconnectEnds` needs no such hypothesis. A queue that is
full for ever is not unfair.

*Deadlock* is checked except in `Roster` and `Mixing`, where everybody may have
left or every command been given, and in `ClientSession` and `ServerLife`, where
the program ends.

## 4. Proofs

Eight modules of theorems. They hold for every value of the constants, from the
named assumptions on them only (`RoomConstants`: a finite set of connections,
positive capacity, bound on joiners and first id; `BucketConstants` and
`AcceptConstants`: a positive rate and a burst of at least one token, as
`ServerConfig::validate` requires; `MuteConstants` and `MixingConstants`: bounds
that are numbers, a talker apart from the others; `RosterConstants`: any ids but
0, any names; those of `JitterBuffer`, `JitterStream`, `Resampler`, `Playout`,
`Upstream` and `Downstream`: a positive depth, frame, ring, ratio and threshold, and a
stream no longer than half the sequence numbers; `ClientSession`: queues with a
place; `ServerConstants`: options and file name settings that exist, and files).

Every safety invariant and action property of section 3 is a theorem;
`InOrderNeverLate` is one for constants that are `Ample`, which is explained below.

*Membership.* `TypeCorrect` carries `IdsIssued` with it: `next_id` hands out each
id once, all lie below `next_client_id`, and a handler has its own from the
entry on. Without it `RemovedMeansKicked` is not inductive: one handler's
cleanup could remove another's entry. With it, `MembersHaveHandlers` and
`RemovedMeansKicked` are each kept by every action (`MembersStep`,
`RemovedStep`). For `RoomSizeBound` the invariant is stronger: `SizeInv` counts
the roster together with the joiners past the check, so that an admission takes
the place a later registration fills.

`RoleStaysHeld` is about `HostRole`, where the four steps that misplace the role are
on record. `RoleInv` says what holds while none has been taken. A host that is set
is in the roster, unless its handler has left and is about to hand over
(`HostHeld`); while the role is free, everybody in the roster is about to claim it
(`RoleFree`); and a dropped room has neither clients nor a host, and is not dropped
under a claim or a hand-over (`RoomKept`). Each handler's step leaves the role alone (`RoleUntouched`), or is one of
claim, departure, kick and hand-over (`RoleMoves`).

`HostsAreTold` needs to look back to before a client is served: `WillBeTold` says
that a registered client with the role has been told by a hand-over, or has
claimed the role itself and carries `became_host` to the step that tells it.
Two more facts keep it inductive: the host, the roster and the successors that
hand-overs have found are ids that were issued (`IssuedSoFar`), and a client
that is not registered yet is none of them (`NotYetChosen`).

*Mix tasks.* `MixImplementsRoom`: every step of `RoomMix` is one of
`RoomMembership` or leaves the room alone, so that the theorems about the room
hold beside the mix tasks. `MembersAreMixed` is about the room in the map, its
maker and the maker's task. Its invariant says that this task runs (`MakerInv`),
that a member's handler holds the sender of this room and of no dropped one
(`SenderInv`), and that whoever has queued its AddClient is in what the task will
know once it has emptied its queue (`KnownInv`). `QueueInv` adds that queues and
maps of tasks hold only ids that were issued: a RemoveClient is never about a
client yet to come.

*Limiter.* `WindowBounded` rests on a stronger fact: what was granted in the
window and what the bucket holds now are together at most a burst plus what has
flowed in. It needs that a bucket dropped by the cleanup was full, which is what
`Stale` tests. `CleanupUnobservable` maps every step of `AcceptLoop` to a step or
a stutter of `ConnectLimit`, in which there is no table: `Level` gives an
address that is not in the table a full bucket.

*Mute flags.* `FlagsAgree` rests on `LastWord`: the last push under way that
tells a flag, or the screen if there is none, agrees with the server. For the
client's own flag it holds once no command is under way (`OwnFlag`), for the
host's once no broadcast is due (`HostsFlag`). The lemmas say what appending a
push, reading one, and building a roster do to the last word. A step of `Mixing`
is one of `MuteFlags` or touches no flag, so `FlagsAgreeMixing` follows.

*Mixing.* `MixExact` follows the loads of a tick: after each, what has been
loaded accounts for who is active (`ActiveIsExact`, over the kinds of reasons
`Loaded` names) and for what each listener was given (`MixedIsExact`). Steps of
handlers only add to the history (`BesideStep`). `MixingTypeCorrect` needs an
account of every command and its answers: what was issued is streamed, due,
pushed or read (`Counted`, `Balanced`), which bounds the queues. `ShownIsTrue`
uses that a promise is made only when nothing is on its way (`Quieted`), and
that from then on a handler that silences the talker is on record
(`Silenced`).

*Jitter buffer.* `StreamInv` says what a slot may hold: a frame that has arrived,
of the slot's own index, below the end of the window; and that the reader is at a
frame of the stream or at its end. Frames behind the window may still sit in
their slots: that reading never returns one of them is what
`StreamIsWindow` shows, step by step against `JitterWindow`. It supposes
`SlotsFit`: the depth divides the range of sequence numbers, as the client's 8
does, or the stream does not wrap. Without it two frames of one window can have
one slot: `JitterWrap.cfg` is the counterexample. `SlotsAreConsistent` does not
need it.

*Playout.* `PositionBounded` is arithmetic: the step that leaves a chunk is the
first at or behind its end, so that the position stays below one step, for any
ratio. `NeededCovers` says that the samples the callback asks for give at least
the output it wants, whatever the position; with it, `NoGap` looks at one buffer
at a time. `RateIsKept` holds by the outcomes of one `encode` (`EncodingKeeps`)
and by the new encoder after a streak of failures. `SoundKeepsOrder` follows a
sample from end to end, its value counting the replacements of the jitter buffer
before its moment, since a new buffer may start with an older frame: the ring is in order, after all that was heard and
before all that can come (`OrderInv`); what `process` makes of a chunk in order
is in order, and begins no earlier than the sample it has kept from the chunk
before.

*Upstream.* `InOrderIsNeverLate` counts in ages: how many frames ago a number was
sent (`Age`), which has no wrap as long as nothing that matters is older than the
range. `UpInv` says four things of a stream that nothing has overtaken. The frames
on the way are in order, with no more missing than were lost (`InOrder`). Reading
is not ahead of the first of them, nor behind it by more than the window and the
losses (`ReaderBehind`). What sits in a slot is older than all of them
(`SlotBehind`). And since it was sent, its slot has been sent nothing but frames
that were lost or are still on the way (`Fresh`). The last is why a frame left in
its slot never comes to look new when the numbers wrap: each turn of the numbers
brings its slot a successor, and one turn goes by for each frame lost or on the
way. That reading stays behind is kept by what the tick does when the buffer has
no frame: it waits if the channel was empty, and otherwise what was drained puts
reading one frame behind what is still to come (`DrainKeeps`). The drain and the
loop of pops are recursive functions; what holds after each of their rounds is
shown by the least round after which it would not (`Rounds`), and that they are
defined by the prefixes that are (`Loop`).

`Ample` is what the sequence numbers must suffice for: `2 * Depth - 1` numbers,
among which every slot occurs whatever the wrap cuts short, for each frame that
is on the way or was ever lost; and half the range for the window, the drift and
the losses. With 2^32 numbers and the depth of 32 that `validate` allows at most,
that is some 68 million frames lost in one stream, two weeks of sound. The run
has fewer numbers than `Ample` asks for, eight, and finds nothing late either;
`UpstreamSpiral.cfg`, with 16, is an instance of it.

*Downstream.* `NeverLateInStep` needs that the two ends take turns: one frame
more than the delay of the route is on the way, and only after the server's tick
(`DownInv`). So what the client reads next is what has just been sent, or will be
(`StepInv`): a lost or corrupt frame, or a new decoder, moves both by one; a decoder
that cannot be made leaves the buffer as it is. The streak stays within its
byte (`StreakMax`) since it saturates.

*Roster.* As for the flags, it is the last word that counts: for each client, and
for the host flag, the last push under way that says anything of it, or the
screen if there is none, is true, unless another is due (`Settling`,
`HostSettling`). It needs that Me stays in the room once it has joined and never
hands the role over (`MeStays`), that nobody is named who has not joined
(`NotNamed`), and that a client's departure is not announced while it is there
(`Present`). A roster is a word on every client and on the role; one that is out
of date is among what `spoiled` excuses. `Counted` bounds the entries shown:
ClientJoined is pushed once, and a client that is still to be announced is shown
at most once. A client whose handler gave up is in the room without a word about
it due: of these `Ghosts` only the rosters speak. `CommandsAimTrue` follows, since the
screen then shows the room, ghosts aside.

*Server program.* `PinsStay` needs what a start has done so far (`Writing`): a pair
of files that was announced is loaded, never written, and a new one is announced
with what is in it; and that a claim on two files is true of the disk (`Kept`),
since a write makes every other claim on the file void. `TypeCorrect` says that
only `validate` lets a start go on; it is proved in parts. `ShutdownIsTold` holds
since whoever stays is told or still to come in the walk (`Walk`).

*Client program.* `TerminalGivenBack` follows `main`: the terminal is set only
between its set-up and its restoration (`TerminalSet`). `SessionTypeCorrect` says
that no queue exceeds its capacity (`BoundedQueues`), whoever waits for a place
in it.

*Only model-checked.* Liveness under fairness, which is out of the prover's
reach. The induction theorems of the library are too: they take an operator as a
parameter. The one induction that is needed, in `Upstream`, is made by hand over
the least counterexample (`Least`); the drain of `RoomMix` does without, since of
the commands about an id the last one counts (`Known`).

## 5. Where the code and its documents differ

One disagreement has a run and an entry under "findings", *downstream_pause*:
the client's buffer advances at every tick without a frame, the server numbers
only the frames it sends; one silent tick and every later frame is late.

The others have a configuration that shows the counterexample, to be run with
`tlc -config <cfg> <module>` (`RoomClaims.cfg` holds six statements; where there is
more than one, they are to be checked one at a time):

| Configuration | Module | Statement that fails | What happens |
|---|---|---|---|
| `RoomClaims.cfg` | MCRoomMembership | `main.rs:293`, "room was just created or already exists" (`RoomExistsAtRegister`) | `cleanup_loop` drops the room between the two look-ups |
| | | `room.rs:84`, only one concurrent joiner can win (`OneJoinerBecomesHost`) | a joiner claims the role, then the maker stores itself |
| | | `README.md:200` (`RoomHasHost`) | the 0 of a departing host overwrites a newcomer's claim, or comes too late for it |
| | | `README.md:202`, all host transitions use compare-and-swap (`HostMovesByCas`) | the maker's plain store takes the role from a joiner that has claimed it |
| | | "live roster" (`LeftTheRoster`) | `?` on a failed write skips the cleanup |
| | | `README.md:358`, joins are rejected when the room has its configured size (`RoomWithinLimit`) | two joiners pass the check before either is in the roster |
| `RoomHostGone.cfg` | MCRoomMembership | `README.md:198`, the role goes to "the remaining client with the lowest ID" | the client found is gone when it is given the role |
| `RoomKickedHost.cfg` | MCRoomMembership | `README.md:198` | the maker stores itself after the claimant kicked it; a kicked client hands nothing over |
| `RoomMixGhost.cfg` | MCRoomMix | `README.md:284`, a solo room has one client | RemoveClient of a kick is queued before the AddClient |
| `JitterWrap.cfg` | JitterStream | `README.md:322`, wraparound is handled | three slots do not divide the range |
| `UpstreamSpiral.cfg` | Upstream | `main.rs:825`, no death spiral | one overtaken frame makes the next ones late, until the reset |
| `PlayoutDrops.cfg` | MCPlayout | `audio_io.rs:116`, seamless across calls (`Seamless`) | the callback pops up to two samples more than it plays, at every buffer that is not of 48 kHz |
| | | `README.md:348`, the jitter buffer reorders packets (`NeverBack`) | a new buffer starts with a late frame, which is played after a later one |
| `RosterGhost.cfg` | MCRoster | `README.md:167`, "live roster" (`ShownIsPresent`) | a kicked joiner's ClientJoined comes after its ClientLeft |
| | | the same (`PresentIsShown`) | a client lost while RoomInfo is written stays in the room and is announced to nobody |
| `RosterHost.cfg` | MCRoster | current `[HOST]` flag | an older roster is sent after that of the next hand-over |
| `RosterNames.cfg` | MCRoster | `README.md:192`, a display name is accepted | ClientJoined for a client the first roster held already: its name is listed twice |
| `MuteRefused.cfg` | MuteFlags | current `[MUTED]` flag | a refused /mute stays shown |
| `ClientFreeze.cfg` | ClientSession | `README.md:176`, exit by /leave, Esc, Ctrl+C | TUI, writer, handler and listener each wait for a place in the next queue |
| `ServerHalfPair.cfg` | MCServerLife | `tls.rs:16`, missing files are generated | a stop between the two files leaves a key that is empty, and no later start loads it; nor one file named for both |
| `ShutdownMisses.cfg` | MCServerLife | `README.md:55`, all connected clients are told | a client joins a room the walk has passed |

## 6. Not modelled

- *Samples, codecs, floating point.* A frame is its number, a sample its moment.
  The limiter counts in integers and the resampler in exact ratios: the
  rounding of an f64, which can move a sum by its last bit, is left out.
- *More than one room, more than one code.* Rooms share the map's locks only,
  and a guard of another room's shard can only delay. The handlers of
  `ServerLife` are clients that join and leave some room.
- *Certificate files that are there but cannot be read*, which end a start as a
  pair that does not match does.
- *Executor threads.* There are enough of them: a task that waits for a guard
  does not keep the guard's holder from running.
- *Sums and the limiter of the mix.* `Mixing` keeps who is in a sum, not its
  value; voice activity is open.
- *Choice of devices, mixing channels up and down.* Sequential, without state of
  their own; a device that cannot be opened ends in the test tone.
- *The client's configuration file.* It has the shape of the server's;
  `ClientSession` keeps that bad options end the program.
- *Wire encoding and drawing.* Functions of their arguments, covered by the
  repository's unit tests.

## 7. Plan

Done, in this order: membership and host role; the jitter buffer; both audio
paths; the limiter; the mix task's lifecycle; the roster and the mute flags;
the choice of sources; devices, resampler and encoder; the client's tasks; the
server's configuration, certificate and shutdown. Proved: every safety property,
and both refinements between specifications of one
component, the limiter's and the jitter buffer's, besides that of the room by the
room with its mix tasks.

Left, extending the model:

1. `Upstream` and `Downstream` composed, so that a pause of the mix is one that
   the upstream causes.
2. Handlers on a limited number of executor threads.

And proving that `Upstream` and `Downstream` implement `JitterWindow` with their own
readers.
