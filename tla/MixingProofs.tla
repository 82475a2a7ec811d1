----------------------------- MODULE MixingProofs -----------------------------
(***************************************************************************)
(* The mute flags and what a tick mixes by them, for any set of listeners  *)
(* and any number of commands, refusals and rosters.                       *)
(*                                                                         *)
(* The flags shown settle: the last push about a flag that is on its way,  *)
(* or the screen if there is none, has the value the server holds; for the *)
(* client's own flag as soon as no /mute is on its way any more, for the   *)
(* host's as soon as what was stored has been broadcast.                   *)
(*                                                                         *)
(* The loads of one tick are made at different moments, and each of them   *)
(* is accounted for in the history of the tick.                            *)
(***************************************************************************)
EXTENDS Mixing, SequenceTheorems, TLAPS

-----------------------------------------------------------------------------
(* The flags: the invariant. *)

\* The last word about flag k is v: in the queue of pushes, or on the screen.
LastWord(k, queue, screen, v) ==
    /\ \A i \in DOMAIN queue :
          /\ k \in DOMAIN queue[i]
          /\ \A j \in DOMAIN queue : j > i => k \notin DOMAIN queue[j]
          => queue[i][k] = v
    /\ (\A i \in DOMAIN queue : k \notin DOMAIN queue[i]) => screen[k] = v

Typed ==
    /\ shown \in [Kind -> BOOLEAN] /\ flags \in [Kind -> BOOLEAN]
    /\ commands \in [Kind -> Seq(BOOLEAN)]
    /\ due \in SUBSET BOOLEAN /\ info \in SUBSET [Kind -> BOOLEAN]
    /\ pushes \in Seq(Push)

OwnFlag == commands["self"] = <<>> => LastWord("self", pushes, shown, flags["self"])

HostsFlag ==
    /\ due \subseteq {flags["server"]}
    /\ due = {} => LastWord("server", pushes, shown, flags["server"])

Settling == Typed /\ (spoiled = {} => OwnFlag /\ HostsFlag)

-----------------------------------------------------------------------------
(* Queues of pushes. *)

\* Every push tells one of the flags or both, as Booleans.
LEMMA PushType ==
  ASSUME NEW p \in Push
  PROVE  /\ DOMAIN p \subseteq Kind
         /\ \A k \in DOMAIN p : p[k] \in BOOLEAN
  BY DEF Push, Kind

\* A push about k that is made with the value v has the last word.
LEMMA AppendTells ==
  ASSUME NEW queue \in Seq(Push), NEW p \in Push, NEW k \in DOMAIN p,
         NEW screen, NEW v, p[k] = v
  PROVE  LastWord(k, Append(queue, p), screen, v)
  <1> DEFINE longer == Append(queue, p)
  <1>1. /\ Len(queue) \in Nat /\ Len(longer) = Len(queue) + 1
        /\ DOMAIN longer = 1..(Len(queue) + 1)
        /\ longer[Len(queue) + 1] = p
    OBVIOUS
  <1> HIDE DEF longer
  <1>2. ASSUME NEW i \in DOMAIN longer,
               \A j \in DOMAIN longer : j > i => k \notin DOMAIN longer[j]
        PROVE  longer[i][k] = v
    <2>1. i = Len(queue) + 1
      BY <1>1, <1>2
    <2>2. QED
      BY <1>1, <2>1
  <1>3. ~ \A i \in DOMAIN longer : k \notin DOMAIN longer[i]
    BY <1>1
  <1>4. QED
    BY <1>2, <1>3 DEF LastWord, longer

\* A push about something else leaves the last word as it was.
LEMMA AppendKeeps ==
  ASSUME NEW queue \in Seq(Push), NEW p \in Push, NEW k, k \notin DOMAIN p,
         NEW screen, NEW v, LastWord(k, queue, screen, v)
  PROVE  LastWord(k, Append(queue, p), screen, v)
  <1> DEFINE longer == Append(queue, p)
  <1>1. /\ Len(queue) \in Nat
        /\ DOMAIN longer = 1..(Len(queue) + 1) /\ DOMAIN queue = 1..Len(queue)
        /\ longer[Len(queue) + 1] = p
        /\ \A i \in DOMAIN queue : longer[i] = queue[i]
    OBVIOUS
  <1> HIDE DEF longer
  <1>2. ASSUME NEW i \in DOMAIN longer, k \in DOMAIN longer[i],
               \A j \in DOMAIN longer : j > i => k \notin DOMAIN longer[j]
        PROVE  longer[i][k] = v
    <2>1. i \in DOMAIN queue
      BY <1>1, <1>2
    <2>2. \A j \in DOMAIN queue : j > i => k \notin DOMAIN queue[j]
      BY <1>1, <1>2
    <2>3. QED
      BY <1>1, <1>2, <2>1, <2>2 DEF LastWord
  <1>3. ASSUME \A i \in DOMAIN longer : k \notin DOMAIN longer[i]
        PROVE  screen[k] = v
    <2>1. \A i \in DOMAIN queue : k \notin DOMAIN queue[i]
      BY <1>1, <1>3
    <2>2. QED
      BY <2>1 DEF LastWord
  <1>4. QED
    BY <1>2, <1>3 DEF LastWord, longer

\* Reading the first push leaves the last word as it was, on the screen if
\* this was the last one about k.
LEMMA ReadKeeps ==
  ASSUME NEW queue \in Seq(Push), queue # <<>>, NEW k \in Kind,
         NEW screen \in [Kind -> BOOLEAN], NEW v, LastWord(k, queue, screen, v)
  PROVE  LastWord(k, Tail(queue), After(Head(queue), screen), v)
  <1> DEFINE rest == Tail(queue)
             after == After(Head(queue), screen)
  <1>1. /\ Len(queue) \in Nat \ {0} /\ Head(queue) = queue[1]
        /\ DOMAIN queue = 1..Len(queue)
        /\ DOMAIN rest = 1..(Len(queue) - 1)
        /\ \A i \in DOMAIN rest : rest[i] = queue[i + 1]
    OBVIOUS
  <1>2. after[k] = IF k \in DOMAIN queue[1] THEN queue[1][k] ELSE screen[k]
    BY <1>1 DEF After
  <1> HIDE DEF rest, after
  <1>3. ASSUME NEW i \in DOMAIN rest, k \in DOMAIN rest[i],
               \A j \in DOMAIN rest : j > i => k \notin DOMAIN rest[j]
        PROVE  rest[i][k] = v
    <2>1. i + 1 \in DOMAIN queue /\ k \in DOMAIN queue[i + 1]
      BY <1>1, <1>3
    <2>2. ASSUME NEW j \in DOMAIN queue, j > i + 1
          PROVE  k \notin DOMAIN queue[j]
      <3>1. j - 1 \in DOMAIN rest /\ j - 1 > i /\ queue[j] = rest[j - 1]
        BY <1>1, <1>3, <2>2
      <3>2. QED
        BY <1>3, <3>1
    <2>3. queue[i + 1][k] = v
      BY <2>1, <2>2 DEF LastWord
    <2>4. QED
      BY <1>1, <1>3, <2>3
  <1>4. ASSUME \A i \in DOMAIN rest : k \notin DOMAIN rest[i]
        PROVE  after[k] = v
    <2>1. \A j \in DOMAIN queue : j > 1 => k \notin DOMAIN queue[j]
      <3>1. SUFFICES ASSUME NEW j \in DOMAIN queue, j > 1
                     PROVE  k \notin DOMAIN queue[j]
        OBVIOUS
      <3>2. j - 1 \in DOMAIN rest /\ queue[j] = rest[j - 1]
        BY <1>1, <3>1
      <3>3. QED
        BY <1>4, <3>2
    <2>2. CASE k \in DOMAIN queue[1]
      BY <1>1, <1>2, <2>1, <2>2 DEF LastWord
    <2>3. CASE k \notin DOMAIN queue[1]
      <3>1. \A j \in DOMAIN queue : k \notin DOMAIN queue[j]
        BY <1>1, <2>1, <2>3
      <3>2. QED
        BY <1>2, <2>3, <3>1 DEF LastWord
    <2>4. QED
      BY <2>2, <2>3
  <1>5. QED
    BY <1>3, <1>4 DEF LastWord, rest, after

-----------------------------------------------------------------------------
(* Every step keeps the types. *)

\* What a PeerMuted says about its flag, and only that.
LEMMA PeerMutedType ==
  ASSUME NEW k \in Kind, NEW muted \in BOOLEAN
  PROVE  /\ PeerMuted(k, muted) \in Push
         /\ DOMAIN PeerMuted(k, muted) = {k}
         /\ PeerMuted(k, muted)[k] = muted
  BY DEF PeerMuted, Push, Kind

\* Taking the first command off a stream.
LEMMA TakeCommand ==
  ASSUME NEW k \in Kind, commands \in [Kind -> Seq(BOOLEAN)], commands[k] # <<>>
  PROVE  /\ Head(commands[k]) \in BOOLEAN
         /\ [commands EXCEPT ![k] = Tail(@)] \in [Kind -> Seq(BOOLEAN)]
  <1>1. commands[k] \in Seq(BOOLEAN)
    OBVIOUS
  <1>2. Head(commands[k]) \in BOOLEAN /\ Tail(commands[k]) \in Seq(BOOLEAN)
    BY <1>1
  <1>3. QED
    BY <1>2

\* Issuing a command appends it to its stream.
LEMMA IssueType ==
  ASSUME Typed, NEW k \in Kind, NEW muted \in BOOLEAN, Issue(k, muted)
  PROVE  /\ commands' \in [Kind -> Seq(BOOLEAN)]
         /\ commands'[k] # <<>>
         /\ UNCHANGED <<flags, due, info, pushes, spoiled>>
  <1>1. commands[k] \in Seq(BOOLEAN)
    BY DEF Typed
  <1>2. Append(commands[k], muted) \in Seq(BOOLEAN) /\ Append(commands[k], muted) # <<>>
    BY <1>1, AppendProperties
  <1>3. QED
    BY <1>2 DEF Issue, Typed

\* Storing a command gives its flag a Boolean.
LEMMA StoreType ==
  ASSUME Typed, NEW k \in Kind, Store(k)
  PROVE  /\ commands' \in [Kind -> Seq(BOOLEAN)] /\ flags' \in [Kind -> BOOLEAN]
         /\ Head(commands[k]) \in BOOLEAN
         /\ flags'[k] = Head(commands[k])
         /\ \A j \in Kind : j # k => flags'[j] = flags[j] /\ commands'[j] = commands[j]
         /\ UNCHANGED <<shown, info, spoiled>>
  BY TakeCommand DEF Store, Typed, ui_vars

\* A push that is read leaves Booleans on the screen.
LEMMA AfterType ==
  ASSUME NEW p \in Push, NEW screen \in [Kind -> BOOLEAN]
  PROVE  After(p, screen) \in [Kind -> BOOLEAN]
  BY PushType DEF After

\* Pushes are appended by Tell.
LEMMA TellType ==
  ASSUME Typed, NEW k \in Kind, NEW muted \in BOOLEAN, Tell(k, muted)
  PROVE  pushes' \in Seq(Push)
  <1>1. PeerMuted(k, muted) \in Push /\ pushes \in Seq(Push)
    BY PeerMutedType DEF Typed
  <1>2. QED
    BY <1>1, AppendProperties DEF Tell

\* Two pushes that change places.
LEMMA SwapType ==
  ASSUME NEW queue \in Seq(Push), NEW k \in 1..(Len(queue) - 1)
  PROVE  [queue EXCEPT ![k] = queue[k + 1], ![k + 1] = queue[k]] \in Seq(Push)
  <1> DEFINE swapped == [queue EXCEPT ![k] = queue[k + 1], ![k + 1] = queue[k]]
  <1>1. Len(queue) \in Nat /\ queue \in [1..Len(queue) -> Push]
    OBVIOUS
  <1>2. swapped \in [1..Len(queue) -> Push]
    BY <1>1
  <1>3. QED
    BY <1>1, <1>2

\* Every action keeps the types.
LEMMA TypedStep == Typed /\ [Next]_vars => Typed'
  <1> SUFFICES ASSUME Typed, [Next]_vars PROVE Typed'
    OBVIOUS
  <1>1. CASE ToggleMute
    <2>1. shown' = [shown EXCEPT !["self"] = ~@] /\ Issue("self", shown'["self"])
      BY <1>1 DEF ToggleMute
    <2>2. shown' \in [Kind -> BOOLEAN] /\ shown'["self"] \in BOOLEAN
      BY <2>1 DEF Typed, Kind
    <2>3. QED
      BY <2>1, <2>2, IssueType DEF Typed, Kind
  <1>2. CASE ForceMute
    BY <1>2, IssueType DEF ForceMute, Typed, Kind
  <1>3. CASE StoreMute
    <2>1. Store("self") /\ Tell("self", Head(commands["self"])) /\ UNCHANGED due
      BY <1>3 DEF StoreMute
    <2>2. QED
      BY <2>1, StoreType, TellType DEF Typed, Kind
  <1>4. CASE StoreServerMute
    <2>1. Store("server") /\ due' = {Head(commands["server"])} /\ UNCHANGED pushes
      BY <1>4 DEF StoreServerMute
    <2>2. QED
      BY <2>1, StoreType DEF Typed, Kind
  <1>5. CASE PushServerMute
    <2>1. PICK muted \in due : Tell("server", muted)
      BY <1>5 DEF PushServerMute
    <2>2. pushes' \in Seq(Push)
      BY <2>1, TellType DEF Typed, Kind
    <2>3. QED
      BY <1>5, <2>2 DEF PushServerMute, Typed, ui_vars
  <1>6. CASE \E k \in Kind : Refuse(k)
    <2>1. PICK k \in Kind : Refuse(k)
      BY <1>6
    <2>2. QED
      BY <2>1, TakeCommand DEF Refuse, Typed, ui_vars
  <1>7. CASE BuildInfo
    BY <1>7 DEF BuildInfo, Typed, ui_vars
  <1>8. CASE PushInfo
    <2>1. PICK roster \in info : pushes' = Append(pushes, roster)
      BY <1>8 DEF PushInfo
    <2>2. roster \in Push
      BY DEF Typed, Push
    <2>3. pushes' \in Seq(Push)
      BY <2>1, <2>2 DEF Typed
    <2>4. QED
      BY <1>8, <2>3 DEF PushInfo, Typed, ui_vars
  <1>9. CASE ReadPush
    <2>1. Head(pushes) \in Push /\ Tail(pushes) \in Seq(Push)
      BY <1>9 DEF ReadPush, Typed
    <2>2. QED
      BY <1>9, <2>1, AfterType DEF ReadPush, Typed
  <1>10. CASE Overtake
    <2>1. PICK k \in 1..(Len(pushes) - 1) :
             pushes' = [pushes EXCEPT ![k] = pushes[k + 1], ![k + 1] = pushes[k]]
      BY <1>10 DEF Overtake
    <2>2. pushes' \in Seq(Push)
      BY <2>1, SwapType DEF Typed
    <2>3. QED
      BY <1>10, <2>2 DEF Overtake, Typed, ui_vars
  <1>11. CASE UNCHANGED vars
    BY <1>11 DEF vars, ui_vars, Typed
  <1>12. QED
    BY <1>1, <1>2, <1>3, <1>4, <1>5, <1>6, <1>7, <1>8, <1>9, <1>10, <1>11 DEF Next

-----------------------------------------------------------------------------
(* Every step keeps the last word about each flag. *)

\* A roster tells both flags, and has the last word about both.
LEMMA RosterTells ==
  ASSUME Typed, NEW k \in Kind, PushInfo, spoiled' = {}
  PROVE  LastWord(k, pushes', shown', flags'[k])
  <1>1. PICK roster \in info :
           /\ pushes' = Append(pushes, roster)
           /\ spoiled' = IF roster = flags THEN spoiled ELSE spoiled \cup {"roster stale"}
    BY DEF PushInfo
  <1>2. roster = flags
    BY <1>1
  <1>3. flags \in Push /\ k \in DOMAIN flags
    BY DEF Typed, Push
  <1>4. LastWord(k, Append(pushes, flags), shown, flags[k])
    BY <1>3, AppendTells DEF Typed
  <1>5. QED
    BY <1>1, <1>2, <1>4 DEF PushInfo, ui_vars

\* A push that is read takes its word to the screen.
LEMMA ReadPushKeeps ==
  ASSUME Typed, NEW k \in Kind, ReadPush, LastWord(k, pushes, shown, flags[k])
  PROVE  LastWord(k, pushes', shown', flags'[k])
  BY ReadKeeps DEF ReadPush, Typed

\* The client's own flag: kept by every step that spoils nothing.
LEMMA OwnFlagStep ==
  ASSUME Typed, [Next]_vars, spoiled' = {}, OwnFlag
  PROVE  OwnFlag'
  <1> SUFFICES ASSUME commands'["self"] = <<>>
               PROVE  LastWord("self", pushes', shown', flags'["self"])
    BY DEF OwnFlag
  <1> "self" \in Kind /\ "server" \in Kind /\ "self" # "server"
    BY DEF Kind
  <1>1. CASE ToggleMute
    <2>1. shown'["self"] \in BOOLEAN /\ Issue("self", shown'["self"])
      BY <1>1 DEF ToggleMute, Typed
    <2>2. QED
      BY <2>1, IssueType
  <1>2. CASE ForceMute
    <2>1. PICK muted \in BOOLEAN : Issue("server", muted)
      BY <1>2 DEF ForceMute
    <2>2. commands["self"] = <<>>
      BY <2>1 DEF Issue, Typed
    <2>3. UNCHANGED <<flags, pushes, shown>>
      BY <1>2, <2>1, IssueType DEF ForceMute
    <2>4. QED
      BY <2>2, <2>3 DEF OwnFlag
  <1>3. CASE StoreMute
    <2>1. Store("self") /\ Tell("self", Head(commands["self"]))
      BY <1>3 DEF StoreMute
    <2>2. /\ flags'["self"] = Head(commands["self"]) /\ flags'["self"] \in BOOLEAN
          /\ UNCHANGED shown
      BY <2>1, StoreType
    <2>3. pushes' = Append(pushes, PeerMuted("self", flags'["self"]))
      BY <2>1, <2>2 DEF Tell
    <2>4. LastWord("self", Append(pushes, PeerMuted("self", flags'["self"])), shown,
                   flags'["self"])
      BY <2>2, PeerMutedType, AppendTells DEF Typed
    <2>5. QED
      BY <2>2, <2>3, <2>4
  <1>4. CASE StoreServerMute
    <2>1. Store("server") /\ UNCHANGED pushes
      BY <1>4 DEF StoreServerMute
    <2>2. commands["self"] = <<>> /\ flags'["self"] = flags["self"] /\ UNCHANGED shown
      BY <2>1, StoreType
    <2>3. QED
      BY <2>1, <2>2 DEF OwnFlag
  <1>5. CASE PushServerMute
    <2>1. PICK muted \in due : pushes' = Append(pushes, PeerMuted("server", muted))
      BY <1>5 DEF PushServerMute, Tell
    <2>2. UNCHANGED <<commands, flags, shown>>
      BY <1>5 DEF PushServerMute, ui_vars
    <2>3. LastWord("self", pushes, shown, flags["self"])
      BY <2>2 DEF OwnFlag
    <2>4. /\ PeerMuted("server", muted) \in Push
          /\ "self" \notin DOMAIN PeerMuted("server", muted)
      BY PeerMutedType DEF Typed
    <2>5. LastWord("self", Append(pushes, PeerMuted("server", muted)), shown, flags["self"])
      BY <2>3, <2>4, AppendKeeps DEF Typed
    <2>6. QED
      BY <2>1, <2>2, <2>5
  <1>6. CASE \E k \in Kind : Refuse(k)
    <2>1. PICK k \in Kind : Refuse(k)
      BY <1>6
    <2>2. k = "server"
      BY <2>1 DEF Refuse, Kind
    <2>3. commands["self"] = <<>> /\ UNCHANGED <<flags, pushes, shown>>
      BY <2>1, <2>2 DEF Refuse, Typed, ui_vars
    <2>4. QED
      BY <2>3 DEF OwnFlag
  <1>7. CASE BuildInfo
    BY <1>7 DEF BuildInfo, OwnFlag, ui_vars
  <1>8. CASE PushInfo
    BY <1>8, RosterTells
  <1>9. CASE ReadPush
    <2>1. LastWord("self", pushes, shown, flags["self"])
      BY <1>9 DEF ReadPush, OwnFlag
    <2>2. QED
      BY <1>9, <2>1, ReadPushKeeps
  <1>10. CASE Overtake
    BY <1>10 DEF Overtake
  <1>11. CASE UNCHANGED vars
    BY <1>11 DEF vars, ui_vars, OwnFlag
  <1>12. QED
    BY <1>1, <1>2, <1>3, <1>4, <1>5, <1>6, <1>7, <1>8, <1>9, <1>10, <1>11 DEF Next

\* The host's flag: what is due is what is stored, and then it is told.
LEMMA HostsFlagStep ==
  ASSUME Typed, [Next]_vars, spoiled' = {}, HostsFlag
  PROVE  HostsFlag'
  <1> DEFINE Told == LastWord("server", pushes', shown', flags'["server"])
  <1> SUFFICES due' \subseteq {flags'["server"]} /\ (due' = {} => Told)
    BY DEF HostsFlag
  <1> "self" \in Kind /\ "server" \in Kind /\ "self" # "server"
    BY DEF Kind
  <1>1. CASE ToggleMute
    <2>1. shown'["self"] \in BOOLEAN /\ Issue("self", shown'["self"])
          /\ shown'["server"] = shown["server"]
      BY <1>1 DEF ToggleMute, Typed
    <2>2. UNCHANGED <<flags, pushes, due>>
      BY <2>1, IssueType
    <2>3. QED
      BY <2>1, <2>2 DEF HostsFlag, LastWord
  <1>2. CASE ForceMute
    <2>1. UNCHANGED <<flags, pushes, due, shown>>
      BY <1>2 DEF ForceMute, Issue
    <2>2. QED
      BY <2>1 DEF HostsFlag
  <1>3. CASE StoreMute
    <2>1. /\ Store("self") /\ UNCHANGED due
          /\ pushes' = Append(pushes, PeerMuted("self", Head(commands["self"])))
      BY <1>3 DEF StoreMute, Tell
    <2>2. /\ Head(commands["self"]) \in BOOLEAN
          /\ flags'["server"] = flags["server"] /\ UNCHANGED shown
      BY <2>1, StoreType
    <2>3. ASSUME due = {} PROVE Told
      <3>1. /\ PeerMuted("self", Head(commands["self"])) \in Push
            /\ "server" \notin DOMAIN PeerMuted("self", Head(commands["self"]))
        BY <2>2, PeerMutedType
      <3>2. LastWord("server", pushes, shown, flags["server"])
        BY <2>3 DEF HostsFlag
      <3>3. LastWord("server", Append(pushes, PeerMuted("self", Head(commands["self"]))),
                     shown, flags["server"])
        BY <3>1, <3>2, AppendKeeps DEF Typed
      <3>4. QED
        BY <2>1, <2>2, <3>3
    <2>4. QED
      BY <2>1, <2>2, <2>3 DEF HostsFlag
  <1>4. CASE StoreServerMute
    <2>1. Store("server") /\ due' = {Head(commands["server"])}
      BY <1>4 DEF StoreServerMute
    <2>2. QED
      BY <2>1, StoreType
  <1>5. CASE PushServerMute
    <2>1. PICK muted \in due : pushes' = Append(pushes, PeerMuted("server", muted))
      BY <1>5 DEF PushServerMute, Tell
    <2>2. due' = {} /\ UNCHANGED <<flags, shown>>
      BY <1>5 DEF PushServerMute, ui_vars
    <2>3. muted = flags["server"] /\ muted \in BOOLEAN
      BY DEF HostsFlag, Typed
    <2>4. LastWord("server", Append(pushes, PeerMuted("server", muted)), shown,
                   flags["server"])
      BY <2>3, PeerMutedType, AppendTells DEF Typed
    <2>5. QED
      BY <2>1, <2>2, <2>4
  <1>6. CASE \E k \in Kind : Refuse(k)
    BY <1>6 DEF Refuse, HostsFlag, ui_vars
  <1>7. CASE BuildInfo
    BY <1>7 DEF BuildInfo, HostsFlag, ui_vars
  <1>8. CASE PushInfo
    <2>1. UNCHANGED <<due, flags>>
      BY <1>8 DEF PushInfo
    <2>2. QED
      BY <1>8, <2>1, RosterTells DEF HostsFlag
  <1>9. CASE ReadPush
    <2>1. UNCHANGED <<due, flags>>
      BY <1>9 DEF ReadPush
    <2>2. QED
      BY <1>9, <2>1, ReadPushKeeps DEF HostsFlag
  <1>10. CASE Overtake
    BY <1>10 DEF Overtake
  <1>11. CASE UNCHANGED vars
    BY <1>11 DEF vars, ui_vars, HostsFlag
  <1>12. QED
    BY <1>1, <1>2, <1>3, <1>4, <1>5, <1>6, <1>7, <1>8, <1>9, <1>10, <1>11 DEF Next

\* What has spoiled the screen once is not forgotten.
LEMMA SpoiledStays ==
  ASSUME [Next]_vars, spoiled' = {}
  PROVE  spoiled = {}
  BY DEF Next, vars, ui_vars, ToggleMute, ForceMute, Issue, StoreMute, StoreServerMute,
         Store, PushServerMute, Refuse, BuildInfo, PushInfo, ReadPush, Overtake

-----------------------------------------------------------------------------
\* Settling is inductive: it holds at first and is kept by every step.
LEMMA SettlingInvariant == Spec => []Settling
  <1>1. Init => Settling
    <2> SUFFICES ASSUME Init PROVE Settling
      OBVIOUS
    <2>1. Typed
      BY DEF Init, Typed, Unmuted
    <2>2. \A k \in Kind : LastWord(k, pushes, shown, flags[k])
      BY DEF Init, LastWord
    <2>3. QED
      BY <2>1, <2>2 DEF Init, Settling, OwnFlag, HostsFlag, Kind
  <1>2. Settling /\ [Next]_vars => Settling'
    <2> SUFFICES ASSUME Settling, [Next]_vars PROVE Settling'
      OBVIOUS
    <2>1. Typed'
      BY TypedStep DEF Settling
    <2>2. ASSUME spoiled' = {} PROVE OwnFlag' /\ HostsFlag'
      <3>1. Typed /\ OwnFlag /\ HostsFlag
        BY <2>2, SpoiledStays DEF Settling
      <3>2. QED
        BY <2>2, <3>1, OwnFlagStep, HostsFlagStep
    <2>3. QED
      BY <2>1, <2>2 DEF Settling
  <1>3. QED
    BY <1>1, <1>2, PTL DEF Spec

\* When nothing is on its way, the last words are on the screen.
LEMMA SettlingAgrees == Settling => FlagsSettle
  <1> SUFFICES ASSUME Settling, Quiet, spoiled = {} PROVE shown = flags
    BY DEF FlagsSettle
  <1>1. commands["self"] = <<>> /\ due = {} /\ pushes = <<>>
    BY DEF Quiet, Kind
  <1>2. \A k \in Kind : LastWord(k, pushes, shown, flags[k])
    BY <1>1 DEF Settling, OwnFlag, HostsFlag, Kind
  <1>3. \A k \in Kind : shown[k] = flags[k]
    BY <1>1, <1>2 DEF LastWord
  <1>4. QED
    BY <1>3 DEF Settling, Typed

\* When every command is answered and every push is read, the screen shows both
\* flags as the server mixes by them, unless it was spoiled: for any number of
\* commands, refused or not, in any interleaving of the two users, the two
\* handlers and the pushes.
THEOREM FlagsAgree == Spec => []FlagsSettle
  BY SettlingAgrees, SettlingInvariant, PTL

-----------------------------------------------------------------------------
(* The tick: the invariant. *)

Types ==
    /\ Typed
    /\ present \subseteq Client /\ blocked \subseteq Other
    /\ tick \in {"wait", "pop", "mix"}
    /\ voice \subseteq Client /\ client_frames \subseteq Client
    /\ tick # "wait" => client_frames \subseteq voice
    /\ unmixed \subseteq Client
    /\ mixes \in [Client -> SUBSET Client]

\* The history of a tick holds the present moment.
HistoryIsNow ==
    tick # "wait" => Silencing \subseteq was_set /\ Reason \ Silencing \subseteq was_clear

\* That k keeps s from d: a flag, a block list, or that s is gone.
About(k, s, d) == <<k, s, d>>

\* What has been loaded for everybody.
Loaded == IF tick = "pop" THEN {"self", "gone"} ELSE {"self", "server", "gone"}

\* It decides who is active.
ActiveIsExact ==
    tick # "wait" =>
        /\ \A s \in client_frames, d \in Client, k \in Loaded :
              About(k, s, d) \in Reason => About(k, s, d) \in was_clear
        /\ \A s \in voice \ client_frames, d \in Client :
              d # s => \E k \in Loaded : About(k, s, d) \in was_set

\* What is loaded for one listener decides which of them it hears.
MixedIsExact ==
    tick = "mix" => \A d \in (Client \ unmixed) \cap present :
        /\ d \notin mixes[d]
        /\ mixes[d] \subseteq client_frames
        /\ \A s \in mixes[d] :
              About("blocked", s, d) \in Reason => About("blocked", s, d) \in was_clear
        /\ \A s \in client_frames \ (mixes[d] \cup {d}) : About("blocked", s, d) \in was_set

MixInv == Types /\ HistoryIsNow /\ ActiveIsExact /\ MixedIsExact

-----------------------------------------------------------------------------
(* Reasons. *)

\* The reasons there may be, and those there are.
LEMMA ReasonParts ==
  ASSUME NEW k, NEW s, NEW d
  PROVE  /\ About(k, s, d) \in Reason <=>
              \/ k \in {"self", "server", "blocked"} /\ s = Talker /\ d \in Other
              \/ k = "gone" /\ s \in Client /\ d \in Client
         /\ About(k, s, d) \in Silencing <=>
              \/ k \in Kind /\ flags[k] /\ s = Talker /\ d \in Other
              \/ k = "blocked" /\ s = Talker /\ d \in blocked
              \/ k = "gone" /\ s \in Client /\ d \in Client /\ s \notin present
  BY DEF About, Reason, Silencing, Kind

\* The same of the next state.
LEMMA ReasonPartsNext ==
  ASSUME NEW k, NEW s, NEW d
  PROVE  About(k, s, d) \in Silencing' <=>
              \/ k \in Kind /\ flags'[k] /\ s = Talker /\ d \in Other
              \/ k = "blocked" /\ s = Talker /\ d \in blocked'
              \/ k = "gone" /\ s \in Client /\ d \in Client /\ s \notin present'
  BY DEF About, Silencing, Kind

\* A reason is one about its parts.
LEMMA ReasonAbout ==
  ASSUME NEW r \in Reason
  PROVE  r = About(r[1], r[2], r[3]) /\ r[1] \in {"self", "server", "blocked", "gone"}
  BY DEF About, Reason, Kind

\* The history takes in the next moment and, within a tick, forgets nothing.
LEMMA HistoryGrows ==
  ASSUME History, tick' # "wait"
  PROVE  /\ Silencing' \subseteq was_set' /\ Reason \ Silencing' \subseteq was_clear'
         /\ tick # "wait" => was_set \subseteq was_set' /\ was_clear \subseteq was_clear'
  BY DEF History

-----------------------------------------------------------------------------
(* The steps. *)

\* What handlers do between two loads leaves what has been loaded.
LEMMA BesideStep ==
  ASSUME MixInv, Typed', History, UNCHANGED mix_vars,
         present' \subseteq present, blocked' \subseteq Other
  PROVE  MixInv'
  <1>1. UNCHANGED <<tick, voice, client_frames, unmixed, mixes>>
    BY DEF mix_vars
  <1>2. Types'
    BY <1>1 DEF MixInv, Types
  <1>3. HistoryIsNow'
    BY HistoryGrows DEF HistoryIsNow
  <1>4. CASE tick = "wait"
    BY <1>1, <1>2, <1>3, <1>4 DEF MixInv, ActiveIsExact, MixedIsExact
  <1>5. CASE tick # "wait"
    <2>1. was_set \subseteq was_set' /\ was_clear \subseteq was_clear'
      BY <1>1, <1>5, HistoryGrows
    <2>2. ActiveIsExact'
      BY <1>1, <1>5, <2>1 DEF MixInv, ActiveIsExact, Loaded
    <2>3. MixedIsExact'
      BY <1>1, <1>5, <2>1 DEF MixInv, MixedIsExact
    <2>4. QED
      BY <1>2, <1>3, <2>2, <2>3 DEF MixInv
  <1>6. QED
    BY <1>4, <1>5

\* Popping loads the muted flag, and who is in the room.
LEMMA PopStep ==
  ASSUME MixInv, History, PopFrames, UNCHANGED vars
  PROVE  MixInv'
  <1> USE DEF Kind
  <1>1. /\ tick = "wait" /\ tick' = "pop"
        /\ voice' \in {Client, Other}
        /\ client_frames' = LoadFlag("self", voice' \cap present)
        /\ UNCHANGED <<present, blocked, unmixed, mixes, flags>>
    BY DEF PopFrames, Go, Pushed, vars
  <1>2. voice' \subseteq Client
    BY <1>1 DEF Client
  <1>3. client_frames' = IF flags["self"] THEN (voice' \cap present) \ {Talker}
                         ELSE voice' \cap present
    BY <1>1 DEF LoadFlag
  <1>4. Types'
    <2>1. Typed'
      BY DEF MixInv, Types, Typed, vars, ui_vars
    <2>2. QED
      BY <1>1, <1>2, <1>3, <2>1 DEF MixInv, Types
  <1>5. Silencing' \subseteq was_set' /\ Reason \ Silencing' \subseteq was_clear'
    BY <1>1, HistoryGrows
  <1>6. ASSUME NEW s \in client_frames', NEW d \in Client, NEW k \in {"self", "gone"},
               About(k, s, d) \in Reason
        PROVE  About(k, s, d) \in was_clear'
    <2>1. About(k, s, d) \notin Silencing'
      BY <1>1, <1>3, <1>6, ReasonPartsNext
    <2>2. QED
      BY <1>5, <1>6, <2>1
  <1>7. ASSUME NEW s \in voice' \ client_frames', NEW d \in Client, d # s
        PROVE  \E k \in {"self", "gone"} : About(k, s, d) \in was_set'
    <2>1. s \notin present \/ (s = Talker /\ flags["self"] /\ d \in Other)
      BY <1>3, <1>7 DEF Client
    <2>2. About("gone", s, d) \in Silencing' \/ About("self", s, d) \in Silencing'
      BY <1>1, <1>2, <2>1, ReasonPartsNext
    <2>3. QED
      BY <1>5, <2>2
  <1>8. ActiveIsExact' /\ MixedIsExact' /\ HistoryIsNow'
    BY <1>1, <1>5, <1>6, <1>7 DEF ActiveIsExact, MixedIsExact, HistoryIsNow, Loaded
  <1>9. QED
    BY <1>4, <1>8 DEF MixInv

\* Then the server_muted flag is loaded.
LEMMA LoadStep ==
  ASSUME MixInv, History, LoadServerMuted, UNCHANGED vars
  PROVE  MixInv'
  <1> USE DEF Kind
  <1>1. /\ tick = "pop" /\ tick' = "mix" /\ unmixed' = Client
        /\ client_frames' = IF flags["server"] THEN client_frames \ {Talker}
                            ELSE client_frames
        /\ UNCHANGED <<present, blocked, voice, mixes, flags>>
    BY DEF LoadServerMuted, Go, LoadFlag, vars
  <1>2. Types'
    <2>1. Typed'
      BY DEF MixInv, Types, Typed, vars, ui_vars
    <2>2. QED
      BY <1>1, <2>1 DEF MixInv, Types
  <1>3. /\ Silencing' \subseteq was_set' /\ Reason \ Silencing' \subseteq was_clear'
        /\ was_set \subseteq was_set' /\ was_clear \subseteq was_clear'
    BY <1>1, HistoryGrows
  <1>4. ASSUME NEW s \in client_frames', NEW d \in Client,
               NEW k \in {"self", "server", "gone"}, About(k, s, d) \in Reason
        PROVE  About(k, s, d) \in was_clear'
    <2>1. CASE k = "server"
      <3>1. About(k, s, d) \notin Silencing'
        BY <1>1, <1>4, <2>1, ReasonParts, ReasonPartsNext
      <3>2. QED
        BY <1>3, <1>4, <3>1
    <2>2. CASE k # "server"
      <3>1. s \in client_frames /\ k \in Loaded
        BY <1>1, <2>2 DEF Loaded
      <3>2. QED
        BY <1>1, <1>3, <1>4, <3>1 DEF MixInv, ActiveIsExact
    <2>3. QED
      BY <2>1, <2>2
  <1>5. ASSUME NEW s \in voice' \ client_frames', NEW d \in Client, d # s
        PROVE  \E k \in {"self", "server", "gone"} : About(k, s, d) \in was_set'
    <2>1. CASE s \in client_frames
      <3>1. s = Talker /\ flags["server"] /\ d \in Other
        BY <1>1, <1>5, <2>1 DEF Client
      <3>2. About("server", s, d) \in Silencing'
        BY <1>1, <3>1, ReasonPartsNext
      <3>3. QED
        BY <1>3, <3>2
    <2>2. CASE s \notin client_frames
      BY <1>1, <1>3, <1>5, <2>2 DEF MixInv, ActiveIsExact, Loaded
    <2>3. QED
      BY <2>1, <2>2
  <1>6. ActiveIsExact' /\ MixedIsExact' /\ HistoryIsNow'
    BY <1>1, <1>3, <1>4, <1>5 DEF ActiveIsExact, MixedIsExact, HistoryIsNow, Loaded
  <1>7. QED
    BY <1>2, <1>6 DEF MixInv

\* Then, for each listener, its block list.
LEMMA MixForStep ==
  ASSUME MixInv, History, NEW d \in Client, MixFor(d), UNCHANGED vars
  PROVE  MixInv'
  <1>1. /\ tick = "mix" /\ tick' = "mix" /\ unmixed' = unmixed \ {d}
        /\ mixes' = [mixes EXCEPT ![d] = IF d \in present THEN Sources(d) ELSE {}]
        /\ UNCHANGED <<present, blocked, voice, client_frames, flags>>
    BY DEF MixFor, vars
  <1>2. Sources(d) = client_frames \ ({d} \cup IF d \in blocked THEN {Talker} ELSE {})
    BY DEF Sources
  <1>3. Types'
    <2>1. Typed'
      BY DEF MixInv, Types, Typed, vars, ui_vars
    <2>2. mixes' \in [Client -> SUBSET Client]
      BY <1>1, <1>2 DEF MixInv, Types
    <2>3. QED
      BY <1>1, <2>1, <2>2 DEF MixInv, Types
  <1>4. /\ Silencing' \subseteq was_set' /\ Reason \ Silencing' \subseteq was_clear'
        /\ was_set \subseteq was_set' /\ was_clear \subseteq was_clear'
    BY <1>1, HistoryGrows
  <1>5. ActiveIsExact' /\ HistoryIsNow'
    BY <1>1, <1>4 DEF MixInv, ActiveIsExact, HistoryIsNow, Loaded
  <1>6. ASSUME NEW l \in (Client \ unmixed') \cap present'
        PROVE  /\ l \notin mixes'[l] /\ mixes'[l] \subseteq client_frames'
               /\ \A s \in mixes'[l] : About("blocked", s, l) \in Reason =>
                                          About("blocked", s, l) \in was_clear'
               /\ \A s \in client_frames' \ (mixes'[l] \cup {l}) :
                     About("blocked", s, l) \in was_set'
    <2>1. CASE l # d
      <3>1. l \in (Client \ unmixed) \cap present /\ mixes'[l] = mixes[l]
        BY <1>1, <2>1 DEF MixInv, Types
      <3>2. QED
        BY <1>1, <1>4, <3>1 DEF MixInv, MixedIsExact
    <2>2. CASE l = d
      <3>1. mixes'[d] = Sources(d)
        BY <1>1, <1>6, <2>2 DEF MixInv, Types
      <3>2. d \notin mixes'[d] /\ mixes'[d] \subseteq client_frames
        BY <1>2, <3>1
      <3>3. ASSUME NEW s \in mixes'[d], About("blocked", s, d) \in Reason
            PROVE  About("blocked", s, d) \in was_clear'
        <4>1. s = Talker => d \notin blocked
          BY <1>2, <3>1, <3>3
        <4>2. About("blocked", s, d) \notin Silencing'
          BY <1>1, <4>1, ReasonPartsNext DEF Kind
        <4>3. QED
          BY <1>4, <3>3, <4>2
      <3>4. ASSUME NEW s \in client_frames \ (mixes'[d] \cup {d})
            PROVE  About("blocked", s, d) \in was_set'
        <4>1. s = Talker /\ d \in blocked
          BY <1>2, <3>1, <3>4
        <4>2. About("blocked", s, d) \in Silencing'
          BY <1>1, <4>1, ReasonPartsNext
        <4>3. QED
          BY <1>4, <4>2
      <3>5. QED
        BY <1>1, <2>2, <3>2, <3>3, <3>4
    <2>3. QED
      BY <2>1, <2>2
  <1>7. MixedIsExact'
    BY <1>6 DEF MixedIsExact
  <1>8. QED
    BY <1>3, <1>5, <1>7 DEF MixInv

\* At the end of a tick its history is forgotten.
LEMMA EndStep ==
  ASSUME MixInv, EndTick, UNCHANGED vars
  PROVE  MixInv'
  <1>1. /\ tick' = "wait" /\ voice' = {} /\ mixes' = [d \in Client |-> {}]
        /\ UNCHANGED <<present, blocked, client_frames, unmixed>>
    BY DEF EndTick, Go
  <1>2. Typed'
    BY DEF MixInv, Types, Typed, vars, ui_vars
  <1>3. Types'
    BY <1>1, <1>2 DEF MixInv, Types
  <1>4. QED
    BY <1>1, <1>3 DEF MixInv, HistoryIsNow, ActiveIsExact, MixedIsExact

\* Every step of the mix task, and every step beside it, keeps the invariant.
LEMMA MixInvariant == MixingSpec => []MixInv
  <1>1. MixingInit => MixInv
    <2> SUFFICES ASSUME MixingInit PROVE MixInv
      OBVIOUS
    <2>1. Typed
      BY DEF MixingInit, Init, Typed, Unmuted
    <2>2. QED
      BY <2>1 DEF MixingInit, MixInv, Types, HistoryIsNow, ActiveIsExact, MixedIsExact
  <1>2. MixInv /\ [MixingNext]_<<vars, mixing_vars>> => MixInv'
    <2> SUFFICES ASSUME MixInv, [MixingNext]_<<vars, mixing_vars>> PROVE MixInv'
      OBVIOUS
    <2>1. Typed
      BY DEF MixInv, Types
    <2>2. CASE Next /\ UNCHANGED <<present, blocked, mix_vars>> /\ History
      <3>1. Typed'
        BY <2>1, <2>2, TypedStep
      <3>2. QED
        BY <2>2, <3>1, BesideStep DEF MixInv, Types
    <2>3. CASE MixStep /\ UNCHANGED vars /\ History
      <3>1. Typed'
        BY <2>1, <2>3 DEF Typed, vars, ui_vars
      <3>2. ASSUME NEW d \in Other, BlockPeer(d) \/ UnblockPeer(d) \/ Depart(d)
            PROVE  MixInv'
        <4>1. /\ UNCHANGED mix_vars /\ present' \subseteq present
              /\ blocked' \subseteq Other
          BY <3>2 DEF BlockPeer, UnblockPeer, Depart, MixInv, Types
        <4>2. QED
          BY <2>3, <3>1, <4>1, BesideStep
      <3>3. QED
        BY <2>3, <3>2, PopStep, LoadStep, MixForStep, EndStep DEF MixStep
    <2>4. CASE UNCHANGED <<vars, mixing_vars>>
      <3>1. UNCHANGED <<present, blocked, mix_vars, was_set, was_clear, flags>>
        BY <2>4 DEF vars, mixing_vars
      <3>2. Typed'
        BY <2>1, <2>4 DEF Typed, vars, ui_vars
      <3>3. Types' /\ HistoryIsNow'
        BY <3>1, <3>2 DEF MixInv, Types, HistoryIsNow, Silencing, mix_vars
      <3>4. ActiveIsExact' /\ MixedIsExact'
        BY <3>1 DEF MixInv, ActiveIsExact, MixedIsExact, Loaded, mix_vars
      <3>5. QED
        BY <3>3, <3>4 DEF MixInv
    <2>5. QED
      BY <2>2, <2>3, <2>4 DEF MixingNext
  <1>3. QED
    BY <1>1, <1>2, PTL DEF MixingSpec

-----------------------------------------------------------------------------
\* Each tick decides by flags, block lists and roster of its own time, for any
\* listeners, commands, refusals and interleaving of their handlers with its
\* loads.
THEOREM MixExact == MixingSpec => []MixIsExact
  <1>1. MixInv => MixIsExact
    <2> SUFFICES ASSUME MixInv, NEW d \in Mixed
                 PROVE  /\ d \notin mixes[d]
                        /\ \A s \in mixes[d] :
                              /\ s \in voice
                              /\ \A r \in Reason : r[2] = s /\ r[3] = d => r \in was_clear
                        /\ \A s \in voice \ (mixes[d] \cup {d}) :
                              \E r \in was_set : r[2] = s /\ r[3] = d
      BY DEF MixIsExact
    <2>1. tick = "mix" /\ d \in (Client \ unmixed) \cap present /\ d \in Client
      BY DEF Mixed
    <2>2. Loaded = {"self", "server", "gone"}
      BY <2>1 DEF Loaded
    <2>3. d \notin mixes[d] /\ mixes[d] \subseteq client_frames /\ client_frames \subseteq voice
      BY <2>1 DEF MixInv, MixedIsExact, Types
    <2>4. ASSUME NEW s \in mixes[d], NEW r \in Reason, r[2] = s, r[3] = d
          PROVE  r \in was_clear
      <3>1. r = About(r[1], s, d) /\ r[1] \in {"self", "server", "blocked", "gone"}
        BY <2>4, ReasonAbout
      <3>2. CASE r[1] = "blocked"
        BY <2>1, <2>4, <3>1, <3>2 DEF MixInv, MixedIsExact
      <3>3. CASE r[1] # "blocked"
        BY <2>1, <2>2, <2>3, <2>4, <3>1, <3>3 DEF MixInv, ActiveIsExact
      <3>4. QED
        BY <3>2, <3>3
    <2>5. ASSUME NEW s \in voice \ (mixes[d] \cup {d})
          PROVE  \E r \in was_set : r[2] = s /\ r[3] = d
      <3>1. \E k \in {"self", "server", "gone", "blocked"} : About(k, s, d) \in was_set
        <4>1. CASE s \in client_frames
          BY <2>1, <2>5, <4>1 DEF MixInv, MixedIsExact
        <4>2. CASE s \notin client_frames
          BY <2>1, <2>2, <2>5, <4>2 DEF MixInv, ActiveIsExact
        <4>3. QED
          BY <4>1, <4>2
      <3>2. QED
        BY <3>1 DEF About
    <2>6. QED
      BY <2>3, <2>4, <2>5
  <1>2. QED
    BY <1>1, MixInvariant, PTL

-----------------------------------------------------------------------------
(* The budgets: nothing on its way is more than what was given out. *)

\* How much is in a set that is empty or holds one thing.
Count(S) == IF S = {} THEN 0 ELSE 1

Streamed(k) == Len(commands[k])
Turns == Count(due)
Rosters == Count(info)
Unread == Len(pushes)
Given(k) == issued[k]

Counted ==
    /\ issued \in [Kind -> Nat] /\ \A k \in Kind : issued[k] <= Budget[k]
    /\ refused \in 0..MaxRefuse /\ infos \in 0..MaxInfo
    /\ spoiled \subseteq Spoilers
    /\ \A k \in Kind : Streamed(k) <= issued[k]

\* Each command makes one push at most, and so does each roster.
Balanced ==
    Streamed("self") + Streamed("server") + Turns + Rosters + Unread
        <= Given("self") + Given("server") + infos

\* The lengths are numbers, and so are the budgets.
LEMMA Lengths ==
  ASSUME Typed
  PROVE  /\ \A k \in Kind : Streamed(k) \in Nat /\ Budget[k] \in Nat
         /\ Unread \in Nat /\ Turns \in Nat /\ Rosters \in Nat
         /\ Turns <= 1 /\ Rosters <= 1
         /\ MaxRefuse \in Nat /\ MaxInfo \in Nat
  <1>1. \A k \in Kind : Streamed(k) \in Nat
    BY DEF Typed, Streamed
  <1>2. MaxToggle \in Nat /\ MaxForce \in Nat /\ MaxRefuse \in Nat /\ MaxInfo \in Nat
    BY MuteConstants
  <1>3. \A k \in Kind : Budget[k] \in Nat
    BY <1>2 DEF Budget, Kind
  <1>4. QED
    BY <1>1, <1>2, <1>3 DEF Typed, Count, Unread, Turns, Rosters

\* The first command of a stream is taken.
LEMMA TakeLength ==
  ASSUME Typed, NEW k \in Kind, commands[k] # <<>>,
         commands' = [commands EXCEPT ![k] = Tail(@)]
  PROVE  /\ Streamed(k)' = Streamed(k) - 1
         /\ \A j \in Kind : j # k => commands'[j] = commands[j]
  <1>1. commands[k] \in Seq(BOOLEAN) /\ commands'[k] = Tail(commands[k])
    BY DEF Typed
  <1>2. Len(Tail(commands[k])) = Streamed(k) - 1
    BY <1>1 DEF Streamed
  <1>3. QED
    BY <1>1, <1>2 DEF Typed, Streamed

\* The terms of the balance, one by one.
LEMMA Terms ==
  ASSUME Typed, Counted
  PROVE  /\ Streamed("self") \in Nat /\ Streamed("server") \in Nat
         /\ Given("self") \in Nat /\ Given("server") \in Nat /\ infos \in Nat
         /\ Unread \in Nat /\ Turns \in Nat /\ Rosters \in Nat
         /\ Turns <= 1 /\ Rosters <= 1
  BY Lengths, MuteConstants DEF Counted, Kind, Given

\* What keeps a term as it is.
LEMMA SameTerms ==
  /\ due' = due => Turns' = Turns
  /\ info' = info => Rosters' = Rosters
  /\ pushes' = pushes => Unread' = Unread
  /\ \A k \in Kind : commands'[k] = commands[k] => Streamed(k)' = Streamed(k)
  /\ \A k \in Kind : issued'[k] = issued[k] => Given(k)' = Given(k)
  BY DEF Turns, Rosters, Unread, Streamed, Given

\* A command is given.
LEMMA IssueCounts ==
  ASSUME Typed, Counted, Balanced, NEW k \in Kind, NEW muted \in BOOLEAN, Issue(k, muted)
  PROVE  Counted' /\ Balanced' /\ issued' # issued
  <1>1. /\ issued[k] < Budget[k] /\ issued' = [issued EXCEPT ![k] = issued[k] + 1]
        /\ commands' = [commands EXCEPT ![k] = Append(commands[k], muted)]
        /\ UNCHANGED <<due, info, pushes, refused, infos, spoiled>>
    BY DEF Issue
  <1>2. commands[k] \in Seq(BOOLEAN) /\ commands'[k] = Append(commands[k], muted)
    BY <1>1 DEF Typed
  <1>3. Streamed(k)' = Streamed(k) + 1
    BY <1>2, AppendProperties DEF Streamed
  <1>4. \A j \in Kind : j # k => commands'[j] = commands[j] /\ issued'[j] = issued[j]
    BY <1>1 DEF Typed, Counted
  <1>5. issued[k] \in Nat /\ issued'[k] = issued[k] + 1 /\ issued' \in [Kind -> Nat]
    BY <1>1 DEF Counted
  <1>6. Given(k)' = Given(k) + 1
    BY <1>5 DEF Given
  <1>7. \A j \in Kind : j # k => Streamed(j)' = Streamed(j) /\ Given(j)' = Given(j)
    BY <1>4, SameTerms
  <1>8. Turns' = Turns /\ Rosters' = Rosters /\ Unread' = Unread
    BY <1>1, SameTerms
  <1>9. Counted'
    BY <1>1, <1>3, <1>4, <1>5, <1>7, Lengths DEF Counted
  <1>10. Balanced'
    <2>1. infos' = infos
      BY <1>1
    <2>2. CASE k = "self"
      <3>1. UNCHANGED <<Streamed("server"), Given("server")>>
        BY <1>7, <2>2 DEF Kind
      <3>2. Streamed("self")' = Streamed("self") + 1 /\ Given("self")' = Given("self") + 1
        BY <1>3, <1>6, <2>2
      <3>3. QED
        BY <1>8, <2>1, <3>1, <3>2, Terms DEF Balanced
    <2>3. CASE k = "server"
      <3>1. UNCHANGED <<Streamed("self"), Given("self")>>
        BY <1>7, <2>3 DEF Kind
      <3>2. Streamed("server")' = Streamed("server") + 1 /\ Given("server")' = Given("server") + 1
        BY <1>3, <1>6, <2>3
      <3>3. QED
        BY <1>8, <2>1, <3>1, <3>2, Terms DEF Balanced
    <2>4. QED
      BY <2>2, <2>3 DEF Kind
  <1>11. QED
    BY <1>5, <1>9, <1>10

\* A push is made.
LEMMA TellLength ==
  ASSUME Typed, NEW p \in Push, pushes' = Append(pushes, p)
  PROVE  Unread' = Unread + 1
  BY AppendProperties DEF Typed, Unread

\* Only what is issued and spoiled enters Counted beside the streams.
LEMMA CountedKept ==
  ASSUME Counted, UNCHANGED <<issued, refused, infos>>, spoiled' \subseteq Spoilers,
         \A k \in Kind : Streamed(k) \in Nat /\ Streamed(k)' \in Int /\ Streamed(k)' <= Streamed(k)
  PROVE  Counted'
  BY DEF Counted

\* Every action keeps the budgets.
LEMMA CountsStep ==
  ASSUME Typed, Counted, Balanced, [Next]_vars
  PROVE  Counted' /\ Balanced'
  <1>0. /\ \A k \in Kind : Streamed(k) \in Nat /\ Budget[k] \in Nat /\ issued[k] \in Nat
        /\ Unread \in Nat /\ Turns \in Nat /\ Rosters \in Nat /\ infos \in Nat
        /\ spoiled \subseteq Spoilers /\ \A x : Count({x}) = 1 /\ Count({}) = 0
    BY Lengths, MuteConstants DEF Counted, Count
  <1>k. "self" \in Kind /\ "server" \in Kind /\ \A k \in Kind : k = "self" \/ k = "server"
    BY DEF Kind
  <1>1. CASE ToggleMute
    <2>1. shown' = [shown EXCEPT !["self"] = ~@] /\ Issue("self", shown'["self"])
      BY <1>1 DEF ToggleMute
    <2>2. shown'["self"] \in BOOLEAN
      BY <2>1 DEF Typed, Kind
    <2>3. QED
      BY <2>1, <2>2, <1>k, IssueCounts
  <1>2. CASE ForceMute
    BY <1>2, <1>k, IssueCounts DEF ForceMute
  <1>3. CASE StoreMute
    <2>1. /\ Streamed("self")' = Streamed("self") - 1
          /\ commands'["server"] = commands["server"]
      BY <1>3, <1>k, TakeLength DEF StoreMute, Store
    <2>2. Unread' = Unread + 1
      <3>1. Head(commands["self"]) \in BOOLEAN
        BY <1>3, TakeCommand DEF StoreMute, Store, Typed, Kind
      <3>2. PeerMuted("self", Head(commands["self"])) \in Push
        BY <3>1, PeerMutedType DEF Kind
      <3>3. QED
        BY <1>3, <3>2, TellLength DEF StoreMute, Tell
    <2>3. UNCHANGED <<issued, info, due, refused, infos, spoiled>>
      BY <1>3 DEF StoreMute, Store, ui_vars
    <2>4. UNCHANGED <<Streamed("server"), Given("self"), Given("server"), Turns, Rosters>>
      BY <2>1, <2>3, <1>k, SameTerms
    <2>5. Counted'
      BY <1>0, <1>k, <2>1, <2>3, <2>4, CountedKept
    <2>6. Balanced'
      BY <2>1, <2>2, <2>3, <2>4, Terms DEF Balanced
    <2>7. QED
      BY <2>5, <2>6
  <1>4. CASE StoreServerMute
    <2>1. /\ Streamed("server")' = Streamed("server") - 1
          /\ commands'["self"] = commands["self"]
      BY <1>4, <1>k, TakeLength DEF StoreServerMute, Store
    <2>2. Turns = 0 /\ Turns' = 1
      BY <1>0, <1>4 DEF StoreServerMute, Turns
    <2>3. UNCHANGED <<issued, info, pushes, refused, infos, spoiled>>
      BY <1>4 DEF StoreServerMute, Store, ui_vars
    <2>4. UNCHANGED <<Streamed("self"), Given("self"), Given("server"), Rosters, Unread>>
      BY <2>1, <2>3, <1>k, SameTerms
    <2>5. Counted'
      BY <1>0, <1>k, <2>1, <2>3, <2>4, CountedKept
    <2>6. Balanced'
      BY <2>1, <2>2, <2>3, <2>4, Terms DEF Balanced
    <2>7. QED
      BY <2>5, <2>6
  <1>5. CASE PushServerMute
    <2>1. PICK muted \in due : Tell("server", muted)
      BY <1>5 DEF PushServerMute
    <2>2. Unread' = Unread + 1
      <3>1. PeerMuted("server", muted) \in Push
        BY PeerMutedType DEF Typed, Kind
      <3>2. QED
        BY <2>1, <3>1, TellLength DEF Tell
    <2>3. Turns = 1 /\ Turns' = 0
      BY <1>5, <2>1 DEF PushServerMute, Turns, Count
    <2>4. UNCHANGED <<issued, commands, info, refused, infos, spoiled>>
      BY <1>5 DEF PushServerMute, ui_vars
    <2>5. UNCHANGED <<Streamed("self"), Streamed("server"), Given("self"), Given("server"), Rosters>>
      BY <2>4, <1>k, SameTerms
    <2>6. Counted'
      BY <1>0, <1>k, <2>4, <2>5, CountedKept
    <2>7. Balanced'
      BY <2>2, <2>3, <2>4, <2>5, Terms DEF Balanced
    <2>8. QED
      BY <2>6, <2>7
  <1>6. ASSUME NEW k \in Kind, Refuse(k) PROVE Counted' /\ Balanced'
    <2>1. /\ Streamed(k)' = Streamed(k) - 1
          /\ \A j \in Kind : j # k => Streamed(j)' = Streamed(j)
      BY <1>6, TakeLength, SameTerms DEF Refuse
    <2>2. UNCHANGED <<issued, due, info, pushes, infos>>
      BY <1>6 DEF Refuse, ui_vars
    <2>3. refused' \in 0..MaxRefuse /\ spoiled' \subseteq Spoilers
      <3>1. refused \in Nat /\ MaxRefuse \in Nat
        BY MuteConstants DEF Counted
      <3>2. refused' = refused + 1 /\ refused < MaxRefuse
        BY <1>6 DEF Refuse
      <3>3. spoiled' \subseteq Spoilers
        BY <1>6 DEF Refuse, Counted, Spoilers
      <3>4. QED
        BY <3>1, <3>2, <3>3
    <2>4. \A j \in Kind : Streamed(j)' \in Int /\ Streamed(j)' <= Streamed(j)
      BY <1>0, <2>1
    <2>5. UNCHANGED <<Given("self"), Given("server"), Turns, Rosters, Unread>>
      BY <2>2, <1>k, SameTerms
    <2>6. Counted'
      BY <1>0, <2>2, <2>3, <2>4 DEF Counted
    <2>7. Balanced'
      BY <1>k, <2>2, <2>4, <2>5, Terms DEF Balanced
    <2>8. QED
      BY <2>6, <2>7
  <1>7. CASE BuildInfo
    <2>1. infos' \in 0..MaxInfo /\ infos' = infos + 1
      BY <1>7, MuteConstants DEF BuildInfo, Counted
    <2>2. Rosters' = 1
      BY <1>0, <1>7 DEF BuildInfo, Rosters
    <2>3. UNCHANGED <<issued, commands, due, pushes, refused, spoiled>>
      BY <1>7 DEF BuildInfo, ui_vars
    <2>4. /\ UNCHANGED <<Given("self"), Given("server"), Turns, Unread>>
          /\ \A k \in Kind : Streamed(k)' = Streamed(k)
      BY <2>3, <1>k, SameTerms
    <2>5. Counted'
      BY <2>1, <2>3, <2>4 DEF Counted
    <2>6. Balanced'
      BY <1>0, <1>k, <2>1, <2>2, <2>4, Terms DEF Balanced
    <2>7. QED
      BY <2>5, <2>6
  <1>8. CASE PushInfo
    <2>1. PICK roster \in info :
             /\ pushes' = Append(pushes, roster)
             /\ spoiled' = IF roster = flags THEN spoiled ELSE spoiled \cup {"roster stale"}
      BY <1>8 DEF PushInfo
    <2>2. Unread' = Unread + 1
      <3>1. roster \in Push
        BY DEF Typed, Push
      <3>2. QED
        BY <2>1, <3>1, TellLength
    <2>3. Rosters = 1 /\ Rosters' = 0
      BY <1>8, <2>1 DEF PushInfo, Rosters, Count
    <2>4. UNCHANGED <<issued, commands, due, refused, infos>> /\ spoiled' \subseteq Spoilers
      BY <1>8, <2>1 DEF PushInfo, ui_vars, Counted, Spoilers
    <2>5. UNCHANGED <<Streamed("self"), Streamed("server"), Given("self"), Given("server"), Turns>>
      BY <2>4, <1>k, SameTerms
    <2>6. Counted'
      BY <1>0, <1>k, <2>4, <2>5, CountedKept
    <2>7. Balanced'
      BY <2>2, <2>3, <2>4, <2>5, Terms DEF Balanced
    <2>8. QED
      BY <2>6, <2>7
  <1>9. CASE ReadPush
    <2>1. Unread' = Unread - 1
      <3>1. pushes # <<>> /\ pushes' = Tail(pushes) /\ pushes \in Seq(Push)
        BY <1>9 DEF ReadPush, Typed
      <3>2. QED
        BY <3>1 DEF Unread
    <2>2. UNCHANGED <<issued, commands, due, info, refused, infos, spoiled>>
      BY <1>9 DEF ReadPush
    <2>3. /\ UNCHANGED <<Streamed("self"), Streamed("server"), Given("self"), Given("server")>>
          /\ UNCHANGED <<Turns, Rosters>>
      BY <2>2, <1>k, SameTerms
    <2>4. Counted'
      BY <1>0, <1>k, <2>2, <2>3, CountedKept
    <2>5. Balanced'
      BY <2>1, <2>2, <2>3, Terms DEF Balanced
    <2>6. QED
      BY <2>4, <2>5
  <1>10. CASE Overtake
    <2>1. PICK k \in 1..(Len(pushes) - 1) :
             pushes' = [pushes EXCEPT ![k] = pushes[k + 1], ![k + 1] = pushes[k]]
      BY <1>10 DEF Overtake
    <2>2. Unread' = Unread
      <3>1. pushes \in Seq(Push) /\ pushes' \in Seq(Push) /\ DOMAIN pushes' = DOMAIN pushes
        BY <2>1, SwapType DEF Typed
      <3>2. QED
        BY <3>1 DEF Unread
    <2>3. UNCHANGED <<issued, commands, due, info, refused, infos>> /\ spoiled' \subseteq Spoilers
      BY <1>10 DEF Overtake, ui_vars, Counted, Spoilers
    <2>4. /\ UNCHANGED <<Streamed("self"), Streamed("server"), Given("self"), Given("server")>>
          /\ UNCHANGED <<Turns, Rosters>>
      BY <2>3, <1>k, SameTerms
    <2>5. Counted'
      BY <1>0, <1>k, <2>3, <2>4, CountedKept
    <2>6. Balanced'
      BY <2>2, <2>3, <2>4 DEF Balanced
    <2>7. QED
      BY <2>5, <2>6
  <1>11. CASE UNCHANGED vars
    <2>1. UNCHANGED <<issued, commands, due, info, pushes, refused, infos, spoiled>>
      BY <1>11 DEF vars, ui_vars
    <2>2. /\ UNCHANGED <<Streamed("self"), Streamed("server"), Given("self"), Given("server")>>
          /\ UNCHANGED <<Turns, Rosters, Unread>>
      BY <2>1, <1>k, SameTerms
    <2>3. QED
      BY <1>0, <1>k, <2>1, <2>2, CountedKept DEF Balanced
  <1>12. QED
    BY <1>1, <1>2, <1>3, <1>4, <1>5, <1>6, <1>7, <1>8, <1>9, <1>10, <1>11 DEF Next

\* From the start.
LEMMA CountsStart == Init => Typed /\ Counted /\ Balanced
  <1> SUFFICES ASSUME Init PROVE Typed /\ Counted /\ Balanced
    OBVIOUS
  <1>1. Typed
    BY DEF Init, Typed, Unmuted
  <1>2. \A k \in Kind : Streamed(k) = 0 /\ issued[k] = 0 /\ Given(k) = 0
    BY DEF Init, Streamed, Given
  <1>3. Counted
    BY <1>1, <1>2, Lengths DEF Init, Counted
  <1>4. Turns = 0 /\ Rosters = 0 /\ Unread = 0 /\ infos = 0
    BY DEF Init, Turns, Rosters, Unread, Count
  <1>5. Balanced
    BY <1>2, <1>4 DEF Balanced, Kind
  <1>6. QED
    BY <1>1, <1>3, <1>5

\* What the budgets say of the types.
LEMMA CountsType ==
  ASSUME Typed, Counted, Balanced
  PROVE  TypeOK
  <1>1. /\ \A k \in Kind : Streamed(k) \in Nat /\ issued[k] \in Nat /\ Budget[k] \in Nat
        /\ Unread \in Nat /\ infos \in Nat
    BY Lengths, MuteConstants DEF Counted
  <1>2. /\ Given("self") <= MaxToggle /\ Given("server") <= MaxForce /\ infos <= MaxInfo
        /\ MaxToggle \in Nat /\ MaxForce \in Nat /\ MaxInfo \in Nat
    BY MuteConstants DEF Counted, Budget, Kind, Given
  <1>3. Streamed("self") \in Nat /\ Streamed("server") \in Nat
    BY <1>1 DEF Kind
  <1>4. Unread <= MaxToggle + MaxForce + MaxInfo
    BY <1>2, <1>3, Terms DEF Balanced
  <1>5. Len(pushes) <= MaxToggle + MaxForce + MaxInfo
    BY <1>4 DEF Unread
  <1>6. \A k \in Kind : Len(commands[k]) <= Budget[k] /\ issued[k] \in 0..Budget[k]
    BY <1>1 DEF Counted, Streamed
  <1>7. \A i \in DOMAIN pushes : pushes[i] \in Push
    BY DEF Typed
  <1>8. QED
    BY <1>5, <1>6, <1>7 DEF TypeOK, Typed, Counted
-----------------------------------------------------------------------------
(* What a tick does with the flags shown. *)

\* Every step of the mixing is one of the flags, or leaves them.
LEMMA MixingMutes == MixingSpec => Spec
  <1>1. MixingInit => Init
    BY DEF MixingInit
  <1>2. [MixingNext]_<<vars, mixing_vars>> => [Next]_vars
    BY DEF MixingNext
  <1>3. QED
    BY <1>1, <1>2, PTL DEF MixingSpec, Spec

\* The flags settle beside a mix task as they do without one.
THEOREM FlagsAgreeMixing == MixingSpec => []FlagsSettle
  BY MixingMutes, FlagsAgree, PTL

\* While a promise holds, no command is on its way, so no flag changes.
Quieted == \A told \in promise : told = flags /\ \A k \in Kind : commands[k] = <<>>

\* A flag that was promised has silenced the talker once it has been loaded.
Silenced ==
    \A told \in promise :
        /\ tick # "wait" /\ told["self"] => Talker \notin client_frames
        /\ tick = "mix" /\ told["server"] => Talker \notin client_frames

TickTypes ==
    /\ Talker \in present
    /\ was_set \subseteq Reason /\ was_clear \subseteq Reason
    /\ promise \subseteq [Kind -> BOOLEAN]
    /\ mixes \in [Client -> SUBSET client_frames]
    /\ tick # "mix" => mixes = [d \in Client |-> {}]

Ticking == Counted /\ Balanced /\ TickTypes /\ Quieted /\ Silenced

\* The talker is no other.
LEMMA TalkerStays ==
  ASSUME Talker \in present, MixStep
  PROVE  Talker \in present'
  BY MixingConstants DEF MixStep, BlockPeer, UnblockPeer, Depart, PopFrames, LoadServerMuted,
         MixFor, EndTick

\* What silences is a reason.
LEMMA SilencingType ==
  ASSUME present' \subseteq Client, blocked' \subseteq Other
  PROVE  Silencing' \subseteq Reason
  BY DEF Silencing, Reason

\* The types of the tick.
LEMMA TickTypesStep ==
  ASSUME MixInv, MixInv', Settling, TickTypes, MixingNext
  PROVE  TickTypes'
  <1>1. present' \subseteq Client /\ blocked' \subseteq Other /\ shown \in [Kind -> BOOLEAN]
    BY DEF MixInv, Types, Settling, Typed
  <1>2. History /\ Silencing' \subseteq Reason
    BY <1>1, SilencingType DEF MixingNext
  <1>3. was_set' \subseteq Reason /\ was_clear' \subseteq Reason /\ promise' \subseteq [Kind -> BOOLEAN]
    BY <1>1, <1>2 DEF History, TickTypes
  <1>4. Talker \in present'
    <2>1. CASE UNCHANGED present
      BY <2>1 DEF TickTypes
    <2>2. CASE MixStep
      BY <2>2, TalkerStays DEF TickTypes
    <2>3. QED
      BY <2>1, <2>2 DEF MixingNext
  <1>5. /\ mixes' \in [Client -> SUBSET client_frames']
        /\ tick' # "mix" => mixes' = [d \in Client |-> {}]
    <2>1. CASE UNCHANGED mix_vars
      BY <2>1 DEF TickTypes, mix_vars
    <2>2. CASE PopFrames
      BY <2>2 DEF PopFrames, Go, TickTypes
    <2>3. CASE LoadServerMuted
      BY <2>3 DEF LoadServerMuted, Go, TickTypes
    <2>4. ASSUME NEW d \in Client, MixFor(d)
          PROVE  mixes' \in [Client -> SUBSET client_frames'] /\ tick' = "mix"
      <3>1. Sources(d) \subseteq client_frames
        BY DEF Sources
      <3>2. QED
        BY <2>4, <3>1 DEF MixFor, TickTypes
    <2>5. CASE EndTick
      BY <2>5 DEF EndTick, Go
    <2>6. QED
      BY <2>1, <2>2, <2>3, <2>4, <2>5
      DEF MixingNext, MixStep, BlockPeer, UnblockPeer, Depart
  <1>6. QED
    BY <1>3, <1>4, <1>5 DEF TickTypes

\* A step of the flags that gives no command, when none is on its way.
LEMMA QuietStep ==
  ASSUME Typed, Counted, Balanced, Next, issued' = issued, \A k \in Kind : commands[k] = <<>>
  PROVE  UNCHANGED <<flags, commands>>
  <1>1. ~ToggleMute
    <2>1. ASSUME ToggleMute PROVE FALSE
      <3>1. shown'["self"] \in BOOLEAN /\ Issue("self", shown'["self"])
        BY <2>1 DEF ToggleMute, Typed, Kind
      <3>2. QED
        BY <3>1, IssueCounts DEF Kind
    <2>2. QED
      BY <2>1
  <1>2. ~ForceMute
    BY IssueCounts DEF ForceMute, Kind
  <1>3. \A k \in Kind : ~Store(k) /\ ~Refuse(k)
    BY DEF Store, Refuse
  <1>4. ~StoreMute /\ ~StoreServerMute
    BY <1>3 DEF StoreMute, StoreServerMute, Kind
  <1>5. QED
    BY <1>1, <1>2, <1>3, <1>4
    DEF Next, PushServerMute, BuildInfo, PushInfo, ReadPush, Overtake, ui_vars

\* A promise is made of what the flags are, and kept by dropping it in time.
LEMMA QuietedStep ==
  ASSUME MixInv, Settling, Counted, Balanced, Quieted, MixingNext
  PROVE  Quieted'
  <1>1. Typed /\ History
    BY DEF Settling, MixingNext
  <1>2. CASE promise' = {}
    BY <1>2 DEF Quieted
  <1>3. CASE promise' # {} /\ Next /\ UNCHANGED <<present, blocked, mix_vars>>
    <2>1. tick' = tick /\ tick # "wait" /\ issued' = issued
      BY <1>1, <1>3 DEF History, mix_vars
    <2>2. promise' = promise
      BY <1>1, <2>1 DEF History
    <2>3. UNCHANGED <<flags, commands>>
      BY <1>1, <1>3, <2>1, <2>2, QuietStep DEF Quieted
    <2>4. QED
      BY <2>2, <2>3 DEF Quieted
  <1>4. CASE promise' # {} /\ MixStep /\ UNCHANGED vars
    <2>1. UNCHANGED <<flags, commands, issued>>
      BY <1>4 DEF vars, ui_vars
    <2>2. ASSUME Quiet, spoiled = {}
          PROVE  shown = flags /\ \A k \in Kind : commands[k] = <<>>
      BY <2>2, SettlingAgrees DEF FlagsSettle, Quiet
    <2>3. promise' = promise \/ (promise' = {shown} /\ Quiet /\ spoiled = {})
      BY <1>1, <1>4, <2>1 DEF History
    <2>4. QED
      BY <2>1, <2>2, <2>3 DEF Quieted
  <1>5. QED
    BY <1>2, <1>3, <1>4 DEF MixingNext

\* The loads of a quiet tick find what was promised.
LEMMA SilencedStep ==
  ASSUME MixInv, Quieted, Quieted', Silenced, MixingNext
  PROVE  Silenced'
  <1>1. History
    BY DEF MixingNext
  <1>2. SUFFICES ASSUME NEW told \in promise'
                 PROVE  /\ tick' # "wait" /\ told["self"] => Talker \notin client_frames'
                        /\ tick' = "mix" /\ told["server"] => Talker \notin client_frames'
    BY DEF Silenced
  <1>3. told = flags' /\ tick' # "wait"
    BY <1>1, <1>2 DEF Quieted, History
  <1>4. CASE UNCHANGED <<tick, client_frames>>
    <2>1. told \in promise
      BY <1>1, <1>3, <1>4 DEF History
    <2>2. QED
      BY <1>4, <2>1 DEF Silenced
  <1>5. CASE PopFrames /\ UNCHANGED vars
    BY <1>3, <1>5 DEF PopFrames, Go, Pushed, LoadFlag, vars
  <1>6. CASE LoadServerMuted /\ UNCHANGED vars
    <2>1. told \in promise /\ tick = "pop"
      BY <1>1, <1>2, <1>6 DEF History, LoadServerMuted, Go
    <2>2. client_frames' = IF flags["server"] THEN client_frames \ {Talker} ELSE client_frames
      BY <1>6 DEF LoadServerMuted, LoadFlag
    <2>3. flags' = flags
      BY <1>6 DEF vars
    <2>4. QED
      BY <1>3, <2>1, <2>2, <2>3 DEF Silenced
  <1>7. CASE EndTick
    BY <1>3, <1>7 DEF EndTick, Go
  <1>8. QED
    BY <1>4, <1>5, <1>6, <1>7
    DEF MixingNext, MixStep, BlockPeer, UnblockPeer, Depart, MixFor, mix_vars

\* All of it together.
LEMMA TickingInvariant == MixingSpec => [](MixInv /\ Settling /\ Ticking)
  <1>1. MixingInit => Ticking
    <2> SUFFICES ASSUME MixingInit PROVE Ticking
      OBVIOUS
    <2>1. Counted /\ Balanced
      BY CountsStart DEF MixingInit
    <2>2. TickTypes /\ Quieted /\ Silenced
      BY DEF MixingInit, TickTypes, Quieted, Silenced, Client
    <2>3. QED
      BY <2>1, <2>2 DEF Ticking
  <1>2. MixInv /\ MixInv' /\ Settling /\ Ticking /\ [MixingNext]_<<vars, mixing_vars>> => Ticking'
    <2> SUFFICES ASSUME MixInv, MixInv', Settling, Ticking, [MixingNext]_<<vars, mixing_vars>>
                 PROVE  Ticking'
      OBVIOUS
    <2>1. Typed /\ Counted /\ Balanced /\ TickTypes /\ Quieted /\ Silenced
      BY DEF Settling, Ticking
    <2>2. Counted' /\ Balanced'
      BY <2>1, CountsStep DEF MixingNext
    <2>3. CASE MixingNext
      BY <2>1, <2>2, <2>3, TickTypesStep, QuietedStep, SilencedStep DEF Ticking
    <2>4. CASE UNCHANGED <<vars, mixing_vars>>
      <3>1. UNCHANGED <<present, mix_vars, was_set, was_clear, promise, flags, commands>>
        BY <2>4 DEF vars, mixing_vars
      <3>2. TickTypes' /\ Quieted' /\ Silenced'
        BY <2>1, <3>1 DEF TickTypes, Quieted, Silenced, mix_vars
      <3>3. QED
        BY <2>2, <3>2 DEF Ticking
    <2>5. QED
      BY <2>3, <2>4
  <1>3. MixingSpec => []MixInv
    BY MixInvariant
  <1>4. MixingSpec => []Settling
    BY MixingMutes, SettlingInvariant, PTL
  <1>5. QED
    BY <1>1, <1>2, <1>3, <1>4, PTL DEF MixingSpec

\* Every variable has its type; no queue is longer than the commands and the
\* rosters that were given out; nobody is mixed that has no active frame.
THEOREM MixingTypeCorrect == MixingSpec => []MixingTypeOK
  <1>1. MixInv /\ Settling /\ Ticking => MixingTypeOK
    <2> SUFFICES ASSUME MixInv, Settling, Ticking PROVE MixingTypeOK
      OBVIOUS
    <2>1. TypeOK
      BY CountsType DEF Settling, Ticking
    <2>2. QED
      BY <2>1 DEF MixInv, Types, Ticking, TickTypes, MixingTypeOK
  <1>2. QED
    BY <1>1, TickingInvariant, PTL

\* When a tick begins with nothing on its way and no command is given while it
\* runs, a talker that is shown as muted or silenced is heard by nobody, whoever
\* blocks, leaves or reads pushes while the tick loads the flags; unless spoiled
\* as in FlagsSettle. That one shown as heard is heard is not claimed.
THEOREM ShownIsTrue == MixingSpec => []SilentAsShown
  <1>1. MixInv /\ Settling /\ Ticking => SilentAsShown
    <2> SUFFICES ASSUME MixInv, Settling, Ticking,
                        NEW told \in promise, NEW d \in Mixed, Talker \in mixes[d]
                 PROVE  told = [k \in Kind |-> FALSE]
      BY DEF SilentAsShown
    <2>1. tick = "mix" /\ d \in (Client \ unmixed) \cap present
      BY DEF Mixed
    <2>2. Talker \in client_frames
      BY <2>1 DEF MixInv, MixedIsExact
    <2>3. ~told["self"] /\ ~told["server"]
      BY <2>1, <2>2 DEF Ticking, Silenced
    <2>4. told \in [Kind -> BOOLEAN]
      BY DEF Ticking, TickTypes
    <2>5. \A k \in Kind : told[k] = FALSE
      BY <2>3, <2>4 DEF Kind
    <2>6. QED
      BY <2>4, <2>5
  <1>2. QED
    BY <1>1, TickingInvariant, PTL
=============================================================================
