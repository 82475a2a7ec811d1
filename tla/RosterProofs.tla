----------------------------- MODULE RosterProofs -----------------------------
(***************************************************************************)
(* The roster settles, and commands aim at the client the user means: for  *)
(* any clients, names, number of kicks, and order in which the handlers of *)
(* the server and the client interleave.                                   *)
(*                                                                         *)
(* The argument is about the last word on each thing the screen shows: in  *)
(* what is still to be read, the last push that says anything of it is     *)
(* true, unless a later push is due; and reading preserves this, down to   *)
(* the screen itself.                                                      *)
(***************************************************************************)
EXTENDS Roster, FiniteSetTheorems, SequenceTheorems, TLAPS

-----------------------------------------------------------------------------
(* What a push says of the screen.                                         *)

\* A thing that the screen shows: whether a client is in the room, by its id,
\* or whether Me is host.
HostFlag == 0
Shows(x) == IF x = HostFlag THEN is_host ELSE peers[x] > 0

\* m tells it, and says so.
Tells(m, x) ==
    \/ m.type \in {"ClientJoined", "ClientLeft"} /\ x # HostFlag /\ m.client_id = x
    \/ m.type = "YouAreHost" /\ x = HostFlag
    \/ m.type = "RoomInfo" /\ (x = HostFlag => Me \in m.info.clients)
Says(m, x) ==
    \/ m.type = "ClientJoined" \/ m.type = "YouAreHost"
    \/ m.type = "RoomInfo" /\ IF x = HostFlag THEN m.info.host = Me ELSE x \in m.info.clients

IsLast(k, x) ==
    /\ k \in 1..Len(pushes) /\ Tells(pushes[k], x)
    /\ \A l \in 1..Len(pushes) : l > k => ~Tells(pushes[l], x)
Untold(x) == \A k \in 1..Len(pushes) : ~Tells(pushes[k], x)

\* Nothing has been shown yet.
Blank == pc[Me] \in {"out", "joining"}

\* The last word on x, in the pushes or on the screen, says v; if there is one.
LastWord(x, v) ==
    /\ \A k \in 1..Len(pushes) : IsLast(k, x) => (Says(pushes[k], x) <=> v)
    /\ Untold(x) /\ ~Blank => (Shows(x) <=> v)

-----------------------------------------------------------------------------
(* The inductive invariant. *)

Joining == {"joining", "announce"}

Types ==
    /\ clients \subseteq Id /\ host \in Id \cup {0}
    /\ pc \in [Id -> Where] /\ claimed \subseteq Id
    /\ info \in [Id -> RoomInfo]
    /\ left_due \subseteq Id /\ kicks \in 0..MaxKick
    /\ pushes \in Seq(Pushes)
    /\ peers \in [Id -> Nat] /\ is_host \in BOOLEAN
    /\ orders \in Seq(Id) /\ Len(orders) <= kicks
    /\ spoiled \subseteq Spoilers

\* Me is in the room from its join on.
MeStays ==
    /\ Me \in clients <=> pc[Me] # "out"
    /\ pc[Me] \in {"out", "joining", "announce", "in"} /\ Me \notin left_due
    /\ pc[Me] = "out" => pushes = <<>>
    /\ Me \in claimed => host = Me
    /\ host = Me => Me \in clients

\* Nobody is named who has not joined.
Names(m, i) ==
    \/ m.type \in {"ClientJoined", "ClientLeft"} /\ m.client_id = i
    \/ m.type = "RoomInfo" /\ i \in m.info.clients
NotNamed(i) ==
    pc[i] = "out" =>
        /\ i \notin left_due /\ peers[i] = 0
        /\ \A k \in 1..Len(orders) : orders[k] # i
        /\ \A j \in Id : i \notin info[j].clients
        /\ \A k \in 1..Len(pushes) : ~Names(pushes[k], i)

Present(i) ==
    i \in clients => pc[i] \in Joining \cup {"in", "done"} /\ i \notin left_due

\* Its ClientJoined is still to be read, once.
JoinedAt(k, i) == pushes[k].type = "ClientJoined" /\ pushes[k].client_id = i
Coming(i) == pc[i] \in {"out"} \cup Joining \/ \E k \in 1..Len(pushes) : JoinedAt(k, i)
Counted(i) ==
    /\ peers[i] <= 2 /\ (Coming(i) => peers[i] <= 1)
    /\ \A k, l \in 1..Len(pushes) : JoinedAt(k, i) /\ JoinedAt(l, i) => k = l
    /\ pc[i] \in {"out"} \cup Joining => \A k \in 1..Len(pushes) : ~JoinedAt(k, i)

\* The last word on a client is true, or another is due.
Settling(i) ==
    /\ pc[i] \in Joining => i \in clients
    /\ i \in clients /\ (pc[i] = "in" \/ i = Me) => LastWord(i, TRUE)
    /\ i \notin clients \cup left_due /\ pc[i] # "removed" => LastWord(i, FALSE)

HostSettling ==
    /\ host = Me => LastWord(HostFlag, TRUE)
    /\ host # Me => LastWord(HostFlag, FALSE)

RosterInv ==
    /\ Types /\ MeStays
    /\ \A i \in Id : NotNamed(i) /\ Present(i) /\ Counted(i)
    /\ spoiled = {} => (\A i \in Id : Settling(i)) /\ HostSettling

-----------------------------------------------------------------------------
(* The pushes.                                                             *)

\* What each kind of push carries.
LEMMA PushKinds ==
  ASSUME NEW m \in Pushes
  PROVE  /\ m.type \in {"ClientJoined", "ClientLeft", "YouAreHost", "RoomInfo"}
         /\ m.type \in {"ClientJoined", "ClientLeft"} => m.client_id \in Id
         /\ m.type = "RoomInfo" => /\ m.info \in RoomInfo
                                   /\ m.info.clients \subseteq Id
                                   /\ m.info.host \in Id \cup {0}
  BY DEF Pushes, RoomInfo

\* Nothing is pushed to a client that is not in the room.
LEMMA Pushed ==
  ASSUME NEW m \in Pushes, pushes \in Seq(Pushes), MeStays, Push(m)
  PROVE  /\ Me \in clients => pushes' = Append(pushes, m)
         /\ Me \notin clients => pushes' = pushes /\ pushes = <<>>
         /\ pushes' \in Seq(Pushes)
  BY DEF MeStays, Push

\* The last word, where neither the pushes nor the screen change.
LEMMA SameWord ==
  ASSUME NEW x, NEW v, UNCHANGED <<pushes, peers, is_host>>, Blank <=> Blank', LastWord(x, v)
  PROVE  LastWord(x, v)'
  BY DEF LastWord, IsLast, Untold, Shows

\* A push that tells x is the last word on x; another leaves it as it was.
LEMMA AppendedWord ==
  ASSUME NEW m \in Pushes, NEW x, NEW v, pushes \in Seq(Pushes),
         pushes' = Append(pushes, m), UNCHANGED <<peers, is_host>>, Blank <=> Blank'
  PROVE  /\ Tells(m, x) /\ (Says(m, x) <=> v) => LastWord(x, v)'
         /\ ~Tells(m, x) /\ LastWord(x, v) => LastWord(x, v)'
  <1>1. PICK n \in Nat : n = Len(pushes)
    OBVIOUS
  <1>2. /\ Len(pushes') = n + 1 /\ pushes'[n + 1] = m
        /\ \A k \in 1..n : pushes'[k] = pushes[k]
    BY <1>1
  <1>3. \A k \in 1..(n + 1) : k \in 1..n \/ k = n + 1
    BY <1>1
  <1>4. ASSUME Tells(m, x), Says(m, x) <=> v
        PROVE  LastWord(x, v)'
    <2>1. ~Untold(x)'
      BY <1>1, <1>2, <1>4 DEF Untold
    <2>2. ASSUME NEW k \in 1..(n + 1), IsLast(k, x)'
          PROVE  k = n + 1
      <3>1. CASE k \in 1..n
        BY <1>1, <1>2, <1>4, <2>2, <3>1 DEF IsLast
      <3>2. QED
        BY <1>3, <3>1
    <2>3. \A k \in 1..(n + 1) : IsLast(k, x)' => (Says(pushes'[k], x) <=> v)
      BY <1>2, <1>4, <2>2
    <2>4. QED
      BY <1>1, <1>2, <2>1, <2>3 DEF LastWord
  <1>5. ASSUME ~Tells(m, x), LastWord(x, v)
        PROVE  LastWord(x, v)'
    <2>1. ASSUME NEW k \in 1..(n + 1), IsLast(k, x)'
          PROVE  k \in 1..n /\ IsLast(k, x)
      BY <1>1, <1>2, <1>3, <1>5, <2>1 DEF IsLast
    <2>2. \A k \in 1..(n + 1) : IsLast(k, x)' => (Says(pushes'[k], x) <=> v)
      BY <1>1, <1>2, <1>5, <2>1 DEF LastWord
    <2>3. Untold(x)' => Untold(x)
      BY <1>1, <1>2 DEF Untold
    <2>4. Shows(x)' <=> Shows(x)
      BY DEF Shows
    <2>5. QED
      BY <1>1, <1>2, <1>5, <2>2, <2>3, <2>4 DEF LastWord
  <1>6. QED
    BY <1>4, <1>5

\* The same of a push, whether it reaches Me or not.
LEMMA PushedWord ==
  ASSUME NEW m \in Pushes, NEW x, NEW v, pushes \in Seq(Pushes), MeStays, Push(m),
         UNCHANGED <<peers, is_host>>, Blank <=> Blank'
  PROVE  /\ Tells(m, x) /\ (Says(m, x) <=> v) => LastWord(x, v)'
         /\ ~Tells(m, x) /\ LastWord(x, v) => LastWord(x, v)'
         /\ Me \notin clients => LastWord(x, v)'
  <1>1. CASE Me \in clients
    BY <1>1, AppendedWord, Pushed
  <1>2. CASE Me \notin clients
    <2>1. pushes' = <<>> /\ Blank'
      BY <1>2, Pushed DEF MeStays, Blank
    <2>2. QED
      BY <1>2, <2>1 DEF LastWord, IsLast
  <1>3. QED
    BY <1>1, <1>2

\* handle_signal shows what the push says, and nothing else.
LEMMA Handled ==
  ASSUME NEW m \in Pushes, peers \in [Id -> Nat], is_host \in BOOLEAN, HandleSignal(m)
  PROVE  /\ peers' \in [Id -> Nat] /\ is_host' \in BOOLEAN
         /\ \A x \in Id \cup {HostFlag} :
               /\ Tells(m, x) => (Shows(x)' <=> Says(m, x))
               /\ ~Tells(m, x) => (Shows(x)' <=> Shows(x))
  <1>1. HostFlag \notin Id
    BY RosterConstants DEF HostFlag
  <1>2. CASE m.type = "ClientJoined"
    <2>1. m.client_id \in Id
      BY <1>2, PushKinds
    <2>2. peers' = [peers EXCEPT ![m.client_id] = peers[m.client_id] + 1] /\ is_host' = is_host
      BY <1>2 DEF HandleSignal
    <2>3. QED
      BY <1>1, <1>2, <2>1, <2>2 DEF Tells, Says, Shows
  <1>3. CASE m.type = "ClientLeft"
    <2>1. m.client_id \in Id
      BY <1>3, PushKinds
    <2>2. peers' = [peers EXCEPT ![m.client_id] = 0] /\ is_host' = is_host
      BY <1>3 DEF HandleSignal
    <2>3. QED
      BY <1>1, <1>3, <2>1, <2>2 DEF Tells, Says, Shows
  <1>4. CASE m.type = "YouAreHost"
    <2>1. is_host' = TRUE /\ peers' = peers
      BY <1>4 DEF HandleSignal
    <2>2. QED
      BY <1>1, <1>4, <2>1 DEF Tells, Says, Shows
  <1>5. CASE m.type = "RoomInfo"
    <2>1. /\ peers' = [i \in Id |-> IF i \in m.info.clients THEN 1 ELSE 0]
          /\ is_host' = IF Me \in m.info.clients THEN m.info.host = Me ELSE is_host
      BY <1>5 DEF HandleSignal, Shown
    <2>2. peers' \in [Id -> Nat]
      BY <2>1
    <2>3. ASSUME NEW x \in Id
          PROVE  Tells(m, x) /\ (Shows(x)' <=> Says(m, x))
      BY <1>1, <1>5, <2>1 DEF Tells, Says, Shows
    <2>4. CASE Me \in m.info.clients
      <3>1. is_host' = (m.info.host = Me)
        BY <2>1, <2>4
      <3>2. Tells(m, HostFlag) /\ (Shows(HostFlag)' <=> Says(m, HostFlag))
        BY <1>5, <2>4, <3>1 DEF Tells, Says, Shows
      <3>3. QED
        BY <2>2, <2>3, <3>1, <3>2
    <2>5. CASE Me \notin m.info.clients
      <3>1. is_host' = is_host
        BY <2>1, <2>5
      <3>2. ~Tells(m, HostFlag) /\ (Shows(HostFlag)' <=> Shows(HostFlag))
        BY <1>5, <2>5, <3>1 DEF Tells, Says, Shows
      <3>3. QED
        BY <2>2, <2>3, <3>1, <3>2
    <2>6. QED
      BY <2>4, <2>5
  <1>6. QED
    BY <1>2, <1>3, <1>4, <1>5, PushKinds

\* The head of the pushes and what is left of them.
LEMMA HeadAndTail ==
  ASSUME pushes \in Seq(Pushes), pushes # <<>>, pushes' = Tail(pushes)
  PROVE  /\ Head(pushes) = pushes[1] /\ Head(pushes) \in Pushes
         /\ pushes' \in Seq(Pushes) /\ Len(pushes) \in Nat
         /\ Len(pushes') = Len(pushes) - 1
         /\ 1 \in 1..Len(pushes)
         /\ \A k \in 1..Len(pushes') : k + 1 \in 1..Len(pushes) /\ pushes'[k] = pushes[k + 1]
  <1>1. PICK n \in Nat : n = Len(pushes)
    OBVIOUS
  <1>2. n > 0 /\ Len(pushes') = n - 1 /\ \A k \in 1..(n - 1) : pushes'[k] = pushes[k + 1]
    BY <1>1
  <1>3. Head(pushes) = pushes[1] /\ Head(pushes) \in Pushes /\ pushes' \in Seq(Pushes)
    BY <1>1
  <1>4. \A k \in 1..(n - 1) : k + 1 \in 1..n
    BY <1>1
  <1>5. 1 \in 1..n
    BY <1>1, <1>2
  <1>6. QED
    BY <1>1, <1>2, <1>3, <1>4, <1>5

\* Reading leaves every last word as it was.
LEMMA ReadWord ==
  ASSUME NEW x \in Id \cup {HostFlag}, NEW v \in BOOLEAN,
         pushes \in Seq(Pushes), peers \in [Id -> Nat], is_host \in BOOLEAN,
         Read, LastWord(x, v)
  PROVE  LastWord(x, v)'
  <1>1. pushes # <<>> /\ pushes' = Tail(pushes) /\ HandleSignal(Head(pushes)) /\ ~Blank
    BY DEF Read, Blank
  <1>2. PICK n \in Nat : n = Len(pushes)
    BY HeadAndTail, <1>1
  <1>3. /\ Head(pushes) = pushes[1] /\ Head(pushes) \in Pushes /\ 1 \in 1..n
        /\ Len(pushes') = n - 1
        /\ \A k \in 1..(n - 1) : k + 1 \in 1..n /\ pushes'[k] = pushes[k + 1]
    BY HeadAndTail, <1>1, <1>2
  <1>4. ASSUME NEW k \in 1..(n - 1), IsLast(k, x)'
        PROVE  IsLast(k + 1, x)
    <2>1. ASSUME NEW l \in 1..n, l > k + 1
          PROVE  ~Tells(pushes[l], x)
      <3>1. PICK j \in Nat : j = l - 1
        BY <1>2, <2>1
      <3>2. j \in 1..(n - 1) /\ j > k /\ j + 1 = l
        BY <1>2, <2>1, <3>1
      <3>3. ~Tells(pushes'[j], x)
        BY <1>3, <1>4, <3>2 DEF IsLast
      <3>4. QED
        BY <1>3, <3>2, <3>3
    <2>2. k + 1 \in 1..n /\ Tells(pushes[k + 1], x)
      BY <1>3, <1>4 DEF IsLast
    <2>3. QED
      BY <1>2, <2>1, <2>2 DEF IsLast
  <1>5. \A k \in 1..(n - 1) : IsLast(k, x)' => (Says(pushes'[k], x) <=> v)
    <2>1. ASSUME NEW k \in 1..(n - 1), IsLast(k, x)'
          PROVE  Says(pushes'[k], x) <=> v
      <3>1. IsLast(k + 1, x) /\ k + 1 \in 1..n /\ pushes'[k] = pushes[k + 1]
        BY <1>3, <1>4, <2>1
      <3>2. QED
        BY <1>2, <3>1 DEF LastWord
    <2>2. QED
      BY <2>1
  <1>6. ASSUME Untold(x)'
        PROVE  Shows(x)' <=> v
    <2>1. ASSUME NEW l \in 1..n, l > 1
          PROVE  ~Tells(pushes[l], x)
      <3>1. PICK j \in Nat : j = l - 1
        BY <1>2, <2>1
      <3>2. j \in 1..(n - 1) /\ j + 1 = l
        BY <1>2, <2>1, <3>1
      <3>3. QED
        BY <1>3, <1>6, <3>2 DEF Untold
    <2>2. CASE Tells(Head(pushes), x)
      <3>1. IsLast(1, x)
        BY <1>2, <1>3, <2>1, <2>2 DEF IsLast
      <3>2. Says(Head(pushes), x) <=> v
        BY <1>2, <1>3, <3>1 DEF LastWord
      <3>3. QED
        BY <1>1, <1>3, <2>2, <3>2, Handled
    <2>3. CASE ~Tells(Head(pushes), x)
      <3>1. \A l \in 1..n : l = 1 \/ l > 1
        BY <1>2
      <3>2. Untold(x)
        BY <1>2, <1>3, <2>1, <2>3, <3>1 DEF Untold
      <3>3. Shows(x) <=> v
        BY <1>1, <3>2 DEF LastWord
      <3>4. QED
        BY <1>1, <1>3, <2>3, <3>3, Handled
    <2>4. QED
      BY <2>2, <2>3
  <1>7. QED
    BY <1>3, <1>5, <1>6 DEF LastWord

-----------------------------------------------------------------------------
(* Types.                                                                  *)

\* The successor of a host is a client in the room.
LEMMA LowestId ==
  ASSUME NEW S, S \subseteq Id, S # {}
  PROVE  Min(S) \in S
  <1>1. S \subseteq Nat
    BY RosterConstants
  <1> DEFINE Below(x) == {y \in S : y < x}
             Sets == {Below(x) : x \in S}
  <1>2. ASSUME NEW x \in S
        PROVE  Below(x) \in FiniteSubsetsOf(S)
    <2>1. x \in Nat /\ \A y \in Below(x) : y <= x
      BY <1>1
    <2>2. IsFiniteSet(Below(x))
      BY <1>1, <2>1, FS_BoundedSetOfNaturals
    <2>3. QED
      BY <2>2 DEF FiniteSubsetsOf
  <1>3. Sets \subseteq FiniteSubsetsOf(S) /\ Sets # {}
    BY <1>2
  <1>4. PICK T \in Sets : \A U \in Sets : ~(<<U, T>> \in StrictSubsetOrdering(S))
    BY <1>3, FS_StrictSubsetOrderingWellFounded, WFMin
  <1>5. PICK x \in S : T = Below(x)
    BY <1>4
  <1>6. ASSUME NEW y \in S, y < x
        PROVE  FALSE
    <2>1. Below(y) \subseteq Below(x) /\ y \in Below(x) /\ y \notin Below(y)
      <3>1. x \in Nat /\ y \in Nat
        BY <1>1
      <3>2. ASSUME NEW z \in Below(y)
            PROVE  z \in Below(x)
        BY <1>1, <1>6, <3>1
      <3>3. y \in Below(x)
        BY <1>6
      <3>4. y \notin Below(y)
        <4>1. ~(y < y)
          BY <3>1
        <4>2. QED
          BY <4>1
      <3>5. QED
        BY <3>2, <3>3, <3>4
    <2>2. Below(y) \subseteq S /\ Below(x) \subseteq S
      OBVIOUS
    <2>3. <<Below(y), Below(x)>> \in StrictSubsetOrdering(S)
      BY <2>1, <2>2 DEF StrictSubsetOrdering
    <2>4. QED
      BY <1>4, <1>5, <2>3
  <1>7. \A y \in S : x =< y
    BY <1>1, <1>6
  <1>8. QED
    BY <1>7 DEF Min

\* Whom find_peer finds: someone on the screen.
LEMMA Found ==
  ASSUME NEW w, FindPeer(w) # Nobody
  PROVE  /\ FindPeer(w) \in Id /\ peers[FindPeer(w)] > 0
         /\ w = FindPeer(w) \/ Named(w) = {FindPeer(w)}
  <1>1. CASE w \in Id /\ peers[w] > 0
    BY <1>1 DEF FindPeer
  <1>2. CASE ~(w \in Id /\ peers[w] > 0)
    <2>1. Unambiguous(w) /\ FindPeer(w) = Min(Named(w))
      BY <1>2 DEF FindPeer
    <2>2. PICK i \in Named(w) : Named(w) = {i}
      BY <2>1 DEF Unambiguous
    <2>3. Named(w) \subseteq Id
      BY DEF Named
    <2>4. FindPeer(w) \in Named(w)
      BY <2>1, <2>2, <2>3, LowestId
    <2>5. QED
      BY <2>2, <2>4 DEF Named
  <1>3. QED
    BY <1>1, <1>2

\* The orders that are left when one has been handled.
LEMMA OrdersTail ==
  ASSUME orders \in Seq(Id), orders # <<>>
  PROVE  /\ Head(orders) = orders[1] /\ Head(orders) \in Id /\ 1 \in 1..Len(orders)
         /\ Tail(orders) \in Seq(Id) /\ Len(orders) \in Nat
         /\ Len(Tail(orders)) = Len(orders) - 1
         /\ \A k \in 1..Len(Tail(orders)) :
               k + 1 \in 1..Len(orders) /\ Tail(orders)[k] = orders[k + 1]
  <1>1. PICK n \in Nat : n = Len(orders)
    OBVIOUS
  <1>2. n > 0 /\ Len(Tail(orders)) = n - 1
        /\ \A k \in 1..(n - 1) : Tail(orders)[k] = orders[k + 1]
    BY <1>1
  <1>3. Head(orders) = orders[1] /\ Head(orders) \in Id /\ Tail(orders) \in Seq(Id)
    BY <1>1
  <1>4. (\A k \in 1..(n - 1) : k + 1 \in 1..n) /\ 1 \in 1..n
    BY <1>1, <1>2
  <1>5. QED
    BY <1>1, <1>2, <1>3, <1>4

LEMMA TypesStart ==
  ASSUME Init
  PROVE  Types
  <1>1. pushes = <<>> /\ orders = <<>> /\ kicks = 0 /\ spoiled = {}
    BY DEF Init
  <1>2. pushes \in Seq(Pushes) /\ orders \in Seq(Id) /\ Len(orders) =< kicks
    BY <1>1
  <1>3. kicks \in 0..MaxKick
    BY <1>1, RosterConstants
  <1>4. pc \in [Id -> Where] /\ peers \in [Id -> Nat] /\ is_host \in BOOLEAN
    BY DEF Init, Where
  <1>5. info \in [Id -> RoomInfo]
    BY DEF Init, RoomInfo, Empty
  <1>6. /\ clients \subseteq Id /\ host \in Id \cup {0} /\ claimed \subseteq Id
        /\ left_due \subseteq Id
    BY DEF Init
  <1>7. QED
    BY <1>1, <1>2, <1>3, <1>4, <1>5, <1>6 DEF Types

\* A handler preserves them.
LEMMA HandlerTypes ==
  ASSUME Types, MeStays, NEW i \in Id, Handler(i)
  PROVE  Types'
  <1> USE DEF Types
  <1>1. CASE Join(i)
    BY <1>1 DEF Join, Go, Where, ui_vars
  <1>2. CASE SendRoomInfo(i)
    <2>1. peers' \in [Id -> Nat]
      <3>1. Shown([clients |-> clients, host |-> host]) \in [Id -> Nat]
        BY DEF Shown
      <3>2. QED
        BY <1>2, <3>1 DEF SendRoomInfo
    <2>2. is_host' \in BOOLEAN
      BY <1>2 DEF SendRoomInfo
    <2>3. pc' \in [Id -> Where]
      BY <1>2 DEF SendRoomInfo, Go, Where
    <2>4. QED
      BY <1>2, <2>1, <2>2, <2>3 DEF SendRoomInfo
  <1>3. CASE GiveUp(i)
    BY <1>3 DEF GiveUp, Go, Where, ui_vars
  <1>4. CASE Announce(i)
    <2>1. [type |-> "ClientJoined", client_id |-> i] \in Pushes /\ [type |-> "YouAreHost"] \in Pushes
      BY DEF Pushes
    <2>2. pushes' \in Seq(Pushes)
      BY <1>4, <2>1, Pushed DEF Announce
    <2>3. QED
      BY <1>4, <2>2 DEF Announce, Go, Where, ui_vars
  <1>5. CASE Kick(i)
    <2>1. kicks' \in 0..MaxKick /\ Len(orders) =< kicks'
      <3>1. PICK n \in Nat : n = Len(orders)
        OBVIOUS
      <3>2. QED
        BY <1>5, <3>1, RosterConstants DEF Kick
    <2>2. spoiled' \subseteq Spoilers
      BY <1>5 DEF Kick, KickOut, Spoilers
    <2>3. QED
      BY <1>5, <2>1, <2>2 DEF Kick, KickOut
  <1>6. CASE AnnounceKick(i)
    <2>1. [type |-> "ClientLeft", client_id |-> i] \in Pushes
      BY DEF Pushes
    <2>2. pushes' \in Seq(Pushes)
      BY <1>6, <2>1, Pushed DEF AnnounceKick
    <2>3. QED
      BY <1>6, <2>2 DEF AnnounceKick, ui_vars
  <1>7. CASE Leave(i)
    BY <1>7 DEF Leave, Go, Where, ui_vars
  <1>8. CASE AnnounceLeft(i)
    <2>1. [type |-> "ClientLeft", client_id |-> i] \in Pushes
      BY DEF Pushes
    <2>2. pushes' \in Seq(Pushes)
      BY <1>8, <2>1, Pushed DEF AnnounceLeft
    <2>3. QED
      BY <1>8, <2>2 DEF AnnounceLeft, Go, Where, ui_vars
  <1>9. CASE Transfer(i)
    <2>1. [type |-> "YouAreHost"] \in Pushes
      BY DEF Pushes
    <2>2. pushes' \in Seq(Pushes)
      BY <1>9, <2>1, Pushed DEF Transfer
    <2>3. host' \in Id \cup {0}
      BY <1>9, LowestId DEF Transfer
    <2>4. QED
      BY <1>9, <2>2, <2>3 DEF Transfer, Go, Where, ui_vars
  <1>10. CASE BuildInfo(i)
    <2>1. [clients |-> clients, host |-> host] \in RoomInfo
      BY DEF RoomInfo
    <2>2. QED
      BY <1>10, <2>1 DEF BuildInfo, Go, Where, ui_vars
  <1>11. CASE PushInfo(i)
    <2>1. [type |-> "RoomInfo", info |-> info[i]] \in Pushes /\ Empty \in RoomInfo
      BY DEF Pushes, RoomInfo, Empty
    <2>2. pushes' \in Seq(Pushes)
      BY <1>11, <2>1, Pushed DEF PushInfo
    <2>3. spoiled' \subseteq Spoilers
      BY <1>11 DEF PushInfo, Spoilers
    <2>4. QED
      BY <1>11, <2>1, <2>2, <2>3 DEF PushInfo, Go, Where, ui_vars
  <1>12. QED
    BY <1>1, <1>2, <1>3, <1>4, <1>5, <1>6, <1>7, <1>8, <1>9, <1>10, <1>11 DEF Handler

\* So do the steps of Me.
LEMMA MeTypes ==
  ASSUME Types, TypeKick \/ HandleKick \/ Read \/ Overtake \/ UNCHANGED vars
  PROVE  Types'
  <1> USE DEF Types
  <1>1. PICK n \in Nat : n = Len(orders)
    OBVIOUS
  <1>2. CASE TypeKick
    <2>1. PICK w \in Word : FindPeer(w) # Nobody /\ orders' = Append(orders, FindPeer(w))
      BY <1>2 DEF TypeKick
    <2>2. orders' \in Seq(Id) /\ Len(orders') = n + 1
      BY <1>1, <2>1, Found
    <2>3. kicks' \in 0..MaxKick /\ Len(orders') =< kicks'
      BY <1>1, <1>2, <2>2, RosterConstants DEF TypeKick
    <2>4. QED
      BY <1>2, <2>2, <2>3 DEF TypeKick
  <1>3. CASE HandleKick
    <2>1. orders # <<>> /\ orders' = Tail(orders) /\ kicks' = kicks
      BY <1>3 DEF HandleKick
    <2>2. orders' \in Seq(Id) /\ Len(orders') = n - 1 /\ Head(orders) \in Id
      BY <1>1, <2>1, OrdersTail
    <2>3. Len(orders') =< kicks'
      BY <1>1, <2>1, <2>2
    <2>4. /\ clients' \subseteq Id /\ left_due' \subseteq Id /\ spoiled' \subseteq Spoilers
          /\ UNCHANGED <<host, pc, claimed, info, pushes, peers, is_host>>
      BY <1>3, <2>2 DEF HandleKick, KickOut, Spoilers
    <2>5. QED
      BY <2>1, <2>2, <2>3, <2>4
  <1>4. CASE Read
    <2>1. pushes' \in Seq(Pushes) /\ Head(pushes) \in Pushes
      BY <1>4, HeadAndTail DEF Read
    <2>2. peers' \in [Id -> Nat] /\ is_host' \in BOOLEAN
      BY <1>4, <2>1, Handled DEF Read
    <2>3. QED
      BY <1>4, <2>1, <2>2 DEF Read, server_vars
  <1>5. CASE Overtake
    <2>1. PICK k \in 1..(Len(pushes) - 1) :
            pushes' = [pushes EXCEPT ![k] = pushes[k + 1], ![k + 1] = pushes[k]]
      BY <1>5 DEF Overtake
    <2>2. PICK p \in Nat : p = Len(pushes)
      OBVIOUS
    <2>3. k \in 1..p /\ k + 1 \in 1..p
      BY <2>2
    <2>4. pushes[k] \in Pushes /\ pushes[k + 1] \in Pushes
      BY <2>2, <2>3
    <2>5. pushes' \in Seq(Pushes)
      BY <2>1, <2>2, <2>3, <2>4
    <2>6. spoiled' \subseteq Spoilers
      BY <1>5 DEF Overtake, Spoilers
    <2>7. QED
      BY <1>5, <2>5, <2>6 DEF Overtake, server_vars, ui_vars
  <1>6. CASE UNCHANGED vars
    BY <1>6 DEF vars, server_vars, ui_vars
  <1>7. QED
    BY <1>2, <1>3, <1>4, <1>5, <1>6

-----------------------------------------------------------------------------
(* The parts of the invariant that hold whatever has spoiled the screen.   *)

\* Nobody ever removes Me, and Me never hands the host role over.
LEMMA MeStaysHandler ==
  ASSUME Types, MeStays, NEW i \in Id, Handler(i)
  PROVE  MeStays'
  <1> USE DEF MeStays
  <1>1. Me \in Id /\ Me # 0 /\ pc \in [Id -> Where] /\ i # 0
    BY RosterConstants DEF Types
  <1>2. CASE Join(i)
    BY <1>1, <1>2 DEF Join, Go
  <1>3. CASE SendRoomInfo(i)
    BY <1>1, <1>3 DEF SendRoomInfo, Go
  <1>4. CASE GiveUp(i)
    BY <1>1, <1>4 DEF GiveUp, Go
  <1>5. CASE Announce(i)
    BY <1>1, <1>5 DEF Announce, Go, Push
  <1>6. CASE Kick(i)
    BY <1>1, <1>6 DEF Kick, KickOut
  <1>7. CASE AnnounceKick(i)
    BY <1>1, <1>7 DEF AnnounceKick, Push
  <1>8. CASE Leave(i)
    BY <1>1, <1>8 DEF Leave, Go
  <1>9. CASE AnnounceLeft(i)
    BY <1>1, <1>9 DEF AnnounceLeft, Go, Push
  <1>10. CASE Transfer(i)
    <2>1. i # Me /\ pc[i] = "left" /\ UNCHANGED <<clients, claimed, left_due>>
      BY <1>10 DEF Transfer, Go
    <2>2. pc'[Me] = pc[Me]
      BY <1>1, <1>10, <2>1 DEF Transfer, Go
    <2>3. pushes = <<>> /\ Me \notin clients => pushes' = pushes
      BY <1>10 DEF Transfer, Push
    <2>4. host = Me => host' = Me
      BY <1>10, <2>1 DEF Transfer
    <2>5. clients # {} => Min(clients) \in clients
      BY LowestId DEF Types
    <2>6. host' = Me => Me \in clients
      BY <1>1, <1>10, <2>5 DEF Transfer
    <2>7. QED
      BY <2>1, <2>2, <2>3, <2>4, <2>6
  <1>11. CASE BuildInfo(i)
    BY <1>1, <1>11 DEF BuildInfo, Go
  <1>12. CASE PushInfo(i)
    BY <1>1, <1>12 DEF PushInfo, Go, Push
  <1>13. QED
    BY <1>2, <1>3, <1>4, <1>5, <1>6, <1>7, <1>8, <1>9, <1>10, <1>11, <1>12 DEF Handler

LEMMA MeStaysMe ==
  ASSUME Types, MeStays, TypeKick \/ HandleKick \/ Read \/ Overtake \/ UNCHANGED vars
  PROVE  MeStays'
  <1> USE DEF MeStays
  <1>1. CASE TypeKick
    BY <1>1 DEF TypeKick
  <1>2. CASE HandleKick
    BY <1>2 DEF HandleKick, KickOut
  <1>3. CASE Read
    BY <1>3 DEF Read, server_vars
  <1>4. CASE Overtake
    <2>1. PICK k \in 1..(Len(pushes) - 1) : TRUE
      BY <1>4 DEF Overtake
    <2>2. pushes # <<>>
      <3>1. ASSUME pushes = <<>>
            PROVE  FALSE
        <4>1. Len(pushes) = 0
          BY <3>1
        <4>2. QED
          BY <2>1, <4>1
      <3>2. QED
        BY <3>1
    <2>3. QED
      BY <1>4, <2>2 DEF Overtake, server_vars
  <1>5. CASE UNCHANGED vars
    BY <1>5 DEF vars, server_vars
  <1>6. QED
    BY <1>1, <1>2, <1>3, <1>4, <1>5

\* Who is in the room is joining it or has joined, and nobody announces that
\* it left.
LEMMA PresentStep ==
  ASSUME Types, \A i \in Id : NotNamed(i) /\ Present(i), [Next]_vars, NEW j \in Id
  PROVE  Present(j)'
  <1> USE DEF Present, Joining
  <1>1. pc \in [Id -> Where] /\ clients \subseteq Id /\ \A i \in Id : pc[i] = "out" => i \notin left_due
    BY DEF Types, NotNamed
  <1>2. ASSUME NEW i \in Id, Handler(i)
        PROVE  Present(j)'
    <2>1. CASE Join(i)
      BY <1>1, <2>1 DEF Join, Go
    <2>2. CASE SendRoomInfo(i)
      BY <1>1, <2>2 DEF SendRoomInfo, Go
    <2>3. CASE GiveUp(i)
      BY <1>1, <2>3 DEF GiveUp, Go
    <2>4. CASE Announce(i)
      BY <1>1, <2>4 DEF Announce, Go
    <2>5. CASE Kick(i)
      BY <1>1, <2>5 DEF Kick, KickOut
    <2>6. CASE AnnounceKick(i)
      BY <1>1, <2>6 DEF AnnounceKick
    <2>7. CASE Leave(i)
      BY <1>1, <2>7 DEF Leave, Go
    <2>8. CASE AnnounceLeft(i)
      BY <1>1, <2>8 DEF AnnounceLeft, Go
    <2>9. CASE Transfer(i)
      BY <1>1, <2>9 DEF Transfer, Go
    <2>10. CASE BuildInfo(i)
      BY <1>1, <2>10 DEF BuildInfo, Go
    <2>11. CASE PushInfo(i)
      BY <1>1, <2>11 DEF PushInfo, Go
    <2>12. QED
      BY <1>2, <2>1, <2>2, <2>3, <2>4, <2>5, <2>6, <2>7, <2>8, <2>9, <2>10, <2>11 DEF Handler
  <1>3. CASE HandleKick
    BY <1>1, <1>3 DEF HandleKick, KickOut
  <1>4. CASE TypeKick \/ Read \/ Overtake \/ UNCHANGED vars
    BY <1>1, <1>4 DEF TypeKick, Read, Overtake, vars, server_vars
  <1>5. QED
    BY <1>2, <1>3, <1>4 DEF Next

\* What is to be read after a push: that, or what was.
LEMMA NewPushes ==
  ASSUME NEW m \in Pushes, pushes \in Seq(Pushes), MeStays, Push(m)
  PROVE  \A k \in 1..Len(pushes') :
            pushes'[k] = m \/ (k \in 1..Len(pushes) /\ pushes'[k] = pushes[k])
  <1>1. PICK n \in Nat : n = Len(pushes)
    OBVIOUS
  <1>2. CASE Me \in clients
    <2>1. pushes' = Append(pushes, m)
      BY <1>2, Pushed
    <2>2. Len(pushes') = n + 1 /\ pushes'[n + 1] = m /\ \A k \in 1..n : pushes'[k] = pushes[k]
      BY <1>1, <2>1
    <2>3. \A k \in 1..(n + 1) : k \in 1..n \/ k = n + 1
      BY <1>1
    <2>4. QED
      BY <1>1, <2>2, <2>3
  <1>3. CASE Me \notin clients
    BY <1>3, Pushed
  <1>4. QED
    BY <1>2, <1>3

\* What is to be read after two pushes have changed places.
LEMMA Swapped ==
  ASSUME pushes \in Seq(Pushes), NEW k \in 1..(Len(pushes) - 1),
         pushes' = [pushes EXCEPT ![k] = pushes[k + 1], ![k + 1] = pushes[k]]
  PROVE  /\ Len(pushes') = Len(pushes) /\ k \in 1..Len(pushes) /\ k + 1 \in 1..Len(pushes)
         /\ pushes'[k] = pushes[k + 1] /\ pushes'[k + 1] = pushes[k]
         /\ \A l \in 1..Len(pushes) : l # k /\ l # k + 1 => pushes'[l] = pushes[l]
  <1>1. PICK n \in Nat : n = Len(pushes)
    OBVIOUS
  <1>2. k \in 1..n /\ k + 1 \in 1..n /\ k # k + 1
    BY <1>1
  <1>3. DOMAIN pushes = 1..n /\ DOMAIN pushes' = 1..n
    BY <1>1
  <1>4. pushes'[k] = pushes[k + 1] /\ pushes'[k + 1] = pushes[k]
    BY <1>2, <1>3
  <1>5. \A l \in 1..n : l # k /\ l # k + 1 => pushes'[l] = pushes[l]
    BY <1>2, <1>3
  <1>6. pushes' \in Seq(Pushes)
    <2>1. pushes[k] \in Pushes /\ pushes[k + 1] \in Pushes
      BY <1>1, <1>2
    <2>2. QED
      BY <1>1, <1>2, <2>1
  <1>7. Len(pushes') = n
    BY <1>1, <1>3, <1>6
  <1>8. QED
    BY <1>1, <1>2, <1>4, <1>5, <1>7

\* Nothing that is said, shown, ordered or announced is about a client that has
\* not joined.
LEMMA NotNamedHandler ==
  ASSUME Types, MeStays, \A i \in Id : NotNamed(i) /\ Present(i),
         NEW i \in Id, Handler(i), NEW j \in Id, pc'[j] = "out"
  PROVE  NotNamed(j)'
  <1>1. /\ pc \in [Id -> Where] /\ pushes \in Seq(Pushes) /\ clients \subseteq Id
        /\ info \in [Id -> RoomInfo]
    BY DEF Types
  <1>2. pc[j] = "out"
    BY <1>1 DEF Handler, Join, SendRoomInfo, GiveUp, Announce, Kick, KickOut, AnnounceKick,
                Leave, AnnounceLeft, Transfer, BuildInfo, PushInfo, Go
  <1>3. /\ j \notin left_due /\ peers[j] = 0 /\ j \notin clients
        /\ \A k \in 1..Len(orders) : orders[k] # j
        /\ \A l \in Id : j \notin info[l].clients
        /\ \A k \in 1..Len(pushes) : ~Names(pushes[k], j)
    BY <1>2 DEF NotNamed, Present, Joining
  <1>4. ASSUME NEW m \in Pushes, Push(m), ~Names(m, j)
        PROVE  \A k \in 1..Len(pushes') : ~Names(pushes'[k], j)
    BY <1>1, <1>3, <1>4, NewPushes
  <1>5. CASE Join(i)
    BY <1>3, <1>5 DEF Join, NotNamed, ui_vars
  <1>6. CASE SendRoomInfo(i)
    <2>1. Shown([clients |-> clients, host |-> host])[j] = 0
      BY <1>3 DEF Shown
    <2>2. peers'[j] = 0
      BY <1>3, <1>6, <2>1 DEF SendRoomInfo
    <2>3. QED
      BY <1>3, <1>6, <2>2 DEF SendRoomInfo, NotNamed
  <1>7. CASE GiveUp(i)
    BY <1>3, <1>7 DEF GiveUp, NotNamed, ui_vars
  <1>8. CASE Announce(i)
    <2>1. i # j
      BY <1>2, <1>8 DEF Announce, Go
    <2>2. [type |-> "ClientJoined", client_id |-> i] \in Pushes /\ [type |-> "YouAreHost"] \in Pushes
      BY DEF Pushes
    <2>3. ~Names([type |-> "ClientJoined", client_id |-> i], j) /\ ~Names([type |-> "YouAreHost"], j)
      BY <2>1 DEF Names
    <2>4. \A k \in 1..Len(pushes') : ~Names(pushes'[k], j)
      BY <1>3, <1>4, <1>8, <2>2, <2>3 DEF Announce
    <2>5. QED
      BY <1>3, <1>8, <2>4 DEF Announce, NotNamed, ui_vars
  <1>9. CASE Kick(i)
    <2>1. i # j
      BY <1>2, <1>9 DEF Kick
    <2>2. QED
      BY <1>3, <1>9, <2>1 DEF Kick, KickOut, NotNamed
  <1>10. CASE AnnounceKick(i)
    <2>1. i # j
      BY <1>3, <1>10 DEF AnnounceKick
    <2>2. [type |-> "ClientLeft", client_id |-> i] \in Pushes
          /\ ~Names([type |-> "ClientLeft", client_id |-> i], j)
      BY <2>1 DEF Pushes, Names
    <2>3. \A k \in 1..Len(pushes') : ~Names(pushes'[k], j)
      BY <1>4, <1>10, <2>2 DEF AnnounceKick
    <2>4. QED
      BY <1>3, <1>10, <2>3 DEF AnnounceKick, NotNamed, ui_vars
  <1>11. CASE Leave(i)
    BY <1>3, <1>11 DEF Leave, NotNamed, ui_vars
  <1>12. CASE AnnounceLeft(i)
    <2>1. i # j
      BY <1>2, <1>12 DEF AnnounceLeft, Go
    <2>2. [type |-> "ClientLeft", client_id |-> i] \in Pushes
          /\ ~Names([type |-> "ClientLeft", client_id |-> i], j)
      BY <2>1 DEF Pushes, Names
    <2>3. \A k \in 1..Len(pushes') : ~Names(pushes'[k], j)
      BY <1>4, <1>12, <2>2 DEF AnnounceLeft
    <2>4. QED
      BY <1>3, <1>12, <2>3 DEF AnnounceLeft, NotNamed, ui_vars
  <1>13. CASE Transfer(i)
    <2>1. [type |-> "YouAreHost"] \in Pushes /\ ~Names([type |-> "YouAreHost"], j)
      BY DEF Pushes, Names
    <2>2. \A k \in 1..Len(pushes') : ~Names(pushes'[k], j)
      BY <1>3, <1>4, <1>13, <2>1 DEF Transfer
    <2>3. QED
      BY <1>3, <1>13, <2>2 DEF Transfer, NotNamed, ui_vars
  <1>14. CASE BuildInfo(i)
    BY <1>1, <1>3, <1>14 DEF BuildInfo, NotNamed, ui_vars
  <1>15. CASE PushInfo(i)
    <2>1. [type |-> "RoomInfo", info |-> info[i]] \in Pushes
          /\ ~Names([type |-> "RoomInfo", info |-> info[i]], j)
      BY <1>1, <1>3 DEF Pushes, Names
    <2>2. \A k \in 1..Len(pushes') : ~Names(pushes'[k], j)
      BY <1>4, <1>15, <2>1 DEF PushInfo
    <2>3. \A l \in Id : j \notin info'[l].clients
      BY <1>1, <1>3, <1>15 DEF PushInfo, Empty
    <2>4. QED
      BY <1>3, <1>15, <2>2, <2>3 DEF PushInfo, NotNamed, ui_vars
  <1>16. QED
    BY <1>5, <1>6, <1>7, <1>8, <1>9, <1>10, <1>11, <1>12, <1>13, <1>14, <1>15 DEF Handler

LEMMA NotNamedMe ==
  ASSUME Types, \A i \in Id : NotNamed(i), NEW j \in Id, pc'[j] = "out",
         TypeKick \/ HandleKick \/ Read \/ Overtake \/ UNCHANGED vars
  PROVE  NotNamed(j)'
  <1>1. pushes \in Seq(Pushes) /\ orders \in Seq(Id) /\ peers \in [Id -> Nat] /\ is_host \in BOOLEAN
    BY DEF Types
  <1>2. pc[j] = "out" /\ UNCHANGED info
    BY DEF TypeKick, HandleKick, KickOut, Read, Overtake, vars, server_vars
  <1>3. /\ j \notin left_due /\ peers[j] = 0
        /\ \A k \in 1..Len(orders) : orders[k] # j
        /\ \A l \in Id : j \notin info[l].clients
        /\ \A k \in 1..Len(pushes) : ~Names(pushes[k], j)
    BY <1>2 DEF NotNamed
  <1>4. CASE TypeKick
    <2>1. PICK w \in Word : FindPeer(w) # Nobody /\ orders' = Append(orders, FindPeer(w))
      BY <1>4 DEF TypeKick
    <2>2. FindPeer(w) \in Id /\ FindPeer(w) # j
      BY <1>3, <2>1, Found
    <2>3. PICK n \in Nat : n = Len(orders)
      BY <1>1
    <2>4. Len(orders') = n + 1 /\ orders'[n + 1] # j /\ \A k \in 1..n : orders'[k] # j
      BY <1>1, <1>3, <2>1, <2>2, <2>3
    <2>5. \A k \in 1..(n + 1) : k \in 1..n \/ k = n + 1
      BY <2>3
    <2>6. \A k \in 1..Len(orders') : orders'[k] # j
      BY <2>4, <2>5
    <2>7. QED
      BY <1>2, <1>3, <1>4, <2>6 DEF TypeKick, NotNamed
  <1>5. CASE HandleKick
    <2>1. orders # <<>> /\ orders' = Tail(orders)
      BY <1>5 DEF HandleKick
    <2>2. Head(orders) # j /\ \A k \in 1..Len(orders') : orders'[k] # j
      BY <1>1, <1>3, <2>1, OrdersTail
    <2>3. j \notin left_due' /\ UNCHANGED <<peers, pushes>>
      BY <1>3, <1>5, <2>2 DEF HandleKick, KickOut
    <2>4. QED
      BY <1>2, <1>3, <2>2, <2>3 DEF NotNamed
  <1>6. CASE Read
    <2>1. /\ pushes # <<>> /\ pushes' = Tail(pushes) /\ HandleSignal(Head(pushes))
          /\ UNCHANGED <<orders, left_due>>
      BY <1>6 DEF Read, server_vars
    <2>2. Head(pushes) \in Pushes /\ ~Names(Head(pushes), j)
          /\ \A k \in 1..Len(pushes') : ~Names(pushes'[k], j)
      BY <1>1, <1>3, <2>1, HeadAndTail
    <2>3. Shows(j)' <=> FALSE
      <3>1. j # HostFlag /\ j \in Id \cup {HostFlag}
        BY RosterConstants DEF HostFlag
      <3>2. Shows(j) <=> FALSE
        BY <1>3, <3>1 DEF Shows
      <3>3. Tells(Head(pushes), j) => (Says(Head(pushes), j) <=> FALSE)
        BY <2>2, <3>1, PushKinds DEF Tells, Says, Names
      <3>4. QED
        BY <1>1, <2>1, <2>2, <3>1, <3>2, <3>3, Handled
    <2>4. peers'[j] = 0
      <3>1. peers' \in [Id -> Nat]
        BY <1>1, <2>1, <2>2, Handled
      <3>2. j # HostFlag
        BY RosterConstants DEF HostFlag
      <3>3. ~(peers'[j] > 0)
        BY <2>3, <3>2 DEF Shows
      <3>4. QED
        BY <3>1, <3>3
    <2>5. QED
      BY <1>2, <1>3, <2>1, <2>2, <2>4 DEF NotNamed
  <1>7. CASE Overtake
    <2>1. PICK k \in 1..(Len(pushes) - 1) :
            pushes' = [pushes EXCEPT ![k] = pushes[k + 1], ![k + 1] = pushes[k]]
      BY <1>7 DEF Overtake
    <2>2. \A l \in 1..Len(pushes') : ~Names(pushes'[l], j)
      <3>1. /\ Len(pushes') = Len(pushes) /\ k \in 1..Len(pushes) /\ k + 1 \in 1..Len(pushes)
            /\ pushes'[k] = pushes[k + 1] /\ pushes'[k + 1] = pushes[k]
            /\ \A l \in 1..Len(pushes) : l # k /\ l # k + 1 => pushes'[l] = pushes[l]
        BY <1>1, <2>1, Swapped
      <3>2. PICK q : q = k + 1
        OBVIOUS
      <3>3. QED
        BY <1>3, <3>1, <3>2
    <2>3. QED
      BY <1>2, <1>3, <1>7, <2>2 DEF Overtake, server_vars, ui_vars, NotNamed
  <1>8. CASE UNCHANGED vars
    BY <1>2, <1>3, <1>8 DEF vars, server_vars, ui_vars, NotNamed
  <1>9. QED
    BY <1>4, <1>5, <1>6, <1>7, <1>8

\* No entry of j is added, and no ClientJoined of it.
LEMMA CountedAlike ==
  ASSUME Types, NEW j \in Id, Counted(j),
         peers'[j] \in Nat, peers'[j] = peers[j] \/ peers'[j] <= 1,
         pc'[j] \in {"out"} \cup Joining => pc[j] \in {"out"} \cup Joining,
         \A k \in 1..Len(pushes') : JoinedAt(k, j)' => k \in 1..Len(pushes) /\ JoinedAt(k, j)
  PROVE  Counted(j)'
  <1>1. peers[j] \in Nat
    BY DEF Types
  <1>2. Coming(j)' => Coming(j)
    BY DEF Coming
  <1>3. peers'[j] <= 2 /\ (Coming(j)' => peers'[j] <= 1)
    BY <1>1, <1>2 DEF Counted
  <1>4. \A k, l \in 1..Len(pushes') : JoinedAt(k, j)' /\ JoinedAt(l, j)' => k = l
    BY DEF Counted
  <1>5. pc'[j] \in {"out"} \cup Joining => \A k \in 1..Len(pushes') : ~JoinedAt(k, j)'
    BY DEF Counted
  <1>6. QED
    BY <1>3, <1>4, <1>5 DEF Counted

LEMMA CountedHandler ==
  ASSUME Types, MeStays, NEW i \in Id, Handler(i), NEW j \in Id, Counted(j)
  PROVE  Counted(j)'
  <1>1. pc \in [Id -> Where] /\ pushes \in Seq(Pushes) /\ info \in [Id -> RoomInfo]
        /\ peers[j] \in Nat
    BY DEF Types
  <1>2. ASSUME UNCHANGED pushes
        PROVE  \A k \in 1..Len(pushes') : JoinedAt(k, j)' => k \in 1..Len(pushes) /\ JoinedAt(k, j)
    BY <1>2 DEF JoinedAt
  <1>3. ASSUME NEW m \in Pushes, Push(m), ~(m.type = "ClientJoined" /\ m.client_id = j)
        PROVE  \A k \in 1..Len(pushes') : JoinedAt(k, j)' => k \in 1..Len(pushes) /\ JoinedAt(k, j)
    BY <1>1, <1>3, NewPushes DEF JoinedAt
  <1> USE DEF Joining
  <1>4. CASE Join(i)
    BY <1>1, <1>2, <1>4, CountedAlike DEF Join, Go, ui_vars
  <1>5. CASE SendRoomInfo(i)
    <2>1. Shown([clients |-> clients, host |-> host])[j] \in {0, 1}
      BY DEF Shown
    <2>2. peers'[j] \in Nat /\ (peers'[j] = peers[j] \/ peers'[j] <= 1)
      BY <1>1, <1>5, <2>1 DEF SendRoomInfo
    <2>3. QED
      BY <1>1, <1>2, <1>5, <2>2, CountedAlike DEF SendRoomInfo, Go
  <1>6. CASE GiveUp(i)
    BY <1>1, <1>2, <1>6, CountedAlike DEF GiveUp, Go, ui_vars
  <1>7. CASE Announce(i)
    <2>1. CASE i # j \/ i = Me
      <3>1. [type |-> "ClientJoined", client_id |-> i] \in Pushes /\ [type |-> "YouAreHost"] \in Pushes
        BY DEF Pushes
      <3>2. \A k \in 1..Len(pushes') : JoinedAt(k, j)' => k \in 1..Len(pushes) /\ JoinedAt(k, j)
        BY <1>2, <1>3, <1>7, <2>1, <3>1 DEF Announce
      <3>3. QED
        BY <1>1, <1>7, <3>2, CountedAlike DEF Announce, Go, ui_vars
    <2>2. CASE i = j /\ i # Me
      <3> DEFINE m == [type |-> "ClientJoined", client_id |-> j]
      <3>1. m \in Pushes /\ Push(m) /\ pc[j] = "announce" /\ pc'[j] = "in" /\ peers' = peers
        BY <1>1, <1>7, <2>2 DEF Announce, Go, Pushes, ui_vars
      <3>2. peers'[j] <= 1 /\ \A k \in 1..Len(pushes) : ~JoinedAt(k, j)
        BY <3>1 DEF Counted, Coming
      <3>3. \A k, l \in 1..Len(pushes') : JoinedAt(k, j)' /\ JoinedAt(l, j)' => k = l
        <4>1. PICK n \in Nat : n = Len(pushes)
          BY <1>1
        <4>2. CASE Me \in clients
          <5>1. pushes' = Append(pushes, m)
            BY <1>1, <3>1, <4>2, Pushed
          <5>2. Len(pushes') = n + 1 /\ \A k \in 1..n : pushes'[k] = pushes[k]
            BY <1>1, <4>1, <5>1
          <5>3. \A k \in 1..(n + 1) : k \in 1..n \/ k = n + 1
            BY <4>1
          <5>4. \A k \in 1..(n + 1) : JoinedAt(k, j)' => k = n + 1
            BY <3>2, <4>1, <5>2, <5>3 DEF JoinedAt
          <5>5. QED
            BY <5>2, <5>4
        <4>3. CASE Me \notin clients
          <5>1. pushes' = pushes
            BY <1>1, <3>1, <4>3, Pushed
          <5>2. QED
            BY <3>2, <5>1 DEF JoinedAt
        <4>4. QED
          BY <4>2, <4>3
      <3>4. peers'[j] <= 2 /\ pc'[j] \notin {"out"} \cup Joining
        BY <1>1, <3>1, <3>2
      <3>5. QED
        BY <3>2, <3>3, <3>4 DEF Counted
    <2>3. QED
      BY <2>1, <2>2
  <1>8. CASE Kick(i)
    BY <1>1, <1>2, <1>8, CountedAlike DEF Kick, KickOut
  <1>9. CASE AnnounceKick(i)
    <2>1. [type |-> "ClientLeft", client_id |-> i] \in Pushes
      BY DEF Pushes
    <2>2. \A k \in 1..Len(pushes') : JoinedAt(k, j)' => k \in 1..Len(pushes) /\ JoinedAt(k, j)
      BY <1>3, <1>9, <2>1 DEF AnnounceKick
    <2>3. QED
      BY <1>1, <1>9, <2>2, CountedAlike DEF AnnounceKick, ui_vars
  <1>10. CASE Leave(i)
    BY <1>1, <1>2, <1>10, CountedAlike DEF Leave, Go, ui_vars
  <1>11. CASE AnnounceLeft(i)
    <2>1. [type |-> "ClientLeft", client_id |-> i] \in Pushes
      BY DEF Pushes
    <2>2. \A k \in 1..Len(pushes') : JoinedAt(k, j)' => k \in 1..Len(pushes) /\ JoinedAt(k, j)
      BY <1>3, <1>11, <2>1 DEF AnnounceLeft
    <2>3. QED
      BY <1>1, <1>11, <2>2, CountedAlike DEF AnnounceLeft, Go, ui_vars
  <1>12. CASE Transfer(i)
    <2>1. [type |-> "YouAreHost"] \in Pushes
      BY DEF Pushes
    <2>2. \A k \in 1..Len(pushes') : JoinedAt(k, j)' => k \in 1..Len(pushes) /\ JoinedAt(k, j)
      BY <1>2, <1>3, <1>12, <2>1 DEF Transfer
    <2>3. QED
      BY <1>1, <1>12, <2>2, CountedAlike DEF Transfer, Go, ui_vars
  <1>13. CASE BuildInfo(i)
    BY <1>1, <1>2, <1>13, CountedAlike DEF BuildInfo, Go, ui_vars
  <1>14. CASE PushInfo(i)
    <2>1. [type |-> "RoomInfo", info |-> info[i]] \in Pushes
      BY <1>1 DEF Pushes
    <2>2. \A k \in 1..Len(pushes') : JoinedAt(k, j)' => k \in 1..Len(pushes) /\ JoinedAt(k, j)
      BY <1>3, <1>14, <2>1 DEF PushInfo
    <2>3. QED
      BY <1>1, <1>14, <2>2, CountedAlike DEF PushInfo, Go, ui_vars
  <1>15. QED
    BY <1>4, <1>5, <1>6, <1>7, <1>8, <1>9, <1>10, <1>11, <1>12, <1>13, <1>14 DEF Handler

\* A ClientJoined that is read adds the only entry it can.
LEMMA CountedRead ==
  ASSUME Types, Read, NEW j \in Id, Counted(j)
  PROVE  Counted(j)'
  <1>1. /\ pushes \in Seq(Pushes) /\ peers \in [Id -> Nat] /\ is_host \in BOOLEAN
        /\ peers[j] \in Nat /\ pc' = pc
        /\ pushes # <<>> /\ pushes' = Tail(pushes) /\ HandleSignal(Head(pushes))
    BY DEF Types, Read, server_vars
  <1>2. PICK n \in Nat : n = Len(pushes)
    BY <1>1
  <1>3. PICK m \in Pushes : m = Head(pushes)
    BY <1>1, HeadAndTail
  <1>4. /\ m = pushes[1] /\ 1 \in 1..n /\ Len(pushes') = n - 1
        /\ \A k \in 1..(n - 1) : k + 1 \in 1..n /\ pushes'[k] = pushes[k + 1]
    BY <1>1, <1>2, <1>3, HeadAndTail
  <1>5. ASSUME NEW k \in 1..(n - 1), JoinedAt(k, j)'
        PROVE  JoinedAt(k + 1, j) /\ k + 1 \in 1..n /\ k + 1 # 1
    <2>1. k + 1 \in 1..n /\ k + 1 # 1
      BY <1>2, <1>4
    <2>2. QED
      BY <1>4, <1>5, <2>1 DEF JoinedAt
  <1>6. \A k, l \in 1..(n - 1) : JoinedAt(k, j)' /\ JoinedAt(l, j)' => k = l
    <2>1. ASSUME NEW k \in 1..(n - 1), NEW l \in 1..(n - 1), JoinedAt(k, j)', JoinedAt(l, j)'
          PROVE  k = l
      <3>1. k + 1 = l + 1
        BY <1>2, <1>5, <2>1 DEF Counted
      <3>2. QED
        BY <1>2, <3>1
    <2>2. QED
      BY <2>1
  <1>7. pc'[j] \in {"out"} \cup Joining => \A k \in 1..(n - 1) : ~JoinedAt(k, j)'
    BY <1>1, <1>2, <1>5 DEF Counted
  <1>8. Coming(j)' => Coming(j)
    BY <1>1, <1>2, <1>4, <1>5 DEF Coming
  <1>9. peers'[j] \in Nat
    BY <1>1, <1>3, Handled
  <1>10. CASE m.type = "ClientJoined" /\ m.client_id = j
    <2>1. peers'[j] = peers[j] + 1
      BY <1>1, <1>3, <1>10 DEF HandleSignal
    <2>2. JoinedAt(1, j)
      BY <1>4, <1>10 DEF JoinedAt
    <2>3. Coming(j)
      BY <1>2, <1>4, <2>2 DEF Coming
    <2>4. peers'[j] <= 2
      BY <1>1, <2>1, <2>3 DEF Counted
    <2>5. ~Coming(j)'
      <3>1. \A k \in 1..(n - 1) : ~JoinedAt(k, j)'
        BY <1>2, <1>4, <1>5, <2>2 DEF Counted
      <3>2. pc'[j] \notin {"out"} \cup Joining
        BY <1>1, <1>2, <1>4, <2>2 DEF Counted
      <3>3. QED
        BY <1>4, <3>1, <3>2 DEF Coming
    <2>6. QED
      BY <1>4, <1>6, <1>7, <2>4, <2>5 DEF Counted
  <1>11. CASE ~(m.type = "ClientJoined" /\ m.client_id = j)
    <2>1. peers'[j] = peers[j] \/ peers'[j] \in {0, 1}
      <3>1. CASE m.type = "ClientJoined"
        BY <1>1, <1>3, <1>11, <3>1, PushKinds DEF HandleSignal
      <3>2. CASE m.type = "ClientLeft"
        BY <1>1, <1>3, <3>2, PushKinds DEF HandleSignal
      <3>3. CASE m.type = "YouAreHost"
        BY <1>1, <1>3, <3>3 DEF HandleSignal
      <3>4. CASE m.type = "RoomInfo"
        <4>1. peers' = Shown(m.info)
          BY <1>1, <1>3, <3>4 DEF HandleSignal
        <4>2. QED
          BY <4>1 DEF Shown
      <3>5. QED
        BY <3>1, <3>2, <3>3, <3>4, PushKinds
    <2>2. peers'[j] <= 2 /\ (Coming(j)' => peers'[j] <= 1)
      BY <1>1, <1>8, <2>1 DEF Counted
    <2>3. QED
      BY <1>4, <1>6, <1>7, <2>2 DEF Counted
  <1>12. QED
    BY <1>10, <1>11

LEMMA CountedMe ==
  ASSUME Types, TypeKick \/ HandleKick \/ Overtake \/ UNCHANGED vars, NEW j \in Id, Counted(j)
  PROVE  Counted(j)'
  <1>1. pushes \in Seq(Pushes) /\ peers[j] \in Nat
    BY DEF Types
  <1>2. CASE TypeKick \/ HandleKick \/ UNCHANGED vars
    <2>1. UNCHANGED <<pushes, peers, pc>>
      BY <1>2 DEF TypeKick, HandleKick, KickOut, vars, server_vars, ui_vars
    <2>2. \A k \in 1..Len(pushes') : JoinedAt(k, j)' => k \in 1..Len(pushes) /\ JoinedAt(k, j)
      BY <2>1 DEF JoinedAt
    <2>3. QED
      BY <1>1, <2>1, <2>2, CountedAlike
  <1>3. CASE Overtake
    <2>1. PICK k \in 1..(Len(pushes) - 1) :
            pushes' = [pushes EXCEPT ![k] = pushes[k + 1], ![k + 1] = pushes[k]]
      BY <1>3 DEF Overtake
    <2>2. UNCHANGED <<peers, pc>>
      BY <1>3 DEF Overtake, server_vars, ui_vars
    <2>3. PICK n \in Nat : n = Len(pushes)
      BY <1>1
    <2>4. PICK q \in Nat : q = k + 1
      BY <2>3
    <2> DEFINE From(l) == IF l = k THEN q ELSE IF l = q THEN k ELSE l
    <2>5. /\ Len(pushes') = n /\ k \in 1..n /\ q \in 1..n
          /\ \A l \in 1..n : pushes'[l] = pushes[From(l)]
      <3>1. Len(pushes') = n /\ k \in 1..n /\ q \in 1..n /\ k # q
        BY <1>1, <2>1, <2>3, <2>4, Swapped
      <3>2. pushes'[k] = pushes[q] /\ pushes'[q] = pushes[k]
        BY <1>1, <2>1, <2>3, <2>4, Swapped
      <3>3. \A l \in 1..n : l # k /\ l # q => pushes'[l] = pushes[l]
        BY <1>1, <2>1, <2>3, <2>4, Swapped
      <3>4. QED
        BY <3>1, <3>2, <3>3
    <2>6. \A l \in 1..n : From(l) \in 1..n
      BY <2>5
    <2>7. \A l, r \in 1..n : From(l) = From(r) => l = r
      BY <2>5
    <2> HIDE DEF From
    <2>8. \A l \in 1..n : JoinedAt(l, j)' => JoinedAt(From(l), j)
      BY <2>5, <2>6 DEF JoinedAt
    <2>9. Coming(j)' => Coming(j)
      BY <2>2, <2>3, <2>5, <2>6, <2>8 DEF Coming
    <2>10. \A l, r \in 1..n : JoinedAt(l, j)' /\ JoinedAt(r, j)' => l = r
      BY <2>3, <2>6, <2>7, <2>8 DEF Counted
    <2>11. pc'[j] \in {"out"} \cup Joining => \A l \in 1..n : ~JoinedAt(l, j)'
      BY <2>2, <2>3, <2>6, <2>8 DEF Counted
    <2>12. peers'[j] <= 2 /\ (Coming(j)' => peers'[j] <= 1)
      BY <2>2, <2>9 DEF Counted
    <2>13. QED
      BY <2>5, <2>10, <2>11, <2>12 DEF Counted
  <1>4. QED
    BY <1>2, <1>3

-----------------------------------------------------------------------------
(* The last words.                                                         *)

\* Nothing that matters to j changes.
LEMMA SettlingAlike ==
  ASSUME NEW j \in Id, Settling(j),
         pc'[j] \in Joining => pc[j] \in Joining,
         pc'[j] = "in" => pc[j] = "in",
         pc[j] = "removed" => pc'[j] = "removed",
         j \in clients' <=> j \in clients,
         j \in left_due' <=> j \in left_due,
         \A v \in BOOLEAN : LastWord(j, v) => LastWord(j, v)'
  PROVE  Settling(j)'
  BY DEF Settling

\* Join and RoomInfo, the first of which Me shows as it is.
LEMMA SettlingArrival ==
  ASSUME Types, MeStays, \A i \in Id : Present(i), NEW i \in Id,
         Join(i) \/ SendRoomInfo(i) \/ GiveUp(i), NEW j \in Id, Settling(j), Settling(i)
  PROVE  Settling(j)'
  <1>1. pc \in [Id -> Where] /\ clients \subseteq Id /\ Me \in Id
    BY RosterConstants DEF Types
  <1>2. CASE Join(i)
    <2>1. UNCHANGED <<pushes, peers, is_host, left_due>> /\ clients' = clients \cup {i}
          /\ pc' = [pc EXCEPT ![i] = "joining"] /\ pc[i] = "out"
      BY <1>2 DEF Join, Go, ui_vars
    <2>2. Blank <=> Blank'
      BY <1>1, <2>1 DEF Blank
    <2>3. CASE j = i
      <3>1. j = Me => LastWord(j, TRUE)'
        <4>1. ASSUME j = Me
              PROVE  pushes' = <<>> /\ Blank'
          BY <1>1, <2>1, <2>3, <4>1 DEF MeStays, Blank
        <4>2. QED
          BY <4>1 DEF LastWord, IsLast
      <3>2. pc'[j] = "joining" /\ j \in clients'
        BY <1>1, <2>1, <2>3
      <3>3. QED
        BY <3>1, <3>2 DEF Settling
    <2>4. CASE j # i
      BY <1>1, <2>1, <2>2, <2>4, SettlingAlike, SameWord
    <2>5. QED
      BY <2>3, <2>4
  <1>3. CASE SendRoomInfo(i)
    <2>1. UNCHANGED <<pushes, left_due, clients, host>>
          /\ pc' = [pc EXCEPT ![i] = "announce"] /\ pc[i] = "joining"
      BY <1>3 DEF SendRoomInfo, Go
    <2>2. CASE i = Me
      <3>1. peers'[j] = IF j \in clients THEN 1 ELSE 0
        BY <1>3, <2>2 DEF SendRoomInfo, Shown
      <3>2. Shows(j)' <=> j \in clients
        BY <3>1, RosterConstants DEF Shows, HostFlag
      <3>3. LastWord(j, TRUE) /\ j \in clients => LastWord(j, TRUE)'
        BY <2>1, <3>2 DEF LastWord, IsLast
      <3>4. LastWord(j, FALSE) /\ j \notin clients => LastWord(j, FALSE)'
        BY <2>1, <3>2 DEF LastWord, IsLast
      <3>5. CASE j = Me
        <4>1. j \in clients /\ j \in clients'
          BY <2>1, <2>2, <3>5 DEF MeStays
        <4>2. QED
          BY <1>1, <3>3, <3>5, <4>1 DEF Settling
      <3>6. CASE j # Me
        <4>1. pc'[j] = pc[j]
          BY <1>1, <2>1, <2>2, <3>6
        <4>2. QED
          BY <2>1, <3>3, <3>4, <3>6, <4>1 DEF Settling
      <3>7. QED
        BY <3>5, <3>6
    <2>3. CASE i # Me
      <3>1. UNCHANGED <<peers, is_host>>
        BY <1>3, <2>3 DEF SendRoomInfo
      <3>2. Blank <=> Blank'
        BY <1>1, <2>1, <2>3 DEF Blank
      <3>3. \A v \in BOOLEAN : LastWord(j, v) => LastWord(j, v)'
        BY <2>1, <3>1, <3>2, SameWord
      <3>4. QED
        BY <1>1, <2>1, <3>3, SettlingAlike DEF Joining
    <2>4. QED
      BY <2>2, <2>3
  <1>4. CASE GiveUp(i)
    <2>1. /\ UNCHANGED <<pushes, peers, is_host, clients, left_due>> /\ i # Me
          /\ pc' = [pc EXCEPT ![i] = "done"] /\ pc[i] = "joining"
      BY <1>4 DEF GiveUp, Go, ui_vars
    <2>2. Blank <=> Blank'
      BY <1>1, <2>1 DEF Blank
    <2>3. CASE j = i
      BY <1>1, <2>1, <2>3 DEF Settling, Joining
    <2>4. CASE j # i
      BY <1>1, <2>1, <2>2, <2>4, SettlingAlike, SameWord
    <2>5. QED
      BY <2>3, <2>4
  <1>5. QED
    BY <1>2, <1>3, <1>4

\* A client that has joined is announced.
LEMMA SettlingAnnounce ==
  ASSUME Types, MeStays, NEW i \in Id, Announce(i), NEW j \in Id, Settling(j)
  PROVE  Settling(j)'
  <1>1. pc \in [Id -> Where] /\ pushes \in Seq(Pushes) /\ j # HostFlag
    BY RosterConstants DEF Types, HostFlag
  <1>2. /\ UNCHANGED <<clients, left_due, peers, is_host>>
        /\ pc[i] = "announce" /\ pc' = [pc EXCEPT ![i] = "in"]
    BY DEF Announce, Go, ui_vars
  <1>3. Blank <=> Blank'
    BY <1>1, <1>2 DEF Blank
  <1>4. CASE i # Me
    <2> DEFINE m == [type |-> "ClientJoined", client_id |-> i]
    <2>1. m \in Pushes /\ Push(m) /\ m.type = "ClientJoined" /\ m.client_id = i
      BY <1>4 DEF Announce, Pushes
    <2> HIDE DEF m
    <2>2. CASE j = i
      <3>1. Tells(m, j) /\ Says(m, j)
        BY <1>1, <2>1, <2>2 DEF Tells, Says
      <3>2. LastWord(j, TRUE)'
        BY <1>1, <1>2, <1>3, <2>1, <3>1, PushedWord
      <3>3. j \in clients' /\ pc'[j] = "in"
        BY <1>1, <1>2, <2>2 DEF Settling, Joining
      <3>4. QED
        BY <3>2, <3>3 DEF Settling
    <2>3. CASE j # i
      <3>1. ~Tells(m, j)
        BY <1>1, <2>1, <2>3 DEF Tells
      <3>2. \A v \in BOOLEAN : LastWord(j, v) => LastWord(j, v)'
        BY <1>1, <1>2, <1>3, <2>1, <3>1, PushedWord
      <3>3. QED
        BY <1>1, <1>2, <2>3, <3>2, SettlingAlike
    <2>4. QED
      BY <2>2, <2>3
  <1>5. CASE i = Me
    <2>1. \A v \in BOOLEAN : LastWord(j, v) => LastWord(j, v)'
      <3>1. CASE Me \in claimed
        <4> DEFINE m == [type |-> "YouAreHost"]
        <4>1. m \in Pushes /\ Push(m) /\ ~Tells(m, j)
          BY <1>1, <1>5, <3>1 DEF Announce, Pushes, Tells
        <4> HIDE DEF m
        <4>2. QED
          BY <1>1, <1>2, <1>3, <4>1, PushedWord
      <3>2. CASE Me \notin claimed
        <4>1. UNCHANGED pushes
          BY <1>5, <3>2 DEF Announce
        <4>2. QED
          BY <1>2, <1>3, <4>1, SameWord
      <3>3. QED
        BY <3>1, <3>2
    <2>2. CASE j = Me
      <3>1. j \in clients /\ j \in clients'
        BY <1>2, <1>5, <2>2 DEF MeStays
      <3>2. QED
        BY <2>1, <2>2, <3>1 DEF Settling
    <2>3. CASE j # Me
      BY <1>1, <1>2, <1>5, <2>1, <2>3, SettlingAlike
    <2>4. QED
      BY <2>2, <2>3
  <1>6. QED
    BY <1>4, <1>5

\* A client that has left, by itself or kicked, is announced.
LEMMA SettlingGone ==
  ASSUME Types, MeStays, NEW i \in Id, Present(i), AnnounceKick(i) \/ AnnounceLeft(i),
         NEW j \in Id, Settling(j)
  PROVE  Settling(j)'
  <1> DEFINE m == [type |-> "ClientLeft", client_id |-> i]
  <1>1. pc \in [Id -> Where] /\ pushes \in Seq(Pushes) /\ j # HostFlag
    BY RosterConstants DEF Types, HostFlag
  <1>2. UNCHANGED <<clients, peers, is_host>> /\ m \in Pushes /\ Push(m)
        /\ m.type = "ClientLeft" /\ m.client_id = i
    BY DEF AnnounceKick, AnnounceLeft, ui_vars, Pushes
  <1>3. i # Me /\ i \notin clients
    BY DEF AnnounceKick, AnnounceLeft, Go, MeStays, Present, Joining
  <1>4. \A k \in Id : k # i => pc'[k] = pc[k] /\ (k \in left_due' <=> k \in left_due)
    BY <1>1 DEF AnnounceKick, AnnounceLeft, Go
  <1>5. Blank <=> Blank'
    BY <1>3, <1>4, RosterConstants DEF Blank
  <1>6. pc'[i] \in Joining => pc[i] \in Joining
    BY <1>1 DEF AnnounceKick, AnnounceLeft, Go, Joining
  <1> HIDE DEF m
  <1>7. CASE j = i
    <2>1. Tells(m, j) /\ (Says(m, j) <=> FALSE)
      BY <1>1, <1>2, <1>7 DEF Tells, Says
    <2>2. LastWord(j, FALSE)'
      BY <1>1, <1>2, <1>5, <2>1, PushedWord
    <2>3. j \notin clients' /\ pc'[j] \notin Joining
      BY <1>2, <1>3, <1>6, <1>7 DEF Settling
    <2>4. QED
      BY <2>2, <2>3 DEF Settling
  <1>8. CASE j # i
    <2>1. ~Tells(m, j)
      BY <1>1, <1>2, <1>8 DEF Tells
    <2>2. \A v \in BOOLEAN : LastWord(j, v) => LastWord(j, v)'
      BY <1>1, <1>2, <1>5, <2>1, PushedWord
    <2>3. QED
      BY <1>2, <1>4, <1>8, <2>2, SettlingAlike
  <1>9. QED
    BY <1>7, <1>8

\* A client is removed; that it left will be announced.
LEMMA SettlingRemoval ==
  ASSUME Types, MeStays, NEW i \in Id, Kick(i) \/ Leave(i) \/ BuildInfo(i),
         spoiled' = {}, NEW j \in Id, Settling(j)
  PROVE  Settling(j)'
  <1>1. pc \in [Id -> Where]
    BY DEF Types
  <1>2. UNCHANGED <<pushes, peers, is_host>>
    BY DEF Kick, KickOut, Leave, BuildInfo, ui_vars
  <1>3. Blank <=> Blank'
    <2>1. pc' = pc \/ (i # Me /\ \E w \in Where : pc' = [pc EXCEPT ![i] = w])
      BY DEF Kick, KickOut, Leave, BuildInfo, Go, MeStays, Where
    <2>2. pc'[Me] = pc[Me]
      BY <1>1, <2>1, RosterConstants
    <2>3. QED
      BY <2>2 DEF Blank
  <1>4. \A v \in BOOLEAN : LastWord(j, v) => LastWord(j, v)'
    BY <1>2, <1>3, SameWord
  <1>5. CASE Kick(i)
    <2>1. /\ clients' = clients \ {i} /\ left_due' = left_due \cup {i} /\ pc' = pc /\ i # Me
          /\ pc[i] \notin Joining
      BY <1>5 DEF Kick, KickOut, Joining
    <2>2. CASE j = i
      BY <2>1, <2>2 DEF Settling
    <2>3. CASE j # i
      BY <1>4, <2>1, <2>3, SettlingAlike
    <2>4. QED
      BY <2>2, <2>3
  <1>6. CASE Leave(i)
    <2>1. /\ clients' = clients \ {i} /\ left_due' = left_due /\ i # Me /\ pc[i] = "in"
          /\ pc' = [pc EXCEPT ![i] = IF i \in clients THEN "removed" ELSE "done"]
      BY <1>6 DEF Leave, Go
    <2>2. CASE j = i
      <3>1. CASE i \in clients
        <4>1. pc'[j] = "removed" /\ j \notin clients'
          BY <1>1, <2>1, <2>2, <3>1
        <4>2. QED
          BY <4>1 DEF Settling, Joining
      <3>2. CASE i \notin clients
        <4>1. pc'[j] = "done" /\ j \notin clients' /\ j \notin clients
          BY <1>1, <2>1, <2>2, <3>2
        <4>2. QED
          BY <1>4, <2>1, <2>2, <4>1 DEF Settling, Joining
      <3>3. QED
        BY <3>1, <3>2
    <2>3. CASE j # i
      BY <1>1, <1>4, <2>1, <2>3, SettlingAlike
    <2>4. QED
      BY <2>2, <2>3
  <1>7. CASE BuildInfo(i)
    BY <1>1, <1>4, <1>7, SettlingAlike DEF BuildInfo, Go, Joining
  <1>8. QED
    BY <1>5, <1>6, <1>7

\* The host role is handed over, and a roster sent that is not out of date.
LEMMA SettlingTransfer ==
  ASSUME Types, MeStays, NEW i \in Id, Transfer(i) \/ PushInfo(i), spoiled' = {},
         NEW j \in Id, Present(j), Settling(j)
  PROVE  Settling(j)'
  <1>1. /\ pc \in [Id -> Where] /\ pushes \in Seq(Pushes) /\ info \in [Id -> RoomInfo]
        /\ j # HostFlag
    BY RosterConstants DEF Types, HostFlag
  <1>2. UNCHANGED <<clients, left_due, peers, is_host>>
    BY DEF Transfer, PushInfo, ui_vars
  <1>3. Blank <=> Blank'
    <2>1. i # Me /\ \E w \in Where : pc' = [pc EXCEPT ![i] = w]
      BY DEF Transfer, PushInfo, Go, MeStays, Where
    <2>2. pc'[Me] = pc[Me]
      BY <1>1, <2>1, RosterConstants
    <2>3. QED
      BY <2>2 DEF Blank
  <1>4. /\ pc'[j] \in Joining => pc[j] \in Joining
        /\ pc'[j] = "in" => pc[j] = "in"
        /\ pc[j] = "removed" => pc'[j] = "removed"
        /\ pc'[j] = "removed" => pc[j] = "removed"
    BY <1>1 DEF Transfer, PushInfo, Go, Joining
  <1>5. CASE Transfer(i)
    <2> DEFINE m == [type |-> "YouAreHost"]
    <2>1. m \in Pushes /\ ~Tells(m, j)
      BY <1>1 DEF Pushes, Tells
    <2>2. Push(m) \/ UNCHANGED pushes
      BY <1>5 DEF Transfer
    <2> HIDE DEF m
    <2>3. \A v \in BOOLEAN : LastWord(j, v) => LastWord(j, v)'
      BY <1>1, <1>2, <1>3, <2>1, <2>2, PushedWord, SameWord
    <2>4. QED
      BY <1>2, <1>4, <2>3, SettlingAlike
  <1>6. CASE PushInfo(i)
    <2> DEFINE m == [type |-> "RoomInfo", info |-> info[i]]
    <2>1. m \in Pushes /\ Push(m) /\ m.type = "RoomInfo" /\ m.info = info[i]
      BY <1>1, <1>6 DEF PushInfo, Pushes
    <2>2. info[i].clients = clients
      <3>1. info[i] = [clients |-> clients, host |-> host]
        BY <1>6 DEF PushInfo
      <3>2. QED
        BY <3>1
    <2> HIDE DEF m
    <2>3. Tells(m, j) /\ (Says(m, j) <=> j \in clients)
      BY <1>1, <2>1, <2>2 DEF Tells, Says
    <2>4. CASE j \in clients
      <3>1. LastWord(j, TRUE)'
        BY <1>1, <1>2, <1>3, <2>1, <2>3, <2>4, PushedWord
      <3>2. QED
        BY <1>2, <2>4, <3>1 DEF Settling
    <2>5. CASE j \notin clients
      <3>1. LastWord(j, FALSE)'
        BY <1>1, <1>2, <1>3, <2>1, <2>3, <2>5, PushedWord
      <3>2. pc'[j] \notin Joining
        BY <1>4, <2>5 DEF Settling
      <3>3. QED
        BY <1>2, <2>5, <3>1, <3>2 DEF Settling
    <2>6. QED
      BY <2>4, <2>5
  <1>7. QED
    BY <1>5, <1>6

\* Reading, and the commands of Me.
LEMMA SettlingMe ==
  ASSUME Types, MeStays, TypeKick \/ HandleKick \/ Read \/ UNCHANGED vars,
         spoiled' = {}, NEW j \in Id, Settling(j)
  PROVE  Settling(j)'
  <1>1. pushes \in Seq(Pushes) /\ peers \in [Id -> Nat] /\ is_host \in BOOLEAN
    BY DEF Types
  <1>2. pc' = pc /\ (Blank <=> Blank')
    BY DEF TypeKick, HandleKick, KickOut, Read, vars, server_vars, Blank
  <1>3. \A v \in BOOLEAN : LastWord(j, v) => LastWord(j, v)'
    <2>1. CASE Read
      BY <1>1, <2>1, ReadWord
    <2>2. CASE TypeKick \/ HandleKick \/ UNCHANGED vars
      <3>1. UNCHANGED <<pushes, peers, is_host>>
        BY <2>2 DEF TypeKick, HandleKick, KickOut, vars, ui_vars
      <3>2. QED
        BY <1>2, <3>1, SameWord
    <2>3. QED
      BY <2>1, <2>2
  <1>4. CASE TypeKick \/ Read \/ UNCHANGED vars
    <2>1. UNCHANGED <<clients, left_due>>
      BY <1>4 DEF TypeKick, Read, vars, server_vars
    <2>2. QED
      BY <1>2, <1>3, <2>1, SettlingAlike
  <1>5. CASE HandleKick
    <2>1. CASE UNCHANGED <<clients, left_due>>
      BY <1>2, <1>3, <2>1, SettlingAlike
    <2>2. CASE host = Me /\ Head(orders) # Me
      <3>1. PICK i : i = Head(orders)
        OBVIOUS
      <3>2. /\ clients' = clients \ {i} /\ left_due' = left_due \cup {i} /\ i # Me
            /\ pc[i] \notin Joining
        BY <1>5, <2>2, <3>1 DEF HandleKick, KickOut, Joining
      <3>3. CASE j = i
        BY <1>2, <3>2, <3>3 DEF Settling
      <3>4. CASE j # i
        BY <1>2, <1>3, <3>2, <3>4, SettlingAlike
      <3>5. QED
        BY <3>3, <3>4
    <2>3. QED
      BY <1>5, <2>1, <2>2 DEF HandleKick
  <1>6. QED
    BY <1>4, <1>5

\* Whether Me is host does not change, nor what is said of it.
LEMMA HostAlike ==
  ASSUME HostSettling, host' = Me <=> host = Me,
         \A v \in BOOLEAN : LastWord(HostFlag, v) => LastWord(HostFlag, v)'
  PROVE  HostSettling'
  BY DEF HostSettling

\* Me is told that it is host, and no longer told that it is not, when the role
\* comes to it: as it joins, or from a host that leaves.
LEMMA HostHandler ==
  ASSUME Types, MeStays, NEW i \in Id, Handler(i), spoiled' = {}, HostSettling
  PROVE  HostSettling'
  <1>1. /\ pc \in [Id -> Where] /\ pushes \in Seq(Pushes) /\ info \in [Id -> RoomInfo]
        /\ Me \in Id /\ Me # 0
    BY RosterConstants DEF Types
  <1>2. CASE Join(i)
    <2>1. UNCHANGED <<pushes, peers, is_host>> /\ pc[i] = "out"
          /\ pc' = [pc EXCEPT ![i] = "joining"] /\ host' = IF host = 0 THEN i ELSE host
      BY <1>2 DEF Join, Go, ui_vars
    <2>2. CASE i = Me
      <3>1. pushes' = <<>> /\ Blank'
        BY <1>1, <2>1, <2>2 DEF MeStays, Blank
      <3>2. QED
        BY <3>1 DEF HostSettling, LastWord, IsLast
    <2>3. CASE i # Me
      <3>1. (Blank <=> Blank') /\ (host' = Me <=> host = Me)
        BY <1>1, <2>1, <2>3 DEF Blank
      <3>2. QED
        BY <2>1, <3>1, HostAlike, SameWord
    <2>4. QED
      BY <2>2, <2>3
  <1>3. CASE SendRoomInfo(i)
    <2>1. UNCHANGED <<pushes, host>> /\ pc' = [pc EXCEPT ![i] = "announce"]
      BY <1>3 DEF SendRoomInfo, Go
    <2>2. CASE i = Me
      <3>1. is_host' = (host = Me)
        BY <1>3, <2>2 DEF SendRoomInfo
      <3>2. Shows(HostFlag)' <=> host = Me
        BY <3>1 DEF Shows
      <3>3. QED
        BY <2>1, <3>2 DEF HostSettling, LastWord, IsLast
    <2>3. CASE i # Me
      <3>1. UNCHANGED <<peers, is_host>> /\ (Blank <=> Blank')
        BY <1>1, <1>3, <2>1, <2>3 DEF SendRoomInfo, Blank
      <3>2. QED
        BY <2>1, <3>1, HostAlike, SameWord
    <2>4. QED
      BY <2>2, <2>3
  <1>4. CASE GiveUp(i) \/ Kick(i) \/ Leave(i) \/ BuildInfo(i)
    <2>1. UNCHANGED <<pushes, peers, is_host, host>>
      BY <1>4 DEF GiveUp, Kick, KickOut, Leave, BuildInfo, ui_vars
    <2>2. pc' = pc \/ (i # Me /\ \E w \in Where : pc' = [pc EXCEPT ![i] = w])
      BY <1>4 DEF GiveUp, Kick, KickOut, Leave, BuildInfo, Go, MeStays, Where
    <2>3. Blank <=> Blank'
      BY <1>1, <2>2 DEF Blank
    <2>4. QED
      BY <2>1, <2>3, HostAlike, SameWord
  <1>5. CASE Announce(i)
    <2>1. /\ UNCHANGED <<host, peers, is_host>> /\ pc[i] = "announce"
          /\ pc' = [pc EXCEPT ![i] = "in"]
      BY <1>5 DEF Announce, Go, ui_vars
    <2>2. Blank <=> Blank'
      BY <1>1, <2>1 DEF Blank
    <2>3. CASE i # Me
      <3> DEFINE m == [type |-> "ClientJoined", client_id |-> i]
      <3>1. m \in Pushes /\ Push(m) /\ ~Tells(m, HostFlag)
        BY <1>5, <2>3 DEF Announce, Pushes, Tells
      <3> HIDE DEF m
      <3>2. QED
        BY <1>1, <2>1, <2>2, <3>1, HostAlike, PushedWord
    <2>4. CASE i = Me /\ Me \in claimed
      <3> DEFINE m == [type |-> "YouAreHost"]
      <3>1. m \in Pushes /\ Push(m) /\ Tells(m, HostFlag) /\ Says(m, HostFlag) /\ host' = Me
        BY <1>5, <2>1, <2>4 DEF Announce, Pushes, Tells, Says, MeStays
      <3> HIDE DEF m
      <3>2. LastWord(HostFlag, TRUE)'
        BY <1>1, <2>1, <2>2, <3>1, PushedWord
      <3>3. QED
        BY <3>1, <3>2 DEF HostSettling
    <2>5. CASE i = Me /\ Me \notin claimed
      <3>1. UNCHANGED pushes
        BY <1>5, <2>5 DEF Announce
      <3>2. QED
        BY <2>1, <2>2, <3>1, HostAlike, SameWord
    <2>6. QED
      BY <2>3, <2>4, <2>5
  <1>6. CASE AnnounceKick(i) \/ AnnounceLeft(i)
    <2> DEFINE m == [type |-> "ClientLeft", client_id |-> i]
    <2>1. UNCHANGED <<host, peers, is_host>> /\ m \in Pushes /\ Push(m) /\ ~Tells(m, HostFlag)
      BY <1>6 DEF AnnounceKick, AnnounceLeft, ui_vars, Pushes, Tells
    <2>2. pc' = pc \/ (i # Me /\ \E w \in Where : pc' = [pc EXCEPT ![i] = w])
      BY <1>6 DEF AnnounceKick, AnnounceLeft, Go, MeStays, Where
    <2>3. Blank <=> Blank'
      BY <1>1, <2>2 DEF Blank
    <2> HIDE DEF m
    <2>4. QED
      BY <1>1, <2>1, <2>3, HostAlike, PushedWord
  <1>7. CASE Transfer(i)
    <2>1. UNCHANGED <<peers, is_host>> /\ i # Me /\ \E w \in Where : pc' = [pc EXCEPT ![i] = w]
      BY <1>7 DEF Transfer, Go, MeStays, Where, ui_vars
    <2>2. Blank <=> Blank'
      BY <1>1, <2>1 DEF Blank
    <2>3. CASE host = i /\ host' = Me
      <3> DEFINE m == [type |-> "YouAreHost"]
      <3>1. m \in Pushes /\ Push(m) /\ Tells(m, HostFlag) /\ Says(m, HostFlag)
        BY <1>7, <2>3 DEF Transfer, Pushes, Tells, Says
      <3> HIDE DEF m
      <3>2. LastWord(HostFlag, TRUE)'
        BY <1>1, <2>1, <2>2, <3>1, PushedWord
      <3>3. QED
        BY <2>3, <3>2 DEF HostSettling
    <2>4. CASE ~(host = i /\ host' = Me)
      <3>1. UNCHANGED pushes /\ (host' = Me <=> host = Me)
        BY <1>7, <2>1, <2>4 DEF Transfer
      <3>2. QED
        BY <2>1, <2>2, <3>1, HostAlike, SameWord
    <2>5. QED
      BY <2>3, <2>4
  <1>8. CASE PushInfo(i)
    <2> DEFINE m == [type |-> "RoomInfo", info |-> info[i]]
    <2>1. /\ UNCHANGED <<host, clients, peers, is_host>> /\ i # Me
          /\ \E w \in Where : pc' = [pc EXCEPT ![i] = w]
      BY <1>8 DEF PushInfo, Go, MeStays, Where, ui_vars
    <2>2. Blank <=> Blank'
      BY <1>1, <2>1 DEF Blank
    <2>3. m \in Pushes /\ Push(m) /\ m.type = "RoomInfo" /\ m.info = info[i]
      BY <1>1, <1>8 DEF PushInfo, Pushes
    <2>4. m.info.clients = clients /\ m.info.host = host
      <3>1. info[i] = [clients |-> clients, host |-> host]
        BY <1>8 DEF PushInfo
      <3>2. QED
        BY <2>3, <3>1
    <2> HIDE DEF m
    <2>5. CASE Me \in clients
      <3>1. Tells(m, HostFlag) /\ (Says(m, HostFlag) <=> host = Me)
        BY <2>3, <2>4, <2>5 DEF Tells, Says
      <3>2. \A v \in BOOLEAN : (v <=> host = Me) => LastWord(HostFlag, v)'
        BY <1>1, <2>1, <2>2, <2>3, <3>1, PushedWord
      <3>3. QED
        BY <2>1, <3>2 DEF HostSettling
    <2>6. CASE Me \notin clients
      <3>1. \A v \in BOOLEAN : LastWord(HostFlag, v)'
        BY <1>1, <2>1, <2>2, <2>3, <2>6, PushedWord
      <3>2. QED
        BY <3>1 DEF HostSettling
    <2>7. QED
      BY <2>5, <2>6
  <1>9. QED
    BY <1>2, <1>3, <1>4, <1>5, <1>6, <1>7, <1>8 DEF Handler

LEMMA HostMe ==
  ASSUME Types, TypeKick \/ HandleKick \/ Read \/ UNCHANGED vars, HostSettling
  PROVE  HostSettling'
  <1>1. pushes \in Seq(Pushes) /\ peers \in [Id -> Nat] /\ is_host \in BOOLEAN
    BY DEF Types
  <1>2. host' = host /\ (Blank <=> Blank')
    BY DEF TypeKick, HandleKick, KickOut, Read, vars, server_vars, Blank
  <1>3. CASE Read
    BY <1>1, <1>2, <1>3, ReadWord, HostAlike
  <1>4. CASE TypeKick \/ HandleKick \/ UNCHANGED vars
    <2>1. UNCHANGED <<pushes, peers, is_host>>
      BY <1>4 DEF TypeKick, HandleKick, KickOut, vars, ui_vars
    <2>2. QED
      BY <1>2, <2>1, SameWord, HostAlike
  <1>5. QED
    BY <1>3, <1>4

-----------------------------------------------------------------------------
(* Initially, and in every step.                                           *)

LEMMA RosterStart ==
  ASSUME Init
  PROVE  RosterInv
  <1>1. Types
    BY TypesStart
  <1>2. /\ pushes = <<>> /\ orders = <<>> /\ clients = {} /\ host = 0 /\ claimed = {}
        /\ left_due = {} /\ pc = [i \in Id |-> "out"] /\ peers = [i \in Id |-> 0]
        /\ info = [i \in Id |-> Empty] /\ Me \in Id /\ Me # 0
    BY RosterConstants DEF Init
  <1>3. Len(pushes) = 0 /\ Len(orders) = 0 /\ \A k \in 1..0 : FALSE
    BY <1>2
  <1>4. MeStays
    BY <1>2 DEF MeStays
  <1>5. ASSUME NEW i \in Id
        PROVE  NotNamed(i) /\ Present(i) /\ Counted(i) /\ Settling(i)
    <2>1. NotNamed(i) /\ Present(i)
      BY <1>2, <1>3 DEF NotNamed, Present, Empty
    <2>2. Counted(i)
      BY <1>2, <1>3 DEF Counted, Coming
    <2>3. Settling(i)
      BY <1>2, <1>3 DEF Settling, Joining, LastWord, Blank
    <2>4. QED
      BY <2>1, <2>2, <2>3
  <1>6. HostSettling
    BY <1>2, <1>3 DEF HostSettling, LastWord, Blank
  <1>7. QED
    BY <1>1, <1>4, <1>5, <1>6 DEF RosterInv

\* What has spoiled the screen stays on record.
LEMMA SpoiledStays ==
  ASSUME [Next]_vars
  PROVE  spoiled \subseteq spoiled' /\ (Overtake => spoiled' # {})
  BY DEF Next, Handler, Join, SendRoomInfo, GiveUp, Announce, Kick, KickOut, AnnounceKick, Leave,
         AnnounceLeft, Transfer, BuildInfo, PushInfo, TypeKick, HandleKick, Read, Overtake, vars

LEMMA RosterStep ==
  ASSUME RosterInv, [Next]_vars
  PROVE  RosterInv'
  <1>1. Types /\ MeStays /\ \A i \in Id : NotNamed(i) /\ Present(i) /\ Counted(i)
    BY DEF RosterInv
  <1>2. Types' /\ MeStays'
    BY <1>1, HandlerTypes, MeTypes, MeStaysHandler, MeStaysMe DEF Next
  <1>3. ASSUME NEW j \in Id
        PROVE  NotNamed(j)' /\ Present(j)' /\ Counted(j)'
    <2>1. NotNamed(j)'
      <3>1. CASE pc'[j] = "out"
        BY <1>1, <3>1, NotNamedHandler, NotNamedMe DEF Next
      <3>2. CASE pc'[j] # "out"
        BY <3>2 DEF NotNamed
      <3>3. QED
        BY <3>1, <3>2
    <2>2. Present(j)'
      BY <1>1, PresentStep
    <2>3. Counted(j)'
      BY <1>1, CountedHandler, CountedRead, CountedMe DEF Next
    <2>4. QED
      BY <2>1, <2>2, <2>3
  <1>4. ASSUME spoiled' = {}
        PROVE  (\A i \in Id : Settling(i)') /\ HostSettling'
    <2>1. spoiled = {} /\ ~Overtake
      BY <1>4, SpoiledStays
    <2>2. (\A i \in Id : Settling(i)) /\ HostSettling
      BY <2>1 DEF RosterInv
    <2>3. CASE \E i \in Id : Handler(i)
      <3>1. PICK i \in Id : Handler(i)
        BY <2>3
      <3>2. ASSUME NEW j \in Id
            PROVE  Settling(j)'
        BY <1>1, <1>4, <2>2, <3>1, SettlingArrival, SettlingAnnounce, SettlingGone,
           SettlingRemoval, SettlingTransfer DEF Handler
      <3>3. HostSettling'
        BY <1>1, <1>4, <2>2, <3>1, HostHandler
      <3>4. QED
        BY <3>2, <3>3
    <2>4. CASE TypeKick \/ HandleKick \/ Read \/ UNCHANGED vars
      BY <1>1, <1>4, <2>2, <2>4, SettlingMe, HostMe
    <2>5. QED
      BY <2>1, <2>3, <2>4 DEF Next
  <1>5. QED
    BY <1>2, <1>3, <1>4 DEF RosterInv

LEMMA RosterInvariant == Spec => []RosterInv
  BY RosterStart, RosterStep, PTL DEF Spec

-----------------------------------------------------------------------------
(* What follows from it.                                                   *)

\* The types of the roster and of what feeds it; no more than two entries are
\* ever shown of a client, whatever is read in whatever order.
THEOREM RosterTypeCorrect == Spec => []TypeOK
  <1>1. RosterInv => TypeOK
    <2> SUFFICES ASSUME RosterInv PROVE TypeOK
      OBVIOUS
    <2>1. Types /\ \A i \in Id : Counted(i)
      BY DEF RosterInv
    <2>2. peers \in [Id -> 0..2]
      BY <2>1 DEF Types, Counted
    <2>3. orders \in BoundedSeq(Id, MaxKick)
      <3>1. PICK n \in Nat : n = Len(orders)
        BY <2>1 DEF Types
      <3>2. n \in 0..MaxKick
        BY <2>1, <3>1, RosterConstants DEF Types
      <3>3. orders \in [1..n -> Id]
        BY <2>1, <3>1 DEF Types
      <3>4. QED
        BY <3>2, <3>3 DEF BoundedSeq, SeqOf
    <2>4. \A k \in DOMAIN pushes : pushes[k] \in Pushes
      BY <2>1 DEF Types
    <2>5. QED
      BY <2>1, <2>2, <2>3, <2>4 DEF Types, TypeOK
  <1>2. QED
    BY <1>1, RosterInvariant, PTL

\* At rest the screen shows who is host and who is in the room, but for ghosts.
LEMMA AtRest ==
  ASSUME RosterInv, Quiet, spoiled = {}
  PROVE  /\ \A i \in Id : peers[i] > 0 => i \in clients
         /\ \A i \in clients \ Ghosts : i \in Id /\ peers[i] > 0
         /\ is_host = (host = Me)
  <1>1. /\ Types /\ (\A i \in Id : Present(i) /\ Settling(i)) /\ HostSettling
        /\ pushes = <<>> /\ left_due = {} /\ ~Blank
        /\ \A i \in Id : pc[i] \in {"out", "in", "done"}
    BY DEF RosterInv, Quiet, Blank
  <1>2. \A x : Untold(x)
    <2>1. Len(pushes) = 0 /\ \A k \in 1..0 : FALSE
      BY <1>1
    <2>2. QED
      BY <2>1 DEF Untold
  <1>3. ASSUME NEW i \in Id
        PROVE  /\ peers[i] > 0 => i \in clients
               /\ i \in clients \ Ghosts => peers[i] > 0
    <2>1. i # HostFlag
      BY RosterConstants DEF HostFlag
    <2>2. CASE i \in clients \ Ghosts
      <3>1. pc[i] = "in"
        BY <1>1, <2>2 DEF Ghosts, Present, Joining
      <3>2. LastWord(i, TRUE)
        BY <1>1, <2>2, <3>1 DEF Settling
      <3>3. QED
        BY <1>1, <1>2, <2>1, <2>2, <3>2 DEF LastWord, Shows
    <2>3. CASE i \notin clients
      <3>1. LastWord(i, FALSE)
        BY <1>1, <2>3 DEF Settling
      <3>2. QED
        BY <1>1, <1>2, <2>1, <2>3, <3>1 DEF LastWord, Shows
    <2>4. QED
      BY <2>2, <2>3
  <1>4. is_host <=> host = Me
    BY <1>1, <1>2 DEF HostSettling, LastWord, Shows
  <1>5. is_host \in BOOLEAN /\ clients \subseteq Id
    BY <1>1 DEF Types
  <1>6. QED
    BY <1>3, <1>4, <1>5

\* When everything announced has been read, set_peers_from_info and
\* handle_signal have left on the screen whether Me is host, nobody who is not in
\* the room, and everybody in it who was announced, in whatever order the others
\* came, went and handed over; with the three exceptions of RosterSettles: pushes
\* that overtook each other, a roster out of date when sent, a joiner kicked.
THEOREM RosterIsSettled == Spec => []RosterSettles
  <1>1. RosterInv => RosterSettles
    <2> SUFFICES ASSUME RosterInv, Quiet, spoiled = {}
                 PROVE  /\ OnScreen \subseteq clients /\ clients \ Ghosts \subseteq OnScreen
                        /\ is_host = (host = Me)
      BY DEF RosterSettles
    <2>1. QED
      BY AtRest DEF OnScreen
  <1>2. QED
    BY <1>1, RosterInvariant, PTL

\* With the same exceptions, what find_peer finds at rest is in the room, and has
\* the id that was typed or is the only one of that name, ghosts aside; and every
\* client in the room with a handler is found by its id, whatever the names are.
THEOREM CommandsAimTrue == Spec => []CommandsAim
  <1>1. RosterInv => CommandsAim
    <2> SUFFICES ASSUME RosterInv, Quiet, spoiled = {}
                 PROVE  /\ \A w \in Word : FindPeer(w) # Nobody =>
                              /\ FindPeer(w) \in clients
                              /\ \/ w = FindPeer(w)
                                 \/ /\ Name[FindPeer(w)] = w
                                    /\ \A i \in clients \ Ghosts :
                                          Name[i] = w => i = FindPeer(w)
                        /\ \A i \in clients \ Ghosts : FindPeer(i) = i
      BY DEF CommandsAim
    <2>1. /\ \A i \in Id : peers[i] > 0 => i \in clients
          /\ \A i \in clients \ Ghosts : i \in Id /\ peers[i] > 0
      BY AtRest
    <2>2. \A w : \A i \in clients \ Ghosts : Name[i] = w => i \in Named(w)
      BY <2>1 DEF Named
    <2>3. ASSUME NEW w \in Word, FindPeer(w) # Nobody
          PROVE  /\ FindPeer(w) \in clients
                 /\ \/ w = FindPeer(w)
                    \/ /\ Name[FindPeer(w)] = w
                       /\ \A i \in clients \ Ghosts : Name[i] = w => i = FindPeer(w)
      <3>1. /\ FindPeer(w) \in Id /\ peers[FindPeer(w)] > 0
            /\ w = FindPeer(w) \/ Named(w) = {FindPeer(w)}
        BY <2>3, Found
      <3>2. Named(w) = {FindPeer(w)} => Name[FindPeer(w)] = w
        BY DEF Named
      <3>3. QED
        BY <2>1, <2>2, <3>1, <3>2
    <2>4. \A i \in clients \ Ghosts : FindPeer(i) = i
      BY <2>1 DEF FindPeer
    <2>5. QED
      BY <2>3, <2>4
  <1>2. QED
    BY <1>1, RosterInvariant, PTL
=============================================================================
