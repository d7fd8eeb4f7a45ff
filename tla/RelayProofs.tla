---------------------------- MODULE RelayProofs -----------------------------
(***************************************************************************)
(* Proofs about what forwards data from one connection to another, for any *)
(* number of clients, handlers and frames, any queue length and any amount *)
(* of data: Relay implements FrameLink, and NothingCutOff holds of         *)
(* StreamProxy.                                                            *)
(***************************************************************************)
EXTENDS Relay, StreamProxy, WellFoundedInduction, TLAPS

\* The provers to try on a leaf that names none, and how long.
USE SMTT(30), ZenonT(30)

(***************************************************************************)
(* The relay. FrameLink allows a frame to be delivered only while it is in *)
(* transit and after the earlier frames of its sender on that connection.  *)
(* Both follow from where frames are: in one queue or one handler's list   *)
(* each (Apart), there in the order of their sender (InOrder), and after   *)
(* all that the connection they will leave on has had (Before).            *)
(***************************************************************************)

RelayedFrames == [src : Senders, num : Nat]

\* One sender's frames are in the order they were sent.
InOrder(s) ==
    \A k, m \in DOMAIN s : k < m /\ s[k].src = s[m].src => s[k].num < s[m].num

\* No frame of s was sent after a frame of u, by the same sender.
Before(s, u) ==
    \A k \in DOMAIN s, m \in DOMAIN u : s[k].src = u[m].src => s[k].num < u[m].num

\* No frame is in both.
Apart(s, u) == \A k \in DOMAIN s, m \in DOMAIN u : s[k] # u[m]

\* A sequence of frames that were sent.
WereSent(s) == s \in Seq(RelayedFrames) /\ \A k \in DOMAIN s : s[k].num <= sent[s[k].src]

RelayInv ==
    /\ sent \in [Senders -> Nat]
    /\ serves \in [Handlers -> Senders \cup {Absent}]
    /\ DOMAIN queues = Senders /\ DOMAIN held = Handlers /\ DOMAIN out = Handlers
    /\ \A d \in Senders :
         queues[d] # Absent => /\ WereSent(queues[d]) /\ InOrder(queues[d])
                               /\ \A e \in Senders \ {d} :
                                    queues[e] # Absent => Apart(queues[d], queues[e])
                               /\ \A h \in Handlers : Apart(held[h], queues[d])
    /\ \A h \in Handlers :
         /\ WereSent(held[h]) /\ InOrder(held[h]) /\ WereSent(out[h])
         /\ Before(out[h], held[h])
         /\ serves[h] = Absent => held[h] = <<>>
         /\ \A g \in Handlers \ {h} : Apart(held[h], held[g])
         /\ serves[h] # Absent /\ queues[serves[h]] # Absent =>
              Before(out[h], queues[serves[h]]) /\ Before(held[h], queues[serves[h]])

\* Any numbers have a least one among them.
LEMMA LeastNumber ==
    ASSUME NEW S \in SUBSET Nat, S # {}
    PROVE  \E x \in S : \A y \in S : x <= y
<1>1. PICK x \in S : \A y \in S : ~(<<y, x>> \in OpToRel(<, Nat))
  BY NatLessThanWellFounded, WFMin, Zenon
<1>2. \A y \in S : ~(y < x)
  BY <1>1, Zenon DEF OpToRel
<1>3. \A y \in S : x <= y
  BY ONLY <1>2, S \in SUBSET Nat, x \in S
<1> QED  BY <1>3

\* What remains of the first n frames of a queue: frames of it, in their order.
Remains(s, queue, n) ==
    /\ s \in Seq(RelayedFrames) /\ InOrder(s)
    /\ \A k \in DOMAIN s : \E m \in 1 .. n : s[k] = queue[m]

\* drop_client's filter keeps frames of the queue, in their order.
LEMMA WithoutRemains ==
    ASSUME NEW queue \in Seq(RelayedFrames), InOrder(queue), NEW i
    PROVE  Remains(WithoutSender(queue, i), queue, Len(queue))
<1> DEFINE L == Len(queue)
           nxt(s, n) == IF queue[n].src # i THEN Append(s, queue[n]) ELSE s
           Part(F, n) == F = [k \in 0 .. n |-> IF k = 0 THEN <<>> ELSE nxt(F[k - 1], k)]
           kept == CHOOSE F : Part(F, L)
<1>0. L \in Nat
  OBVIOUS
<1>1. WithoutSender(queue, i) = kept[L]
  BY DEF WithoutSender
<1> HIDE DEF L, nxt
<1>2. \E F : Part(F, L)
  <2> DEFINE bad == {n \in Nat : ~\E F : Part(F, n)}
  <2> SUFFICES ASSUME bad # {} PROVE FALSE
    BY <1>0, Zenon
  <2>1. PICK x \in bad : \A y \in bad : x <= y
    BY LeastNumber, Zenon
  <2>2. x # 0
    <3> DEFINE F == [k \in 0 .. 0 |-> <<>>]
    <3>1. Part(F, 0)
      OBVIOUS
    <3> QED  BY <3>1, Zenon
  <2>3. x - 1 \in Nat /\ x - 1 \notin bad
    BY <2>1, <2>2
  <2>4. PICK F : Part(F, x - 1)
    BY <2>3
  <2> DEFINE G == [k \in 0 .. x |-> IF k = x THEN nxt(F[x - 1], x) ELSE F[k]]
  <2>5. G = [k \in 0 .. x |-> IF k = 0 THEN <<>> ELSE nxt(G[k - 1], k)]
    <3>1. ASSUME NEW k \in 0 .. x PROVE G[k] = IF k = 0 THEN <<>> ELSE nxt(G[k - 1], k)
      <4>1. CASE k = x
        <5>1. x - 1 \in 0 .. x /\ x - 1 # x
          BY <2>2
        <5>2. G[x - 1] = F[x - 1] /\ G[x] = nxt(F[x - 1], x)
          BY <5>1
        <5> QED  BY <2>2, <4>1, <5>2
      <4>2. CASE k # x /\ k # 0
        <5>1. k \in 0 .. x - 1 /\ k - 1 \in 0 .. x - 1 /\ k - 1 # x
          BY <4>2
        <5>2. G[k] = F[k] /\ G[k - 1] = F[k - 1]
          BY <4>2, <5>1
        <5>3. F[k] = nxt(F[k - 1], k)
          BY <2>4, <4>2, <5>1
        <5> QED  BY <4>2, <5>2, <5>3
      <4>3. CASE k = 0
        BY <2>2, <2>4, <4>3
      <4> QED  BY <4>1, <4>2, <4>3
    <3> DEFINE H == [k \in 0 .. x |-> IF k = 0 THEN <<>> ELSE nxt(G[k - 1], k)]
    <3>2. \A k \in 0 .. x : G[k] = H[k]
      BY <3>1
    <3> QED  BY <3>2
  <2>6. Part(G, x)
    BY <2>5
  <2> QED  BY <2>6, Zenon
<1>3. Part(kept, L)
  BY <1>2, Zenon
<1> HIDE DEF kept
<1>4. /\ kept[0] = <<>>
      /\ \A n \in 1 .. L : n - 1 \in 0 .. L /\ kept[n] = nxt(kept[n - 1], n)
  BY <1>0, <1>3
<1>5. \A n \in 0 .. L : Remains(kept[n], queue, n)
  <2> DEFINE bad == {n \in Nat : n <= L /\ ~Remains(kept[n], queue, n)}
  <2> SUFFICES ASSUME bad # {} PROVE FALSE
    BY <1>0
  <2>1. PICK x \in bad : \A y \in bad : x <= y
    BY LeastNumber, Zenon
  <2>2. x # 0
    <3> DEFINE none == <<>>
    <3>1. none \in Seq(RelayedFrames) /\ DOMAIN none = {}
      OBVIOUS
    <3> HIDE DEF none
    <3>2. Remains(none, queue, 0)
      BY <3>1 DEF Remains, InOrder
    <3> QED  BY <1>4, <2>1, <3>2 DEF none
  <2>3. x - 1 \in Nat /\ Remains(kept[x - 1], queue, x - 1) /\ x \in 1 .. L
    BY <1>0, <2>1, <2>2
  <2> DEFINE s == kept[x - 1]
  <2>4. CASE kept[x] = s
    <3>1. 1 .. x - 1 \subseteq 1 .. x
      BY <2>3
    <3> QED  BY <2>3, <2>4, <3>1 DEF Remains
  <2>5. CASE kept[x] = Append(s, queue[x])
    <3>1. queue[x] \in RelayedFrames /\ x \in DOMAIN queue
      BY <2>3 DEF L
    <3> HIDE DEF s
    <3>2. s \in Seq(RelayedFrames) /\ InOrder(s) /\ \A k \in DOMAIN s : \E m \in 1 .. x - 1 : s[k] = queue[m]
      BY <2>3 DEF Remains, s
    <3> DEFINE u == Append(s, queue[x])
    <3>3. /\ u \in Seq(RelayedFrames) /\ DOMAIN u = 1 .. Len(s) + 1 /\ DOMAIN s = 1 .. Len(s)
          /\ Len(s) \in Nat /\ u[Len(s) + 1] = queue[x] /\ \A k \in DOMAIN s : u[k] = s[k]
      BY <3>1, <3>2
    <3> HIDE DEF u
    <3>4. \A k \in DOMAIN u : \E m \in 1 .. x : u[k] = queue[m]
      BY <2>3, <3>2, <3>3
    <3>5. InOrder(u)
      <4> SUFFICES ASSUME NEW k \in DOMAIN u, NEW m \in DOMAIN u, k < m, u[k].src = u[m].src
                   PROVE  u[k].num < u[m].num
        BY DEF InOrder
      <4>1. CASE m = Len(s) + 1
        <5>1. k \in DOMAIN s
          BY <3>3, <4>1
        <5>2. PICK l \in 1 .. x - 1 : u[k] = queue[l]
          BY <3>2, <3>3, <5>1
        <5>3. l \in DOMAIN queue /\ l < x
          BY <2>3, <3>1, <5>2
        <5> QED  BY <3>1, <3>3, <4>1, <5>2, <5>3 DEF InOrder
      <4>2. CASE m # Len(s) + 1
        <5>1. k \in DOMAIN s /\ m \in DOMAIN s
          BY <3>3, <4>2
        <5> QED  BY <3>2, <3>3, <5>1 DEF InOrder
      <4> QED  BY <4>1, <4>2
    <3>6. Remains(u, queue, x)
      BY <3>3, <3>4, <3>5 DEF Remains
    <3> QED  BY <2>5, <3>6, Zenon DEF u
  <2> QED  BY <1>4, <2>3, <2>4, <2>5, Zenon DEF nxt
<1> QED  BY <1>0, <1>1, <1>5 DEF L

-----------------------------------------------------------------------------
(* The steps                                                                *)

\* The first frame of a queue, and the rest of it.
LEMMA HeadTail ==
    ASSUME NEW s \in Seq(RelayedFrames), s # <<>>
    PROVE  /\ Head(s) \in RelayedFrames /\ 1 \in DOMAIN s /\ Head(s) = s[1]
           /\ Tail(s) \in Seq(RelayedFrames)
           /\ \A k \in DOMAIN Tail(s) : k \in Nat /\ k + 1 \in DOMAIN s /\ Tail(s)[k] = s[k + 1] /\ k > 0
           /\ \A m \in DOMAIN s : m = 1 \/ (m - 1 \in DOMAIN Tail(s) /\ s[m] = Tail(s)[m - 1])
OBVIOUS

\* A frame at the end of a queue.
LEMMA AtTheEnd ==
    ASSUME NEW s \in Seq(RelayedFrames), NEW f \in RelayedFrames
    PROVE  /\ Append(s, f) \in Seq(RelayedFrames) /\ DOMAIN s = 1 .. Len(s) /\ Len(s) \in Nat
           /\ DOMAIN Append(s, f) = 1 .. Len(s) + 1 /\ Append(s, f)[Len(s) + 1] = f
           /\ \A k \in DOMAIN s : Append(s, f)[k] = s[k]
OBVIOUS

\* The frames that may still be delivered, one by one.
TransitIs ==
    \A f : f \in InTransit <=>
        \/ \E d \in Senders : queues[d] # Absent /\ \E k \in DOMAIN queues[d] : f = queues[d][k]
        \/ \E h \in Handlers : \E k \in DOMAIN held[h] : f = held[h][k]

\* Which frames may still be delivered.
LEMMA TransitMembers == TransitIs
<1> SUFFICES ASSUME NEW f
             PROVE  f \in InTransit <=>
               \/ \E d \in Senders : queues[d] # Absent /\ \E k \in DOMAIN queues[d] : f = queues[d][k]
               \/ \E h \in Handlers : \E k \in DOMAIN held[h] : f = held[h][k]
  BY DEF TransitIs
<1>1. \A q : f \in FramesOf(q) <=> \E k \in DOMAIN q : f = q[k]
  BY DEF FramesOf
<1>2. f \in InTransit <=> \/ \E d \in Senders : queues[d] # Absent /\ f \in FramesOf(queues[d])
                        \/ \E h \in Handlers : f \in FramesOf(held[h])
  BY DEF InTransit
<1> QED  BY <1>1, <1>2

\* x is one of the frames of s.
Holds(s, x) == \E k \in DOMAIN s : x = s[k]

\* The handler h takes the queue q of d, delivers its first frame f and keeps the rest r: what
\* may still be delivered is what it was without f.
LEMMA TransitStarts ==
    ASSUME NEW h \in Handlers, NEW d \in Senders, NEW f, NEW q, NEW r, NEW none,
           q = queues[d], q # Absent, DOMAIN held[h] = {}, DOMAIN none = {},
           \A g \in Handlers : held'[g] = IF g = h THEN r ELSE held[g],
           \A e \in Senders : queues'[e] = IF e = d THEN none ELSE queues[e],
           \A x : Holds(q, x) <=> x = f \/ Holds(r, x),
           ~Holds(r, f),
           \A g \in Handlers : ~Holds(held[g], f),
           \A e \in Senders \ {d} : queues[e] # Absent => ~Holds(queues[e], f)
    PROVE  f \in InTransit /\ InTransit' = InTransit \ {f}
<1>1. /\ \A x : x \in InTransit <=> \/ \E e \in Senders : queues[e] # Absent /\ Holds(queues[e], x)
                                 \/ \E g \in Handlers : Holds(held[g], x)
      /\ \A x : x \in InTransit' <=> \/ \E e \in Senders : queues'[e] # Absent /\ Holds(queues'[e], x)
                                  \/ \E g \in Handlers : Holds(held'[g], x)
  <2>1. TransitIs /\ TransitIs'
    BY TransitMembers, PTL
  <2> QED  BY <2>1 DEF TransitIs, Holds
<1>2. \A x : ~Holds(none, x) /\ ~Holds(held[h], x)
  BY DEF Holds
<1>3. ASSUME NEW x PROVE x \in InTransit' <=> x \in InTransit /\ x # f
  <2>1. (\E g \in Handlers : Holds(held'[g], x))
        <=> Holds(r, x) \/ \E g \in Handlers : Holds(held[g], x)
    BY <1>2
  <2>2. (\E e \in Senders : queues'[e] # Absent /\ Holds(queues'[e], x))
        <=> \E e \in Senders \ {d} : queues[e] # Absent /\ Holds(queues[e], x)
    BY <1>2
  <2>3. (\E e \in Senders : queues[e] # Absent /\ Holds(queues[e], x))
        <=> Holds(q, x) \/ \E e \in Senders \ {d} : queues[e] # Absent /\ Holds(queues[e], x)
    OBVIOUS
  <2> QED  BY <1>1, <2>1, <2>2, <2>3
<1> QED  BY <1>1, <1>3

\* s holds frames of u only, in their order.
Subset(s, u) ==
    /\ s \in Seq(RelayedFrames) /\ InOrder(s)
    /\ \A k \in DOMAIN s : \E m \in DOMAIN u : s[k] = u[m]

\* What holds for the frames of a queue holds for some of them.
LEMMA SubsetKeeps ==
    ASSUME NEW s, NEW u, Subset(s, u)
    PROVE  /\ WereSent(u) => WereSent(s)
           /\ \A v : Apart(u, v) => Apart(s, v)
           /\ \A v : Apart(v, u) => Apart(v, s)
           /\ \A v : Before(v, u) => Before(v, s)
           /\ \A v : Before(u, v) => Before(s, v)
<1>1. WereSent(u) => WereSent(s)
  BY DEF Subset, WereSent
<1>2. \A v : Apart(u, v) => Apart(s, v)
  BY DEF Subset, Apart
<1>3. \A v : Apart(v, u) => Apart(v, s)
  BY DEF Subset, Apart
<1>4. \A v : Before(v, u) => Before(v, s)
  BY DEF Subset, Before
<1>5. \A v : Before(u, v) => Before(s, v)
  BY DEF Subset, Before
<1> QED  BY <1>1, <1>2, <1>3, <1>4, <1>5

\* A queue is a part of itself, and so are its rest, what drop_client leaves
\* of it, and nothing.
LEMMA Subsets ==
    ASSUME NEW s \in Seq(RelayedFrames), InOrder(s)
    PROVE  /\ Subset(s, s) /\ Subset(<<>>, s)
           /\ s # <<>> => Subset(Tail(s), s)
           /\ \A i : Subset(WithoutSender(s, i), s)
<1>1. Subset(s, s)
  BY DEF Subset
<1>2. Subset(<<>>, s)
  <2> DEFINE none == <<>>
  <2>1. none \in Seq(RelayedFrames) /\ DOMAIN none = {}
    OBVIOUS
  <2> HIDE DEF none
  <2>2. Subset(none, s)
    BY <2>1 DEF Subset, InOrder
  <2> QED  BY <2>2 DEF none
<1>3. ASSUME s # <<>> PROVE Subset(Tail(s), s)
  <2> DEFINE u == Tail(s)
  <2>1. /\ u \in Seq(RelayedFrames)
        /\ \A k \in DOMAIN u : k \in Nat /\ k + 1 \in DOMAIN s /\ u[k] = s[k + 1]
    BY <1>3, HeadTail
  <2> HIDE DEF u
  <2>2. InOrder(u)
    <3> SUFFICES ASSUME NEW k \in DOMAIN u, NEW m \in DOMAIN u, k < m, u[k].src = u[m].src
                 PROVE  u[k].num < u[m].num
      BY DEF InOrder
    <3>1. k + 1 < m + 1 /\ k + 1 \in DOMAIN s /\ m + 1 \in DOMAIN s
      BY <2>1
    <3> QED  BY <2>1, <3>1 DEF InOrder
  <2>3. Subset(u, s)
    BY <2>1, <2>2 DEF Subset
  <2> QED  BY <2>3 DEF u
<1>4. ASSUME NEW i PROVE Subset(WithoutSender(s, i), s)
  <2>1. Remains(WithoutSender(s, i), s, Len(s)) /\ 1 .. Len(s) = DOMAIN s
    BY WithoutRemains
  <2> QED  BY <2>1 DEF Remains, Subset
<1> QED  BY <1>1, <1>2, <1>3, <1>4

\* Nothing is in order, and apart from everything.
LEMMA NothingFine ==
    /\ WereSent(<<>>) /\ InOrder(<<>>)
    /\ \A v : Apart(<<>>, v) /\ Apart(v, <<>>) /\ Before(<<>>, v) /\ Before(v, <<>>)
<1> DEFINE none == <<>>
<1>1. none \in Seq(RelayedFrames) /\ DOMAIN none = {}
  OBVIOUS
<1> HIDE DEF none
<1>2. /\ WereSent(none) /\ InOrder(none)
      /\ \A v : Apart(none, v) /\ Apart(v, none) /\ Before(none, v) /\ Before(v, none)
  BY <1>1 DEF WereSent, InOrder, Apart, Before
<1> QED  BY <1>2 DEF none

\* What the queues and the handlers hold in the next state is part of what they hold.
Shrinks ==
    /\ UNCHANGED <<sent, out>>
    /\ serves' \in [Handlers -> Senders \cup {Absent}]
    /\ DOMAIN queues' = Senders /\ DOMAIN held' = Handlers
    /\ \A d \in Senders :
         queues'[d] # Absent => \/ queues[d] # Absent /\ Subset(queues'[d], queues[d])
                                \/ queues'[d] = <<>>
    /\ \A h \in Handlers :
         /\ held'[h] \in {held[h], <<>>}
         /\ serves'[h] # Absent =>
              serves'[h] = serves[h] \/ (out[h] = <<>> /\ held'[h] = <<>>)
         /\ serves'[h] = Absent => held'[h] = <<>>

\* Such a step keeps the invariant and delivers nothing.
LEMMA ShrinksKeep ==
    ASSUME RelayInv, Shrinks
    PROVE  RelayInv' /\ InTransit' \subseteq InTransit
<1>1. \A s : WereSent(s)' <=> WereSent(s)
  BY DEF Shrinks, WereSent
<1>2. ASSUME NEW d \in Senders, queues'[d] # Absent
      PROVE  /\ WereSent(queues'[d]) /\ InOrder(queues'[d])
             /\ \A v : (queues[d] # Absent => Apart(queues[d], v)) => Apart(queues'[d], v)
             /\ \A v : (queues[d] # Absent => Apart(v, queues[d])) => Apart(v, queues'[d])
             /\ \A v : (queues[d] # Absent => Before(v, queues[d])) => Before(v, queues'[d])
             /\ \A k \in DOMAIN queues'[d] :
                  queues[d] # Absent /\ \E m \in DOMAIN queues[d] : queues'[d][k] = queues[d][m]
  <2>1. CASE queues'[d] = <<>>
    BY <2>1, NothingFine
  <2>2. CASE queues[d] # Absent /\ Subset(queues'[d], queues[d])
    <3>1. InOrder(queues'[d]) /\ WereSent(queues[d])
      BY <2>2 DEF Subset, RelayInv
    <3>2. \A k \in DOMAIN queues'[d] : \E m \in DOMAIN queues[d] : queues'[d][k] = queues[d][m]
      BY <2>2 DEF Subset
    <3> QED  BY <2>2, <3>1, <3>2, SubsetKeeps
  <2> QED  BY <1>2, <2>1, <2>2, Zenon DEF Shrinks
<1>3. ASSUME NEW h \in Handlers
      PROVE  /\ WereSent(held'[h]) /\ InOrder(held'[h]) /\ Before(out[h], held'[h])
             /\ \A v : Apart(held[h], v) => Apart(held'[h], v)
             /\ \A v : Apart(v, held[h]) => Apart(v, held'[h])
             /\ \A v : Before(held[h], v) => Before(held'[h], v)
             /\ held'[h] = held[h] \/ held'[h] = <<>>
  <2>1. CASE held'[h] = <<>>
    BY <2>1, NothingFine
  <2>2. CASE held'[h] = held[h]
    BY <2>2 DEF RelayInv
  <2> QED  BY <2>1, <2>2 DEF Shrinks
<1>4. ASSUME NEW d \in Senders, queues'[d] # Absent
      PROVE  /\ WereSent(queues[d])' /\ InOrder(queues'[d])
             /\ \A e \in Senders \ {d} : queues'[e] # Absent => Apart(queues'[d], queues'[e])
             /\ \A h \in Handlers : Apart(held'[h], queues'[d])
  <2>1. ASSUME NEW e \in Senders \ {d}, queues'[e] # Absent PROVE Apart(queues'[d], queues'[e])
    <3>1. queues[d] # Absent /\ queues[e] # Absent => Apart(queues[d], queues[e])
      BY DEF RelayInv
    <3>2. queues[d] # Absent => Apart(queues[d], queues'[e])
      BY <1>2, <2>1, <3>1
    <3> QED  BY <1>2, <1>4, <3>2
  <2>2. ASSUME NEW h \in Handlers PROVE Apart(held'[h], queues'[d])
    <3>1. queues[d] # Absent => Apart(held[h], queues[d])
      BY DEF RelayInv
    <3>2. queues[d] # Absent => Apart(held'[h], queues[d])
      BY <1>3, <3>1
    <3> QED  BY <1>2, <1>4, <3>2
  <2> QED  BY <1>1, <1>2, <1>4, <2>1, <2>2
<1>5. ASSUME NEW h \in Handlers
      PROVE  /\ WereSent(held[h])' /\ InOrder(held'[h]) /\ WereSent(out[h])'
             /\ Before(out'[h], held'[h])
             /\ serves'[h] = Absent => held'[h] = <<>>
             /\ \A g \in Handlers \ {h} : Apart(held'[h], held'[g])
             /\ serves'[h] # Absent /\ queues'[serves'[h]] # Absent =>
                  /\ Before(out'[h], queues'[serves'[h]])
                  /\ Before(held'[h], queues'[serves'[h]])
  <2>0. out' = out /\ WereSent(out[h])
    BY DEF Shrinks, RelayInv
  <2>1. ASSUME NEW g \in Handlers \ {h} PROVE Apart(held'[h], held'[g])
    <3>1. Apart(held[h], held[g])
      BY DEF RelayInv
    <3>2. Apart(held[h], held'[g])
      BY <1>3, <3>1
    <3> QED  BY <1>3, <3>2
  <2>2. ASSUME serves'[h] # Absent, queues'[serves'[h]] # Absent
        PROVE  Before(out'[h], queues'[serves'[h]]) /\ Before(held'[h], queues'[serves'[h]])
    <3> DEFINE d == serves'[h]
    <3>1. d \in Senders
      BY <2>2 DEF Shrinks
    <3>2. CASE out[h] = <<>> /\ held'[h] = <<>>
      BY <2>0, <3>2, NothingFine
    <3>3. CASE serves'[h] = serves[h]
      <4>1. queues[d] # Absent => Before(out[h], queues[d]) /\ Before(held[h], queues[d])
        BY <2>2, <3>3 DEF RelayInv
      <4>2. queues[d] # Absent => Before(held'[h], queues[d])
        BY <1>3, <4>1
      <4> QED  BY <1>2, <2>0, <2>2, <3>1, <4>1, <4>2
    <3> QED  BY <2>2, <3>2, <3>3 DEF Shrinks
  <2> QED  BY <1>1, <1>3, <2>0, <2>1, <2>2 DEF Shrinks
<1>6. RelayInv'
  BY <1>4, <1>5, Zenon DEF RelayInv, Shrinks
<1>7. ASSUME NEW f \in InTransit' PROVE f \in InTransit
  <2>1. \/ \E d \in Senders : queues'[d] # Absent /\ \E k \in DOMAIN queues'[d] : f = queues'[d][k]
        \/ \E h \in Handlers : \E k \in DOMAIN held'[h] : f = held'[h][k]
    <3>1. TransitIs'
      BY TransitMembers, PTL
    <3> QED  BY <1>7, <3>1 DEF TransitIs
  <2>2. ASSUME NEW d \in Senders, queues'[d] # Absent, NEW k \in DOMAIN queues'[d],
               f = queues'[d][k]
        PROVE  f \in InTransit
    BY <1>2, <2>2, TransitMembers DEF TransitIs
  <2>3. ASSUME NEW h \in Handlers, NEW k \in DOMAIN held'[h], f = held'[h][k]
        PROVE  f \in InTransit
    <3>1. CASE held'[h] = held[h]
      BY <2>3, <3>1, TransitMembers DEF TransitIs
    <3>2. CASE held'[h] = <<>>
      BY <2>3, <3>2
    <3> QED  BY <1>3, <3>1, <3>2
  <2> QED  BY <2>1, <2>2, <2>3
<1> QED  BY <1>6, <1>7

\* Registering, serving, consuming and dropping deliver nothing.
LEMMA QuietRelay ==
    ASSUME RelayInv,
           \/ \E i, j \in Senders : RegisterRelayPath(i, j)
           \/ \E i \in Senders : Consume(i)
           \/ \E h \in Handlers : DropClient(h) \/ \E i \in Senders : Serve(h, i)
    PROVE  Shrinks
<1>0. /\ serves \in [Handlers -> Senders \cup {Absent}]
      /\ DOMAIN queues = Senders /\ DOMAIN held = Handlers
      /\ \A h \in Handlers : serves[h] = Absent => held[h] = <<>>
  BY DEF RelayInv
<1>1. \A d \in Senders : queues[d] # Absent => queues[d] \in Seq(RelayedFrames) /\ InOrder(queues[d])
  BY DEF RelayInv, WereSent
<1>2. \A d \in Senders : queues[d] # Absent => Subset(queues[d], queues[d])
  BY <1>1, Subsets
<1>3. ASSUME NEW i \in Senders, NEW j \in Senders, RegisterRelayPath(i, j) PROVE Shrinks
  <2>1. \A d \in Senders : queues'[d] = queues[d] \/ queues'[d] = <<>>
    BY <1>3 DEF RegisterRelayPath
  <2> QED  BY <1>0, <1>2, <1>3, <2>1 DEF RegisterRelayPath, Shrinks
<1>4. ASSUME NEW i \in Senders, Consume(i) PROVE Shrinks
  <2>1. \A d \in Senders : queues'[d] = queues[d] \/
            (queues[d] # Absent /\ queues[d] # <<>> /\ queues'[d] = Tail(queues[d]))
    BY <1>0, <1>4 DEF Consume
  <2>2. \A d \in Senders : queues'[d] # Absent => queues[d] # Absent /\ Subset(queues'[d], queues[d])
    BY <1>1, <1>2, <2>1, Subsets
  <2>3. DOMAIN queues' = Senders /\ UNCHANGED <<sent, out, serves, held>>
    BY <1>0, <1>4 DEF Consume
  <2> QED  BY <1>0, <2>2, <2>3 DEF Shrinks
<1>5. ASSUME NEW h \in Handlers, DropClient(h) PROVE Shrinks
  <2>1. PICK i \in Senders : i = serves[h] /\ serves[h] # Absent
    BY <1>0, <1>5 DEF DropClient
  <2>2. queues' = [d \in Senders |->
                     IF d = i THEN Absent
                     ELSE IF queues[d] = Absent THEN Absent ELSE WithoutSender(queues[d], i)]
    BY <1>5, <2>1 DEF DropClient
  <2>3. ASSUME NEW d \in Senders, queues'[d] # Absent
        PROVE  queues[d] # Absent /\ Subset(queues'[d], queues[d])
    <3>1. queues[d] # Absent /\ queues'[d] = WithoutSender(queues[d], i)
      BY <2>2, <2>3
    <3> QED  BY <1>1, <3>1, Subsets
  <2>4. /\ serves' = [serves EXCEPT ![h] = Absent] /\ held' = [held EXCEPT ![h] = <<>>]
        /\ UNCHANGED <<sent, out>>
    BY <1>5 DEF DropClient
  <2> QED  BY <1>0, <2>2, <2>3, <2>4 DEF Shrinks
<1>6. ASSUME NEW h \in Handlers, NEW i \in Senders, Serve(h, i) PROVE Shrinks
  <2>1. /\ serves[h] = Absent /\ out[h] = <<>> /\ held[h] = <<>>
        /\ serves' = [serves EXCEPT ![h] = i] /\ UNCHANGED <<queues, sent, held, out>>
    BY <1>0, <1>6 DEF Serve
  <2> QED  BY <1>0, <1>2, <2>1 DEF Shrinks
<1> QED  BY <1>3, <1>4, <1>5, <1>6

\* a is the queue s with f at its end, and f is later than whatever was sent.
Queued(s, f, a) ==
    /\ a \in Seq(RelayedFrames) /\ InOrder(a)
    /\ \A u : WereSent(u) /\ Apart(s, u) => Apart(a, u)
    /\ \A u : WereSent(u) /\ Apart(u, s) => Apart(u, a)
    /\ \A u : WereSent(u) /\ Before(u, s) => Before(u, a)
    /\ \A x : (\E k \in DOMAIN a : x = a[k]) <=> x = f \/ \E k \in DOMAIN s : x = s[k]

\* A frame that was just sent comes after the ones sent before it.
LEMMA NewestFrame ==
    ASSUME RelayInv, NEW i \in Senders, NEW f, f = [src |-> i, num |-> sent[i] + 1],
           NEW s, WereSent(s), InOrder(s)
    PROVE  Queued(s, f, Append(s, f))
<1>1. f \in RelayedFrames /\ f.src = i /\ f.num = sent[i] + 1 /\ sent[i] \in Nat
  BY DEF RelayInv, RelayedFrames
<1>2. s \in Seq(RelayedFrames)
  BY DEF WereSent
<1> DEFINE a == Append(s, f)
<1>3. /\ a \in Seq(RelayedFrames) /\ DOMAIN s = 1 .. Len(s) /\ Len(s) \in Nat
      /\ DOMAIN a = 1 .. Len(s) + 1 /\ a[Len(s) + 1] = f /\ \A k \in DOMAIN s : a[k] = s[k]
  BY <1>1, <1>2, AtTheEnd
<1> HIDE DEF a
<1>4. \A u : WereSent(u) => \A k \in DOMAIN u : u[k] # f /\ (u[k].src = i => u[k].num < f.num)
  <2> SUFFICES ASSUME NEW u, WereSent(u), NEW k \in DOMAIN u
               PROVE  u[k] # f /\ (u[k].src = i => u[k].num < f.num)
    OBVIOUS
  <2>1. u[k].num <= sent[u[k].src] /\ u[k] \in RelayedFrames
    BY DEF WereSent
  <2>2. u[k].num \in Nat
    BY <2>1 DEF RelayedFrames
  <2> QED  BY <1>1, <2>1, <2>2
<1>5. \A k \in DOMAIN a : k \in DOMAIN s \/ k = Len(s) + 1
  BY <1>3
<1>6. InOrder(a)
  <2> SUFFICES ASSUME NEW k \in DOMAIN a, NEW m \in DOMAIN a, k < m, a[k].src = a[m].src
               PROVE  a[k].num < a[m].num
    BY DEF InOrder
  <2>1. k \in DOMAIN s
    BY <1>3
  <2>2. CASE m = Len(s) + 1
    BY <1>1, <1>3, <1>4, <2>1, <2>2
  <2>3. CASE m \in DOMAIN s
    BY <1>3, <2>1, <2>3 DEF InOrder
  <2> QED  BY <1>5, <2>2, <2>3
<1>7. \A u : WereSent(u) /\ Apart(s, u) => Apart(a, u)
  BY <1>3, <1>4, <1>5 DEF Apart
<1>8. \A u : WereSent(u) /\ Apart(u, s) => Apart(u, a)
  BY <1>3, <1>4, <1>5 DEF Apart
<1>9. \A u : WereSent(u) /\ Before(u, s) => Before(u, a)
  BY <1>1, <1>3, <1>4, <1>5 DEF Before
<1>10. Len(s) + 1 \in DOMAIN a /\ \A k \in DOMAIN s : k \in DOMAIN a
  BY <1>3
<1>11. \A x : (\E k \in DOMAIN a : x = a[k]) <=> x = f \/ \E k \in DOMAIN s : x = s[k]
  BY <1>3, <1>5, <1>10
<1> QED  BY <1>3, <1>6, <1>7, <1>8, <1>9, <1>11, ZenonT(30) DEF a, Queued

\* relay_frame queues the frame it is given, or drops it.
LEMMA FrameRelayed ==
    ASSUME RelayInv, NEW i \in Senders, NEW j \in Senders, RelayFrame(i, j)
    PROVE  /\ RelayInv'
           /\ InTransit' \in {InTransit, InTransit \cup {[src |-> i, num |-> sent[i] + 1]}}
<1>0. /\ sent \in [Senders -> Nat] /\ sent' = [sent EXCEPT ![i] = @ + 1]
      /\ UNCHANGED <<serves, held, out>> /\ DOMAIN queues = Senders /\ sent'[i] = sent[i] + 1
      /\ serves \in [Handlers -> Senders \cup {Absent}]
      /\ DOMAIN held = Handlers /\ DOMAIN out = Handlers
  BY DEF RelayInv, RelayFrame
<1>1. \A s : WereSent(s) => WereSent(s)'
  <2> SUFFICES ASSUME NEW s, WereSent(s) PROVE WereSent(s)'
    OBVIOUS
  <2>1. ASSUME NEW k \in DOMAIN s PROVE s[k].num <= sent'[s[k].src]
    <3>1. s[k] \in RelayedFrames /\ s[k].num <= sent[s[k].src]
      BY DEF WereSent
    <3> QED  BY <1>0, <3>1 DEF RelayedFrames
  <2> QED  BY <2>1 DEF WereSent
<1>2. CASE queues' = queues
  <2>1. /\ \A d \in Senders : queues[d] # Absent => WereSent(queues[d])'
        /\ \A h \in Handlers : WereSent(held[h])' /\ WereSent(out[h])'
    BY <1>0, <1>1, <1>2, Zenon DEF RelayInv
  <2>2. sent' \in [Senders -> Nat]
    BY <1>0
  <2>3. RelayInv'
    BY <1>0, <1>2, <2>1, <2>2, ZenonT(30) DEF RelayInv
  <2>4. InTransit' = InTransit
    BY <1>0, <1>2 DEF InTransit
  <2> QED  BY <2>3, <2>4
<1>3. CASE Accepts(i, j)
  <2>1. PICK f : f = [src |-> i, num |-> sent[i] + 1]
    BY Zenon
  <2>2. PICK s : s = queues[j]
    OBVIOUS
  <2>3. PICK a : a = Append(s, f)
    BY ZenonT(30)
  <2>4. /\ s # Absent /\ WereSent(s) /\ InOrder(s)
        /\ queues' = [queues EXCEPT ![j] = a]
    <3>1. s # Absent /\ queues' = [queues EXCEPT ![j] = a]
      BY <1>0, <1>3, <2>1, <2>2, <2>3 DEF Accepts, RelayFrame
    <3> QED  BY <2>2, <3>1 DEF RelayInv
  <2>5. /\ a \in Seq(RelayedFrames) /\ InOrder(a)
        /\ \A u : WereSent(u) /\ Apart(s, u) => Apart(a, u)
        /\ \A u : WereSent(u) /\ Apart(u, s) => Apart(u, a)
        /\ \A u : WereSent(u) /\ Before(u, s) => Before(u, a)
        /\ \A x : (\E k \in DOMAIN a : x = a[k]) <=> x = f \/ \E k \in DOMAIN s : x = s[k]
    <3>1. Queued(s, f, a)
      BY <2>1, <2>3, <2>4, NewestFrame, Zenon
    <3> QED  BY <3>1 DEF Queued
  <2>6. WereSent(a)'
    <3>1. ASSUME NEW k \in DOMAIN a PROVE a[k].num <= sent'[a[k].src]
      <4>1. CASE a[k] = f
        BY <1>0, <2>1, <4>1
      <4>2. ASSUME NEW m \in DOMAIN s, a[k] = s[m] PROVE a[k].num <= sent'[a[k].src]
        BY <1>1, <2>4, <4>2 DEF WereSent
      <4> QED  BY <2>5, <4>1, <4>2
    <3> QED  BY <2>5, <3>1, Zenon DEF WereSent
  <2>7. \A d \in Senders : queues'[d] = IF d = j THEN a ELSE queues[d]
    BY <1>0, <2>4
  <2>8. ASSUME NEW d \in Senders, queues'[d] # Absent
        PROVE  /\ WereSent(queues[d])' /\ InOrder(queues'[d])
               /\ \A e \in Senders \ {d} : queues'[e] # Absent => Apart(queues'[d], queues'[e])
               /\ \A h \in Handlers : Apart(held'[h], queues'[d])
    <3>1. CASE d = j
      <4>1. WereSent(queues[d])' /\ InOrder(queues'[d])
        BY <2>5, <2>6, <2>7, <3>1
      <4>2. ASSUME NEW e \in Senders \ {d}, queues'[e] # Absent PROVE Apart(queues'[d], queues'[e])
        <5>1. queues'[e] = queues[e] /\ WereSent(queues[e]) /\ Apart(s, queues[e])
          BY <2>2, <2>4, <2>7, <3>1, <4>2 DEF RelayInv
        <5> QED  BY <2>5, <2>7, <3>1, <5>1
      <4>3. ASSUME NEW h \in Handlers PROVE Apart(held'[h], queues'[d])
        <5>1. held'[h] = held[h] /\ WereSent(held[h]) /\ Apart(held[h], s)
          BY <1>0, <2>2, <2>4, <3>1 DEF RelayInv
        <5> QED  BY <2>5, <2>7, <3>1, <5>1, ZenonT(30)
      <4> QED  BY <4>1, <4>2, <4>3
    <3>2. CASE d # j
      <4>1. queues'[d] = queues[d] /\ queues[d] # Absent /\ WereSent(queues[d])
        BY <2>7, <2>8, <3>2 DEF RelayInv
      <4>2. WereSent(queues[d])' /\ InOrder(queues'[d])
        BY <1>1, <4>1 DEF RelayInv
      <4>3. ASSUME NEW e \in Senders \ {d}, queues'[e] # Absent PROVE Apart(queues'[d], queues'[e])
        <5>1. CASE e = j
          <6>1. Apart(queues[d], s)
            BY <2>2, <2>4, <4>1, <5>1, ZenonT(30) DEF RelayInv
          <6> QED  BY <2>5, <2>7, <4>1, <5>1, <6>1, ZenonT(30)
        <5>2. CASE e # j
          BY <2>7, <4>1, <4>3, <5>2 DEF RelayInv
        <5> QED  BY <5>1, <5>2
      <4>4. \A h \in Handlers : Apart(held'[h], queues'[d])
        BY <1>0, <4>1 DEF RelayInv
      <4> QED  BY <4>2, <4>3, <4>4
    <3> QED  BY <3>1, <3>2
  <2>9. ASSUME NEW h \in Handlers
        PROVE  /\ WereSent(held[h])' /\ WereSent(out[h])'
               /\ serves'[h] # Absent /\ queues'[serves'[h]] # Absent =>
                    /\ Before(out'[h], queues'[serves'[h]])
                    /\ Before(held'[h], queues'[serves'[h]])
    <3>1. WereSent(held[h]) /\ WereSent(out[h])
      BY DEF RelayInv
    <3>2. WereSent(held[h])' /\ WereSent(out[h])'
      BY <1>0, <1>1, <3>1
    <3>3. ASSUME serves[h] # Absent, queues'[serves[h]] # Absent
          PROVE  Before(out[h], queues'[serves[h]]) /\ Before(held[h], queues'[serves[h]])
      <4>1. CASE serves[h] = j
        <5>1. Before(out[h], s) /\ Before(held[h], s)
          BY <2>2, <2>4, <3>3, <4>1 DEF RelayInv
        <5> QED  BY <2>5, <2>7, <3>1, <4>1, <5>1
      <4>2. CASE serves[h] # j
        BY <1>0, <2>7, <3>3, <4>2, ZenonT(30) DEF RelayInv
      <4> QED  BY <4>1, <4>2
    <3> QED  BY <1>0, <3>2, <3>3
  <2>10. RelayInv'
    <3>1. sent' \in [Senders -> Nat] /\ DOMAIN queues' = Senders
      BY <1>0, <2>4
    <3>2. \A h \in Handlers : /\ InOrder(held'[h]) /\ Before(out'[h], held'[h])
                              /\ serves'[h] = Absent => held'[h] = <<>>
                              /\ \A g \in Handlers \ {h} : Apart(held'[h], held'[g])
      BY <1>0, Zenon DEF RelayInv
    <3> QED  BY <1>0, <2>8, <2>9, <3>1, <3>2, ZenonT(30) DEF RelayInv
  <2>11. InTransit' = InTransit \cup {f}
    <3>1. TransitIs /\ TransitIs'
      BY TransitMembers, PTL
    <3>2. ASSUME NEW x
          PROVE  (\E d \in Senders : queues'[d] # Absent /\ \E k \in DOMAIN queues'[d] : x = queues'[d][k])
                 <=> \/ x = f
                     \/ \E d \in Senders : queues[d] # Absent /\ \E k \in DOMAIN queues[d] : x = queues[d][k]
      <4>1. a # Absent
        BY <2>5, RelayAssumption DEF RelayedFrames
      <4>2. \A d \in Senders : d # j => queues'[d] = queues[d]
        BY <2>7
      <4>3. (\E k \in DOMAIN queues'[j] : x = queues'[j][k])
              <=> x = f \/ \E k \in DOMAIN queues[j] : x = queues[j][k]
        BY <2>2, <2>5, <2>7
      <4>4. queues'[j] # Absent /\ queues[j] # Absent
        BY <2>2, <2>4, <2>7, <4>1
      <4> QED  BY <4>2, <4>3, <4>4
    <3>3. \A x : x \in InTransit' <=> x \in InTransit \/ x = f
      BY <1>0, <3>1, <3>2 DEF TransitIs
    <3> QED  BY <3>3
  <2> QED  BY <2>1, <2>10, <2>11
<1> QED  BY <1>2, <1>3 DEF RelayFrame

\* With f, the first frame of q, the frames o become a, and r is left of q.
HandedOver(o, q, f, a, r) ==
    /\ WereSent(a) /\ Before(a, r) /\ Subset(r, q)
    /\ \A k \in DOMAIN o : o[k].src = f.src => o[k].num < f.num
    /\ \A u : Before(o, u) /\ Before(q, u) => Before(a, u)
    /\ \A x : (\E k \in DOMAIN q : x = q[k]) <=> x = f \/ \E k \in DOMAIN r : x = r[k]
    /\ \A k \in DOMAIN r : r[k] # f

\* Handing over the first frame of q on a connection that had the frames o.
LEMMA HandOver ==
    ASSUME NEW o, WereSent(o), NEW q, WereSent(q), InOrder(q), q # <<>>, Before(o, q),
           NEW f, f = Head(q), NEW a, a = Append(o, f), NEW r, r = Tail(q)
    PROVE  HandedOver(o, q, f, a, r)
<1>1. q \in Seq(RelayedFrames) /\ o \in Seq(RelayedFrames)
  BY DEF WereSent
<1>2. /\ f \in RelayedFrames /\ 1 \in DOMAIN q /\ f = q[1] /\ r \in Seq(RelayedFrames)
      /\ \A k \in DOMAIN r : k \in Nat /\ k + 1 \in DOMAIN q /\ r[k] = q[k + 1] /\ k > 0
      /\ \A m \in DOMAIN q : m = 1 \/ (m - 1 \in DOMAIN r /\ q[m] = r[m - 1])
  BY <1>1, HeadTail
<1>3. /\ a \in Seq(RelayedFrames) /\ DOMAIN o = 1 .. Len(o) /\ Len(o) \in Nat
      /\ DOMAIN a = 1 .. Len(o) + 1 /\ a[Len(o) + 1] = f /\ \A k \in DOMAIN o : a[k] = o[k]
  BY <1>1, <1>2, AtTheEnd
<1>4. \A k \in DOMAIN a : k \in DOMAIN o \/ k = Len(o) + 1
  BY <1>3
<1>5. WereSent(a)
  BY <1>2, <1>3, <1>4 DEF WereSent
<1>6. Subset(r, q)
  BY <1>1, Subsets
<1>7. \A k \in DOMAIN o : o[k].src = f.src => o[k].num < f.num
  BY <1>2 DEF Before
<1>8. \A k \in DOMAIN r : f.src = r[k].src => f.num < r[k].num
  BY <1>2 DEF InOrder
<1>9. Before(a, r)
  <2>1. Before(o, r)
    BY <1>6, SubsetKeeps
  <2> QED  BY <1>3, <1>4, <1>8, <2>1 DEF Before
<1>10. \A u : Before(o, u) /\ Before(q, u) => Before(a, u)
  BY <1>2, <1>3, <1>4 DEF Before
<1>11. \A k \in DOMAIN r : r[k] # f
  <2>1. f.num \in Nat
    BY <1>2 DEF RelayedFrames
  <2> QED  BY <1>8, <2>1
<1>12. ASSUME NEW x
       PROVE  (\E k \in DOMAIN q : x = q[k]) <=> x = f \/ \E k \in DOMAIN r : x = r[k]
  <2>1. ASSUME NEW m \in DOMAIN q, x = q[m] PROVE x = f \/ \E k \in DOMAIN r : x = r[k]
    BY <1>2, <2>1, Zenon
  <2>2. ASSUME NEW k \in DOMAIN r, x = r[k] PROVE \E m \in DOMAIN q : x = q[m]
    <3>1. k + 1 \in DOMAIN q /\ x = q[k + 1]
      BY <1>2, <2>2
    <3> QED  BY <3>1
  <2>3. x = f => \E m \in DOMAIN q : x = q[m]
    BY <1>2
  <2> QED  BY <2>1, <2>2, <2>3
<1> QED  BY <1>5, <1>6, <1>7, <1>9, <1>10, <1>11, <1>12 DEF HandedOver

\* deliver_relayed writes the next frame of its list.
LEMMA Continued ==
    ASSUME RelayInv, NEW h \in Handlers, ContinueDelivery(h)
    PROVE  RelayInv' /\ \E f \in InTransit : Link!Deliver(h, f)
<1>1. PICK q, o, f : q = held[h] /\ o = out[h] /\ f = Head(q)
  OBVIOUS
<1>2. PICK a, r : a = Append(o, f) /\ r = Tail(q)
  BY ZenonT(30)
<1>3. /\ q # <<>> /\ WereSent(q) /\ InOrder(q) /\ WereSent(o) /\ Before(o, q)
      /\ out' = [out EXCEPT ![h] = a] /\ held' = [held EXCEPT ![h] = r]
      /\ UNCHANGED <<queues, sent, serves>> /\ DOMAIN out = Handlers /\ DOMAIN held = Handlers
      /\ serves \in [Handlers -> Senders \cup {Absent}] /\ serves[h] # Absent
  BY <1>1, <1>2 DEF ContinueDelivery, RelayInv
<1>4. /\ WereSent(a) /\ Before(a, r) /\ Subset(r, q)
      /\ \A k \in DOMAIN o : o[k].src = f.src => o[k].num < f.num
      /\ \A u : Before(o, u) /\ Before(q, u) => Before(a, u)
      /\ \A x : (\E k \in DOMAIN q : x = q[k]) <=> x = f \/ \E k \in DOMAIN r : x = r[k]
      /\ \A k \in DOMAIN r : r[k] # f
  <2>1. HandedOver(o, q, f, a, r)
    BY <1>1, <1>2, <1>3, HandOver, ZenonT(30)
  <2> QED  BY <2>1 DEF HandedOver
<1>5. /\ WereSent(r) /\ InOrder(r)
      /\ \A v : Apart(q, v) => Apart(r, v)
      /\ \A v : Apart(v, q) => Apart(v, r)
      /\ \A v : Before(q, v) => Before(r, v)
  BY <1>3, <1>4, SubsetKeeps DEF Subset
<1>6. /\ \A g \in Handlers : held'[g] = IF g = h THEN r ELSE held[g]
      /\ \A g \in Handlers : out'[g] = IF g = h THEN a ELSE out[g]
  BY <1>3
<1>7. \A s : WereSent(s)' <=> WereSent(s)
  BY <1>3 DEF WereSent
<1>8. ASSUME NEW d \in Senders, queues[d] # Absent, NEW g \in Handlers
      PROVE  Apart(held'[g], queues[d])
  <2>1. Apart(held[g], queues[d])
    BY <1>8, ZenonT(30) DEF RelayInv
  <2> QED  BY <1>1, <1>5, <1>6, <2>1
<1>9. ASSUME NEW g \in Handlers
      PROVE  /\ WereSent(held'[g]) /\ InOrder(held'[g]) /\ WereSent(out'[g])
             /\ Before(out'[g], held'[g])
             /\ serves[g] = Absent => held'[g] = <<>>
             /\ \A k \in Handlers \ {g} : Apart(held'[g], held'[k])
             /\ serves[g] # Absent /\ queues[serves[g]] # Absent =>
                  Before(out'[g], queues[serves[g]]) /\ Before(held'[g], queues[serves[g]])
  <2>1. /\ WereSent(held'[g]) /\ InOrder(held'[g]) /\ WereSent(out'[g])
        /\ Before(out'[g], held'[g]) /\ (serves[g] = Absent => held'[g] = <<>>)
    BY <1>3, <1>4, <1>5, <1>6, ZenonT(30) DEF RelayInv
  <2>2. ASSUME NEW k \in Handlers \ {g} PROVE Apart(held'[g], held'[k])
    <3>1. Apart(held[g], held[k])
      BY DEF RelayInv
    <3> QED  BY <1>1, <1>5, <1>6, <3>1, ZenonT(30)
  <2>3. ASSUME serves[g] # Absent, queues[serves[g]] # Absent
        PROVE  Before(out'[g], queues[serves[g]]) /\ Before(held'[g], queues[serves[g]])
    <3>1. Before(out[g], queues[serves[g]]) /\ Before(held[g], queues[serves[g]])
      BY <2>3 DEF RelayInv
    <3> QED  BY <1>1, <1>4, <1>5, <1>6, <3>1, ZenonT(30)
  <2> QED  BY <2>1, <2>2, <2>3, ZenonT(30)
<1>10. RelayInv'
  <2>1. DOMAIN out' = Handlers /\ DOMAIN held' = Handlers
    BY <1>3
  <2>2. \A d \in Senders :
           queues[d] # Absent => /\ WereSent(queues[d])' /\ InOrder(queues'[d])
                                 /\ \A e \in Senders \ {d} :
                                      queues[e] # Absent => Apart(queues'[d], queues'[e])
    BY <1>3, <1>7, ZenonT(30) DEF RelayInv
  <2>3. sent' \in [Senders -> Nat] /\ DOMAIN queues' = Senders
    BY <1>3 DEF RelayInv
  <2>4. \A g \in Handlers : WereSent(held[g])' /\ WereSent(out[g])'
    BY <1>7, <1>9
  <2> QED  BY <1>3, <1>8, <1>9, <2>1, <2>2, <2>3, <2>4, Zenon DEF RelayInv
<1>11. f \in InTransit /\ InTransit' = InTransit \ {f}
  <2>1. TransitIs /\ TransitIs'
    BY TransitMembers, PTL
  <2>2. \A g \in Handlers \ {h} : \A k \in DOMAIN held[g] : held[g][k] # f
    <3>1. \A g \in Handlers \ {h} : Apart(q, held[g])
      BY <1>1 DEF RelayInv
    <3> QED  BY <1>4, <3>1 DEF Apart
  <2>3. \A d \in Senders : queues[d] # Absent => \A k \in DOMAIN queues[d] : queues[d][k] # f
    <3>1. \A d \in Senders : queues[d] # Absent => Apart(q, queues[d])
      BY <1>1 DEF RelayInv
    <3> QED  BY <1>4, <3>1 DEF Apart
  <2>4. ASSUME NEW x
        PROVE  (\E g \in Handlers : \E k \in DOMAIN held'[g] : x = held'[g][k])
               <=> x # f /\ \E g \in Handlers : \E k \in DOMAIN held[g] : x = held[g][k]
    BY <1>1, <1>4, <1>6, <2>2
  <2>5. ASSUME NEW x PROVE x \in InTransit' <=> x \in InTransit /\ x # f
    <3>1. (\E d \in Senders : queues'[d] # Absent /\ \E k \in DOMAIN queues'[d] : x = queues'[d][k])
          <=> x # f /\ \E d \in Senders :
                         queues[d] # Absent /\ \E k \in DOMAIN queues[d] : x = queues[d][k]
      BY <1>3, <2>3
    <3> QED  BY <2>1, <2>4, <3>1 DEF TransitIs
  <2>6. f \in InTransit
    BY <1>1, <1>4, <2>1 DEF TransitIs
  <2> QED  BY <2>5, <2>6
<1>12. Link!Deliver(h, f)
  BY <1>1, <1>2, <1>3, <1>4, <1>11 DEF Link!Deliver
<1> QED  BY <1>10, <1>11, <1>12

\* deliver_relayed takes the queue and writes its first frame.
LEMMA Started ==
    ASSUME RelayInv, NEW h \in Handlers, StartDelivery(h)
    PROVE  RelayInv' /\ \E f \in InTransit : Link!Deliver(h, f)
<1>1. PICK d, q, o, f : d = serves[h] /\ q = queues[d] /\ o = out[h] /\ f = Head(q)
  OBVIOUS
<1>2. PICK a, r, none : a = Append(o, f) /\ r = Tail(q) /\ none = <<>>
  BY Zenon
<1>3. /\ q # <<>> /\ q # Absent /\ d # Absent /\ held[h] = <<>>
      /\ out' = [out EXCEPT ![h] = a] /\ held' = [held EXCEPT ![h] = r]
      /\ queues' = [queues EXCEPT ![d] = none]
      /\ UNCHANGED <<sent, serves>>
  BY <1>1, <1>2 DEF StartDelivery
<1>4. /\ d \in Senders /\ WereSent(q) /\ InOrder(q) /\ WereSent(o) /\ Before(o, q)
      /\ DOMAIN out = Handlers /\ DOMAIN held = Handlers /\ DOMAIN queues = Senders
      /\ serves \in [Handlers -> Senders \cup {Absent}]
  <2>1. d \in Senders
    BY <1>1, <1>3, Zenon DEF RelayInv
  <2> QED  BY <1>1, <1>3, <2>1 DEF RelayInv
<1>5. /\ WereSent(a) /\ Before(a, r) /\ Subset(r, q)
      /\ \A k \in DOMAIN o : o[k].src = f.src => o[k].num < f.num
      /\ \A x : (\E k \in DOMAIN q : x = q[k]) <=> x = f \/ \E k \in DOMAIN r : x = r[k]
      /\ \A k \in DOMAIN r : r[k] # f
  <2>1. HandedOver(o, q, f, a, r)
    BY <1>1, <1>2, <1>3, <1>4, HandOver, Zenon
  <2> QED  BY <2>1 DEF HandedOver
<1>6. /\ WereSent(r) /\ InOrder(r)
      /\ \A v : Apart(q, v) => Apart(r, v)
      /\ \A v : Apart(v, q) => Apart(v, r) /\ Apart(r, v)
  <2>1. \A v : Apart(v, q) => Apart(q, v)
    BY DEF Apart
  <2> QED  BY <1>4, <1>5, <2>1, SubsetKeeps DEF Subset
<1>7. /\ none # Absent /\ WereSent(none) /\ InOrder(none) /\ DOMAIN none = {}
      /\ \A v : Apart(none, v) /\ Apart(v, none) /\ Before(v, none)
  <2>1. DOMAIN none = {} /\ none \in Seq(RelayedFrames)
    BY <1>2
  <2>2. none # Absent
    BY <2>1, RelayAssumption, Zenon DEF RelayedFrames
  <2> QED  BY <2>1, <2>2 DEF WereSent, InOrder, Apart, Before
<1>8. /\ \A g \in Handlers : held'[g] = IF g = h THEN r ELSE held[g]
      /\ \A g \in Handlers : out'[g] = IF g = h THEN a ELSE out[g]
      /\ \A e \in Senders : queues'[e] = IF e = d THEN none ELSE queues[e]
  BY <1>3, <1>4
<1>9. \A s : WereSent(s)' <=> WereSent(s)
  BY <1>3 DEF WereSent
<1>10. ASSUME NEW e \in Senders, queues'[e] # Absent
       PROVE  /\ WereSent(queues'[e]) /\ InOrder(queues'[e])
              /\ \A u \in Senders \ {e} : queues'[u] # Absent => Apart(queues'[e], queues'[u])
              /\ \A g \in Handlers : Apart(held'[g], queues'[e])
  <2>1. CASE e = d
    BY <1>7, <1>8, <2>1
  <2>2. CASE e # d
    <3>1. /\ queues[e] # Absent /\ queues'[e] = queues[e]
          /\ WereSent(queues[e]) /\ InOrder(queues[e]) /\ Apart(q, queues[e])
          /\ \A u \in Senders \ {e} : queues[u] # Absent => Apart(queues[e], queues[u])
          /\ \A g \in Handlers : Apart(held[g], queues[e])
      BY <1>1, <1>3, <1>4, <1>8, <1>10, <2>2 DEF RelayInv
    <3>2. \A u \in Senders \ {e} : queues'[u] # Absent => Apart(queues[e], queues'[u])
      BY <1>7, <1>8, <3>1, ZenonT(30)
    <3>3. \A g \in Handlers : Apart(held'[g], queues[e])
      BY <1>6, <1>8, <3>1, ZenonT(30)
    <3> QED  BY <3>1, <3>2, <3>3
  <2> QED  BY <2>1, <2>2
<1>11. ASSUME NEW g \in Handlers
       PROVE  /\ WereSent(held'[g]) /\ InOrder(held'[g]) /\ WereSent(out'[g])
              /\ Before(out'[g], held'[g])
              /\ serves[g] = Absent => held'[g] = <<>>
              /\ \A k \in Handlers \ {g} : Apart(held'[g], held'[k])
              /\ serves[g] # Absent /\ queues'[serves[g]] # Absent =>
                   /\ Before(out'[g], queues'[serves[g]])
                   /\ Before(held'[g], queues'[serves[g]])
  <2>1. /\ WereSent(held'[g]) /\ InOrder(held'[g]) /\ WereSent(out'[g])
        /\ Before(out'[g], held'[g]) /\ (serves[g] = Absent => held'[g] = <<>>)
    BY <1>1, <1>3, <1>5, <1>6, <1>8, ZenonT(30) DEF RelayInv
  <2>2. ASSUME NEW k \in Handlers \ {g} PROVE Apart(held'[g], held'[k])
    <3>1. Apart(held[g], held[k])
      BY DEF RelayInv
    <3>2. \A u \in Handlers : Apart(held[u], q)
      BY <1>1, <1>3, <1>4 DEF RelayInv
    <3> QED  BY <1>6, <1>8, <3>1, <3>2, Zenon
  <2>3. ASSUME serves[g] # Absent, queues'[serves[g]] # Absent
        PROVE  Before(out'[g], queues'[serves[g]]) /\ Before(held'[g], queues'[serves[g]])
    <3>1. serves[g] \in Senders
      BY <1>4, <2>3
    <3>2. CASE serves[g] = d
      BY <1>7, <1>8, <3>1, <3>2
    <3>3. CASE serves[g] # d
      <4>1. g # h /\ queues'[serves[g]] = queues[serves[g]]
        BY <1>1, <1>8, <3>1, <3>3
      <4>2. held'[g] = held[g] /\ out'[g] = out[g]
        BY <1>8, <4>1
      <4>3. Before(out[g], queues[serves[g]]) /\ Before(held[g], queues[serves[g]])
        BY <2>3, <4>1, ZenonT(30) DEF RelayInv
      <4> QED  BY <4>1, <4>2, <4>3
    <3> QED  BY <3>2, <3>3
  <2> QED  BY <2>1, <2>2, <2>3
<1>12. RelayInv'
  <2>1. DOMAIN out' = Handlers /\ DOMAIN held' = Handlers /\ DOMAIN queues' = Senders
    BY <1>3, <1>4
  <2>2. \A e \in Senders :
           queues'[e] # Absent => /\ WereSent(queues[e])' /\ InOrder(queues'[e])
                                  /\ \A u \in Senders \ {e} :
                                       queues'[u] # Absent => Apart(queues'[e], queues'[u])
                                  /\ \A g \in Handlers : Apart(held'[g], queues'[e])
    BY <1>9, <1>10, ZenonT(30)
  <2>3. sent' \in [Senders -> Nat]
    BY <1>3 DEF RelayInv
  <2>4. \A g \in Handlers : WereSent(held[g])' /\ WereSent(out[g])'
    BY <1>9, <1>11
  <2> QED  BY <1>3, <1>4, <1>11, <2>1, <2>2, <2>3, <2>4, Zenon DEF RelayInv
<1>13. f \in InTransit /\ InTransit' = InTransit \ {f}
  <2>1. \A g \in Handlers : ~Holds(held[g], f)
    <3>1. \A g \in Handlers : Apart(held[g], q)
      BY <1>1, <1>3, <1>4 DEF RelayInv
    <3> QED  BY <1>5, <3>1 DEF Apart, Holds
  <2>2. \A e \in Senders \ {d} : queues[e] # Absent => ~Holds(queues[e], f)
    <3>1. \A e \in Senders \ {d} : queues[e] # Absent => Apart(q, queues[e])
      BY <1>1, <1>3, <1>4 DEF RelayInv
    <3> QED  BY <1>5, <3>1 DEF Apart, Holds
  <2>3. ~Holds(r, f) /\ \A x : Holds(q, x) <=> x = f \/ Holds(r, x)
    BY <1>5, Zenon DEF Holds
  <2>4. q = queues[d] /\ q # Absent /\ d \in Senders /\ DOMAIN held[h] = {} /\ DOMAIN none = {}
    BY <1>1, <1>3, <1>4, <1>7
  <2> QED  BY <1>8, <2>1, <2>2, <2>3, <2>4, TransitStarts
<1>14. Link!Deliver(h, f)
  BY <1>1, <1>2, <1>3, <1>5, <1>13 DEF Link!Deliver
<1> QED  BY <1>12, <1>13, <1>14

\* The relay starts with nothing queued and nothing in transit.
LEMMA InitRelay ==
    ASSUME RelayInit
    PROVE  RelayInv /\ Link!Init
<1>1. RelayInv
  BY NothingFine DEF RelayInit, RelayInv
<1>2. InTransit = {}
  <2>1. \A h \in Handlers : DOMAIN held[h] = {}
    BY DEF RelayInit
  <2>2. \A d \in Senders : queues[d] = Absent
    BY DEF RelayInit
  <2>3. TransitIs
    BY TransitMembers
  <2> QED  BY <2>1, <2>2, <2>3 DEF TransitIs
<1> QED  BY <1>1, <1>2 DEF RelayInit, Link!Init

\* Every step of the relay is a step of the link it promises, or none.
LEMMA RelaySteps ==
    ASSUME RelayInv, [RelayNext]_relayVars
    PROVE  RelayInv' /\ [Link!Next]_(Link!vars)
<1>1. CASE UNCHANGED relayVars
  <2>1. UNCHANGED <<sent, queues, serves, held, out>>
    BY <1>1 DEF relayVars
  <2>2. RelayInv'
    BY <2>1, Zenon DEF RelayInv, WereSent
  <2>3. UNCHANGED InTransit
    BY <2>1 DEF InTransit
  <2> QED  BY <2>1, <2>2, <2>3 DEF Link!vars
<1>2. CASE \/ \E i, j \in Senders : RegisterRelayPath(i, j)
           \/ \E i \in Senders : Consume(i)
           \/ \E h \in Handlers : DropClient(h) \/ \E i \in Senders : Serve(h, i)
  <2>1. Shrinks
    BY <1>2, QuietRelay
  <2>2. RelayInv' /\ InTransit' \subseteq InTransit
    BY <2>1, ShrinksKeep
  <2>3. Link!Lose
    BY <2>1, <2>2 DEF Shrinks, Link!Lose
  <2> QED  BY <2>2, <2>3 DEF Link!Next
<1>3. ASSUME NEW i \in Senders, NEW j \in Senders, RelayFrame(i, j)
      PROVE  RelayInv' /\ Link!Next
  <2>1. RelayInv' /\ InTransit' \in {InTransit, InTransit \cup {[src |-> i, num |-> sent[i] + 1]}}
    BY <1>3, FrameRelayed
  <2>2. sent' = [sent EXCEPT ![i] = @ + 1] /\ UNCHANGED out
    BY <1>3 DEF RelayFrame
  <2>3. Link!Send(i)
    BY <2>1, <2>2 DEF Link!Send
  <2> QED  BY <2>1, <2>3 DEF Link!Next
<1>4. ASSUME NEW h \in Handlers, StartDelivery(h) \/ ContinueDelivery(h)
      PROVE  RelayInv' /\ Link!Next
  <2>1. RelayInv' /\ \E f \in InTransit : Link!Deliver(h, f)
    BY <1>4, Started, Continued
  <2> QED  BY <2>1 DEF Link!Next
<1> QED  BY <1>1, <1>2, <1>3, <1>4 DEF RelayNext

\* Refinement: whatever paths are registered and clients dropped, whichever
\* connections serve a client and iterators read its queue, no frame is
\* delivered twice and none of a sender's overtakes another on a connection
\* (relay_frame, pending_frames, deliver_relayed, consume_frames, drop_client).
THEOREM OrderIsKept == RelaySpec => KeepsOrder
<1>1. RelayInit => RelayInv /\ Link!Init
  BY InitRelay
<1>2. RelayInv /\ [RelayNext]_relayVars => RelayInv' /\ [Link!Next]_(Link!vars)
  BY RelaySteps
<1> QED  BY <1>1, <1>2, PTL DEF RelaySpec, KeepsOrder, Link!Spec

-----------------------------------------------------------------------------
(***************************************************************************)
(* The stream proxy.                                                       *)
(***************************************************************************)

StreamTyped ==
    /\ tcp \in {"start", "connect", "pipe", "done"}
    /\ pipe \in [Sides -> {"none", "read", "drain", "ended"}]
    /\ side \in [Sides -> {"open", "ended", "lost"}]
    /\ data \in [Sides -> Nat] /\ got \in [Sides -> Nat]

NoneLost == \A s \in Sides : side[s] # "lost"

\* A pipe that ended although no side is lost has read its side to the end; the
\* pipes start together, and handle_tcp is done only after both.
PipeInv ==
    /\ StreamTyped
    /\ \A s \in Sides : pipe[s] = "ended" /\ NoneLost => side[s] = "ended" /\ got[Other(s)] = data[s]
    /\ tcp \in {"start", "connect"} => \A s \in Sides : pipe[s] = "none"
    /\ tcp = "done" => \A s, r \in Sides : pipe[s] # "none" => pipe[r] = "ended"
    /\ \A s \in Sides : got[Other(s)] <= data[s]

\* The two sides are each other's other side.
LEMMA OtherSide ==
    /\ \A s \in Sides : Other(s) \in Sides /\ Other(s) # s /\ Other(Other(s)) = s
    /\ \A s, r \in Sides : Other(s) = Other(r) => s = r
BY DEF Sides, Other

\* No pipe has started.
LEMMA InitPipe == StreamInit => PipeInv
BY OtherSide DEF StreamInit, PipeInv, StreamTyped

\* Only a side that is open sends, and a side stays ended or lost.
LEMMA SidesPipe ==
    ASSUME PipeInv, NEW s \in Sides, SideSends(s) \/ SideEnds(s) \/ SideLost(s)
    PROVE  PipeInv'
<1>1. CASE SideSends(s)
  <2>1. /\ side[s] = "open" /\ data' = [data EXCEPT ![s] = @ + 1]
        /\ UNCHANGED <<tcp, pipe, side, got>>
    BY <1>1 DEF SideSends
  <2> QED  BY <2>1, OtherSide DEF PipeInv, StreamTyped, NoneLost
<1>2. CASE SideEnds(s)
  <2>1. /\ side[s] = "open" /\ side' = [side EXCEPT ![s] = "ended"]
        /\ UNCHANGED <<tcp, pipe, data, got>>
    BY <1>2 DEF SideEnds
  <2> QED  BY <2>1, OtherSide DEF PipeInv, StreamTyped, NoneLost
<1>3. CASE SideLost(s)
  <2>1. side' = [side EXCEPT ![s] = "lost"] /\ UNCHANGED <<tcp, pipe, data, got>>
    BY <1>3 DEF SideLost
  <2> QED  BY <2>1, OtherSide DEF PipeInv, StreamTyped, NoneLost
<1> QED  BY <1>1, <1>2, <1>3

\* handle_tcp itself starts both pipes tcp once and ends after both.
LEMMA TaskPipe ==
    ASSUME PipeInv, Task
    PROVE  PipeInv'
<1>1. CASE SelectServer
  BY <1>1 DEF SelectServer, PipeInv, StreamTyped, NoneLost
<1>2. CASE Connect
  BY <1>2 DEF Connect, PipeInv, StreamTyped, NoneLost
<1>3. CASE Finish
  BY <1>3 DEF Finish, PipeInv, StreamTyped, NoneLost
<1> QED  BY <1>1, <1>2, <1>3 DEF Task

\* A pipe ends when a side is lost, or tcp the end of its side's data.
LEMMA OnePipe ==
    ASSUME PipeInv, NEW s \in Sides, Pipe(s)
    PROVE  PipeInv'
<1>1. CASE PipeData(s)
  <2>1. /\ tcp' = tcp /\ side' = side /\ data' = data /\ pipe[s] = "read"
        /\ data[s] > got[Other(s)]
    BY <1>1 DEF PipeData, Waiting
  <2>2. CASE side[Other(s)] = "lost" /\ pipe' = [pipe EXCEPT ![s] = "ended"] /\ got' = got
    BY <2>1, <2>2, OtherSide DEF PipeInv, StreamTyped, NoneLost
  <2>3. CASE /\ got' = [got EXCEPT ![Other(s)] = @ + 1]
             /\ pipe' = [pipe EXCEPT ![s] = "drain"]
    BY <2>1, <2>3, OtherSide DEF PipeInv, StreamTyped, NoneLost
  <2> QED  BY <1>1, <2>2, <2>3 DEF PipeData
<1>2. CASE Drained(s)
  BY <1>2, OtherSide DEF Drained, PipeInv, StreamTyped, NoneLost
<1>3. CASE PipeEnds(s)
  BY <1>3, OtherSide DEF PipeEnds, Waiting, PipeInv, StreamTyped, NoneLost
<1> QED  BY <1>1, <1>2, <1>3 DEF Pipe

\* NothingCutOff, for any amount of data: handle_tcp closes a stream of which no
\* side was lost only when each side has ended and all it data was written to
\* the other (the pipes, the gather and the finally of handle_tcp).
THEOREM NeverCutOff == StreamSpec => []NothingCutOff
<1>1. PipeInv /\ [StreamNext]_streamVars => PipeInv'
  <2>1. PipeInv /\ UNCHANGED streamVars => PipeInv'
    BY DEF streamVars, PipeInv, StreamTyped, NoneLost
  <2> QED  BY <2>1, SidesPipe, TaskPipe, OnePipe DEF StreamNext
<1>2. PipeInv => NothingCutOff
  BY DEF PipeInv, NothingCutOff, NoneLost, Sides
<1> QED  BY InitPipe, <1>1, <1>2, PTL DEF StreamSpec

=============================================================================
