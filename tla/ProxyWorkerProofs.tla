------------------------- MODULE ProxyWorkerProofs --------------------------
(***************************************************************************)
(* Proofs that CountersExact and AnswersInOrder hold of ProxyWorker, for   *)
(* every number of connections and servers and any pipeline of requests.   *)
(* The ids of the requests on their way increase from the last answer to   *)
(* the wire. A counter of Stats counts the connections in one category, so *)
(* every transition is compared with the set it adds a connection to or    *)
(* removes it from.                                                        *)
(***************************************************************************)
EXTENDS ProxyWorker, FiniteSetTheorems, TLAPS

\* The provers to try on a leaf that names none, and how long.
USE SMTT(30), ZenonT(30)

-----------------------------------------------------------------------------
(* The order of the answers                                                 *)

Items == [id : Nat, what : Requests]

Ordered(s) == \A j, k \in DOMAIN s : j < k => s[j].id < s[k].id

\* Every id of s comes before every one of t.
Before(s, t) == \A j \in DOMAIN s, k \in DOMAIN t : s[j].id < t[k].id

\* The ids of s lie between those answered on c and the number sent.
Unanswered(c, s) ==
    \A k \in DOMAIN s : /\ s[k].id <= sent[c]
                        /\ \A j \in DOMAIN answered[c] : answered[c][j] < s[k].id

\* The request being handled is not answered yet.
Unfinished == {"connect", "forward", "upgrade"}

InOrder(c) ==
    /\ wire[c] \in Seq(Items) /\ buffer[c] \in Seq(Items) /\ answered[c] \in Seq(Nat)
    /\ sent[c] \in Nat
    /\ Ordered(buffer[c]) /\ Ordered(wire[c]) /\ Before(buffer[c], wire[c])
    /\ Unanswered(c, buffer[c]) /\ Unanswered(c, wire[c])
    /\ \A k \in DOMAIN answered[c] : answered[c][k] <= sent[c]
    /\ at[c] \in Unfinished =>
         /\ request[c] \in Items /\ Unanswered(c, <<request[c]>>)
         /\ Before(<<request[c]>>, buffer[c]) /\ Before(<<request[c]>>, wire[c])
    /\ \A j, k \in DOMAIN answered[c] : j < k => answered[c][j] < answered[c][k]

OrderInv ==
    /\ wire \in [Conns -> Seq(Items)] /\ buffer \in [Conns -> Seq(Items)]
    /\ answered \in [Conns -> Seq(Nat)] /\ sent \in [Conns -> Nat]
    /\ DOMAIN at = Conns /\ DOMAIN request = Conns
    /\ \A c \in Conns : InOrder(c)

\* Answering a request that comes after all that are answered keeps the order.
LEMMA AnswerOrdered ==
    ASSUME NEW a \in Seq(Nat), NEW n \in Nat, \A j \in DOMAIN a : a[j] < n,
           \A j, k \in DOMAIN a : j < k => a[j] < a[k]
    PROVE  /\ Append(a, n) \in Seq(Nat)
           /\ \A j, k \in DOMAIN Append(a, n) : j < k => Append(a, n)[j] < Append(a, n)[k]
           /\ \A m \in Nat : (m > n /\ \A j \in DOMAIN a : a[j] < m) =>
                \A j \in DOMAIN Append(a, n) : Append(a, n)[j] < m
           /\ \A m \in Nat : (m >= n /\ \A j \in DOMAIN a : a[j] <= m) =>
                \A j \in DOMAIN Append(a, n) : Append(a, n)[j] <= m
OBVIOUS

\* The elements of a sequence without its first.
LEMMA TailOf ==
    ASSUME NEW S, NEW s \in Seq(S), s # <<>>
    PROVE  /\ Head(s) = s[1] /\ 1 \in DOMAIN s
           /\ Tail(s) \in Seq(S) /\ Len(Tail(s)) = Len(s) - 1
           /\ \A j \in DOMAIN Tail(s) : j \in Nat /\ j + 1 \in DOMAIN s /\ Tail(s)[j] = s[j + 1]
OBVIOUS

\* reqs are the elements of b and the first k of w, and left the others of w.
Cut(S, b, w, k, reqs, left) ==
    /\ reqs \in Seq(S) /\ Len(reqs) = Len(b) + k /\ reqs # <<>>
    /\ \A j \in DOMAIN reqs :
         \/ j \in DOMAIN b /\ reqs[j] = b[j] /\ j <= Len(b)
         \/ j - Len(b) \in 1 .. k /\ reqs[j] = w[j - Len(b)] /\ j - Len(b) \in DOMAIN w
    /\ left \in Seq(S) /\ Len(left) = Len(w) - k
    /\ \A j \in DOMAIN left : left[j] = w[j + k] /\ j + k \in DOMAIN w /\ j \in Nat \ {0}

\* A buffer to which the first k of w are added, and what is left of w.
LEMMA CutAt ==
    ASSUME NEW S, NEW b \in Seq(S), NEW w \in Seq(S), NEW k \in 1 .. Len(w)
    PROVE  Cut(S, b, w, k, b \o SubSeq(w, 1, k), SubSeq(w, k + 1, Len(w)))
<1> DEFINE reqs == b \o SubSeq(w, 1, k)
           left == SubSeq(w, k + 1, Len(w))
<1>0. k \in Nat /\ k >= 1 /\ k <= Len(w) /\ Len(w) \in Nat /\ Len(b) \in Nat
  OBVIOUS
<1> DEFINE read == SubSeq(w, 1, k)
<1>1. read \in Seq(S) /\ Len(read) = k /\ \A j \in 1 .. k : read[j] = w[j] /\ j \in DOMAIN w
  BY <1>0
<1>2. /\ left \in Seq(S) /\ Len(left) = Len(w) - k
      /\ \A j \in 1 .. Len(w) - k : left[j] = w[j + k]
  BY <1>0
<1>3. \A j \in DOMAIN left : left[j] = w[j + k] /\ j + k \in DOMAIN w /\ j \in Nat \ {0}
  <2> SUFFICES ASSUME NEW j \in DOMAIN left
               PROVE  left[j] = w[j + k] /\ j + k \in DOMAIN w /\ j \in Nat \ {0}
    OBVIOUS
  <2> HIDE DEF left, read, reqs
  <2>1. j \in 1 .. Len(w) - k
    BY <1>2
  <2>2. j + k \in 1 .. Len(w) /\ j \in Nat \ {0}
    BY <1>0, <2>1
  <2> QED  BY <1>2, <2>1, <2>2
<1> HIDE DEF read
<1>4. reqs \in Seq(S) /\ Len(reqs) = Len(b) + k /\ reqs # <<>>
  BY <1>0, <1>1 DEF read
<1>5. \A j \in DOMAIN reqs : reqs[j] = IF j <= Len(b) THEN b[j] ELSE read[j - Len(b)]
  BY <1>0, <1>1, <1>4 DEF read
<1>6. ASSUME NEW j \in DOMAIN reqs
      PROVE  \/ j \in DOMAIN b /\ reqs[j] = b[j] /\ j <= Len(b)
             \/ j - Len(b) \in 1 .. k /\ reqs[j] = w[j - Len(b)] /\ j - Len(b) \in DOMAIN w
  <2>1. j \in 1 .. Len(b) + k
    BY <1>4
  <2>2. CASE j <= Len(b)
    <3>1. j \in DOMAIN b /\ reqs[j] = b[j]
      BY <1>0, <1>5, <2>1, <2>2
    <3> QED  BY <2>2, <3>1
  <2>3. CASE ~(j <= Len(b))
    <3>1. j - Len(b) \in 1 .. k /\ reqs[j] = read[j - Len(b)]
      BY <1>0, <1>5, <2>1, <2>3
    <3>2. read[j - Len(b)] = w[j - Len(b)] /\ j - Len(b) \in DOMAIN w
      BY <1>1, <3>1
    <3> QED  BY <3>1, <3>2
  <2> QED  BY <2>2, <2>3
<1> QED  BY <1>2, <1>3, <1>4, <1>6, Zenon DEF Cut

\* The ids of a sequence of requests are numbers.
LEMMA IdOf ==
    ASSUME NEW s \in Seq(Items), NEW k \in DOMAIN s
    PROVE  s[k] \in Items /\ s[k].id \in Nat
<1>1. s[k] \in Items
  OBVIOUS
<1> QED  BY <1>1 DEF Items

\* One request before all of a sequence.
LEMMA OneBefore ==
    ASSUME NEW r, NEW s
    PROVE  Before(<<r>>, s) <=> \A k \in DOMAIN s : r.id < s[k].id
BY DEF Before

\* What a step leaves alone stays in order.
LEMMA SameOrder ==
    ASSUME OrderInv, NEW d \in Conns,
           wire'[d] = wire[d], buffer'[d] = buffer[d], answered'[d] = answered[d], sent'[d] = sent[d],
           at'[d] \in Unfinished => at[d] \in Unfinished /\ request'[d] = request[d]
    PROVE  InOrder(d)'
<1>1. InOrder(d)
  BY DEF OrderInv
<1>2. /\ Unanswered(d, buffer[d])' <=> Unanswered(d, buffer[d])
      /\ Unanswered(d, wire[d])' <=> Unanswered(d, wire[d])
      /\ at'[d] \in Unfinished =>
           (Unanswered(d, <<request[d]>>)' <=> Unanswered(d, <<request[d]>>))
  BY DEF Unanswered
<1> QED  BY <1>1, <1>2 DEF InOrder

\* A step of c that answers nothing.
LEMMA SilentOrder ==
    ASSUME OrderInv, NEW c \in Conns, UNCHANGED <<wire, buffer, answered, sent>>, NEW p,
           at' = [at EXCEPT ![c] = p],
           request' = request \/ request' = [request EXCEPT ![c] = None],
           p \in Unfinished => at[c] \in Unfinished /\ request' = request
    PROVE  OrderInv'
<1>1. ASSUME NEW d \in Conns PROVE InOrder(d)'
  <2>1. at'[d] \in Unfinished => at[d] \in Unfinished /\ request'[d] = request[d]
    BY DEF OrderInv
  <2> QED  BY <2>1, SameOrder
<1>2. DOMAIN at' = Conns /\ DOMAIN request' = Conns
  BY DEF OrderInv
<1> QED  BY <1>1, <1>2 DEF OrderInv

\* A request r that comes after all that are answered, and before all that are
\* not read, is answered.
LEMMA AnswerKeeps ==
    ASSUME NEW c \in Conns, NEW r \in Items, DOMAIN answered = Conns, answered[c] \in Seq(Nat),
           sent[c] \in Nat, Unanswered(c, <<r>>), sent' = sent, Answer(c, r),
           \A k \in DOMAIN answered[c] : answered[c][k] <= sent[c],
           \A j, k \in DOMAIN answered[c] : j < k => answered[c][j] < answered[c][k]
    PROVE  /\ answered'[c] \in Seq(Nat)
           /\ \A k \in DOMAIN answered'[c] : answered'[c][k] <= sent'[c]
           /\ \A j, k \in DOMAIN answered'[c] : j < k => answered'[c][j] < answered'[c][k]
           /\ \A s \in Seq(Items) : Before(<<r>>, s) /\ Unanswered(c, s) =>
                \A k \in DOMAIN s : /\ s[k].id <= sent'[c]
                                    /\ \A j \in DOMAIN answered'[c] : answered'[c][j] < s[k].id
<1>1. r.id \in Nat /\ r.id <= sent[c] /\ \A j \in DOMAIN answered[c] : answered[c][j] < r.id
  BY DEF Unanswered, Items
<1>2. answered'[c] = Append(answered[c], r.id)
  BY DEF Answer
<1>3. /\ answered'[c] \in Seq(Nat)
      /\ \A j, k \in DOMAIN answered'[c] : j < k => answered'[c][j] < answered'[c][k]
      /\ \A m \in Nat : (m > r.id /\ \A j \in DOMAIN answered[c] : answered[c][j] < m) =>
           \A j \in DOMAIN answered'[c] : answered'[c][j] < m
      /\ \A m \in Nat : (m >= r.id /\ \A j \in DOMAIN answered[c] : answered[c][j] <= m) =>
           \A j \in DOMAIN answered'[c] : answered'[c][j] <= m
  BY <1>1, <1>2, AnswerOrdered
<1>4. \A k \in DOMAIN answered'[c] : answered'[c][k] <= sent'[c]
  BY <1>1, <1>3, Zenon
<1>5. ASSUME NEW s \in Seq(Items), Before(<<r>>, s), Unanswered(c, s), NEW k \in DOMAIN s
      PROVE  /\ s[k].id <= sent'[c]
             /\ \A j \in DOMAIN answered'[c] : answered'[c][j] < s[k].id
  <2>1. s[k].id \in Nat /\ s[k].id > r.id
    BY <1>1, <1>5, IdOf, OneBefore
  <2> QED  BY <1>3, <1>5, <2>1, Zenon DEF Unanswered
<1> QED  BY <1>3, <1>4, <1>5

\* A step of c that answers the request at hand.
LEMMA AnswerOrder ==
    ASSUME OrderInv, NEW c \in Conns, at[c] \in Unfinished, Answer(c, request[c]),
           UNCHANGED <<wire, buffer, sent>>, NEW p, p \notin Unfinished,
           at' = [at EXCEPT ![c] = p],
           request' = request \/ request' = [request EXCEPT ![c] = None]
    PROVE  OrderInv'
<1>0. /\ InOrder(c) /\ DOMAIN at = Conns /\ DOMAIN request = Conns
      /\ answered \in [Conns -> Seq(Nat)]
  BY DEF OrderInv
<1>1. /\ answered'[c] \in Seq(Nat)
      /\ \A k \in DOMAIN answered'[c] : answered'[c][k] <= sent'[c]
      /\ \A j, k \in DOMAIN answered'[c] : j < k => answered'[c][j] < answered'[c][k]
      /\ \A s \in Seq(Items) : Before(<<request[c]>>, s) /\ Unanswered(c, s) =>
           \A k \in DOMAIN s : /\ s[k].id <= sent'[c]
                               /\ \A j \in DOMAIN answered'[c] : answered'[c][j] < s[k].id
  BY <1>0, AnswerKeeps, ZenonT(30) DEF InOrder
<1>2. Unanswered(c, buffer[c])' /\ Unanswered(c, wire[c])'
  BY <1>0, <1>1, Zenon DEF InOrder, Unanswered
<1>3. at'[c] \notin Unfinished
  BY <1>0
<1>4. InOrder(c)'
  BY <1>0, <1>1, <1>2, <1>3, Zenon DEF InOrder
<1>5. ASSUME NEW d \in Conns \ {c} PROVE InOrder(d)'
  <2>1. answered'[d] = answered[d] /\ at'[d] = at[d] /\ request'[d] = request[d]
    BY <1>0 DEF Answer
  <2> QED  BY <2>1, SameOrder
<1>6. answered' \in [Conns -> Seq(Nat)] /\ DOMAIN at' = Conns /\ DOMAIN request' = Conns
  BY <1>0, <1>1 DEF Answer
<1> QED  BY <1>4, <1>5, <1>6 DEF OrderInv

\* The client sends one more request, with the next id.
LEMMA SendsOrder ==
    ASSUME OrderInv, NEW c \in Conns, NEW r \in Requests, ClientSends(c, r)
    PROVE  OrderInv'
<1> DEFINE item == [id |-> sent[c] + 1, what |-> r]
<1>0. /\ InOrder(c) /\ sent \in [Conns -> Nat] /\ wire \in [Conns -> Seq(Items)]
      /\ item \in Items /\ sent[c] \in Nat
  <2>1. InOrder(c) /\ sent \in [Conns -> Nat] /\ wire \in [Conns -> Seq(Items)]
    BY DEF OrderInv
  <2>2. sent[c] + 1 \in Nat /\ sent[c] \in Nat
    BY <2>1
  <2> QED  BY <2>1, <2>2, Zenon DEF Items
<1>1. /\ sent' = [sent EXCEPT ![c] = @ + 1] /\ wire' = [wire EXCEPT ![c] = Append(@, item)]
      /\ UNCHANGED <<at, request, buffer, answered>>
  BY DEF ClientSends
<1>2. sent'[c] = sent[c] + 1 /\ wire'[c] = Append(wire[c], item)
  BY <1>0, <1>1
<1>3. \A k \in DOMAIN wire'[c] :
        \/ k \in DOMAIN wire[c] /\ wire'[c][k] = wire[c][k] /\ k < Len(wire[c]) + 1
        \/ k = Len(wire[c]) + 1 /\ wire'[c][k] = item /\ item.id = sent[c] + 1
  BY <1>0, <1>2
<1>4. /\ \A k \in DOMAIN wire[c] : wire[c][k].id \in Nat /\ wire[c][k].id <= sent[c]
      /\ \A k \in DOMAIN buffer[c] : buffer[c][k].id \in Nat /\ buffer[c][k].id <= sent[c]
      /\ \A k \in DOMAIN answered[c] : answered[c][k] \in Nat /\ answered[c][k] <= sent[c]
  BY <1>0, IdOf DEF InOrder, Unanswered
<1>5. wire'[c] \in Seq(Items) /\ Ordered(wire'[c])
  BY <1>0, <1>2, <1>3, <1>4 DEF InOrder, Ordered
<1>6. Before(buffer[c], wire'[c])
  <2> SUFFICES ASSUME NEW j \in DOMAIN buffer[c], NEW k \in DOMAIN wire'[c]
               PROVE  buffer[c][j].id < wire'[c][k].id
    BY DEF Before
  <2>1. CASE k \in DOMAIN wire[c] /\ wire'[c][k] = wire[c][k]
    BY <1>0, <2>1 DEF InOrder, Before
  <2>2. CASE wire'[c][k] = item /\ item.id = sent[c] + 1
    BY <1>0, <1>4, <2>2
  <2> QED  BY <1>3, <2>1, <2>2
<1>7. Unanswered(c, buffer[c])' /\ Unanswered(c, wire[c])'
  BY <1>0, <1>1, <1>2, <1>3, <1>4 DEF InOrder, Unanswered
<1>8. at[c] \in Unfinished => Unanswered(c, <<request[c]>>)' /\ Before(<<request[c]>>, wire'[c])
  <2> SUFFICES ASSUME at[c] \in Unfinished
               PROVE  Unanswered(c, <<request[c]>>)' /\ Before(<<request[c]>>, wire'[c])
    OBVIOUS
  <2>1. /\ request[c].id \in Nat /\ request[c].id <= sent[c]
        /\ \A j \in DOMAIN answered[c] : answered[c][j] < request[c].id
        /\ \A k \in DOMAIN wire[c] : request[c].id < wire[c][k].id
    BY <1>0 DEF InOrder, Unanswered, Before, Items
  <2>2. Unanswered(c, <<request[c]>>)'
    BY <1>0, <1>1, <1>2, <2>1 DEF Unanswered
  <2>3. Before(<<request[c]>>, wire'[c])
    <3>1. ASSUME NEW k \in DOMAIN wire'[c] PROVE request[c].id < wire'[c][k].id
      <4>1. CASE k \in DOMAIN wire[c] /\ wire'[c][k] = wire[c][k]
        BY <2>1, <4>1
      <4>2. CASE wire'[c][k] = item /\ item.id = sent[c] + 1
        BY <1>0, <2>1, <4>2
      <4> QED  BY <1>3, <4>1, <4>2
    <3> QED  BY <3>1, OneBefore
  <2> QED  BY <2>2, <2>3, Zenon
<1>9. InOrder(c)'
  <2>1. /\ \A k \in DOMAIN answered'[c] : answered'[c][k] <= sent'[c]
        /\ sent'[c] \in Nat
    BY <1>0, <1>1, <1>2, <1>4
  <2> QED  BY <1>0, <1>1, <1>5, <1>6, <1>7, <1>8, <2>1, ZenonT(30) DEF InOrder
<1>10. ASSUME NEW d \in Conns \ {c} PROVE InOrder(d)'
  BY <1>0, <1>1, SameOrder
<1>11. sent' \in [Conns -> Nat] /\ wire' \in [Conns -> Seq(Items)]
  BY <1>0, <1>1
<1> QED  BY <1>1, <1>9, <1>10, <1>11 DEF OrderInv

\* Before a request has been routed: what a read makes of the buffer and the wire.
LEMMA ReadParses ==
    ASSUME OrderInv, NEW c \in Conns, NEW k \in 1 .. Len(wire[c]), NEW reqs, NEW left,
           reqs = buffer[c] \o SubSeq(wire[c], 1, k),
           left = SubSeq(wire[c], k + 1, Len(wire[c]))
    PROVE  /\ Head(reqs) \in Items /\ Rest(reqs) \in Seq(Items) /\ left \in Seq(Items)
           /\ Ordered(Rest(reqs)) /\ Ordered(left) /\ Before(Rest(reqs), left)
           /\ Before(<<Head(reqs)>>, Rest(reqs)) /\ Before(<<Head(reqs)>>, left)
           /\ Unanswered(c, <<Head(reqs)>>) /\ Unanswered(c, Rest(reqs)) /\ Unanswered(c, left)
<1>0. PICK b, w :
        /\ b = buffer[c] /\ w = wire[c]
        /\ b \in Seq(Items) /\ w \in Seq(Items) /\ Ordered(b) /\ Ordered(w) /\ Before(b, w)
        /\ Unanswered(c, b) /\ Unanswered(c, w)
  BY Zenon DEF OrderInv, InOrder
<1>1. Len(b) \in Nat /\ Len(w) \in Nat /\ k \in 1 .. Len(w)
  BY <1>0
<1>2. Cut(Items, b, w, k, reqs, left)
  BY <1>0, <1>1, CutAt, ZenonT(30)
<1>3. /\ reqs \in Seq(Items) /\ Len(reqs) = Len(b) + k /\ reqs # <<>>
      /\ \A j \in DOMAIN reqs :
           \/ j \in DOMAIN b /\ reqs[j] = b[j] /\ j <= Len(b)
           \/ j - Len(b) \in 1 .. k /\ reqs[j] = w[j - Len(b)] /\ j - Len(b) \in DOMAIN w
      /\ left \in Seq(Items) /\ Len(left) = Len(w) - k
      /\ \A j \in DOMAIN left : left[j] = w[j + k] /\ j + k \in DOMAIN w /\ j \in Nat \ {0}
  BY <1>2, Zenon DEF Cut
<1>4. Ordered(reqs)
  <2> SUFFICES ASSUME NEW i \in DOMAIN reqs, NEW j \in DOMAIN reqs, i < j
               PROVE  reqs[i].id < reqs[j].id
    BY Zenon DEF Ordered
  <2>1. i \in Nat /\ j \in Nat /\ j <= Len(reqs)
    BY <1>3
  <2>2. CASE i \in DOMAIN b /\ reqs[i] = b[i]
    BY <1>0, <1>3, <2>1, <2>2, ZenonT(30) DEF Ordered, Before
  <2>3. CASE i - Len(b) \in 1 .. k /\ i - Len(b) \in DOMAIN w /\ reqs[i] = w[i - Len(b)]
    <3>1. ~(j <= Len(b)) /\ i - Len(b) < j - Len(b)
      BY <1>1, <2>1, <2>3
    <3>2. reqs[j] = w[j - Len(b)] /\ j - Len(b) \in DOMAIN w
      BY <1>3, <3>1, Zenon
    <3> QED  BY <1>0, <2>3, <3>1, <3>2, Zenon DEF Ordered
  <2> QED  BY <1>3, <2>2, <2>3, Zenon
<1>5. Before(reqs, left)
  <2> SUFFICES ASSUME NEW i \in DOMAIN reqs, NEW j \in DOMAIN left
               PROVE  reqs[i].id < left[j].id
    BY Zenon DEF Before
  <2>1. i \in Nat /\ j \in Nat \ {0}
    BY <1>3
  <2>2. left[j] = w[j + k] /\ j + k \in DOMAIN w /\ j + k > k
    <3>1. left[j] = w[j + k] /\ j + k \in DOMAIN w
      BY <1>3
    <3>2. j + k > k
      BY <1>1, <2>1
    <3> QED  BY <3>1, <3>2
  <2>3. CASE i \in DOMAIN b /\ reqs[i] = b[i]
    BY <1>0, <2>2, <2>3 DEF Before
  <2>4. CASE i - Len(b) \in 1 .. k /\ reqs[i] = w[i - Len(b)] /\ i - Len(b) \in DOMAIN w
    <3>1. i - Len(b) < j + k
      BY <1>1, <2>1, <2>2, <2>4
    <3> QED  BY <1>0, <2>2, <2>4, <3>1, ZenonT(30) DEF Ordered
  <2> QED  BY <1>3, <2>3, <2>4, Zenon
<1>6. Unanswered(c, reqs) /\ Unanswered(c, left)
  BY <1>0, <1>3, ZenonT(30) DEF Unanswered
<1>7. Ordered(left)
  <2> SUFFICES ASSUME NEW i \in DOMAIN left, NEW j \in DOMAIN left, i < j
               PROVE  left[i].id < left[j].id
    BY DEF Ordered
  <2>1. i + k < j + k
    BY <1>1, <1>3
  <2> QED  BY <1>0, <1>3, <2>1, Zenon DEF Ordered
<1>8. /\ Head(reqs) = reqs[1] /\ 1 \in DOMAIN reqs /\ Rest(reqs) \in Seq(Items)
      /\ \A j \in DOMAIN Rest(reqs) : /\ j \in Nat \ {0} /\ j + 1 \in DOMAIN reqs
                                      /\ Rest(reqs)[j] = reqs[j + 1]
  <2>1. /\ Head(reqs) = reqs[1] /\ 1 \in DOMAIN reqs /\ Tail(reqs) \in Seq(Items)
        /\ \A j \in DOMAIN Tail(reqs) : /\ j \in Nat /\ j + 1 \in DOMAIN reqs
                                        /\ Tail(reqs)[j] = reqs[j + 1]
    BY <1>3, TailOf, ZenonT(30)
  <2>2. \A j \in DOMAIN Tail(reqs) : j \in Nat \ {0}
    BY <2>1
  <2>3. <<>> \in Seq(Items) /\ DOMAIN <<>> = {}
    OBVIOUS
  <2>4. Rest(reqs) = Tail(reqs) \/ Rest(reqs) = <<>>
    BY Zenon DEF Rest
  <2> QED  BY <2>1, <2>2, <2>3, <2>4, Zenon
<1>9. Head(reqs) \in Items
  BY <1>3, <1>8
<1>10. Ordered(Rest(reqs))
  <2> SUFFICES ASSUME NEW i \in DOMAIN Rest(reqs), NEW j \in DOMAIN Rest(reqs), i < j
               PROVE  Rest(reqs)[i].id < Rest(reqs)[j].id
    BY DEF Ordered
  <2>1. i + 1 < j + 1
    BY <1>8
  <2> QED  BY <1>4, <1>8, <2>1, Zenon DEF Ordered
<1>11. Before(Rest(reqs), left)
  BY <1>5, <1>8, Zenon DEF Before
<1>12. Before(<<Head(reqs)>>, Rest(reqs)) /\ Before(<<Head(reqs)>>, left)
  <2>1. \A j \in DOMAIN Rest(reqs) : Head(reqs).id < Rest(reqs)[j].id
    <3>1. \A j \in DOMAIN Rest(reqs) : 1 < j + 1
      BY <1>8
    <3> QED  BY <1>4, <1>8, <3>1, Zenon DEF Ordered
  <2>2. \A j \in DOMAIN left : Head(reqs).id < left[j].id
    BY <1>5, <1>8, Zenon DEF Before
  <2> QED  BY <2>1, <2>2, OneBefore, Zenon
<1>13. Unanswered(c, <<Head(reqs)>>) /\ Unanswered(c, Rest(reqs))
  <2>1. /\ Head(reqs).id <= sent[c]
        /\ \A j \in DOMAIN answered[c] : answered[c][j] < Head(reqs).id
    BY <1>6, <1>8, Zenon DEF Unanswered
  <2>2. Unanswered(c, Rest(reqs))
    BY <1>6, <1>8, Zenon DEF Unanswered
  <2> QED  BY <2>1, <2>2 DEF Unanswered
<1> QED  BY <1>3, <1>6, <1>7, <1>8, <1>9, <1>10, <1>11, <1>12, <1>13, Zenon

\* read(): the first request is answered at once or handled, the rest stays in order.
LEMMA ReadOrder ==
    ASSUME OrderInv, NEW c \in Conns, Read(c)
    PROVE  OrderInv'
<1>0. /\ InOrder(c) /\ DOMAIN at = Conns /\ DOMAIN request = Conns /\ sent' = sent
      /\ answered \in [Conns -> Seq(Nat)] /\ wire \in [Conns -> Seq(Items)]
      /\ buffer \in [Conns -> Seq(Items)]
  BY DEF OrderInv, Read
<1>1. PICK k \in 1 .. Len(wire[c]) :
        LET reqs == buffer[c] \o SubSeq(wire[c], 1, k) IN
        /\ wire' = [wire EXCEPT ![c] = SubSeq(@, k + 1, Len(@))]
        /\ buffer' = [buffer EXCEPT ![c] = Rest(reqs)]
        /\ request' = [request EXCEPT ![c] = Head(reqs)]
        /\ Route(c, Head(reqs))
  BY Zenon DEF Read
<1> DEFINE reqs == buffer[c] \o SubSeq(wire[c], 1, k)
           left == SubSeq(wire[c], k + 1, Len(wire[c]))
           r == Head(reqs)
<1>2. /\ r \in Items /\ Rest(reqs) \in Seq(Items) /\ left \in Seq(Items)
      /\ Ordered(Rest(reqs)) /\ Ordered(left) /\ Before(Rest(reqs), left)
      /\ Before(<<r>>, Rest(reqs)) /\ Before(<<r>>, left)
      /\ Unanswered(c, <<r>>) /\ Unanswered(c, Rest(reqs)) /\ Unanswered(c, left)
  BY ReadParses, Zenon
<1>3. wire'[c] = left /\ buffer'[c] = Rest(reqs) /\ request'[c] = r /\ Route(c, r)
  BY <1>0, <1>1
<1>4. /\ wire' \in [Conns -> Seq(Items)] /\ buffer' \in [Conns -> Seq(Items)]
      /\ DOMAIN request' = Conns
      /\ \A d \in Conns \ {c} : wire'[d] = wire[d] /\ buffer'[d] = buffer[d] /\ request'[d] = request[d]
  BY <1>0, <1>1, <1>2
<1> HIDE DEF reqs, left, r
<1>5. \/ /\ Answer(c, r) /\ \E p \in {"error", "respond"} : at' = [at EXCEPT ![c] = p]
      \/ answered' = answered /\ at' = [at EXCEPT ![c] = "connect"]
  BY <1>3 DEF Route
<1>6. CASE Answer(c, r) /\ \E p \in {"error", "respond"} : at' = [at EXCEPT ![c] = p]
  <2>1. /\ answered'[c] \in Seq(Nat)
        /\ \A j \in DOMAIN answered'[c] : answered'[c][j] <= sent'[c]
        /\ \A i, j \in DOMAIN answered'[c] : i < j => answered'[c][i] < answered'[c][j]
        /\ \A s \in Seq(Items) : Before(<<r>>, s) /\ Unanswered(c, s) =>
             \A j \in DOMAIN s : /\ s[j].id <= sent'[c]
                                 /\ \A i \in DOMAIN answered'[c] : answered'[c][i] < s[j].id
    BY <1>0, <1>2, <1>6, AnswerKeeps, ZenonT(30) DEF InOrder
  <2>2. Unanswered(c, buffer[c])' /\ Unanswered(c, wire[c])'
    BY <1>2, <1>3, <2>1, Zenon DEF Unanswered
  <2>3. at'[c] \notin Unfinished /\ DOMAIN at' = Conns
    BY <1>0, <1>6 DEF Unfinished
  <2>4. InOrder(c)'
    BY <1>0, <1>2, <1>3, <2>1, <2>2, <2>3, ZenonT(30) DEF InOrder
  <2>5. ASSUME NEW d \in Conns \ {c} PROVE InOrder(d)'
    <3>1. answered'[d] = answered[d] /\ at'[d] = at[d]
      BY <1>0, <1>6 DEF Answer
    <3> QED  BY <1>0, <1>4, <3>1, SameOrder, Zenon
  <2>6. answered' \in [Conns -> Seq(Nat)]
    BY <1>0, <1>6, <2>1, ZenonT(30) DEF Answer
  <2> QED  BY <1>0, <1>4, <2>3, <2>4, <2>5, <2>6 DEF OrderInv
<1>7. CASE answered' = answered /\ at' = [at EXCEPT ![c] = "connect"]
  <2>1. Unanswered(c, buffer[c])' /\ Unanswered(c, wire[c])' /\ Unanswered(c, <<request[c]>>)'
    BY <1>0, <1>2, <1>3, <1>7, ZenonT(30) DEF Unanswered
  <2>2. InOrder(c)'
    BY <1>0, <1>2, <1>3, <1>7, <2>1, ZenonT(30) DEF InOrder
  <2>3. ASSUME NEW d \in Conns \ {c} PROVE InOrder(d)'
    <3>1. at'[d] = at[d]
      BY <1>0, <1>7
    <3> QED  BY <1>0, <1>4, <1>7, <3>1, SameOrder, Zenon
  <2> QED  BY <1>0, <1>4, <1>7, <2>2, <2>3 DEF OrderInv
<1> QED  BY <1>5, <1>6, <1>7

\* Every step keeps the answers in order.
LEMMA NextOrder == OrderInv /\ [Next]_vars => OrderInv'
<1> SUFFICES ASSUME OrderInv, [Next]_vars PROVE OrderInv'
  OBVIOUS
<1>1. CASE UNCHANGED vars
  <2>1. UNCHANGED <<wire, buffer, answered, sent, at, request>>
    BY <1>1 DEF vars, client
  <2> QED  BY <2>1, SameOrder DEF OrderInv
<1>2. ASSUME NEW c \in Conns, Step(c) PROVE OrderInv'
  <2>1. CASE Accept(c)
    BY <2>1, SilentOrder, ZenonT(30) DEF Accept, client, Unfinished
  <2>2. CASE ReadEnds(c) \/ ForwardFails(c) \/ SendFails(c) \/ UpgradeEnds(c)
    BY <2>2, SilentOrder DEF ReadEnds, ForwardFails, SendFails, UpgradeEnds, Closing, client, Unfinished
  <2>3. CASE ConnectOk(c)
    <3>1. CASE /\ answered' = answered /\ at[c] = "connect"
               /\ at' = [at EXCEPT ![c] = "forward"] \/ at' = [at EXCEPT ![c] = "upgrade"]
      BY <2>3, <3>1, SilentOrder DEF ConnectOk, client, Unfinished
    <3>2. CASE Answer(c, request[c]) /\ at[c] = "connect" /\ at' = [at EXCEPT ![c] = "refuse"]
      BY <2>3, <3>2, AnswerOrder, Zenon DEF ConnectOk, client, Unfinished
    <3> QED  BY <2>3, <3>1, <3>2, Zenon DEF ConnectOk
  <2>4. CASE ConnectFails(c)
    BY <2>4, AnswerOrder, Zenon DEF ConnectFails, client, Unfinished
  <2>5. CASE Forwarded(c)
    BY <2>5, AnswerOrder, Zenon DEF Forwarded, client, Unfinished
  <2>6. CASE Upgraded(c) \/ UpgradeRefused(c)
    BY <2>6, AnswerOrder DEF Upgraded, UpgradeRefused, client, Unfinished
  <2>7. CASE UpgradeRaises(c)
    <3>1. /\ at' = [at EXCEPT ![c] = "done"] /\ request' = [request EXCEPT ![c] = None]
          /\ UNCHANGED <<wire, buffer, sent>>
      BY <2>7 DEF UpgradeRaises, Closing, client
    <3>2. CASE answered' = answered
      BY <3>1, <3>2, SilentOrder, Zenon DEF Unfinished
    <3>3. CASE at[c] = "upgrade" /\ Answer(c, request[c])
      BY <3>1, <3>3, AnswerOrder, Zenon DEF Unfinished
    <3> QED  BY <2>7, <3>2, <3>3 DEF UpgradeRaises
  <2>8. CASE Sent(c)
    BY <2>8, SilentOrder DEF Sent, Continue, Closing, client, Unfinished
  <2> QED  BY <1>2, <2>1, <2>2, <2>3, <2>4, <2>5, <2>6, <2>7, <2>8, ReadOrder DEF Step
<1> QED  BY <1>1, <1>2, SendsOrder DEF Next

\* AnswersInOrder, for any number of connections and requests, however they are
\* cut into reads: each request is answered at most once, in the order of
\* sending (Connection.handle and the buffer of HttpParser).
THEOREM AnswersAlwaysInOrder == Spec => []AnswersInOrder
<1>1. Init => OrderInv
  BY DEF Init, OrderInv, InOrder, Ordered, Before, Unanswered, Unfinished
<1>2. OrderInv => AnswersInOrder
  BY Zenon DEF OrderInv, InOrder, AnswersInOrder
<1> QED  BY <1>1, <1>2, NextOrder, PTL DEF Spec

-----------------------------------------------------------------------------
(* The counters                                                            *)

Places ==
    {"new", "read", "connect", "forward", "respond", "error", "upgrade", "refuse", "relay", "done"}
States ==
    {"none", "READ_REQUEST", "MATCH_ROUTE", "CONNECT_UPSTREAM", "FORWARD", "RESPOND", "CLOSED"}
Counters == {"active", "reading", "waiting", "writing"}
Categories == {"reading", "waiting", "writing"}

WorkerTyped ==
    /\ stats \in [Counters -> Nat]
    /\ at \in [Conns -> Places] /\ state \in [Conns -> States]
    /\ server \in [Conns -> Servers \cup {None}]
    /\ conns \in [Servers -> Nat] /\ leaked \in [Servers -> Nat]
    /\ \A c \in Conns : at[c] \in {"connect", "forward"} => server[c] \in Servers
    /\ \A c \in Conns : at[c] = "new" => state[c] = "none"

\* The connections in a category, for any function of states.
InOf(f, k) == {c \in Conns : Category(f[c]) = k}

Active == {c \in Conns : at[c] \notin {"new", "done"}}
ForwardingTo(s) == {c \in Conns : at[c] = "forward" /\ server[c] = s}

StatsExact ==
    /\ stats["active"] = Cardinality(Active)
    /\ \A k \in Categories : stats[k] = Cardinality(InOf(state, k))

ConnsExact ==
    algorithm = "least_conn" => \A s \in Servers : conns[s] = Cardinality(ForwardingTo(s)) + leaked[s]

WorkerInv == WorkerTyped /\ StatsExact /\ ConnsExact

\* One more than before, when c joins S.
LEMMA OneMore ==
    ASSUME NEW S \in SUBSET Conns, NEW c \in Conns, c \notin S
    PROVE  Cardinality(S \cup {c}) = Cardinality(S) + 1 /\ Cardinality(S) \in Nat
BY ProxyAssumption, FS_Subset, FS_AddElement, FS_CardinalityType

\* One less than before, when c leaves S.
LEMMA OneLess ==
    ASSUME NEW S \in SUBSET Conns, NEW c \in S
    PROVE  Cardinality(S \ {c}) = Cardinality(S) - 1 /\ Cardinality(S) \in Nat \ {0}
<1>1. IsFiniteSet(S)
  BY ProxyAssumption, FS_Subset
<1>2. Cardinality(S \ {c}) = Cardinality(S) - 1 /\ Cardinality(S) \in Nat
  BY <1>1, FS_RemoveElement, FS_CardinalityType
<1>3. Cardinality(S) # 0
  BY <1>1, FS_EmptySet
<1> QED  BY <1>2, <1>3

\* The counters of the categories, for any function of states.
Counted(st, f) ==
    /\ st \in [Counters -> Nat] /\ f \in [Conns -> States]
    /\ \A k \in Categories : st[k] = Cardinality(InOf(f, k))

\* The states f with that of c replaced.
Moving(f, c, s) == [f EXCEPT ![c] = s]

\* transition_state counts a connection out of its category and into the new one.
LEMMA Moved ==
    ASSUME NEW st, NEW f, Counted(st, f), NEW c \in Conns, NEW s \in States,
           NEW g, g = Moving(f, c, s),
           NEW after, after = Transition(st, Category(f[c]), Category(s))
    PROVE  Counted(after, g) /\ after["active"] = st["active"]
<1> DEFINE old == Category(f[c])
           new == Category(s)
<1>0. /\ st \in [Counters -> Nat] /\ f \in [Conns -> States] /\ g \in [Conns -> States]
      /\ \A k \in Categories : st[k] = Cardinality(InOf(f, k))
  BY DEF Counted, Moving
<1>1. old \in Categories \cup {"none"} /\ new \in Categories \cup {"none"}
  BY DEF Category, Categories
<1>2. /\ \A k \in Categories : k # old => c \notin InOf(f, k)
      /\ \A k \in Categories : k = old => c \in InOf(f, k)
      /\ \A k : InOf(f, k) \in SUBSET Conns
  BY DEF InOf
<1>3. \A k \in Categories : InOf(g, k) = IF k = new THEN InOf(f, k) \cup {c} ELSE InOf(f, k) \ {c}
  BY <1>0 DEF InOf, Moving
<1>4. /\ after = [k \in Counters |-> IF old # new /\ k = new THEN st[k] + 1
                                     ELSE IF old # new /\ k = old THEN Dec(st[k]) ELSE st[k]]
      /\ Categories \subseteq Counters /\ "active" \notin Categories /\ "active" # "none"
  BY <1>0 DEF Transition, Counters, Categories
<1> HIDE DEF old, new
<1>5. after \in [Counters -> Nat]
  BY <1>0, <1>4 DEF Dec
<1>6. after["active"] = st["active"]
  BY <1>1, <1>4 DEF Counters
<1>7. ASSUME NEW k \in Categories PROVE after[k] = Cardinality(InOf(g, k))
  <2> DEFINE S == InOf(f, k)
             T == InOf(g, k)
  <2>0. S \in SUBSET Conns /\ st[k] = Cardinality(S) /\ k \in Counters /\ st[k] \in Nat
    BY <1>0, <1>2, <1>4
  <2>1. CASE k = new /\ k # old
    <3>1. T = S \cup {c} /\ c \notin S /\ after[k] = st[k] + 1
      BY <1>2, <1>3, <1>4, <2>0, <2>1
    <3> HIDE DEF S, T
    <3>2. Cardinality(T) = Cardinality(S) + 1
      BY <2>0, <3>1, OneMore
    <3> QED  BY <2>0, <3>1, <3>2 DEF T
  <2>2. CASE k = old /\ k # new
    <3>1. T = S \ {c} /\ c \in S /\ after[k] = Dec(st[k])
      BY <1>2, <1>3, <1>4, <2>0, <2>2
    <3> HIDE DEF S, T
    <3>2. Cardinality(T) = Cardinality(S) - 1 /\ Cardinality(S) \in Nat \ {0}
      BY <2>0, <3>1, OneLess
    <3>3. after[k] = Cardinality(T)
      BY <2>0, <3>1, <3>2 DEF Dec
    <3> QED  BY <3>3 DEF T
  <2>3. CASE k = old /\ k = new
    <3>1. T = S \cup {c} /\ c \in S /\ after[k] = st[k]
      BY <1>2, <1>3, <1>4, <2>0, <2>3
    <3> HIDE DEF S, T
    <3>2. T = S
      BY <3>1
    <3> QED  BY <2>0, <3>1, <3>2 DEF T
  <2>4. CASE k # old /\ k # new
    <3>1. T = S \ {c} /\ c \notin S /\ after[k] = st[k]
      BY <1>2, <1>3, <1>4, <2>0, <2>4
    <3> HIDE DEF S, T
    <3>2. T = S
      BY <3>1
    <3> QED  BY <2>0, <3>1, <3>2 DEF T
  <2> QED  BY <2>1, <2>2, <2>3, <2>4
<1> QED  BY <1>0, <1>5, <1>6, <1>7 DEF Counted

\* The counters of a state that keeps them exact.
LEMMA InvCounted ==
    ASSUME WorkerInv
    PROVE  Counted(stats, state) /\ at \in [Conns -> Places] /\ stats["active"] = Cardinality(Active)
BY DEF WorkerInv, WorkerTyped, StatsExact, Counted

\* _set_state keeps the categories counted.
LEMMA SetStateExact ==
    ASSUME WorkerInv, NEW c \in Conns, NEW new \in States,
           SetState(c, new) \/ RoutedTo(c, new)
    PROVE  /\ state' = [state EXCEPT ![c] = new]
           /\ Counted(stats', state') /\ stats'["active"] = stats["active"]
<1>0. Counted(stats, state)
  BY InvCounted
<1>1. state' = [state EXCEPT ![c] = new]
  BY DEF SetState, RoutedTo
<1>2. CASE SetState(c, new)
  <2>1. stats' = Transition(stats, Category(state[c]), Category(new))
    BY <1>2 DEF SetState
  <2>2. state' = Moving(state, c, new)
    BY <1>1 DEF Moving
  <2>3. Counted(stats', state') /\ stats'["active"] = stats["active"]
    BY <1>0, <2>1, <2>2, Moved
  <2> QED  BY <1>1, <2>3
<1>3. CASE RoutedTo(c, new)
  <2> DEFINE mid == Moving(state, c, "MATCH_ROUTE")
             matched == Transition(stats, Category(state[c]), Category("MATCH_ROUTE"))
  <2>1. /\ mid[c] = "MATCH_ROUTE" /\ "MATCH_ROUTE" \in States
        /\ Moving(mid, c, new) = [state EXCEPT ![c] = new]
    BY <1>0, Zenon DEF States, Counted, Moving
  <2>2. Counted(matched, mid) /\ matched["active"] = stats["active"]
    BY <1>0, <2>1, Moved
  <2>3. stats' = Transition(matched, Category(mid[c]), Category(new))
    BY <1>3, <2>1 DEF RoutedTo
  <2>4. state' = Moving(mid, c, new)
    BY <1>1, <2>1
  <2> HIDE DEF mid, matched
  <2>5. Counted(stats', state') /\ stats'["active"] = matched["active"]
    BY <2>2, <2>3, <2>4, Moved
  <2> QED  BY <1>1, <2>2, <2>5
<1> QED  BY <1>2, <1>3

\* _close takes a connection out of its category and out of the active ones.
LEMMA ClosingExact ==
    ASSUME WorkerInv, NEW c \in Conns, at[c] \notin {"new", "done"}, Closing(c, stats)
    PROVE  /\ at' = [at EXCEPT ![c] = "done"] /\ state' = [state EXCEPT ![c] = "CLOSED"]
           /\ server' = [server EXCEPT ![c] = None]
           /\ Counted(stats', state') /\ stats'["active"] = Cardinality(Active')
<1>0. Counted(stats, state) /\ at \in [Conns -> Places] /\ stats["active"] = Cardinality(Active)
  BY InvCounted
<1>1. /\ at' = [at EXCEPT ![c] = "done"] /\ state' = [state EXCEPT ![c] = "CLOSED"]
      /\ server' = [server EXCEPT ![c] = None]
  BY DEF Closing
<1> DEFINE after == Transition(stats, Category(state[c]), Category("CLOSED"))
<1>2. Counted(after, state') /\ after["active"] = stats["active"]
  <2>1. "CLOSED" \in States
    BY DEF States
  <2>2. state' = Moving(state, c, "CLOSED")
    BY <1>1 DEF Moving
  <2> QED  BY <1>0, <2>1, <2>2, Moved
<1>3. stats' = [after EXCEPT !["active"] = Dec(@)]
  BY DEF Closing, Category
<1> HIDE DEF after
<1>4. Counted(stats', state') /\ stats'["active"] = Dec(stats["active"])
  BY <1>2, <1>3 DEF Counters, Categories, Dec, Counted
<1>5. Active' = Active \ {c} /\ c \in Active /\ Active \in SUBSET Conns
  BY <1>0, <1>1 DEF Active
<1>6. Cardinality(Active') = Cardinality(Active) - 1 /\ Cardinality(Active) \in Nat \ {0}
  BY <1>5, OneLess
<1>7. stats'["active"] = Cardinality(Active')
  BY <1>0, <1>4, <1>6 DEF Dec
<1> QED  BY <1>1, <1>4, <1>7

\* Steps that move no connection to the upstream or from it leave its counts.
LEMMA SameForwarding ==
    ASSUME WorkerInv, UNCHANGED <<algorithm, conns, leaked>>,
           \A c \in Conns : at'[c] = "forward" <=> at[c] = "forward",
           \A c \in Conns : at[c] = "forward" => server'[c] = server[c]
    PROVE  ConnsExact'
<1>1. \A s \in Servers : ForwardingTo(s)' = ForwardingTo(s)
  BY DEF ForwardingTo
<1> QED  BY <1>1 DEF WorkerInv, ConnsExact

\* A request that leaves the upstream is counted out (decrement).
LEMMA DecrementExact ==
    ASSUME WorkerInv, NEW c \in Conns, at[c] = "forward", Decrement(server[c]),
           UNCHANGED <<algorithm, leaked>>, NEW p \in Places, p # "forward",
           at' = [at EXCEPT ![c] = p],
           \A d \in Conns \ {c} : server'[d] = server[d]
    PROVE  conns' \in [Servers -> Nat] /\ ConnsExact'
<1>0. /\ server[c] \in Servers /\ conns \in [Servers -> Nat] /\ leaked \in [Servers -> Nat]
      /\ at \in [Conns -> Places]
  BY DEF WorkerInv, WorkerTyped
<1>1. conns' \in [Servers -> Nat]
  BY <1>0 DEF Decrement, Dec
<1>2. ASSUME algorithm = "least_conn", NEW s \in Servers
      PROVE  conns'[s] = Cardinality(ForwardingTo(s)') + leaked'[s]
  <2>1. conns[s] = Cardinality(ForwardingTo(s)) + leaked[s]
    BY <1>2 DEF WorkerInv, ConnsExact
  <2>2. CASE s = server[c]
    <3>1. ForwardingTo(s)' = ForwardingTo(s) \ {c} /\ c \in ForwardingTo(s)
      BY <1>0, <2>2 DEF ForwardingTo
    <3>2. ForwardingTo(s) \in SUBSET Conns
      BY DEF ForwardingTo
    <3>3. /\ Cardinality(ForwardingTo(s)') = Cardinality(ForwardingTo(s)) - 1
          /\ Cardinality(ForwardingTo(s)) \in Nat \ {0}
      BY <3>1, <3>2, OneLess
    <3>4. conns'[s] = Dec(conns[s])
      BY <1>0, <1>2, <2>2 DEF Decrement
    <3> QED  BY <1>0, <2>1, <3>3, <3>4 DEF Dec
  <2>3. CASE s # server[c]
    <3>1. ForwardingTo(s)' = ForwardingTo(s)
      BY <1>0, <2>3 DEF ForwardingTo
    <3>2. conns'[s] = conns[s]
      BY <1>0, <1>2, <2>3 DEF Decrement
    <3> QED  BY <2>1, <3>1, <3>2
  <2> QED  BY <2>2, <2>3
<1> QED  BY <1>1, <1>2 DEF ConnsExact

\* A step that leaves the counters alone but moves a connection between awaits.
LEMMA SameStats ==
    ASSUME WorkerInv, UNCHANGED <<stats, state>>,
           \A c \in Conns : at'[c] \in {"new", "done"} <=> at[c] \in {"new", "done"}
    PROVE  Counted(stats', state') /\ stats'["active"] = Cardinality(Active')
<1>1. Active' = Active
  BY DEF Active
<1> QED  BY <1>1, InvCounted

\* The same when _set_state has moved it.
LEMMA SameActive ==
    ASSUME WorkerInv, stats'["active"] = stats["active"],
           \A c \in Conns : at'[c] \in {"new", "done"} <=> at[c] \in {"new", "done"}
    PROVE  stats'["active"] = Cardinality(Active')
<1>1. Active' = Active
  BY DEF Active
<1> QED  BY <1>1, InvCounted

\* What is left to show of a step of c, once the counters are known to be exact.
LEMMA StepInv ==
    ASSUME WorkerInv, NEW c \in Conns, NEW p \in Places, p # "new",
           at' = [at EXCEPT ![c] = p],
           Counted(stats', state'), stats'["active"] = Cardinality(Active'), ConnsExact',
           \A d \in Conns \ {c} : state'[d] = state[d],
           NEW s \in Servers \cup {None},
           server' = server \/ server' = [server EXCEPT ![c] = s],
           p \in {"connect", "forward"} => server'[c] \in Servers,
           conns' \in [Servers -> Nat], leaked' \in [Servers -> Nat]
    PROVE  WorkerInv'
<1>1. at' \in [Conns -> Places] /\ server' \in [Conns -> Servers \cup {None}]
  BY DEF WorkerInv, WorkerTyped
<1>2. \A d \in Conns : at'[d] \in {"connect", "forward"} => server'[d] \in Servers
  BY DEF WorkerInv, WorkerTyped
<1>3. \A d \in Conns : at'[d] = "new" => state'[d] = "none"
  BY DEF WorkerInv, WorkerTyped
<1>4. StatsExact' /\ stats' \in [Counters -> Nat] /\ state' \in [Conns -> States]
  BY DEF Counted, StatsExact
<1> QED  BY <1>1, <1>2, <1>3, <1>4 DEF WorkerInv, WorkerTyped

\* _close, of a connection that is not forwarding.
LEMMA ClosingInv ==
    ASSUME WorkerInv, NEW c \in Conns, at[c] \notin {"new", "done", "forward"}, Closing(c, stats),
           UNCHANGED <<algorithm, conns, leaked>>
    PROVE  WorkerInv'
<1>0. at \in [Conns -> Places] /\ conns \in [Servers -> Nat] /\ leaked \in [Servers -> Nat]
      /\ server \in [Conns -> Servers \cup {None}] /\ state \in [Conns -> States]
  BY DEF WorkerInv, WorkerTyped
<1>1. /\ at' = [at EXCEPT ![c] = "done"] /\ state' = [state EXCEPT ![c] = "CLOSED"]
      /\ server' = [server EXCEPT ![c] = None]
      /\ Counted(stats', state') /\ stats'["active"] = Cardinality(Active')
  BY ClosingExact
<1>2. /\ \A d \in Conns : at'[d] = "forward" <=> at[d] = "forward"
      /\ \A d \in Conns : at[d] = "forward" => server'[d] = server[d]
      /\ \A d \in Conns \ {c} : state'[d] = state[d]
  BY <1>0, <1>1
<1>3. ConnsExact'
  BY <1>2, SameForwarding
<1> QED  BY <1>0, <1>1, <1>2, <1>3, StepInv, Zenon DEF Places

\* A step of c, not forwarding before or after it, that changes no counter of the upstream.
LEMMA QuietInv ==
    ASSUME WorkerInv, NEW c \in Conns, at[c] \notin {"new", "done", "forward"},
           NEW p \in Places, p \notin {"new", "done", "forward"}, at' = [at EXCEPT ![c] = p],
           \/ UNCHANGED <<stats, state>>
           \/ \E new \in States : SetState(c, new) \/ RoutedTo(c, new),
           NEW s \in Servers \cup {None}, p = "connect" => s \in Servers,
           (server' = server /\ p # "connect") \/ server' = [server EXCEPT ![c] = s],
           UNCHANGED <<algorithm, conns, leaked>>
    PROVE  WorkerInv'
<1>0. at \in [Conns -> Places] /\ conns \in [Servers -> Nat] /\ leaked \in [Servers -> Nat]
      /\ server \in [Conns -> Servers \cup {None}] /\ state \in [Conns -> States]
  BY DEF WorkerInv, WorkerTyped
<1>1. /\ \A d \in Conns : at'[d] = "forward" <=> at[d] = "forward"
      /\ \A d \in Conns : at[d] = "forward" => server'[d] = server[d]
      /\ \A d \in Conns : at'[d] \in {"new", "done"} <=> at[d] \in {"new", "done"}
  BY <1>0
<1>2. ConnsExact'
  BY <1>1, SameForwarding
<1>3. /\ \A d \in Conns \ {c} : state'[d] = state[d]
      /\ Counted(stats', state') /\ stats'["active"] = Cardinality(Active')
  <2>1. CASE UNCHANGED <<stats, state>>
    BY <1>1, <2>1, SameStats
  <2>2. CASE \E new \in States : SetState(c, new) \/ RoutedTo(c, new)
    <3>1. PICK new \in States : SetState(c, new) \/ RoutedTo(c, new)
      BY <2>2
    <3>2. /\ state' = [state EXCEPT ![c] = new]
          /\ Counted(stats', state') /\ stats'["active"] = stats["active"]
      BY <3>1, SetStateExact
    <3>3. stats'["active"] = Cardinality(Active')
      BY <1>1, <3>2, SameActive
    <3> QED  BY <1>0, <3>2, <3>3
  <2> QED  BY <2>1, <2>2
<1>4. p \in {"connect", "forward"} => server'[c] \in Servers
  BY <1>0
<1> QED  BY <1>0, <1>2, <1>3, <1>4, StepInv, Zenon

\* handle() starts: one more active connection, and reading.
LEMMA AcceptInv ==
    ASSUME WorkerInv, NEW c \in Conns, Accept(c)
    PROVE  WorkerInv'
<1>0. /\ at \in [Conns -> Places] /\ conns \in [Servers -> Nat] /\ leaked \in [Servers -> Nat]
      /\ server \in [Conns -> Servers \cup {None}] /\ state \in [Conns -> States]
      /\ state[c] = "none" /\ Counted(stats, state) /\ stats["active"] = Cardinality(Active)
  BY InvCounted DEF WorkerInv, WorkerTyped, Accept
<1>1. /\ at[c] = "new" /\ at' = [at EXCEPT ![c] = "read"]
      /\ state' = [state EXCEPT ![c] = "READ_REQUEST"]
      /\ UNCHANGED <<algorithm, conns, leaked, server>>
  BY DEF Accept, shared
<1> DEFINE st == [stats EXCEPT !["active"] = @ + 1]
<1>2. Counted(st, state) /\ st["active"] = stats["active"] + 1
  BY <1>0 DEF Counted, Counters, Categories
<1>3. state' = Moving(state, c, "READ_REQUEST") /\ "READ_REQUEST" \in States
  BY <1>1 DEF Moving, States
<1>4. stats' = Transition(st, Category(state[c]), Category("READ_REQUEST"))
  BY <1>0 DEF Accept, Category
<1> HIDE DEF st
<1>5. Counted(stats', state') /\ stats'["active"] = st["active"]
  BY <1>2, <1>3, <1>4, Moved
<1>6. Active' = Active \cup {c} /\ c \notin Active /\ Active \in SUBSET Conns
  BY <1>0, <1>1 DEF Active
<1>7. Cardinality(Active') = Cardinality(Active) + 1
  BY <1>6, OneMore
<1>8. stats'["active"] = Cardinality(Active')
  BY <1>0, <1>2, <1>5, <1>7
<1>9. ConnsExact'
  <2>1. /\ \A d \in Conns : at'[d] = "forward" <=> at[d] = "forward"
        /\ \A d \in Conns : at[d] = "forward" => server'[d] = server[d]
    BY <1>0, <1>1
  <2> QED  BY <1>1, <2>1, SameForwarding
<1>10. \A d \in Conns \ {c} : state'[d] = state[d]
  BY <1>0, <1>1
<1> QED  BY <1>0, <1>1, <1>5, <1>8, <1>9, <1>10, StepInv, Zenon DEF Places

\* A request is read and routed.
LEMMA ReadInv ==
    ASSUME WorkerInv, NEW c \in Conns, Read(c)
    PROVE  WorkerInv'
<1>1. at[c] = "read" /\ UNCHANGED <<algorithm, conns, leaked>>
  BY DEF Read
<1>2. PICK r : Route(c, r)
  BY DEF Read
<1>3. \E p \in Places, s \in Servers \cup {None} :
        /\ at' = [at EXCEPT ![c] = p] /\ p \notin {"new", "done", "forward"}
        /\ p = "connect" => s \in Servers
        /\ (server' = server /\ p # "connect") \/ server' = [server EXCEPT ![c] = s]
  BY <1>2 DEF Route, Places
<1>4. \E new \in States : SetState(c, new) \/ RoutedTo(c, new)
  BY <1>2 DEF Route, States
<1> QED  BY <1>1, <1>3, <1>4, QuietInv, Zenon

\* open_connection returns: the request is forwarded and counted, or counted for good.
LEMMA ConnectOkInv ==
    ASSUME WorkerInv, NEW c \in Conns, ConnectOk(c)
    PROVE  WorkerInv'
<1>0. /\ at \in [Conns -> Places] /\ conns \in [Servers -> Nat] /\ leaked \in [Servers -> Nat]
      /\ server \in [Conns -> Servers \cup {None}] /\ state \in [Conns -> States]
      /\ at[c] = "connect" /\ server[c] \in Servers
  BY DEF WorkerInv, WorkerTyped, ConnectOk
<1>1. /\ server' = server /\ algorithm' = algorithm
      /\ conns' = IF algorithm = "least_conn" THEN [conns EXCEPT ![server[c]] = @ + 1] ELSE conns
  BY DEF ConnectOk, Increment
<1>2. conns' \in [Servers -> Nat]
  BY <1>0, <1>1
<1>3. ASSUME algorithm = "least_conn", NEW s \in Servers
      PROVE  /\ conns[s] = Cardinality(ForwardingTo(s)) + leaked[s]
             /\ conns'[s] = IF s = server[c] THEN conns[s] + 1 ELSE conns[s]
             /\ ForwardingTo(s) \in SUBSET Conns /\ c \notin ForwardingTo(s)
             /\ Cardinality(ForwardingTo(s)) \in Nat /\ leaked[s] \in Nat
  BY <1>0, <1>1, <1>3, ProxyAssumption, FS_Subset, FS_CardinalityType
     DEF WorkerInv, ConnsExact, ForwardingTo
<1>4. CASE at' = [at EXCEPT ![c] = "forward"] /\ SetState(c, "FORWARD") /\ leaked' = leaked
  <2>1. /\ state' = [state EXCEPT ![c] = "FORWARD"]
        /\ Counted(stats', state') /\ stats'["active"] = stats["active"]
    BY <1>4, SetStateExact DEF States
  <2>2. \A d \in Conns : at'[d] \in {"new", "done"} <=> at[d] \in {"new", "done"}
    BY <1>0, <1>4
  <2>3. stats'["active"] = Cardinality(Active')
    BY <2>1, <2>2, SameActive
  <2>4. ASSUME algorithm = "least_conn", NEW s \in Servers
        PROVE  conns'[s] = Cardinality(ForwardingTo(s)') + leaked'[s]
    <3>1. CASE s = server[c]
      <4>1. ForwardingTo(s)' = ForwardingTo(s) \cup {c}
        BY <1>0, <1>1, <1>4, <3>1 DEF ForwardingTo
      <4>2. Cardinality(ForwardingTo(s)') = Cardinality(ForwardingTo(s)) + 1
        BY <1>3, <2>4, <4>1, OneMore
      <4> QED  BY <1>3, <1>4, <2>4, <3>1, <4>2
    <3>2. CASE s # server[c]
      <4>1. ForwardingTo(s)' = ForwardingTo(s)
        BY <1>0, <1>1, <1>4, <3>2 DEF ForwardingTo
      <4> QED  BY <1>3, <1>4, <2>4, <3>2, <4>1
    <3> QED  BY <3>1, <3>2
  <2>5. ConnsExact'
    BY <1>1, <2>4 DEF ConnsExact
  <2>6. \A d \in Conns \ {c} : state'[d] = state[d]
    BY <1>0, <2>1
  <2> QED  BY <1>0, <1>1, <1>2, <1>4, <2>1, <2>3, <2>5, <2>6, StepInv, Zenon DEF Places
<1>5. CASE /\ at' = [at EXCEPT ![c] = "upgrade"] \/ at' = [at EXCEPT ![c] = "refuse"]
           /\ leaked' = [leaked EXCEPT ![server[c]] = @ + 1] /\ UNCHANGED <<state, stats>>
  <2>1. PICK p \in {"upgrade", "refuse"} : at' = [at EXCEPT ![c] = p]
    BY <1>5
  <2>2. /\ \A d \in Conns : at'[d] \in {"new", "done"} <=> at[d] \in {"new", "done"}
        /\ leaked' \in [Servers -> Nat]
        /\ \A s \in Servers : ForwardingTo(s)' = ForwardingTo(s)
    BY <1>0, <1>1, <1>5, <2>1 DEF ForwardingTo
  <2>3. Counted(stats', state') /\ stats'["active"] = Cardinality(Active')
    BY <1>5, <2>2, SameStats
  <2>4. ConnsExact'
    BY <1>0, <1>1, <1>3, <1>5, <2>2 DEF ConnsExact
  <2> QED  BY <1>0, <1>1, <1>2, <1>5, <2>1, <2>2, <2>3, <2>4, StepInv, Zenon DEF Places
<1> QED  BY <1>4, <1>5 DEF ConnectOk

\* The upstream answers, or does not: the request is counted out.
LEMMA ForwardInv ==
    ASSUME WorkerInv, NEW c \in Conns, Forwarded(c) \/ ForwardFails(c)
    PROVE  WorkerInv'
<1>0. /\ at \in [Conns -> Places] /\ leaked \in [Servers -> Nat] /\ at[c] = "forward"
      /\ server \in [Conns -> Servers \cup {None}] /\ state \in [Conns -> States]
      /\ UNCHANGED <<algorithm, leaked>> /\ Decrement(server[c])
  BY DEF WorkerInv, WorkerTyped, Forwarded, ForwardFails
<1>1. CASE Forwarded(c)
  <2>1. at' = [at EXCEPT ![c] = "respond"] /\ server' = server /\ SetState(c, "RESPOND")
    BY <1>1, Zenon DEF Forwarded
  <2>2. /\ state' = [state EXCEPT ![c] = "RESPOND"]
        /\ Counted(stats', state') /\ stats'["active"] = stats["active"]
    BY <2>1, SetStateExact DEF States
  <2>3. /\ \A d \in Conns : at'[d] \in {"new", "done"} <=> at[d] \in {"new", "done"}
        /\ \A d \in Conns \ {c} : state'[d] = state[d]
    BY <1>0, <2>1, <2>2
  <2>4. stats'["active"] = Cardinality(Active')
    BY <2>2, <2>3, SameActive
  <2>5. conns' \in [Servers -> Nat] /\ ConnsExact'
    BY <1>0, <2>1, DecrementExact, Zenon DEF Places
  <2> QED  BY <1>0, <2>1, <2>2, <2>3, <2>4, <2>5, StepInv, Zenon DEF Places
<1>2. CASE ForwardFails(c)
  <2>1. /\ at' = [at EXCEPT ![c] = "done"] /\ state' = [state EXCEPT ![c] = "CLOSED"]
        /\ server' = [server EXCEPT ![c] = None]
        /\ Counted(stats', state') /\ stats'["active"] = Cardinality(Active')
    BY <1>0, <1>2, ClosingExact DEF ForwardFails
  <2>2. /\ \A d \in Conns \ {c} : state'[d] = state[d]
        /\ \A d \in Conns \ {c} : server'[d] = server[d]
    BY <1>0, <2>1
  <2>3. conns' \in [Servers -> Nat] /\ ConnsExact'
    BY <1>0, <2>1, <2>2, DecrementExact, Zenon DEF Places
  <2> QED  BY <1>0, <2>1, <2>2, <2>3, StepInv, Zenon DEF Places
<1> QED  BY <1>1, <1>2

\* The response is out: on to the next request, or closed.
LEMMA SentInv ==
    ASSUME WorkerInv, NEW c \in Conns, Sent(c)
    PROVE  WorkerInv'
<1>1. /\ at[c] \in {"respond", "error"} /\ UNCHANGED <<algorithm, conns, leaked>>
      /\ Continue(c)
  BY DEF Sent, shared
<1>2. CASE Closing(c, stats)
  BY <1>1, <1>2, ClosingInv
<1>3. CASE /\ SetState(c, "READ_REQUEST") /\ at' = [at EXCEPT ![c] = "read"]
           /\ server' = [server EXCEPT ![c] = None]
  <2>1. "READ_REQUEST" \in States /\ "read" \in Places
    BY DEF States, Places
  <2> QED  BY <1>1, <1>3, <2>1, QuietInv, Zenon
<1> QED  BY <1>1, <1>2, <1>3 DEF Continue

\* Every step keeps the inductive invariant.
LEMMA NextWorker == WorkerInv /\ [Next]_vars => WorkerInv'
<1> SUFFICES ASSUME WorkerInv, [Next]_vars PROVE WorkerInv'
  OBVIOUS
<1>1. ASSUME UNCHANGED <<algorithm, conns, leaked, stats, at, state, server>> PROVE WorkerInv'
  BY <1>1 DEF WorkerInv, WorkerTyped, StatsExact, ConnsExact, Active, ForwardingTo, InOf
<1>2. CASE UNCHANGED vars
  BY <1>1, <1>2 DEF vars, shared
<1>3. ASSUME NEW c \in Conns, NEW r \in Requests, ClientSends(c, r) PROVE WorkerInv'
  BY <1>1, <1>3 DEF ClientSends, shared
<1>4. ASSUME NEW c \in Conns,
             \/ ReadEnds(c) \/ SendFails(c) \/ UpgradeRaises(c) \/ UpgradeEnds(c)
      PROVE  WorkerInv'
  <2>1. /\ at[c] \notin {"new", "done", "forward"} /\ Closing(c, stats)
        /\ UNCHANGED <<algorithm, conns, leaked>>
    BY <1>4 DEF ReadEnds, SendFails, UpgradeRaises, UpgradeEnds, shared
  <2> QED  BY <2>1, ClosingInv
<1>5. ASSUME NEW c \in Conns, ConnectFails(c) \/ Upgraded(c) \/ UpgradeRefused(c)
      PROVE  WorkerInv'
  <2>1. /\ at[c] \notin {"new", "done", "forward"}
        /\ UNCHANGED <<algorithm, conns, leaked, stats, state, server>>
        /\ \E p \in {"error", "relay", "refuse"} : at' = [at EXCEPT ![c] = p]
    BY <1>5 DEF ConnectFails, Upgraded, UpgradeRefused, shared
  <2> QED  BY <2>1, QuietInv, Zenon DEF Places
<1> QED  BY <1>2, <1>3, <1>4, <1>5, AcceptInv, ReadInv, ConnectOkInv, ForwardInv, SentInv
         DEF Next, Step

\* No connection, and nothing counted.
LEMMA InitWorker == Init => WorkerInv
<1> SUFFICES ASSUME Init PROVE WorkerInv
  OBVIOUS
<1>1. Active = {} /\ (\A s : ForwardingTo(s) = {}) /\ \A k \in Categories : InOf(state, k) = {}
  BY DEF Init, Active, ForwardingTo, InOf, Category, Categories
<1>2. WorkerTyped
  BY DEF Init, WorkerTyped, Counters, Places, States
<1>3. StatsExact
  BY <1>1, FS_EmptySet, Zenon DEF StatsExact, Init, Categories
<1>4. ConnsExact
  <2>1. \A s : Cardinality(ForwardingTo(s)) = 0
    BY <1>1, FS_EmptySet
  <2> QED  BY <2>1 DEF ConnsExact, Init
<1> QED  BY <1>2, <1>3, <1>4 DEF WorkerInv

\* CountersExact, for any number of connections, servers and requests: the
\* status page shows the connections there are in each category, and least_conn
\* counts the requests being forwarded and the upgraded connections (handle,
\* _set_state, _close, StatusCollector.transition_state, LeastConnBalancer).
THEOREM CountersAlwaysExact == Spec => []CountersExact
<1>1. WorkerInv => CountersExact
  BY DEF WorkerInv, StatsExact, ConnsExact, CountersExact, Active, ForwardingTo, InOf, In, Categories
<1> QED  BY InitWorker, NextWorker, <1>1, PTL DEF Spec

=============================================================================
