--------------------------- MODULE SendQueue_proofs ---------------------------
(***************************************************************************)
(* Proofs about libcoap's send queue, for any number of messages, any      *)
(* timeouts and transaction ids and any width of the tick counter: no      *)
(* message is lost, repeated or given up too early, and the relative times *)
(* of the nodes are one timer for each message.                            *)
(*                                                                         *)
(* The first part is about a queue, the second about the arithmetic of the *)
(* tick counter, the third about the steps of the loop.                    *)
(***************************************************************************)
EXTENDS SendQueue, SequenceLemmas, FiniteSetTheorems

-----------------------------------------------------------------------------
(* The nodes of a queue and their relative times.                           *)
LEMMA NodeTimes ==
  ASSUME NEW q \in Seq(Node)
  PROVE  Len(q) \in Nat /\ \A i \in 1 .. Len(q) : q[i] \in Node /\ q[i].t \in Nat
<1>1. \A i \in 1 .. Len(q) : q[i] \in Node
  BY ElementOfSeq
<1>2. \A n \in Node : n.t \in Nat
  BY DEF Node
<1> QED
  BY <1>1, <1>2, LenProperties

(* The time of a node is the sum of the relative times up to it. *)
LEMMA OffsetSum ==
  ASSUME NEW q \in Seq(Node)
  PROVE  /\ Len(q) \in Nat
         /\ \A i \in 0 .. Len(q) : Offset(q, i) \in Int
         /\ Offset(q, 0) = 0
         /\ \A i \in 1 .. Len(q) : Offset(q, i) = Offset(q, i - 1) + q[i].t
<1> DEFINE IsSum(g) == g = [k \in 0 .. Len(q) |-> IF k = 0 THEN 0 ELSE g[k - 1] + q[k].t]
           sum == CHOOSE g : IsSum(g)
<1>1. Len(q) \in Nat /\ \A i \in 1 .. Len(q) : q[i].t \in Nat
  BY NodeTimes
<1>2. \E g : IsSum(g)
  <2>1. PICK n, f : n = Len(q) /\ f = [k \in 1 .. n |-> [x \in Int |-> x + q[k].t]]
    OBVIOUS
  <2>2. PICK g \in [0 .. Len(q) -> Int] :
          g[0] = 0 /\ \A k \in 1 .. Len(q) : g[k] = f[k][g[k - 1]]
    <3>1. n \in Nat /\ 0 \in Int /\ f \in Steps(n, Int)
      BY <1>1, <2>1 DEF Steps
    <3>2. \E g : Iterates(g, n, 0, f, Int)
      BY <3>1, RecursionExists
    <3> QED
      BY <2>1, <3>2 DEF Iterates
  <2>3. \A k \in 1 .. Len(q) : g[k] = g[k - 1] + q[k].t
    <3> TAKE k \in 1 .. Len(q)
    <3>1. g[k - 1] \in Int
      BY <1>1, <2>2
    <3>2. f[k][g[k - 1]] = g[k - 1] + q[k].t
      BY <2>1, <3>1
    <3> QED
      BY <2>2, <3>2
  <2>4. IsSum(g)
    <3>1. \A k \in 0 .. Len(q) : g[k] = IF k = 0 THEN 0 ELSE g[k - 1] + q[k].t
      BY <1>1, <2>2, <2>3
    <3>2. g = [k \in 0 .. Len(q) |-> g[k]]
      BY <2>2
    <3> QED
      BY <3>1, <3>2
  <2> QED
    BY <2>4
<1>3. IsSum(sum)
  BY <1>2
<1> HIDE DEF sum
<1>4. /\ sum[0] = 0
      /\ \A k \in 1 .. Len(q) : sum[k] = sum[k - 1] + q[k].t
  BY <1>1, <1>3
<1>5. \A i : Offset(q, i) = sum[i]
  BY DEF Offset, sum
<1>6. \A i \in 0 .. Len(q) : sum[i] \in Int
  <2> DEFINE T == {i \in Nat : i <= Len(q) => sum[i] \in Int}
  <2>1. 0 \in T
    BY <1>4
  <2>2. ASSUME NEW i \in Nat, i \in T
        PROVE  i + 1 \in T
    <3>1. i + 1 \in Nat /\ (i + 1) - 1 = i
      OBVIOUS
    <3>2. ASSUME i + 1 <= Len(q) PROVE sum[i + 1] \in Int
      <4>1. i + 1 \in 0 .. Len(q) /\ i + 1 \in 1 .. Len(q) /\ i <= Len(q) /\ i \in 0 .. Len(q)
        BY <1>1, <3>2
      <4>2. sum[i] \in Int /\ q[i + 1].t \in Nat
        BY <1>1, <2>2, <4>1
      <4>3. sum[i + 1] = sum[i] + q[i + 1].t
        BY <1>4, <3>1, <4>1
      <4> QED
        BY <4>2, <4>3
    <3> QED
      BY <3>1, <3>2
  <2> HIDE DEF T
  <2>3. Nat \subseteq T
    BY <2>1, <2>2, SetInduction
  <2> QED
    BY <1>1, <2>3 DEF T
<1> QED
  BY <1>1, <1>4, <1>5, <1>6

(* Whatever obeys the same equations is the time of the nodes. *)
LEMMA OffsetUnique ==
  ASSUME NEW q \in Seq(Node), NEW g, g[0] = 0,
         \A i \in 1 .. Len(q) : g[i] = g[i - 1] + q[i].t
  PROVE  \A i \in 0 .. Len(q) : Offset(q, i) = g[i]
<1> DEFINE T == {i \in Nat : i <= Len(q) => Offset(q, i) = g[i]}
<1>1. 0 \in T
  BY OffsetSum
<1>2. ASSUME NEW i \in Nat, i \in T
      PROVE  i + 1 \in T
  <2> SUFFICES ASSUME i + 1 <= Len(q)
               PROVE  Offset(q, i + 1) = g[i + 1]
    OBVIOUS
  <2>1. i + 1 \in 1 .. Len(q) /\ (i + 1) - 1 = i /\ i <= Len(q)
    BY OffsetSum
  <2> QED
    BY <1>2, <2>1, OffsetSum
<1> HIDE DEF T
<1>3. Nat \subseteq T
  BY <1>1, <1>2, SetInduction
<1> QED
  BY <1>3, OffsetSum DEF T

(* The times of the nodes are ordered and not negative. *)
LEMMA OffsetOrdered ==
  ASSUME NEW q \in Seq(Node)
  PROVE  /\ \A i \in 0 .. Len(q) : Offset(q, i) \in Nat
         /\ \A i, j \in 0 .. Len(q) : i <= j => Offset(q, i) <= Offset(q, j)
<1>1. Len(q) \in Nat /\ \A i \in 1 .. Len(q) : q[i].t \in Nat
  BY NodeTimes
<1> DEFINE T == {j \in Nat : j <= Len(q) =>
                   \A i \in 0 .. j : Offset(q, i) <= Offset(q, j)}
<1>2. 0 \in T
  BY OffsetSum
<1>3. ASSUME NEW j \in Nat, j \in T
      PROVE  j + 1 \in T
  <2> SUFFICES ASSUME j + 1 <= Len(q), NEW i \in 0 .. j + 1
               PROVE  Offset(q, i) <= Offset(q, j + 1)
    OBVIOUS
  <2>1. j + 1 \in 1 .. Len(q) /\ (j + 1) - 1 = j /\ j <= Len(q) /\ j \in 0 .. Len(q)
    BY <1>1
  <2>2. /\ Offset(q, j + 1) = Offset(q, j) + q[j + 1].t
        /\ Offset(q, j) \in Int /\ Offset(q, j + 1) \in Int /\ q[j + 1].t \in Nat
    BY <1>1, <2>1, OffsetSum
  <2>3. CASE i = j + 1
    BY <2>2, <2>3
  <2>4. CASE i \in 0 .. j
    <3>1. Offset(q, i) <= Offset(q, j) /\ Offset(q, i) \in Int
      BY <1>1, <1>3, <2>1, <2>4, OffsetSum
    <3> QED
      BY <2>2, <3>1
  <2> QED
    BY <2>3, <2>4
<1> HIDE DEF T
<1>4. Nat \subseteq T
  BY <1>2, <1>3, SetInduction
<1>5. \A i, j \in 0 .. Len(q) : i <= j => Offset(q, i) <= Offset(q, j)
  BY <1>1, <1>4 DEF T
<1>6. \A i \in 0 .. Len(q) : Offset(q, 0) <= Offset(q, i)
  BY <1>1, <1>5
<1> QED
  BY <1>1, <1>5, <1>6, OffsetSum

(* The nodes due no later than a time are the first ones. *)
LEMMA DueFirst ==
  ASSUME NEW q \in Seq(Node), NEW t \in Nat
  PROVE  LET k == Cardinality({i \in 1 .. Len(q) : Offset(q, i) <= t})
         IN  /\ k \in 0 .. Len(q)
             /\ \A i \in 1 .. k : Offset(q, i) <= t
             /\ \A i \in k + 1 .. Len(q) : Offset(q, i) > t
<1>1. Len(q) \in Nat
  BY LenProperties
<1> DEFINE L == {i \in 1 .. Len(q) + 1 : i <= Len(q) => Offset(q, i) > t}
<1>2. L \subseteq Nat /\ Len(q) + 1 \in L
  BY <1>1
<1>3. PICK n \in L : \A x \in L : n <= x
  BY <1>2, LeastNatural
<1>4. n \in 1 .. Len(q) + 1 /\ n - 1 \in 0 .. Len(q)
  BY <1>1
<1>5. \A i \in 1 .. n - 1 : Offset(q, i) <= t
  <2> SUFFICES ASSUME NEW i \in 1 .. n - 1
               PROVE  Offset(q, i) <= t
    OBVIOUS
  <2>1. i \in 1 .. Len(q) /\ i \in 0 .. Len(q) /\ i < n /\ i \in 1 .. Len(q) + 1
    BY <1>1, <1>4
  <2>2. i \notin L
    BY <1>3, <2>1
  <2>3. Offset(q, i) \in Int
    BY <2>1, OffsetSum
  <2> QED
    BY <2>1, <2>2, <2>3
<1>6. \A i \in n .. Len(q) : Offset(q, i) > t
  <2> SUFFICES ASSUME NEW i \in n .. Len(q)
               PROVE  Offset(q, i) > t
    OBVIOUS
  <2>1. /\ n <= Len(q) /\ n \in 0 .. Len(q) /\ i \in 0 .. Len(q) /\ n <= i
    BY <1>1, <1>4
  <2>2. Offset(q, n) > t
    BY <2>1
  <2>3. Offset(q, n) <= Offset(q, i) /\ Offset(q, n) \in Int /\ Offset(q, i) \in Int
    BY <2>1, OffsetOrdered, OffsetSum
  <2> QED
    BY <2>2, <2>3
<1> HIDE DEF L
<1>7. {i \in 1 .. Len(q) : Offset(q, i) <= t} = 1 .. n - 1
  <2>1. \A i \in 1 .. Len(q) : i \in 1 .. n - 1 \/ i \in n .. Len(q)
    BY <1>1, <1>4
  <2>2. \A i \in 1 .. n - 1 : i \in 1 .. Len(q)
    BY <1>1, <1>4
  <2>3. \A i \in 1 .. Len(q) : Offset(q, i) \in Int
    BY <1>1, OffsetSum
  <2>4. \A i \in n .. Len(q) : i \in 1 .. Len(q) /\ ~(Offset(q, i) <= t)
    BY <1>1, <1>4, <1>6, <2>3
  <2> QED
    BY <1>5, <2>1, <2>2, <2>4
<1>8. Cardinality(1 .. n - 1) = n - 1
  BY <1>1, <1>4, FS_Interval
<1>9. n - 1 + 1 = n
  BY <1>4
<1> QED
  BY <1>4, <1>5, <1>6, <1>7, <1>8, <1>9

-----------------------------------------------------------------------------
(* Two nodes that differ in their relative time at most. *)
SameMessage(a, b) == a.msg = b.msg /\ a.id = b.id /\ a.retransmit_cnt = b.retransmit_cnt

(* Node i of r is node j of q: for the same message, at the same time. *)
Twins(r, i, q, j) == SameMessage(r[i], q[j]) /\ Offset(r, i) = Offset(q, j)

(* The messages of a queue. *)
MessagesOf(q) == {q[i].msg : i \in 1 .. Len(q)}

(* Every message has one node at most. *)
OneNodeEach(q) == \A i, j \in 1 .. Len(q) : q[i].msg = q[j].msg => i = j

(* A node stays one with any other relative time. *)
LEMMA Retimed ==
  ASSUME NEW n \in Node, NEW t \in Nat
  PROVE  [n EXCEPT !.t = t] \in Node /\ SameMessage([n EXCEPT !.t = t], n)
         /\ [n EXCEPT !.t = t].t = t
  BY DEF Node, SameMessage

(* coap_insert_node: the new node gets the time it came with, and every     *)
(* other node keeps its time and its place among the others.                *)
LEMMA InsertKeeps ==
  ASSUME NEW q \in Seq(Node), NEW n \in Node
  PROVE  LET r == coap_insert_node(q, n)
         IN  /\ r \in Seq(Node) /\ Len(r) = Len(q) + 1
             /\ \E k \in 0 .. Len(q) :
                  /\ \A i \in 1 .. k : Twins(r, i, q, i)
                  /\ SameMessage(r[k + 1], n) /\ Offset(r, k + 1) = n.t
                  /\ \A i \in k + 1 .. Len(q) : Twins(r, i + 1, q, i)
<1> DEFINE k    == Cardinality({i \in 1 .. Len(q) : Offset(q, i) <= n.t})
           node == [n EXCEPT !.t = @ - Offset(q, k)]
           rest == SubSeq(q, k + 1, Len(q))
           back == IF rest = <<>> THEN <<>> ELSE [rest EXCEPT ![1].t = @ - node.t]
           r    == coap_insert_node(q, n)
           at   == n.t
<1>1. /\ Len(q) \in Nat /\ at \in Nat
      /\ \A i \in 1 .. Len(q) : q[i] \in Node /\ q[i].t \in Nat
      /\ \A i \in 0 .. Len(q) : Offset(q, i) \in Nat
      /\ \A i \in 1 .. Len(q) : Offset(q, i) = Offset(q, i - 1) + q[i].t
      /\ Offset(q, 0) = 0
  <2>1. at \in Nat
    BY DEF Node
  <2> QED
    BY <2>1, NodeTimes, OffsetSum, OffsetOrdered
<1>2. /\ k \in 0 .. Len(q)
      /\ \A i \in 1 .. k : Offset(q, i) <= at
      /\ \A i \in k + 1 .. Len(q) : Offset(q, i) > at
  BY <1>1, DueFirst
<1> HIDE DEF k
<1>3. Offset(q, k) \in Nat /\ at - Offset(q, k) \in Nat
  <2>1. Offset(q, k) <= at
    BY <1>1, <1>2
  <2> QED
    BY <1>1, <1>2, <2>1
<1>4. node \in Node /\ SameMessage(node, n) /\ node.t = at - Offset(q, k)
  <2>1. node = [n EXCEPT !.t = at - Offset(q, k)]
    OBVIOUS
  <2> HIDE DEF node, at
  <2> QED
    BY <2>1, <1>3, Retimed
<1>5. r = SubSeq(q, 1, k) \o <<node>> \o back
  BY DEF coap_insert_node, k
<1> HIDE DEF node, at
<1>6. /\ SubSeq(q, 1, k) \in Seq(Node) /\ Len(SubSeq(q, 1, k)) = k
      /\ \A i \in 1 .. k : SubSeq(q, 1, k)[i] = q[i]
  BY <1>1, <1>2, SubSeqProperties
<1>7. /\ rest \in Seq(Node) /\ Len(rest) = Len(q) - k
      /\ \A i \in 1 .. Len(q) - k : rest[i] = q[k + i]
  BY <1>1, <1>2, SubSeqProperties
<1>8. /\ back \in Seq(Node) /\ Len(back) = Len(q) - k
      /\ \A i \in 1 .. Len(q) - k :
           /\ SameMessage(back[i], q[k + i])
           /\ back[i].t = IF i = 1 THEN q[k + 1].t - node.t ELSE q[k + i].t
  <2>1. CASE rest = <<>>
    <3>1. Len(rest) = 0 /\ back = <<>> /\ Len(back) = 0 /\ back \in Seq(Node)
      BY <2>1, EmptySeq
    <3> HIDE DEF rest, back
    <3>2. Len(q) - k = 0
      BY <1>7, <3>1
    <3> QED
      BY <3>1, <3>2
  <2>2. CASE rest # <<>>
    <3>1. Len(rest) \in Nat \ {0} /\ k + 1 \in 1 .. Len(q)
      BY <1>1, <1>2, <1>7, <2>2, EmptySeq
    <3>2. rest[1] = q[k + 1] /\ rest[1] \in Node
      BY <1>1, <1>7, <3>1
    <3>3. q[k + 1].t - node.t \in Nat
      <4>1. Offset(q, k + 1) > at /\ Offset(q, k + 1) = Offset(q, k) + q[k + 1].t
        BY <1>1, <1>2, <3>1
      <4> QED
        BY <1>1, <1>3, <1>4, <3>1, <4>1
    <3> DEFINE first == [rest[1] EXCEPT !.t = q[k + 1].t - node.t]
    <3>4. back = [rest EXCEPT ![1] = first]
      BY <2>2, <3>2
    <3>5. first \in Node /\ SameMessage(first, rest[1]) /\ first.t = q[k + 1].t - node.t
      BY <3>2, <3>3, Retimed
    <3> HIDE DEF rest, first, back
    <3>6. /\ back \in Seq(Node) /\ Len(back) = Len(rest)
          /\ \A i \in 1 .. Len(rest) : back[i] = IF i = 1 THEN first ELSE rest[i]
      BY <1>7, <3>1, <3>4, <3>5, ExceptSeq
    <3>7. \A i \in 1 .. Len(rest) : rest[i] = q[k + i]
      BY <1>7
    <3> QED
      BY <1>7, <3>1, <3>5, <3>6, <3>7 DEF SameMessage
  <2> QED
    BY <2>1, <2>2
<1> HIDE DEF back, rest, r
<1> DEFINE front == SubSeq(q, 1, k) \o <<node>>
<1>9. /\ front \in Seq(Node) /\ Len(front) = k + 1
      /\ \A i \in 1 .. k : front[i] = q[i]
      /\ front[k + 1] = node
  <2>1. <<node>> \in Seq(Node) /\ Len(<<node>>) = 1 /\ <<node>>[1] = node
    BY <1>4
  <2> QED
    BY <1>2, <1>6, <2>1, ConcatProperties
<1>10. r = front \o back
  BY <1>5
<1> HIDE DEF front
<1>11. /\ r \in Seq(Node) /\ Len(r) = Len(q) + 1
       /\ \A i \in 1 .. k : r[i] = q[i]
       /\ r[k + 1] = node
       /\ \A i \in k + 1 .. Len(q) : r[i + 1] = back[i - k]
  <2>1. /\ r \in Seq(Node) /\ Len(r) = Len(front) + Len(back)
        /\ \A i \in 1 .. Len(front) + Len(back) :
             r[i] = IF i <= Len(front) THEN front[i] ELSE back[i - Len(front)]
    BY <1>8, <1>9, <1>10, ConcatProperties
  <2>2. /\ Len(front) = k + 1 /\ Len(back) = Len(q) - k
        /\ Len(front) + Len(back) = Len(q) + 1
    BY <1>1, <1>2, <1>8, <1>9
  <2>6. \A i \in 1 .. Len(q) + 1 : r[i] = IF i <= k + 1 THEN front[i] ELSE back[i - (k + 1)]
    BY <2>1, <2>2
  <2>3. \A i \in 1 .. k : r[i] = q[i]
    <3> TAKE i \in 1 .. k
    <3>1. i \in 1 .. Len(q) + 1 /\ i <= k + 1
      BY <1>1, <1>2
    <3> QED
      BY <1>9, <2>6, <3>1
  <2>4. r[k + 1] = node
    <3>1. k + 1 \in 1 .. Len(q) + 1 /\ k + 1 <= k + 1
      BY <1>1, <1>2
    <3> QED
      BY <1>9, <2>6, <3>1
  <2>5. \A i \in k + 1 .. Len(q) : r[i + 1] = back[i - k]
    <3> TAKE i \in k + 1 .. Len(q)
    <3>1. i + 1 \in 1 .. Len(q) + 1 /\ ~(i + 1 <= k + 1) /\ i + 1 - (k + 1) = i - k
      BY <1>1, <1>2
    <3>2. PICK m : m = i + 1
      OBVIOUS
    <3>3. m \in 1 .. Len(q) + 1 /\ ~(m <= k + 1) /\ m - (k + 1) = i - k
      <4>1. k \in Nat /\ Len(q) \in Nat
        BY <1>1, <1>2
      <4> QED
        BY <3>2, <4>1
    <3>4. r[m] = back[m - (k + 1)]
      BY <2>6, <3>3
    <3> QED
      BY <3>2, <3>3, <3>4
  <2> QED
    BY <2>1, <2>2, <2>3, <2>4, <2>5
<1>12. \A i \in k + 1 .. Len(q) :
         /\ SameMessage(r[i + 1], q[i])
         /\ r[i + 1].t = IF i = k + 1 THEN q[i].t - node.t ELSE q[i].t
  <2> TAKE i \in k + 1 .. Len(q)
  <2>1. i - k \in 1 .. Len(q) - k /\ k + (i - k) = i /\ (i - k = 1 <=> i = k + 1)
    BY <1>1, <1>2
  <2> QED
    BY <2>1, <1>8, <1>11
<1> DEFINE g == [i \in 0 .. Len(q) + 1 |->
                   IF i <= k THEN Offset(q, i)
                   ELSE IF i = k + 1 THEN at ELSE Offset(q, i - 1)]
<1>13. \A i \in 0 .. Len(r) : Offset(r, i) = g[i]
  <2>1. g[0] = 0
    BY <1>1, <1>2
  <2>2. \A i \in 1 .. Len(r) : g[i] = g[i - 1] + r[i].t
    <3> TAKE i \in 1 .. Len(r)
    <3>1. CASE i <= k
      <4>1. i \in 1 .. Len(q) /\ i \in 1 .. k /\ i - 1 \in 0 .. Len(q) + 1 /\ i - 1 <= k
        BY <1>1, <1>2, <3>1
      <4>2. g[i] = Offset(q, i) /\ g[i - 1] = Offset(q, i - 1)
        BY <1>1, <1>2, <3>1, <4>1
      <4> QED
        BY <1>1, <1>11, <4>1, <4>2
    <3>2. CASE i = k + 1
      <4>1. g[i] = at /\ g[i - 1] = Offset(q, k)
        BY <1>1, <1>2, <3>2
      <4> QED
        BY <1>1, <1>3, <1>4, <1>11, <3>2, <4>1
    <3>3. CASE i = k + 2
      <4>1. g[i] = Offset(q, k + 1) /\ g[i - 1] = at /\ k + 1 \in 1 .. Len(q) /\ (k + 1) + 1 = i
        BY <1>1, <1>2, <1>11, <3>3
      <4>2. r[i].t = q[k + 1].t - node.t
        BY <1>12, <4>1
      <4>3. Offset(q, k + 1) = Offset(q, k) + q[k + 1].t /\ q[k + 1].t \in Nat
        BY <1>1, <1>2, <4>1
      <4> HIDE DEF g, at, node
      <4>0. at \in Nat /\ Offset(q, k) \in Nat /\ at - Offset(q, k) \in Nat
            /\ node.t = at - Offset(q, k)
        BY <1>1, <1>3, <1>4
      <4>4. PICK x \in Nat, y \in Nat, z \in Nat :
              x = Offset(q, k) /\ y = q[k + 1].t /\ z = node.t
        BY <4>0, <4>3
      <4>5. at = x + z
        BY <4>0, <4>4
      <4>7. g[i] = x + y /\ g[i - 1] = x + z /\ r[i].t = y - z
        BY <4>1, <4>2, <4>3, <4>4, <4>5
      <4> QED
        BY <4>4, <4>7
    <3>4. CASE i > k + 2
      <4>1. /\ g[i] = Offset(q, i - 1) /\ g[i - 1] = Offset(q, i - 2)
            /\ i - 1 \in k + 1 .. Len(q) /\ i - 1 \in 1 .. Len(q)
            /\ (i - 1) + 1 = i /\ (i - 1) - 1 = i - 2 /\ i - 1 # k + 1
        BY <1>1, <1>2, <1>11, <3>4
      <4>2. r[i].t = q[i - 1].t
        BY <1>12, <4>1
      <4> QED
        BY <1>1, <4>1, <4>2
    <3> QED
      BY <1>1, <1>2, <1>11, <3>1, <3>2, <3>3, <3>4
  <2> HIDE DEF g
  <2> QED
    BY <1>11, <2>1, <2>2, OffsetUnique
<1>14. \A i \in 1 .. k : Twins(r, i, q, i)
  BY <1>1, <1>2, <1>11, <1>13 DEF Twins, SameMessage
<1>15. SameMessage(r[k + 1], n) /\ Offset(r, k + 1) = at
  BY <1>1, <1>2, <1>4, <1>11, <1>13
<1>16. \A i \in k + 1 .. Len(q) : Twins(r, i + 1, q, i)
  <2> TAKE i \in k + 1 .. Len(q)
  <2>1. i + 1 \in 0 .. Len(r) /\ g[i + 1] = Offset(q, i)
    BY <1>1, <1>2, <1>11
  <2> QED
    BY <1>12, <1>13, <2>1 DEF Twins
<1> QED
  BY <1>2, <1>11, <1>14, <1>15, <1>16 DEF r, at

(* coap_pop_next, coap_remove_from_queue: the other nodes keep their times  *)
(* and their order.                                                         *)
LEMMA UnlinkKeeps ==
  ASSUME NEW q \in Seq(Node), NEW i \in 1 .. Len(q)
  PROVE  LET r == Unlink(q, i)
         IN  /\ r \in Seq(Node) /\ Len(r) = Len(q) - 1
             /\ \A j \in 1 .. i - 1 : Twins(r, j, q, j)
             /\ \A j \in i .. Len(q) - 1 : Twins(r, j, q, j + 1)
<1> DEFINE w == RemoveAt(q, i)
           r == Unlink(q, i)
<1>1. /\ Len(q) \in Nat
      /\ \A j \in 1 .. Len(q) : q[j] \in Node /\ q[j].t \in Nat
      /\ \A j \in 0 .. Len(q) : Offset(q, j) \in Nat
      /\ \A j \in 1 .. Len(q) : Offset(q, j) = Offset(q, j - 1) + q[j].t
      /\ Offset(q, 0) = 0
  BY NodeTimes, OffsetSum, OffsetOrdered
<1>2. /\ w \in Seq(Node) /\ Len(w) = Len(q) - 1
      /\ \A j \in 1 .. Len(q) - 1 : w[j] = IF j < i THEN q[j] ELSE q[j + 1]
  BY RemoveAtProperties
<1>3. /\ r \in Seq(Node) /\ Len(r) = Len(q) - 1
      /\ \A j \in 1 .. i - 1 : r[j] = q[j]
      /\ \A j \in i .. Len(q) - 1 :
           /\ SameMessage(r[j], q[j + 1])
           /\ r[j].t = IF j = i THEN q[i].t + q[i + 1].t ELSE q[j + 1].t
  <2>1. CASE i = Len(q)
    <3>1. r = w
      BY <2>1 DEF Unlink
    <3> HIDE DEF w, r
    <3> QED
      BY <1>1, <1>2, <2>1, <3>1
  <2>2. CASE i # Len(q)
    <3> DEFINE heir == [w[i] EXCEPT !.t = w[i].t + q[i].t]
    <3>1. r = [w EXCEPT ![i] = heir]
      BY <2>2 DEF Unlink
    <3> HIDE DEF w, r
    <3>2. i \in 1 .. Len(w) /\ i + 1 \in 1 .. Len(q) /\ w[i] = q[i + 1]
      BY <1>1, <1>2, <2>2
    <3>3. w[i] \in Node /\ w[i].t + q[i].t \in Nat /\ w[i].t + q[i].t = q[i].t + q[i + 1].t
      <4>1. q[i + 1] \in Node /\ q[i + 1].t \in Nat /\ q[i].t \in Nat
        BY <1>1, <3>2
      <4>2. PICK x \in Nat, y \in Nat : x = q[i].t /\ y = q[i + 1].t
        BY <4>1
      <4>3. w[i].t = y
        BY <3>2, <4>2
      <4> QED
        BY <3>2, <4>1, <4>2, <4>3
    <3>4. heir \in Node /\ SameMessage(heir, q[i + 1]) /\ heir.t = q[i].t + q[i + 1].t
      BY <3>2, <3>3, Retimed
    <3> HIDE DEF heir
    <3>5. /\ r \in Seq(Node) /\ Len(r) = Len(w)
          /\ \A j \in 1 .. Len(w) : r[j] = IF j = i THEN heir ELSE w[j]
      BY <1>2, <3>1, <3>2, <3>4, ExceptSeq
    <3>6. \A j \in 1 .. i - 1 : r[j] = q[j]
      <4> TAKE j \in 1 .. i - 1
      <4>1. j \in 1 .. Len(w) /\ j \in 1 .. Len(q) - 1 /\ j < i
        BY <1>1, <1>2, <3>2
      <4> QED
        BY <1>2, <3>5, <4>1
    <3>7. \A j \in i .. Len(q) - 1 :
            /\ SameMessage(r[j], q[j + 1])
            /\ r[j].t = IF j = i THEN q[i].t + q[i + 1].t ELSE q[j + 1].t
      <4> TAKE j \in i .. Len(q) - 1
      <4>1. j \in 1 .. Len(w) /\ j \in 1 .. Len(q) - 1 /\ ~(j < i)
        BY <1>1, <1>2, <3>2
      <4> QED
        BY <1>2, <3>4, <3>5, <4>1 DEF SameMessage
    <3> QED
      BY <1>2, <3>5, <3>6, <3>7
  <2> QED
    BY <2>1, <2>2
<1> HIDE DEF w, r
<1> DEFINE g == [j \in 0 .. Len(q) - 1 |-> IF j < i THEN Offset(q, j) ELSE Offset(q, j + 1)]
<1>4. \A j \in 0 .. Len(r) : Offset(r, j) = g[j]
  <2>1. g[0] = 0
    BY <1>1
  <2>2. \A j \in 1 .. Len(r) : g[j] = g[j - 1] + r[j].t
    <3> TAKE j \in 1 .. Len(r)
    <3>1. CASE j < i
      <4>1. /\ g[j] = Offset(q, j) /\ g[j - 1] = Offset(q, j - 1)
            /\ j \in 1 .. Len(q) /\ j \in 1 .. i - 1
        BY <1>1, <1>3, <3>1
      <4> QED
        BY <1>1, <1>3, <4>1
    <3>2. CASE j = i
      <4>1. /\ g[j] = Offset(q, i + 1) /\ g[j - 1] = Offset(q, i - 1)
            /\ i + 1 \in 1 .. Len(q) /\ (i + 1) - 1 = i /\ i \in i .. Len(q) - 1
            /\ i - 1 \in 0 .. Len(q)
        BY <1>1, <1>3, <3>2
      <4>2. /\ Offset(q, i + 1) = Offset(q, i) + q[i + 1].t
            /\ Offset(q, i) = Offset(q, i - 1) + q[i].t
        <5> HIDE DEF g
        <5>1. PICK m \in 1 .. Len(q) : m = i + 1 /\ m - 1 = i
          BY <1>1, <4>1
        <5>2. Offset(q, m) = Offset(q, m - 1) + q[m].t
          BY <1>1
        <5> QED
          BY <1>1, <5>1, <5>2
      <4>3. r[j].t = q[i].t + q[i + 1].t
        BY <1>3, <3>2, <4>1
      <4>4. /\ Offset(q, i + 1) \in Nat /\ Offset(q, i) \in Nat /\ Offset(q, i - 1) \in Nat
            /\ q[i].t \in Nat /\ q[i + 1].t \in Nat
        BY <1>1, <4>1
      <4> HIDE DEF g
      <4>5. PICK x \in Nat, y \in Nat, z \in Nat :
              x = Offset(q, i - 1) /\ y = q[i].t /\ z = q[i + 1].t
        BY <4>4
      <4>6. PICK m \in Nat : m = y + z /\ x + y + z = x + m
        OBVIOUS
      <4>7. g[j] = x + m /\ g[j - 1] = x /\ r[j].t = m
        BY <4>1, <4>2, <4>3, <4>5, <4>6
      <4> QED
        BY <4>7
    <3>3. CASE j > i
      <4>1. /\ g[j] = Offset(q, j + 1) /\ g[j - 1] = Offset(q, j)
            /\ j + 1 \in 1 .. Len(q) /\ (j + 1) - 1 = j /\ j \in i .. Len(q) - 1
            /\ j # i
        BY <1>1, <1>3, <3>3
      <4>2. r[j].t = q[j + 1].t
        BY <1>3, <4>1
      <4>3. Offset(q, j + 1) = Offset(q, j) + q[j + 1].t
        <5> HIDE DEF g
        <5>1. PICK m \in 1 .. Len(q) : m = j + 1 /\ m - 1 = j
          BY <1>1, <4>1
        <5>2. Offset(q, m) = Offset(q, m - 1) + q[m].t
          BY <1>1
        <5> QED
          BY <5>1, <5>2
      <4> HIDE DEF g
      <4> QED
        BY <4>1, <4>2, <4>3
    <3> QED
      BY <1>1, <1>3, <3>1, <3>2, <3>3
  <2> HIDE DEF g
  <2> QED
    BY <1>3, <2>1, <2>2, OffsetUnique
<1>5. \A j \in 1 .. i - 1 : Twins(r, j, q, j)
  <2> TAKE j \in 1 .. i - 1
  <2>1. j \in 0 .. Len(r) /\ g[j] = Offset(q, j)
    BY <1>1, <1>3
  <2> QED
    BY <1>3, <1>4, <2>1 DEF Twins, SameMessage
<1>6. \A j \in i .. Len(q) - 1 : Twins(r, j, q, j + 1)
  <2> TAKE j \in i .. Len(q) - 1
  <2>1. j \in 0 .. Len(r) /\ g[j] = Offset(q, j + 1)
    BY <1>1, <1>3
  <2> QED
    BY <1>3, <1>4, <2>1 DEF Twins
<1> QED
  BY <1>3, <1>5, <1>6 DEF r

(* A message that had no node gets one; the others keep theirs.             *)
LEMMA InsertMessages ==
  ASSUME NEW q \in Seq(Node), OneNodeEach(q), NEW n \in Node, n.msg \notin MessagesOf(q)
  PROVE  LET r == coap_insert_node(q, n)
         IN  /\ r \in Seq(Node) /\ OneNodeEach(r) /\ r # <<>>
             /\ MessagesOf(r) = MessagesOf(q) \cup {n.msg}
             /\ \A i \in 1 .. Len(r) :
                  \/ SameMessage(r[i], n) /\ Offset(r, i) = n.t
                  \/ \E j \in 1 .. Len(q) : Twins(r, i, q, j)
<1>1. PICK r : r = coap_insert_node(q, n)
  OBVIOUS
<1>2. PICK k \in 0 .. Len(q) :
        /\ r \in Seq(Node) /\ Len(r) = Len(q) + 1
        /\ \A i \in 1 .. k : Twins(r, i, q, i)
        /\ SameMessage(r[k + 1], n) /\ Offset(r, k + 1) = n.t
        /\ \A i \in k + 1 .. Len(q) : Twins(r, i + 1, q, i)
  BY <1>1, InsertKeeps
<1>3. Len(q) \in Nat
  BY LenProperties
<1>4. \A i \in 1 .. Len(r) :
        \/ i \in 1 .. k /\ Twins(r, i, q, i)
        \/ i = k + 1 /\ SameMessage(r[i], n) /\ Offset(r, i) = n.t
        \/ i \in k + 2 .. Len(q) + 1 /\ i - 1 \in 1 .. Len(q) /\ Twins(r, i, q, i - 1)
  <2> TAKE i \in 1 .. Len(r)
  <2>1. \/ i \in 1 .. k
        \/ i = k + 1
        \/ /\ i \in k + 2 .. Len(q) + 1 /\ i - 1 \in 1 .. Len(q)
           /\ i - 1 \in k + 1 .. Len(q) /\ (i - 1) + 1 = i
    BY <1>2, <1>3
  <2> QED
    BY <1>2, <2>1
<1>5. OneNodeEach(r)
  <2> SUFFICES ASSUME NEW i \in 1 .. Len(r), NEW j \in 1 .. Len(r), r[i].msg = r[j].msg
               PROVE  i = j
    BY DEF OneNodeEach
  <2> DEFINE Source(x) == IF x \in 1 .. k THEN x ELSE x - 1
  <2>1. \A x \in 1 .. Len(r) :
          x # k + 1 => Source(x) \in 1 .. Len(q) /\ r[x].msg = q[Source(x)].msg
    <3> TAKE x \in 1 .. Len(r)
    <3> HAVE x # k + 1
    <3>1. CASE x \in 1 .. k
      <4>1. Source(x) = x /\ x \in 1 .. Len(q)
        BY <1>3, <3>1
      <4>2. r[x].msg = q[x].msg
        BY <1>2, <3>1 DEF Twins, SameMessage
      <4> QED
        BY <4>1, <4>2
    <3>2. CASE x \notin 1 .. k
      <4>1. Source(x) = x - 1
        BY <3>2
      <4>2. x - 1 \in 1 .. Len(q) /\ Twins(r, x, q, x - 1)
        <5>1. x # k + 1
          OBVIOUS
        <5> QED
          BY <1>4, <3>2, <5>1, Zenon
      <4> QED
        BY <4>1, <4>2 DEF Twins, SameMessage
    <3> QED
      BY <3>1, <3>2
  <2>2. \A x \in 1 .. Len(r) : r[x].msg = n.msg <=> x = k + 1
    <3> TAKE x \in 1 .. Len(r)
    <3>1. CASE x = k + 1
      BY <1>2, <3>1 DEF SameMessage
    <3>2. CASE x # k + 1
      <4>1. Source(x) \in 1 .. Len(q) /\ r[x].msg = q[Source(x)].msg
        BY <2>1, <3>2
      <4> HIDE DEF Source
      <4>2. q[Source(x)].msg \in MessagesOf(q)
        BY <4>1 DEF MessagesOf
      <4> QED
        BY <3>2, <4>1, <4>2
    <3> QED
      BY <3>1, <3>2
  <2>3. CASE i = k + 1 \/ j = k + 1
    BY <2>2, <2>3
  <2>4. CASE i # k + 1 /\ j # k + 1
    <3>1. Source(i) = Source(j)
      BY <2>1, <2>4 DEF OneNodeEach
    <3> QED
      BY <1>2, <1>3, <2>4, <3>1
  <2> QED
    BY <2>3, <2>4
<1>6. MessagesOf(r) \subseteq MessagesOf(q) \cup {n.msg}
  <2> SUFFICES ASSUME NEW i \in 1 .. Len(r)
               PROVE  r[i].msg \in MessagesOf(q) \cup {n.msg}
    BY DEF MessagesOf
  <2>1. \/ SameMessage(r[i], n)
        \/ \E j \in 1 .. Len(q) : SameMessage(r[i], q[j])
    BY <1>2, <1>3, <1>4 DEF Twins
  <2> QED
    BY <2>1 DEF MessagesOf, SameMessage
<1>7. MessagesOf(q) \subseteq MessagesOf(r)
  <2> SUFFICES ASSUME NEW i \in 1 .. Len(q)
               PROVE  q[i].msg \in MessagesOf(r)
    BY DEF MessagesOf
  <2>1. CASE i \in 1 .. k
    <3>1. i \in 1 .. Len(r) /\ Twins(r, i, q, i)
      BY <1>2, <1>3, <2>1
    <3> QED
      BY <3>1 DEF MessagesOf, Twins, SameMessage
  <2>2. CASE i \in k + 1 .. Len(q)
    <3>1. i + 1 \in 1 .. Len(r) /\ Twins(r, i + 1, q, i)
      BY <1>2, <1>3, <2>2
    <3> QED
      BY <3>1 DEF MessagesOf, Twins, SameMessage
  <2> QED
    BY <1>2, <1>3, <2>1, <2>2
<1>8. n.msg \in MessagesOf(r)
  <2>1. k + 1 \in 1 .. Len(r) /\ SameMessage(r[k + 1], n)
    BY <1>2, <1>3
  <2> QED
    BY <2>1 DEF MessagesOf, SameMessage
<1>9. \A i \in 1 .. Len(r) :
        \/ SameMessage(r[i], n) /\ Offset(r, i) = n.t
        \/ \E j \in 1 .. Len(q) : Twins(r, i, q, j)
  BY <1>2, <1>3, <1>4
<1>10. r # <<>>
  BY <1>2, <1>3, EmptySeq
<1> QED
  BY <1>1, <1>2, <1>5, <1>6, <1>7, <1>8, <1>9, <1>10

(* The message of the unlinked node has none; the others keep theirs.       *)
LEMMA UnlinkMessages ==
  ASSUME NEW q \in Seq(Node), OneNodeEach(q), NEW i \in 1 .. Len(q)
  PROVE  LET r == Unlink(q, i)
         IN  /\ r \in Seq(Node) /\ OneNodeEach(r)
             /\ MessagesOf(r) = MessagesOf(q) \ {q[i].msg}
             /\ \A k \in 1 .. Len(r) : \E j \in 1 .. Len(q) : Twins(r, k, q, j)
<1>1. PICK r : r = Unlink(q, i)
  OBVIOUS
<1>2. /\ r \in Seq(Node) /\ Len(r) = Len(q) - 1
      /\ \A j \in 1 .. i - 1 : Twins(r, j, q, j)
      /\ \A j \in i .. Len(q) - 1 : Twins(r, j, q, j + 1)
  BY <1>1, UnlinkKeeps
<1>3. Len(q) \in Nat
  BY LenProperties
<1>4. \A k \in 1 .. Len(r) :
        \/ k \in 1 .. i - 1 /\ k \in 1 .. Len(q) /\ Twins(r, k, q, k)
        \/ k \in i .. Len(q) - 1 /\ k + 1 \in 1 .. Len(q) /\ Twins(r, k, q, k + 1)
  BY <1>2, <1>3
<1>5. OneNodeEach(r)
  BY <1>3, <1>4 DEF OneNodeEach, Twins, SameMessage
<1>6. MessagesOf(r) \subseteq MessagesOf(q) \ {q[i].msg}
  BY <1>3, <1>4 DEF OneNodeEach, MessagesOf, Twins, SameMessage
<1>7. \A j \in 1 .. Len(q) : j # i => q[j].msg \in MessagesOf(r)
  <2> TAKE j \in 1 .. Len(q)
  <2> HAVE j # i
  <2>1. CASE j < i
    <3>1. j \in 1 .. Len(r) /\ Twins(r, j, q, j)
      BY <1>2, <1>3, <2>1
    <3> QED
      BY <3>1 DEF MessagesOf, Twins, SameMessage
  <2>2. CASE j > i
    <3>1. j - 1 \in 1 .. Len(r) /\ j - 1 \in i .. Len(q) - 1 /\ (j - 1) + 1 = j
      BY <1>2, <1>3, <2>2
    <3>2. Twins(r, j - 1, q, j)
      BY <1>2, <3>1
    <3> QED
      BY <3>1, <3>2 DEF MessagesOf, Twins, SameMessage
  <2> QED
    BY <1>3, <2>1, <2>2
<1>8. MessagesOf(q) \ {q[i].msg} \subseteq MessagesOf(r)
  BY <1>7 DEF MessagesOf
<1> QED
  BY <1>1, <1>2, <1>4, <1>5, <1>6, <1>8

(* When the messages of a queue are due, which counts from base.            *)
NodeIn(q, m) == CHOOSE i \in 1 .. Len(q) : q[i].msg = m
DueIn(q, base) == [m \in MessagesOf(q) |-> base + Offset(q, NodeIn(q, m))]

(* A message is due at the time of its node.                                *)
LEMMA DueAtNode ==
  ASSUME NEW q, OneNodeEach(q), NEW base, NEW i \in 1 .. Len(q)
  PROVE  q[i].msg \in MessagesOf(q) /\ DueIn(q, base)[q[i].msg] = base + Offset(q, i)
<1>1. NodeIn(q, q[i].msg) = i
  BY DEF NodeIn, OneNodeEach
<1> QED
  BY <1>1 DEF MessagesOf, DueIn

(* An inserted message is due at its own time and moves no other.           *)
LEMMA InsertDue ==
  ASSUME NEW q \in Seq(Node), OneNodeEach(q), NEW n \in Node, n.msg \notin MessagesOf(q),
         NEW base
  PROVE  LET r == coap_insert_node(q, n)
         IN  /\ DueIn(r, base)[n.msg] = base + n.t
             /\ \A m \in MessagesOf(q) : DueIn(r, base)[m] = DueIn(q, base)[m]
<1>1. PICK r : r = coap_insert_node(q, n)
  OBVIOUS
<1>2. /\ r \in Seq(Node) /\ OneNodeEach(r)
      /\ MessagesOf(r) = MessagesOf(q) \cup {n.msg}
      /\ \A i \in 1 .. Len(r) :
           \/ SameMessage(r[i], n) /\ Offset(r, i) = n.t
           \/ \E j \in 1 .. Len(q) : Twins(r, i, q, j)
  BY <1>1, InsertMessages
<1>3. DueIn(r, base)[n.msg] = base + n.t
  <2>1. PICK i \in 1 .. Len(r) : r[i].msg = n.msg
    BY <1>2 DEF MessagesOf
  <2>2. Offset(r, i) = n.t
    BY <1>2, <2>1 DEF MessagesOf, Twins, SameMessage
  <2> QED
    BY <1>2, <2>1, <2>2, DueAtNode
<1>4. \A m \in MessagesOf(q) : DueIn(r, base)[m] = DueIn(q, base)[m]
  <2> TAKE m \in MessagesOf(q)
  <2>1. PICK i \in 1 .. Len(r) : r[i].msg = m
    BY <1>2 DEF MessagesOf
  <2>2. PICK j \in 1 .. Len(q) : Twins(r, i, q, j)
    BY <1>2, <2>1 DEF SameMessage
  <2>3. q[j].msg = m /\ Offset(r, i) = Offset(q, j)
    BY <2>1, <2>2 DEF Twins, SameMessage
  <2>4. DueIn(r, base)[m] = base + Offset(r, i)
    BY <1>2, <2>1, DueAtNode
  <2>5. DueIn(q, base)[m] = base + Offset(q, j)
    BY <2>3, DueAtNode
  <2> QED
    BY <2>3, <2>4, <2>5
<1> QED
  BY <1>1, <1>3, <1>4

(* Unlinking a message moves no other.                                      *)
LEMMA UnlinkDue ==
  ASSUME NEW q \in Seq(Node), OneNodeEach(q), NEW i \in 1 .. Len(q), NEW base
  PROVE  \A m \in MessagesOf(q) \ {q[i].msg} :
           DueIn(Unlink(q, i), base)[m] = DueIn(q, base)[m]
<1>1. PICK r : r = Unlink(q, i)
  OBVIOUS
<1>2. /\ r \in Seq(Node) /\ OneNodeEach(r)
      /\ MessagesOf(r) = MessagesOf(q) \ {q[i].msg}
      /\ \A k \in 1 .. Len(r) : \E j \in 1 .. Len(q) : Twins(r, k, q, j)
  BY <1>1, UnlinkMessages
<1> SUFFICES ASSUME NEW m \in MessagesOf(q) \ {q[i].msg}
             PROVE  DueIn(r, base)[m] = DueIn(q, base)[m]
  BY <1>1
<1>3. PICK k \in 1 .. Len(r) : r[k].msg = m
  BY <1>2 DEF MessagesOf
<1>4. PICK j \in 1 .. Len(q) : Twins(r, k, q, j)
  BY <1>2
<1>5. q[j].msg = m /\ Offset(r, k) = Offset(q, j)
  BY <1>3, <1>4 DEF Twins, SameMessage
<1>6. DueIn(r, base)[m] = base + Offset(r, k)
  BY <1>2, <1>3, DueAtNode
<1>7. DueIn(q, base)[m] = base + Offset(q, j)
  BY <1>5, DueAtNode
<1> QED
  BY <1>5, <1>6, <1>7

(* The first node's message is the earliest.                                *)
LEMMA HeadEarliest ==
  ASSUME NEW q \in Seq(Node), OneNodeEach(q), q # <<>>, NEW base \in Int
  PROVE  /\ 1 \in 1 .. Len(q) /\ Head(q) = q[1]
         /\ DueIn(q, base)[q[1].msg] = base + q[1].t
         /\ \A m \in MessagesOf(q) : DueIn(q, base)[q[1].msg] <= DueIn(q, base)[m]
<1>1. Len(q) \in Nat /\ 1 \in 1 .. Len(q) /\ q[1].t \in Nat
  BY EmptySeq, NodeTimes
<1>2. Head(q) = q[1]
  BY <1>1
<1>3. Offset(q, 1) = q[1].t
  <2>1. Offset(q, 1) = Offset(q, 1 - 1) + q[1].t /\ Offset(q, 0) = 0 /\ 1 - 1 = 0
    BY <1>1, OffsetSum
  <2> QED
    BY <1>1, <2>1
<1>4. DueIn(q, base)[q[1].msg] = base + q[1].t
  BY <1>1, <1>3, DueAtNode
<1>5. \A m \in MessagesOf(q) : DueIn(q, base)[q[1].msg] <= DueIn(q, base)[m]
  <2> TAKE m \in MessagesOf(q)
  <2>1. PICK i \in 1 .. Len(q) : q[i].msg = m
    BY DEF MessagesOf
  <2>2. DueIn(q, base)[m] = base + Offset(q, i)
    BY <2>1, DueAtNode
  <2>3. 1 \in 0 .. Len(q) /\ i \in 0 .. Len(q) /\ 1 <= i
    BY <1>1
  <2>4. Offset(q, 1) <= Offset(q, i) /\ Offset(q, 1) \in Nat /\ Offset(q, i) \in Nat
    BY <2>3, OffsetOrdered
  <2> QED
    BY <1>3, <1>4, <2>2, <2>4
<1> QED
  BY <1>1, <1>2, <1>4, <1>5

-----------------------------------------------------------------------------
(* The remainder modulo M is in range.                                      *)
LEMMA ModType ==
  ASSUME NEW M \in Nat \ {0}, NEW x \in Int
  PROVE  x % M \in 0 .. M - 1
  OBVIOUS

(* The remainder is the only number in range that is a multiple of M away.  *)
LEMMA ModUnique ==
  ASSUME NEW M \in Nat \ {0}, NEW p \in Int, NEW r \in 0 .. M - 1
  PROVE  (M * p + r) % M = r
  OBVIOUS

(* A number in range is its own remainder.                                  *)
LEMMA ModSmall ==
  ASSUME NEW M \in Nat \ {0}, NEW r \in 0 .. M - 1
  PROVE  r % M = r
  OBVIOUS

(* The difference of two times is that of their ticks while it is in range, *)
(* although the ticks wrapped.                                              *)
LEMMA ModDiff ==
  ASSUME NEW M \in Nat \ {0}, NEW b \in Int, NEW c \in Int, 0 <= c - b, c - b < M
  PROVE  ((c % M) - (b % M)) % M = c - b
<1>1. PICK p : p = c \div M
  OBVIOUS
<1>2. PICK q : q = b \div M
  OBVIOUS
<1>3. p \in Int /\ q \in Int /\ c = (M * p) + (c % M) /\ b = (M * q) + (b % M)
  BY <1>1, <1>2
<1>4. PICK u, v : u = c % M /\ v = b % M
  OBVIOUS
<1>5. u \in Int /\ v \in Int
  BY <1>4, ModType
<1>6. M * (q - p) = (M * q) - (M * p) /\ M * p \in Int /\ M * q \in Int
  BY <1>3
<1>7. u - v = (M * (q - p)) + (c - b)
  BY <1>3, <1>4, <1>5, <1>6
<1>8. q - p \in Int /\ c - b \in 0 .. M - 1
  BY <1>3
<1> QED
  BY <1>4, <1>7, <1>8, ModUnique

(* The time the ticks of the base stand for, seen from time c.              *)
BaseOf(c, ticks) == c - TickDiff(c % TickMod, ticks)

(* As long as the counter did not wrap twice, the base is found again.      *)
LEMMA BaseMeaning ==
  ASSUME NEW b \in Int, NEW c \in Int, 0 <= c - b, c - b < TickMod
  PROVE  BaseOf(c, b % TickMod) = b /\ TickDiff(c % TickMod, b % TickMod) = c - b
<1>1. TickDiff(c % TickMod, b % TickMod) = c - b
  BY ModDiff, SendQueueAssumption DEF TickDiff
<1> QED
  BY <1>1 DEF BaseOf

(* 1 << n *)
LEMMA ShiftedType ==
  \A n \in 0 .. MaxRetransmit : Shifted[n] \in Nat \ {0}
<1>1. MaxRetransmit \in Nat /\ 2 \in Nat \ {0}
  BY SendQueueAssumption
<1>2. Shifted = CHOOSE g : IsGeometric(g, 2, MaxRetransmit)
  BY DEF Shifted, IsGeometric
<1> QED
  BY <1>1, <1>2, Geometric

-----------------------------------------------------------------------------
(* What a node says of its message: its transaction id, unless sendto       *)
(* failed, and how often it was handed to sendto.                           *)
Tells(n) ==
  /\ n.id \in {tid[n.msg], InvalidTid}
  /\ n.retransmit_cnt = attempts[n.msg] - 1
  /\ attempts[n.msg] \in 1 .. MaxRetransmit + 1
  /\ timeout[n.msg] # 0

(* The inductive invariant, as far as it is about which messages wait.      *)
SInv ==
  /\ TypeOK
  /\ OneNodeEach(sendqueue)
  /\ \A i \in 1 .. Len(sendqueue) : Tells(sendqueue[i])
  /\ \A m \in Messages : attempts[m] = 0 => timeout[m] = 0
  /\ \A m \in Messages :
       timeout[m] # 0 /\ ~Acked(m) /\ attempts[m] <= MaxRetransmit => m \in Waiting

(* The constants.                                                           *)
LEMMA Constants ==
  /\ Messages \subseteq Nat /\ Timeouts \subseteq Nat \ {0}
  /\ MaxRetransmit \in Nat /\ StartClock \in Nat /\ MaxClock \in Nat
  /\ TickMod \in Nat \ {0} /\ StartClock <= MaxClock
BY SendQueueAssumption

(* The ticks of any time and the differences and sums of ticks are ticks.   *)
LEMMA TickTypes ==
  ASSUME NEW a \in Int, NEW b \in Int
  PROVE  /\ (a % TickMod) \in 0 .. TickMod - 1
         /\ TickDiff(a, b) \in 0 .. TickMod - 1
         /\ TickSum(a, b) \in 0 .. TickMod - 1
<1>1. PICK d, e : d = a - b /\ e = a + b
  OBVIOUS
<1>2. d \in Int /\ e \in Int /\ TickMod \in Nat \ {0}
  BY <1>1, SendQueueAssumption
<1>3. /\ (a % TickMod) \in 0 .. TickMod - 1
      /\ (d % TickMod) \in 0 .. TickMod - 1
      /\ (e % TickMod) \in 0 .. TickMod - 1
  BY <1>2, ModType
<1> QED
  BY <1>1, <1>3 DEF TickDiff, TickSum

(* The queue is empty at first.                                             *)
LEMMA InitMessages ==
  ASSUME Init
  PROVE  SInv
<1>1. sendqueue = <<>> /\ Len(sendqueue) = 0 /\ sendqueue \in Seq(Node)
  BY EmptySeq DEF Init
<1>2. TypeOK
  BY <1>1, SendQueueAssumption DEF Init, TypeOK
<1> QED
  BY <1>1, <1>2 DEF Init, SInv, OneNodeEach

(* The messages the nodes are for.                                          *)
LEMMA NodeMessages ==
  ASSUME SInv
  PROVE  /\ Len(sendqueue) \in Nat
         /\ \A i \in 1 .. Len(sendqueue) :
              /\ sendqueue[i] \in Node /\ sendqueue[i].msg \in Messages
              /\ sendqueue[i].retransmit_cnt \in Nat
<1>1. Len(sendqueue) \in Nat /\ \A i \in 1 .. Len(sendqueue) : sendqueue[i] \in Node
  BY NodeTimes DEF SInv, TypeOK
<1>2. \A n \in Node : n.msg \in Messages /\ n.retransmit_cnt \in Nat
  BY DEF Node
<1> QED
  BY <1>1, <1>2

(* The node of a message sent for the first time.                           *)
LEMMA NewNode ==
  ASSUME SInv, NEW m \in Messages, NEW t \in Timeouts
  PROVE  LET n == [msg |-> m, id |-> tid[m], t |-> FirstDue(m, t), retransmit_cnt |-> 0]
         IN  /\ n \in Node /\ n.msg = m /\ n.id = tid[m]
             /\ n.t = FirstDue(m, t) /\ n.retransmit_cnt = 0
<1>1. t \in Nat /\ clock \in Int /\ basetime \in Int /\ tid[m] \in Messages
  BY SendQueueAssumption DEF SInv, TypeOK, TransactionIds
<1>2. PICK d : d = TickDiff(coap_ticks, basetime)
  OBVIOUS
<1>3. d \in Int
  BY <1>1, <1>2, TickTypes DEF coap_ticks
<1>4. TickSum(d, t) \in Nat
  <2>1. d \in Int /\ t \in Int
    BY <1>1, <1>3
  <2>2. TickSum(d, t) \in 0 .. TickMod - 1
    BY <2>1, TickTypes
  <2> QED
    BY <2>2, Constants
<1>5. FirstDue(m, t) \in Nat
  BY <1>1, <1>2, <1>4 DEF FirstDue
<1> QED
  BY <1>1, <1>5 DEF Node

(* coap_send_confirmed: the message is queued, or sendto failed.            *)
LEMMA SendKeeps ==
  ASSUME SInv, NEW m \in Messages, SendRequest(m)
  PROVE  /\ SInv' /\ m \notin Waiting
         /\ Waiting' \in {Waiting, Waiting \cup {m}}
<1>1. /\ attempts[m] = 0 /\ timeout[m] = 0 /\ pc' = "read" /\ clock' = clock
      /\ attempts' = [attempts EXCEPT ![m] = @ + 1]
      /\ lastSent' = [lastSent EXCEPT ![m] = clock]
      /\ tid' = tid /\ acked' = acked /\ sampled' = sampled
  BY DEF SendRequest, coap_send_confirmed, Transmitted, SInv
<1>2. m \notin MessagesOf(sendqueue) /\ m \notin Waiting
  BY <1>1 DEF SInv, Tells, MessagesOf, Waiting
<1>3. /\ attempts' \in [Messages -> Nat] /\ lastSent' \in [Messages -> Nat]
      /\ attempts'[m] = 1 /\ \A x \in Messages \ {m} : attempts'[x] = attempts[x]
  BY <1>1 DEF SInv, TypeOK
<1>4. CASE UNCHANGED <<queueVars, timeout, acked>>
  <2>1. sendqueue' = sendqueue /\ timeout' = timeout /\ basetime' = basetime
    BY <1>4 DEF queueVars
  <2>2. \A i \in 1 .. Len(sendqueue) : Tells(sendqueue[i])'
    BY <1>1, <1>2, <1>3, <2>1, NodeMessages DEF SInv, Tells, MessagesOf
  <2>3. Waiting' = Waiting /\ \A x \in Messages : Acked(x)' <=> Acked(x)
    BY <1>1, <2>1 DEF Waiting, Acked
  <2>4. TypeOK'
    BY <1>1, <1>3, <2>1 DEF SInv, TypeOK
  <2>5. \A x \in Messages : attempts'[x] = 0 => timeout'[x] = 0
    BY <1>3, <2>1 DEF SInv
  <2>6. \A x \in Messages :
          timeout'[x] # 0 /\ ~Acked(x)' /\ attempts'[x] <= MaxRetransmit => x \in Waiting'
    BY <1>1, <1>3, <2>1, <2>3 DEF SInv
  <2>7. OneNodeEach(sendqueue)' /\ \A i \in 1 .. Len(sendqueue') : Tells(sendqueue[i])'
    BY <2>1, <2>2 DEF SInv, OneNodeEach
  <2> QED
    BY <1>2, <2>3, <2>4, <2>5, <2>6, <2>7 DEF SInv
<1>5. CASE coap_send_confirmed(m)
  <2>1. PICK t \in Timeouts :
          /\ timeout' = [timeout EXCEPT ![m] = t]
          /\ basetime' = IF sendqueue = <<>> THEN coap_ticks ELSE basetime
          /\ sendqueue' = coap_insert_node(sendqueue,
               [msg |-> m, id |-> tid[m], t |-> FirstDue(m, t), retransmit_cnt |-> 0])
    BY <1>5 DEF coap_send_confirmed
  <2>2. PICK n : n = [msg |-> m, id |-> tid[m], t |-> FirstDue(m, t), retransmit_cnt |-> 0]
    OBVIOUS
  <2>3. n \in Node /\ n.msg = m /\ n.id = tid[m] /\ n.retransmit_cnt = 0
    BY <2>2, NewNode
  <2>4. /\ sendqueue' \in Seq(Node) /\ OneNodeEach(sendqueue')
        /\ MessagesOf(sendqueue') = MessagesOf(sendqueue) \cup {m}
        /\ \A i \in 1 .. Len(sendqueue') :
             \/ SameMessage(sendqueue'[i], n)
             \/ \E j \in 1 .. Len(sendqueue) : SameMessage(sendqueue'[i], sendqueue[j])
    <3>1. PICK r : r = coap_insert_node(sendqueue, n)
      OBVIOUS
    <3>2. /\ r \in Seq(Node) /\ OneNodeEach(r)
          /\ MessagesOf(r) = MessagesOf(sendqueue) \cup {m}
          /\ \A i \in 1 .. Len(r) :
               \/ SameMessage(r[i], n) /\ Offset(r, i) = n.t
               \/ \E j \in 1 .. Len(sendqueue) : Twins(r, i, sendqueue, j)
      BY <1>2, <2>3, <3>1, InsertMessages DEF SInv, TypeOK
    <3> QED
      BY <2>1, <2>2, <3>1, <3>2 DEF Twins
  <2>5. /\ t # 0 /\ t \in Timeouts /\ timeout'[m] = t
        /\ \A x \in Messages \ {m} : timeout'[x] = timeout[x]
        /\ timeout' \in [Messages -> Timeouts \cup {0}]
    BY <2>1, SendQueueAssumption DEF SInv, TypeOK
  <2>6. \A i \in 1 .. Len(sendqueue') : Tells(sendqueue[i])'
    <3> TAKE i \in 1 .. Len(sendqueue')
    <3>1. CASE SameMessage(sendqueue'[i], n)
      BY <1>1, <1>3, <2>3, <2>5, <3>1, Constants DEF SameMessage, Tells
    <3>2. ASSUME NEW j \in 1 .. Len(sendqueue), SameMessage(sendqueue'[i], sendqueue[j])
          PROVE  Tells(sendqueue[i])'
      <4>1. sendqueue[j].msg \in Messages /\ sendqueue[j].msg # m /\ Tells(sendqueue[j])
        BY <1>2, NodeMessages DEF SInv, MessagesOf
      <4> QED
        BY <1>1, <1>3, <2>5, <3>2, <4>1 DEF SameMessage, Tells
    <3> QED
      BY <2>4, <3>1, <3>2
  <2>7. Waiting' = Waiting \cup {m} /\ \A x \in Messages : Acked(x)' <=> Acked(x)
    BY <1>1, <2>4 DEF Waiting, MessagesOf, Acked
  <2>8. basetime' \in 0 .. TickMod - 1
    <3>1. clock \in Int
      BY DEF SInv, TypeOK
    <3>2. coap_ticks \in 0 .. TickMod - 1
      BY <3>1, TickTypes DEF coap_ticks
    <3> QED
      BY <2>1, <3>2 DEF SInv, TypeOK
  <2>9. TypeOK'
    BY <1>1, <1>3, <2>4, <2>5, <2>8 DEF SInv, TypeOK
  <2>10. \A x \in Messages : attempts'[x] = 0 => timeout'[x] = 0
    BY <1>3, <2>5 DEF SInv
  <2>11. \A x \in Messages :
          timeout'[x] # 0 /\ ~Acked(x)' /\ attempts'[x] <= MaxRetransmit => x \in Waiting'
    BY <1>3, <2>5, <2>7 DEF SInv
  <2> QED
    BY <1>2, <2>4, <2>6, <2>7, <2>9, <2>10, <2>11 DEF SInv
<1> QED
  BY <1>4, <1>5 DEF SendRequest

(* The first node and the queue without it.                                 *)
LEMMA HeadMessage ==
  ASSUME SInv, sendqueue # <<>>,
         NEW n, n = Head(sendqueue), NEW rest, rest = Unlink(sendqueue, 1)
  PROVE  /\ 1 \in 1 .. Len(sendqueue) /\ n = sendqueue[1] /\ n \in Node
         /\ Tells(n) /\ n.msg \in Messages /\ n.retransmit_cnt \in Nat
         /\ rest \in Seq(Node) /\ OneNodeEach(rest) /\ n.msg \in Waiting
         /\ MessagesOf(rest) = MessagesOf(sendqueue) \ {n.msg}
         /\ \A k \in 1 .. Len(rest) :
              Tells(rest[k]) /\ rest[k].msg \in Messages /\ rest[k].msg # n.msg
<1>1. /\ 1 \in 1 .. Len(sendqueue) /\ n = sendqueue[1] /\ n \in Node
      /\ Tells(n) /\ n.msg \in Messages /\ n.retransmit_cnt \in Nat
  <2>1. Len(sendqueue) \in Nat \ {0} /\ n = sendqueue[1]
    BY EmptySeq, HeadTailProperties DEF SInv, TypeOK
  <2> QED
    BY <2>1, NodeMessages DEF SInv
<1>2. /\ rest \in Seq(Node) /\ OneNodeEach(rest)
      /\ MessagesOf(rest) = MessagesOf(sendqueue) \ {n.msg}
      /\ \A k \in 1 .. Len(rest) : \E j \in 1 .. Len(sendqueue) : Twins(rest, k, sendqueue, j)
  BY <1>1, UnlinkMessages DEF SInv, TypeOK
<1>3. \A k \in 1 .. Len(rest) :
        Tells(rest[k]) /\ rest[k].msg \in Messages /\ rest[k].msg # n.msg
  <2> TAKE k \in 1 .. Len(rest)
  <2>1. PICK j \in 1 .. Len(sendqueue) : SameMessage(rest[k], sendqueue[j])
    BY <1>2 DEF Twins
  <2>2. Tells(sendqueue[j]) /\ sendqueue[j].msg \in Messages
    BY NodeMessages DEF SInv
  <2>3. rest[k].msg # n.msg
    BY <1>2 DEF MessagesOf
  <2> QED
    BY <2>1, <2>2, <2>3 DEF SameMessage, Tells
<1> QED
  BY <1>1, <1>2, <1>3 DEF Waiting

(* The node of a message sent again.                                        *)
LEMMA AgainNode ==
  ASSUME SInv, NEW n \in Node, Tells(n), ~Exhausted(n),
         NEW id \in {tid[n.msg]} \cup (IF SendFails THEN {InvalidTid} ELSE {})
  PROVE  LET again == [n EXCEPT !.id = id,
                                !.retransmit_cnt = @ + 1,
                                !.t = timeout[n.msg] * Shifted[n.retransmit_cnt + 1]]
         IN  /\ again \in Node /\ again.msg = n.msg
             /\ again.id \in {tid[n.msg], InvalidTid}
             /\ again.retransmit_cnt = n.retransmit_cnt + 1
<1>1. /\ n.msg \in Messages /\ n.retransmit_cnt \in Nat
      /\ n.id \in Messages \cup {InvalidTid} /\ n.t \in Nat
  BY DEF Node
<1>2. PICK f, t : f = Shifted[n.retransmit_cnt + 1] /\ t = timeout[n.msg] * f
  OBVIOUS
<1>3. f \in Nat
  <2>1. n.retransmit_cnt + 1 \in 0 .. MaxRetransmit
    BY <1>1, Constants DEF Exhausted
  <2> QED
    BY <1>2, <2>1, ShiftedType
<1>4. timeout[n.msg] \in Nat
  <2>1. timeout[n.msg] \in Timeouts \cup {0}
    BY <1>1 DEF SInv, TypeOK
  <2>2. \A x \in Timeouts \cup {0} : x \in Nat
    BY Constants
  <2> QED
    BY <2>1, <2>2
<1>5. t \in Nat
  BY <1>2, <1>3, <1>4
<1>6. id \in {tid[n.msg], InvalidTid} /\ tid[n.msg] \in Messages
  BY <1>1 DEF SInv, TypeOK, TransactionIds
<1>7. PICK again : again = [n EXCEPT !.id = id, !.retransmit_cnt = @ + 1, !.t = t]
  OBVIOUS
<1>8. /\ again \in Node /\ again.msg = n.msg /\ again.id \in {tid[n.msg], InvalidTid}
      /\ again.retransmit_cnt = n.retransmit_cnt + 1
  <2>1. PICK c : c = n.retransmit_cnt + 1
    OBVIOUS
  <2>2. c \in Nat /\ id \in Messages \cup {InvalidTid}
    BY <1>1, <1>6, <2>1
  <2>3. again = [n EXCEPT !.id = id, !.retransmit_cnt = c, !.t = t]
    BY <1>7, <2>1
  <2>4. /\ again \in Node /\ again.msg = n.msg /\ again.id = id
        /\ again.retransmit_cnt = c
    BY <1>5, <2>2, <2>3 DEF Node
  <2> QED
    BY <1>6, <2>1, <2>4
<1> QED
  BY <1>2, <1>7, <1>8

(* coap_retransmit: the first node is queued again, or its message given up. *)
LEMMA ResendKeeps ==
  ASSUME SInv, Resend
  PROVE  /\ SInv'
         /\ \A m \in Waiting \ Waiting' : attempts[m] = MaxRetransmit + 1
<1>1. /\ sendqueue # <<>>
      /\ UNCHANGED <<clock, basetime, tid, pc, sampled>>
      /\ coap_retransmit(Unlink(sendqueue, 1), Head(sendqueue))
  BY DEF Resend, HeadIsDue, coap_pop_next
<1>2. PICK n, rest : n = Head(sendqueue) /\ rest = Unlink(sendqueue, 1)
  OBVIOUS
<1>3. /\ n \in Node /\ Tells(n) /\ n.msg \in Messages /\ n.retransmit_cnt \in Nat
      /\ rest \in Seq(Node) /\ OneNodeEach(rest) /\ n.msg \in Waiting
      /\ MessagesOf(rest) = MessagesOf(sendqueue) \ {n.msg}
      /\ \A k \in 1 .. Len(rest) :
           Tells(rest[k]) /\ rest[k].msg \in Messages /\ rest[k].msg # n.msg
  BY <1>1, <1>2, HeadMessage
<1>4. MaxRetransmit \in Nat
  BY Constants
<1>5. CASE Exhausted(n)
  <2>1. /\ sendqueue' = rest
        /\ UNCHANGED historyVars
    BY <1>1, <1>2, <1>5 DEF coap_retransmit
  <2>2. attempts[n.msg] = MaxRetransmit + 1
    BY <1>3, <1>4, <1>5 DEF Exhausted, Tells, SInv, TypeOK
  <2>3. Waiting' = Waiting \ {n.msg} /\ \A x \in Messages : Acked(x)' <=> Acked(x)
    BY <1>1, <1>3, <2>1 DEF Waiting, MessagesOf, Acked, historyVars
  <2>4. \A i \in 1 .. Len(sendqueue') : Tells(sendqueue[i])'
    BY <1>1, <1>3, <2>1 DEF Tells, historyVars
  <2>5. \A m \in Messages :
          timeout'[m] # 0 /\ ~Acked(m)' /\ attempts'[m] <= MaxRetransmit => m \in Waiting'
    BY <1>4, <2>1, <2>2, <2>3 DEF SInv, historyVars
  <2>6. TypeOK'
    BY <1>1, <1>3, <2>1 DEF SInv, TypeOK, historyVars
  <2>7. \A m \in Messages : attempts'[m] = 0 => timeout'[m] = 0
    BY <2>1 DEF SInv, historyVars
  <2>8. OneNodeEach(sendqueue')
    BY <1>3, <2>1
  <2>9. SInv'
    BY <2>4, <2>5, <2>6, <2>7, <2>8 DEF SInv
  <2> QED
    BY <2>2, <2>3, <2>9
<1>6. CASE ~Exhausted(n)
  <2>1. PICK id \in {tid[n.msg]} \cup (IF SendFails THEN {InvalidTid} ELSE {}) :
          sendqueue' = coap_insert_node(rest,
            [n EXCEPT !.id = id,
                      !.retransmit_cnt = @ + 1,
                      !.t = timeout[n.msg] * Shifted[n.retransmit_cnt + 1]])
    BY <1>1, <1>2, <1>6 DEF coap_retransmit
  <2>2. /\ attempts' = [attempts EXCEPT ![n.msg] = @ + 1]
        /\ lastSent' = [lastSent EXCEPT ![n.msg] = clock]
        /\ timeout' = timeout /\ acked' = acked
    BY <1>1, <1>2, <1>6 DEF coap_retransmit, Transmitted
  <2>3. PICK again :
          again = [n EXCEPT !.id = id,
                            !.retransmit_cnt = @ + 1,
                            !.t = timeout[n.msg] * Shifted[n.retransmit_cnt + 1]]
    OBVIOUS
  <2>4. /\ again \in Node /\ again.msg = n.msg /\ again.id \in {tid[n.msg], InvalidTid}
        /\ again.retransmit_cnt = n.retransmit_cnt + 1
    BY <1>3, <1>6, <2>3, AgainNode
  <2>5. /\ sendqueue' \in Seq(Node) /\ OneNodeEach(sendqueue')
        /\ MessagesOf(sendqueue') = MessagesOf(rest) \cup {n.msg}
        /\ \A i \in 1 .. Len(sendqueue') :
             \/ SameMessage(sendqueue'[i], again)
             \/ \E j \in 1 .. Len(rest) : SameMessage(sendqueue'[i], rest[j])
    <3>1. PICK r : r = coap_insert_node(rest, again)
      OBVIOUS
    <3>2. again.msg \notin MessagesOf(rest)
      BY <1>3, <2>4
    <3>3. /\ r \in Seq(Node) /\ OneNodeEach(r)
          /\ MessagesOf(r) = MessagesOf(rest) \cup {n.msg}
          /\ \A i \in 1 .. Len(r) :
               \/ SameMessage(r[i], again) /\ Offset(r, i) = again.t
               \/ \E j \in 1 .. Len(rest) : Twins(r, i, rest, j)
      BY <1>3, <2>4, <3>1, <3>2, InsertMessages
    <3>4. \A i \in 1 .. Len(r) :
            SameMessage(r[i], again) \/ \E j \in 1 .. Len(rest) : SameMessage(r[i], rest[j])
      BY <3>3 DEF Twins
    <3>5. sendqueue' = r
      BY <2>1, <2>3, <3>1
    <3> QED
      BY <3>3, <3>4, <3>5
  <2>6. /\ attempts[n.msg] <= MaxRetransmit /\ attempts[n.msg] \in Nat
        /\ attempts'[n.msg] = attempts[n.msg] + 1
        /\ \A x \in Messages \ {n.msg} : attempts'[x] = attempts[x]
        /\ attempts' \in [Messages -> Nat] /\ lastSent' \in [Messages -> Nat]
    <3>1. /\ attempts \in [Messages -> Nat] /\ lastSent \in [Messages -> Nat]
          /\ clock \in Nat /\ MaxRetransmit \in Nat /\ n.msg \in Messages
      BY <1>3, SendQueueAssumption DEF SInv, TypeOK, Node
    <3>2. attempts[n.msg] <= MaxRetransmit
      BY <1>3, <1>4, <1>6, <3>1 DEF Exhausted, Tells
    <3> QED
      BY <2>2, <3>1, <3>2
  <2>7. \A i \in 1 .. Len(sendqueue') : Tells(sendqueue[i])'
    <3> TAKE i \in 1 .. Len(sendqueue')
    <3>1. CASE SameMessage(sendqueue'[i], again)
      BY <1>1, <1>3, <1>4, <2>2, <2>4, <2>6, <3>1 DEF SameMessage, Tells
    <3>2. ASSUME NEW j \in 1 .. Len(rest), SameMessage(sendqueue'[i], rest[j])
          PROVE  Tells(sendqueue[i])'
      BY <1>1, <1>3, <2>2, <2>6, <3>2 DEF SameMessage, Tells
    <3> QED
      BY <2>5, <3>1, <3>2
  <2>8. Waiting' = Waiting /\ \A x \in Messages : Acked(x)' <=> Acked(x)
    BY <1>1, <1>3, <2>2, <2>5 DEF Waiting, MessagesOf, Acked
  <2>9. \A m \in Messages : attempts'[m] >= attempts[m] /\ attempts[m] \in Nat
    <3> TAKE m \in Messages
    <3>1. attempts[m] \in Nat
      BY DEF SInv, TypeOK
    <3>2. attempts'[m] = attempts[m] \/ attempts'[m] = attempts[m] + 1
      BY <2>6
    <3> QED
      BY <3>1, <3>2
  <2>10. \A m \in Messages :
           timeout'[m] # 0 /\ ~Acked(m)' /\ attempts'[m] <= MaxRetransmit => m \in Waiting'
    <3> TAKE m \in Messages
    <3>1. attempts'[m] <= MaxRetransmit => attempts[m] <= MaxRetransmit
      BY <1>4, <2>6, <2>9
    <3> QED
      BY <2>2, <2>8, <3>1 DEF SInv
  <2>11. \A m \in Messages : attempts'[m] = 0 => timeout'[m] = 0
    BY <2>2, <2>6 DEF SInv
  <2>12. TypeOK'
    BY <1>1, <2>2, <2>5, <2>6 DEF SInv, TypeOK
  <2>13. SInv'
    BY <2>5, <2>7, <2>10, <2>11, <2>12 DEF SInv
  <2> QED
    BY <2>8, <2>13
<1> QED
  BY <1>5, <1>6

(* coap_remove_from_queue takes out a node with the id, if there is one.    *)
LEMMA RemovedNode ==
  ASSUME NEW q, Len(q) \in Nat, NEW id
  PROVE  \/ coap_remove_from_queue(q, id) = q
         \/ \E i \in 1 .. Len(q) :
              q[i].id = id /\ coap_remove_from_queue(q, id) = Unlink(q, i)
<1>1. PICK found : found = {i \in 1 .. Len(q) : q[i].id = id}
  OBVIOUS
<1>2. CASE found = {}
  BY <1>1, <1>2 DEF coap_remove_from_queue
<1>3. CASE found # {}
  <2>1. PICK i : i = CHOOSE x \in found : \A j \in found : x <= j
    OBVIOUS
  <2>2. \E x \in found : \A j \in found : x <= j
    <3>1. found \subseteq Nat /\ found # {}
      BY <1>1, <1>3
    <3> QED
      BY <3>1, LeastNatural
  <2>3. i \in found
    BY <2>1, <2>2
  <2>4. coap_remove_from_queue(q, id) = Unlink(q, i)
    BY <1>1, <1>3, <2>1 DEF coap_remove_from_queue
  <2> QED
    BY <1>1, <2>3, <2>4
<1> QED
  BY <1>2, <1>3

(* The acknowledged node goes, which may be that of another message with    *)
(* the same transaction id.                                                 *)
LEMMA AckKeeps ==
  ASSUME SInv, NEW m \in Messages, ReadAck(m)
  PROVE  SInv' /\ \A x \in Waiting \ Waiting' : Acked(x)'
<1>1. /\ sendqueue' = coap_remove_from_queue(sendqueue, tid[m])
      /\ acked' = acked \cup {m} /\ pc' = "take"
      /\ UNCHANGED <<clock, basetime, tid, sampled, timeout, attempts, lastSent>>
  BY DEF ReadAck
<1>2. \A x \in Messages : Acked(x)' <=> Acked(x) \/ tid[x] = tid[m]
  BY <1>1 DEF Acked
<1>3. \A x \in Messages : attempts'[x] = 0 => timeout'[x] = 0
  BY <1>1 DEF SInv
<1>4. CASE sendqueue' = sendqueue
  <2>1. Waiting' = Waiting
    BY <1>4 DEF Waiting
  <2>2. \A i \in 1 .. Len(sendqueue') : Tells(sendqueue[i])'
    BY <1>1, <1>4 DEF Tells, SInv
  <2>3. TypeOK' /\ OneNodeEach(sendqueue')
    BY <1>1, <1>4 DEF SInv, TypeOK
  <2>4. \A x \in Messages :
          timeout'[x] # 0 /\ ~Acked(x)' /\ attempts'[x] <= MaxRetransmit => x \in Waiting'
    BY <1>1, <1>2, <2>1 DEF SInv
  <2>5. SInv'
    BY <1>3, <2>2, <2>3, <2>4 DEF SInv
  <2> QED
    BY <2>1, <2>5
<1>5. ASSUME NEW i \in 1 .. Len(sendqueue), sendqueue[i].id = tid[m],
             sendqueue' = Unlink(sendqueue, i)
      PROVE  SInv' /\ \A x \in Waiting \ Waiting' : Acked(x)'
  <2>1. sendqueue[i].msg \in Messages /\ Tells(sendqueue[i])
    BY NodeMessages DEF SInv
  <2>2. tid[sendqueue[i].msg] = tid[m]
    <3>1. tid[m] # InvalidTid
      BY Constants DEF SInv, TypeOK, TransactionIds, InvalidTid
    <3> QED
      BY <1>5, <2>1, <3>1 DEF Tells
  <2>3. /\ sendqueue' \in Seq(Node) /\ OneNodeEach(sendqueue')
        /\ MessagesOf(sendqueue') = MessagesOf(sendqueue) \ {sendqueue[i].msg}
        /\ \A k \in 1 .. Len(sendqueue') :
             \E j \in 1 .. Len(sendqueue) : SameMessage(sendqueue'[k], sendqueue[j])
    <3>1. PICK r : r = Unlink(sendqueue, i)
      OBVIOUS
    <3>2. /\ r \in Seq(Node) /\ OneNodeEach(r)
          /\ MessagesOf(r) = MessagesOf(sendqueue) \ {sendqueue[i].msg}
          /\ \A k \in 1 .. Len(r) : \E j \in 1 .. Len(sendqueue) : Twins(r, k, sendqueue, j)
      BY <3>1, UnlinkMessages DEF SInv, TypeOK
    <3> QED
      BY <1>5, <3>1, <3>2 DEF Twins
  <2>4. Waiting' = Waiting \ {sendqueue[i].msg}
    BY <2>3 DEF Waiting, MessagesOf
  <2>5. \A k \in 1 .. Len(sendqueue') : Tells(sendqueue[k])'
    <3> TAKE k \in 1 .. Len(sendqueue')
    <3>1. PICK j \in 1 .. Len(sendqueue) : SameMessage(sendqueue'[k], sendqueue[j])
      BY <2>3
    <3>2. Tells(sendqueue[j])
      BY DEF SInv
    <3> QED
      BY <1>1, <3>1, <3>2 DEF Tells, SameMessage
  <2>6. TypeOK'
    BY <1>1, <2>3 DEF SInv, TypeOK
  <2>7. \A x \in Messages :
          timeout'[x] # 0 /\ ~Acked(x)' /\ attempts'[x] <= MaxRetransmit => x \in Waiting'
    BY <1>1, <1>2, <2>2, <2>4 DEF SInv
  <2>8. SInv'
    BY <1>3, <2>3, <2>5, <2>6, <2>7 DEF SInv
  <2> QED
    BY <1>2, <2>1, <2>2, <2>4, <2>8
<1> QED
  BY <1>1, <1>4, <1>5, RemovedNode, NodeMessages

(* What does not touch the queue and the history.                           *)
LEMMA QuietKeeps ==
  ASSUME SInv, UNCHANGED <<queueVars, tid, historyVars>>,
         clock' \in Nat, pc' \in {"take", "resend", "read"}, sampled' \in 0 .. TickMod - 1
  PROVE  SInv' /\ Waiting' = Waiting
<1> USE DEF queueVars, historyVars
<1>1. Waiting' = Waiting /\ \A x \in Messages : Acked(x)' <=> Acked(x)
  BY DEF Waiting, Acked
<1>2. \A i \in 1 .. Len(sendqueue') : Tells(sendqueue[i])'
  BY DEF Tells, SInv
<1>3. TypeOK' /\ OneNodeEach(sendqueue')
  BY DEF SInv, TypeOK
<1> QED
  BY <1>1, <1>2, <1>3 DEF SInv

-----------------------------------------------------------------------------
(* The inductive invariant, as far as it is about times: the base is a time *)
(* that the ticks of the clock can still be compared with, the loop looks   *)
(* no further than to the present, and a message sent once is due when its  *)
(* timeout is over.                                                         *)
TInv ==
  /\ clock \in StartClock .. MaxClock
  /\ sendqueue # <<>> =>
       /\ Base \in StartClock .. clock
       /\ (Base % TickMod) = basetime
       /\ pc = "resend" => TickDiff(sampled, basetime) <= clock - Base
  /\ \A m \in Waiting : attempts[m] = 1 => Due[m] = lastSent[m] + timeout[m]

(* The times the messages are due, in the terms of the first part.          *)
LEMMA DueMeaning ==
  /\ Waiting = MessagesOf(sendqueue) /\ Waiting' = MessagesOf(sendqueue')
  /\ Due = DueIn(sendqueue, Base) /\ Due' = DueIn(sendqueue', Base')
  /\ DOMAIN Due = Waiting /\ DOMAIN Due' = Waiting'
BY DEF Due, DueIn, NodeOf, NodeIn, Waiting, MessagesOf

(* The base, as a function of the clock and the base time.                  *)
LEMMA BaseValue ==
  Base = BaseOf(clock, basetime) /\ Base' = BaseOf(clock', basetime')
BY DEF Base, BaseOf, coap_ticks

(* No timeout makes the ticks wrap twice.                                   *)
LEMMA InRange ==
  ASSUME NEW t \in Timeouts
  PROVE  MaxClock - StartClock + t < TickMod
<1>1. PICK s : s = Shifted[MaxRetransmit]
  OBVIOUS
<1>2. s \in Nat \ {0} /\ t \in Nat \ {0}
  BY <1>1, ShiftedType, Constants
<1>3. PICK d : d = s - 1
  OBVIOUS
<1>4. d \in Nat /\ s = d + 1 /\ t * d \in Nat
  BY <1>2, <1>3
<1>5. t * s = t * d + t
  BY <1>2, <1>4
<1>6. MaxClock - StartClock + t * s < TickMod
  BY <1>1, SendQueueAssumption
<1> QED
  BY <1>2, <1>4, <1>5, <1>6, Constants

(* The numbers of the clock.                                                *)
LEMMA ClockNumbers ==
  ASSUME SInv, TInv
  PROVE  /\ clock \in Int /\ StartClock \in Int /\ MaxClock \in Int
         /\ TickMod \in Int /\ 0 < TickMod /\ clock <= MaxClock /\ StartClock <= clock
         /\ sendqueue # <<>> =>
              /\ Base \in Int /\ Base <= clock /\ StartClock <= Base
              /\ basetime = (Base % TickMod) /\ MaxClock - StartClock < TickMod
<1>1. /\ clock \in Int /\ StartClock \in Int /\ MaxClock \in Int
      /\ TickMod \in Int /\ 0 < TickMod /\ clock <= MaxClock /\ StartClock <= clock
  BY Constants DEF TInv
<1>2. ASSUME sendqueue # <<>>
      PROVE  MaxClock - StartClock < TickMod
  <2>1. 1 \in 1 .. Len(sendqueue)
    BY <1>2, EmptySeq DEF SInv, TypeOK
  <2>2. PICK m \in Messages : timeout[m] # 0
    BY <2>1, NodeMessages DEF SInv, Tells
  <2>3. timeout[m] \in Timeouts
    BY <2>2 DEF SInv, TypeOK
  <2>4. PICK t \in Timeouts : TRUE
    BY <2>3
  <2>5. MaxClock - StartClock + t < TickMod /\ t \in Nat
    BY InRange, Constants
  <2> QED
    BY <1>1, <2>5
<1>3. sendqueue # <<>> =>
        Base \in Int /\ Base <= clock /\ StartClock <= Base /\ basetime = (Base % TickMod)
  BY <1>1 DEF TInv
<1> QED
  BY <1>1, <1>2, <1>3

(* The base stays while the ticks do not wrap twice.                        *)
LEMMA BaseStays ==
  ASSUME SInv, TInv, sendqueue # <<>>, NEW c \in Int, clock <= c, c <= MaxClock
  PROVE  BaseOf(c, basetime) = Base /\ TickDiff(c % TickMod, basetime) = c - Base
<1>1. /\ Base \in Int /\ 0 <= c - Base /\ c - Base < TickMod
      /\ basetime = (Base % TickMod)
  BY ClockNumbers
<1> QED
  BY <1>1, BaseMeaning

-----------------------------------------------------------------------------
(* A step that leaves the times and the queue alone.                        *)
LEMMA QuietTimes ==
  ASSUME SInv, TInv, UNCHANGED <<clock, queueVars, tid, historyVars>>,
         sendqueue # <<>> /\ pc' = "resend" => TickDiff(sampled', basetime) <= clock - Base
  PROVE  TInv' /\ Due' = Due
<1>1. Base' = Base /\ Waiting' = Waiting
  BY DEF queueVars, Base, coap_ticks, TickDiff, Waiting
<1>2. Due' = Due
  BY <1>1, DueMeaning DEF queueVars
<1> QED
  BY <1>1, <1>2 DEF TInv, queueVars, historyVars

(* The first node is due at the time that was drawn, whatever base the      *)
(* queue counts from.                                                       *)
LEMMA FirstDueMeaning ==
  ASSUME SInv, TInv, NEW m \in Messages, NEW t \in Timeouts, clock' = clock,
         basetime' = IF sendqueue = <<>> THEN coap_ticks ELSE basetime
  PROVE  /\ Base' \in StartClock .. clock /\ (Base' % TickMod) = basetime'
         /\ sendqueue # <<>> => Base' = Base
         /\ FirstDue(m, t) \in Int /\ Base' + FirstDue(m, t) = clock + t
<1>1. t \in Nat /\ t \in Int /\ MaxClock - StartClock + t < TickMod
  BY InRange, Constants
<1>2. CASE sendqueue = <<>>
  <2>1. basetime' = (clock % TickMod)
    BY <1>2 DEF coap_ticks
  <2>2. BaseOf(clock, clock % TickMod) = clock
    BY ClockNumbers, BaseMeaning
  <2>3. Base' = clock
    BY <2>1, <2>2, BaseValue
  <2>4. FirstDue(m, t) = t
    BY <1>2 DEF FirstDue
  <2> QED
    BY <1>1, <1>2, <2>1, <2>3, <2>4, ClockNumbers
<1>3. CASE sendqueue # <<>>
  <2>1. Base' = Base /\ basetime' = basetime
    BY <1>3, BaseValue
  <2>2. TickDiff(coap_ticks, basetime) = clock - Base
    BY <1>3, BaseStays, ClockNumbers DEF coap_ticks
  <2>3. PICK d : d = clock - Base + t
    OBVIOUS
  <2>4. d \in 0 .. TickMod - 1
    BY <1>1, <1>3, <2>3, ClockNumbers
  <2>5. (d % TickMod) = d
    BY <2>4, ModSmall, Constants
  <2>6. FirstDue(m, t) = (d % TickMod)
    BY <1>3, <2>2, <2>3 DEF FirstDue, TickSum
  <2>7. FirstDue(m, t) = d
    BY <2>5, <2>6
  <2> QED
    BY <1>1, <1>3, <2>1, <2>3, <2>7, ClockNumbers DEF TInv
<1> QED
  BY <1>2, <1>3

(* coap_send_confirmed arms a timer.                                        *)
LEMMA SendTimes ==
  ASSUME SInv, SInv', TInv, NEW m \in Messages, SendRequest(m)
  PROVE  TInv' /\ (Timers!Arm(m) \/ UNCHANGED <<clock, Due>>)
<1>1. /\ pc' = "read" /\ clock' = clock
      /\ attempts' = [attempts EXCEPT ![m] = @ + 1] /\ attempts[m] = 0
      /\ lastSent' = [lastSent EXCEPT ![m] = clock]
  BY DEF SendRequest, coap_send_confirmed, Transmitted
<1>2. m \notin Waiting /\ m \notin MessagesOf(sendqueue)
  BY SendKeeps, DueMeaning
<1>3. \A x \in Messages \ {m} : attempts'[x] = attempts[x] /\ lastSent'[x] = lastSent[x]
  BY <1>1 DEF SInv, TypeOK
<1>4. Waiting \subseteq Messages
  BY NodeMessages DEF Waiting
<1>5. CASE UNCHANGED <<queueVars, timeout, acked>>
  <2>1. Base' = Base /\ Waiting' = Waiting
    BY <1>1, <1>5 DEF queueVars, Base, coap_ticks, TickDiff, Waiting
  <2>2. Due' = Due
    BY <1>5, <2>1, DueMeaning DEF queueVars
  <2>3. \A x \in Waiting' : attempts'[x] = 1 => Due'[x] = lastSent'[x] + timeout'[x]
    BY <1>2, <1>3, <1>4, <1>5, <2>1, <2>2 DEF TInv
  <2>4. TInv'
    BY <1>1, <1>5, <2>1, <2>3 DEF TInv, queueVars
  <2> QED
    BY <1>1, <2>2, <2>4
<1>6. CASE coap_send_confirmed(m)
  <2>1. PICK t \in Timeouts :
          /\ timeout' = [timeout EXCEPT ![m] = t]
          /\ basetime' = IF sendqueue = <<>> THEN coap_ticks ELSE basetime
          /\ sendqueue' = coap_insert_node(sendqueue,
               [msg |-> m, id |-> tid[m], t |-> FirstDue(m, t), retransmit_cnt |-> 0])
    BY <1>6 DEF coap_send_confirmed
  <2>2. PICK n : n = [msg |-> m, id |-> tid[m], t |-> FirstDue(m, t), retransmit_cnt |-> 0]
    OBVIOUS
  <2>3. n \in Node /\ n.msg = m /\ n.t = FirstDue(m, t)
    BY <2>2, NewNode
  <2>4. /\ Base' \in StartClock .. clock /\ (Base' % TickMod) = basetime'
        /\ sendqueue # <<>> => Base' = Base
        /\ FirstDue(m, t) \in Int /\ Base' + FirstDue(m, t) = clock + t
    BY <1>1, <2>1, FirstDueMeaning
  <2>5. /\ MessagesOf(sendqueue') = MessagesOf(sendqueue) \cup {m}
        /\ DueIn(sendqueue', Base')[m] = Base' + FirstDue(m, t)
        /\ \A x \in MessagesOf(sendqueue) :
             DueIn(sendqueue', Base')[x] = DueIn(sendqueue, Base')[x]
    <3>1. PICK q, r, b : q = sendqueue /\ r = coap_insert_node(q, n) /\ b = Base'
      OBVIOUS
    <3>2. q \in Seq(Node) /\ OneNodeEach(q) /\ n.msg \notin MessagesOf(q)
      BY <1>2, <2>3, <3>1 DEF SInv, TypeOK
    <3>3. MessagesOf(r) = MessagesOf(q) \cup {n.msg}
      BY <2>3, <3>1, <3>2, InsertMessages
    <3>4. /\ DueIn(r, b)[n.msg] = b + n.t
          /\ \A x \in MessagesOf(q) : DueIn(r, b)[x] = DueIn(q, b)[x]
      BY <2>3, <3>1, <3>2, InsertDue
    <3> QED
      BY <2>1, <2>2, <2>3, <3>1, <3>3, <3>4
  <2>6. \A x \in Waiting : sendqueue # <<>>
    BY EmptySeq DEF Waiting
  <2>7. /\ Waiting' = Waiting \cup {m} /\ Due'[m] = clock + t
        /\ \A x \in Waiting : Due'[x] = Due[x]
    BY <2>4, <2>5, <2>6, DueMeaning
  <2>8. timeout'[m] = t /\ \A x \in Messages \ {m} : timeout'[x] = timeout[x]
    BY <2>1 DEF SInv, TypeOK
  <2>9. lastSent'[m] = clock
    BY <1>1 DEF SInv, TypeOK
  <2>10. \A x \in Waiting' : attempts'[x] = 1 => Due'[x] = lastSent'[x] + timeout'[x]
    BY <1>2, <1>3, <1>4, <2>7, <2>8, <2>9 DEF TInv
  <2>11. TInv'
    BY <1>1, <2>4, <2>10 DEF TInv
  <2>12. Due'[m] > clock
    BY <2>7, Constants, ClockNumbers
  <2>13. Timers!Arm(m)
    BY <1>1, <1>2, <2>7, <2>12, DueMeaning
    DEF Timers!Arm, Timers!Waiting, Timers!Untouched
  <2> QED
    BY <2>11, <2>13
<1> QED
  BY <1>5, <1>6 DEF SendRequest

(* coap_retransmit fires the earliest timer, and not before its time.       *)
LEMMA ResendTimes ==
  ASSUME SInv, SInv', TInv, Resend
  PROVE  /\ TInv'
         /\ \E m \in Messages :
              /\ Timers!Fire(m) /\ Due[m] <= clock
              /\ \A x \in Messages \ {m} : attempts'[x] = attempts[x]
<1>1. /\ sendqueue # <<>> /\ Head(sendqueue).t <= TickDiff(sampled, basetime)
      /\ UNCHANGED <<clock, basetime, tid, pc, sampled>> /\ pc = "resend"
      /\ coap_retransmit(Unlink(sendqueue, 1), Head(sendqueue))
  BY DEF Resend, HeadIsDue, coap_pop_next
<1>2. PICK n, rest : n = Head(sendqueue) /\ rest = Unlink(sendqueue, 1)
  OBVIOUS
<1>3. /\ 1 \in 1 .. Len(sendqueue) /\ n = sendqueue[1] /\ n \in Node
      /\ Tells(n) /\ n.msg \in Messages
      /\ rest \in Seq(Node) /\ OneNodeEach(rest) /\ n.msg \in Waiting
      /\ MessagesOf(rest) = MessagesOf(sendqueue) \ {n.msg}
  BY <1>1, <1>2, HeadMessage
<1>4. PICK b : b = Base
  OBVIOUS
<1>5. Base' = b /\ b \in Int
  BY <1>1, <1>4, BaseValue, ClockNumbers
<1>6. /\ Due[n.msg] = b + n.t
      /\ \A x \in Waiting : Due[n.msg] <= Due[x]
  BY <1>1, <1>3, <1>4, <1>5, HeadEarliest, DueMeaning DEF SInv, TypeOK
<1>7. Due[n.msg] <= clock
  <2>1. PICK d : d = TickDiff(sampled, basetime)
    OBVIOUS
  <2>2. d <= clock - b /\ n.t <= d
    BY <1>1, <1>2, <1>4, <2>1 DEF TInv
  <2>3. d \in Int /\ n.t \in Int
    <3>1. sampled \in Int /\ basetime \in Int
      BY Constants DEF SInv, TypeOK
    <3>2. d \in 0 .. TickMod - 1
      BY <2>1, <3>1, TickTypes
    <3> QED
      BY <1>3, <3>2, Constants DEF Node
  <2> QED
    BY <1>5, <1>6, <2>2, <2>3, ClockNumbers
<1>8. \A x \in MessagesOf(rest) : DueIn(rest, b)[x] = DueIn(sendqueue, b)[x]
  BY <1>2, <1>3, UnlinkDue DEF SInv, TypeOK
<1>9. Waiting \subseteq Messages /\ Waiting' \subseteq Messages
  <2>1. Waiting \subseteq Messages
    BY NodeMessages DEF Waiting
  <2>2. sendqueue' \in Seq(Node)
    BY DEF SInv, TypeOK
  <2>3. \A i \in 1 .. Len(sendqueue') : sendqueue'[i].msg \in Messages
    <3>1. \A i \in 1 .. Len(sendqueue') : sendqueue'[i] \in Node
      BY <2>2, NodeTimes
    <3> QED
      BY <3>1 DEF Node
  <2> QED
    BY <2>1, <2>3 DEF Waiting
<1>10. /\ Waiting' \in {Waiting, Waiting \ {n.msg}}
       /\ \A x \in Waiting \ {n.msg} : Due'[x] = Due[x]
       /\ \A x \in Messages \ {n.msg} :
            attempts'[x] = attempts[x] /\ lastSent'[x] = lastSent[x]
       /\ timeout' = timeout
       /\ n.msg \in Waiting' => attempts'[n.msg] # 1
  <2>1. CASE Exhausted(n)
    <3>1. sendqueue' = rest /\ UNCHANGED historyVars
      BY <1>1, <1>2, <2>1 DEF coap_retransmit
    <3> QED
      BY <1>3, <1>4, <1>5, <1>8, <3>1, DueMeaning DEF historyVars
  <2>2. CASE ~Exhausted(n)
    <3>1. PICK id \in {tid[n.msg]} \cup (IF SendFails THEN {InvalidTid} ELSE {}) :
            sendqueue' = coap_insert_node(rest,
              [n EXCEPT !.id = id,
                        !.retransmit_cnt = @ + 1,
                        !.t = timeout[n.msg] * Shifted[n.retransmit_cnt + 1]])
      BY <1>1, <1>2, <2>2 DEF coap_retransmit
    <3>2. /\ attempts' = [attempts EXCEPT ![n.msg] = @ + 1]
          /\ lastSent' = [lastSent EXCEPT ![n.msg] = clock]
          /\ timeout' = timeout
      BY <1>1, <1>2, <2>2 DEF coap_retransmit, Transmitted
    <3>3. PICK again :
            again = [n EXCEPT !.id = id,
                              !.retransmit_cnt = @ + 1,
                              !.t = timeout[n.msg] * Shifted[n.retransmit_cnt + 1]]
      OBVIOUS
    <3>4. again \in Node /\ again.msg = n.msg
      BY <1>3, <2>2, <3>3, AgainNode
    <3>5. PICK r : r = coap_insert_node(rest, again)
      OBVIOUS
    <3>6. again.msg \notin MessagesOf(rest)
      BY <1>3, <3>4
    <3>7. MessagesOf(r) = MessagesOf(rest) \cup {again.msg}
      BY <1>3, <3>4, <3>5, <3>6, InsertMessages
    <3>8. \A x \in MessagesOf(rest) : DueIn(r, b)[x] = DueIn(rest, b)[x]
      BY <1>3, <3>4, <3>5, <3>6, InsertDue
    <3>9. sendqueue' = r
      BY <3>1, <3>3, <3>5
    <3>10. attempts[n.msg] \in Nat \ {0} /\ attempts'[n.msg] = attempts[n.msg] + 1
      BY <1>3, <3>2, Constants DEF Tells, SInv, TypeOK
    <3>11. \A x \in Messages \ {n.msg} :
             attempts'[x] = attempts[x] /\ lastSent'[x] = lastSent[x]
      BY <3>2 DEF SInv, TypeOK
    <3>12. Waiting' = Waiting
      BY <1>3, <3>4, <3>7, <3>9, DueMeaning
    <3>13. \A x \in Waiting \ {n.msg} : Due'[x] = Due[x]
      BY <1>3, <1>4, <1>5, <1>8, <3>8, <3>9, DueMeaning
    <3> QED
      BY <3>2, <3>10, <3>11, <3>12, <3>13
  <2> QED
    BY <2>1, <2>2
<1>11. TInv'
  <2>1. \A x \in Waiting' : attempts'[x] = 1 => Due'[x] = lastSent'[x] + timeout'[x]
    BY <1>9, <1>10 DEF TInv
  <2> QED
    BY <1>1, <1>4, <1>5, <2>1 DEF TInv
<1>12. Timers!Fire(n.msg)
  BY <1>1, <1>3, <1>6, <1>7, <1>10, DueMeaning
  DEF Timers!Fire, Timers!Waiting, Timers!Untouched
<1> QED
  BY <1>3, <1>7, <1>10, <1>11, <1>12

(* An acknowledgement cancels a timer at most.                              *)
LEMMA AckTimes ==
  ASSUME SInv, SInv', TInv, NEW m \in Messages, ReadAck(m)
  PROVE  /\ TInv'
         /\ UNCHANGED <<clock, Due>> \/ \E x \in Messages : Timers!Cancel(x)
<1>1. /\ sendqueue' = coap_remove_from_queue(sendqueue, tid[m]) /\ pc' = "take"
      /\ UNCHANGED <<clock, basetime, tid, sampled, timeout, attempts, lastSent>>
  BY DEF ReadAck
<1>2. PICK b : b = Base
  OBVIOUS
<1>3. Base' = b
  BY <1>1, <1>2, BaseValue
<1>4. CASE sendqueue' = sendqueue
  <2>1. Waiting' = Waiting /\ Due' = Due
    BY <1>2, <1>3, <1>4, DueMeaning
  <2> QED
    BY <1>1, <1>2, <1>3, <1>4, <2>1 DEF TInv
<1>5. ASSUME NEW i \in 1 .. Len(sendqueue), sendqueue' = Unlink(sendqueue, i)
      PROVE  TInv' /\ \E x \in Messages : Timers!Cancel(x)
  <2>1. PICK x \in Messages : x = sendqueue[i].msg
    BY NodeMessages
  <2>2. MessagesOf(sendqueue') = MessagesOf(sendqueue) \ {x}
    BY <1>5, <2>1, UnlinkMessages DEF SInv, TypeOK
  <2>3. \A y \in MessagesOf(sendqueue) \ {x} :
          DueIn(sendqueue', b)[y] = DueIn(sendqueue, b)[y]
    BY <1>5, <2>1, UnlinkDue DEF SInv, TypeOK
  <2>4. x \in Waiting
    BY <2>1 DEF Waiting
  <2>5. Waiting' = Waiting \ {x} /\ \A y \in Waiting \ {x} : Due'[y] = Due[y]
    BY <1>2, <1>3, <2>2, <2>3, DueMeaning
  <2>6. sendqueue # <<>>
    BY EmptySeq
  <2>7. TInv'
    BY <1>1, <1>2, <1>3, <2>5, <2>6 DEF TInv
  <2>8. Timers!Cancel(x)
    BY <1>1, <2>4, <2>5, DueMeaning DEF Timers!Cancel, Timers!Waiting, Timers!Untouched
  <2> QED
    BY <2>7, <2>8
<1> QED
  BY <1>1, <1>4, <1>5, RemovedNode, NodeMessages

(* Time passes for all timers.                                              *)
LEMMA TickTimes ==
  ASSUME SInv, TInv, Tick
  PROVE  TInv' /\ Timers!Pass
<1>1. /\ clock' = clock + 1 /\ clock < MaxClock
      /\ UNCHANGED <<queueVars, tid, pc, sampled, historyVars>>
  BY DEF Tick
<1>2. Waiting' = Waiting
  BY <1>1 DEF Waiting, queueVars
<1>3. clock' \in Int /\ clock < clock' /\ clock' <= MaxClock /\ clock <= clock'
  BY <1>1, ClockNumbers
<1>4. CASE sendqueue = <<>>
  <2>1. Waiting = {} /\ sendqueue' = <<>>
    BY <1>1, <1>4, EmptySeq DEF Waiting, queueVars
  <2>2. Due' = Due
    BY <1>2, <2>1 DEF Due
  <2>3. TInv'
    BY <1>2, <1>3, <2>1, ClockNumbers DEF TInv
  <2> QED
    BY <1>3, <2>2, <2>3 DEF Timers!Pass
<1>5. CASE sendqueue # <<>>
  <2>1. Base' = Base
    BY <1>1, <1>3, <1>5, BaseStays, BaseValue DEF queueVars
  <2>2. Due' = Due
    BY <1>1, <2>1, DueMeaning DEF queueVars
  <2>3. pc' = "resend" => TickDiff(sampled', basetime') <= clock' - Base'
    <3> SUFFICES ASSUME pc = "resend"
                 PROVE  TickDiff(sampled, basetime) <= clock' - Base
      BY <1>1, <2>1 DEF queueVars
    <3>1. PICK d : d = TickDiff(sampled, basetime)
      OBVIOUS
    <3>2. d \in Int
      <4>1. sampled \in Int /\ basetime \in Int
        BY Constants DEF SInv, TypeOK
      <4>2. d \in 0 .. TickMod - 1
        BY <3>1, <4>1, TickTypes
      <4> QED
        BY <4>2, Constants
    <3>3. d <= clock - Base
      BY <1>5, <3>1 DEF TInv
    <3> QED
      BY <1>3, <1>5, <3>1, <3>2, <3>3, ClockNumbers
  <2>4. TInv'
    BY <1>1, <1>2, <1>3, <1>5, <2>1, <2>2, <2>3, ClockNumbers DEF TInv, queueVars, historyVars
  <2> QED
    BY <1>3, <2>2, <2>4 DEF Timers!Pass
<1> QED
  BY <1>4, <1>5

-----------------------------------------------------------------------------
(* The inductive invariant.                                                 *)
Inv == SInv /\ TInv

(* What each step does to the messages, to their times and to the timers.   *)
StepOK ==
  /\ Inv'
  /\ \A m \in Waiting \ Waiting' : Acked(m)' \/ attempts[m] = MaxRetransmit + 1
  /\ \A m \in Messages :
       attempts[m] = 1 /\ attempts'[m] = 2 => clock - lastSent[m] >= timeout[m]
  /\ Timers!Next \/ UNCHANGED <<clock, Due>>

LEMMA InitInvariant ==
  ASSUME Init
  PROVE  Inv
<1>1. sendqueue = <<>> /\ Len(sendqueue) = 0 /\ clock = StartClock
  BY EmptySeq DEF Init
<1>2. Waiting = {}
  BY <1>1 DEF Waiting
<1>3. TInv
  BY <1>1, <1>2, Constants DEF TInv
<1> QED
  BY <1>3, InitMessages DEF Inv

(* Steps that leave the history alone.                                      *)
LEMMA SameAttempts ==
  ASSUME attempts' = attempts
  PROVE  \A m \in Messages : ~(attempts[m] = 1 /\ attempts'[m] = 2)
OBVIOUS

LEMMA Step ==
  ASSUME Inv, [Next]_vars
  PROVE  StepOK
<1> USE DEF queueVars, historyVars
<1>1. SInv /\ TInv
  BY DEF Inv
<1>2. ASSUME NEW m \in Messages, SendRequest(m)
      PROVE  StepOK
  <2>1. SInv' /\ Waiting \subseteq Waiting'
    BY <1>1, <1>2, SendKeeps
  <2>2. TInv' /\ (Timers!Arm(m) \/ UNCHANGED <<clock, Due>>)
    BY <1>1, <1>2, <2>1, SendTimes
  <2>3. /\ attempts[m] = 0
        /\ \A x \in Messages \ {m} : attempts'[x] = attempts[x]
    <3>1. attempts[m] = 0 /\ attempts' = [attempts EXCEPT ![m] = @ + 1]
      BY <1>2 DEF SendRequest, coap_send_confirmed, Transmitted
    <3> QED
      BY <1>1, <3>1 DEF SInv, TypeOK
  <2>4. \A x \in Messages : ~(attempts[x] = 1 /\ attempts'[x] = 2)
    BY <2>3
  <2> QED
    BY <2>1, <2>2, <2>4 DEF StepOK, Inv, Timers!Next
<1>3. ASSUME NEW m \in Messages, ReadAck(m)
      PROVE  StepOK
  <2>1. SInv' /\ \A x \in Waiting \ Waiting' : Acked(x)'
    BY <1>1, <1>3, AckKeeps
  <2>2. TInv' /\ (UNCHANGED <<clock, Due>> \/ \E x \in Messages : Timers!Cancel(x))
    BY <1>1, <1>3, <2>1, AckTimes
  <2>3. attempts' = attempts
    BY <1>3 DEF ReadAck
  <2> QED
    BY <2>1, <2>2, <2>3, SameAttempts DEF StepOK, Inv, Timers!Next
<1>4. CASE Resend
  <2>1. SInv' /\ \A x \in Waiting \ Waiting' : attempts[x] = MaxRetransmit + 1
    BY <1>1, <1>4, ResendKeeps
  <2>2. TInv'
    BY <1>1, <1>4, <2>1, ResendTimes
  <2>3. PICK m \in Messages :
          /\ Timers!Fire(m) /\ Due[m] <= clock
          /\ \A x \in Messages \ {m} : attempts'[x] = attempts[x]
    BY <1>1, <1>4, <2>1, ResendTimes
  <2>4. ASSUME NEW x \in Messages, attempts[x] = 1, attempts'[x] = 2
        PROVE  clock - lastSent[x] >= timeout[x]
    <3>1. x = m
      BY <2>3, <2>4
    <3>2. m \in Waiting
      BY <2>3, DueMeaning DEF Timers!Fire, Timers!Waiting
    <3>3. Due[m] = lastSent[m] + timeout[m]
      BY <1>1, <2>4, <3>1, <3>2 DEF TInv
    <3>4. PICK t : t = timeout[m]
      OBVIOUS
    <3>5. \A y \in Timeouts \cup {0} : y \in Int
      BY Constants
    <3>6. t \in Int /\ lastSent[m] \in Int
      BY <1>1, <3>4, <3>5 DEF SInv, TypeOK
    <3> QED
      BY <1>1, <2>3, <3>1, <3>3, <3>4, <3>6, ClockNumbers
  <2> QED
    BY <2>1, <2>2, <2>3, <2>4 DEF StepOK, Inv, Timers!Next
<1>5. CASE Tick
  <2>1. TInv' /\ Timers!Pass /\ clock' \in Nat
    <3>1. clock' = clock + 1 /\ clock \in Nat
      BY <1>1, <1>5 DEF Tick, SInv, TypeOK
    <3> QED
      BY <1>1, <1>5, <3>1, TickTimes
  <2>2. SInv' /\ Waiting' = Waiting
    BY <1>1, <1>5, <2>1, QuietKeeps DEF Tick, SInv, TypeOK
  <2>3. attempts' = attempts
    BY <1>5 DEF Tick
  <2> QED
    BY <2>1, <2>2, <2>3, SameAttempts DEF StepOK, Inv, Timers!Next
<1>6. ASSUME UNCHANGED <<clock, queueVars, tid, historyVars>>,
             pc' \in {"take", "resend", "read"}, sampled' \in 0 .. TickMod - 1,
             sendqueue # <<>> /\ pc' = "resend" => TickDiff(sampled', basetime) <= clock - Base
      PROVE  StepOK
  <2>1. TInv' /\ Due' = Due
    BY <1>1, <1>6, QuietTimes
  <2>2. clock' \in Nat
    BY <1>1, <1>6 DEF SInv, TypeOK
  <2>3. SInv' /\ Waiting' = Waiting
    BY <1>1, <1>6, <2>2, QuietKeeps
  <2> QED
    BY <1>6, <2>1, <2>3, SameAttempts DEF StepOK, Inv
<1>7. CASE NoRequest
  <2>1. sampled' = (clock % TickMod) /\ sampled' \in 0 .. TickMod - 1
    <3>1. clock \in Int
      BY <1>1 DEF SInv, TypeOK
    <3> QED
      BY <1>7, <3>1, TickTypes DEF NoRequest, coap_ticks
  <2>2. sendqueue # <<>> => TickDiff(sampled', basetime) = clock - Base
    BY <1>1, <2>1, BaseStays, ClockNumbers
  <2>3. sendqueue # <<>> => clock - Base \in Int
    BY <1>1, ClockNumbers
  <2>4. sendqueue # <<>> => TickDiff(sampled', basetime) <= clock - Base
    BY <2>2, <2>3
  <2>5. UNCHANGED <<clock, queueVars, tid, historyVars>> /\ pc' = "resend"
    BY <1>7 DEF NoRequest
  <2> QED
    BY <1>6, <2>1, <2>4, <2>5
<1>8. CASE ResendDone \/ ReadOther
  <2>1. /\ UNCHANGED <<clock, queueVars, tid, historyVars>>
        /\ pc' \in {"take", "read"} /\ sampled' \in {0, sampled}
    BY <1>8 DEF ResendDone, ReadOther
  <2>2. sampled' \in 0 .. TickMod - 1
    BY <1>1, <2>1, Constants DEF SInv, TypeOK
  <2> QED
    BY <1>6, <2>1, <2>2
<1>9. CASE UNCHANGED vars
  BY <1>1, <1>6, <1>9 DEF vars, SInv, TInv, TypeOK
<1> QED
  BY <1>2, <1>3, <1>4, <1>5, <1>7, <1>8, <1>9 DEF Next, LoopStep

(* The invariant holds in all behaviours.                                   *)
LEMMA InvariantHolds == Spec => []Inv
<1>1. Init => Inv
  BY InitInvariant
<1>2. Inv /\ [Next]_vars => Inv'
  BY Step DEF StepOK
<1> QED
  BY <1>1, <1>2, PTL DEF Spec

-----------------------------------------------------------------------------
(* The variables of the queue keep their types: no relative time ever gets  *)
(* negative, although coap_insert_node and coap_remove_from_queue subtract. *)
THEOREM TypeCorrect == Spec => []TypeOK
<1>1. Inv => TypeOK
  BY DEF Inv, SInv
<1> QED
  BY <1>1, InvariantHolds, PTL

(* No message is lost from the queue or in it twice (coap_insert_node,      *)
(* coap_pop_next, coap_remove_from_queue, coap_retransmit).                 *)
THEOREM NoneLost == Spec => []SentAwaited
<1>1. ASSUME Inv
      PROVE  Cardinality(Waiting) = Len(sendqueue)
  <2>1. sendqueue \in Seq(Node) /\ OneNodeEach(sendqueue) /\ Len(sendqueue) \in Nat
    BY <1>1, LenProperties DEF Inv, SInv, TypeOK
  <2> DEFINE f == [i \in 1 .. Len(sendqueue) |-> sendqueue[i].msg]
  <2>2. f \in Bijection(1 .. Len(sendqueue), Waiting)
    <3>1. f \in [1 .. Len(sendqueue) -> Waiting]
      BY DEF Waiting
    <3>2. \A i, j \in 1 .. Len(sendqueue) : f[i] = f[j] => i = j
      BY <2>1 DEF OneNodeEach
    <3>3. \A m \in Waiting : \E i \in 1 .. Len(sendqueue) : f[i] = m
      BY DEF Waiting
    <3> HIDE DEF f
    <3> QED
      BY <3>1, <3>2, <3>3 DEF Bijection, Injection, Surjection, IsInjective
  <2>3. ExistsBijection(1 .. Len(sendqueue), Waiting)
    BY <2>2 DEF ExistsBijection
  <2> QED
    BY <2>1, <2>3, FS_CountingElements
<1>2. Inv => SentAwaited
  BY <1>1 DEF Inv, SInv, SentAwaited
<1> QED
  BY <1>2, InvariantHolds, PTL

(* A message is given up only after all its retransmissions                 *)
(* (coap_retransmit); otherwise an acknowledgement with its id took it.     *)
THEOREM GivenUpLast == Spec => GivenUpExhausted
<1>1. Inv /\ [Next]_vars =>
        [\A m \in Waiting \ Waiting' : Acked(m)' \/ attempts[m] = MaxRetransmit + 1]_vars
  BY Step DEF StepOK
<1> QED
  BY <1>1, InvariantHolds, PTL DEF Spec, GivenUpExhausted

(* No first retransmission comes before the timeout that was drawn, for any *)
(* base time and across the wrap of the tick counter.                       *)
THEOREM FirstTimeoutHolds == Spec => FirstTimeoutKept
<1>1. Inv /\ [Next]_vars =>
        [\A m \in Messages : attempts[m] = 1 /\ attempts'[m] = 2
                               => clock - lastSent[m] >= timeout[m]]_vars
  BY Step DEF StepOK
<1> QED
  BY <1>1, InvariantHolds, PTL DEF Spec, FirstTimeoutKept

(* The send queue, its relative times counted from an old base and wrapping *)
(* ticks, implements one timer for each message.                            *)
THEOREM QueueIsTimers == Spec => ImplementsTimers
<1>1. Init => Timers!Init
  <2> SUFFICES ASSUME Init PROVE Timers!Init
    OBVIOUS
  <2>1. clock \in Nat /\ sendqueue = <<>> /\ Len(sendqueue) = 0
    BY Constants, EmptySeq DEF Init
  <2>2. Waiting = {}
    BY <2>1 DEF Waiting
  <2> QED
    BY <2>1, <2>2 DEF Timers!Init, Due
<1>2. Inv /\ [Next]_vars => [Timers!Next]_<<clock, Due>>
  BY Step DEF StepOK
<1> QED
  BY <1>1, <1>2, InvariantHolds, PTL DEF Spec, ImplementsTimers, Timers!Spec
=============================================================================
