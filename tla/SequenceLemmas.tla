---------------------------- MODULE SequenceLemmas ----------------------------
(***************************************************************************)
(* What the list and queue operations of the gateway do to a sequence and  *)
(* to the set of its elements; quotients and remainders; and induction,    *)
(* for what is defined by recursion over a sequence.                       *)
(***************************************************************************)
EXTENDS Integers, SequencesExt, SequenceTheorems, WellFoundedInduction, TLAPS

(* Removing element i of a sequence (LL_DELETE) leaves its other elements, *)
(* in their order.                                                         *)
LEMMA RemoveAtProperties ==
  ASSUME NEW S, NEW s \in Seq(S), NEW i \in 1 .. Len(s)
  PROVE  /\ RemoveAt(s, i) \in Seq(S)
         /\ Len(RemoveAt(s, i)) = Len(s) - 1
         /\ \A j \in 1 .. Len(s) - 1 :
              RemoveAt(s, i)[j] = IF j < i THEN s[j] ELSE s[j + 1]
<1> DEFINE front == SubSeq(s, 1, i - 1)
           back  == SubSeq(s, i + 1, Len(s))
<1>1. /\ Len(s) \in Nat /\ i \in Nat /\ 1 <= i /\ i <= Len(s)
  BY LenProperties
<1>2. /\ front \in Seq(S) /\ Len(front) = i - 1
      /\ \A j \in 1 .. i - 1 : front[j] = s[j]
  BY <1>1, SubSeqProperties
<1>3. /\ back \in Seq(S) /\ Len(back) = Len(s) - i
      /\ \A j \in 1 .. Len(s) - i : back[j] = s[i + j]
  BY <1>1, SubSeqProperties
<1> HIDE DEF front, back
<1>4. /\ front \o back \in Seq(S)
      /\ Len(front \o back) = Len(s) - 1
      /\ \A j \in 1 .. Len(s) - 1 :
           (front \o back)[j] = IF j <= i - 1 THEN front[j] ELSE back[j - (i - 1)]
  <2>1. Len(front) + Len(back) = Len(s) - 1
    BY <1>1, <1>2, <1>3
  <2>2. /\ front \o back \in Seq(S)
        /\ Len(front \o back) = Len(front) + Len(back)
        /\ \A j \in 1 .. Len(front) + Len(back) :
             (front \o back)[j] =
               IF j <= Len(front) THEN front[j] ELSE back[j - Len(front)]
    <3>1. front \in Seq(S) /\ back \in Seq(S)
      BY <1>2, <1>3
    <3> QED
      BY <3>1, ConcatProperties, Zenon
  <2>3. Len(front) = i - 1
    BY <1>2
  <2> QED
    BY <2>1, <2>2, <2>3
<1>5. ASSUME NEW j \in 1 .. Len(s) - 1
      PROVE  (front \o back)[j] = IF j < i THEN s[j] ELSE s[j + 1]
  <2>1. CASE j < i
    <3>1. j \in 1 .. i - 1 /\ j <= i - 1
      BY <2>1, <1>1
    <3> QED
      BY <2>1, <3>1, <1>2, <1>4
  <2>2. CASE ~(j < i)
    <3>1. j - (i - 1) \in 1 .. Len(s) - i
      BY <2>2, <1>1
    <3>2. back[j - (i - 1)] = s[i + (j - (i - 1))]
      BY <3>1, <1>3
    <3>3. i + (j - (i - 1)) = j + 1
      BY <1>1
    <3> QED
      BY <2>2, <3>2, <3>3, <1>1, <1>4
  <2> QED
    BY <2>1, <2>2
<1> QED
  BY <1>4, <1>5 DEF RemoveAt, front, back

-----------------------------------------------------------------------------
(* LL_APPEND and mq_send add one element to those that are there. *)
LEMMA AppendSet ==
  ASSUME NEW S, NEW s \in Seq(S), NEW e \in S
  PROVE  ToSet(Append(s, e)) = ToSet(s) \cup {e}
<1>1. /\ Append(s, e) \in Seq(S) /\ Len(Append(s, e)) = Len(s) + 1
      /\ \A i \in 1 .. Len(s) : Append(s, e)[i] = s[i]
      /\ Append(s, e)[Len(s) + 1] = e
  BY AppendProperties
<1>2. Len(s) \in Nat /\ DOMAIN s = 1 .. Len(s) /\ DOMAIN Append(s, e) = 1 .. Len(s) + 1
  BY <1>1, LenProperties
<1> QED
  BY <1>1, <1>2 DEF ToSet

(* A new element appended to a sequence without repetitions. *)
LEMMA AppendInjectiveSeq ==
  ASSUME NEW S, NEW s \in Seq(S), NEW e \in S, IsInjective(s), e \notin ToSet(s)
  PROVE  IsInjective(Append(s, e))
<1>1. /\ Append(s, e) \in Seq(S) /\ Len(Append(s, e)) = Len(s) + 1
      /\ \A i \in 1 .. Len(s) : Append(s, e)[i] = s[i]
      /\ Append(s, e)[Len(s) + 1] = e
  BY AppendProperties
<1>2. Len(s) \in Nat /\ DOMAIN s = 1 .. Len(s) /\ DOMAIN Append(s, e) = 1 .. Len(s) + 1
  BY <1>1, LenProperties
<1> QED
  BY <1>1, <1>2 DEF ToSet, IsInjective

(* mq_timedreceive takes the head out, and it is not in the queue twice. *)
LEMMA TailSet ==
  ASSUME NEW S, NEW s \in Seq(S), s # <<>>, IsInjective(s)
  PROVE  /\ ToSet(Tail(s)) = ToSet(s) \ {Head(s)}
         /\ Head(s) \in ToSet(s)
         /\ IsInjective(Tail(s))
<1>1. /\ Tail(s) \in Seq(S) /\ Len(Tail(s)) = Len(s) - 1
      /\ \A i \in 1 .. Len(Tail(s)) : Tail(s)[i] = s[i + 1]
      /\ Head(s) = s[1]
  BY HeadTailProperties
<1>2. Len(s) \in Nat /\ Len(s) >= 1 /\ DOMAIN s = 1 .. Len(s)
      /\ DOMAIN Tail(s) = 1 .. Len(s) - 1
  BY <1>1, LenProperties, EmptySeq
<1>3. ASSUME NEW x \in ToSet(s), x # Head(s)
      PROVE  x \in ToSet(Tail(s))
  <2>1. PICK i \in 1 .. Len(s) : s[i] = x
    BY <1>2, <1>3 DEF ToSet
  <2>2. i - 1 \in 1 .. Len(s) - 1 /\ (i - 1) + 1 = i
    BY <2>1, <1>1, <1>2, <1>3
  <2>3. Tail(s)[i - 1] = x
    BY <2>1, <2>2, <1>1
  <2> QED
    BY <2>2, <2>3, <1>2 DEF ToSet
<1>4. ASSUME NEW i \in 1 .. Len(s) - 1
      PROVE  Tail(s)[i] \in ToSet(s) /\ Tail(s)[i] # Head(s)
  BY <1>1, <1>2 DEF ToSet, IsInjective
<1>5. IsInjective(Tail(s))
  BY <1>1, <1>2 DEF IsInjective
<1>6. Head(s) \in ToSet(s)
  BY <1>1, <1>2 DEF ToSet
<1>7. ToSet(Tail(s)) \subseteq ToSet(s) \ {Head(s)}
  BY <1>2, <1>4 DEF ToSet
<1> QED
  BY <1>3, <1>5, <1>6, <1>7

(* LL_DELETE takes exactly its element out. *)
LEMMA RemoveAtSet ==
  ASSUME NEW S, NEW s \in Seq(S), NEW i \in 1 .. Len(s), IsInjective(s)
  PROVE  /\ ToSet(RemoveAt(s, i)) = ToSet(s) \ {s[i]}
         /\ IsInjective(RemoveAt(s, i))
<1> DEFINE t == RemoveAt(s, i)
<1>1. /\ t \in Seq(S) /\ Len(t) = Len(s) - 1
      /\ \A j \in 1 .. Len(s) - 1 : t[j] = IF j < i THEN s[j] ELSE s[j + 1]
  BY RemoveAtProperties
<1> HIDE DEF t
<1>2. Len(s) \in Nat /\ DOMAIN s = 1 .. Len(s) /\ DOMAIN t = 1 .. Len(s) - 1 /\ i \in Nat
  BY <1>1, LenProperties
<1>3. ASSUME NEW x \in ToSet(s), x # s[i]
      PROVE  x \in ToSet(t)
  <2>1. PICK j \in 1 .. Len(s) : s[j] = x /\ j # i
    BY <1>2, <1>3 DEF ToSet
  <2>2. CASE j < i
    <3>1. j \in 1 .. Len(s) - 1
      BY <2>1, <2>2, <1>2
    <3>2. t[j] = x
      BY <3>1, <2>1, <2>2, <1>1
    <3> QED
      BY <3>1, <3>2, <1>2 DEF ToSet
  <2>3. CASE j > i
    <3>1. j - 1 \in 1 .. Len(s) - 1 /\ ~(j - 1 < i) /\ (j - 1) + 1 = j
      BY <2>1, <2>3, <1>2
    <3>2. t[j - 1] = x
      BY <3>1, <2>1, <1>1
    <3> QED
      BY <3>1, <3>2, <1>2 DEF ToSet
  <2> QED
    BY <2>1, <2>2, <2>3, <1>2
<1>4. ASSUME NEW j \in 1 .. Len(s) - 1
      PROVE  t[j] \in ToSet(s) /\ t[j] # s[i]
  <2>1. j \in 1 .. Len(s) /\ j + 1 \in 1 .. Len(s) /\ (j < i => j # i)
        /\ (~(j < i) => j + 1 # i)
    BY <1>2
  <2> QED
    BY <2>1, <1>1, <1>2 DEF ToSet, IsInjective
<1>5. IsInjective(t)
  BY <1>1, <1>2 DEF IsInjective
<1>6. ToSet(t) \subseteq ToSet(s) \ {s[i]}
  BY <1>2, <1>4 DEF ToSet
<1> QED
  BY <1>3, <1>5, <1>6 DEF t

-----------------------------------------------------------------------------
(* Quotient and remainder, whatever the divisor. *)
LEMMA Division ==
  ASSUME NEW a \in Int, NEW b \in Nat \ {0}
  PROVE  /\ a \div b \in Int /\ a % b \in 0 .. b - 1
         /\ a = b * (a \div b) + (a % b)
<1>1. a \div b \in Int
  BY SMT
<1>2. a % b \in 0 .. b - 1
  BY SMT
<1>3. a = b * (a \div b) + (a % b)
  BY SMT
<1> QED
  BY <1>1, <1>2, <1>3

(* They are determined by each other. *)
LEMMA DivisionUnique ==
  ASSUME NEW b \in Nat \ {0}, NEW q \in Int, NEW p \in Int,
         NEW r \in 0 .. b - 1, NEW s \in 0 .. b - 1, b * q + r = b * p + s
  PROVE  q = p /\ r = s
<1>1. ASSUME NEW x \in Int, NEW y \in Int, NEW u \in 0 .. b - 1, NEW v \in 0 .. b - 1,
             b * x + u = b * y + v, x < y
      PROVE  FALSE
  <2>1. y = x + 1 + (y - x - 1) /\ y - x - 1 \in Nat
    BY <1>1
  <2>2. PICK d \in Nat : d = y - x - 1
    BY <2>1
  <2>3. b * y = b * x + b + b * d
    <3>1. y = x + 1 + d
      BY <2>1, <2>2
    <3>2. b * (x + 1 + d) = b * x + b + b * d
      BY <1>1, <2>2
    <3> QED
      BY <3>1, <3>2
  <2>4. b * d \in Nat
    BY <2>2
  <2>5. b * x \in Int
    BY <1>1
  <2> QED
    BY <1>1, <2>3, <2>4, <2>5
<1>2. q = p
  <2>1. ~(q < p)
    BY <1>1
  <2>2. ~(p < q)
    BY <1>1
  <2> QED
    BY <2>1, <2>2
<1>3. b * q \in Int
  OBVIOUS
<1> QED
  BY <1>2, <1>3

(* So a quotient is known by its remainder. *)
LEMMA QuotientIs ==
  ASSUME NEW a \in Int, NEW b \in Nat \ {0}, NEW q \in Int, NEW r \in 0 .. b - 1, a = b * q + r
  PROVE  a \div b = q
<1>1. PICK p, s : p = a \div b /\ s = a % b
  OBVIOUS
<1>2. p \in Int /\ s \in 0 .. b - 1 /\ a = b * p + s
  BY <1>1, Division
<1>3. q = p
  <2>1. b * q + r = b * p + s
    BY <1>2
  <2> QED
    BY <1>2, <2>1, DivisionUnique
<1> QED
  BY <1>1, <1>3

-----------------------------------------------------------------------------
(* Every set of natural numbers that is not empty has a least element. *)
LEMMA LeastNatural ==
  ASSUME NEW T, T \subseteq Nat, T # {}
  PROVE  \E x \in T : \A y \in T : x <= y
<1>1. IsWellFoundedOn(OpToRel(<, Nat), Nat)
  BY NatLessThanWellFounded
<1>2. PICK x \in T : \A y \in T : ~ (<<y, x>> \in OpToRel(<, Nat))
  BY <1>1, WFMin
<1>3. \A y \in T : ~ (y < x)
  BY <1>2 DEF OpToRel
<1> QED
  BY <1>3

(* Induction, for a set in place of a predicate. *)
LEMMA SetInduction ==
  ASSUME NEW T, 0 \in T, \A n \in Nat : n \in T => n + 1 \in T
  PROVE  Nat \subseteq T
<1> SUFFICES ASSUME Nat \ T # {}
             PROVE  FALSE
  OBVIOUS
<1>1. PICK x \in Nat \ T : \A y \in Nat \ T : x <= y
  BY LeastNatural
<1>2. x # 0 /\ x - 1 \in Nat /\ x - 1 \in T
  BY <1>1
<1> QED
  BY <1>1, <1>2

(* g is what the steps f make of z, one after the other. *)
Iterates(g, n, z, f, S) ==
  g \in [0 .. n -> S] /\ g[0] = z /\ \A k \in 1 .. n : g[k] = f[k][g[k - 1]]

Steps(n, S) == [1 .. n -> [S -> S]]

(* A function defined by recursion up to n exists. *)
LEMMA RecursionExists ==
  ASSUME NEW S, NEW z \in S, NEW n \in Nat, NEW f \in Steps(n, S)
  PROVE  \E g : Iterates(g, n, z, f, S)
<1> DEFINE Upto(m, g) == g[0] = z /\ \A k \in 1 .. m : g[k] = f[k][g[k - 1]]
           T == {m \in Nat : m <= n => \E g \in [0 .. m -> S] : Upto(m, g)}
<1>0. f \in [1 .. n -> [S -> S]]
  BY DEF Steps
<1>1. 0 \in T
  <2>1. [k \in 0 .. 0 |-> z] \in [0 .. 0 -> S] /\ Upto(0, [k \in 0 .. 0 |-> z])
    OBVIOUS
  <2> QED
    BY <2>1
<1>2. ASSUME NEW m \in Nat, m \in T
      PROVE  m + 1 \in T
  <2> SUFFICES ASSUME m + 1 <= n
               PROVE  \E g \in [0 .. m + 1 -> S] : Upto(m + 1, g)
    OBVIOUS
  <2>1. PICK g \in [0 .. m -> S] : Upto(m, g)
    BY <1>2
  <2>2. PICK h : h = [k \in 0 .. m + 1 |-> IF k = m + 1 THEN f[m + 1][g[m]] ELSE g[k]]
    OBVIOUS
  <2>3. f[m + 1][g[m]] \in S
    <3>1. g[m] \in S /\ m + 1 \in 1 .. n
      BY <2>1
    <3> QED
      BY <1>0, <3>1
  <2>4. h \in [0 .. m + 1 -> S]
    BY <2>1, <2>2, <2>3
  <2>5. \A k \in 0 .. m : h[k] = g[k]
    BY <2>2
  <2>6. h[m + 1] = f[m + 1][h[m]]
    BY <2>2, <2>5
  <2>7. Upto(m + 1, h)
    <3>1. h[0] = z
      BY <2>1, <2>5
    <3>2. ASSUME NEW k \in 1 .. m + 1
          PROVE  h[k] = f[k][h[k - 1]]
      <4>1. CASE k = m + 1
        BY <2>6, <4>1
      <4>2. CASE k \in 1 .. m
        <5>1. k \in 0 .. m /\ k - 1 \in 0 .. m
          BY <4>2
        <5>2. h[k] = g[k] /\ h[k - 1] = g[k - 1]
          BY <2>5, <5>1
        <5> QED
          BY <2>1, <4>2, <5>2
      <4> QED
        BY <4>1, <4>2
    <3> QED
      BY <3>1, <3>2
  <2> QED
    BY <2>4, <2>7
<1> HIDE DEF T
<1>3. n \in T
  BY <1>1, <1>2, SetInduction
<1> QED
  BY <1>3 DEF T, Iterates

IsGeometric(g, b, n) == g = [k \in 0 .. n |-> IF k = 0 THEN 1 ELSE b * g[k - 1]]

(* The powers of b up to n, as the recursive definition chooses them. *)
LEMMA Geometric ==
  ASSUME NEW b \in Nat \ {0}, NEW n \in Nat, NEW P, P = CHOOSE g : IsGeometric(g, b, n)
  PROVE  /\ P \in [0 .. n -> Nat \ {0}]
         /\ P[0] = 1
         /\ \A k \in 1 .. n : P[k] = b * P[k - 1]
<1>1. \E g : IsGeometric(g, b, n)
  <2>1. PICK f : f = [k \in 1 .. n |-> [x \in Int |-> b * x]]
    OBVIOUS
  <2>2. PICK g : Iterates(g, n, 1, f, Int)
    <3>1. 1 \in Int /\ f \in Steps(n, Int)
      <4>1. \A x \in Int : b * x \in Int
        OBVIOUS
      <4> QED
        BY <2>1, <4>1 DEF Steps
    <3> QED
      BY <3>1, RecursionExists
  <2>3. g \in [0 .. n -> Int] /\ g[0] = 1 /\ \A k \in 1 .. n : g[k] = f[k][g[k - 1]]
    BY <2>2 DEF Iterates
  <2>4. \A k \in 1 .. n : g[k] = b * g[k - 1]
    <3> TAKE k \in 1 .. n
    <3>1. g[k - 1] \in Int
      BY <2>3
    <3>2. f[k][g[k - 1]] = b * g[k - 1]
      BY <2>1, <3>1
    <3> QED
      BY <2>3, <3>2
  <2>5. \A k \in 0 .. n : g[k] = IF k = 0 THEN 1 ELSE b * g[k - 1]
    BY <2>3, <2>4
  <2>6. g = [k \in 0 .. n |-> g[k]]
    BY <2>3
  <2> QED
    BY <2>5, <2>6 DEF IsGeometric
<1>2. P = [k \in 0 .. n |-> IF k = 0 THEN 1 ELSE b * P[k - 1]]
  BY <1>1 DEF IsGeometric
<1>3. P[0] = 1 /\ \A k \in 1 .. n : P[k] = b * P[k - 1]
  <2>1. \A k \in 0 .. n : P[k] = IF k = 0 THEN 1 ELSE b * P[k - 1]
    BY <1>2, Zenon
  <2>2. 0 \in 0 .. n /\ \A k \in 1 .. n : k \in 0 .. n /\ k # 0
    OBVIOUS
  <2> QED
    BY <2>1, <2>2, Zenon
<1> DEFINE T == {k \in Nat : k <= n => P[k] \in Nat \ {0}}
<1>4. 0 \in T
  BY <1>3
<1>5. ASSUME NEW k \in Nat, k \in T
      PROVE  k + 1 \in T
  <2> SUFFICES ASSUME k + 1 <= n PROVE P[k + 1] \in Nat \ {0}
    OBVIOUS
  <2>0. P[k] \in Nat \ {0}
    BY <1>5
  <2>1. PICK p \in Nat \ {0} : p = P[k]
    BY <2>0, Zenon
  <2>2. b * p \in Nat \ {0}
    OBVIOUS
  <2>3. k + 1 \in 1 .. n /\ (k + 1) - 1 = k
    OBVIOUS
  <2>4. P[k + 1] = b * P[k]
    BY <1>3, <2>3
  <2> QED
    BY <2>1, <2>2, <2>4
<1> HIDE DEF T
<1>6. Nat \subseteq T
  BY <1>4, <1>5, SetInduction
<1>7. \A k \in 0 .. n : P[k] \in Nat \ {0}
  BY <1>6 DEF T
<1>8. P = [k \in 0 .. n |-> P[k]]
  BY <1>2, Zenon
<1>9. P \in [0 .. n -> Nat \ {0}]
  BY <1>7, <1>8
<1> QED
  BY <1>3, <1>9
=============================================================================
