----------------------------- MODULE UtHash_proofs -----------------------------
(***************************************************************************)
(* The hash table of uthash.h for any items, hash values and thresholds:   *)
(* the buckets and the list in application order hold exactly the items    *)
(* that were added and not deleted, whatever the table grew by, so that a  *)
(* key is found exactly while it is in the table, and the table stops to   *)
(* grow only where that does not help.                                     *)
(*                                                                         *)
(* The first part is about open lists, doubly linked and with NIL at both  *)
(* ends, and what the macros do to their pointers; the second about the    *)
(* buckets of one table; the third about the calls.                        *)
(***************************************************************************)
EXTENDS UtHash, SequenceLemmas, FiniteSetTheorems

Pointer == Items \cup {NIL}

-----------------------------------------------------------------------------
(* next and prev link the sequence s, from the head on. *)
Open(hd, nx, pv, s) ==
  /\ hd = IF Len(s) = 0 THEN NIL ELSE s[1]
  /\ \A k \in 1 .. Len(s) : nx[s[k]] = IF k < Len(s) THEN s[k + 1] ELSE NIL
  /\ \A k \in 1 .. Len(s) : pv[s[k]] = IF k > 1 THEN s[k - 1] ELSE NIL

(* A sequence of items without repetitions. *)
Distinct(s) == s \in Seq(Items) /\ IsInjective(s)

(* What is assumed of the constants. *)
LEMMA ItemFacts == NIL \notin Items /\ IsFiniteSet(Items) /\ InitialBuckets \in Nat \ {0}
  BY HashAssumption DEF NIL

(* The elements of such a sequence. *)
LEMMA Elements ==
  ASSUME NEW s, Distinct(s)
  PROVE  /\ Len(s) \in Nat /\ DOMAIN s = 1 .. Len(s)
         /\ \A i \in 1 .. Len(s) : s[i] \in Items /\ s[i] # NIL
         /\ \A i, j \in 1 .. Len(s) : s[i] = s[j] => i = j
         /\ \A x : x \in ToSet(s) <=> \E i \in 1 .. Len(s) : s[i] = x
         /\ s = <<>> <=> Len(s) = 0
<1>0. s \in Seq(Items) /\ IsInjective(s)
  BY DEF Distinct
<1>1. Len(s) \in Nat /\ DOMAIN s = 1 .. Len(s)
  BY <1>0, LenProperties
<1>2. \A i \in 1 .. Len(s) : s[i] \in Items
  BY <1>0, ElementOfSeq
<1>3. \A i \in 1 .. Len(s) : s[i] # NIL
  BY <1>2, ItemFacts
<1>4. s = <<>> <=> Len(s) = 0
  BY <1>0, EmptySeq
<1> QED
  BY <1>0, <1>1, <1>2, <1>3, <1>4 DEF ToSet, IsInjective

(* The empty list. *)
LEMMA NoneOpen ==
  /\ Distinct(<<>>) /\ ToSet(<<>>) = {} /\ Len(<<>>) = 0
  /\ \A nx, pv : Open(NIL, nx, pv, <<>>)
<1>1. <<>> \in Seq(Items) /\ Len(<<>>) = 0 /\ DOMAIN <<>> = {}
  OBVIOUS
<1>2. IsInjective(<<>>) /\ ToSet(<<>>) = {}
  BY <1>1 DEF IsInjective, ToSet
<1>3. \A nx, pv : Open(NIL, nx, pv, <<>>)
  BY <1>1 DEF Open
<1> QED
  BY <1>1, <1>2, <1>3 DEF Distinct

(* t is s with a new element in front. *)
Prepends(t, e, s) == Distinct(s) /\ e \in Items /\ e \notin ToSet(s) /\ t = <<e>> \o s

(* What it is then. *)
LEMMA Prepend ==
  ASSUME NEW s, NEW e, NEW t, Prepends(t, e, s)
  PROVE  /\ Distinct(t) /\ Len(t) = Len(s) + 1 /\ t[1] = e
         /\ \A i \in 2 .. Len(s) + 1 : t[i] = s[i - 1]
         /\ ToSet(t) = ToSet(s) \cup {e}
<1>0. Distinct(s) /\ e \in Items /\ e \notin ToSet(s) /\ t = <<e>> \o s
  BY DEF Prepends
<1> USE <1>0
<1>1. <<e>> \in Seq(Items) /\ Len(<<e>>) = 1 /\ <<e>>[1] = e
  BY LenProperties
<1>2. PICK n \in Nat : n = Len(s)
  BY Elements
<1>3. /\ t \in Seq(Items) /\ Len(t) = 1 + n
      /\ \A i \in 1 .. 1 + n : t[i] = IF i <= 1 THEN <<e>>[i] ELSE s[i - 1]
  BY <1>1, <1>2, ConcatProperties DEF Distinct
<1>4. t[1] = e /\ \A i \in 2 .. n + 1 : t[i] = s[i - 1]
  BY <1>1, <1>3
<1>5. \A i \in 1 .. n : s[i] # e
  BY <1>2, Elements
<1>6. ASSUME NEW i \in 1 .. n + 1, NEW j \in 1 .. n + 1, t[i] = t[j] PROVE i = j
  <2>0. ASSUME NEW m \in 1 .. n + 1, m # 1
        PROVE  \E l \in 1 .. n : l = m - 1 /\ m = l + 1 /\ t[m] = s[l] /\ t[m] # e
    <3>1. PICK l \in 1 .. n : l = m - 1 /\ m = l + 1
      BY <2>0
    <3>2. m \in 2 .. n + 1
      BY <2>0
    <3> QED
      BY <1>4, <1>5, <3>1, <3>2
  <2>1. CASE i = 1 \/ j = 1
    BY <1>4, <1>6, <2>0, <2>1
  <2>2. CASE i # 1 /\ j # 1
    <3>1. PICK k \in 1 .. n : i = k + 1 /\ t[i] = s[k]
      BY <2>0, <2>2
    <3>2. PICK l \in 1 .. n : j = l + 1 /\ t[j] = s[l]
      BY <2>0, <2>2
    <3>3. k = l
      BY <1>2, <1>6, <3>1, <3>2, Elements
    <3> QED
      BY <3>1, <3>2, <3>3
  <2> QED
    BY <2>1, <2>2
<1>7. DOMAIN t = 1 .. n + 1
  BY <1>3, LenProperties
<1>8. IsInjective(t)
  BY <1>6, <1>7 DEF IsInjective
<1>9. ToSet(t) = ToSet(s) \cup {e}
  <2>1. \A x : x \in ToSet(t) <=> \E i \in 1 .. n + 1 : t[i] = x
    BY <1>7 DEF ToSet
  <2>2. \A x : x \in ToSet(s) <=> \E i \in 1 .. n : s[i] = x
    BY <1>2, Elements
  <2>3. ASSUME NEW i \in 1 .. n + 1 PROVE t[i] \in ToSet(s) \cup {e}
    <3>1. ASSUME i # 1 PROVE \E l \in 1 .. n : t[i] = s[l]
      <4>1. i \in 2 .. n + 1
        BY <3>1
      <4>2. PICK l \in 1 .. n : l = i - 1
        BY <4>1
      <4> QED
        BY <1>4, <4>1, <4>2
    <3> QED
      BY <1>4, <2>2, <3>1
  <2>4. ASSUME NEW i \in 1 .. n PROVE s[i] \in ToSet(t)
    <3>1. i + 1 \in 2 .. n + 1 /\ i + 1 \in 1 .. n + 1 /\ (i + 1) - 1 = i
      OBVIOUS
    <3>2. t[i + 1] = s[i]
      BY <1>4, <3>1
    <3> QED
      BY <2>1, <3>1, <3>2
  <2>5. 1 \in 1 .. n + 1
    OBVIOUS
  <2>6. ToSet(t) \subseteq ToSet(s) \cup {e}
    BY <2>1, <2>3
  <2>7. ToSet(s) \subseteq ToSet(t)
    BY <2>2, <2>4
  <2>8. e \in ToSet(t)
    BY <1>4, <2>1, <2>5
  <2> QED
    BY <2>6, <2>7, <2>8
<1> QED
  BY <1>2, <1>3, <1>4, <1>8, <1>9 DEF Distinct

(* What a macro has to do to the pointers to put e in front, *)
LEMMA OpenFront ==
  ASSUME NEW s, Distinct(s), NEW hd, NEW nx, NEW pv, Open(hd, nx, pv, s),
         NEW e \in Items, e \notin ToSet(s), NEW nxt, NEW prv,
         nxt[e] = hd, \A k \in 1 .. Len(s) : nxt[s[k]] = nx[s[k]],
         prv[e] = NIL, \A k \in 1 .. Len(s) : prv[s[k]] = IF k = 1 THEN e ELSE pv[s[k]]
  PROVE  Open(e, nxt, prv, <<e>> \o s)
<1>0. PICK t : t = <<e>> \o s
  OBVIOUS
<1>1. PICK n \in Nat : n = Len(s)
  BY Elements
<1>2. /\ Len(t) = n + 1 /\ t[1] = e
      /\ \A i \in 2 .. n + 1 : t[i] = s[i - 1]
  BY <1>0, <1>1, Prepend
<1>3. /\ hd = IF n = 0 THEN NIL ELSE s[1]
      /\ \A k \in 1 .. n : nx[s[k]] = IF k < n THEN s[k + 1] ELSE NIL
      /\ \A k \in 1 .. n : pv[s[k]] = IF k > 1 THEN s[k - 1] ELSE NIL
  BY <1>1 DEF Open
<1>4. ASSUME NEW i \in 1 .. n + 1
      PROVE  /\ nxt[t[i]] = IF i < n + 1 THEN t[i + 1] ELSE NIL
             /\ prv[t[i]] = IF i > 1 THEN t[i - 1] ELSE NIL
  <2>1. CASE i = 1
    <3>1. n # 0 => 2 \in 2 .. n + 1 /\ t[2] = s[1]
      BY <1>2
    <3> QED
      BY <1>2, <1>3, <2>1, <3>1
  <2>2. CASE i # 1
    <3>1. PICK j \in 1 .. n : j = i - 1 /\ i = j + 1
      BY <2>2
    <3>2. t[i] = s[j]
      BY <1>2, <2>2, <3>1
    <3>3. nxt[t[i]] = IF j < n THEN s[j + 1] ELSE NIL
      BY <1>1, <1>3, <3>2
    <3>4. prv[t[i]] = IF j = 1 THEN e ELSE IF j > 1 THEN s[j - 1] ELSE NIL
      BY <1>1, <1>3, <3>2
    <3>5. j < n => t[i + 1] = s[j + 1]
      BY <1>2, <3>1
    <3>6. j > 1 => t[i - 1] = s[j - 1]
      BY <1>2, <3>1
    <3>7. j = 1 => t[i - 1] = e
      BY <1>2, <3>1
    <3>8. nxt[t[i]] = IF i < n + 1 THEN t[i + 1] ELSE NIL
      <4>1. j < n <=> i < n + 1
        BY <3>1
      <4> QED
        BY <3>3, <3>5, <4>1
    <3>9. prv[t[i]] = t[i - 1] /\ i > 1
      <4>1. i > 1 /\ (j = 1 \/ j > 1)
        BY <3>1
      <4>2. CASE j = 1
        BY <3>4, <3>7, <4>1, <4>2
      <4>3. CASE j # 1
        BY <3>4, <3>6, <4>1, <4>3
      <4> QED
        BY <4>2, <4>3
    <3> QED
      BY <3>8, <3>9
  <2> QED
    BY <2>1, <2>2
<1>5. Open(e, nxt, prv, t)
  BY <1>2, <1>4 DEF Open
<1> QED
  BY <1>0, <1>5

(* at the end of a list that is not empty, *)
LEMMA OpenBack ==
  ASSUME NEW s, Distinct(s), Len(s) # 0, NEW hd, NEW nx, NEW pv, Open(hd, nx, pv, s),
         NEW e \in Items, e \notin ToSet(s), NEW nxt, NEW prv,
         nxt[e] = NIL, \A k \in 1 .. Len(s) : nxt[s[k]] = IF k = Len(s) THEN e ELSE nx[s[k]],
         prv[e] = s[Len(s)], \A k \in 1 .. Len(s) : prv[s[k]] = pv[s[k]]
  PROVE  Open(hd, nxt, prv, Append(s, e))
<1>0. PICK t : t = Append(s, e)
  OBVIOUS
<1>1. PICK n \in Nat \ {0} : n = Len(s)
  BY Elements
<1>2. Len(t) = n + 1 /\ t[n + 1] = e /\ \A i \in 1 .. n : t[i] = s[i]
  BY <1>0, <1>1, AppendProperties DEF Distinct
<1>3. /\ hd = s[1]
      /\ \A k \in 1 .. n : nx[s[k]] = IF k < n THEN s[k + 1] ELSE NIL
      /\ \A k \in 1 .. n : pv[s[k]] = IF k > 1 THEN s[k - 1] ELSE NIL
  BY <1>1 DEF Open
<1>4. ASSUME NEW i \in 1 .. n + 1
      PROVE  /\ nxt[t[i]] = IF i < n + 1 THEN t[i + 1] ELSE NIL
             /\ prv[t[i]] = IF i > 1 THEN t[i - 1] ELSE NIL
  <2>1. CASE i = n + 1
    BY <1>1, <1>2, <2>1
  <2>2. CASE i # n + 1
    <3>1. i \in 1 .. n /\ t[i] = s[i] /\ i < n + 1
      BY <1>2, <2>2
    <3>2. nxt[t[i]] = IF i = n THEN e ELSE IF i < n THEN s[i + 1] ELSE NIL
      BY <1>1, <1>3, <3>1
    <3>3. prv[t[i]] = IF i > 1 THEN s[i - 1] ELSE NIL
      BY <1>1, <1>3, <3>1
    <3>4. /\ i < n => t[i + 1] = s[i + 1]
          /\ i > 1 => t[i - 1] = s[i - 1]
      BY <1>2, <3>1
    <3>5. CASE i = n
      <4>1. t[i + 1] = e
        BY <1>2, <3>5
      <4>2. nxt[t[i]] = e /\ i < n + 1
        BY <3>1, <3>2, <3>5
      <4>3. prv[t[i]] = IF i > 1 THEN t[i - 1] ELSE NIL
        BY <3>3, <3>4
      <4> QED
        BY <4>1, <4>2, <4>3
    <3>6. CASE i # n
      <4>1. i < n
        BY <3>1, <3>6
      <4> QED
        BY <3>1, <3>2, <3>3, <3>4, <3>6, <4>1
    <3> QED
      BY <3>5, <3>6
  <2> QED
    BY <2>1, <2>2
<1>5. hd = t[1]
  BY <1>2, <1>3
<1>6. Open(hd, nxt, prv, t)
  BY <1>2, <1>4, <1>5 DEF Open
<1> QED
  BY <1>0, <1>6

(* The pointers q of the elements but that at j are p, but the one at m     *)
(* points where that at j did.                                              *)
PassedBy(s, j, p, q, m) ==
  \A i \in 1 .. Len(s) : i # j => q[s[i]] = IF i = m THEN p[s[j]] ELSE p[s[i]]

(* and to take out the element at j. *)
LEMMA OpenDrop ==
  ASSUME NEW s, Distinct(s), NEW hd, NEW nx, NEW pv, Open(hd, nx, pv, s),
         NEW j \in 1 .. Len(s), NEW nxt, NEW prv,
         PassedBy(s, j, nx, nxt, j - 1), PassedBy(s, j, pv, prv, j + 1),
         NEW t, t = RemoveAt(s, j), NEW h, h = IF j = 1 THEN nx[s[1]] ELSE hd
  PROVE  Open(h, nxt, prv, t)
<1>0. /\ \A i \in 1 .. Len(s) : i # j => nxt[s[i]] = IF i = j - 1 THEN nx[s[j]] ELSE nx[s[i]]
      /\ \A i \in 1 .. Len(s) : i # j => prv[s[i]] = IF i = j + 1 THEN pv[s[j]] ELSE pv[s[i]]
  BY DEF PassedBy
<1>1. PICK n \in Nat : n = Len(s) /\ j \in 1 .. n /\ n >= 1
  BY Elements
<1>2. Len(t) = n - 1 /\ \A i \in 1 .. n - 1 : t[i] = IF i < j THEN s[i] ELSE s[i + 1]
  BY <1>0, <1>1, RemoveAtProperties DEF Distinct
<1>3. /\ hd = s[1]
      /\ \A k \in 1 .. n : nx[s[k]] = IF k < n THEN s[k + 1] ELSE NIL
      /\ \A k \in 1 .. n : pv[s[k]] = IF k > 1 THEN s[k - 1] ELSE NIL
  BY <1>1 DEF Open
<1>4. ASSUME NEW i \in 1 .. n - 1
      PROVE  /\ nxt[t[i]] = IF i < n - 1 THEN t[i + 1] ELSE NIL
             /\ prv[t[i]] = IF i > 1 THEN t[i - 1] ELSE NIL
  <2>1. CASE i < j
    <3>1. i \in 1 .. n /\ i # j /\ i # j + 1 /\ t[i] = s[i] /\ i < n
      BY <1>1, <1>2, <2>1
    <3>2. nxt[t[i]] = IF i = j - 1 THEN nx[s[j]] ELSE nx[s[i]]
      BY <1>0, <1>1, <3>1
    <3>3. prv[t[i]] = IF i > 1 THEN s[i - 1] ELSE NIL
      BY <1>0, <1>1, <1>3, <3>1
    <3>4. i > 1 => t[i - 1] = s[i - 1]
      BY <1>1, <1>2, <2>1
    <3>5. nx[s[j]] = IF j < n THEN s[j + 1] ELSE NIL
      BY <1>1, <1>3
    <3>6. i = j - 1 => (i < n - 1 <=> j < n) /\ (i < n - 1 => t[i + 1] = s[j + 1])
      BY <1>1, <1>2
    <3>7. i # j - 1 => i < n - 1 /\ t[i + 1] = s[i + 1] /\ nx[s[i]] = s[i + 1]
      BY <1>1, <1>2, <1>3, <2>1, <3>1
    <3> QED
      BY <3>2, <3>3, <3>4, <3>5, <3>6, <3>7
  <2>2. CASE ~(i < j)
    <3>1. PICK m \in 1 .. n : m = i + 1 /\ m # j /\ m # j - 1 /\ i = m - 1 /\ m > 1
      BY <1>1, <2>2
    <3>2. t[i] = s[m]
      BY <1>2, <2>2, <3>1
    <3>3. nxt[t[i]] = IF m < n THEN s[m + 1] ELSE NIL
      BY <1>0, <1>1, <1>3, <3>1, <3>2
    <3>4. prv[t[i]] = IF m = j + 1 THEN pv[s[j]] ELSE pv[s[m]]
      BY <1>0, <1>1, <3>1, <3>2
    <3>5. i < n - 1 => m < n /\ t[i + 1] = s[m + 1]
      BY <1>1, <1>2, <2>2, <3>1
    <3>6. ~(i < n - 1) => ~(m < n)
      BY <3>1
    <3>7. pv[s[j]] = IF j > 1 THEN s[j - 1] ELSE NIL
      BY <1>1, <1>3
    <3>8. m = j + 1 => i = j /\ (i > 1 => t[i - 1] = s[j - 1])
      BY <1>1, <1>2, <2>2, <3>1
    <3>9. m # j + 1 => i > 1 /\ t[i - 1] = s[m - 1] /\ pv[s[m]] = s[m - 1]
      BY <1>1, <1>2, <1>3, <2>2, <3>1
    <3> QED
      BY <3>3, <3>4, <3>5, <3>6, <3>7, <3>8, <3>9
  <2> QED
    BY <2>1, <2>2
<1>5. h = IF n - 1 = 0 THEN NIL ELSE t[1]
  <2>1. nx[s[1]] = IF 1 < n THEN s[1 + 1] ELSE NIL
    BY <1>1, <1>3
  <2>2. n - 1 # 0 => t[1] = IF 1 < j THEN s[1] ELSE s[1 + 1]
    BY <1>1, <1>2
  <2>3. (n - 1 = 0 => j = 1 /\ ~(1 < n)) /\ (n - 1 # 0 => 1 < n) /\ (1 < j <=> j # 1)
    BY <1>1
  <2> QED
    BY <1>3, <2>1, <2>2, <2>3
<1> QED
  BY <1>2, <1>4, <1>5 DEF Open

(* Pointers of other items do not matter. *)
LEMMA OpenSame ==
  ASSUME NEW s, Distinct(s), NEW hd, NEW nx, NEW pv, Open(hd, nx, pv, s), NEW nxt, NEW prv,
         \A k \in 1 .. Len(s) : nxt[s[k]] = nx[s[k]] /\ prv[s[k]] = pv[s[k]]
  PROVE  Open(hd, nxt, prv, s)
  BY DEF Open

-----------------------------------------------------------------------------
(* A sequence without repetitions is as long as it has elements: not longer *)
(* than there are items.                                                    *)
LEMMA DistinctCount ==
  ASSUME NEW s, Distinct(s)
  PROVE  /\ IsFiniteSet(ToSet(s)) /\ ToSet(s) \subseteq Items
         /\ Cardinality(ToSet(s)) = Len(s) /\ Len(s) <= Cardinality(Items)
<1>1. PICK n \in Nat : n = Len(s)
  BY Elements
<1>2. IsFiniteSet(1 .. n) /\ Cardinality(1 .. n) = n
  <2>1. /\ IsFiniteSet(1 .. n)
        /\ Cardinality(1 .. n) = IF 1 > n THEN 0 ELSE n - 1 + 1
    BY FS_Interval
  <2>2. (IF 1 > n THEN 0 ELSE n - 1 + 1) = n
    OBVIOUS
  <2> QED
    BY <2>1, <2>2
<1>3. s \in Bijection(1 .. n, ToSet(s))
  <2>1. s \in [1 .. n -> ToSet(s)]
    <3>1. s = [i \in 1 .. n |-> s[i]]
      BY <1>1, LenProperties DEF Distinct
    <3>2. \A i \in 1 .. n : s[i] \in ToSet(s)
      BY <1>1, Elements
    <3> QED
      BY <3>1, <3>2
  <2>2. \A i, j \in 1 .. n : s[i] = s[j] => i = j
    BY <1>1, Elements
  <2>3. \A x \in ToSet(s) : \E i \in 1 .. n : s[i] = x
    BY <1>1, Elements
  <2>4. DOMAIN s = 1 .. n
    BY <1>1, Elements
  <2> QED
    BY <2>1, <2>2, <2>3, <2>4 DEF Bijection, Injection, Surjection, IsInjective
<1>4. IsFiniteSet(ToSet(s)) /\ Cardinality(ToSet(s)) = n
  BY <1>2, <1>3, FS_Bijection DEF ExistsBijection
<1>5. ToSet(s) \subseteq Items
  BY Elements
<1>6. Cardinality(ToSet(s)) <= Cardinality(Items)
  BY <1>5, ItemFacts, FS_Subset
<1> QED
  BY <1>1, <1>4, <1>5, <1>6

(* What ItemsFrom steps through. *)
IsWalk(w, first, next, N) ==
  w = [k \in 0 .. N |-> IF k = 0 THEN first ELSE IF w[k - 1] = NIL THEN NIL ELSE next[w[k - 1]]]

(* A walk is determined by its first pointer. *)
LEMMA OneWalk ==
  ASSUME NEW N \in Nat, NEW f, NEW nx, NEW g, NEW h, IsWalk(g, f, nx, N), IsWalk(h, f, nx, N)
  PROVE  g = h
<1> DEFINE T == {m \in Nat : m <= N => g[m] = h[m]}
<1>1. /\ g = [k \in 0 .. N |-> g[k]] /\ h = [k \in 0 .. N |-> h[k]]
      /\ g[0] = f /\ h[0] = f
      /\ \A k \in 0 .. N : k # 0 =>
           /\ g[k] = IF g[k - 1] = NIL THEN NIL ELSE nx[g[k - 1]]
           /\ h[k] = IF h[k - 1] = NIL THEN NIL ELSE nx[h[k - 1]]
  <2>1. \A w : IsWalk(w, f, nx, N) =>
          /\ w = [k \in 0 .. N |-> w[k]] /\ w[0] = f
          /\ \A k \in 0 .. N : k # 0 => w[k] = IF w[k - 1] = NIL THEN NIL ELSE nx[w[k - 1]]
    <3> SUFFICES ASSUME NEW w, IsWalk(w, f, nx, N)
                 PROVE  /\ w = [k \in 0 .. N |-> w[k]] /\ w[0] = f
                        /\ \A k \in 0 .. N : k # 0 =>
                             w[k] = IF w[k - 1] = NIL THEN NIL ELSE nx[w[k - 1]]
      OBVIOUS
    <3>1. PICK v : v = [k \in 0 .. N |-> IF k = 0 THEN f
                                         ELSE IF w[k - 1] = NIL THEN NIL ELSE nx[w[k - 1]]]
      OBVIOUS
    <3>2. v = w
      BY <3>1 DEF IsWalk
    <3>3. /\ v = [k \in 0 .. N |-> v[k]] /\ v[0] = f
          /\ \A k \in 0 .. N : k # 0 => v[k] = IF w[k - 1] = NIL THEN NIL ELSE nx[w[k - 1]]
      BY <3>1
    <3> QED
      BY <3>2, <3>3
  <2> QED
    BY <2>1
<1>2. 0 \in T
  BY <1>1
<1>3. ASSUME NEW m \in Nat, m \in T PROVE m + 1 \in T
  <2>1. SUFFICES ASSUME m + 1 <= N PROVE g[m + 1] = h[m + 1]
    OBVIOUS
  <2>2. PICK k \in 0 .. N : k = m + 1 /\ k # 0 /\ k - 1 = m /\ m <= N
    BY <2>1
  <2>3. g[k - 1] = h[k - 1]
    BY <1>3, <2>2
  <2>4. g[k] = h[k]
    BY <1>1, <2>2, <2>3
  <2> QED
    BY <2>2, <2>4
<1> HIDE DEF T
<1>4. Nat \subseteq T
  BY <1>2, <1>3, SetInduction
<1>5. \A k \in 0 .. N : g[k] = h[k]
  BY <1>4 DEF T
<1> QED
  BY <1>1, <1>5

(* The walk over a list finds its elements. *)
LEMMA Walked ==
  ASSUME NEW s, Distinct(s), NEW hd, NEW nx, NEW pv, Open(hd, nx, pv, s)
  PROVE  ItemsFrom(hd, nx) = s
<1>1. PICK n \in Nat : n = Len(s)
  BY Elements
<1>2. PICK N \in Nat : N = Cardinality(Items)
  BY ItemFacts, FS_CardinalityType
<1>3. n <= N
  BY <1>1, <1>2, DistinctCount
<1>4. PICK g : g = [k \in 0 .. N |-> IF k < n THEN s[k + 1] ELSE NIL]
  OBVIOUS
<1>5. /\ hd = IF n = 0 THEN NIL ELSE s[1]
      /\ \A k \in 1 .. n : nx[s[k]] = IF k < n THEN s[k + 1] ELSE NIL
      /\ \A k \in 1 .. n : s[k] # NIL
  BY <1>1, Elements DEF Open
<1>6. ASSUME NEW k \in 0 .. N
      PROVE  g[k] = IF k = 0 THEN hd ELSE IF g[k - 1] = NIL THEN NIL ELSE nx[g[k - 1]]
  <2>1. CASE k = 0
    BY <1>4, <1>5, <2>1
  <2>2. CASE k # 0
    <3>1. k - 1 \in 0 .. N /\ (k - 1) + 1 = k
      BY <2>2
    <3>2. g[k - 1] = IF k - 1 < n THEN s[k] ELSE NIL
      BY <1>4, <3>1
    <3>3. g[k] = IF k < n THEN s[k + 1] ELSE NIL
      BY <1>4
    <3>4. CASE k - 1 < n
      <4>1. k \in 1 .. n
        BY <2>2, <3>4
      <4>2. g[k - 1] = s[k] /\ g[k - 1] # NIL
        BY <1>5, <3>2, <3>4, <4>1
      <4>3. nx[s[k]] = IF k < n THEN s[k + 1] ELSE NIL
        BY <1>5, <4>1
      <4> QED
        BY <2>2, <3>3, <4>2, <4>3
    <3>5. CASE ~(k - 1 < n)
      <4>1. ~(k < n)
        BY <3>5
      <4> QED
        BY <2>2, <3>2, <3>3, <3>5, <4>1
    <3> QED
      BY <3>4, <3>5
  <2> QED
    BY <2>1, <2>2
<1>7. IsWalk(g, hd, nx, N)
  BY <1>4, <1>6 DEF IsWalk
<1>8. (CHOOSE w : IsWalk(w, hd, nx, N)) = g
  <2>1. \A w : IsWalk(w, hd, nx, N) => w = g
    BY <1>7, OneWalk
  <2> QED
    BY <1>7, <2>1
<1>9. Cardinality({j \in 0 .. N : g[j] # NIL}) = n
  <2>1. {j \in 0 .. N : g[j] # NIL} = 0 .. n - 1
    <3>1. ASSUME NEW j \in 0 .. N PROVE g[j] # NIL <=> j \in 0 .. n - 1
      <4>1. g[j] = IF j < n THEN s[j + 1] ELSE NIL
        BY <1>4
      <4>2. j < n => j + 1 \in 1 .. n
        OBVIOUS
      <4> QED
        BY <1>5, <4>1, <4>2
    <3>2. 0 .. n - 1 \subseteq 0 .. N
      BY <1>3
    <3> QED
      BY <3>1, <3>2
  <2>2. Cardinality(0 .. n - 1) = IF 0 > n - 1 THEN 0 ELSE n - 1 - 0 + 1
    BY FS_Interval
  <2>3. (IF 0 > n - 1 THEN 0 ELSE n - 1 - 0 + 1) = n
    OBVIOUS
  <2> QED
    BY <2>1, <2>2, <2>3
<1>10. [k \in 1 .. n |-> g[k - 1]] = s
  <2>1. s = [k \in 1 .. n |-> s[k]]
    BY <1>1, LenProperties DEF Distinct
  <2>2. ASSUME NEW k \in 1 .. n PROVE g[k - 1] = s[k]
    <3>1. k - 1 \in 0 .. N /\ k - 1 < n /\ (k - 1) + 1 = k
      BY <1>3
    <3> QED
      BY <1>4, <3>1
  <2> QED
    BY <2>1, <2>2
<1>11. ItemsFrom(hd, nx) = [k \in 1 .. Cardinality({j \in 0 .. N : g[j] # NIL}) |-> g[k - 1]]
  <2> DEFINE Walk(M) == CHOOSE x : IsWalk(x, hd, nx, M)
             Read(w, M) == [k \in 1 .. Cardinality({j \in 0 .. M : w[j] # NIL}) |-> w[k - 1]]
  <2>1. ItemsFrom(hd, nx) = Read(Walk(Cardinality(Items)), Cardinality(Items))
    BY Zenon DEF ItemsFrom, IsWalk
  <2>2. Walk(N) = g
    BY Zenon, <1>8
  <2> HIDE DEF Walk, Read
  <2>3. ItemsFrom(hd, nx) = Read(g, N)
    BY Zenon, <1>2, <2>1, <2>2
  <2> QED
    BY Zenon, <2>3 DEF Read
<1> QED
  BY <1>9, <1>10, <1>11

-----------------------------------------------------------------------------
(* A table of n buckets. *)
Table(t, n) ==
  /\ DOMAIN t = {"num", "buckets", "next", "prev", "items", "ideal", "nonideal", "ineff",
                 "noexpand", "bloom"}
  /\ DOMAIN t.next = Items /\ DOMAIN t.prev = Items
  /\ DOMAIN t.buckets = 0 .. n - 1
  /\ \A b \in 0 .. n - 1 : DOMAIN t.buckets[b] = {"head", "count", "mult"}

(* Bucket b of t is the sequence s. *)
BucketIs(t, b, s) ==
  /\ Distinct(s)
  /\ Open(t.buckets[b].head, t.next, t.prev, s)
  /\ t.buckets[b].count = Len(s)

(* The items of S that belong into bucket b of n. *)
Share(S, n, b) == {i \in S : ToBkt(i, n) = b}

(* The n buckets of t hold the items of S, each in its bucket. *)
Placed(t, n, S) ==
  /\ Table(t, n)
  /\ \A b \in 0 .. n - 1 : \E s : BucketIs(t, b, s) /\ ToSet(s) = Share(S, n, b)

(* What no move of an item changes. *)
Fixed(t, u) ==
  u.num = t.num /\ u.items = t.items /\ u.bloom = t.bloom /\ u.noexpand = t.noexpand

(* Item i came to the front of bucket b, the other buckets are as before. *)
Fronted(t, u, n, b, i) ==
  \A c \in 0 .. n - 1 : Bucket(u, c) = IF c = b THEN <<i>> \o Bucket(t, b) ELSE Bucket(t, c)

(* The walk over a bucket finds what is in it. *)
LEMMA BucketWalked ==
  ASSUME NEW t, NEW b, NEW s, BucketIs(t, b, s)
  PROVE  Bucket(t, b) = s
  BY Walked DEF BucketIs, Bucket

(* The other fields do not matter to where the items are. *)
LEMMA PlacedSame ==
  ASSUME NEW n, NEW S, NEW t, Placed(t, n, S), NEW u, Table(u, n),
         u.next = t.next, u.prev = t.prev,
         \A b \in 0 .. n - 1 : /\ u.buckets[b].head = t.buckets[b].head
                               /\ u.buckets[b].count = t.buckets[b].count
  PROVE  Placed(u, n, S)
  BY DEF Placed, BucketIs

(* The fields after an item became the head of bucket b. *)
LEMMA PushFrontFields ==
  ASSUME NEW n, NEW t, Table(t, n), NEW b \in 0 .. n - 1, NEW i \in Items,
         NEW old \in Pointer, old = t.buckets[b].head,
         NEW u, u = PushFront(t, b, i)
  PROVE  /\ Table(u, n) /\ Fixed(t, u)
         /\ u.next[i] = old /\ \A e \in Items : e # i => u.next[e] = t.next[e]
         /\ \A e \in Items : u.prev[e] = IF e = old THEN i ELSE IF e = i THEN NIL ELSE t.prev[e]
         /\ u.buckets[b].head = i /\ u.buckets[b].count = t.buckets[b].count + 1
         /\ \A c \in 0 .. n - 1 : c # b => u.buckets[c] = t.buckets[c]
         /\ u.ideal = t.ideal /\ u.nonideal = t.nonideal
<1>1. old # NIL => old \in Items
  BY DEF Pointer
<1>2. NIL \notin Items
  BY ItemFacts
<1>3. u = [t EXCEPT !.buckets[b] = [t.buckets[b] EXCEPT !.head = i,
                                                        !.count = t.buckets[b].count + 1],
                    !.next[i] = old,
                    !.prev = IF old = NIL THEN [@ EXCEPT ![i] = NIL]
                             ELSE [@ EXCEPT ![i] = NIL, ![old] = i]]
  BY DEF PushFront
<1>4. DOMAIN u = DOMAIN t /\ Fixed(t, u) /\ u.ideal = t.ideal /\ u.nonideal = t.nonideal
  BY <1>3 DEF Table, Fixed
<1>5. u.next = [t.next EXCEPT ![i] = old]
  BY <1>3 DEF Table
<1>6. u.prev = IF old = NIL THEN [t.prev EXCEPT ![i] = NIL]
               ELSE [t.prev EXCEPT ![i] = NIL, ![old] = i]
  BY <1>3 DEF Table
<1>7. u.buckets = [t.buckets EXCEPT ![b] = [t.buckets[b] EXCEPT !.head = i,
                                                                !.count = t.buckets[b].count + 1]]
  <2>1. PICK x : x = [t.buckets[b] EXCEPT !.head = i, !.count = t.buckets[b].count + 1]
    OBVIOUS
  <2>2. u = [t EXCEPT !.buckets[b] = x,
                      !.next[i] = old,
                      !.prev = IF old = NIL THEN [@ EXCEPT ![i] = NIL]
                               ELSE [@ EXCEPT ![i] = NIL, ![old] = i]]
    BY <1>3, <2>1
  <2>3. u.buckets = [t.buckets EXCEPT ![b] = x]
    BY <2>2 DEF Table
  <2> QED
    BY <2>1, <2>3
<1>8. DOMAIN u.next = Items /\ DOMAIN u.prev = Items /\ DOMAIN u.buckets = 0 .. n - 1
  BY <1>5, <1>6, <1>7 DEF Table
<1>9. u.next[i] = old /\ \A e \in Items : e # i => u.next[e] = t.next[e]
  BY <1>5 DEF Table
<1>10. \A e \in Items : u.prev[e] = IF e = old THEN i ELSE IF e = i THEN NIL ELSE t.prev[e]
  BY <1>1, <1>2, <1>6 DEF Table
<1>11. u.buckets[b] = [t.buckets[b] EXCEPT !.head = i, !.count = t.buckets[b].count + 1]
  BY <1>7 DEF Table
<1>12. \A c \in 0 .. n - 1 : c # b => u.buckets[c] = t.buckets[c]
  BY <1>7 DEF Table
<1>13. /\ u.buckets[b].head = i /\ u.buckets[b].count = t.buckets[b].count + 1
       /\ DOMAIN u.buckets[b] = {"head", "count", "mult"}
  BY <1>11 DEF Table
<1> QED
  BY <1>4, <1>8, <1>9, <1>10, <1>12, <1>13 DEF Table

(* The items of S after one more. *)
LEMMA ShareMore ==
  ASSUME NEW S, NEW n, NEW i, NEW c
  PROVE  Share(S \cup {i}, n, c) = IF ToBkt(i, n) = c THEN Share(S, n, c) \cup {i} ELSE Share(S, n, c)
  BY DEF Share

(* Item i may join those of t, in bucket b. *)
Joins(t, n, S, i, b) ==
  /\ S \in SUBSET Items /\ Placed(t, n, S)
  /\ i \in Items \ S /\ b \in 0 .. n - 1 /\ b = ToBkt(i, n)

(* In u it has joined them. *)
Joined(t, u, n, S, i, b) ==
  Placed(u, n, S \cup {i}) /\ Fixed(t, u) /\ Fronted(t, u, n, b, i) /\ u.ideal = t.ideal

(* The item is in its bucket then, and the others stay in theirs. *)
LEMMA PushedPlaced ==
  ASSUME NEW n, NEW S, NEW t, NEW i, NEW b, Joins(t, n, S, i, b), NEW u, u = PushFront(t, b, i)
  PROVE  Joined(t, u, n, S, i, b) /\ u.nonideal = t.nonideal
<1>0. /\ S \in SUBSET Items /\ Placed(t, n, S)
      /\ i \in Items \ S /\ b \in 0 .. n - 1 /\ b = ToBkt(i, n)
  BY DEF Joins
<1> USE <1>0
<1>1. Table(t, n)
  BY DEF Placed
<1>2. PICK s : BucketIs(t, b, s) /\ ToSet(s) = Share(S, n, b)
  BY DEF Placed
<1>3. PICK l \in Nat : l = Len(s)
  BY <1>2, Elements DEF BucketIs
<1>4. PICK old \in Pointer : old = t.buckets[b].head
  BY <1>2, <1>3, Elements DEF BucketIs, Open, Pointer
<1>5. /\ Table(u, n) /\ Fixed(t, u)
      /\ u.next[i] = old /\ \A e \in Items : e # i => u.next[e] = t.next[e]
      /\ \A e \in Items : u.prev[e] = IF e = old THEN i ELSE IF e = i THEN NIL ELSE t.prev[e]
      /\ u.buckets[b].head = i /\ u.buckets[b].count = t.buckets[b].count + 1
      /\ \A c \in 0 .. n - 1 : c # b => u.buckets[c] = t.buckets[c]
      /\ u.ideal = t.ideal /\ u.nonideal = t.nonideal
  BY <1>1, <1>4, PushFrontFields
<1>6. Distinct(s) /\ Open(old, t.next, t.prev, s) /\ t.buckets[b].count = l
  BY <1>2, <1>3, <1>4 DEF BucketIs
<1>7. i \notin ToSet(s)
  BY <1>2 DEF Share
<1>8. old = IF l = 0 THEN NIL ELSE s[1]
  BY <1>3, <1>6 DEF Open
<1>9. /\ \A k \in 1 .. l : s[k] \in Items /\ s[k] # i /\ s[k] # NIL
      /\ \A k \in 1 .. l : s[k] = s[1] <=> k = 1
  <2>1. \A k \in 1 .. l : 1 \in 1 .. l
    OBVIOUS
  <2> QED
    BY <1>3, <1>6, <1>7, <2>1, Elements
<1>10. BucketIs(u, b, <<i>> \o s) /\ ToSet(<<i>> \o s) = Share(S \cup {i}, n, b)
  <2>1. \A k \in 1 .. l : u.next[s[k]] = t.next[s[k]]
    BY <1>5, <1>9
  <2>2. \A k \in 1 .. l : u.prev[s[k]] = IF k = 1 THEN i ELSE t.prev[s[k]]
    BY <1>5, <1>8, <1>9
  <2>3. i # old /\ u.prev[i] = NIL
    <3>1. i # old
      <4>1. CASE l = 0
        BY <1>8, <4>1, ItemFacts
      <4>2. CASE l # 0
        <5>1. 1 \in 1 .. l
          BY <4>2
        <5> QED
          BY <1>8, <1>9, <4>2, <5>1
      <4> QED
        BY <4>1, <4>2
    <3> QED
      BY <1>5, <3>1
  <2>4. Open(i, u.next, u.prev, <<i>> \o s)
    BY <1>3, <1>5, <1>6, <1>7, <2>1, <2>2, <2>3, OpenFront
  <2>5. Distinct(<<i>> \o s) /\ Len(<<i>> \o s) = l + 1 /\ ToSet(<<i>> \o s) = ToSet(s) \cup {i}
    <3>1. PICK r : r = <<i>> \o s
      OBVIOUS
    <3>2. Distinct(r) /\ Len(r) = Len(s) + 1 /\ ToSet(r) = ToSet(s) \cup {i}
      BY <1>6, <1>7, <3>1, Prepend DEF Prepends
    <3> QED
      BY <1>3, <3>1, <3>2
  <2>6. ToSet(<<i>> \o s) = Share(S \cup {i}, n, b)
    <3>1. Share(S \cup {i}, n, b) = Share(S, n, b) \cup {i}
      BY DEF Share
    <3> QED
      BY <1>2, <2>5, <3>1
  <2> QED
    BY <1>5, <1>6, <2>4, <2>5, <2>6 DEF BucketIs
<1>11. ASSUME NEW c \in 0 .. n - 1, c # b
       PROVE  /\ \E r : BucketIs(u, c, r) /\ ToSet(r) = Share(S \cup {i}, n, c)
              /\ Bucket(u, c) = Bucket(t, c)
  <2>1. PICK r : BucketIs(t, c, r) /\ ToSet(r) = Share(S, n, c)
    BY DEF Placed
  <2>2. Distinct(r) /\ Open(t.buckets[c].head, t.next, t.prev, r) /\ t.buckets[c].count = Len(r)
    BY <2>1 DEF BucketIs
  <2>3. ASSUME NEW k \in 1 .. Len(r)
        PROVE  u.next[r[k]] = t.next[r[k]] /\ u.prev[r[k]] = t.prev[r[k]]
    <3>1. r[k] \in Items /\ r[k] # NIL /\ r[k] \in ToSet(r)
      BY <2>2, Elements
    <3>2. r[k] # i /\ r[k] \notin ToSet(s)
      BY <1>2, <1>11, <2>1, <3>1 DEF Share
    <3>3. r[k] # old
      <4>1. CASE l = 0
        BY <1>8, <3>1, <4>1
      <4>2. CASE l # 0
        <5>1. 1 \in 1 .. l
          BY <4>2
        <5>2. s[1] \in ToSet(s)
          BY <1>3, <1>6, <5>1, Elements
        <5> QED
          BY <1>8, <3>2, <4>2, <5>2
      <4> QED
        BY <4>1, <4>2
    <3> QED
      BY <1>5, <3>1, <3>2, <3>3
  <2>4. Open(t.buckets[c].head, u.next, u.prev, r)
    BY <2>2, <2>3, OpenSame
  <2>5. BucketIs(u, c, r)
    BY <1>5, <1>11, <2>2, <2>4 DEF BucketIs
  <2>6. Share(S \cup {i}, n, c) = Share(S, n, c)
    BY <1>11 DEF Share
  <2>7. Bucket(u, c) = r /\ Bucket(t, c) = r
    BY <2>1, <2>5, BucketWalked
  <2> QED
    BY <2>1, <2>5, <2>6, <2>7
<1>12. Bucket(u, b) = <<i>> \o s /\ Bucket(t, b) = s
  BY <1>2, <1>10, BucketWalked
<1>13. Fronted(t, u, n, b, i)
  BY <1>11, <1>12 DEF Fronted
<1>14. Placed(u, n, S \cup {i})
  BY <1>5, <1>10, <1>11 DEF Placed
<1> QED
  BY <1>5, <1>13, <1>14 DEF Joined

(* An item that is placed anew: two more fields change. *)
LEMMA RehashedPlaced ==
  ASSUME NEW n, NEW S, NEW t, NEW i, NEW b, Joins(t, n, S, i, b), NEW v, v = Rehash(t, i, b)
  PROVE  /\ Joined(t, v, n, S, i, b)
         /\ v.nonideal = IF Len(<<i>> \o Bucket(t, b)) > t.ideal THEN t.nonideal + 1 ELSE t.nonideal
<1>0. b \in 0 .. n - 1
  BY DEF Joins
<1> USE <1>0
<1>1. PICK u : u = PushFront(t, b, i)
  OBVIOUS
<1>2. Joined(t, u, n, S, i, b) /\ u.nonideal = t.nonideal
  BY <1>1, PushedPlaced
<1>3. /\ Placed(u, n, S \cup {i}) /\ Fixed(t, u)
      /\ Fronted(t, u, n, b, i) /\ u.ideal = t.ideal /\ u.nonideal = t.nonideal
  BY <1>2 DEF Joined
<1>4. u.buckets[b].count = Len(<<i>> \o Bucket(t, b))
  <2>1. PICK s : BucketIs(u, b, s)
    BY <1>3 DEF Placed
  <2>2. Bucket(u, b) = s
    BY <2>1, BucketWalked
  <2> QED
    BY <1>3, <2>1, <2>2 DEF BucketIs, Fronted
<1>5. PICK m : m = u.buckets[b].count \div t.ideal
  OBVIOUS
<1>6. v = IF u.buckets[b].count > u.ideal
            THEN [u EXCEPT !.nonideal = u.nonideal + 1, !.buckets[b].mult = m]
            ELSE u
  BY <1>1, <1>3, <1>5 DEF Rehash
<1>7. CASE ~(u.buckets[b].count > u.ideal)
  BY <1>3, <1>6, <1>7, <1>4, <1>2
<1>8. CASE u.buckets[b].count > u.ideal
  <2>1. Table(u, n)
    BY <1>3 DEF Placed
  <2>2. /\ DOMAIN v = DOMAIN u /\ v.next = u.next /\ v.prev = u.prev
        /\ v.num = u.num /\ v.items = u.items /\ v.bloom = u.bloom /\ v.noexpand = u.noexpand
        /\ v.ideal = u.ideal /\ v.nonideal = u.nonideal + 1
    BY <1>6, <1>8, <2>1 DEF Table
  <2>3. v.buckets = [u.buckets EXCEPT ![b] = [u.buckets[b] EXCEPT !.mult = m]]
    BY <1>6, <1>8, <2>1 DEF Table
  <2>4. DOMAIN v.buckets = 0 .. n - 1
    BY <2>1, <2>3 DEF Table
  <2>5. ASSUME NEW c \in 0 .. n - 1
        PROVE  /\ DOMAIN v.buckets[c] = {"head", "count", "mult"}
               /\ v.buckets[c].head = u.buckets[c].head /\ v.buckets[c].count = u.buckets[c].count
    <3>1. CASE c = b
      <4>1. v.buckets[c] = [u.buckets[b] EXCEPT !.mult = m]
        BY <2>1, <2>3, <3>1 DEF Table
      <4> QED
        BY <2>1, <3>1, <4>1 DEF Table
    <3>2. CASE c # b
      BY <2>1, <2>3, <3>2 DEF Table
    <3> QED
      BY <3>1, <3>2
  <2>6. Table(v, n)
    BY <2>1, <2>2, <2>4, <2>5 DEF Table
  <2>7. Placed(v, n, S \cup {i})
    BY <1>3, <2>2, <2>5, <2>6, PlacedSame
  <2>8. Fixed(t, v)
    BY <1>3, <2>2 DEF Fixed
  <2>9. \A c \in 0 .. n - 1 : Bucket(v, c) = Bucket(u, c)
    BY <2>2, <2>5 DEF Bucket
  <2>10. Fronted(t, v, n, b, i)
    BY <1>3, <2>9 DEF Fronted
  <2>11. Joined(t, v, n, S, i, b)
    BY <1>3, <2>2, <2>7, <2>8, <2>10 DEF Joined
  <2> QED
    BY <1>3, <1>8, <1>4, <2>2, <2>11
<1> QED
  BY <1>7, <1>8

(* The items of S within the ideal length of their chain. *)
Good(t, n, S) ==
  {e \in S : LET s == Bucket(t, ToBkt(e, n)) IN \E k \in 1 .. Len(s) : k <= t.ideal /\ s[k] = e}

(* nonideal_items counts the other ones. *)
Tally(t, n, S) ==
  /\ t.ideal \in Nat /\ t.nonideal \in Nat
  /\ Cardinality(Good(t, n, S)) + t.nonideal = Cardinality(S)

(* Element e is at place k of the sequence s. *)
LEMMA OnePlace ==
  ASSUME NEW s, Distinct(s), NEW k \in 1 .. Len(s), NEW d
  PROVE  (\E j \in 1 .. Len(s) : j <= d /\ s[j] = s[k]) <=> k <= d
<1>1. \A j \in 1 .. Len(s) : s[j] = s[k] => j = k
  BY Elements
<1> QED
  BY <1>1

(* Each item of S has a bucket. *)
Housed(n, S) == \A e \in S : ToBkt(e, n) \in 0 .. n - 1

(* What that means for the good places: G becomes H when item i comes to    *)
(* the front of the chain q, of which d are good.                          *)
GoodMoves(G, H, q, d, i) ==
  /\ Len(q) > d => H = (G \cup {i}) \ {q[d + 1]} /\ q[d + 1] \in G \cup {i}
  /\ ~(Len(q) > d) => H = G \cup {i}

(* The item in front takes a good place, and if its chain is longer than    *)
(* the ideal then one of them loses it, the one that is moved behind.       *)
LEMMA GoodFronted ==
  ASSUME NEW n, NEW S, NEW t, NEW i, NEW b, Joins(t, n, S, i, b), Housed(n, S),
         NEW v, Joined(t, v, n, S, i, b), t.ideal \in Nat
  PROVE  GoodMoves(Good(t, n, S), Good(v, n, S \cup {i}), <<i>> \o Bucket(t, b), t.ideal, i)
<1>1. /\ S \in SUBSET Items /\ Placed(t, n, S) /\ \A e \in S : ToBkt(e, n) \in 0 .. n - 1
      /\ i \in Items \ S /\ b \in 0 .. n - 1 /\ b = ToBkt(i, n)
      /\ Fronted(t, v, n, b, i) /\ v.ideal = t.ideal
  BY DEF Joins, Joined, Housed
<1> USE <1>1
<1>2. PICK d \in Nat : d = t.ideal
  OBVIOUS
<1> USE <1>2
<1>3. PICK q : q = <<i>> \o Bucket(t, b)
  OBVIOUS
<1>4. PICK s : BucketIs(t, b, s) /\ ToSet(s) = Share(S, n, b)
  BY DEF Placed
<1>5. Distinct(s) /\ s = Bucket(t, b)
  BY <1>4, BucketWalked DEF BucketIs
<1>6. PICK l \in Nat : l = Len(s)
  BY <1>5, Elements
<1>7. i \notin ToSet(s)
  BY <1>4 DEF Share
<1>8. /\ Distinct(q) /\ Len(q) = l + 1 /\ q[1] = i
      /\ \A k \in 2 .. l + 1 : q[k] = s[k - 1]
      /\ ToSet(q) = ToSet(s) \cup {i}
  <2>1. q = <<i>> \o s /\ i \in Items
    BY <1>5, <1>3
  <2> HIDE <1>1, <1>2
  <2>2. Distinct(s) /\ i \in Items /\ i \notin ToSet(s) /\ q = <<i>> \o s
    BY <1>5, <1>7, <2>1
  <2>3. Prepends(q, i, s)
    BY <2>2 DEF Prepends
  <2>4. /\ Distinct(q) /\ Len(q) = Len(s) + 1 /\ q[1] = i
        /\ \A k \in 2 .. Len(s) + 1 : q[k] = s[k - 1]
        /\ ToSet(q) = ToSet(s) \cup {i}
    BY <2>3, Prepend
  <2> QED
    BY <1>6, <2>4
<1>9. Distinct(q) /\ Len(q) = l + 1
  BY <1>8
<1>10. \A e : e \in Good(v, n, S \cup {i}) <=>
               /\ e \in S \cup {i}
               /\ \E k \in 1 .. Len(Bucket(v, ToBkt(e, n))) : k <= d /\ Bucket(v, ToBkt(e, n))[k] = e
  BY Zenon DEF Good
<1>11. \A e : e \in Good(t, n, S) <=>
               /\ e \in S
               /\ \E k \in 1 .. Len(Bucket(t, ToBkt(e, n))) : k <= d /\ Bucket(t, ToBkt(e, n))[k] = e
  BY Zenon DEF Good
<1>12. Bucket(v, b) = q /\ \A c \in 0 .. n - 1 : c # b => Bucket(v, c) = Bucket(t, c)
  BY <1>3, Zenon DEF Fronted
<1>13. ASSUME NEW e \in S, ToBkt(e, n) # b
      PROVE  (e \in Good(v, n, S \cup {i}) <=> e \in Good(t, n, S)) /\ e # i /\ e \notin ToSet(q)
  <2>1. Bucket(v, ToBkt(e, n)) = Bucket(t, ToBkt(e, n))
    BY <1>12, <1>13
  <2>2. e # i /\ e \notin ToSet(s)
    BY <1>4, <1>13 DEF Share
  <2> QED
    BY <1>8, <1>10, <1>11, <2>1, <2>2
<1>14. ASSUME NEW k \in 1 .. l + 1
       PROVE  /\ q[k] \in S \cup {i}
              /\ q[k] \in Good(v, n, S \cup {i}) <=> k <= d
              /\ q[k] \in Good(t, n, S) \cup {i} <=> k <= d + 1
  <2>1. PICK e : e = q[k]
    OBVIOUS
  <2>2. e \in ToSet(q)
    BY <1>8, <2>1, Elements
  <2>3. e \in S \cup {i} /\ ToBkt(e, n) = b
    BY <1>4, <1>8, <2>2 DEF Share
  <2>4. e \in Good(v, n, S \cup {i}) <=> k <= d
    <3>1. (\E j \in 1 .. Len(q) : j <= d /\ q[j] = q[k]) <=> k <= d
      BY <1>8, OnePlace
    <3>2. e \in Good(v, n, S \cup {i}) <=> \E j \in 1 .. Len(q) : j <= d /\ q[j] = e
      BY <1>10, <1>12, <2>3
    <3> QED
      BY <2>1, <3>1, <3>2, Zenon
  <2>5. e \in Good(t, n, S) \cup {i} <=> k <= d + 1
    <3>1. CASE k = 1
      <4>1. e = i /\ k <= d + 1
        BY <1>8, <2>1, <3>1
      <4> QED
        BY <4>1
    <3>2. CASE k # 1
      <4>1. PICK m \in 1 .. l : m = k - 1 /\ m + 1 = k /\ k \in 2 .. l + 1
        BY <3>2
      <4>2. e = s[m]
        BY <1>8, <2>1, <4>1
      <4>3. e # i /\ e \in S
        <5>1. s[m] \in ToSet(s)
          BY <1>5, <1>6, Elements
        <5> QED
          BY <1>4, <1>7, <4>2, <5>1 DEF Share
      <4>4. (\E j \in 1 .. Len(s) : j <= d /\ s[j] = s[m]) <=> m <= d
        BY <1>5, <1>6, OnePlace
      <4>5. e \in Good(t, n, S) <=> \E j \in 1 .. Len(s) : j <= d /\ s[j] = e
        BY <1>5, <1>11, <2>3, <4>3
      <4>6. e \in Good(t, n, S) <=> m <= d
        BY <4>2, <4>4, <4>5, Zenon
      <4>7. m <= d <=> k <= d + 1
        BY <4>1
      <4> QED
        BY <4>3, <4>6, <4>7
    <3> QED
      BY <3>1, <3>2
  <2> QED
    BY <2>1, <2>3, <2>4, <2>5
<1>15. \A e \in S \cup {i} : ToBkt(e, n) = b => \E k \in 1 .. l + 1 : e = q[k]
  <2>1. ASSUME NEW e \in S \cup {i}, ToBkt(e, n) = b PROVE \E k \in 1 .. l + 1 : e = q[k]
    <3>1. e \in ToSet(q)
      BY <1>4, <1>8, <2>1 DEF Share
    <3>2. \E k \in 1 .. Len(q) : q[k] = e
      BY <1>8, <3>1, Elements
    <3> QED
      BY <1>8, <3>2
  <2> QED
    BY <2>1
<1>16. ASSUME NEW e PROVE e \in Good(v, n, S \cup {i}) => e \in S \cup {i}
  BY <1>10
<1>17. ASSUME NEW e PROVE e \in Good(t, n, S) \cup {i} => e \in S \cup {i}
  BY <1>11
<1>18. \A e \in S : ToBkt(e, n) # b => e # i
  OBVIOUS
<1>19. CASE Len(q) > d
  <2>1. d + 1 \in 1 .. l + 1
    BY <1>8, <1>19
  <2>2. PICK x : x = q[d + 1]
    OBVIOUS
  <2>3. x \in Good(t, n, S) \cup {i} /\ x \in ToSet(q)
    <3>1. q[d + 1] \in Good(t, n, S) \cup {i}
      <4>1. PICK k \in 1 .. l + 1 : k = d + 1 /\ k <= d + 1
        BY <2>1
      <4> QED
        BY <1>14, <4>1
    <3>2. q[d + 1] \in ToSet(q)
      BY <1>8, <2>1, Elements
    <3> QED
      BY <2>2, <3>1, <3>2
  <2>4. ASSUME NEW e \in S \cup {i}
        PROVE  e \in Good(v, n, S \cup {i}) <=> e \in Good(t, n, S) \cup {i} /\ e # x
    <3>1. CASE ToBkt(e, n) = b
      <4>1. PICK k \in 1 .. l + 1 : e = q[k]
        BY <1>15, <3>1
      <4>2. /\ e \in Good(v, n, S \cup {i}) <=> k <= d
            /\ e \in Good(t, n, S) \cup {i} <=> k <= d + 1
        BY <1>14, <4>1
      <4>3. e = x <=> k = d + 1
        <5>1. \A j, h \in 1 .. l + 1 : q[j] = q[h] => j = h
          BY <1>9, Elements
        <5> QED
          BY <2>1, <2>2, <4>1, <5>1
      <4>4. k <= d <=> k <= d + 1 /\ k # d + 1
        OBVIOUS
      <4> QED
        BY <4>2, <4>3, <4>4, Zenon
    <3>2. CASE ToBkt(e, n) # b
      <4>1. e \in S /\ e # i
        BY <3>2
      <4>2. (e \in Good(v, n, S \cup {i}) <=> e \in Good(t, n, S)) /\ e \notin ToSet(q)
        BY <1>13, <3>2, <4>1
      <4>3. e # x
        BY <2>3, <4>2
      <4> QED
        BY <4>1, <4>2, <4>3
    <3> QED
      BY <3>1, <3>2
  <2>5. Good(v, n, S \cup {i}) = (Good(t, n, S) \cup {i}) \ {x}
    <3> DEFINE A == Good(v, n, S \cup {i})
               B == Good(t, n, S) \cup {i}
    <3>1. A \subseteq S \cup {i} /\ B \subseteq S \cup {i}
      BY <1>16, <1>17
    <3>2. \A e \in S \cup {i} : e \in A <=> e \in B /\ e # x
      BY <2>4
    <3> HIDE DEF A, B
    <3>3. A = B \ {x}
      BY <3>1, <3>2
    <3> QED
      BY <3>3 DEF A, B
  <2>6. GoodMoves(Good(t, n, S), Good(v, n, S \cup {i}), q, d, i)
    BY <1>19, <2>2, <2>3, <2>5 DEF GoodMoves
  <2> QED
    BY <1>2, <1>3, <2>6, Zenon
<1>20. CASE ~(Len(q) > d)
  <2>1. ASSUME NEW e \in S \cup {i}
        PROVE  e \in Good(v, n, S \cup {i}) <=> e \in Good(t, n, S) \cup {i}
    <3>1. CASE ToBkt(e, n) = b
      <4>1. PICK k \in 1 .. l + 1 : e = q[k]
        BY <1>15, <3>1
      <4>2. /\ e \in Good(v, n, S \cup {i}) <=> k <= d
            /\ e \in Good(t, n, S) \cup {i} <=> k <= d + 1
        BY <1>14, <4>1
      <4>3. k <= d /\ k <= d + 1
        BY <1>8, <1>20
      <4> QED
        BY <4>2, <4>3, Zenon
    <3>2. CASE ToBkt(e, n) # b
      <4>1. e \in S /\ e # i
        BY <3>2
      <4> QED
        BY <1>13, <3>2, <4>1
    <3> QED
      BY <3>1, <3>2
  <2>2. Good(v, n, S \cup {i}) = Good(t, n, S) \cup {i}
    BY <1>16, <1>17, <2>1
  <2>3. GoodMoves(Good(t, n, S), Good(v, n, S \cup {i}), q, d, i)
    BY <1>20, <2>2 DEF GoodMoves
  <2> QED
    BY <1>2, <1>3, <2>3, Zenon
<1> QED
  BY <1>19, <1>20, Zenon

(* The count stays right when an item is placed anew. *)
LEMMA RehashedTally ==
  ASSUME NEW n, NEW S, NEW t, NEW i, NEW b, Joins(t, n, S, i, b), Housed(n, S), Tally(t, n, S),
         NEW v, v = Rehash(t, i, b)
  PROVE  Tally(v, n, S \cup {i})
<1>0. S \in SUBSET Items /\ i \in Items \ S
  BY DEF Joins
<1>1. PICK q : q = <<i>> \o Bucket(t, b)
  OBVIOUS
<1>2. /\ Joined(t, v, n, S, i, b)
      /\ v.nonideal = IF Len(q) > t.ideal THEN t.nonideal + 1 ELSE t.nonideal
  BY <1>1, RehashedPlaced
<1>3. PICK d \in Nat : d = t.ideal /\ d = v.ideal
  BY <1>2 DEF Tally, Joined
<1>4. PICK G : G = Good(t, n, S)
  OBVIOUS
<1>5. PICK H : H = Good(v, n, S \cup {i})
  OBVIOUS
<1>6. /\ Len(q) > d => H = (G \cup {i}) \ {q[d + 1]} /\ q[d + 1] \in G \cup {i}
      /\ ~(Len(q) > d) => H = G \cup {i}
  <2>1. t.ideal \in Nat
    BY <1>3
  <2>2. GoodMoves(Good(t, n, S), Good(v, n, S \cup {i}), <<i>> \o Bucket(t, b), t.ideal, i)
    BY <1>2, <2>1, GoodFronted
  <2>3. GoodMoves(G, H, q, d, i)
    BY <1>1, <1>3, <1>4, <1>5, <2>2
  <2> QED
    BY <2>3, Zenon DEF GoodMoves
<1>7. G \subseteq S /\ i \notin G /\ IsFiniteSet(S) /\ IsFiniteSet(G)
  <2>1. G \subseteq S
    BY <1>4 DEF Good
  <2>2. i \notin G
    BY <1>0, <2>1
  <2> QED
    BY <1>0, <2>1, <2>2, ItemFacts, FS_Subset
<1>8. /\ IsFiniteSet(G \cup {i}) /\ Cardinality(G \cup {i}) = Cardinality(G) + 1
      /\ Cardinality(S \cup {i}) = Cardinality(S) + 1
      /\ Cardinality(G) \in Nat /\ Cardinality(S) \in Nat
  BY <1>0, <1>7, FS_AddElement, FS_CardinalityType
<1>9. PICK g \in Nat : g = Cardinality(G)
  BY <1>8
<1>10. PICK y \in Nat : y = t.nonideal /\ g + y = Cardinality(S)
  BY <1>4, <1>9 DEF Tally
<1>11. CASE Len(q) > d
  <2>1. PICK x \in G \cup {i} : H = (G \cup {i}) \ {x}
    BY <1>6, <1>11
  <2>2. Cardinality(H) = g
    <3>1. PICK K : K = G \cup {i}
      OBVIOUS
    <3>2. IsFiniteSet(K) /\ Cardinality(K) = g + 1 /\ x \in K /\ H = K \ {x}
      BY <1>8, <1>9, <2>1, <3>1
    <3>3. Cardinality(K \ {x}) = Cardinality(K) - 1
      BY <3>2, FS_RemoveElement
    <3> QED
      BY <3>2, <3>3
  <2>3. v.nonideal = y + 1
    BY <1>2, <1>3, <1>10, <1>11
  <2> QED
    BY <1>3, <1>5, <1>8, <1>10, <2>2, <2>3 DEF Tally
<1>12. CASE ~(Len(q) > d)
  <2>1. Cardinality(H) = g + 1
    BY <1>6, <1>8, <1>9, <1>12
  <2>2. v.nonideal = y
    BY <1>2, <1>3, <1>10, <1>12
  <2> QED
    BY <1>3, <1>5, <1>8, <1>10, <2>1, <2>2 DEF Tally
<1> QED
  BY <1>11, <1>12

(* The tables without an item, a new one and one that grows. *)
LEMMA EmptyPlaced ==
  ASSUME NEW n \in Nat, NEW t, Table(t, n), t.buckets = EmptyBuckets(n)
  PROVE  Placed(t, n, {})
<1>1. ASSUME NEW b \in 0 .. n - 1
      PROVE  BucketIs(t, b, <<>>) /\ ToSet(<<>>) = Share({}, n, b)
  <2>1. t.buckets[b].head = NIL /\ t.buckets[b].count = 0
    BY DEF EmptyBuckets
  <2>2. Share({}, n, b) = {}
    BY DEF Share
  <2> QED
    BY <2>1, <2>2, NoneOpen DEF BucketIs
<1> QED
  BY <1>1 DEF Placed

(* A new table has its initial buckets, all empty, and no items. *)
LEMMA NewTable ==
  ASSUME NEW t, t = HASH_MAKE_TABLE
  PROVE  /\ Placed(t, InitialBuckets, {})
         /\ t.num = InitialBuckets /\ t.items = 0 /\ t.bloom = {}
<1>1. InitialBuckets \in Nat
  BY ItemFacts
<1>2. /\ t.num = InitialBuckets /\ t.items = 0 /\ t.bloom = {}
      /\ t.next = Unset /\ t.prev = Unset /\ t.buckets = EmptyBuckets(InitialBuckets)
      /\ DOMAIN t = {"num", "buckets", "next", "prev", "items", "ideal", "nonideal", "ineff",
                     "noexpand", "bloom"}
  BY DEF HASH_MAKE_TABLE
<1>3. Table(t, InitialBuckets)
  BY <1>2 DEF Table, Unset, EmptyBuckets
<1> QED
  BY <1>1, <1>2, <1>3, EmptyPlaced

(* The doubled table starts with empty buckets; what HASH_EXPAND_BUCKETS *)
(* does not write stays, and no item has been counted yet.               *)
LEMMA GrownTable ==
  ASSUME NEW t, NEW n, Table(t, n), t.num \in Nat \ {0}, t.items \in Nat, NEW u, u = Expanding(t)
  PROVE  Placed(u, 2 * t.num, {}) /\ Fixed(t, u) /\ Tally(u, 2 * t.num, {})
<1>1. PICK m \in Nat \ {0} : m = 2 * t.num
  OBVIOUS
<1>2. PICK x : x = t.items \div m + (IF t.items % m # 0 THEN 1 ELSE 0)
  OBVIOUS
<1>3. u = [t EXCEPT !.buckets = EmptyBuckets(m), !.nonideal = 0, !.ideal = x]
  BY <1>1, <1>2 DEF Expanding
<1>4. /\ DOMAIN u = DOMAIN t /\ u.next = t.next /\ u.prev = t.prev /\ u.buckets = EmptyBuckets(m)
      /\ Fixed(t, u) /\ u.ideal = x /\ u.nonideal = 0
  BY <1>3 DEF Table, Fixed
<1>5. x \in Nat
  <2>1. PICK a \in Nat : a = t.items
    OBVIOUS
  <2>2. a \div m \in Int /\ a % m \in 0 .. m - 1 /\ a = m * (a \div m) + (a % m)
    BY Division
  <2>3. PICK p \in Int : p = a \div m
    BY <2>2
  <2>4. p >= 0
    <3> SUFFICES ASSUME p <= -1 PROVE FALSE
      BY <2>3
    <3>1. m * p <= -m
      BY SMT
    <3> QED
      BY <2>2, <2>3, <3>1
  <2> QED
    BY <1>2, <2>1, <2>3, <2>4
<1>6. Tally(u, m, {})
  <2>1. Good(u, m, {}) = {}
    BY DEF Good
  <2> QED
    BY <1>4, <1>5, <2>1, FS_EmptySet DEF Tally
<1>7. Table(u, m)
  <2>1. /\ DOMAIN EmptyBuckets(m) = 0 .. m - 1
        /\ \A b \in 0 .. m - 1 : DOMAIN EmptyBuckets(m)[b] = {"head", "count", "mult"}
    BY DEF EmptyBuckets
  <2> QED
    BY <1>4, <2>1 DEF Table
<1> QED
  BY <1>1, <1>4, <1>7, <1>6, EmptyPlaced

-----------------------------------------------------------------------------
(* Two sequences without repetitions and without a common element. *)
LEMMA DistinctConcat ==
  ASSUME NEW s, NEW r, Distinct(s), Distinct(r), ToSet(s) \cap ToSet(r) = {},
         NEW t, t = s \o r
  PROVE  Distinct(t) /\ ToSet(t) = ToSet(s) \cup ToSet(r)
<1>1. PICK n \in Nat : n = Len(s)
  BY Elements
<1>2. PICK m \in Nat : m = Len(r)
  BY Elements
<1>3. /\ t \in Seq(Items) /\ Len(t) = n + m
      /\ \A i \in 1 .. n + m : t[i] = IF i <= n THEN s[i] ELSE r[i - n]
  BY <1>1, <1>2, ConcatProperties DEF Distinct
<1>4. /\ \A x : x \in ToSet(s) <=> \E i \in 1 .. n : s[i] = x
      /\ \A x : x \in ToSet(r) <=> \E i \in 1 .. m : r[i] = x
      /\ \A i, j \in 1 .. n : s[i] = s[j] => i = j
      /\ \A i, j \in 1 .. m : r[i] = r[j] => i = j
  BY <1>1, <1>2, Elements
<1>5. DOMAIN t = 1 .. n + m
  BY <1>3, LenProperties
<1>6. \A x : x \in ToSet(t) <=> \E i \in 1 .. n + m : t[i] = x
  BY <1>5 DEF ToSet
<1>7. \A i \in 1 .. n : i \in 1 .. n + m /\ t[i] = s[i] /\ t[i] \in ToSet(s)
  BY <1>3, <1>4
<1>8. ASSUME NEW i \in 1 .. n + m, ~(i <= n)
      PROVE  \E k \in 1 .. m : k = i - n /\ t[i] = r[k] /\ t[i] \in ToSet(r)
  <2>1. PICK k \in 1 .. m : k = i - n
    BY <1>8
  <2> QED
    BY <1>3, <1>4, <1>8, <2>1
<1>9. \A k \in 1 .. m : t[n + k] = r[k] /\ n + k \in 1 .. n + m
  <2> TAKE k \in 1 .. m
  <2>1. PICK i \in 1 .. n + m : i = n + k /\ ~(i <= n) /\ i - n = k
    OBVIOUS
  <2> QED
    BY <1>3, <2>1
<1>10. ASSUME NEW i \in 1 .. n + m, NEW j \in 1 .. n + m, t[i] = t[j] PROVE i = j
  <2>1. CASE i <= n /\ j <= n
    <3>1. i \in 1 .. n /\ j \in 1 .. n
      BY <2>1
    <3>2. s[i] = s[j]
      BY <1>7, <1>10, <3>1
    <3> QED
      BY <1>4, <3>1, <3>2
  <2>2. CASE ~(i <= n) /\ ~(j <= n)
    <3>1. PICK k \in 1 .. m : k = i - n /\ t[i] = r[k]
      BY <1>8, <2>2
    <3>2. PICK l \in 1 .. m : l = j - n /\ t[j] = r[l]
      BY <1>8, <2>2
    <3>3. k = l
      BY <1>4, <1>10, <3>1, <3>2
    <3>4. i - n = j - n
      BY <3>1, <3>2, <3>3
    <3> QED
      BY <3>4
  <2>3. CASE i <= n /\ ~(j <= n)
    <3>1. i \in 1 .. n
      BY <2>3
    <3> QED
      BY <1>7, <1>8, <1>10, <2>3, <3>1
  <2>4. CASE ~(i <= n) /\ j <= n
    <3>1. j \in 1 .. n
      BY <2>4
    <3> QED
      BY <1>7, <1>8, <1>10, <2>4, <3>1
  <2> QED
    BY <2>1, <2>2, <2>3, <2>4
<1>11. ToSet(t) = ToSet(s) \cup ToSet(r)
  <2>1. ASSUME NEW x \in ToSet(s) PROVE x \in ToSet(t)
    <3>1. PICK i \in 1 .. n : s[i] = x
      BY <1>4
    <3> QED
      BY <1>6, <1>7, <3>1
  <2>2. ASSUME NEW x \in ToSet(r) PROVE x \in ToSet(t)
    <3>1. PICK k \in 1 .. m : r[k] = x
      BY <1>4
    <3>2. PICK i \in 1 .. n + m : i = n + k
      BY <1>9
    <3> QED
      BY <1>6, <1>9, <3>1, <3>2
  <2>3. ASSUME NEW i \in 1 .. n + m PROVE t[i] \in ToSet(s) \cup ToSet(r)
    <3>1. CASE i <= n
      <4>1. i \in 1 .. n
        BY <3>1
      <4> QED
        BY <1>7, <4>1
    <3>2. CASE ~(i <= n)
      BY <1>8, <3>2
    <3> QED
      BY <3>1, <3>2
  <2>4. ASSUME NEW x \in ToSet(t) PROVE x \in ToSet(s) \cup ToSet(r)
    <3>1. PICK i \in 1 .. n + m : t[i] = x
      BY <1>6
    <3> QED
      BY <2>3, <3>1
  <2> QED
    BY <2>1, <2>2, <2>4
<1>12. IsInjective(t)
  BY <1>5, <1>10 DEF IsInjective
<1> QED
  BY <1>3, <1>11, <1>12 DEF Distinct

(* What BucketOrder joins. *)
IsOrder(g, t) ==
  g = [b \in 0 .. t.num |-> IF b = 0 THEN <<>> ELSE g[b - 1] \o Bucket(t, b - 1)]

(* The items of the first b of n buckets. *)
Early(S, n, b) == {i \in S : ToBkt(i, n) \in 0 .. b - 1}

(* The items in the order of the buckets are those of the table, once each. *)
LEMMA Ordered ==
  ASSUME NEW n \in Nat, NEW S \in SUBSET Items, NEW t, Placed(t, n, S), t.num = n,
         \A i \in S : ToBkt(i, n) \in 0 .. n - 1
  PROVE  Distinct(BucketOrder(t)) /\ ToSet(BucketOrder(t)) = S
<1>1. \A b \in 0 .. n - 1 : Distinct(Bucket(t, b)) /\ ToSet(Bucket(t, b)) = Share(S, n, b)
  <2> TAKE b \in 0 .. n - 1
  <2>1. PICK s : BucketIs(t, b, s) /\ ToSet(s) = Share(S, n, b)
    BY DEF Placed
  <2>2. Bucket(t, b) = s
    BY <2>1, Walked DEF BucketIs, Bucket
  <2> QED
    BY <2>1, <2>2 DEF BucketIs
<1>2. PICK f : f = [k \in 1 .. n |-> [q \in Seq(Items) |-> q \o Bucket(t, k - 1)]]
  OBVIOUS
<1>3. PICK g : Iterates(g, n, <<>>, f, Seq(Items))
  <2>1. <<>> \in Seq(Items)
    OBVIOUS
  <2>2. ASSUME NEW k \in 1 .. n, NEW q \in Seq(Items)
        PROVE  q \o Bucket(t, k - 1) \in Seq(Items)
    <3>1. k - 1 \in 0 .. n - 1
      OBVIOUS
    <3>2. Bucket(t, k - 1) \in Seq(Items)
      BY <1>1, <3>1 DEF Distinct
    <3> QED
      BY <3>2, ConcatProperties
  <2>3. f \in Steps(n, Seq(Items))
    BY <1>2, <2>2 DEF Steps
  <2> QED
    BY <2>1, <2>3, RecursionExists
<1>4. IsOrder(g, t)
  <2>1. /\ g = [b \in 0 .. n |-> g[b]] /\ g[0] = <<>>
        /\ \A b \in 0 .. n : g[b] \in Seq(Items)
        /\ \A b \in 1 .. n : g[b] = f[b][g[b - 1]]
    BY <1>3 DEF Iterates
  <2>2. ASSUME NEW b \in 0 .. n, b # 0 PROVE g[b] = g[b - 1] \o Bucket(t, b - 1)
    <3>1. b \in 1 .. n /\ b - 1 \in 0 .. n
      BY <2>2
    <3> QED
      BY <1>2, <2>1, <3>1
  <2>3. g = [b \in 0 .. n |-> IF b = 0 THEN <<>> ELSE g[b - 1] \o Bucket(t, b - 1)]
    BY <2>1, <2>2
  <2> QED
    BY <2>3 DEF IsOrder
<1>5. PICK w : w = CHOOSE h : IsOrder(h, t)
  OBVIOUS
<1>6. IsOrder(w, t)
  BY <1>4, <1>5
<1>7. w[0] = <<>> /\ \A b \in 0 .. n : b # 0 => w[b] = w[b - 1] \o Bucket(t, b - 1)
  <2>1. PICK v : v = [b \in 0 .. n |-> IF b = 0 THEN <<>> ELSE w[b - 1] \o Bucket(t, b - 1)]
    OBVIOUS
  <2>2. v = w
    BY <1>6, <2>1 DEF IsOrder
  <2>3. v[0] = <<>> /\ \A b \in 0 .. n : b # 0 => v[b] = w[b - 1] \o Bucket(t, b - 1)
    <3>1. 0 \in 0 .. n
      OBVIOUS
    <3> QED
      BY Zenon, <2>1, <3>1
  <2> QED
    BY <2>2, <2>3
<1> DEFINE T == {b \in Nat : b <= n => Distinct(w[b]) /\ ToSet(w[b]) = Early(S, n, b)}
<1>8. 0 \in T
  <2>1. Early(S, n, 0) = {}
    BY DEF Early
  <2> QED
    BY <1>7, <2>1, NoneOpen
<1>9. ASSUME NEW b \in Nat, b \in T PROVE b + 1 \in T
  <2> SUFFICES ASSUME b + 1 <= n
               PROVE  Distinct(w[b + 1]) /\ ToSet(w[b + 1]) = Early(S, n, b + 1)
    OBVIOUS
  <2>1. b <= n /\ b \in 0 .. n - 1
    OBVIOUS
  <2>2. Distinct(w[b]) /\ ToSet(w[b]) = Early(S, n, b)
    BY <1>9, <2>1
  <2>3. PICK r : r = Bucket(t, b)
    OBVIOUS
  <2>4. Distinct(r) /\ ToSet(r) = Share(S, n, b)
    BY <1>1, <2>1, <2>3
  <2>5. w[b + 1] = w[b] \o r
    <3>1. PICK k \in 0 .. n : k = b + 1 /\ k # 0 /\ k - 1 = b
      OBVIOUS
    <3>2. w[k] = w[k - 1] \o Bucket(t, k - 1)
      BY <1>7, <3>1
    <3> QED
      BY <2>3, <3>1, <3>2
  <2>6. Early(S, n, b) \cap Share(S, n, b) = {}
    BY DEF Early, Share
  <2>7. Distinct(w[b + 1]) /\ ToSet(w[b + 1]) = Early(S, n, b) \cup Share(S, n, b)
    <3>1. PICK q : q = w[b]
      OBVIOUS
    <3>2. PICK x : x = w[b + 1]
      OBVIOUS
    <3>3. Distinct(q) /\ ToSet(q) \cap ToSet(r) = {} /\ x = q \o r
      BY <2>2, <2>4, <2>5, <2>6, <3>1, <3>2
    <3>4. Distinct(x) /\ ToSet(x) = ToSet(q) \cup ToSet(r)
      BY <2>4, <3>3, DistinctConcat
    <3> QED
      BY <2>2, <2>4, <3>1, <3>2, <3>4
  <2>8. Early(S, n, b + 1) = Early(S, n, b) \cup Share(S, n, b)
    <3>1. \A x : x \in 0 .. (b + 1) - 1 <=> x \in 0 .. b - 1 \/ x = b
      OBVIOUS
    <3> QED
      BY <3>1 DEF Early, Share
  <2> QED
    BY <2>7, <2>8
<1> HIDE DEF T
<1>10. n \in T
  BY <1>8, <1>9, SetInduction
<1>11. Distinct(w[n]) /\ ToSet(w[n]) = Early(S, n, n)
  BY <1>10 DEF T
<1>12. Early(S, n, n) = S
  BY DEF Early
<1>13. BucketOrder(t) = w[n]
  <2>1. BucketOrder(t) = LET v == CHOOSE h : IsOrder(h, t) IN v[t.num]
    BY Zenon DEF BucketOrder, IsOrder
  <2> QED
    BY <1>5, <2>1
<1> QED
  BY <1>11, <1>12, <1>13

(* What Moved goes through. *)
IsMoved(m, u, order, n) ==
  m = [k \in 0 .. Len(order) |->
         IF k = 0 THEN u ELSE Rehash(m[k - 1], order[k], ToBkt(order[k], n))]

GoesTo(m, u, order, n, l) ==
  m[0] = u /\ \A k \in 1 .. l : m[k] = Rehash(m[k - 1], order[k], ToBkt(order[k], n))

(* The items of order, once each, are moved to an empty table. *)
LEMMA MovedPlaced ==
  ASSUME NEW n, NEW order, Distinct(order), \A i \in ToSet(order) : ToBkt(i, n) \in 0 .. n - 1,
         NEW u, Placed(u, n, {}), Tally(u, n, {}), NEW v, v = Moved(u, order, n)
  PROVE  Placed(v, n, ToSet(order)) /\ Fixed(u, v) /\ Tally(v, n, ToSet(order))
<1>1. PICK l \in Nat : l = Len(order)
  BY Elements
<1> DEFINE T == {k \in Nat : \E m : GoesTo(m, u, order, n, k)}
<1>2. 0 \in T
  <2>1. GoesTo([k \in 0 .. 0 |-> u], u, order, n, 0)
    BY DEF GoesTo
  <2> QED
    BY <2>1
<1>3. ASSUME NEW k \in Nat, k \in T PROVE k + 1 \in T
  <2>1. PICK m : GoesTo(m, u, order, n, k)
    BY <1>3
  <2>2. PICK e : e = Rehash(m[k], order[k + 1], ToBkt(order[k + 1], n))
    OBVIOUS
  <2>3. PICK h : h = [j \in 0 .. k + 1 |-> IF j = k + 1 THEN e ELSE m[j]]
    OBVIOUS
  <2>4. h[0] = u
    <3>1. h[0] = m[0]
      BY <2>3
    <3> QED
      BY <2>1, <3>1 DEF GoesTo
  <2>5. ASSUME NEW j \in 1 .. k + 1 PROVE h[j] = Rehash(h[j - 1], order[j], ToBkt(order[j], n))
    <3>1. h[j - 1] = m[j - 1]
      BY <2>3
    <3>2. CASE j = k + 1
      <4>1. j - 1 = k /\ h[j] = e
        BY <2>3, <3>2
      <4> QED
        BY <2>2, <3>1, <3>2, <4>1
    <3>3. CASE j # k + 1
      <4>1. j \in 1 .. k /\ h[j] = m[j]
        BY <2>3, <3>3
      <4> QED
        BY <2>1, <3>1, <4>1 DEF GoesTo
    <3> QED
      BY <3>2, <3>3
  <2>6. GoesTo(h, u, order, n, k + 1)
    BY <2>4, <2>5 DEF GoesTo
  <2> QED
    BY <2>6
<1> HIDE DEF T
<1>4. PICK g : GoesTo(g, u, order, n, l)
  <2>1. l \in T
    BY <1>2, <1>3, SetInduction
  <2> QED
    BY <2>1 DEF T
<1>5. \E m : IsMoved(m, u, order, n)
  <2>1. PICK m : m = [k \in 0 .. l |-> g[k]]
    OBVIOUS
  <2>2. ASSUME NEW k \in 0 .. l
        PROVE  g[k] = IF k = 0 THEN u ELSE Rehash(m[k - 1], order[k], ToBkt(order[k], n))
    <3>1. CASE k = 0
      BY <1>4, <3>1 DEF GoesTo
    <3>2. CASE k # 0
      <4>1. k \in 1 .. l /\ m[k - 1] = g[k - 1]
        BY <2>1, <3>2
      <4> QED
        BY <1>4, <3>2, <4>1 DEF GoesTo
    <3> QED
      BY <3>1, <3>2
  <2>3. IsMoved(m, u, order, n)
    BY <1>1, <2>1, <2>2 DEF IsMoved
  <2> QED
    BY <2>3
<1>6. PICK w : w = CHOOSE m : IsMoved(m, u, order, n)
  OBVIOUS
<1>7. IsMoved(w, u, order, n)
  BY <1>5, <1>6
<1>8. GoesTo(w, u, order, n, l)
  <2>1. PICK x : x = [k \in 0 .. l |->
                        IF k = 0 THEN u ELSE Rehash(w[k - 1], order[k], ToBkt(order[k], n))]
    OBVIOUS
  <2>2. x = w
    BY <1>1, <1>7, <2>1 DEF IsMoved
  <2>3. x[0] = u /\ \A k \in 1 .. l : x[k] = Rehash(w[k - 1], order[k], ToBkt(order[k], n))
    BY <2>1
  <2> QED
    BY <2>2, <2>3 DEF GoesTo
<1> DEFINE First(k) == {order[j] : j \in 1 .. k}
           P(k) == Placed(w[k], n, First(k)) /\ Fixed(u, w[k]) /\ Tally(w[k], n, First(k))
           U == {k \in Nat : k <= l => P(k)}
<1>9. 0 \in U
  <2>1. First(0) = {} /\ w[0] = u
    BY <1>8 DEF GoesTo
  <2> QED
    BY <2>1 DEF Fixed
<1>10. ASSUME NEW k \in Nat, k \in U PROVE k + 1 \in U
  <2> SUFFICES ASSUME k + 1 <= l PROVE P(k + 1)
    OBVIOUS
  <2>1. P(k)
    BY <1>10
  <2>2. PICK i : i = order[k + 1]
    OBVIOUS
  <2>3. /\ i \in Items \ First(k) /\ First(k) \in SUBSET Items /\ i \in ToSet(order)
        /\ First(k + 1) = First(k) \cup {i}
    <3>1. k + 1 \in 1 .. l /\ \A j \in 1 .. k : j \in 1 .. l /\ j # k + 1
      OBVIOUS
    <3>2. /\ \A j \in 1 .. l : order[j] \in Items /\ order[j] \in ToSet(order)
          /\ \A j, h \in 1 .. l : order[j] = order[h] => j = h
      BY <1>1, Elements
    <3>3. \A j : j \in 1 .. k + 1 <=> j \in 1 .. k \/ j = k + 1
      OBVIOUS
    <3>4. \A j \in 1 .. k : order[j] \in Items /\ order[j] # i
      BY <2>2, <3>1, <3>2
    <3>5. First(k + 1) = First(k) \cup {i}
      BY <2>2, <3>3
    <3> QED
      BY <2>2, <3>1, <3>2, <3>4, <3>5
  <2>4. PICK b \in 0 .. n - 1 : b = ToBkt(i, n)
    BY <2>3
  <2>5. Housed(n, First(k))
    <3>1. \A j \in 1 .. k : order[j] \in ToSet(order)
      <4>1. \A j \in 1 .. k : j \in 1 .. l
        OBVIOUS
      <4> QED
        BY <1>1, <4>1, Elements
    <3> QED
      BY <3>1 DEF Housed
  <2>6. w[k + 1] = Rehash(w[k], i, b)
    <3>1. PICK j \in 1 .. l : j = k + 1 /\ j - 1 = k
      OBVIOUS
    <3>2. w[j] = Rehash(w[j - 1], order[j], ToBkt(order[j], n))
      BY <1>8, <3>1 DEF GoesTo
    <3> QED
      BY <2>2, <2>4, <3>1, <3>2
  <2> HIDE DEF First
  <2>7. /\ Placed(w[k + 1], n, First(k) \cup {i}) /\ Fixed(w[k], w[k + 1])
        /\ Tally(w[k + 1], n, First(k) \cup {i})
    <3>1. Joins(w[k], n, First(k), i, b)
      BY <2>1, <2>3, <2>4 DEF Joins
    <3>2. Tally(w[k], n, First(k))
      BY <2>1
    <3>3. Joined(w[k], w[k + 1], n, First(k), i, b)
      BY <2>6, <3>1, RehashedPlaced
    <3>4. Tally(w[k + 1], n, First(k) \cup {i})
      BY <2>6, <2>5, <3>1, <3>2, RehashedTally
    <3> QED
      BY <3>3, <3>4 DEF Joined
  <2> QED
    BY <2>1, <2>3, <2>7 DEF Fixed
<1> HIDE DEF U
<1>11. P(l)
  <2>1. l \in U
    BY <1>9, <1>10, SetInduction
  <2> QED
    BY <2>1 DEF U
<1>12. First(l) = ToSet(order)
  BY <1>1, Elements
<1>13. v = w[l]
  <2>1. Moved(u, order, n) = LET x == CHOOSE m : IsMoved(m, u, order, n) IN x[Len(order)]
    BY Zenon DEF Moved, IsMoved
  <2> QED
    BY <1>1, <1>6, <2>1
<1> QED
  BY <1>11, <1>12, <1>13

(* Every item has a bucket. *)
LEMMA HasBucket ==
  ASSUME hashv \in [Items -> HashValues], NEW n \in Nat \ {0}, NEW i \in Items
  PROVE  ToBkt(i, n) \in 0 .. n - 1
<1>1. PICK h \in Nat : h = hashv[i]
  BY HashAssumption
<1>2. h % n \in 0 .. n - 1
  BY Division
<1> QED
  BY <1>1, <1>2 DEF ToBkt

(* From t to v the table gave up growing: it has reason to. *)
StopsWell(t, v, S) ==
  v.noexpand /\ ~t.noexpand => 2 * Cardinality(Good(v, v.num, S)) < Cardinality(S)

(* More than half of the items are not well placed. *)
LEMMA LessThanHalf ==
  ASSUME NEW n, NEW S \in SUBSET Items, NEW t, Tally(t, n, S), t.items = Cardinality(S), Ineffective(t)
  PROVE  2 * Cardinality(Good(t, n, S)) < Cardinality(S)
<1>1. /\ IsFiniteSet(S) /\ Cardinality(S) \in Nat
      /\ IsFiniteSet(Good(t, n, S)) /\ Cardinality(Good(t, n, S)) \in Nat
  <2>1. Good(t, n, S) \in SUBSET S
    BY DEF Good
  <2>2. IsFiniteSet(S)
    BY ItemFacts, FS_Subset
  <2> QED
    BY <2>1, <2>2, FS_Subset, FS_CardinalityType
<1>2. PICK g \in Nat : g = Cardinality(Good(t, n, S))
  BY <1>1
<1>3. PICK c \in Nat : c = Cardinality(S)
  BY <1>1
<1>4. PICK y \in Nat : y = t.nonideal /\ g + y = c
  BY <1>2, <1>3 DEF Tally
<1>5. y > c \div 2
  BY <1>3, <1>4 DEF Ineffective
<1>6. 2 * g < c
  BY <1>4, <1>5, SMT
<1> QED
  BY <1>2, <1>3, <1>6

(* Growth loses no item and places each in its bucket of twice as many. *)
LEMMA ExpandedPlaced ==
  ASSUME hashv \in [Items -> HashValues], NEW n \in Nat \ {0}, NEW S \in SUBSET Items,
         NEW t, Placed(t, n, S), t.num = n, t.items = Cardinality(S),
         NEW v, v = HASH_EXPAND_BUCKETS(t)
  PROVE  /\ Placed(v, 2 * n, S) /\ v.num = 2 * n /\ v.items = t.items /\ v.bloom = t.bloom
         /\ StopsWell(t, v, S)
<1>1. PICK m \in Nat \ {0} : m = 2 * n
  OBVIOUS
<1>2. /\ \A i \in S : ToBkt(i, n) \in 0 .. n - 1
      /\ \A i \in S : ToBkt(i, m) \in 0 .. m - 1
  BY HasBucket
<1>3. PICK order : order = BucketOrder(t)
  OBVIOUS
<1>4. Distinct(order) /\ ToSet(order) = S
  BY <1>2, <1>3, Ordered
<1>5. PICK u : u = Expanding(t)
  OBVIOUS
<1>6. t.items \in Nat
  <2>1. IsFiniteSet(S)
    BY ItemFacts, FS_Subset
  <2> QED
    BY <2>1, FS_CardinalityType
<1>7. Placed(u, m, {}) /\ Fixed(t, u) /\ Tally(u, m, {})
  <2>1. Table(t, n)
    BY DEF Placed
  <2> QED
    BY <1>1, <1>5, <1>6, <2>1, GrownTable
<1>8. PICK w : w = Moved(u, order, m)
  OBVIOUS
<1>9. Placed(w, m, S) /\ Fixed(u, w) /\ Tally(w, m, S)
  BY <1>2, <1>4, <1>7, <1>8, MovedPlaced
<1>10. PICK x : x = IF Ineffective(w) THEN t.ineff + 1 ELSE 0
  OBVIOUS
<1>11. PICK y : y = (w.noexpand \/ x > 1)
  OBVIOUS
<1>12. v = [w EXCEPT !.num = m, !.ineff = x, !.noexpand = y]
  BY <1>1, <1>3, <1>5, <1>8, <1>10, <1>11 DEF HASH_EXPAND_BUCKETS, Doubled
<1>13. Table(w, m)
  BY <1>9 DEF Placed
<1>14. /\ DOMAIN v = DOMAIN w /\ v.next = w.next /\ v.prev = w.prev /\ v.buckets = w.buckets
       /\ v.num = m /\ v.items = w.items /\ v.bloom = w.bloom
       /\ v.ideal = w.ideal /\ v.noexpand = y
  BY <1>12, <1>13 DEF Table
<1>15. Table(v, m)
  BY <1>13, <1>14 DEF Table
<1>16. StopsWell(t, v, S)
  <2> SUFFICES ASSUME v.noexpand, ~t.noexpand PROVE 2 * Cardinality(Good(v, m, S)) < Cardinality(S)
    BY <1>14 DEF StopsWell
  <2>1. w.noexpand = t.noexpand /\ w.items = t.items
    BY <1>7, <1>9 DEF Fixed
  <2>2. x > 1
    <3>1. y
      BY <1>14
    <3>2. w.noexpand \/ x > 1
      BY <1>11, <3>1
    <3> QED
      BY <2>1, <3>2
  <2>3. Ineffective(w)
    <3>1. ~(0 > 1)
      OBVIOUS
    <3> QED
      BY <1>10, <2>2, <3>1
  <2>4. 2 * Cardinality(Good(w, m, S)) < Cardinality(S)
    BY <1>9, <2>1, <2>3, LessThanHalf
  <2>5. \A b : Bucket(v, b) = Bucket(w, b)
    BY <1>14 DEF Bucket
  <2>6. Good(v, m, S) = Good(w, m, S)
    BY <1>14, <2>5 DEF Good
  <2> QED
    BY <2>4, <2>6
<1>17. Placed(v, m, S)
  BY <1>9, <1>14, <1>15, PlacedSame
<1> QED
  BY <1>1, <1>7, <1>9, <1>14, <1>17, <1>16 DEF Fixed

(* An added item is in its bucket, whether the table grew or not. *)
LEMMA AddedPlaced ==
  ASSUME hashv \in [Items -> HashValues], NEW n \in Nat \ {0}, NEW S \in SUBSET Items,
         NEW t, Placed(t, n, S), t.num = n, NEW i \in Items \ S, t.items = Cardinality(S \cup {i}),
         NEW v, v = HASH_ADD_TO_BKT(t, ToBkt(i, n), i)
  PROVE  /\ v.num \in Nat \ {0} /\ Placed(v, v.num, S \cup {i})
         /\ v.items = t.items /\ v.bloom = t.bloom
         /\ StopsWell(t, v, S \cup {i}) /\ (t.noexpand => v.num = t.num)
<1>1. PICK b \in 0 .. n - 1 : b = ToBkt(i, n)
  BY HasBucket
<1>2. PICK u : u = PushFront(t, b, i)
  OBVIOUS
<1>3. Placed(u, n, S \cup {i}) /\ Fixed(t, u)
  <2>1. Joins(t, n, S, i, b)
    BY <1>1 DEF Joins
  <2> QED
    BY <1>2, <2>1, PushedPlaced DEF Joined
<1>4. v = u \/ (v = HASH_EXPAND_BUCKETS(u) /\ ~u.noexpand)
  BY <1>1, <1>2 DEF HASH_ADD_TO_BKT
<1>5. u.num = n /\ u.items = t.items /\ u.bloom = t.bloom /\ u.noexpand = t.noexpand
  BY <1>3 DEF Fixed
<1>6. CASE v = u
  <2>1. StopsWell(t, v, S \cup {i})
    BY <1>5, <1>6 DEF StopsWell
  <2> QED
    BY <1>3, <1>5, <1>6, <2>1
<1>7. CASE v = HASH_EXPAND_BUCKETS(u) /\ ~u.noexpand
  <2>1. PICK R \in SUBSET Items : R = S \cup {i}
    OBVIOUS
  <2>2. /\ Placed(v, 2 * n, R) /\ v.num = 2 * n /\ v.items = u.items /\ v.bloom = u.bloom
        /\ StopsWell(u, v, R)
    <3>1. Placed(u, n, R) /\ u.num = n /\ u.items = Cardinality(R) /\ v = HASH_EXPAND_BUCKETS(u)
      BY <1>3, <1>5, <1>7, <2>1
    <3> QED
      BY <3>1, ExpandedPlaced
  <2>3. StopsWell(t, v, S \cup {i})
    BY <1>5, <2>1, <2>2 DEF StopsWell
  <2> QED
    BY <1>5, <1>7, <2>1, <2>2, <2>3
<1> QED
  BY <1>4, <1>6, <1>7

-----------------------------------------------------------------------------
(* The element at j taken out of a list: its neighbours pass it by. *)
LEMMA Relinked ==
  ASSUME NEW s, Distinct(s), NEW hd, NEW nx, NEW pv, Open(hd, nx, pv, s),
         NEW j \in 1 .. Len(s), NEW i, i = s[j], NEW x, x = pv[i], NEW y, y = nx[i],
         NEW nxt, nxt = Relink(nx, x, y, i), NEW prv, prv = Relink(pv, y, x, i),
         NEW r, r = RemoveAt(s, j), NEW h, h = IF hd = i THEN y ELSE hd
  PROVE  /\ Open(h, nxt, prv, r)
         /\ Distinct(r) /\ ToSet(r) = ToSet(s) \ {i} /\ Len(r) = Len(s) - 1
         /\ hd = i <=> j = 1
         /\ x = IF j > 1 THEN s[j - 1] ELSE NIL
         /\ x = NIL <=> j = 1
         /\ y = NIL <=> j = Len(s)
         /\ x \in ToSet(s) \cup {NIL} /\ y \in ToSet(s) \cup {NIL}
<1>1. PICK n \in Nat : n = Len(s)
  BY Elements
<1>2. /\ \A k \in 1 .. n : s[k] \in Items /\ s[k] # NIL /\ s[k] \in ToSet(s)
      /\ \A k, l \in 1 .. n : s[k] = s[l] => k = l
  BY <1>1, Elements
<1>3. /\ hd = IF n = 0 THEN NIL ELSE s[1]
      /\ \A k \in 1 .. n : nx[s[k]] = IF k < n THEN s[k + 1] ELSE NIL
      /\ \A k \in 1 .. n : pv[s[k]] = IF k > 1 THEN s[k - 1] ELSE NIL
  BY <1>1 DEF Open
<1>4. x = IF j > 1 THEN s[j - 1] ELSE NIL
  BY <1>1, <1>3
<1>5. y = IF j < n THEN s[j + 1] ELSE NIL
  BY <1>1, <1>3
<1>6. 1 \in 1 .. n /\ hd = s[1] /\ j \in 1 .. n /\ j \in Nat
  BY <1>1, <1>3
<1>7. hd = i <=> j = 1
  BY <1>2, <1>6
<1>8. x \in ToSet(s) \cup {NIL} /\ (x = NIL <=> j = 1)
  <2>1. CASE j > 1
    <3>1. j - 1 \in 1 .. n
      BY <1>6, <2>1
    <3> QED
      BY <1>2, <1>4, <2>1, <3>1
  <2>2. CASE ~(j > 1)
    <3>1. j = 1
      BY <1>6, <2>2
    <3> QED
      BY <1>4, <2>2, <3>1
  <2> QED
    BY <2>1, <2>2
<1>9. y \in ToSet(s) \cup {NIL} /\ (y = NIL <=> j = n)
  <2>1. CASE j < n
    <3>1. j + 1 \in 1 .. n /\ j # n
      BY <1>6, <2>1
    <3> QED
      BY <1>2, <1>5, <2>1, <3>1
  <2>2. CASE ~(j < n)
    <3>1. j = n
      BY <1>6, <2>2
    <3> QED
      BY <1>5, <2>2, <3>1
  <2> QED
    BY <2>1, <2>2
<1>10. ASSUME NEW k \in 1 .. n, k # j
       PROVE  /\ s[k] \in Items /\ s[k] # i
              /\ s[k] = x <=> k = j - 1
              /\ s[k] = y <=> k = j + 1
  <2>1. s[k] \in Items /\ s[k] # i /\ s[k] # NIL
    BY <1>2, <1>6, <1>10
  <2>2. s[k] = x <=> k = j - 1
    <3>1. CASE j > 1
      <4>1. PICK m \in 1 .. n : m = j - 1
        BY <1>6, <3>1
      <4> QED
        BY <1>2, <1>4, <3>1, <4>1
    <3>2. CASE ~(j > 1)
      BY <1>4, <1>6, <2>1, <3>2
    <3> QED
      BY <3>1, <3>2
  <2>3. s[k] = y <=> k = j + 1
    <3>1. CASE j < n
      <4>1. PICK m \in 1 .. n : m = j + 1
        BY <1>6, <3>1
      <4> QED
        BY <1>2, <1>5, <3>1, <4>1
    <3>2. CASE ~(j < n)
      <4>1. k # j + 1
        BY <1>6, <3>2
      <4> QED
        BY <1>5, <2>1, <3>2, <4>1
    <3> QED
      BY <3>1, <3>2
  <2> QED
    BY <2>1, <2>2, <2>3
<1>11. ASSUME NEW k \in 1 .. n, k # j
       PROVE  nxt[s[k]] = IF k = j - 1 THEN nx[s[j]] ELSE nx[s[k]]
  BY <1>10, <1>11 DEF Relink
<1>12. ASSUME NEW k \in 1 .. n, k # j
       PROVE  prv[s[k]] = IF k = j + 1 THEN pv[s[j]] ELSE pv[s[k]]
  BY <1>10, <1>12 DEF Relink
<1>13. h = IF j = 1 THEN nx[s[1]] ELSE hd
  BY <1>7
<1>14. Open(h, nxt, prv, r)
  <2>1. PassedBy(s, j, nx, nxt, j - 1)
    BY <1>1, <1>11 DEF PassedBy
  <2>2. PassedBy(s, j, pv, prv, j + 1)
    BY <1>1, <1>12 DEF PassedBy
  <2> QED
    BY <1>13, <2>1, <2>2, OpenDrop
<1>15. Distinct(r) /\ ToSet(r) = ToSet(s) \ {i} /\ Len(r) = Len(s) - 1
  BY RemoveAtProperties, RemoveAtSet DEF Distinct
<1> QED
  BY <1>1, <1>4, <1>7, <1>8, <1>9, <1>14, <1>15

(* The fields after an item was taken out of bucket b. *)
LEMMA DeletedFields ==
  ASSUME NEW n, NEW t, Table(t, n), NEW b \in 0 .. n - 1, NEW i \in Items,
         NEW x, x = t.prev[i], NEW y, y = t.next[i],
         NEW u, u = HASH_DEL_IN_BKT(t, b, i)
  PROVE  /\ Table(u, n) /\ Fixed(t, u)
         /\ u.next = Relink(t.next, x, y, i) /\ u.prev = Relink(t.prev, y, x, i)
         /\ u.buckets[b].head = IF t.buckets[b].head = i THEN y ELSE t.buckets[b].head
         /\ u.buckets[b].count = t.buckets[b].count - 1
         /\ \A c \in 0 .. n - 1 : c # b => u.buckets[c] = t.buckets[c]
<1>1. PICK h : h = IF t.buckets[b].head = i THEN y ELSE t.buckets[b].head
  OBVIOUS
<1>2. PICK e : e = [t.buckets[b] EXCEPT !.count = t.buckets[b].count - 1, !.head = h]
  OBVIOUS
<1>3. PICK f : f = Relink(t.next, x, y, i)
  OBVIOUS
<1>4. PICK g : g = Relink(t.prev, y, x, i)
  OBVIOUS
<1>5. u = [t EXCEPT !.buckets[b] = e, !.next = f, !.prev = g]
  BY <1>1, <1>2, <1>3, <1>4 DEF HASH_DEL_IN_BKT
<1>6. /\ DOMAIN u = DOMAIN t /\ Fixed(t, u) /\ u.next = f /\ u.prev = g
      /\ u.buckets = [t.buckets EXCEPT ![b] = e]
  BY <1>5 DEF Table, Fixed
<1>7. DOMAIN f = Items /\ DOMAIN g = Items
  BY <1>3, <1>4 DEF Relink
<1>8. /\ DOMAIN u.buckets = 0 .. n - 1 /\ u.buckets[b] = e
      /\ \A c \in 0 .. n - 1 : c # b => u.buckets[c] = t.buckets[c]
  BY <1>6 DEF Table
<1>9. /\ DOMAIN e = {"head", "count", "mult"}
      /\ e.head = h /\ e.count = t.buckets[b].count - 1
  BY <1>2 DEF Table
<1>10. Table(u, n)
  BY <1>6, <1>7, <1>8, <1>9 DEF Table
<1> QED
  BY <1>1, <1>3, <1>4, <1>6, <1>8, <1>9, <1>10

(* The other items stay where they are. *)
LEMMA DeletedPlaced ==
  ASSUME NEW n, NEW S \in SUBSET Items, NEW t, Placed(t, n, S),
         NEW i \in S, NEW b \in 0 .. n - 1, b = ToBkt(i, n),
         NEW u, u = HASH_DEL_IN_BKT(t, b, i)
  PROVE  Placed(u, n, S \ {i}) /\ Fixed(t, u)
<1>1. Table(t, n) /\ i \in Items
  BY DEF Placed
<1>2. PICK s : BucketIs(t, b, s) /\ ToSet(s) = Share(S, n, b)
  BY DEF Placed
<1>3. Distinct(s) /\ Open(t.buckets[b].head, t.next, t.prev, s) /\ t.buckets[b].count = Len(s)
  BY <1>2 DEF BucketIs
<1>4. PICK j \in 1 .. Len(s) : s[j] = i
  <2>1. i \in ToSet(s)
    BY <1>2 DEF Share
  <2> QED
    BY <1>3, <2>1, Elements
<1>5. PICK x : x = t.prev[i]
  OBVIOUS
<1>6. PICK y : y = t.next[i]
  OBVIOUS
<1>7. PICK h : h = t.buckets[b].head
  OBVIOUS
<1>8. PICK r : r = RemoveAt(s, j)
  OBVIOUS
<1>9. /\ Table(u, n) /\ Fixed(t, u)
      /\ u.next = Relink(t.next, x, y, i) /\ u.prev = Relink(t.prev, y, x, i)
      /\ u.buckets[b].head = IF h = i THEN y ELSE h
      /\ u.buckets[b].count = t.buckets[b].count - 1
      /\ \A c \in 0 .. n - 1 : c # b => u.buckets[c] = t.buckets[c]
  BY <1>1, <1>5, <1>6, <1>7, DeletedFields
<1>10. /\ Open(u.buckets[b].head, u.next, u.prev, r)
       /\ Distinct(r) /\ ToSet(r) = ToSet(s) \ {i} /\ Len(r) = Len(s) - 1
       /\ x \in ToSet(s) \cup {NIL} /\ y \in ToSet(s) \cup {NIL}
  <2>1. Open(h, t.next, t.prev, s)
    BY <1>3, <1>7
  <2> QED
    BY <1>3, <1>4, <1>5, <1>6, <1>8, <1>9, <2>1, Relinked
<1>11. BucketIs(u, b, r) /\ ToSet(r) = Share(S \ {i}, n, b)
  <2>1. ToSet(r) = Share(S \ {i}, n, b)
    BY <1>2, <1>10 DEF Share
  <2> QED
    BY <1>3, <1>9, <1>10, <2>1 DEF BucketIs
<1>12. ASSUME NEW c \in 0 .. n - 1, c # b
       PROVE  \E q : BucketIs(u, c, q) /\ ToSet(q) = Share(S \ {i}, n, c)
  <2>1. PICK q : BucketIs(t, c, q) /\ ToSet(q) = Share(S, n, c)
    BY DEF Placed
  <2>2. Distinct(q) /\ Open(t.buckets[c].head, t.next, t.prev, q) /\ t.buckets[c].count = Len(q)
    BY <2>1 DEF BucketIs
  <2>3. ASSUME NEW k \in 1 .. Len(q)
        PROVE  u.next[q[k]] = t.next[q[k]] /\ u.prev[q[k]] = t.prev[q[k]]
    <3>1. q[k] \in Items /\ q[k] # NIL /\ q[k] \in ToSet(q)
      BY <2>2, Elements
    <3>2. q[k] # i /\ q[k] \notin ToSet(s)
      BY <1>2, <1>12, <2>1, <3>1 DEF Share
    <3>3. q[k] # x /\ q[k] # y
      BY <1>10, <3>1, <3>2
    <3> QED
      BY <1>9, <3>1, <3>2, <3>3 DEF Relink
  <2>4. Open(t.buckets[c].head, u.next, u.prev, q)
    BY <2>2, <2>3, OpenSame
  <2>5. BucketIs(u, c, q)
    BY <1>9, <1>12, <2>2, <2>4 DEF BucketIs
  <2>6. Share(S \ {i}, n, c) = Share(S, n, c)
    BY <1>12 DEF Share
  <2> QED
    BY <2>1, <2>5, <2>6
<1> QED
  BY <1>9, <1>11, <1>12 DEF Placed

-----------------------------------------------------------------------------
(* The chain c, in application order, is the sequence s. *)
Chained(c, s) ==
  /\ DOMAIN c = {"head", "next", "prev", "tail"}
  /\ DOMAIN c.next = Items /\ DOMAIN c.prev = Items
  /\ Open(c.head, c.next, c.prev, s)
  /\ c.tail = IF Len(s) = 0 THEN NIL ELSE s[Len(s)]

(* The filter of t has the bits of all elements of s. *)
Filtered(t, s) == \A i \in ToSet(s) : BloomIndex(i) \in t.bloom

(* The table t holds the elements of s. *)
Held(t, s) ==
  /\ t.num \in Nat \ {0}
  /\ Placed(t, t.num, ToSet(s))
  /\ t.items = Len(s)
  /\ Filtered(t, s)

(* The inductive invariant: the list in application order and the buckets   *)
(* hold the same items, those that were added.                              *)
HInv ==
  /\ hashv \in [Items -> HashValues]
  /\ Distinct(added)
  /\ Chained(app, added)
  /\ Held(tbl, added)

(* The head tells whether there are items. *)
LEMMA HeadTells ==
  ASSUME NEW c, NEW s, Distinct(s), Chained(c, s)
  PROVE  c.head = NIL <=> s = <<>>
<1>1. PICK n \in Nat : n = Len(s)
  BY Elements
<1>2. c.head = IF n = 0 THEN NIL ELSE s[1]
  BY <1>1 DEF Chained, Open
<1>3. n # 0 => s[1] # NIL
  <2>1. n # 0 => 1 \in 1 .. n
    OBVIOUS
  <2> QED
    BY <1>1, <2>1, Elements
<1> QED
  BY <1>1, <1>2, <1>3, Elements

(* No items. *)
LEMMA NoneHeld == Chained(NoItems, <<>>) /\ Held(HASH_MAKE_TABLE, <<>>)
<1>1. PICK t : t = HASH_MAKE_TABLE
  OBVIOUS
<1>2. Placed(t, InitialBuckets, {}) /\ t.num = InitialBuckets /\ t.items = 0
  BY <1>1, NewTable
<1>3. Held(t, <<>>)
  BY <1>2, NoneOpen, ItemFacts DEF Held, Filtered
<1>4. Chained(NoItems, <<>>)
  BY NoneOpen DEF Chained, NoItems, Unset
<1> QED
  BY <1>1, <1>3, <1>4

(* What HASH_ADD_KEYPTR makes of the chain c. *)
Lengthened(c, i) ==
  IF c.head = NIL
    THEN [head |-> i, next |-> [c.next EXCEPT ![i] = NIL],
          prev |-> [c.prev EXCEPT ![i] = NIL], tail |-> i]
    ELSE [c EXCEPT !.next[i] = NIL, !.next[c.tail] = i, !.prev[i] = c.tail, !.tail = i]

(* The added item ends the list. *)
LEMMA ChainedAdd ==
  ASSUME NEW s, Distinct(s), NEW c, Chained(c, s), NEW i \in Items, i \notin ToSet(s),
         NEW d, d = Lengthened(c, i)
  PROVE  Chained(d, Append(s, i))
<1>1. PICK n \in Nat : n = Len(s)
  BY Elements
<1>2. PICK t : t = Append(s, i)
  OBVIOUS
<1>3. Len(t) = n + 1 /\ t[n + 1] = i
  BY <1>1, <1>2, AppendProperties DEF Distinct
<1>4. c.head = NIL <=> n = 0
  BY <1>1, HeadTells, Elements
<1>5. DOMAIN c.next = Items /\ DOMAIN c.prev = Items
      /\ DOMAIN c = {"head", "next", "prev", "tail"}
  BY DEF Chained
<1>6. CASE n = 0
  <2>1. /\ d.head = i /\ d.next = [c.next EXCEPT ![i] = NIL]
        /\ d.prev = [c.prev EXCEPT ![i] = NIL] /\ d.tail = i
        /\ DOMAIN d = {"head", "next", "prev", "tail"}
    BY <1>4, <1>6 DEF Lengthened
  <2>2. d.next[i] = NIL /\ d.prev[i] = NIL /\ DOMAIN d.next = Items /\ DOMAIN d.prev = Items
    BY <1>5, <2>1
  <2>3. Len(t) = 1 /\ t[1] = i
    BY <1>3, <1>6
  <2>4. Open(i, d.next, d.prev, t)
    <3>1. \A k \in 1 .. 1 : k = 1
      OBVIOUS
    <3> QED
      BY <2>2, <2>3, <3>1 DEF Open
  <2> QED
    BY <1>2, <2>1, <2>2, <2>3, <2>4 DEF Chained
<1>7. CASE n # 0
  <2>1. PICK z : z = c.tail
    OBVIOUS
  <2>2. n \in 1 .. n /\ z = s[n]
    BY <1>1, <1>7, <2>1 DEF Chained
  <2>3. /\ \A k \in 1 .. n : s[k] \in Items /\ s[k] # i
        /\ \A k \in 1 .. n : s[k] = z <=> k = n
    BY <1>1, <2>2, Elements
  <2>4. d = [c EXCEPT !.next[i] = NIL, !.next[z] = i, !.prev[i] = z, !.tail = i]
    BY <1>4, <1>7, <2>1 DEF Lengthened
  <2>5. /\ d.next = [c.next EXCEPT ![i] = NIL, ![z] = i] /\ d.prev = [c.prev EXCEPT ![i] = z]
        /\ d.head = c.head /\ d.tail = i /\ DOMAIN d = DOMAIN c
    BY <1>5, <2>4
  <2>6. z \in Items /\ z # i
    BY <2>2, <2>3
  <2>7. /\ d.next[i] = NIL /\ \A e \in Items : e # i => d.next[e] = IF e = z THEN i ELSE c.next[e]
        /\ d.prev[i] = z /\ \A e \in Items : e # i => d.prev[e] = c.prev[e]
        /\ DOMAIN d.next = Items /\ DOMAIN d.prev = Items
    BY <1>5, <2>5, <2>6
  <2>8. \A k \in 1 .. Len(s) : d.next[s[k]] = IF k = Len(s) THEN i ELSE c.next[s[k]]
    BY <1>1, <2>3, <2>7
  <2>9. \A k \in 1 .. Len(s) : d.prev[s[k]] = c.prev[s[k]]
    BY <1>1, <2>3, <2>7
  <2>10. d.prev[i] = s[Len(s)] /\ Len(s) # 0
    BY <1>1, <1>7, <2>2, <2>7
  <2>11. Open(c.head, c.next, c.prev, s)
    BY DEF Chained
  <2>12. Open(c.head, d.next, d.prev, t)
    <3>1. PICK nxt : nxt = d.next
      OBVIOUS
    <3>2. PICK prv : prv = d.prev
      OBVIOUS
    <3>3. /\ nxt[i] = NIL
          /\ \A k \in 1 .. Len(s) : nxt[s[k]] = IF k = Len(s) THEN i ELSE c.next[s[k]]
          /\ prv[i] = s[Len(s)] /\ \A k \in 1 .. Len(s) : prv[s[k]] = c.prev[s[k]]
      BY <2>7, <2>8, <2>9, <2>10, <3>1, <3>2
    <3>4. Open(c.head, nxt, prv, Append(s, i))
      BY <2>10, <2>11, <3>3, OpenBack
    <3> QED
      BY <1>2, <3>1, <3>2, <3>4
  <2> QED
    BY <1>2, <1>3, <1>5, <2>5, <2>7, <2>12 DEF Chained
<1> QED
  BY <1>6, <1>7

(* An item that is not the only one leaves the list. *)
LEMMA ChainedDelete ==
  ASSUME NEW s, Distinct(s), NEW c, Chained(c, s), NEW j \in 1 .. Len(s), NEW i, i = s[j],
         NEW x, x = c.prev[i], NEW y, y = c.next[i], ~(x = NIL /\ y = NIL),
         NEW d, d = [c EXCEPT !.tail = IF c.tail = i THEN x ELSE c.tail,
                              !.head = IF x = NIL THEN y ELSE c.head,
                              !.next = Relink(c.next, x, y, i),
                              !.prev = Relink(c.prev, y, x, i)]
  PROVE  Chained(d, RemoveAt(s, j))
<1>1. PICK n \in Nat : n = Len(s) /\ j \in 1 .. n
  BY Elements
<1>2. PICK r : r = RemoveAt(s, j)
  OBVIOUS
<1>3. PICK nxt : nxt = Relink(c.next, x, y, i)
  OBVIOUS
<1>4. PICK prv : prv = Relink(c.prev, y, x, i)
  OBVIOUS
<1>5. PICK h : h = IF c.head = i THEN y ELSE c.head
  OBVIOUS
<1>6. Open(c.head, c.next, c.prev, s)
  BY DEF Chained
<1>7. /\ Open(h, nxt, prv, r) /\ Len(r) = Len(s) - 1
      /\ c.head = i <=> j = 1
      /\ x = IF j > 1 THEN s[j - 1] ELSE NIL
      /\ x = NIL <=> j = 1
      /\ y = NIL <=> j = Len(s)
  BY <1>2, <1>3, <1>4, <1>5, <1>6, Relinked
<1>8. PICK l : l = IF c.tail = i THEN x ELSE c.tail
  OBVIOUS
<1>9. d = [c EXCEPT !.tail = l, !.head = h, !.next = nxt, !.prev = prv]
  <2>1. h = IF x = NIL THEN y ELSE c.head
    BY <1>5, <1>7
  <2> QED
    BY <1>3, <1>4, <1>8, <2>1
<1>10. /\ DOMAIN d = {"head", "next", "prev", "tail"}
       /\ d.head = h /\ d.next = nxt /\ d.prev = prv /\ d.tail = l
  BY <1>9 DEF Chained
<1>11. DOMAIN nxt = Items /\ DOMAIN prv = Items
  BY <1>3, <1>4 DEF Relink
<1>12. Len(r) = n - 1 /\ n - 1 # 0 /\ l = r[n - 1]
  <2>1. n # 1
    BY <1>1, <1>7
  <2>2. n \in 1 .. n /\ n - 1 \in 1 .. n - 1 /\ n - 1 # 0
    BY <1>1, <2>1
  <2>3. c.tail = s[n]
    BY <1>1, <2>2 DEF Chained
  <2>4. c.tail = i <=> j = n
    BY <1>1, <2>2, <2>3, Elements
  <2>5. \A k \in 1 .. n - 1 : r[k] = IF k < j THEN s[k] ELSE s[k + 1]
    BY <1>1, <1>2, RemoveAtProperties DEF Distinct
  <2>6. CASE j = n
    <3>1. j > 1 /\ j - 1 = n - 1 /\ n - 1 < j
      BY <2>1, <1>1, <2>6
    <3>2. l = s[n - 1]
      BY <1>7, <1>8, <2>4, <2>6, <3>1
    <3> QED
      BY <1>1, <1>7, <2>2, <2>5, <3>1, <3>2
  <2>7. CASE j # n
    <3>1. ~(n - 1 < j) /\ (n - 1) + 1 = n
      BY <1>1, <2>7
    <3>2. l = s[n]
      BY <1>8, <2>3, <2>4, <2>7
    <3> QED
      BY <1>1, <1>7, <2>2, <2>5, <3>1, <3>2
  <2> QED
    BY <2>6, <2>7
<1>13. Chained(d, r)
  BY <1>7, <1>10, <1>11, <1>12 DEF Chained
<1> QED
  BY <1>2, <1>13

-----------------------------------------------------------------------------
(* What the calls leave, if the hashes stay as they are. *)
LEMMA NextHeld ==
  ASSUME hashv' = hashv, NEW s, added' = s, NEW t, tbl' = t, Held(t, s)
  PROVE  Held(tbl, added)'
  BY DEF Held, Filtered, BloomIndex, Placed, Share, ToBkt

(* From t to v, which holds the elements of s, the table grew as it should. *)
GrowsWell(t, v, s) == StopsWell(t, v, ToSet(s)) /\ (t.noexpand => v.num = t.num)

(* HASH_ADD_KEYPTR: to the table, too. *)
LEMMA HeldAdd ==
  ASSUME hashv \in [Items -> HashValues],
         NEW s, Distinct(s), NEW t, Held(t, s), NEW i \in Items, i \notin ToSet(s),
         NEW v, v = HASH_BLOOM_ADD(HASH_ADD_TO_BKT([t EXCEPT !.items = @ + 1], ToBkt(i, t.num), i), i)
  PROVE  Held(v, Append(s, i)) /\ GrowsWell(t, v, Append(s, i))
<1>1. PICK n \in Nat \ {0} : n = t.num
  BY DEF Held
<1>2. PICK S \in SUBSET Items : S = ToSet(s)
  BY DistinctCount
<1>3. Placed(t, n, S) /\ t.items = Len(s) /\ \A e \in S : BloomIndex(e) \in t.bloom
  BY <1>1, <1>2 DEF Held, Filtered
<1>4. Table(t, n)
  BY <1>3 DEF Placed
<1>5. PICK u : u = [t EXCEPT !.items = t.items + 1]
  OBVIOUS
<1>6. /\ DOMAIN u = DOMAIN t /\ u.next = t.next /\ u.prev = t.prev /\ u.buckets = t.buckets
      /\ u.num = n /\ u.items = t.items + 1 /\ u.bloom = t.bloom /\ u.noexpand = t.noexpand
  BY <1>1, <1>4, <1>5 DEF Table
<1>7. Placed(u, n, S)
  <2>1. Table(u, n)
    BY <1>4, <1>6 DEF Table
  <2> QED
    BY <1>3, <1>6, <2>1, PlacedSame
<1>8. PICK w : w = HASH_ADD_TO_BKT(u, ToBkt(i, n), i)
  OBVIOUS
<1>9. ToSet(Append(s, i)) = S \cup {i} /\ Len(Append(s, i)) = Len(s) + 1
  BY <1>2, AppendSet, AppendProperties DEF Distinct
<1>10. /\ w.num \in Nat \ {0} /\ Placed(w, w.num, S \cup {i})
      /\ w.items = u.items /\ w.bloom = u.bloom
      /\ StopsWell(u, w, S \cup {i}) /\ (u.noexpand => w.num = u.num)
  <2>1. i \in Items \ S
    BY <1>2
  <2>2. u.items = Cardinality(S \cup {i})
    <3>1. Distinct(Append(s, i))
      BY AppendProperties, AppendInjectiveSeq DEF Distinct
    <3>2. Cardinality(ToSet(Append(s, i))) = Len(Append(s, i))
      BY <3>1, DistinctCount
    <3> QED
      BY <1>3, <1>6, <1>9, <3>2
  <2>3. u.num = n
    BY <1>6
  <2> QED
    BY <1>7, <1>8, <2>1, <2>2, <2>3, AddedPlaced
<1>11. Table(w, w.num)
  BY <1>10 DEF Placed
<1>12. v = [w EXCEPT !.bloom = w.bloom \cup {BloomIndex(i)}]
  BY <1>1, <1>5, <1>8 DEF HASH_BLOOM_ADD
<1>13. /\ DOMAIN v = DOMAIN w /\ v.next = w.next /\ v.prev = w.prev /\ v.buckets = w.buckets
       /\ v.num = w.num /\ v.items = w.items /\ v.bloom = w.bloom \cup {BloomIndex(i)}
       /\ v.noexpand = w.noexpand /\ v.ideal = w.ideal
  BY <1>11, <1>12 DEF Table
<1>14. Placed(v, v.num, S \cup {i})
  <2>1. Table(v, w.num)
    BY <1>11, <1>13 DEF Table
  <2> QED
    BY <1>10, <1>13, <2>1, PlacedSame
<1>15. v.items = Len(s) + 1
  BY <1>3, <1>6, <1>10, <1>13
<1>16. Filtered(v, Append(s, i))
  BY <1>3, <1>6, <1>10, <1>13, <1>9 DEF Filtered
<1>17. GrowsWell(t, v, Append(s, i))
  <2>1. \A b : Bucket(v, b) = Bucket(w, b)
    BY <1>13 DEF Bucket
  <2>2. Good(v, v.num, S \cup {i}) = Good(w, w.num, S \cup {i})
    BY <1>13, <2>1 DEF Good
  <2>3. u.noexpand = t.noexpand /\ v.noexpand = w.noexpand /\ v.num = w.num /\ u.num = t.num
    BY <1>1, <1>6, <1>13
  <2>4. StopsWell(u, w, S \cup {i}) /\ (u.noexpand => w.num = u.num)
    BY <1>10
  <2>5. StopsWell(t, v, S \cup {i})
    BY <2>2, <2>3, <2>4 DEF StopsWell
  <2>6. t.noexpand => v.num = t.num
    BY <2>3, <2>4
  <2> QED
    BY <1>9, <2>5, <2>6 DEF GrowsWell
<1>18. Held(v, Append(s, i))
  BY <1>10, <1>13, <1>14, <1>9, <1>15, <1>16 DEF Held
<1> QED
  BY <1>17, <1>18

(* From t to v, which holds the elements of s, an item was deleted. *)
Shrinks(t, v, s) == Held(v, s) /\ v.num = t.num /\ v.noexpand = t.noexpand

(* HASH_DELETE: from the table, too. *)
LEMMA HeldDelete ==
  ASSUME hashv \in [Items -> HashValues],
         NEW s, Distinct(s), NEW t, Held(t, s), NEW j \in 1 .. Len(s), NEW i, i = s[j],
         NEW v, v = [HASH_DEL_IN_BKT(t, ToBkt(i, t.num), i) EXCEPT !.items = @ - 1]
  PROVE  Shrinks(t, v, RemoveAt(s, j))
<1>1. PICK n \in Nat \ {0} : n = t.num
  BY DEF Held
<1>2. PICK S \in SUBSET Items : S = ToSet(s)
  BY DistinctCount
<1>3. Placed(t, n, S) /\ t.items = Len(s) /\ \A e \in S : BloomIndex(e) \in t.bloom
  BY <1>1, <1>2 DEF Held, Filtered
<1>4. i \in S
  BY <1>2, Elements
<1>5. PICK b \in 0 .. n - 1 : b = ToBkt(i, n)
  BY <1>4, HasBucket
<1>6. PICK u : u = HASH_DEL_IN_BKT(t, b, i)
  OBVIOUS
<1>7. Placed(u, n, S \ {i}) /\ u.num = n /\ u.items = t.items /\ u.bloom = t.bloom
      /\ u.noexpand = t.noexpand
  <2>1. Placed(u, n, S \ {i}) /\ Fixed(t, u)
    BY <1>3, <1>4, <1>5, <1>6, DeletedPlaced
  <2> QED
    BY <1>1, <2>1 DEF Fixed
<1>8. Table(u, n)
  BY <1>7 DEF Placed
<1>9. v = [u EXCEPT !.items = u.items - 1]
  BY <1>1, <1>5, <1>6
<1>10. /\ DOMAIN v = DOMAIN u /\ v.next = u.next /\ v.prev = u.prev /\ v.buckets = u.buckets
       /\ v.num = n /\ v.items = u.items - 1 /\ v.bloom = u.bloom /\ v.noexpand = u.noexpand
  BY <1>7, <1>8, <1>9 DEF Table
<1>11. Placed(v, n, S \ {i})
  <2>1. Table(v, n)
    BY <1>8, <1>10 DEF Table
  <2> QED
    BY <1>7, <1>10, <2>1, PlacedSame
<1>12. ToSet(RemoveAt(s, j)) = S \ {i} /\ Len(RemoveAt(s, j)) = Len(s) - 1
  BY <1>2, RemoveAtProperties, RemoveAtSet DEF Distinct
<1>13. v.items = Len(s) - 1
  BY <1>3, <1>7, <1>10
<1>14. Filtered(v, RemoveAt(s, j))
  BY <1>3, <1>7, <1>10, <1>12 DEF Filtered
<1>15. Held(v, RemoveAt(s, j))
  BY <1>10, <1>11, <1>12, <1>13, <1>14 DEF Held
<1> QED
  BY <1>1, <1>7, <1>10, <1>15 DEF Shrinks

(* The invariant is inductive. *)
LEMMA HInvInit == HashInit => HInv
<1> SUFFICES ASSUME HashInit PROVE HInv
  OBVIOUS
<1> QED
  BY NoneHeld, NoneOpen DEF HashInit, HInv

(* HASH_ADD_KEYPTR keeps the invariant, whether the table doubles or not. *)
LEMMA HInvAdd ==
  ASSUME HInv, NEW i \in Items, HASH_ADD_KEYPTR(i)
  PROVE  HInv'
<1>1. hashv \in [Items -> HashValues] /\ Distinct(added) /\ Chained(app, added) /\ Held(tbl, added)
  BY DEF HInv
<1>2. PICK s : s = added
  OBVIOUS
<1>3. /\ i \notin ToSet(s) /\ added' = Append(s, i) /\ hashv' = hashv
  BY <1>2 DEF HASH_ADD_KEYPTR
<1>4. Distinct(s) /\ Chained(app, s) /\ Held(tbl, s)
  BY <1>1, <1>2
<1>5. Distinct(Append(s, i))
  BY <1>3, <1>4, AppendProperties, AppendInjectiveSeq DEF Distinct
<1>6. Chained(app', Append(s, i))
  <2>1. app' = Lengthened(app, i)
    BY DEF HASH_ADD_KEYPTR, Lengthened
  <2> QED
    BY <1>3, <1>4, <2>1, ChainedAdd
<1>7. Held(tbl', Append(s, i))
  <2>1. PICK t : t = IF app.head = NIL THEN HASH_MAKE_TABLE ELSE tbl
    OBVIOUS
  <2>2. Held(t, s)
    <3>1. CASE app.head = NIL
      <4>1. s = <<>>
        BY <1>4, <3>1, HeadTells
      <4> QED
        BY <2>1, <3>1, <4>1, NoneHeld
    <3>2. CASE app.head # NIL
      BY <1>4, <2>1, <3>2
    <3> QED
      BY <3>1, <3>2
  <2>3. tbl' = HASH_BLOOM_ADD(HASH_ADD_TO_BKT([t EXCEPT !.items = @ + 1], ToBkt(i, t.num), i), i)
    BY <2>1 DEF HASH_ADD_KEYPTR
  <2> QED
    BY <1>1, <1>3, <1>4, <2>2, <2>3, HeldAdd
<1>8. Held(tbl, added)'
  BY <1>3, <1>7, NextHeld
<1> QED
  BY <1>1, <1>3, <1>5, <1>6, <1>8 DEF HInv

(* HASH_DELETE keeps the invariant; the last item takes the table along. *)
LEMMA HInvDelete ==
  ASSUME HInv, NEW i \in Items, HASH_DELETE(i)
  PROVE  HInv'
<1>1. hashv \in [Items -> HashValues] /\ Distinct(added) /\ Chained(app, added) /\ Held(tbl, added)
  BY DEF HInv
<1>2. PICK s : s = added
  OBVIOUS
<1>3. PICK j \in 1 .. Len(s) : i = s[j] /\ added' = RemoveAt(s, j)
  BY <1>2 DEF HASH_DELETE
<1>4. Distinct(s) /\ Chained(app, s) /\ Held(tbl, s) /\ hashv' = hashv
  BY <1>1, <1>2 DEF HASH_DELETE
<1>5. PICK x : x = app.prev[i]
  OBVIOUS
<1>6. PICK y : y = app.next[i]
  OBVIOUS
<1>7. PICK r : r = RemoveAt(s, j)
  OBVIOUS
<1>8. /\ Distinct(r) /\ Len(r) = Len(s) - 1
      /\ x = NIL <=> j = 1
      /\ y = NIL <=> j = Len(s)
  <2>1. Open(app.head, app.next, app.prev, s)
    BY <1>4 DEF Chained
  <2> QED
    BY <1>3, <1>4, <1>5, <1>6, <1>7, <2>1, Relinked
<1>9. CASE x = NIL /\ y = NIL
  <2>1. app' = NoItems /\ tbl' = HASH_MAKE_TABLE
    BY <1>5, <1>6, <1>9 DEF HASH_DELETE
  <2>2. r = <<>>
    <3>1. Len(r) = 0
      BY <1>8, <1>9
    <3> QED
      BY <1>8, <3>1, Elements
  <2>3. Chained(app', r) /\ Held(tbl', r)
    BY <2>1, <2>2, NoneHeld
  <2>4. Held(tbl, added)'
    BY <1>3, <1>4, <1>7, <2>3, NextHeld
  <2> QED
    BY <1>1, <1>3, <1>4, <1>7, <1>8, <2>3, <2>4 DEF HInv
<1>10. CASE ~(x = NIL /\ y = NIL)
  <2>1. app' = [app EXCEPT !.tail = IF app.tail = i THEN x ELSE app.tail,
                           !.head = IF x = NIL THEN y ELSE app.head,
                           !.next = Relink(app.next, x, y, i),
                           !.prev = Relink(app.prev, y, x, i)]
    BY <1>5, <1>6, <1>10 DEF HASH_DELETE, TailAfter
  <2>2. tbl' = [HASH_DEL_IN_BKT(tbl, ToBkt(i, tbl.num), i) EXCEPT !.items = @ - 1]
    BY <1>5, <1>6, <1>10 DEF HASH_DELETE
  <2>3. Chained(app', r)
    BY <1>3, <1>4, <1>5, <1>6, <1>7, <1>10, <2>1, ChainedDelete
  <2>4. Held(tbl', r)
    <3>1. PICK v : v = tbl'
      OBVIOUS
    <3>2. Shrinks(tbl, v, RemoveAt(s, j))
      BY <1>1, <1>3, <1>4, <2>2, <3>1, HeldDelete
    <3> QED
      BY <1>7, <3>1, <3>2 DEF Shrinks
  <2>5. Held(tbl, added)'
    BY <1>3, <1>4, <1>7, <2>4, NextHeld
  <2> QED
    BY <1>1, <1>3, <1>4, <1>7, <1>8, <2>3, <2>5 DEF HInv
<1> QED
  BY <1>9, <1>10

(* So does every step. *)
LEMMA HInvNext == HInv /\ [HashNext]_hashVars => HInv'
<1> SUFFICES ASSUME HInv, [HashNext]_hashVars PROVE HInv'
  OBVIOUS
<1>1. ASSUME NEW i \in Items, HASH_ADD_KEYPTR(i) PROVE HInv'
  BY <1>1, HInvAdd
<1>2. ASSUME NEW i \in Items, HASH_DELETE(i) PROVE HInv'
  BY <1>2, HInvDelete
<1>3. CASE HASH_CLEAR
  <2>1. app' = NoItems /\ tbl' = HASH_MAKE_TABLE /\ added' = <<>> /\ hashv' = hashv
    BY <1>3 DEF HASH_CLEAR
  <2>2. Held(tbl, added)'
    BY <2>1, NoneHeld, NextHeld
  <2> QED
    BY <2>1, <2>2, NoneHeld, NoneOpen DEF HInv
<1>4. CASE UNCHANGED hashVars
  BY <1>4 DEF hashVars, HInv, Held, Filtered, BloomIndex, Placed, Share, ToBkt
<1> QED
  BY <1>1, <1>2, <1>3, <1>4 DEF HashNext

-----------------------------------------------------------------------------
(* The prevs of a list lead back. *)
LEMMA LeadBack ==
  ASSUME NEW s, NEW hd, NEW nx, NEW pv, Open(hd, nx, pv, s), Distinct(s)
  PROVE  \A k \in 1 .. Len(s) : pv[s[k]] = IF k = 1 THEN NIL ELSE s[k - 1]
<1>1. PICK n \in Nat : n = Len(s)
  BY Elements
<1>2. \A k \in 1 .. n : pv[s[k]] = IF k > 1 THEN s[k - 1] ELSE NIL
  BY <1>1 DEF Open
<1>3. \A k \in 1 .. n : k > 1 <=> k # 1
  OBVIOUS
<1> QED
  BY <1>1, <1>2, <1>3

(* The walk over a bucket finds the added items that belong there. *)
LEMMA BucketsHold ==
  ASSUME HInv, NEW b \in 0 .. tbl.num - 1
  PROVE  /\ BucketIs(tbl, b, Bucket(tbl, b))
         /\ ToSet(Bucket(tbl, b)) = Share(ToSet(added), tbl.num, b)
<1>1. PICK s : BucketIs(tbl, b, s) /\ ToSet(s) = Share(ToSet(added), tbl.num, b)
  BY DEF HInv, Held, Placed
<1>2. Bucket(tbl, b) = s
  BY <1>1, Walked DEF BucketIs, Bucket
<1> QED
  BY <1>1, <1>2

(* A key is found exactly while it is in the table. *)
LEMMA HInvFinds == HInv => FindExact
<1> SUFFICES ASSUME HInv, NEW i \in Items
             PROVE  HASH_FIND(i) = IF i \in ToSet(added) THEN i ELSE NIL
  BY DEF FindExact
<1>1. PICK n \in Nat \ {0} : n = tbl.num
  BY DEF HInv, Held
<1>2. PICK b \in 0 .. n - 1 : b = ToBkt(i, n)
  BY HasBucket DEF HInv
<1>3. PICK s : s = Bucket(tbl, b)
  OBVIOUS
<1>4. ToSet(s) = Share(ToSet(added), n, b)
  BY <1>1, <1>2, <1>3, BucketsHold
<1>5. i \in ToSet(s) <=> i \in ToSet(added)
  BY <1>2, <1>4 DEF Share
<1>6. i \in ToSet(added) => app.head # NIL /\ HASH_BLOOM_TEST(tbl, i)
  <2>1. i \in ToSet(added) => added # <<>>
    BY NoneOpen
  <2>2. app.head = NIL <=> added = <<>>
    BY HeadTells DEF HInv
  <2>3. Filtered(tbl, added)
    BY DEF HInv, Held
  <2> QED
    BY <2>1, <2>2, <2>3 DEF Filtered, HASH_BLOOM_TEST
<1> QED
  BY <1>1, <1>2, <1>3, <1>5, <1>6 DEF HASH_FIND

(* Both ways through the table lead over the added items. *)
LEMMA HInvSound == HInv => TableSound
<1> SUFFICES ASSUME HInv PROVE TableSound
  OBVIOUS
<1>1. Distinct(added) /\ Chained(app, added) /\ Held(tbl, added)
  BY DEF HInv
<1>2. PICK l \in Nat : l = Len(added)
  BY <1>1, Elements
<1>3. app.head = NIL <=> added = <<>>
  BY <1>1, HeadTells
<1>4. Open(app.head, app.next, app.prev, added)
  BY <1>1 DEF Chained
<1>5. HASH_ITER = added
  BY <1>1, <1>4, Walked DEF HASH_ITER
<1>6. PICK n \in Nat \ {0} : n = tbl.num
  BY <1>1 DEF Held
<1>7. tbl.items = l /\ Placed(tbl, n, ToSet(added))
  BY <1>1, <1>2, <1>6 DEF Held
<1>8. HASH_COUNT = Len(added)
  <2>1. added = <<>> => l = 0
    BY <1>1, <1>2, Elements
  <2> QED
    BY <1>2, <1>3, <1>7, <2>1 DEF HASH_COUNT
<1>9. Lists("HASH", app, added)
  <2>1. /\ app.head = IF l = 0 THEN NIL ELSE added[1]
        /\ \A k \in 1 .. l : app.next[added[k]] = IF k < l THEN added[k + 1] ELSE NIL
        /\ \A k \in 1 .. l : app.prev[added[k]] = IF k > 1 THEN added[k - 1] ELSE NIL
        /\ app.tail = IF l = 0 THEN NIL ELSE added[l]
    BY <1>1, <1>2, <1>4 DEF Open, Chained
  <2> QED
    BY <1>2, <2>1 DEF Lists
<1>10. Len(BucketOrder(tbl)) = tbl.items
  <2>1. PICK S \in SUBSET Items : S = ToSet(added)
    BY <1>1, DistinctCount
  <2>2. \A i \in S : ToBkt(i, n) \in 0 .. n - 1
    BY HasBucket DEF HInv
  <2>3. PICK q : q = BucketOrder(tbl)
    OBVIOUS
  <2>4. Distinct(q) /\ ToSet(q) = S
    BY <1>6, <1>7, <2>1, <2>2, <2>3, Ordered
  <2>5. Cardinality(S) = Len(q)
    BY <2>4, DistinctCount
  <2>6. Cardinality(S) = Len(added)
    BY <1>1, <2>1, DistinctCount
  <2> QED
    BY <1>2, <1>7, <2>3, <2>5, <2>6
<1>11. ASSUME NEW b \in 0 .. n - 1
       PROVE  LET s == Bucket(tbl, b)
              IN  /\ \A k \in 1 .. Len(s) : tbl.prev[s[k]] = IF k = 1 THEN NIL ELSE s[k - 1]
                  /\ tbl.buckets[b].count = Len(s)
  <2>1. PICK s : s = Bucket(tbl, b)
    OBVIOUS
  <2>2. Distinct(s) /\ Open(tbl.buckets[b].head, tbl.next, tbl.prev, s) /\ tbl.buckets[b].count = Len(s)
    BY <1>6, <2>1, BucketsHold DEF BucketIs
  <2> QED
    BY <2>1, <2>2, LeadBack
<1>12. \A k \in 1 .. Len(added) : app.prev[added[k]] = IF k = 1 THEN NIL ELSE added[k - 1]
  BY <1>1, <1>4, LeadBack
<1>13. HASH_FSCK
  BY <1>2, <1>5, <1>6, <1>7, <1>10, <1>11, <1>12 DEF HASH_FSCK
<1> QED
  BY <1>8, <1>9, <1>13 DEF TableSound

(* Whatever is added and deleted, in whatever order, and however often the  *)
(* table doubles: the list in application order and the buckets hold the    *)
(* same items, linked both ways, and the counts are right.                  *)
THEOREM HashSound == HashSpec => []TableSound
<1>1. HashSpec => []HInv
  BY HInvInit, HInvNext, PTL DEF HashSpec
<1> QED
  BY <1>1, HInvSound, PTL

(* HASH_FIND finds a key exactly while it is in the table: no doubling      *)
(* loses it, no bit of the filter is missing.                               *)
THEOREM HashFinds == HashSpec => []FindExact
<1>1. HashSpec => []HInv
  BY HInvInit, HInvNext, PTL DEF HashSpec
<1> QED
  BY <1>1, HInvFinds, PTL
-----------------------------------------------------------------------------
(* The good places of the next state, if the hashes stay as they are. *)
LEMMA NextGood ==
  ASSUME hashv' = hashv, NEW s, added' = s, NEW v, tbl' = v
  PROVE  WellPlaced' = Good(v, v.num, ToSet(s))
  BY DEF WellPlaced, Good, Bucket, ToBkt

(* GrowthJustified needs more: no growth is stopped before there is an item. *)
GInv == HInv /\ (added = <<>> => ~tbl.noexpand)

(* GrowthJustified, of one step. *)
JustifiedStep ==
  /\ tbl'.noexpand /\ ~tbl.noexpand => 2 * Cardinality(WellPlaced') < Len(added')
  /\ tbl.noexpand /\ app'.head # NIL => tbl'.num = tbl.num

(* No table starts with the growth stopped. *)
LEMMA NewGrows == ~HASH_MAKE_TABLE.noexpand /\ NoItems.head = NIL
<1>1. HASH_MAKE_TABLE.noexpand = FALSE /\ NoItems.head = NIL
  BY DEF HASH_MAKE_TABLE, NoItems
<1> QED
  BY <1>1

(* HASH_ADD_KEYPTR is the only one to grow. *)
LEMMA AddJustified ==
  ASSUME GInv, NEW i \in Items, HASH_ADD_KEYPTR(i)
  PROVE  JustifiedStep /\ added' # <<>>
<1>1. hashv \in [Items -> HashValues] /\ Distinct(added) /\ Chained(app, added) /\ Held(tbl, added)
  BY DEF GInv, HInv
<1>2. PICK s : s = added
  OBVIOUS
<1>3. /\ i \notin ToSet(s) /\ added' = Append(s, i) /\ hashv' = hashv
  BY <1>2 DEF HASH_ADD_KEYPTR
<1>4. Distinct(s) /\ Chained(app, s) /\ Held(tbl, s)
  BY <1>1, <1>2
<1>5. PICK t : t = IF app.head = NIL THEN HASH_MAKE_TABLE ELSE tbl
  OBVIOUS
<1>6. Held(t, s)
  <2>1. CASE app.head = NIL
    <3>1. s = <<>>
      BY <1>4, <2>1, HeadTells
    <3> QED
      BY <1>5, <2>1, <3>1, NoneHeld
  <2>2. CASE app.head # NIL
    BY <1>4, <1>5, <2>2
  <2> QED
    BY <2>1, <2>2
<1>7. PICK v : v = tbl'
  OBVIOUS
<1>8. v = HASH_BLOOM_ADD(HASH_ADD_TO_BKT([t EXCEPT !.items = @ + 1], ToBkt(i, t.num), i), i)
  BY <1>5, <1>7 DEF HASH_ADD_KEYPTR
<1>9. GrowsWell(t, v, Append(s, i))
  BY <1>1, <1>3, <1>4, <1>6, <1>8, HeldAdd
<1>10. WellPlaced' = Good(v, v.num, ToSet(Append(s, i)))
  BY <1>3, <1>7, NextGood
<1>11. Cardinality(ToSet(Append(s, i))) = Len(Append(s, i))
  <2>1. Distinct(Append(s, i))
    BY <1>3, <1>4, AppendProperties, AppendInjectiveSeq DEF Distinct
  <2> QED
    BY <2>1, DistinctCount
<1>12. app.head = NIL => ~tbl.noexpand
  <2>1. app.head = NIL => added = <<>>
    BY <1>1, HeadTells
  <2> QED
    BY <2>1 DEF GInv
<1>13. ~tbl.noexpand => ~t.noexpand
  BY <1>5, NewGrows
<1>14. tbl.noexpand => t = tbl
  BY <1>5, <1>12
<1>15. v.noexpand /\ ~t.noexpand => 2 * Cardinality(WellPlaced') < Len(Append(s, i))
  <2>1. StopsWell(t, v, ToSet(Append(s, i)))
    BY <1>9 DEF GrowsWell
  <2> QED
    BY <1>10, <1>11, <2>1 DEF StopsWell
<1>16. tbl'.noexpand /\ ~tbl.noexpand => 2 * Cardinality(WellPlaced') < Len(added')
  BY <1>3, <1>7, <1>13, <1>15
<1>17. tbl.noexpand => tbl'.num = tbl.num
  <2>1. t.noexpand => v.num = t.num
    BY <1>9 DEF GrowsWell
  <2> QED
    BY <1>7, <1>14, <2>1
<1>18. added' # <<>>
  <2>1. Len(Append(s, i)) = Len(s) + 1 /\ Len(s) \in Nat
    BY <1>4, AppendProperties, Elements DEF Distinct
  <2>2. Len(<<>>) = 0
    OBVIOUS
  <2> QED
    BY <1>3, <2>1, <2>2
<1> QED
  BY <1>16, <1>17, <1>18 DEF JustifiedStep

(* HASH_DELETE leaves the number of buckets, or takes the table away. *)
LEMMA DeleteJustified ==
  ASSUME GInv, NEW i \in Items, HASH_DELETE(i)
  PROVE  JustifiedStep /\ (added' = <<>> => ~tbl'.noexpand)
<1>1. hashv \in [Items -> HashValues] /\ Distinct(added) /\ Chained(app, added) /\ Held(tbl, added)
  BY DEF GInv, HInv
<1>2. PICK s : s = added
  OBVIOUS
<1>3. PICK j \in 1 .. Len(s) : i = s[j] /\ added' = RemoveAt(s, j)
  BY <1>2 DEF HASH_DELETE
<1>4. Distinct(s) /\ Chained(app, s) /\ Held(tbl, s)
  BY <1>1, <1>2
<1>5. PICK x : x = app.prev[i]
  OBVIOUS
<1>6. PICK y : y = app.next[i]
  OBVIOUS
<1>7. PICK r : r = RemoveAt(s, j)
  OBVIOUS
<1>8. /\ Distinct(r) /\ Len(r) = Len(s) - 1
      /\ x = NIL <=> j = 1
      /\ y = NIL <=> j = Len(s)
  <2>1. Open(app.head, app.next, app.prev, s)
    BY <1>4 DEF Chained
  <2> QED
    BY <1>3, <1>4, <1>5, <1>6, <1>7, <2>1, Relinked
<1>9. CASE x = NIL /\ y = NIL
  <2>1. app' = NoItems /\ tbl' = HASH_MAKE_TABLE
    BY <1>5, <1>6, <1>9 DEF HASH_DELETE
  <2> QED
    BY <2>1, NewGrows DEF JustifiedStep
<1>10. CASE ~(x = NIL /\ y = NIL)
  <2>1. PICK v : v = tbl'
    OBVIOUS
  <2>2. v = [HASH_DEL_IN_BKT(tbl, ToBkt(i, tbl.num), i) EXCEPT !.items = @ - 1]
    BY <1>5, <1>6, <1>10, <2>1 DEF HASH_DELETE
  <2>3. v.num = tbl.num /\ v.noexpand = tbl.noexpand
    <3>1. i = s[j] /\ Distinct(s) /\ Held(tbl, s) /\ hashv \in [Items -> HashValues]
      BY <1>1, <1>3, <1>4
    <3>2. Shrinks(tbl, v, RemoveAt(s, j))
      BY <2>2, <3>1, HeldDelete
    <3> QED
      BY <3>2 DEF Shrinks
  <2>4. added' # <<>>
    <3>1. PICK l \in Nat : l = Len(s)
      BY <1>4, Elements
    <3>2. Len(r) # 0
      BY <1>3, <1>8, <1>10, <3>1
    <3>3. Len(<<>>) = 0
      OBVIOUS
    <3> QED
      BY <1>3, <1>7, <3>2, <3>3
  <2>5. tbl'.num = tbl.num /\ tbl'.noexpand = tbl.noexpand
    BY <2>1, <2>3
  <2> QED
    BY <2>4, <2>5 DEF JustifiedStep
<1> QED
  BY <1>9, <1>10

(* GInv is inductive, and each step from it is justified. *)
LEMMA GInvInit == HashInit => GInv
<1>1. HashInit => tbl = HASH_MAKE_TABLE
  BY DEF HashInit
<1> QED
  BY <1>1, HInvInit, NewGrows DEF GInv

(* Every step keeps it, and stops growing only as GrowthJustified allows. *)
LEMMA GInvNext == GInv /\ [HashNext]_hashVars => GInv' /\ (JustifiedStep \/ UNCHANGED hashVars)
<1> SUFFICES ASSUME GInv, [HashNext]_hashVars
             PROVE  GInv' /\ (JustifiedStep \/ UNCHANGED hashVars)
  OBVIOUS
<1>1. HInv'
  BY HInvNext DEF GInv
<1>2. ASSUME NEW i \in Items, HASH_ADD_KEYPTR(i) PROVE JustifiedStep /\ added' # <<>>
  BY <1>2, AddJustified
<1>3. ASSUME NEW i \in Items, HASH_DELETE(i)
      PROVE  JustifiedStep /\ (added' = <<>> => ~tbl'.noexpand)
  BY <1>3, DeleteJustified
<1>4. CASE HASH_CLEAR
  <2>1. app' = NoItems /\ tbl' = HASH_MAKE_TABLE
    BY <1>4 DEF HASH_CLEAR
  <2>2. JustifiedStep /\ ~tbl'.noexpand
    BY <2>1, NewGrows DEF JustifiedStep
  <2> QED
    BY <1>1, <2>2 DEF GInv
<1>5. CASE UNCHANGED hashVars
  <2>1. added' = added /\ tbl' = tbl
    BY <1>5 DEF hashVars
  <2> QED
    BY <1>1, <1>5, <2>1 DEF GInv
<1> QED
  BY <1>1, <1>2, <1>3, <1>4, <1>5 DEF HashNext, GInv

(* GrowthJustified (HASH_EXPAND_BUCKETS): a table that gives up doubling    *)
(* has most of its items badly placed, and never doubles again.             *)
THEOREM HashGrows == HashSpec => GrowthJustified
<1>1. HashSpec => [][JustifiedStep]_hashVars
  BY GInvInit, GInvNext, PTL DEF HashSpec
<1>2. (HashSpec => [][JustifiedStep]_hashVars) => (HashSpec => GrowthJustified)
  BY Zenon DEF GrowthJustified, JustifiedStep
<1> QED
  BY <1>1, <1>2
=============================================================================
