----------------------------- MODULE UtList_proofs -----------------------------
(***************************************************************************)
(* The pointers of utlist.h are the list, whatever is added and deleted,   *)
(* in any order, for any set of elements; and a FOREACH_SAFE loop visits   *)
(* what was in the list when it began.                                     *)
(*                                                                         *)
(* The first part is about pointers and sequences only: what an insertion  *)
(* at the front or at the back and a deletion have to do to them.  The     *)
(* second part shows that each macro does that.                            *)
(***************************************************************************)
EXTENDS UtList, SequenceLemmas

Pointer == Members \cup {NIL}

Styles == {"LL", "DL", "CDL"}

-----------------------------------------------------------------------------
(* Lists, for the kinds of utlist.h and pointers that are no record. *)
Linked(k, hd, nx, pv, s) ==
  /\ hd = IF Len(s) = 0 THEN NIL ELSE s[1]
  /\ \A i \in 1 .. Len(s) :
       nx[s[i]] = IF i < Len(s) THEN s[i + 1] ELSE IF k = "CDL" THEN s[1] ELSE NIL
  /\ k # "LL" => \A i \in 1 .. Len(s) : pv[s[i]] = IF i > 1 THEN s[i - 1] ELSE s[Len(s)]

LEMMA ListsLinked ==
  ASSUME NEW k \in Styles, NEW c, NEW s
  PROVE  Lists(k, c, s) <=> Linked(k, c.head, c.next, c.prev, s)
<1>1. k # "HASH"
  BY DEF Styles
<1> QED
  BY <1>1 DEF Lists, Linked

(* The elements of a sequence without repetitions. *)
LEMMA Elements ==
  ASSUME NEW S, NEW s \in Seq(S), IsInjective(s)
  PROVE  /\ Len(s) \in Nat
         /\ \A i \in 1 .. Len(s) : s[i] \in S
         /\ \A i, j \in 1 .. Len(s) : s[i] = s[j] => i = j
         /\ \A x : x \in ToSet(s) <=> \E i \in 1 .. Len(s) : s[i] = x
         /\ s = <<>> <=> Len(s) = 0
<1>1. Len(s) \in Nat /\ DOMAIN s = 1 .. Len(s)
  BY LenProperties
<1>2. \A i \in 1 .. Len(s) : s[i] \in S
  BY ElementOfSeq
<1>3. s = <<>> <=> Len(s) = 0
  BY EmptySeq
<1> QED
  BY <1>1, <1>2, <1>3 DEF ToSet, IsInjective

(* A new element in front. *)
LEMMA PrependElements ==
  ASSUME NEW S, NEW s \in Seq(S), IsInjective(s), NEW e \in S, e \notin ToSet(s)
  PROVE  /\ <<e>> \o s \in Seq(S) /\ Len(<<e>> \o s) = Len(s) + 1
         /\ (<<e>> \o s)[1] = e
         /\ \A i \in 2 .. Len(s) + 1 : (<<e>> \o s)[i] = s[i - 1]
         /\ IsInjective(<<e>> \o s)
<1> DEFINE t == <<e>> \o s
<1>1. <<e>> \in Seq(S) /\ Len(<<e>>) = 1 /\ <<e>>[1] = e /\ Len(s) \in Nat
  BY LenProperties
<1>2. /\ t \in Seq(S) /\ Len(t) = 1 + Len(s)
      /\ \A i \in 1 .. 1 + Len(s) : t[i] = IF i <= 1 THEN <<e>>[i] ELSE s[i - 1]
  BY <1>1, ConcatProperties
<1>3. /\ t[1] = e
      /\ \A i \in 2 .. Len(s) + 1 : t[i] = s[i - 1]
  BY <1>1, <1>2
<1> HIDE DEF t
<1>4. \A i \in 1 .. Len(s) : s[i] # e
  BY Elements
<1>5. ASSUME NEW i \in 1 .. Len(s) + 1, NEW j \in 1 .. Len(s) + 1, t[i] = t[j] PROVE i = j
  <2>1. CASE i = 1 \/ j = 1
    BY <1>1, <1>3, <1>4, <1>5, <2>1
  <2>2. CASE i # 1 /\ j # 1
    <3>1. i - 1 \in 1 .. Len(s) /\ j - 1 \in 1 .. Len(s) /\ s[i - 1] = s[j - 1]
      BY <1>1, <1>3, <1>5, <2>2
    <3> QED
      BY <1>1, <3>1, Elements
  <2> QED
    BY <2>1, <2>2
<1>6. DOMAIN t = 1 .. Len(s) + 1
  BY <1>1, <1>2, LenProperties
<1>7. IsInjective(t)
  BY <1>5, <1>6 DEF IsInjective
<1> QED
  BY <1>1, <1>2, <1>3, <1>7 DEF t

(* What a macro has to do to the pointers to put e in front. *)
LEMMA FrontLinked ==
  ASSUME NEW k \in Styles, NEW hd, NEW nx, NEW pv, NEW s \in Seq(Members), IsInjective(s),
         Linked(k, hd, nx, pv, s), NEW e \in Members, e \notin ToSet(s),
         NEW nxt, NEW prv,
         nxt[e] = IF Len(s) = 0 /\ k = "CDL" THEN e ELSE hd,
         \A i \in 1 .. Len(s) :
           nxt[s[i]] = IF i = Len(s) /\ k = "CDL" THEN e ELSE nx[s[i]],
         k # "LL" => prv[e] = IF Len(s) = 0 THEN e ELSE s[Len(s)],
         k # "LL" => \A i \in 1 .. Len(s) : prv[s[i]] = IF i = 1 THEN e ELSE pv[s[i]]
  PROVE  Linked(k, e, nxt, prv, <<e>> \o s)
<1> DEFINE n == Len(s)
<1>0. PICK t : t = <<e>> \o s
  OBVIOUS
<1>1. n \in Nat /\ Len(t) = n + 1 /\ t[1] = e /\ \A i \in 2 .. n + 1 : t[i] = s[i - 1]
  BY <1>0, Elements, PrependElements
<1>2. ASSUME NEW i \in 1 .. n + 1
      PROVE  nxt[t[i]] = IF i < n + 1 THEN t[i + 1] ELSE IF k = "CDL" THEN t[1] ELSE NIL
  <2>1. CASE i = 1
    <3>1. n # 0 => t[2] = s[1] /\ hd = s[1]
      BY <1>1 DEF Linked
    <3>2. n = 0 => hd = NIL
      BY DEF Linked
    <3>3. nxt[t[i]] = IF n = 0 /\ k = "CDL" THEN e ELSE hd
      BY <1>1, <2>1
    <3> QED
      BY <1>1, <2>1, <3>1, <3>2, <3>3
  <2>2. CASE i # 1
    <3>1. PICK j \in 1 .. n : j = i - 1
      BY <1>1, <2>2
    <3>2. t[i] = s[j] /\ i = j + 1
      BY <1>1, <2>2, <3>1
    <3>3. nx[s[j]] = IF j < n THEN s[j + 1] ELSE IF k = "CDL" THEN s[1] ELSE NIL
      BY DEF Linked
    <3>4. j < n => t[i + 1] = s[j + 1]
      BY <1>1, <3>1, <3>2
    <3> QED
      BY <1>1, <3>1, <3>2, <3>3, <3>4
  <2> QED
    BY <2>1, <2>2
<1>3. ASSUME NEW i \in 1 .. n + 1, k # "LL"
      PROVE  prv[t[i]] = IF i > 1 THEN t[i - 1] ELSE t[n + 1]
  <2>1. CASE i = 1
    <3>1. n # 0 => t[n + 1] = s[n]
      BY <1>1
    <3> QED
      BY <1>1, <1>3, <2>1, <3>1
  <2>2. CASE i # 1
    <3>1. PICK j \in 1 .. n : j = i - 1
      BY <1>1, <2>2
    <3>2. t[i] = s[j] /\ i = j + 1
      BY <1>1, <2>2, <3>1
    <3>3. pv[s[j]] = IF j > 1 THEN s[j - 1] ELSE s[n]
      BY <1>3 DEF Linked
    <3>4. j > 1 => t[i - 1] = s[j - 1]
      BY <1>1, <3>1, <3>2
    <3> QED
      BY <1>1, <1>3, <3>1, <3>2, <3>3, <3>4
  <2> QED
    BY <2>1, <2>2
<1>4. Linked(k, e, nxt, prv, t)
  BY <1>1, <1>2, <1>3 DEF Linked
<1> QED
  BY <1>0, <1>4

(* What a macro has to do to put e at the end of a list that is no ring. *)
LEMMA BackLinked ==
  ASSUME NEW k \in {"LL", "DL"}, NEW hd, NEW nx, NEW pv, NEW s \in Seq(Members), IsInjective(s),
         Linked(k, hd, nx, pv, s), NEW e \in Members, e \notin ToSet(s),
         NEW nxt, NEW prv,
         nxt[e] = NIL,
         \A i \in 1 .. Len(s) : nxt[s[i]] = IF i = Len(s) THEN e ELSE nx[s[i]],
         k # "LL" => prv[e] = IF Len(s) = 0 THEN e ELSE s[Len(s)],
         k # "LL" => \A i \in 1 .. Len(s) : prv[s[i]] = IF i = 1 THEN e ELSE pv[s[i]]
  PROVE  Linked(k, IF Len(s) = 0 THEN e ELSE hd, nxt, prv, Append(s, e))
<1> DEFINE n == Len(s)
<1>0. PICK t : t = Append(s, e)
  OBVIOUS
<1>1. n \in Nat /\ Len(t) = n + 1 /\ t[n + 1] = e /\ \A i \in 1 .. n : t[i] = s[i]
  BY <1>0, Elements, AppendProperties
<1>2. ASSUME NEW i \in 1 .. n + 1
      PROVE  nxt[t[i]] = IF i < n + 1 THEN t[i + 1] ELSE NIL
  <2>1. CASE i = n + 1
    BY <1>1, <2>1
  <2>2. CASE i # n + 1
    <3>1. i \in 1 .. n /\ t[i] = s[i]
      BY <1>1, <2>2
    <3>2. nx[s[i]] = IF i < n THEN s[i + 1] ELSE NIL
      BY <3>1 DEF Linked
    <3>3. i < n => t[i + 1] = s[i + 1]
      BY <1>1
    <3> QED
      BY <1>1, <3>1, <3>2, <3>3
  <2> QED
    BY <2>1, <2>2
<1>3. ASSUME NEW i \in 1 .. n + 1, k # "LL"
      PROVE  prv[t[i]] = IF i > 1 THEN t[i - 1] ELSE t[n + 1]
  <2>1. CASE i = n + 1
    <3>1. n # 0 => t[i - 1] = s[n]
      BY <1>1, <2>1
    <3> QED
      BY <1>1, <1>3, <2>1, <3>1
  <2>2. CASE i # n + 1
    <3>1. i \in 1 .. n /\ t[i] = s[i]
      BY <1>1, <2>2
    <3>2. pv[s[i]] = IF i > 1 THEN s[i - 1] ELSE s[n]
      BY <1>3, <3>1 DEF Linked
    <3>3. i > 1 => t[i - 1] = s[i - 1]
      BY <1>1
    <3> QED
      BY <1>1, <1>3, <3>1, <3>2, <3>3
  <2> QED
    BY <2>1, <2>2
<1>4. (IF n = 0 THEN e ELSE hd) = t[1]
  BY <1>1 DEF Linked
<1>5. Linked(k, IF n = 0 THEN e ELSE hd, nxt, prv, t)
  BY <1>1, <1>2, <1>3, <1>4 DEF Linked
<1> QED
  BY <1>0, <1>5

(* What a macro has to do to take out the element at position j: the one    *)
(* before it gets its next, the one behind it - or the head, when it was    *)
(* the last - its prev.                                                     *)
NextsWithout(k, s, j, nx, nxt) ==
  \A i \in 1 .. Len(s) : i # j =>
    nxt[s[i]] = IF i = j - 1 \/ (k = "CDL" /\ j = 1 /\ i = Len(s)) THEN nx[s[j]] ELSE nx[s[i]]

PrevsWithout(s, j, pv, prv) ==
  \A i \in 1 .. Len(s) : i # j =>
    prv[s[i]] = IF i = j + 1 \/ (j = Len(s) /\ i = 1) THEN pv[s[j]] ELSE pv[s[i]]

LEMMA DropLinked ==
  ASSUME NEW k \in Styles, NEW hd, NEW nx, NEW pv, NEW s \in Seq(Members), IsInjective(s),
         Linked(k, hd, nx, pv, s), NEW j \in 1 .. Len(s),
         NEW nxt, NEW prv,
         NextsWithout(k, s, j, nx, nxt), k # "LL" => PrevsWithout(s, j, pv, prv)
  PROVE  Linked(k, IF j # 1 THEN hd ELSE IF Len(s) = 1 THEN NIL ELSE s[2], nxt, prv, RemoveAt(s, j))
<1> DEFINE n == Len(s)
<1>0. PICK t : t = RemoveAt(s, j)
  OBVIOUS
<1> USE DEF NextsWithout, PrevsWithout
<1>1. n \in Nat /\ n >= 1 /\ Len(t) = n - 1
      /\ \A i \in 1 .. n - 1 : t[i] = IF i < j THEN s[i] ELSE s[i + 1]
  <2>1. n \in Nat
    BY LenProperties
  <2>2. Len(t) = n - 1 /\ \A i \in 1 .. n - 1 : t[i] = IF i < j THEN s[i] ELSE s[i + 1]
    BY <1>0, RemoveAtProperties
  <2> QED
    BY <2>1, <2>2
<1>2. \A i \in 1 .. n :
        /\ nx[s[i]] = IF i < n THEN s[i + 1] ELSE IF k = "CDL" THEN s[1] ELSE NIL
        /\ k # "LL" => pv[s[i]] = IF i > 1 THEN s[i - 1] ELSE s[n]
  BY DEF Linked
<1>3. n > 1 => t[1] = (IF j = 1 THEN s[2] ELSE s[1]) /\ t[n - 1] = (IF j = n THEN s[n - 1] ELSE s[n])
  BY <1>1
<1>4. ASSUME NEW i \in 1 .. n - 1
      PROVE  nxt[t[i]] = IF i < n - 1 THEN t[i + 1] ELSE IF k = "CDL" THEN t[1] ELSE NIL
  <2>1. CASE i < j
    <3>1. i \in 1 .. n /\ i # j /\ i < n /\ t[i] = s[i]
      BY <1>1, <2>1
    <3>2. CASE i = j - 1
      <4>1. nxt[t[i]] = nx[s[j]] /\ j > 1
        BY <1>1, <3>1, <3>2
      <4>2. nx[s[j]] = IF j < n THEN s[j + 1] ELSE IF k = "CDL" THEN s[1] ELSE NIL
        BY <1>2
      <4>3. i < n - 1 => j < n /\ t[i + 1] = s[j + 1]
        BY <1>1, <3>2
      <4> QED
        BY <1>1, <1>3, <3>2, <4>1, <4>2, <4>3
    <3>3. CASE i # j - 1
      <4>1. nxt[t[i]] = nx[s[i]]
        BY <1>1, <3>1, <3>3, <2>1
      <4>2. nx[s[i]] = s[i + 1]
        BY <1>2, <3>1
      <4>3. i < n - 1 /\ t[i + 1] = s[i + 1]
        BY <1>1, <2>1, <3>3
      <4> QED
        BY <4>1, <4>2, <4>3
    <3> QED
      BY <3>2, <3>3
  <2>2. CASE ~(i < j)
    <3>1. PICK m \in 1 .. n : m = i + 1
      BY <1>1
    <3>2. m # j /\ m # j - 1 /\ m > 1 /\ t[i] = s[m]
      BY <1>1, <2>2, <3>1
    <3>3. nx[s[m]] = IF m < n THEN s[m + 1] ELSE IF k = "CDL" THEN s[1] ELSE NIL
      BY <1>2
    <3>4. i < n - 1 <=> m < n
      BY <1>1, <3>1
    <3>5. CASE k = "CDL" /\ j = 1 /\ m = n
      <4>1. nxt[t[i]] = nx[s[1]]
        BY <3>2, <3>5
      <4>2. nx[s[1]] = s[2] /\ n > 1
        BY <1>1, <1>2, <3>2, <3>5
      <4> QED
        BY <1>1, <1>3, <3>4, <3>5, <4>1, <4>2
    <3>6. CASE ~(k = "CDL" /\ j = 1 /\ m = n)
      <4>1. nxt[t[i]] = nx[s[m]]
        BY <3>2, <3>6
      <4>2. i < n - 1 => t[i + 1] = s[m + 1]
        BY <1>1, <2>2, <3>1
      <4>3. k = "CDL" /\ m = n => t[1] = s[1]
        BY <1>1, <1>3, <3>2, <3>6
      <4> QED
        BY <1>1, <3>3, <3>4, <4>1, <4>2, <4>3
    <3> QED
      BY <3>5, <3>6
  <2> QED
    BY <2>1, <2>2
<1>5. ASSUME NEW i \in 1 .. n - 1, k # "LL"
      PROVE  prv[t[i]] = IF i > 1 THEN t[i - 1] ELSE t[n - 1]
  <2>1. CASE i < j
    <3>1. i \in 1 .. n /\ i # j /\ i # j + 1 /\ i < n /\ t[i] = s[i]
      BY <1>1, <2>1
    <3>2. CASE j = n /\ i = 1
      <4>1. prv[t[i]] = pv[s[j]] /\ j > 1
        BY <1>1, <1>5, <3>1, <3>2
      <4> QED
        BY <1>1, <1>2, <1>3, <1>5, <3>2, <4>1
    <3>3. CASE ~(j = n /\ i = 1)
      <4>1. prv[t[i]] = pv[s[i]]
        BY <1>5, <3>1, <3>3
      <4>2. pv[s[i]] = IF i > 1 THEN s[i - 1] ELSE s[n]
        BY <1>2, <1>5, <3>1
      <4>3. i > 1 => t[i - 1] = s[i - 1]
        BY <1>1, <2>1
      <4>4. i = 1 => t[n - 1] = s[n]
        BY <1>1, <1>3, <3>1, <3>3
      <4> QED
        BY <4>1, <4>2, <4>3, <4>4
    <3> QED
      BY <3>2, <3>3
  <2>2. CASE ~(i < j)
    <3>1. PICK m \in 1 .. n : m = i + 1
      BY <1>1
    <3>2. m # j /\ m > 1 /\ t[i] = s[m] /\ j # n
      BY <1>1, <2>2, <3>1
    <3>3. CASE m = j + 1
      <4>1. prv[t[i]] = pv[s[j]] /\ i = j
        BY <1>1, <1>5, <3>1, <3>2, <3>3
      <4>2. pv[s[j]] = IF j > 1 THEN s[j - 1] ELSE s[n]
        BY <1>2, <1>5
      <4>3. j > 1 => t[i - 1] = s[j - 1]
        BY <1>1, <4>1
      <4>4. n > 1 /\ t[n - 1] = s[n]
        BY <1>1, <1>3, <3>2
      <4> QED
        BY <4>1, <4>2, <4>3, <4>4
    <3>4. CASE m # j + 1
      <4>1. prv[t[i]] = pv[s[m]] /\ i > 1 /\ i - 1 >= j
        BY <1>1, <1>5, <2>2, <3>1, <3>2, <3>4
      <4>2. pv[s[m]] = s[m - 1] /\ m - 1 = i
        BY <1>1, <1>2, <1>5, <3>1, <3>2
      <4>3. t[i - 1] = s[i]
        BY <1>1, <4>1
      <4> QED
        BY <4>1, <4>2, <4>3
    <3> QED
      BY <3>3, <3>4
  <2> QED
    BY <2>1, <2>2
<1>6. (IF j # 1 THEN hd ELSE IF n = 1 THEN NIL ELSE s[2]) = IF n - 1 = 0 THEN NIL ELSE t[1]
  <2>1. hd = s[1]
    BY <1>1 DEF Linked
  <2> QED
    BY <1>1, <1>3, <2>1
<1>7. Linked(k, IF j # 1 THEN hd ELSE IF n = 1 THEN NIL ELSE s[2], nxt, prv, t)
  BY <1>1, <1>4, <1>5, <1>6 DEF Linked
<1> QED
  BY <1>0, <1>7

(* The neighbours of an element in a ring of n are itself only when n is 1. *)
LEMMA Neighbours ==
  ASSUME NEW n \in Nat, NEW k \in 1 .. n
  PROVE  /\ n = 1 => (IF k > 1 THEN k - 1 ELSE n) = k /\ (IF k < n THEN k + 1 ELSE 1) = k
         /\ n # 1 => (IF k > 1 THEN k - 1 ELSE n) # k /\ (IF k < n THEN k + 1 ELSE 1) # k
OBVIOUS

-----------------------------------------------------------------------------
TypeOK ==
  /\ ring \in [head : Pointer, next : [Members -> Pointer], prev : [Members -> Pointer],
               tail : {NIL}]
  /\ style \in Styles
  /\ loop.on \in BOOLEAN
  /\ listed \in Seq(Members) /\ IsInjective(listed)
  /\ due \in Seq(Members) /\ IsInjective(due)

(* What the loop has still to visit, but for the element it stands on, is   *)
(* the end of the list; that element is in front of it, or deleted.         *)
Ahead ==
  LET n == Len(listed)  m == Len(due)
  IN  /\ m - 1 <= n
      /\ \A i \in 2 .. m : due[i] = listed[n - m + i]
      /\ due[1] \in ToSet(listed) => m <= n /\ listed[n - m + 1] = due[1]

LoopInv ==
  /\ ~loop.on => due = <<>>
  /\ loop.on /\ due = <<>> => loop.el = NIL
  /\ loop.on /\ due # <<>> =>
       /\ Ahead
       /\ loop.el = due[1]
       /\ Len(due) > 1 => loop.tmp = due[2]
       /\ Len(due) = 1 /\ style # "CDL" => loop.tmp = NIL
       /\ style = "CDL" => loop.last = due[Len(due)]

UInv == TypeOK /\ DoubleLinked /\ LoopInv

-----------------------------------------------------------------------------
Rings == [head : Pointer, next : [Members -> Pointer], prev : [Members -> Pointer], tail : {NIL}]

(* What the invariant says of the pointers. *)
LEMMA StateFacts ==
  ASSUME UInv
  PROVE  /\ h \in Pointer /\ next \in [Members -> Pointer] /\ prev \in [Members -> Pointer]
         /\ style \in Styles /\ listed \in Seq(Members) /\ IsInjective(listed)
         /\ Linked(style, h, next, prev, listed)
         /\ NIL \notin Members
         /\ h = IF Len(listed) = 0 THEN NIL ELSE listed[1]
         /\ h = NIL <=> Len(listed) = 0
<1>1. /\ h \in Pointer /\ next \in [Members -> Pointer] /\ prev \in [Members -> Pointer]
      /\ style \in Styles /\ listed \in Seq(Members) /\ IsInjective(listed)
  BY DEF UInv, TypeOK, h, next, prev
<1>2. Linked(style, h, next, prev, listed)
  BY <1>1, ListsLinked DEF UInv, DoubleLinked, h, next, prev
<1>3. NIL \notin Members
  BY MembersAssumption
<1>4. h = IF Len(listed) = 0 THEN NIL ELSE listed[1]
  BY <1>2 DEF Linked
<1>5. \A i \in 1 .. Len(listed) : listed[i] \in Members
  BY <1>1, Elements
<1>6. Len(listed) \in Nat
  BY <1>1, Elements
<1>7. h = NIL <=> Len(listed) = 0
  <2>1. CASE Len(listed) # 0
    <3>1. listed[1] \in Members
      BY <1>5, <1>6, <2>1
    <3> QED
      BY <1>3, <1>4, <2>1, <3>1
  <2> QED
    BY <1>4, <2>1
<1> QED
  BY <1>1, <1>2, <1>3, <1>4, <1>7

(* A macro leaves the pointers it computed. *)
LEMMA ChainLinked ==
  ASSUME UInv, NEW hd \in Pointer, NEW nx \in [Members -> Pointer], NEW pv \in [Members -> Pointer],
         Chain(hd, nx, pv), style' = style, Linked(style, hd, nx, pv, listed')
  PROVE  ring' \in Rings /\ DoubleLinked'
<1>1. ring \in Rings
  BY DEF UInv, TypeOK, Rings
<1>2. ring' \in Rings /\ ring'.head = hd /\ ring'.next = nx /\ ring'.prev = pv
  BY <1>1 DEF Chain, Rings
<1>3. style \in Styles
  BY StateFacts
<1>4. Lists(style, ring', listed')
  BY <1>2, <1>3, ListsLinked
<1> QED
  BY <1>2, <1>4 DEF DoubleLinked

(* What the macros that add have in common. *)
LEMMA Adding ==
  ASSUME UInv, NEW e \in Members, NEW s \in {<<e>> \o listed, Append(listed, e)}, AddsOutside(e, s)
  PROVE  /\ listed' = s /\ style' = style /\ e \notin ToSet(listed)
         /\ \A i \in 1 .. Len(listed) : listed[i] # e
         /\ ring' \in Rings /\ DoubleLinked' => UInv'
<1>1. /\ listed' = s /\ style' = style /\ e \notin ToSet(listed)
      /\ loop' = loop /\ due' = due /\ ~loop.on
  BY DEF AddsOutside
<1>2. listed \in Seq(Members) /\ IsInjective(listed)
  BY StateFacts
<1>3. listed' \in Seq(Members) /\ IsInjective(listed')
  <2>1. CASE s = <<e>> \o listed
    BY <1>1, <1>2, <2>1, PrependElements
  <2>2. CASE s = Append(listed, e)
    BY <1>1, <1>2, <2>2, AppendInjectiveSeq, AppendProperties
  <2> QED
    BY <2>1, <2>2
<1>4. \A i \in 1 .. Len(listed) : listed[i] # e
  BY <1>1, <1>2, Elements
<1>5. ASSUME ring' \in Rings PROVE TypeOK'
  BY <1>1, <1>3, <1>5 DEF UInv, TypeOK, Rings
<1>6. LoopInv'
  BY <1>1 DEF UInv, LoopInv
<1> QED
  BY <1>1, <1>4, <1>5, <1>6 DEF UInv

(* The prev that DL_PREPEND, DL_APPEND and CDL_PREPEND write. *)
PrevsWith(e) ==
  IF h = NIL THEN [prev EXCEPT ![e] = e] ELSE [prev EXCEPT ![e] = prev[h], ![h] = e]

LEMMA DoubleEnds ==
  ASSUME UInv, style # "LL", NEW e \in Members, \A i \in 1 .. Len(listed) : listed[i] # e,
         NEW prv, prv = PrevsWith(e)
  PROVE  /\ prv \in [Members -> Pointer]
         /\ prv[e] = IF Len(listed) = 0 THEN e ELSE listed[Len(listed)]
         /\ \A i \in 1 .. Len(listed) : prv[listed[i]] = IF i = 1 THEN e ELSE prev[listed[i]]
<1>1. /\ h \in Pointer /\ prev \in [Members -> Pointer] /\ NIL \notin Members
      /\ h = IF Len(listed) = 0 THEN NIL ELSE listed[1]
      /\ h = NIL <=> Len(listed) = 0
  BY StateFacts
<1>2. /\ Len(listed) \in Nat
      /\ \A i \in 1 .. Len(listed) : listed[i] \in Members
      /\ \A i, j \in 1 .. Len(listed) : listed[i] = listed[j] => i = j
  BY StateFacts, Elements
<1>3. prv \in [Members -> Pointer]
  BY <1>1 DEF Pointer, PrevsWith
<1>4. CASE h = NIL
  BY <1>1, <1>2, <1>3, <1>4 DEF PrevsWith
<1>5. CASE h # NIL
  <2>1. 1 \in 1 .. Len(listed) /\ h = listed[1] /\ h \in Members /\ h # e
    BY <1>1, <1>2, <1>5
  <2>2. prev[h] = listed[Len(listed)]
    <3>1. Linked(style, h, next, prev, listed)
      BY StateFacts
    <3> QED
      BY <2>1, <3>1 DEF Linked
  <2>3. prv = [prev EXCEPT ![e] = prev[h], ![h] = e]
    BY <1>5 DEF PrevsWith
  <2>4. prv[e] = prev[h] /\ prv[h] = e
        /\ \A x \in Members : x # e /\ x # h => prv[x] = prev[x]
    BY <1>1, <2>1, <2>3
  <2>5. ASSUME NEW i \in 1 .. Len(listed)
        PROVE  prv[listed[i]] = IF i = 1 THEN e ELSE prev[listed[i]]
    BY <1>2, <2>1, <2>4
  <2> QED
    BY <1>1, <1>3, <1>5, <2>2, <2>4, <2>5
<1> QED
  BY <1>4, <1>5

LEMMA LLPrepends ==
  ASSUME UInv, NEW e \in Members, LL_PREPEND(e)
  PROVE  UInv'
<1>1. style = "LL" /\ AddsOutside(e, <<e>> \o listed) /\ Chain(e, [next EXCEPT ![e] = h], prev)
  BY DEF LL_PREPEND
<1>2. PICK nxt \in [Members -> Pointer] : nxt = [next EXCEPT ![e] = h]
  BY StateFacts
<1>3. /\ listed' = <<e>> \o listed /\ style' = style /\ e \notin ToSet(listed)
      /\ \A i \in 1 .. Len(listed) : listed[i] # e
  BY <1>1, Adding
<1>4. nxt[e] = h /\ \A i \in 1 .. Len(listed) : nxt[listed[i]] = next[listed[i]]
  BY <1>2, <1>3, StateFacts, Elements
<1>5. Linked("LL", e, nxt, prev, <<e>> \o listed)
  BY <1>1, <1>3, <1>4, StateFacts, FrontLinked DEF Styles
<1>6. ring' \in Rings /\ DoubleLinked'
  BY <1>1, <1>2, <1>3, <1>5, StateFacts, ChainLinked DEF Pointer
<1> QED
  BY <1>1, <1>6, Adding

LEMMA DLPrepends ==
  ASSUME UInv, NEW e \in Members, DL_PREPEND(e)
  PROVE  UInv'
<1>1. /\ style = "DL" /\ AddsOutside(e, <<e>> \o listed)
      /\ Chain(e, [next EXCEPT ![e] = h], PrevsWith(e))
  BY DEF DL_PREPEND, PrevsWith
<1>2. PICK nxt \in [Members -> Pointer] : nxt = [next EXCEPT ![e] = h]
  BY StateFacts
<1>3. /\ listed' = <<e>> \o listed /\ style' = style /\ e \notin ToSet(listed)
      /\ \A i \in 1 .. Len(listed) : listed[i] # e
  BY <1>1, Adding
<1>4. nxt[e] = h /\ \A i \in 1 .. Len(listed) : nxt[listed[i]] = next[listed[i]]
  BY <1>2, <1>3, StateFacts, Elements
<1>5. PICK prv : prv = PrevsWith(e)
  OBVIOUS
<1>6. /\ prv \in [Members -> Pointer]
      /\ prv[e] = IF Len(listed) = 0 THEN e ELSE listed[Len(listed)]
      /\ \A i \in 1 .. Len(listed) : prv[listed[i]] = IF i = 1 THEN e ELSE prev[listed[i]]
  <2>1. style # "LL"
    BY <1>1
  <2> QED
    BY <1>3, <1>5, <2>1, DoubleEnds
<1>7. Linked("DL", e, nxt, prv, <<e>> \o listed)
  <2>1. PICK k \in Styles : k = "DL"
    BY DEF Styles
  <2>2. PICK s \in Seq(Members) : s = listed
    BY StateFacts
  <2>3. IsInjective(s) /\ e \notin ToSet(s) /\ Linked(k, h, next, prev, s)
    BY <1>1, <1>3, <2>1, <2>2, StateFacts
  <2>4. k # "CDL" /\ k # "LL"
    BY <2>1
  <2>5. /\ nxt[e] = IF Len(s) = 0 /\ k = "CDL" THEN e ELSE h
        /\ \A i \in 1 .. Len(s) : nxt[s[i]] = IF i = Len(s) /\ k = "CDL" THEN e ELSE next[s[i]]
    BY <1>4, <2>2, <2>4
  <2>6. /\ prv[e] = IF Len(s) = 0 THEN e ELSE s[Len(s)]
        /\ \A i \in 1 .. Len(s) : prv[s[i]] = IF i = 1 THEN e ELSE prev[s[i]]
    BY <1>6, <2>2
  <2>7. Linked(k, e, nxt, prv, <<e>> \o s)
    BY <2>3, <2>5, <2>6, FrontLinked
  <2> QED
    BY <2>1, <2>2, <2>7
<1>8. ring' \in Rings /\ DoubleLinked'
  BY <1>1, <1>2, <1>3, <1>5, <1>6, <1>7, StateFacts, ChainLinked DEF Pointer
<1> QED
  BY <1>1, <1>8, Adding

(* The members of the list, from the head on, as a set closed under next. *)
LEMMA ForwardListed ==
  ASSUME UInv, style = "LL", h # NIL
  PROVE  Forward \subseteq ToSet(listed)
<1>1. /\ listed \in Seq(Members) /\ IsInjective(listed) /\ Linked(style, h, next, prev, listed)
      /\ h = IF Len(listed) = 0 THEN NIL ELSE listed[1]
  BY StateFacts
<1>2. /\ Len(listed) \in Nat
      /\ \A i \in 1 .. Len(listed) : listed[i] \in Members
      /\ \A x : x \in ToSet(listed) <=> \E i \in 1 .. Len(listed) : listed[i] = x
  BY <1>1, Elements
<1>3. ToSet(listed) \in SUBSET Members
  BY <1>2
<1>4. h \in ToSet(listed)
  <2>1. Len(listed) # 0 /\ h = listed[1]
    BY <1>1
  <2> QED
    BY <1>2, <2>1
<1>5. ASSUME NEW x \in ToSet(listed) PROVE next[x] \in ToSet(listed) \cup {NIL}
  <2>1. PICK i \in 1 .. Len(listed) : listed[i] = x
    BY <1>2
  <2>2. next[x] = IF i < Len(listed) THEN listed[i + 1] ELSE NIL
    BY <1>1, <2>1 DEF Linked
  <2>3. i < Len(listed) => i + 1 \in 1 .. Len(listed)
    BY <1>2
  <2> QED
    BY <1>2, <2>2, <2>3
<1> QED
  BY <1>3, <1>4, <1>5 DEF Forward

LEMMA LLAppends ==
  ASSUME UInv, NEW e \in Members, LL_APPEND_VS2008(e)
  PROVE  UInv'
<1> DEFINE n == Len(listed)
<1>1. style = "LL" /\ AddsOutside(e, Append(listed, e))
  BY DEF LL_APPEND_VS2008
<1>2. /\ listed' = Append(listed, e) /\ style' = style /\ e \notin ToSet(listed)
      /\ \A i \in 1 .. n : listed[i] # e
  BY <1>1, Adding
<1>3. /\ n \in Nat
      /\ \A i \in 1 .. n : listed[i] \in Members
      /\ \A i, j \in 1 .. n : listed[i] = listed[j] => i = j
      /\ \A x : x \in ToSet(listed) <=> \E i \in 1 .. n : listed[i] = x
  BY StateFacts, Elements
<1>4. /\ NIL \notin Members /\ next \in [Members -> Pointer] /\ prev \in [Members -> Pointer]
      /\ h \in Pointer
      /\ h = NIL <=> n = 0
  BY StateFacts
<1>5. CASE h = NIL
  <2>1. PICK nxt \in [Members -> Pointer] : nxt = [next EXCEPT ![e] = NIL]
    BY <1>4 DEF Pointer
  <2>2. Chain(e, nxt, prev) /\ nxt[e] = NIL
    BY <1>4, <1>5, <2>1 DEF LL_APPEND_VS2008
  <2>3. \A i \in 1 .. n : nxt[listed[i]] = IF i = n THEN e ELSE next[listed[i]]
    BY <1>4, <1>5
  <2>4. Linked("LL", IF n = 0 THEN e ELSE h, nxt, prev, Append(listed, e))
    <3>1. Linked("LL", h, next, prev, listed) /\ listed \in Seq(Members) /\ IsInjective(listed)
      BY <1>1, StateFacts
    <3> QED
      BY <1>2, <2>2, <2>3, <3>1, BackLinked
  <2>5. ring' \in Rings /\ DoubleLinked'
    <3>1. (IF n = 0 THEN e ELSE h) = e
      BY <1>4, <1>5
    <3>2. e \in Pointer /\ Linked("LL", e, nxt, prev, listed')
      BY <1>2, <2>4, <3>1 DEF Pointer
    <3> QED
      BY <1>1, <1>2, <1>4, <2>2, <3>2, ChainLinked
  <2> QED
    BY <1>1, <2>5, Adding
<1>6. CASE h # NIL
  <2>1. PICK last \in Forward : /\ next[last] = NIL
                                /\ Chain(h, [next EXCEPT ![last] = e, ![e] = NIL], prev)
    BY <1>6 DEF LL_APPEND_VS2008
  <2>2. PICK k \in 1 .. n : listed[k] = last
    BY <1>1, <1>3, <1>6, ForwardListed
  <2>3. k = n
    <3>1. next[last] = IF k < n THEN listed[k + 1] ELSE NIL
      BY <1>1, <2>2, StateFacts DEF Linked
    <3>2. k < n => listed[k + 1] \in Members
      BY <1>3
    <3> QED
      BY <1>3, <1>4, <2>1, <3>1, <3>2
  <2>4. PICK nxt \in [Members -> Pointer] : nxt = [next EXCEPT ![last] = e, ![e] = NIL]
    BY <1>4 DEF Pointer
  <2>5. nxt[e] = NIL /\ \A i \in 1 .. n : nxt[listed[i]] = IF i = n THEN e ELSE next[listed[i]]
    BY <1>2, <1>3, <1>4, <2>2, <2>3, <2>4
  <2>6. Linked("LL", h, nxt, prev, Append(listed, e))
    BY <1>1, <1>2, <1>4, <1>6, <2>5, StateFacts, BackLinked
  <2>7. ring' \in Rings /\ DoubleLinked'
    BY <1>1, <1>2, <1>4, <2>1, <2>4, <2>6, ChainLinked
  <2> QED
    BY <1>1, <2>7, Adding
<1> QED
  BY <1>5, <1>6

LEMMA DLAppends ==
  ASSUME UInv, NEW e \in Members, DL_APPEND(e)
  PROVE  UInv'
<1> DEFINE n == Len(listed)
<1>1. style = "DL" /\ AddsOutside(e, Append(listed, e))
  BY DEF DL_APPEND
<1>2. /\ listed' = Append(listed, e) /\ style' = style /\ e \notin ToSet(listed)
      /\ \A i \in 1 .. n : listed[i] # e
  BY <1>1, Adding
<1>3. /\ n \in Nat
      /\ \A i \in 1 .. n : listed[i] \in Members
      /\ \A i, j \in 1 .. n : listed[i] = listed[j] => i = j
  BY StateFacts, Elements
<1>4. /\ NIL \notin Members /\ next \in [Members -> Pointer] /\ prev \in [Members -> Pointer]
      /\ h \in Pointer
      /\ h = IF n = 0 THEN NIL ELSE listed[1]
      /\ h = NIL <=> n = 0
  BY StateFacts
<1>5. PICK prv : prv = PrevsWith(e)
  OBVIOUS
<1>6. /\ prv \in [Members -> Pointer]
      /\ prv[e] = IF n = 0 THEN e ELSE listed[n]
      /\ \A i \in 1 .. n : prv[listed[i]] = IF i = 1 THEN e ELSE prev[listed[i]]
  <2>1. style # "LL"
    BY <1>1
  <2> QED
    BY <1>2, <1>5, <2>1, DoubleEnds
<1>7. PICK nxt : nxt = IF h = NIL THEN [next EXCEPT ![e] = NIL]
                       ELSE [next EXCEPT ![prev[h]] = e, ![e] = NIL]
  OBVIOUS
<1>8. h # NIL => prev[h] = listed[n] /\ n \in 1 .. n
  BY <1>1, <1>3, <1>4, StateFacts DEF Linked
<1>9. /\ nxt \in [Members -> Pointer] /\ nxt[e] = NIL
      /\ \A i \in 1 .. n : nxt[listed[i]] = IF i = n THEN e ELSE next[listed[i]]
  <2>1. CASE h = NIL
    BY <1>4, <1>7, <2>1 DEF Pointer
  <2>2. CASE h # NIL
    <3>1. nxt = [next EXCEPT ![listed[n]] = e, ![e] = NIL]
      BY <1>7, <1>8, <2>2
    <3>2. nxt \in [Members -> Pointer]
      BY <1>4, <3>1 DEF Pointer
    <3> QED
      BY <1>2, <1>3, <1>4, <1>8, <2>2, <3>1, <3>2
  <2> QED
    BY <2>1, <2>2
<1>10. Linked("DL", IF n = 0 THEN e ELSE h, nxt, prv, Append(listed, e))
  BY <1>1, <1>2, <1>6, <1>9, StateFacts, BackLinked
<1>11. Chain(IF n = 0 THEN e ELSE h, nxt, prv)
  BY <1>4, <1>5, <1>7 DEF DL_APPEND, PrevsWith
<1>12. (IF n = 0 THEN e ELSE h) \in Pointer
  BY <1>4 DEF Pointer
<1>13. ring' \in Rings /\ DoubleLinked'
  BY <1>1, <1>2, <1>6, <1>9, <1>10, <1>11, <1>12, ChainLinked
<1> QED
  BY <1>1, <1>13, Adding

LEMMA CDLPrepends ==
  ASSUME UInv, NEW e \in Members, CDL_PREPEND(e)
  PROVE  UInv'
<1> DEFINE n == Len(listed)
<1>1. style = "CDL" /\ AddsOutside(e, <<e>> \o listed)
  BY DEF CDL_PREPEND
<1>2. /\ listed' = <<e>> \o listed /\ style' = style /\ e \notin ToSet(listed)
      /\ \A i \in 1 .. n : listed[i] # e
  BY <1>1, Adding
<1>3. /\ n \in Nat
      /\ \A i \in 1 .. n : listed[i] \in Members
      /\ \A i, j \in 1 .. n : listed[i] = listed[j] => i = j
  BY StateFacts, Elements
<1>4. /\ NIL \notin Members /\ next \in [Members -> Pointer] /\ prev \in [Members -> Pointer]
      /\ h \in Pointer
      /\ h = IF n = 0 THEN NIL ELSE listed[1]
      /\ h = NIL <=> n = 0
  BY StateFacts
<1>5. PICK prv : prv = PrevsWith(e)
  OBVIOUS
<1>6. /\ prv \in [Members -> Pointer]
      /\ prv[e] = IF n = 0 THEN e ELSE listed[n]
      /\ \A i \in 1 .. n : prv[listed[i]] = IF i = 1 THEN e ELSE prev[listed[i]]
  <2>1. style # "LL"
    BY <1>1
  <2> QED
    BY <1>2, <1>5, <2>1, DoubleEnds
<1>7. PICK nxt : nxt = IF h = NIL THEN [next EXCEPT ![e] = e]
                       ELSE [next EXCEPT ![e] = h, ![prev[h]] = e]
  OBVIOUS
<1>8. h # NIL => prev[h] = listed[n] /\ n \in 1 .. n
  BY <1>1, <1>3, <1>4, StateFacts DEF Linked
<1>9. /\ nxt \in [Members -> Pointer] /\ nxt[e] = IF n = 0 THEN e ELSE h
      /\ \A i \in 1 .. n : nxt[listed[i]] = IF i = n THEN e ELSE next[listed[i]]
  <2>1. CASE h = NIL
    BY <1>4, <1>7, <2>1 DEF Pointer
  <2>2. CASE h # NIL
    <3>1. nxt = [next EXCEPT ![e] = h, ![listed[n]] = e]
      BY <1>7, <1>8, <2>2
    <3>2. nxt \in [Members -> Pointer]
      BY <1>4, <3>1 DEF Pointer
    <3> QED
      BY <1>2, <1>3, <1>4, <1>8, <2>2, <3>1, <3>2
  <2> QED
    BY <2>1, <2>2
<1>10. Linked("CDL", e, nxt, prv, <<e>> \o listed)
  <2>1. PICK k \in Styles : k = "CDL"
    BY DEF Styles
  <2>2. PICK s \in Seq(Members) : s = listed /\ n = Len(s)
    BY StateFacts
  <2>3. IsInjective(s) /\ e \notin ToSet(s) /\ Linked(k, h, next, prev, s)
    BY <1>1, <1>2, <2>1, <2>2, StateFacts
  <2>4. /\ nxt[e] = IF Len(s) = 0 /\ k = "CDL" THEN e ELSE h
        /\ \A i \in 1 .. Len(s) : nxt[s[i]] = IF i = Len(s) /\ k = "CDL" THEN e ELSE next[s[i]]
    BY <1>9, <2>1, <2>2
  <2>5. /\ prv[e] = IF Len(s) = 0 THEN e ELSE s[Len(s)]
        /\ \A i \in 1 .. Len(s) : prv[s[i]] = IF i = 1 THEN e ELSE prev[s[i]]
    BY <1>6, <2>2
  <2>6. Linked(k, e, nxt, prv, <<e>> \o s)
    BY <2>3, <2>4, <2>5, FrontLinked
  <2> QED
    BY <2>1, <2>2, <2>6
<1>11. Chain(e, nxt, prv)
  BY <1>4, <1>5, <1>7 DEF CDL_PREPEND, PrevsWith
<1>12. e \in Pointer
  BY DEF Pointer
<1>13. ring' \in Rings /\ DoubleLinked'
  BY <1>1, <1>2, <1>6, <1>9, <1>10, <1>11, <1>12, ChainLinked
<1> QED
  BY <1>1, <1>13, Adding

-----------------------------------------------------------------------------
(* The loop's element is deleted: what the loop has still to visit keeps    *)
(* its place at the end of the list.                                        *)
LEMMA AheadKept ==
  ASSUME UInv, loop.on, due # <<>>, NEW k \in 1 .. Len(listed), listed[k] = due[1],
         listed' = RemoveAt(listed, k), due' = due
  PROVE  Ahead'
<1>1. listed \in Seq(Members) /\ IsInjective(listed)
  BY StateFacts
<1>2. PICK n, m : n = Len(listed) /\ m = Len(due)
  OBVIOUS
<1>3. due \in Seq(Members) /\ n \in Nat /\ m \in Nat
  BY <1>1, <1>2, Elements DEF UInv, TypeOK
<1>4. /\ m - 1 <= n
      /\ \A i \in 2 .. m : due[i] = listed[n - m + i]
      /\ due[1] \in ToSet(listed) => m <= n /\ listed[n - m + 1] = due[1]
  BY <1>2 DEF UInv, LoopInv, Ahead
<1>5. \A i, j \in 1 .. n : listed[i] = listed[j] => i = j
  BY <1>1, <1>2, Elements
<1>6. due[1] \in ToSet(listed)
  BY <1>1, Elements
<1>7. m # 0
  BY <1>2, <1>3, EmptySeq
<1>8. k = n - m + 1 /\ m <= n
  <2>1. n - m + 1 \in 1 .. n /\ k \in 1 .. n
    BY <1>2, <1>3, <1>4, <1>6, <1>7
  <2> QED
    BY <1>4, <1>5, <1>6, <2>1
<1>9. PICK t : t = RemoveAt(listed, k)
  OBVIOUS
<1>10. /\ Len(t) = n - 1
       /\ \A i \in 1 .. n - 1 : t[i] = IF i < k THEN listed[i] ELSE listed[i + 1]
  BY <1>1, <1>2, <1>9, RemoveAtProperties
<1>11. ASSUME NEW i \in 2 .. m PROVE due[i] = t[n - 1 - m + i]
  <2>1. PICK j \in 1 .. n - 1 : j = n - 1 - m + i
    BY <1>3, <1>8
  <2>2. ~(j < k) /\ j + 1 = n - m + i
    BY <1>3, <1>8, <2>1
  <2>3. t[j] = listed[n - m + i]
    BY <1>10, <2>2
  <2> QED
    BY <1>4, <2>1, <2>3
<1>12. due[1] \notin ToSet(t)
  BY <1>1, <1>9, RemoveAtSet
<1>13. m - 1 <= n - 1
  BY <1>3, <1>8
<1>14. listed' = t /\ due' = due
  BY <1>9
<1> QED
  BY <1>2, <1>10, <1>11, <1>12, <1>13, <1>14 DEF Ahead

(* What the macros that delete have in common. *)
LEMMA Deleting ==
  ASSUME UInv, NEW e \in Members, Deletes(e)
  PROVE  \E k \in 1 .. Len(listed) :
           /\ listed[k] = e /\ listed' = RemoveAt(listed, k) /\ style' = style
           /\ ring' \in Rings /\ DoubleLinked' => UInv'
<1>1. PICK k \in 1 .. Len(listed) : listed[k] = e /\ listed' = RemoveAt(listed, k)
  BY DEF Deletes
<1>2. style' = style /\ loop' = loop /\ due' = due /\ (loop.on => e = loop.el)
  BY DEF Deletes
<1>3. listed \in Seq(Members) /\ IsInjective(listed)
  BY StateFacts
<1>4. listed' \in Seq(Members) /\ IsInjective(listed')
  BY <1>1, <1>3, RemoveAtProperties, RemoveAtSet
<1>5. ASSUME ring' \in Rings PROVE TypeOK'
  BY <1>2, <1>4, <1>5 DEF UInv, TypeOK, Rings
<1>6. LoopInv'
  <2>1. CASE loop.on
    <3>1. due # <<>> /\ due[1] = e
      BY <1>2, <2>1, MembersAssumption DEF UInv, LoopInv
    <3>2. Ahead'
      BY <1>1, <1>2, <2>1, <3>1, AheadKept
    <3> QED
      BY <1>2, <2>1, <3>1, <3>2 DEF UInv, LoopInv
  <2>2. CASE ~loop.on
    BY <1>2, <2>2 DEF UInv, LoopInv
  <2> QED
    BY <2>1, <2>2
<1> QED
  BY <1>1, <1>2, <1>5, <1>6 DEF UInv

LEMMA LLDeletes ==
  ASSUME UInv, NEW e \in Members, LL_DELETE_VS2008(e)
  PROVE  UInv'
<1> DEFINE n == Len(listed)
<1>1. style = "LL" /\ Deletes(e) /\ LLUnlink(e)
  BY DEF LL_DELETE_VS2008
<1>2. PICK k \in 1 .. n :
        /\ listed[k] = e /\ listed' = RemoveAt(listed, k) /\ style' = style
        /\ ring' \in Rings /\ DoubleLinked' => UInv'
  BY <1>1, Deleting
<1>3. /\ listed \in Seq(Members) /\ IsInjective(listed) /\ Linked(style, h, next, prev, listed)
      /\ n \in Nat
      /\ \A i \in 1 .. n : listed[i] \in Members
      /\ \A i, j \in 1 .. n : listed[i] = listed[j] => i = j
      /\ \A x : x \in ToSet(listed) <=> \E i \in 1 .. n : listed[i] = x
  BY <1>1, StateFacts, Elements
<1>4. /\ NIL \notin Members /\ next \in [Members -> Pointer] /\ prev \in [Members -> Pointer]
      /\ h \in Pointer
      /\ h = IF n = 0 THEN NIL ELSE listed[1]
      /\ h = NIL <=> n = 0
  BY StateFacts
<1>5. \A i \in 1 .. n : next[listed[i]] = IF i < n THEN listed[i + 1] ELSE NIL
  BY <1>1, <1>3 DEF Linked
<1>6. 1 \in 1 .. n /\ n \in Nat /\ n >= 1 /\ h = listed[1]
  <2>1. n \in Nat /\ n >= 1
    BY <1>3
  <2> QED
    BY <1>3, <1>4, <2>1
<1>7. CASE k = 1
  <2>1. h = e
    BY <1>2, <1>6, <1>7
  <2>2. Chain(next[h], next, prev)
    BY <1>1, <2>1 DEF LLUnlink
  <2>3. next[h] = IF n = 1 THEN NIL ELSE listed[2]
    <3>1. next[listed[1]] = IF 1 < n THEN listed[1 + 1] ELSE NIL
      BY <1>5, <1>6
    <3>2. PICK m \in Nat : m = n
      BY <1>3
    <3>3. 1 < m <=> m # 1
      BY <1>6, <3>2
    <3> QED
      BY <1>6, <3>1, <3>2, <3>3
  <2>4. next[h] \in Pointer
    BY <1>3, <1>4, <1>6
  <2>5. NextsWithout(style, listed, k, next, next)
    BY <1>1, <1>3, <1>7 DEF NextsWithout
  <2>6. Linked(style, IF k # 1 THEN h ELSE IF n = 1 THEN NIL ELSE listed[2], next, prev,
               RemoveAt(listed, k))
    BY <1>1, <1>3, <2>5, DropLinked DEF Styles
  <2>7. Linked(style, next[h], next, prev, listed')
    BY <1>2, <1>7, <2>3, <2>6
  <2>8. ring' \in Rings /\ DoubleLinked'
    BY <1>1, <1>2, <1>4, <2>2, <2>4, <2>7, ChainLinked
  <2> QED
    BY <1>2, <2>8
<1>8. CASE k # 1
  <2>1. h # e /\ h # NIL
    BY <1>2, <1>3, <1>4, <1>6, <1>8
  <2>2. PICK p \in Forward : next[p] = e /\ Chain(h, [next EXCEPT ![p] = next[e]], prev)
    BY <1>1, <2>1 DEF LLUnlink
  <2>3. PICK q \in 1 .. n : listed[q] = p
    BY <1>1, <1>3, <2>1, ForwardListed
  <2>4. q = k - 1
    <3>1. q < n /\ listed[q + 1] = e
      BY <1>2, <1>3, <1>4, <1>5, <2>2, <2>3
    <3>2. q + 1 \in 1 .. n
      BY <1>3, <3>1
    <3>3. q + 1 = k
      BY <1>2, <1>3, <3>1, <3>2
    <3> QED
      BY <1>3, <3>3
  <2>5. PICK nxt \in [Members -> Pointer] : nxt = [next EXCEPT ![p] = next[e]]
    BY <1>4
  <2>6. NextsWithout(style, listed, k, next, nxt)
    BY <1>1, <1>2, <1>3, <1>4, <1>8, <2>3, <2>4, <2>5 DEF NextsWithout
  <2>7. Linked(style, h, nxt, prev, listed')
    <3>1. Linked(style, IF k # 1 THEN h ELSE IF n = 1 THEN NIL ELSE listed[2], nxt, prev,
                 RemoveAt(listed, k))
      BY <1>1, <1>3, <2>6, DropLinked DEF Styles
    <3> QED
      BY <1>2, <1>8, <3>1
  <2>8. ring' \in Rings /\ DoubleLinked'
    BY <1>1, <1>2, <1>4, <2>2, <2>5, <2>7, ChainLinked
  <2> QED
    BY <1>2, <2>8
<1> QED
  BY <1>7, <1>8

LEMMA DLDeletes ==
  ASSUME UInv, NEW e \in Members, DL_DELETE(e)
  PROVE  UInv'
<1> DEFINE n == Len(listed)
<1>1. style = "DL" /\ Deletes(e) /\ DLUnlink(e)
  BY DEF DL_DELETE
<1>2. PICK k \in 1 .. n :
        /\ listed[k] = e /\ listed' = RemoveAt(listed, k) /\ style' = style
        /\ ring' \in Rings /\ DoubleLinked' => UInv'
  BY <1>1, Deleting
<1>3. /\ listed \in Seq(Members) /\ IsInjective(listed) /\ Linked(style, h, next, prev, listed)
      /\ n \in Nat
      /\ \A i \in 1 .. n : listed[i] \in Members
      /\ \A i, j \in 1 .. n : listed[i] = listed[j] => i = j
  BY StateFacts, Elements
<1>4. /\ NIL \notin Members /\ next \in [Members -> Pointer] /\ prev \in [Members -> Pointer]
      /\ h \in Pointer
      /\ h = IF n = 0 THEN NIL ELSE listed[1]
  BY StateFacts
<1>5. \A i \in 1 .. n : /\ next[listed[i]] = IF i < n THEN listed[i + 1] ELSE NIL
                        /\ prev[listed[i]] = IF i > 1 THEN listed[i - 1] ELSE listed[n]
  BY <1>1, <1>3 DEF Linked
<1>6. 1 \in 1 .. n /\ n \in 1 .. n /\ n \in Nat /\ n >= 1 /\ h = listed[1]
  <2>1. n \in Nat /\ n >= 1
    BY <1>3
  <2> QED
    BY <1>3, <1>4, <2>1
<1>7. prev[e] = IF k > 1 THEN listed[k - 1] ELSE listed[n]
  BY <1>2, <1>5
<1>8. k > 1 => k - 1 \in 1 .. n
  BY <1>3
<1>9. prev[e] = e <=> n = 1
  <2>1. PICK p \in 1 .. n : p = IF k > 1 THEN k - 1 ELSE n
    BY <1>6, <1>8
  <2>2. (n = 1 => p = k) /\ (n # 1 => p # k)
    BY <1>6, <2>1, Neighbours
  <2>3. prev[e] = listed[p]
    BY <1>7, <2>1
  <2> QED
    BY <1>2, <1>3, <2>2, <2>3
<1>10. e = h <=> k = 1
  BY <1>2, <1>3, <1>6
<1>11. ASSUME NEW hd \in Pointer, NEW nxt \in [Members -> Pointer], NEW prv \in [Members -> Pointer],
              Chain(hd, nxt, prv),
              hd = (IF k # 1 THEN h ELSE IF n = 1 THEN NIL ELSE listed[2]),
              NextsWithout(style, listed, k, next, nxt),
              PrevsWithout(listed, k, prev, prv)
       PROVE  UInv'
  <2>1. Linked(style, IF k # 1 THEN h ELSE IF n = 1 THEN NIL ELSE listed[2], nxt, prv,
               RemoveAt(listed, k))
    BY <1>1, <1>3, <1>11, DropLinked DEF Styles
  <2>2. Linked(style, hd, nxt, prv, listed')
    BY <1>2, <1>11, <2>1
  <2>3. ring' \in Rings /\ DoubleLinked'
    BY <1>2, <1>11, <2>2, ChainLinked
  <2> QED
    BY <1>2, <2>3
<1>12. CASE n = 1
  <2>1. Chain(NIL, next, prev)
    BY <1>1, <1>9, <1>12 DEF DLUnlink
  <2>2. k = 1 /\ NextsWithout(style, listed, k, next, next) /\ PrevsWithout(listed, k, prev, prev)
    BY <1>12 DEF NextsWithout, PrevsWithout
  <2>3. NIL \in Pointer
    BY DEF Pointer
  <2>4. PICK hd \in Pointer, nx \in [Members -> Pointer], pv \in [Members -> Pointer] :
          hd = NIL /\ nx = next /\ pv = prev
    BY <1>4, <2>3
  <2>5. /\ Chain(hd, nx, pv)
        /\ hd = (IF k # 1 THEN h ELSE IF n = 1 THEN NIL ELSE listed[2])
        /\ NextsWithout(style, listed, k, next, nx) /\ PrevsWithout(listed, k, prev, pv)
    BY <1>12, <2>1, <2>2, <2>4
  <2> QED
    BY <1>11, <2>5
<1>13. CASE n # 1 /\ k = 1
  <2>1. Chain(next[e], next, [prev EXCEPT ![next[e]] = prev[e]])
    BY <1>1, <1>9, <1>10, <1>13 DEF DLUnlink
  <2>2. 2 \in 1 .. n /\ next[e] = listed[2]
    <3>1. next[listed[1]] = IF 1 < n THEN listed[1 + 1] ELSE NIL
      BY <1>5, <1>6
    <3>2. 1 < n /\ 2 \in 1 .. n
      <4>1. PICK m \in Nat : m = n
        BY <1>6
      <4>2. 1 < m /\ 2 \in 1 .. m
        BY <1>6, <1>13, <4>1
      <4> QED
        BY <4>1, <4>2
    <3>3. e = listed[1]
      BY <1>2, <1>13
    <3> QED
      BY <3>1, <3>2, <3>3
  <2>3. PICK prv \in [Members -> Pointer] : prv = [prev EXCEPT ![next[e]] = prev[e]]
    BY <1>4
  <2>4. PrevsWithout(listed, k, prev, prv)
    BY <1>2, <1>3, <1>4, <1>13, <2>2, <2>3 DEF PrevsWithout
  <2>5. NextsWithout(style, listed, k, next, next)
    BY <1>1, <1>13 DEF NextsWithout
  <2>6. listed[2] \in Pointer
    BY <1>3, <2>2 DEF Pointer
  <2> QED
    BY <1>4, <1>11, <1>13, <2>1, <2>2, <2>3, <2>4, <2>5, <2>6
<1>14. CASE n # 1 /\ k # 1
  <2>1. PICK q \in 1 .. n : q = IF k = n THEN 1 ELSE k + 1
    BY <1>3
  <2>2. (IF next[e] = NIL THEN h ELSE next[e]) = listed[q]
    <3>1. next[e] = IF k < n THEN listed[k + 1] ELSE NIL
      BY <1>2, <1>5
    <3>2. k < n => listed[k + 1] \in Members
      BY <1>3
    <3> QED
      BY <1>3, <1>4, <1>6, <2>1, <3>1, <3>2
  <2>3. Chain(h, [next EXCEPT ![prev[e]] = next[e]], [prev EXCEPT ![listed[q]] = prev[e]])
    BY <1>1, <1>9, <1>10, <1>14, <2>2 DEF DLUnlink
  <2>4. prev[e] = listed[k - 1] /\ k - 1 \in 1 .. n
    BY <1>3, <1>7, <1>14
  <2>5. PICK nxt \in [Members -> Pointer] : nxt = [next EXCEPT ![listed[k - 1]] = next[e]]
    BY <1>2, <1>4
  <2>6. PICK prv \in [Members -> Pointer] : prv = [prev EXCEPT ![listed[q]] = prev[e]]
    BY <1>2, <1>4
  <2>7. NextsWithout(style, listed, k, next, nxt)
    BY <1>2, <1>3, <1>4, <2>4, <2>5 DEF NextsWithout
  <2>8. PrevsWithout(listed, k, prev, prv)
    <3>1. \A i \in 1 .. n : prv[listed[i]] = IF i = q THEN prev[e] ELSE prev[listed[i]]
      BY <1>2, <1>3, <1>4, <2>6
    <3> QED
      BY <1>2, <1>3, <2>1, <3>1 DEF PrevsWithout
  <2> QED
    BY <1>4, <1>11, <1>14, <2>3, <2>4, <2>5, <2>6, <2>7, <2>8
<1> QED
  BY <1>12, <1>13, <1>14

LEMMA CDLDeletes ==
  ASSUME UInv, NEW e \in Members, CDL_DELETE(e)
  PROVE  UInv'
<1> DEFINE n == Len(listed)
<1>1. style = "CDL" /\ Deletes(e) /\ CDLUnlink(e)
  BY DEF CDL_DELETE
<1>2. PICK k \in 1 .. n :
        /\ listed[k] = e /\ listed' = RemoveAt(listed, k) /\ style' = style
        /\ ring' \in Rings /\ DoubleLinked' => UInv'
  BY <1>1, Deleting
<1>3. /\ listed \in Seq(Members) /\ IsInjective(listed) /\ Linked(style, h, next, prev, listed)
      /\ n \in Nat
      /\ \A i \in 1 .. n : listed[i] \in Members
      /\ \A i, j \in 1 .. n : listed[i] = listed[j] => i = j
  BY StateFacts, Elements
<1>4. /\ NIL \notin Members /\ next \in [Members -> Pointer] /\ prev \in [Members -> Pointer]
      /\ h \in Pointer
      /\ h = IF n = 0 THEN NIL ELSE listed[1]
  BY StateFacts
<1>5. \A i \in 1 .. n : /\ next[listed[i]] = IF i < n THEN listed[i + 1] ELSE listed[1]
                        /\ prev[listed[i]] = IF i > 1 THEN listed[i - 1] ELSE listed[n]
  BY <1>1, <1>3 DEF Linked
<1>6. 1 \in 1 .. n /\ n \in 1 .. n /\ n \in Nat /\ n >= 1 /\ h = listed[1]
  <2>1. n \in Nat /\ n >= 1
    BY <1>3
  <2> QED
    BY <1>3, <1>4, <2>1
<1>7. PICK p \in 1 .. n, q \in 1 .. n :
        p = (IF k > 1 THEN k - 1 ELSE n) /\ q = (IF k < n THEN k + 1 ELSE 1)
  BY <1>3, <1>6
<1>8. prev[e] = listed[p] /\ next[e] = listed[q]
  BY <1>2, <1>5, <1>7
<1>9. e = h <=> k = 1
  BY <1>2, <1>3, <1>6
<1>10. h = e /\ next[h] = h <=> n = 1
  <2>1. (n = 1 => q = k) /\ (n # 1 => q # k)
    BY <1>6, <1>7, Neighbours
  <2>2. k = 1 => (next[h] = h <=> q = k)
    BY <1>2, <1>3, <1>6, <1>8
  <2>3. n = 1 => k = 1
    OBVIOUS
  <2> QED
    BY <1>9, <2>1, <2>2, <2>3
<1>11. CASE n = 1
  <2>1. Chain(NIL, next, prev)
    BY <1>1, <1>10, <1>11 DEF CDLUnlink
  <2>2. k = 1 /\ NextsWithout(style, listed, k, next, next) /\ PrevsWithout(listed, k, prev, prev)
    BY <1>11 DEF NextsWithout, PrevsWithout
  <2>3. Linked(style, IF k # 1 THEN h ELSE IF n = 1 THEN NIL ELSE listed[2], next, prev,
               RemoveAt(listed, k))
    BY <1>1, <1>3, <2>2, DropLinked DEF Styles
  <2>4. Linked(style, NIL, next, prev, listed') /\ NIL \in Pointer
    BY <1>2, <1>11, <2>2, <2>3 DEF Pointer
  <2>5. ring' \in Rings /\ DoubleLinked'
    BY <1>2, <1>4, <2>1, <2>4, ChainLinked
  <2> QED
    BY <1>2, <2>5
<1>12. CASE n # 1
  <2>1. PICK hd : hd = IF e = h THEN next[e] ELSE h
    OBVIOUS
  <2>2. Chain(hd, [next EXCEPT ![listed[p]] = next[e]], [prev EXCEPT ![listed[q]] = prev[e]])
    BY <1>1, <1>8, <1>10, <1>12, <2>1 DEF CDLUnlink
  <2>3. hd = (IF k # 1 THEN h ELSE IF n = 1 THEN NIL ELSE listed[2]) /\ hd \in Pointer
    <3>1. k = 1 => q = 2
      BY <1>6, <1>7, <1>12
    <3>2. listed[q] \in Pointer
      BY <1>3 DEF Pointer
    <3> QED
      BY <1>4, <1>8, <1>9, <1>12, <2>1, <3>1, <3>2
  <2>4. PICK nxt \in [Members -> Pointer] : nxt = [next EXCEPT ![listed[p]] = next[e]]
    BY <1>2, <1>4
  <2>5. PICK prv \in [Members -> Pointer] : prv = [prev EXCEPT ![listed[q]] = prev[e]]
    BY <1>2, <1>4
  <2>6. \A i \in 1 .. n : /\ nxt[listed[i]] = IF i = p THEN next[e] ELSE next[listed[i]]
                          /\ prv[listed[i]] = IF i = q THEN prev[e] ELSE prev[listed[i]]
    BY <1>2, <1>3, <1>4, <2>4, <2>5
  <2>7. NextsWithout(style, listed, k, next, nxt)
    BY <1>1, <1>2, <1>3, <1>7, <2>6 DEF NextsWithout
  <2>8. PrevsWithout(listed, k, prev, prv)
    BY <1>1, <1>2, <1>3, <1>7, <2>6 DEF PrevsWithout
  <2>9. Linked(style, IF k # 1 THEN h ELSE IF n = 1 THEN NIL ELSE listed[2], nxt, prv,
               RemoveAt(listed, k))
    BY <1>1, <1>3, <2>7, <2>8, DropLinked DEF Styles
  <2>10. Linked(style, hd, nxt, prv, listed')
    BY <1>2, <2>3, <2>9
  <2>11. ring' \in Rings /\ DoubleLinked'
    BY <1>2, <2>2, <2>3, <2>4, <2>5, <2>10, ChainLinked
  <2> QED
    BY <1>2, <2>11
<1> QED
  BY <1>11, <1>12

-----------------------------------------------------------------------------
(* The loops change nothing but where they stand. *)
LEMMA Standing ==
  ASSUME UInv, ring' = ring, style' = style, listed' = listed,
         due' \in Seq(Members), IsInjective(due'), loop'.on \in BOOLEAN, LoopInv'
  PROVE  UInv'
<1>1. TypeOK'
  BY DEF UInv, TypeOK
<1>2. DoubleLinked'
  BY DEF UInv, DoubleLinked
<1> QED
  BY <1>1, <1>2 DEF UInv

(* A loop begins at the head, with the whole list to visit. *)
LEMMA LoopBegins ==
  ASSUME UInv, ForeachSafe
  PROVE  UInv'
<1> DEFINE n == Len(listed)
<1>1. /\ loop' = At(h, IF h = NIL \/ style # "CDL" THEN NIL ELSE prev[h])
      /\ due' = listed /\ ring' = ring /\ style' = style /\ listed' = listed
  BY DEF ForeachSafe
<1>2. /\ listed \in Seq(Members) /\ IsInjective(listed) /\ Linked(style, h, next, prev, listed)
      /\ n \in Nat
      /\ listed = <<>> <=> n = 0
      /\ h = IF n = 0 THEN NIL ELSE listed[1]
      /\ h = NIL <=> n = 0
  BY StateFacts, Elements
<1>3. /\ loop'.on = TRUE /\ loop'.el = h
      /\ loop'.tmp = (IF h = NIL THEN NIL ELSE next[h])
      /\ loop'.last = IF h = NIL \/ style # "CDL" THEN NIL ELSE prev[h]
  BY <1>1 DEF At
<1>4. CASE n = 0
  <2>1. LoopInv'
    BY <1>1, <1>2, <1>3, <1>4 DEF LoopInv
  <2> QED
    BY <1>1, <1>2, <1>3, <2>1, Standing
<1>5. CASE n # 0
  <2>1. h # NIL /\ h = listed[1] /\ 1 \in 1 .. n
    BY <1>2, <1>5
  <2>2. /\ next[h] = IF 1 < n THEN listed[2] ELSE IF style = "CDL" THEN listed[1] ELSE NIL
        /\ style = "CDL" => prev[h] = listed[n]
    <3>1. next[listed[1]] = IF 1 < n THEN listed[1 + 1] ELSE IF style = "CDL" THEN listed[1] ELSE NIL
      BY <1>2, <2>1 DEF Linked
    <3>2. style = "CDL" => prev[listed[1]] = IF 1 > 1 THEN listed[1 - 1] ELSE listed[n]
      BY <1>2, <2>1 DEF Linked
    <3> QED
      BY <2>1, <3>1, <3>2
  <2>3. Ahead'
    BY <1>1, <1>2 DEF Ahead
  <2>4. LoopInv'
    BY <1>1, <1>2, <1>3, <1>5, <2>1, <2>2, <2>3 DEF LoopInv
  <2> QED
    BY <1>1, <1>2, <1>3, <2>4, Standing
<1> QED
  BY <1>4, <1>5

(* A loop goes on to the element that followed the one it stands on, or     *)
(* ends behind the last.                                                    *)
LEMMA LoopGoesOn ==
  ASSUME UInv, ForeachNext
  PROVE  UInv'
<1>1. /\ loop.on /\ loop.el # NIL /\ loop' = At(AfterEl, loop.last)
      /\ due' = Tail(due) /\ ring' = ring /\ style' = style /\ listed' = listed
  BY DEF ForeachNext
<1>2. PICK n, m : n = Len(listed) /\ m = Len(due)
  OBVIOUS
<1>3. due \in Seq(Members) /\ IsInjective(due) /\ due # <<>>
  BY <1>1 DEF UInv, TypeOK, LoopInv
<1>4. /\ n \in Nat /\ m \in Nat /\ m >= 1
      /\ \A i \in 1 .. m : due[i] \in Members
      /\ \A i, j \in 1 .. m : due[i] = due[j] => i = j
      /\ \A i \in 1 .. n : listed[i] \in Members
      /\ \A i \in 1 .. n : next[listed[i]] =
           IF i < n THEN listed[i + 1] ELSE IF style = "CDL" THEN listed[1] ELSE NIL
  <2>1. Linked(style, h, next, prev, listed)
    BY StateFacts
  <2> QED
    BY <1>2, <1>3, <2>1, StateFacts, Elements DEF Linked
<1>5. /\ m - 1 <= n
      /\ \A i \in 2 .. m : due[i] = listed[n - m + i]
      /\ loop.el = due[1]
      /\ m > 1 => loop.tmp = due[2]
      /\ m = 1 /\ style # "CDL" => loop.tmp = NIL
      /\ style = "CDL" => loop.last = due[m]
  BY <1>1, <1>2, <1>3 DEF UInv, LoopInv, Ahead
<1>6. PICK t : t = Tail(due)
  OBVIOUS
<1>7. /\ t \in Seq(Members) /\ IsInjective(t) /\ Len(t) = m - 1
      /\ \A i \in 1 .. m - 1 : t[i] = due[i + 1]
      /\ t = <<>> <=> m = 1
  <2>1. t \in Seq(Members) /\ IsInjective(t)
    BY <1>3, <1>6, HeadTailProperties, TailSet
  <2>2. Len(t) = m - 1 /\ \A i \in 1 .. Len(t) : t[i] = due[i + 1]
    BY <1>2, <1>3, <1>6, HeadTailProperties
  <2>3. t = <<>> <=> Len(t) = 0
    BY <2>1, EmptySeq
  <2> QED
    BY <1>4, <2>1, <2>2, <2>3
<1>8. /\ loop'.on = TRUE /\ loop'.el = AfterEl
      /\ loop'.tmp = (IF AfterEl = NIL THEN NIL ELSE next[AfterEl])
      /\ loop'.last = loop.last
  BY <1>1 DEF At
<1>9. CASE m = 1
  <2>1. AfterEl = NIL
    BY <1>5, <1>9 DEF AfterEl
  <2>2. LoopInv'
    BY <1>1, <1>6, <1>7, <1>8, <1>9, <2>1 DEF LoopInv
  <2> QED
    BY <1>1, <1>6, <1>7, <1>8, <2>2, Standing
<1>10. CASE m # 1
  <2>1. 1 \in 1 .. m /\ 2 \in 1 .. m /\ m \in 1 .. m /\ m > 1
    BY <1>4, <1>10
  <2>2. AfterEl = due[2] /\ due[2] # NIL
    BY <1>4, <1>5, <2>1, MembersAssumption DEF AfterEl
  <2>3. PICK k \in 1 .. n : k = n - m + 2
    BY <1>4, <1>5, <2>1
  <2>4. due[2] = listed[k] /\ k < n <=> m > 2
    BY <1>4, <1>5, <2>1, <2>3
  <2>5. next[due[2]] = IF k < n THEN listed[k + 1] ELSE IF style = "CDL" THEN listed[1] ELSE NIL
    BY <1>4, <1>5, <2>1, <2>3
  <2>6. m > 2 => due[3] = listed[k + 1]
    BY <1>4, <1>5, <2>3
  <2>7. t[1] = due[2] /\ (m > 2 => t[2] = due[3]) /\ t[m - 1] = due[m]
    <3>1. 1 \in 1 .. m - 1 /\ m - 1 \in 1 .. m - 1 /\ (m > 2 => 2 \in 1 .. m - 1)
      BY <1>4, <2>1
    <3> QED
      BY <1>4, <1>7, <3>1
  <2>8. Ahead'
    <3>1. ASSUME NEW i \in 2 .. m - 1 PROVE t[i] = listed[n - (m - 1) + i]
      <4>1. PICK j \in 2 .. m : j = i + 1
        BY <1>4
      <4>2. t[i] = due[j]
        BY <1>4, <1>7, <4>1
      <4>3. n - (m - 1) + i = n - m + j
        BY <1>4, <4>1
      <4> QED
        BY <1>5, <4>2, <4>3
    <3>2. m - 1 - 1 <= n /\ m - 1 <= n /\ n - (m - 1) + 1 = k
      BY <1>4, <1>5, <2>3
    <3>3. listed[k] = t[1]
      BY <1>5, <2>1, <2>3, <2>7
    <3>4. listed' = listed /\ due' = t /\ Len(due') = m - 1 /\ Len(listed') = n
      BY <1>1, <1>2, <1>6, <1>7
    <3> QED
      BY <3>1, <3>2, <3>3, <3>4 DEF Ahead
  <2>9. /\ Len(t) > 1 => loop'.tmp = t[2]
        /\ Len(t) = 1 /\ style # "CDL" => loop'.tmp = NIL
        /\ style = "CDL" => loop'.last = t[Len(t)]
    <3>1. Len(t) > 1 <=> m > 2
      BY <1>4, <1>7
    <3>2. Len(t) = 1 <=> ~(m > 2)
      BY <1>4, <1>7, <2>1
    <3>3. k < n <=> m > 2
      BY <1>4, <2>3
    <3> QED
      BY <1>5, <1>7, <1>8, <2>2, <2>5, <2>6, <2>7, <3>1, <3>2, <3>3
  <2>10. LoopInv'
    <3>1. t # <<>> /\ loop'.el = t[1]
      BY <1>7, <1>8, <1>10, <2>2, <2>7
    <3> QED
      BY <1>1, <1>6, <1>8, <2>8, <2>9, <3>1 DEF LoopInv
  <2> QED
    BY <1>1, <1>6, <1>7, <1>8, <2>10, Standing
<1> QED
  BY <1>9, <1>10

LEMMA LoopStops ==
  ASSUME UInv, ForeachEnd
  PROVE  UInv'
<1>1. loop' = Idle /\ due' = <<>> /\ ring' = ring /\ style' = style /\ listed' = listed
  BY DEF ForeachEnd
<1>2. <<>> \in Seq(Members) /\ IsInjective(<<>>)
  BY DEF IsInjective
<1>3. loop'.on = FALSE
  BY <1>1 DEF Idle
<1>4. LoopInv'
  BY <1>1, <1>3 DEF LoopInv
<1> QED
  BY <1>1, <1>2, <1>3, <1>4, Standing

-----------------------------------------------------------------------------
LEMMA InitUInv == Init => UInv
<1> SUFFICES ASSUME Init
             PROVE  UInv
  OBVIOUS
<1>1. style \in Styles
  BY DEF Init, Styles
<1>2. <<>> \in Seq(Members) /\ IsInjective(<<>>) /\ Len(<<>>) = 0
  BY DEF IsInjective
<1>3. TypeOK
  BY <1>1, <1>2 DEF Init, TypeOK, Idle, Pointer
<1>4. Linked(style, ring.head, ring.next, ring.prev, listed)
  BY <1>2 DEF Init, Linked
<1>5. DoubleLinked
  BY <1>1, <1>4, ListsLinked DEF DoubleLinked
<1>6. LoopInv
  BY DEF Init, LoopInv, Idle
<1> QED
  BY <1>3, <1>5, <1>6 DEF UInv

LEMMA NextUInv == UInv /\ [Next]_listVars => UInv'
<1> SUFFICES ASSUME UInv, [Next]_listVars
             PROVE  UInv'
  OBVIOUS
<1>1. ASSUME NEW e \in Members,
             \/ LL_PREPEND(e) \/ LL_APPEND_VS2008(e) \/ LL_DELETE_VS2008(e)
             \/ DL_PREPEND(e) \/ DL_APPEND(e) \/ CDL_PREPEND(e)
             \/ DL_DELETE(e) \/ CDL_DELETE(e)
      PROVE  UInv'
  BY <1>1, LLPrepends, LLAppends, LLDeletes, DLPrepends, DLAppends, CDLPrepends, DLDeletes,
     CDLDeletes
<1>2. CASE ForeachSafe
  BY <1>2, LoopBegins
<1>3. CASE ForeachNext
  BY <1>3, LoopGoesOn
<1>4. CASE ForeachEnd
  BY <1>4, LoopStops
<1>5. CASE UNCHANGED listVars
  BY <1>5 DEF listVars, UInv, TypeOK, DoubleLinked, LoopInv, Ahead
<1> QED
  BY <1>1, <1>2, <1>3, <1>4, <1>5 DEF Next

LEMMA InductiveUInv == Spec => []UInv
<1>1. Init => UInv
  BY InitUInv
<1>2. UInv /\ [Next]_listVars => UInv'
  BY NextUInv
<1> QED
  BY <1>1, <1>2, PTL DEF Spec

(* Whatever is prepended, appended and deleted, in whatever order, the      *)
(* pointers of a single, a double and a circular list are the list: both    *)
(* directions, and the head's prev at the last element.                     *)
THEOREM ListsStayLinked == Spec => []DoubleLinked
<1>1. UInv => DoubleLinked
  BY DEF UInv
<1> QED
  BY <1>1, InductiveUInv, PTL

(* A FOREACH_SAFE loop visits what was in the list when it began, once and  *)
(* in order, although its body may delete the element it stands on.         *)
THEOREM LoopsAreExact == Spec => []LoopExact
<1>1. UInv => LoopExact
  <2> SUFFICES ASSUME UInv, loop.on
               PROVE  loop.el = IF due = <<>> THEN NIL ELSE Head(due)
    BY DEF LoopExact
  <2>1. CASE due = <<>>
    BY <2>1 DEF UInv, LoopInv
  <2>2. CASE due # <<>>
    <3>1. loop.el = due[1]
      BY <2>2 DEF UInv, LoopInv
    <3>2. due \in Seq(Members)
      BY DEF UInv, TypeOK
    <3>3. Head(due) = due[1]
      BY <2>2, <3>2, HeadTailProperties
    <3> QED
      BY <2>2, <3>1, <3>3
  <2> QED
    BY <2>1, <2>2
<1> QED
  BY <1>1, InductiveUInv, PTL
===============================================================================
