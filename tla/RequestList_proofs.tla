-------------------------- MODULE RequestList_proofs --------------------------
(***************************************************************************)
(* The pointers of the request list are a sequence, for any heap and any    *)
(* number of elements: LInv is an inductive invariant of RequestList.       *)
(***************************************************************************)
EXTENDS RequestList, SequenceLemmas

LEMMA InitEstablishes == Init => LInv
<1> SUFFICES ASSUME Init PROVE LInv
  OBVIOUS
<1>1. order = <<>> /\ Len(order) = 0 /\ seen = <<>> /\ ToSet(order) = {}
  BY DEF Init, ToSet
<1>2. TypeOK
  BY <1>1 DEF Init, TypeOK, Pointers
<1>3. ListIntact
  BY <1>1 DEF Init, ListIntact, IsInjective
<1> QED
  BY <1>2, <1>3 DEF Init, LInv, SweepExact, SearchExact, WalkInv

(* The elements of a sequence are the values at its positions. *)
LEMMA Positions ==
  ASSUME NEW S, NEW s \in Seq(S)
  PROVE  /\ Len(s) \in Nat /\ DOMAIN s = 1 .. Len(s)
         /\ \A x : x \in ToSet(s) <=> \E i \in 1 .. Len(s) : s[i] = x
         /\ \A i \in 1 .. Len(s) : s[i] \in S
<1>1. Len(s) \in Nat /\ DOMAIN s = 1 .. Len(s)
  BY LenProperties
<1>2. \A i \in 1 .. Len(s) : s[i] \in S
  BY ElementOfSeq
<1> QED
  BY <1>1, <1>2 DEF ToSet

(* A pointer that is reached from the list is in it, or NULL. *)
LEMMA NextInList ==
  ASSUME LInv, NEW n \in ToSet(order)
  PROVE  /\ n \in Nodes
         /\ next[n] \in ToSet(order) \cup {NULL}
         /\ next[n] = NULL <=> n = order[Len(order)]
<1>1. order \in Seq(Nodes)
  BY DEF LInv, TypeOK
<1>2. PICK i \in 1 .. Len(order) : order[i] = n
  BY <1>1, Positions
<1>3. next[n] = IF i = Len(order) THEN NULL ELSE order[i + 1]
  BY <1>2 DEF LInv, ListIntact
<1>4. Len(order) \in Nat /\ n \in Nodes
  BY <1>1, <1>2, Positions
<1>7. DOMAIN order = 1 .. Len(order)
  BY <1>1, Positions
<1>5. CASE i = Len(order)
  <2>1. next[n] = NULL
    BY <1>3, <1>5
  <2>2. n = order[Len(order)]
    BY <1>2, <1>5
  <2> QED
    BY <1>4, <2>1, <2>2
<1>6. CASE i # Len(order)
  <2>1. i + 1 \in 1 .. Len(order)
    BY <1>4, <1>6
  <2>2. order[i + 1] \in ToSet(order) /\ order[i + 1] \in Nodes
    BY <1>1, <2>1, Positions
  <2>3. Len(order) \in 1 .. Len(order)
    BY <1>4, <2>1
  <2>4. n # order[Len(order)]
    BY <1>2, <1>4, <1>6, <1>7, <2>3 DEF LInv, ListIntact, IsInjective
  <2> QED
    BY <1>3, <1>4, <1>6, <2>2, <2>4, ListAssumption
<1> QED
  BY <1>5, <1>6

(* The head of the list is NULL only if the list is empty. *)
LEMMA HeadOfList ==
  ASSUME LInv
  PROVE  /\ head = NULL <=> order = <<>>
         /\ head # NULL => head \in ToSet(order) /\ head = order[1] /\ Len(order) >= 1
<1>1. order \in Seq(Nodes)
  BY DEF LInv, TypeOK
<1>2. CASE order = <<>>
  BY <1>2 DEF LInv, ListIntact
<1>3. CASE order # <<>>
  <2>1. 1 \in 1 .. Len(order)
    BY <1>1, <1>3, EmptySeq, Positions
  <2> QED
    BY <1>1, <1>3, <2>1, Positions, ListAssumption DEF LInv, ListIntact
<1> QED
  BY <1>2, <1>3

-----------------------------------------------------------------------------
LEMMA AddKeeps ==
  ASSUME LInv, NEW n \in Nodes, NEW i \in Ids, Add(n, i)
  PROVE  LInv'
<1>1. order \in Seq(Nodes)
  BY DEF LInv, TypeOK
<1>2. n \notin ToSet(order) /\ pc = "idle" /\ allocated = ToSet(order) /\ seen' = <<>>
  BY DEF Add, LInv, ListIntact, WalkInv
<1>3. \A k \in 1 .. Len(order) : order[k] # n
  BY <1>1, <1>2, Positions
<1>4. CASE head = NULL
  <2>1. order = <<>> /\ order' = <<n>> /\ head' = n /\ pc' = "idle"
    BY <1>2, <1>4, HeadOfList DEF Add
  <2>2. order' \in Seq(Nodes) /\ Len(order') = 1 /\ order'[1] = n
        /\ ToSet(order') = {n} /\ DOMAIN order' = {1}
    BY <2>1 DEF ToSet
  <2>3. next'[n] = NULL /\ allocated' = {n}
    <3>1. ToSet(order) = {}
      BY <2>1 DEF ToSet
    <3> QED
      BY <1>2, <3>1 DEF Add, LInv, TypeOK
  <2>4. ListIntact'
    <3>1. IsInjective(order')
      BY <2>2 DEF IsInjective
    <3>2. \A k \in 1 .. Len(order') : k = 1
      BY <2>2
    <3> QED
      BY <2>1, <2>2, <2>3, <3>1, <3>2 DEF ListIntact
  <2>5. TypeOK'
    BY <2>2, <1>4 DEF Add, LInv, TypeOK, Pointers
  <2> QED
    BY <1>2, <2>1, <2>4, <2>5 DEF LInv, SweepExact, SearchExact, WalkInv
<1>5. CASE head # NULL
  <2>1. pc' = "append" /\ el' = n /\ tmp' = head /\ order' = order /\ head' = head
        /\ next' = [next EXCEPT ![n] = NULL] /\ allocated' = allocated \cup {n}
    BY <1>5 DEF Add
  <2>2. \A k \in 1 .. Len(order) : next'[order[k]] = next[order[k]]
    BY <1>1, <1>3, <2>1, Positions DEF LInv, TypeOK
  <2>3. ListIntact'
    BY <1>2, <2>1, <2>2 DEF LInv, ListIntact
  <2>4. next'[n] = NULL
    BY <2>1 DEF LInv, TypeOK
  <2>5. TypeOK'
    BY <1>5 DEF Add, LInv, TypeOK, Pointers
  <2>6. head \in ToSet(order)
    BY <1>5, HeadOfList
  <2> QED
    BY <1>2, <2>1, <2>3, <2>4, <2>5, <2>6 DEF LInv, SweepExact, SearchExact, WalkInv
<1> QED
  BY <1>4, <1>5

(* The element LL_APPEND stands on last is the last one of the list. *)
LEMMA AppendKeeps ==
  ASSUME LInv, AppendWalk \/ AppendLink
  PROVE  LInv'
<1>1. order \in Seq(Nodes) /\ Len(order) \in Nat /\ pc = "append"
  BY Positions DEF LInv, TypeOK, AppendWalk, AppendLink
<1>2. tmp \in ToSet(order) /\ el \in Nodes \ ToSet(order) /\ next[el] = NULL
  BY <1>1 DEF LInv, WalkInv
<1>3. CASE AppendWalk
  <2>1. tmp' \in ToSet(order) /\ tmp' \in Nodes
    BY <1>2, <1>3, NextInList DEF AppendWalk
  <2> QED
    BY <1>1, <1>2, <1>3, <2>1
    DEF AppendWalk, heapVars, LInv, TypeOK, Pointers, ListIntact, SweepExact, SearchExact, WalkInv
<1>4. CASE AppendLink
  <2>1. tmp = order[Len(order)] /\ tmp \in Nodes
    BY <1>2, <1>4, NextInList DEF AppendLink, AtEnd
  <2>2. /\ order' = Append(order, el) /\ next' = [next EXCEPT ![tmp] = el]
        /\ pc' = "idle" /\ head' = head /\ allocated' = allocated /\ seen' = <<>>
    BY <1>4 DEF AppendLink, Return
  <2>3. /\ order' \in Seq(Nodes) /\ Len(order') = Len(order) + 1
        /\ \A k \in 1 .. Len(order) : order'[k] = order[k]
        /\ order'[Len(order) + 1] = el
    BY <1>1, <1>2, <2>2, AppendProperties
  <2>4. IsInjective(order') /\ ToSet(order') = ToSet(order) \cup {el}
    BY <1>1, <1>2, <2>2, AppendSet, AppendInjectiveSeq DEF LInv, ListIntact
  <2>5. Len(order) \in 1 .. Len(order)
    <3>1. PICK k \in 1 .. Len(order) : order[k] = tmp
      BY <1>1, <1>2, Positions
    <3> QED
      BY <1>1, <3>1
  <2>6. head' = order'[1] /\ order' # <<>>
    <3>1. head = order[1]
      BY <1>1, <2>5, EmptySeq DEF LInv, ListIntact
    <3> QED
      BY <1>1, <2>2, <2>3, <2>5, <3>1, EmptySeq
  <2>7. ASSUME NEW k \in 1 .. Len(order')
        PROVE  next'[order'[k]] = (IF k = Len(order') THEN NULL ELSE order'[k + 1])
    <3>1. CASE k = Len(order) + 1
      <4>1. order'[k] = el /\ el # tmp
        BY <1>2, <2>3, <3>1
      <4> QED
        BY <1>2, <2>2, <2>3, <3>1, <4>1 DEF LInv, TypeOK
    <3>2. CASE k = Len(order)
      <4>1. order'[k] = tmp /\ k # Len(order') /\ order'[k + 1] = el
        BY <1>1, <2>1, <2>3, <2>5, <3>2
      <4> QED
        BY <2>1, <2>2, <4>1 DEF LInv, TypeOK
    <3>3. CASE k < Len(order)
      <4>1. /\ k \in 1 .. Len(order) /\ k + 1 \in 1 .. Len(order)
            /\ k # Len(order) /\ k # Len(order')
        BY <1>1, <2>3, <3>3
      <4>2. order[k] # tmp /\ order[k] \in Nodes
        BY <1>1, <2>1, <2>5, <4>1, Positions DEF LInv, ListIntact, IsInjective
      <4>3. next'[order[k]] = next[order[k]]
        BY <2>2, <4>2 DEF LInv, TypeOK
      <4>4. next[order[k]] = order[k + 1]
        BY <4>1 DEF LInv, ListIntact
      <4> QED
        BY <2>3, <4>1, <4>3, <4>4
    <3> QED
      BY <1>1, <2>3, <3>1, <3>2, <3>3
  <2>8. ListIntact'
    BY <1>1, <2>2, <2>4, <2>6, <2>7 DEF LInv, ListIntact
  <2>9. TypeOK'
    <3>1. next' \in [Nodes -> Pointers]
      BY <1>2, <2>2 DEF LInv, TypeOK, Pointers
    <3>2. {el', tmp', pt'} \subseteq Pointers /\ seen' \in Seq(Nodes)
      BY <1>4 DEF AppendLink, Return, Pointers
    <3> QED
      BY <1>4, <2>2, <2>3, <3>1, <3>2 DEF AppendLink, Return, LInv, TypeOK
  <2> QED
    BY <2>2, <2>8, <2>9 DEF LInv, SweepExact, SearchExact, WalkInv
<1> QED
  BY <1>3, <1>4

-----------------------------------------------------------------------------
(* A walk that stands on an element can pass it. *)
LEMMA WalkStep ==
  ASSUME LInv, NEW p, At(p), p # NULL
  PROVE  /\ p \in ToSet(order) /\ p \in Nodes
         /\ Len(seen) + 1 \in 1 .. Len(order) /\ p = order[Len(seen) + 1]
         /\ Append(seen, p) \in Seq(Nodes)
         /\ Len(Append(seen, p)) = Len(seen) + 1
         /\ \A i \in 1 .. Len(seen) + 1 : Append(seen, p)[i] = order[i]
         /\ ToSet(Append(seen, p)) = ToSet(seen) \cup {p}
         /\ next[p] = (IF Len(seen) + 1 = Len(order) THEN NULL ELSE order[Len(seen) + 2])
<1>1. order \in Seq(Nodes) /\ seen \in Seq(Nodes)
  BY DEF LInv, TypeOK
<1>2. Len(order) \in Nat /\ Len(seen) \in Nat
  BY <1>1, LenProperties
<1>3. Len(seen) + 1 \in 1 .. Len(order) /\ p = order[Len(seen) + 1]
  BY <1>2 DEF At
<1>4. p \in ToSet(order) /\ p \in Nodes
  BY <1>1, <1>3, Positions
<1>5. /\ Append(seen, p) \in Seq(Nodes) /\ Len(Append(seen, p)) = Len(seen) + 1
      /\ \A i \in 1 .. Len(seen) : Append(seen, p)[i] = seen[i]
      /\ Append(seen, p)[Len(seen) + 1] = p
  BY <1>1, <1>4, AppendProperties
<1>6. \A i \in 1 .. Len(seen) + 1 : Append(seen, p)[i] = order[i]
  BY <1>2, <1>3, <1>5 DEF At
<1>7. ToSet(Append(seen, p)) = ToSet(seen) \cup {p}
  BY <1>1, <1>4, AppendSet
<1>8. next[p] = (IF Len(seen) + 1 = Len(order) THEN NULL ELSE order[Len(seen) + 2])
  <2>1. next[order[Len(seen) + 1]] =
          (IF Len(seen) + 1 = Len(order) THEN NULL ELSE order[(Len(seen) + 1) + 1])
    BY <1>3 DEF LInv, ListIntact
  <2>2. (Len(seen) + 1) + 1 = Len(seen) + 2
    BY <1>2
  <2> QED
    BY <1>3, <2>1, <2>2
<1> QED
  BY <1>3, <1>4, <1>5, <1>6, <1>7, <1>8

(* A walk that begins at the head stands before the whole list. *)
LEMMA WalkBegins ==
  ASSUME LInv, seen = <<>>
  PROVE  At(head) /\ ToSet(seen) = {}
<1>1. order \in Seq(Nodes) /\ Len(seen) = 0
  BY DEF LInv, TypeOK
<1>2. Len(order) \in Nat /\ (Len(order) = 0 <=> order = <<>>)
  BY <1>1, LenProperties, EmptySeq
<1>3. ToSet(seen) = {}
  BY DEF ToSet
<1> QED
  BY <1>1, <1>2, <1>3 DEF At, LInv, ListIntact

LEMMA FindKeeps ==
  ASSUME LInv, NEW i \in Ids, Find(i)
  PROVE  LInv'
<1>1. At(head)' /\ ToSet(seen') = {}
  <2>1. seen' = seen /\ order' = order /\ head' = head /\ seen = <<>>
    BY DEF Find, heapVars, LInv, WalkInv
  <2> QED
    BY <2>1, WalkBegins DEF At
<1>2. TypeOK' /\ ListIntact'
  BY DEF Find, heapVars, LInv, TypeOK, ListIntact
<1> QED
  BY <1>1, <1>2 DEF Find, heapVars, At, LInv, SweepExact, SearchExact, WalkInv

LEMMA SearchKeeps ==
  ASSUME LInv, SearchWalk \/ SearchReturn
  PROVE  LInv'
<1>1. CASE SearchWalk
  <2>1. At(tmp) /\ tmp # NULL /\ pc = "search" /\ id[tmp] # wanted
        /\ \A n \in ToSet(seen) : id[n] # wanted
    BY <1>1 DEF SearchWalk, Matches, LInv, SearchExact
  <2>2. /\ tmp' = next[tmp] /\ seen' = Append(seen, tmp)
        /\ UNCHANGED <<heapVars, pc, el, pt, wanted, order>>
    BY <1>1 DEF SearchWalk
  <2>3. Len(seen) \in Nat /\ Len(order) \in Nat
    BY LenProperties DEF LInv, TypeOK
  <2>4. /\ seen' \in Seq(Nodes) /\ Len(seen') = Len(seen) + 1 /\ Len(seen) + 1 <= Len(order)
        /\ \A i \in 1 .. Len(seen) + 1 : seen'[i] = order[i]
        /\ ToSet(seen') = ToSet(seen) \cup {tmp}
    BY <2>1, <2>2, <2>3, WalkStep
  <2>5. tmp \in ToSet(order)
        /\ next[tmp] = (IF Len(seen) + 1 = Len(order) THEN NULL ELSE order[Len(seen) + 2])
    BY <2>1, WalkStep
  <2>6. next[tmp] \in Pointers
    BY <2>1, WalkStep DEF LInv, TypeOK
  <2>7. At(tmp)'
    BY <2>2, <2>3, <2>4, <2>5 DEF At, heapVars
  <2>8. \A n \in ToSet(seen') : id'[n] # wanted'
    BY <2>1, <2>2, <2>4 DEF Matches, heapVars
  <2>9. TypeOK' /\ ListIntact'
    BY <2>2, <2>4, <2>6 DEF heapVars, LInv, TypeOK, ListIntact
  <2> QED
    BY <2>1, <2>2, <2>7, <2>8, <2>9
    DEF heapVars, LInv, SweepExact, SearchExact, WalkInv, Matches
<1>2. CASE SearchReturn
  <2>1. pc = "search" /\ pc' = "idle" /\ UNCHANGED <<heapVars, order, wanted>>
        /\ {el', tmp', pt'} \subseteq Pointers /\ seen' = <<>> /\ seen' \in Seq(Nodes)
    BY <1>2 DEF SearchReturn, Return, Pointers
  <2> QED
    BY <2>1 DEF heapVars, LInv, TypeOK, ListIntact, SweepExact, SearchExact, WalkInv
<1> QED
  BY <1>1, <1>2

-----------------------------------------------------------------------------
(* What every unlinking comes to: the element at position k leaves the      *)
(* sequence, the element before it skips it, and the sweep goes on behind.  *)
LEMMA UnlinkKeeps ==
  ASSUME LInv, pc \in {"sweep", "delete"}, NEW k \in 1 .. Len(order),
         k = Len(seen) + 1, pt = order[k],
         order' = RemoveAt(order, k), allocated' = allocated \ {pt},
         head' = IF k = 1 THEN next[head] ELSE head,
         next' = IF k = 1 THEN next ELSE [next EXCEPT ![order[k - 1]] = next[pt]],
         pt' = next'[pt], UNCHANGED <<id, wanted, seen>>,
         pc' = "sweep", {el', tmp'} \subseteq Pointers
  PROVE  LInv'
<1> DEFINE n == Len(order)
<1>1. order \in Seq(Nodes) /\ n \in Nat /\ seen \in Seq(Nodes) /\ Len(seen) \in Nat
  BY LenProperties DEF LInv, TypeOK
<1>2. /\ order' \in Seq(Nodes) /\ Len(order') = n - 1
      /\ \A j \in 1 .. n - 1 : order'[j] = (IF j < k THEN order[j] ELSE order[j + 1])
  BY <1>1, RemoveAtProperties
<1>3. ToSet(order') = ToSet(order) \ {pt} /\ IsInjective(order')
  BY <1>1, RemoveAtSet DEF LInv, ListIntact
<1>4. \A i \in 1 .. n : /\ order[i] \in Nodes
                         /\ next[order[i]] = (IF i = n THEN NULL ELSE order[i + 1])
                         /\ \A j \in 1 .. n : order[i] = order[j] => i = j
  <2>1. DOMAIN order = 1 .. n /\ \A i \in 1 .. n : order[i] \in Nodes
    BY <1>1, Positions
  <2> QED
    BY <2>1 DEF LInv, ListIntact, IsInjective
<1>5. /\ k # 1 => next'[order[k - 1]] = next[pt]
      /\ \A i \in 1 .. n : k = 1 \/ i # k - 1 => next'[order[i]] = next[order[i]]
  <2>1. CASE k = 1
    BY <2>1
  <2>2. CASE k # 1
    <3>1. k - 1 \in 1 .. n
      BY <1>1, <2>2
    <3>2. order[k - 1] \in Nodes /\ \A i \in 1 .. n : i # k - 1 => order[i] # order[k - 1]
      BY <1>4, <3>1
    <3>3. next' = [next EXCEPT ![order[k - 1]] = next[pt]]
      BY <2>2
    <3> QED
      BY <1>4, <2>2, <3>2, <3>3 DEF LInv, TypeOK
  <2> QED
    BY <2>1, <2>2
<1>6. next'[pt] = next[pt]
  BY <1>1, <1>5
<1>7. next[pt] = (IF k = n THEN NULL ELSE order[k + 1])
  BY <1>4
<1>8. \A j \in 1 .. n - 1 : next'[order'[j]] = (IF j = n - 1 THEN NULL ELSE order'[j + 1])
  <2> SUFFICES ASSUME NEW j \in 1 .. n - 1
               PROVE  next'[order'[j]] = (IF j = n - 1 THEN NULL ELSE order'[j + 1])
    OBVIOUS
  <2>1. j \in 1 .. n /\ j + 1 \in 1 .. n
    BY <1>1
  <2>2. CASE j >= k
    <3>1. order'[j] = order[j + 1] /\ next'[order[j + 1]] = next[order[j + 1]]
      BY <1>1, <1>2, <1>5, <2>1, <2>2
    <3>2. next[order[j + 1]] = (IF j + 1 = n THEN NULL ELSE order[(j + 1) + 1])
      BY <1>4, <2>1
    <3>3. ASSUME j # n - 1 PROVE order'[j + 1] = order[(j + 1) + 1]
      <4>1. j + 1 \in 1 .. n - 1 /\ ~(j + 1 < k)
        BY <1>1, <2>2, <3>3
      <4> QED
        BY <1>2, <4>1
    <3> QED
      BY <1>1, <3>1, <3>2, <3>3
  <2>3. CASE j = k - 1
    <3>1. order'[j] = order[k - 1] /\ k # 1 /\ next'[order'[j]] = next[pt]
      BY <1>1, <1>2, <1>5, <2>3
    <3>2. j # n - 1 => k # n /\ order'[j + 1] = order[k + 1]
      BY <1>1, <1>2, <2>3
    <3>3. j = n - 1 => k = n
      BY <1>1, <2>3
    <3> QED
      BY <1>7, <3>1, <3>2, <3>3
  <2>4. CASE j < k - 1
    <3>1. order'[j] = order[j] /\ next'[order[j]] = next[order[j]]
      BY <1>1, <1>2, <1>5, <2>1, <2>4
    <3>2. j # n - 1 /\ j # n /\ order'[j + 1] = order[j + 1]
      BY <1>1, <1>2, <2>4
    <3> QED
      BY <1>4, <2>1, <3>1, <3>2
  <2> QED
    BY <1>1, <2>2, <2>3, <2>4
<1>9. head' = (IF order' = <<>> THEN NULL ELSE order'[1])
  <2>1. 1 \in 1 .. n /\ head = order[1]
    BY <1>1, EmptySeq DEF LInv, ListIntact
  <2>2. order' = <<>> <=> n = 1
    BY <1>1, <1>2, EmptySeq
  <2>3. next[head] = (IF n = 1 THEN NULL ELSE order[1 + 1])
    BY <1>4, <2>1
  <2>4. n # 1 => order'[1] = (IF k = 1 THEN order[1 + 1] ELSE order[1])
    BY <1>1, <1>2
  <2> QED
    BY <1>1, <2>1, <2>2, <2>3, <2>4
<1>10. ListIntact'
  <2>1. allocated = ToSet(order)
    BY DEF LInv, ListIntact
  <2> QED
    BY <1>2, <1>3, <1>8, <1>9, <2>1 DEF ListIntact
<1>11. At(pt)'
  <2>1. \A i \in 1 .. Len(seen) : seen[i] = order[i] /\ order'[i] = order[i]
    <3>1. At(pt)
      BY DEF LInv, SweepExact
    <3> QED
      BY <1>1, <1>2, <3>1 DEF At
  <2>2. Len(seen) = n - 1 <=> k = n
    BY <1>1
  <2>3. k # n => order'[k] = order[k + 1]
    BY <1>1, <1>2
  <2> QED
    BY <1>1, <1>2, <1>6, <1>7, <2>1, <2>2, <2>3 DEF At
<1>12. TypeOK'
  <2>1. next' \in [Nodes -> Pointers] /\ head' \in Pointers /\ pt' \in Pointers
    <3>1. next[pt] \in Pointers /\ (head \in Nodes => next[head] \in Pointers)
      BY <1>4 DEF LInv, TypeOK
    <3>2. k = 1 => head \in Nodes
      BY <1>1, <1>4, EmptySeq DEF LInv, ListIntact
    <3> QED
      BY <1>6, <3>1, <3>2 DEF LInv, TypeOK
  <2> QED
    BY <1>2, <2>1 DEF LInv, TypeOK, Pointers
<1> QED
  BY <1>10, <1>11, <1>12 DEF LInv, SweepExact, SearchExact, WalkInv

(* The walk of LL_DELETE ends at the element before the one it unlinks. *)
LEMMA DeleteKeeps ==
  ASSUME LInv, DeleteHead \/ DeleteStart \/ DeleteWalk \/ DeleteUnlink
  PROVE  LInv'
<1> DEFINE k == Len(seen) + 1
<1>1. /\ order \in Seq(Nodes) /\ Len(order) \in Nat
      /\ seen \in Seq(Nodes) /\ Len(seen) \in Nat
  BY LenProperties DEF LInv, TypeOK
<1>2. pc \in {"sweep", "delete"} /\ At(pt) /\ pt # NULL
  BY DEF LInv, SweepExact, WalkInv, DeleteHead, DeleteStart, DeleteWalk, DeleteUnlink
<1>3. pt \in ToSet(order) /\ pt \in Nodes /\ k \in 1 .. Len(order) /\ pt = order[k]
  BY <1>2, WalkStep
<1>4. \A i, j \in 1 .. Len(order) : order[i] = order[j] => i = j
  <2>1. DOMAIN order = 1 .. Len(order)
    BY <1>1, LenProperties
  <2> QED
    BY <2>1 DEF LInv, ListIntact, IsInjective
<1>5. 1 \in 1 .. Len(order) /\ head = order[1]
  BY <1>1, <1>3, EmptySeq DEF LInv, ListIntact
<1>6. CASE DeleteHead
  <2>1. k = 1
    BY <1>3, <1>4, <1>5, <1>6 DEF DeleteHead
  <2>2. {el', tmp'} \subseteq Pointers /\ pc' = "sweep"
    BY <1>6 DEF DeleteHead, LInv, TypeOK
  <2> QED
    BY <1>2, <1>3, <1>6, <2>1, <2>2, UnlinkKeeps DEF DeleteHead, Unlinked
<1>7. CASE DeleteStart
  <2>1. k # 1
    BY <1>3, <1>5, <1>7 DEF DeleteStart
  <2>2. head \in ToSet(seen) /\ head \in Pointers
    <3>1. 1 \in 1 .. Len(seen)
      BY <1>1, <2>1
    <3>2. seen[1] = head
      BY <1>2, <1>5, <3>1 DEF At
    <3> QED
      BY <1>1, <3>1, <3>2, Positions DEF LInv, TypeOK
  <2>3. /\ pc' = "delete" /\ el' = pt /\ tmp' = head
        /\ UNCHANGED <<heapVars, pt, wanted, order, seen>>
    BY <1>7 DEF DeleteStart
  <2>4. TypeOK' /\ ListIntact'
    BY <1>7, <2>2, <2>3 DEF DeleteStart, heapVars, LInv, TypeOK, ListIntact
  <2> QED
    BY <1>2, <2>2, <2>3, <2>4
    DEF heapVars, At, LInv, SweepExact, SearchExact, WalkInv
<1>8. ASSUME pc = "delete"
      PROVE  \E j \in 1 .. Len(seen) : /\ tmp = order[j] /\ tmp = seen[j]
                                       /\ next[tmp] = order[j + 1]
                                       /\ next[tmp] # NULL
                                       /\ next[tmp] = pt <=> j = Len(seen)
  <2>1. tmp \in ToSet(seen)
    BY <1>8 DEF LInv, WalkInv
  <2>2. PICK j \in 1 .. Len(seen) : seen[j] = tmp
    BY <1>1, <2>1, Positions
  <2>3. j \in 1 .. Len(order) /\ j + 1 \in 1 .. Len(order) /\ j # Len(order)
    BY <1>1, <1>3
  <2>4. tmp = order[j]
    BY <1>2, <2>2 DEF At
  <2>5. next[tmp] = order[j + 1]
    BY <2>3, <2>4 DEF LInv, ListIntact
  <2>6. order[j + 1] \in Nodes
    BY <1>1, <2>3, Positions
  <2>7. order[j + 1] = order[k] <=> j + 1 = k
    BY <1>3, <1>4, <2>3
  <2> QED
    BY <1>1, <1>3, <2>2, <2>4, <2>5, <2>6, <2>7, ListAssumption
<1>9. CASE DeleteWalk
  <2>1. pc = "delete" /\ next[tmp] # el /\ el = pt
    BY <1>9 DEF DeleteWalk, LInv, WalkInv
  <2>2. PICK j \in 1 .. Len(seen) : /\ next[tmp] = order[j + 1]
                                    /\ next[tmp] = pt <=> j = Len(seen)
    BY <1>8, <2>1
  <2>3. j + 1 \in 1 .. Len(seen)
    BY <1>1, <2>1, <2>2
  <2>4. next[tmp] = seen[j + 1]
    BY <1>2, <2>2, <2>3 DEF At
  <2>5. next[tmp] \in ToSet(seen) /\ next[tmp] \in Nodes
    BY <1>1, <2>3, <2>4, Positions
  <2>6. tmp' = next[tmp] /\ UNCHANGED <<heapVars, pc, el, pt, wanted, order, seen>>
    BY <1>9 DEF DeleteWalk
  <2>7. TypeOK' /\ ListIntact'
    BY <2>5, <2>6 DEF heapVars, LInv, TypeOK, Pointers, ListIntact
  <2> QED
    BY <1>2, <2>1, <2>5, <2>6, <2>7
    DEF heapVars, At, LInv, SweepExact, SearchExact, WalkInv
<1>10. CASE DeleteUnlink
  <2>1. pc = "delete" /\ next[tmp] \in {NULL, el} /\ el = pt
    BY <1>10 DEF DeleteUnlink, LInv, WalkInv
  <2>2. PICK j \in 1 .. Len(seen) : /\ tmp = order[j] /\ next[tmp] # NULL
                                    /\ next[tmp] = pt <=> j = Len(seen)
    BY <1>8, <2>1
  <2>3. j = Len(seen) /\ k # 1 /\ k - 1 = j
    BY <1>1, <2>1, <2>2
  <2>4. next' = [next EXCEPT ![order[k - 1]] = next[pt]] /\ head' = head
    BY <1>10, <2>1, <2>2, <2>3 DEF DeleteUnlink, Unlinked
  <2>5. next'[pt] = next[pt]
    <3>1. order[k - 1] # order[k]
      BY <1>1, <1>3, <1>4, <2>3
    <3> QED
      BY <1>3, <2>4, <3>1 DEF LInv, TypeOK
  <2>6. /\ order' = RemoveAt(order, k) /\ allocated' = allocated \ {pt}
        /\ pt' = next'[pt] /\ UNCHANGED <<id, wanted, seen>>
        /\ pc' = "sweep" /\ {el', tmp'} \subseteq Pointers
    BY <1>10, <2>1 DEF DeleteUnlink, Unlinked, Pointers
  <2> QED
    BY <1>2, <1>3, <2>3, <2>4, <2>6, UnlinkKeeps
<1> QED
  BY <1>6, <1>7, <1>9, <1>10

LEMMA SweepKeeps ==
  ASSUME LInv, SweepStart \/ SweepKeep \/ SweepEnd
  PROVE  LInv'
<1>1. CASE SweepStart
  <2>1. seen = <<>> /\ At(head)
    BY <1>1, WalkBegins DEF SweepStart, LInv, WalkInv
  <2>2. pc' = "sweep" /\ pt' = head /\ UNCHANGED <<heapVars, el, tmp, wanted, order, seen>>
    BY <1>1 DEF SweepStart
  <2>3. TypeOK' /\ ListIntact'
    BY <1>1, <2>2 DEF SweepStart, heapVars, LInv, TypeOK, ListIntact
  <2> QED
    BY <2>1, <2>2, <2>3 DEF heapVars, At, LInv, SweepExact, SearchExact, WalkInv
<1>2. CASE SweepKeep
  <2>1. At(pt) /\ pt # NULL /\ pc = "sweep"
    BY <1>2 DEF SweepKeep, LInv, SweepExact
  <2>2. /\ pt' = next[pt] /\ seen' = Append(seen, pt)
        /\ UNCHANGED <<heapVars, pc, el, tmp, wanted, order>>
    BY <1>2 DEF SweepKeep
  <2>3. Len(seen) \in Nat /\ Len(order) \in Nat
    BY LenProperties DEF LInv, TypeOK
  <2>4. /\ seen' \in Seq(Nodes) /\ Len(seen') = Len(seen) + 1 /\ Len(seen) + 1 <= Len(order)
        /\ \A i \in 1 .. Len(seen) + 1 : seen'[i] = order[i]
    BY <2>1, <2>2, <2>3, WalkStep
  <2>5. next[pt] = (IF Len(seen) + 1 = Len(order) THEN NULL ELSE order[Len(seen) + 2])
    BY <2>1, WalkStep
  <2>6. next[pt] \in Pointers
    BY <2>1, WalkStep DEF LInv, TypeOK
  <2>7. At(pt)'
    BY <2>2, <2>3, <2>4, <2>5 DEF At, heapVars
  <2>8. TypeOK' /\ ListIntact'
    BY <2>1, <2>2, <2>4, <2>6 DEF heapVars, LInv, TypeOK, ListIntact
  <2> QED
    BY <2>1, <2>2, <2>7, <2>8 DEF heapVars, LInv, SweepExact, SearchExact, WalkInv
<1>3. CASE SweepEnd
  <2>1. pc = "sweep" /\ pc' = "idle" /\ UNCHANGED <<heapVars, order, wanted>>
        /\ {el', tmp', pt'} \subseteq Pointers /\ seen' = <<>> /\ seen' \in Seq(Nodes)
    BY <1>3 DEF SweepEnd, Return, Pointers
  <2> QED
    BY <2>1 DEF heapVars, LInv, TypeOK, ListIntact, SweepExact, SearchExact, WalkInv
<1> QED
  BY <1>1, <1>2, <1>3

LEMMA StepKeeps == LInv /\ [Next]_vars => LInv'
<1> SUFFICES ASSUME LInv, [Next]_vars PROVE LInv'
  OBVIOUS
<1>1. CASE \E n \in Nodes, i \in Ids : Add(n, i)
  BY <1>1, AddKeeps
<1>2. CASE \E i \in Ids : Find(i)
  BY <1>2, FindKeeps
<1>3. CASE SweepStart
  BY <1>3, SweepKeeps
<1>4. CASE AppendWalk \/ AppendLink
  BY <1>4, AppendKeeps
<1>5. CASE SearchWalk \/ SearchReturn
  BY <1>5, SearchKeeps
<1>6. CASE SweepKeep \/ SweepEnd
  BY <1>6, SweepKeeps
<1>7. CASE DeleteHead \/ DeleteStart \/ DeleteWalk \/ DeleteUnlink
  BY <1>7, DeleteKeeps
<1>8. CASE UNCHANGED vars
  BY <1>8 DEF vars, heapVars, LInv, TypeOK, ListIntact, At, SweepExact, Matches,
              SearchExact, WalkInv
<1> QED
  BY <1>1, <1>2, <1>3, <1>4, <1>5, <1>6, <1>7, <1>8 DEF Next, Walk

(* The inductive invariant of list.c's chain of elements. *)
THEOREM ListCorrect == Spec => []LInv
<1>1. Init => LInv
  BY InitEstablishes
<1>2. LInv /\ [Next]_vars => LInv'
  BY StepKeeps
<1> QED
  BY <1>1, <1>2, PTL DEF Spec

(* After every assignment of utlist.h's macros the chain is the sequence of *)
(* the elements appended and not deleted, which CoapThread takes it for.    *)
THEOREM ChainIntact == Spec => []ListIntact
<1>1. LInv => ListIntact
  BY DEF LInv
<1> QED
  BY <1>1, ListCorrect, PTL

(* The sweep that deletes while it iterates (CoAPpthread.c:505-517) passes  *)
(* every element once and in order, for any length of the list.             *)
THEOREM SweepComplete == Spec => []SweepExact
<1>1. LInv => SweepExact
  BY DEF LInv
<1> QED
  BY <1>1, ListCorrect, PTL

(* findPthreadRequestfromListbyid returns the first request of the id.      *)
THEOREM SearchFindsFirst == Spec => []SearchExact
<1>1. LInv => SearchExact
  BY DEF LInv
<1> QED
  BY <1>1, ListCorrect, PTL
=============================================================================
