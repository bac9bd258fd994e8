---------------------------- MODULE MergeSort_proofs ----------------------------
(***************************************************************************)
(* The merge sorts of utlist.h and uthash.h for lists of any length: in    *)
(* the middle of a merge no element is lost, each pass leaves sorted runs  *)
(* of twice the length, and the pointers are whole again behind it.        *)
(***************************************************************************)
EXTENDS MergeSort, SequenceLemmas, FiniteSetTheorems

(* i and j lie in the same run of w elements. *)
SameRun(i, j, w) == (i - 1) \div w = (j - 1) \div w

Ascending(t, lo, hi) == \A i, j \in lo .. hi : i < j => key[t[i]] <= key[t[j]]

RunsIn(t, lo, hi, w) ==
  \A i, j \in lo .. hi : i < j /\ SameRun(i, j, w) => key[t[i]] <= key[t[j]]

(* t arranges the elements of the list. *)
Arranges(t) ==
  /\ t \in [1 .. length -> 1 .. length]
  /\ \A i, j \in 1 .. length : t[i] = t[j] => i = j
  /\ \A x \in 1 .. length : \E i \in 1 .. length : t[i] = x

(* Equal elements are in their old order. *)
Stable(t) == \A i, j \in 1 .. length : i < j /\ key[t[i]] = key[t[j]] => t[i] < t[j]

(* The first k elements of t were emitted, and their pointers are set. *)
Emitted(t, k) ==
  /\ k <= length
  /\ Len(sort.out) = k
  /\ \A i \in 1 .. k : sort.out[i] = t[i]
  /\ sort.list = IF k = 0 THEN NIL ELSE t[1]
  /\ sort.last = IF k = 0 THEN NIL ELSE t[k]
  /\ \A i \in 1 .. k - 1 : chain.next[t[i]] = t[i + 1]
  /\ kind # "LL" => \A i \in 1 .. k : chain.prev[t[i]] = IF i = 1 THEN NIL ELSE t[i - 1]

(* The elements of t from the one at lo on are still linked as before. *)
Waiting(t, lo) == \A i \in lo .. length : Ahead(t[i]) = IF i < length THEN t[i + 1] ELSE NIL

(* next and, but for LL, prev link t and end as the kind demands. *)
Closed(kd, c, n, t) ==
  /\ \A i \in 1 .. n : c.next[t[i]] = IF i < n THEN t[i + 1] ELSE IF kd = "CDL" THEN t[1] ELSE NIL
  /\ kd # "LL" => \A i \in 1 .. n :
       c.prev[t[i]] = IF i > 1 THEN t[i - 1] ELSE IF kd = "HASH" THEN NIL ELSE t[n]

PassInv(t) ==
  /\ 0 < length
  /\ sort.out = t /\ sort.list = t[1]
  /\ Closed(kind, chain, length, t)
  /\ kind # "HASH" => chain.head = t[1]
  /\ RunsIn(t, 1, length, sort.insize)

(* d elements were merged to runs of twice the size, or all of them. *)
RunsInv(t, k, d) ==
  /\ 0 < length
  /\ Emitted(t, k) /\ Waiting(t, k + 1)
  /\ sort.p = IF k < length THEN t[k + 1] ELSE NIL
  /\ k = d \/ (k = length /\ k <= d)
  /\ RunsIn(t, 1, k, 2 * sort.insize) /\ RunsIn(t, k + 1, length, sort.insize)

(* What is left of two runs being merged, which began behind d: the first   *)
(* up to a, the second up to z or the end of the list.                      *)
TwoRuns(t, k, a, z) ==
  /\ \A i \in k + 1 .. a - 1 : Ahead(t[i]) = t[i + 1]
  /\ Waiting(t, a + 1)
  /\ k < a => sort.p = t[k + 1]
  /\ sort.q = IF a < length THEN t[a + 1] ELSE NIL

MergeInv(t, k, a, z, d) ==
  /\ 0 < length /\ 0 < sort.nmerges
  /\ Emitted(t, k) /\ TwoRuns(t, k, a, z)
  /\ d <= k /\ a <= length
  /\ z = d + 2 * sort.insize \/ (length <= z /\ z < d + 2 * sort.insize)
  /\ RunsIn(t, 1, k, 2 * sort.insize) /\ RunsIn(t, z + 1, length, sort.insize)
  /\ Ascending(t, k + 1, a)
  /\ \A i, j \in a + 1 .. length : i < j /\ j <= z => key[t[i]] <= key[t[j]]
  /\ \A i \in d + 1 .. k : \A j \in k + 1 .. length : j <= z => key[t[i]] <= key[t[j]]

DoneInv(t) ==
  /\ sort.out = t
  /\ Lists(kind, chain, t)
  /\ Ascending(t, 1, length)

SortInv(t) ==
  /\ Arranges(t) /\ Stable(t)
  /\ sort.pc = "pass" => PassInv(t)
  /\ sort.pc = "runs" => RunsInv(t, Len(sort.out), sort.nmerges * (2 * sort.insize))
  /\ sort.pc = "merge" =>
       LET k == Len(sort.out)
           a == k + sort.psize
       IN  MergeInv(t, k, a, a + sort.qsize, (sort.nmerges - 1) * (2 * sort.insize))
  /\ sort.pc = "done" => DoneInv(t)

TypeInv ==
  /\ kind \in Kinds /\ length \in 0 .. MaxLength /\ key \in [1 .. length -> Keys]
  /\ chain \in [head : 0 .. MaxLength, next : [Elements -> 0 .. MaxLength],
                prev : [Elements -> 0 .. MaxLength], tail : 0 .. MaxLength]
  /\ sort \in [pc : {"pass", "runs", "merge", "done"},
               list : 0 .. MaxLength, p : 0 .. MaxLength, q : 0 .. MaxLength,
               last : 0 .. MaxLength, oldhead : 0 .. MaxLength,
               psize : Nat, qsize : Nat, insize : Nat \ {0}, nmerges : Nat,
               out : Seq(Elements)]

SInv == TypeInv /\ \E t \in [1 .. length -> 1 .. length] : SortInv(t)

-----------------------------------------------------------------------------
(* Where the c-th run ends. *)
LEMMA RunBounds ==
  ASSUME NEW c \in Nat, NEW w \in Nat \ {0}, NEW i \in Nat \ {0}
  PROVE  /\ c * w < i /\ i <= c * w + w => (i - 1) \div w = c
         /\ i <= c * w => (i - 1) \div w < c
         /\ c * w < i => c <= (i - 1) \div w
<1>0. PICK m \in Nat : m = i - 1
  OBVIOUS
<1>1. PICK q, r : q = m \div w /\ r = m % w
  OBVIOUS
<1>2. q \in Int /\ r \in 0 .. w - 1 /\ m = w * q + r
  BY <1>1, Division
<1>3. PICK e, f : e = c * w /\ f = w * q
  OBVIOUS
<1>4. e \in Int /\ f \in Int /\ e = w * c
  BY <1>2, <1>3
(* The products are ordered as the factors are. *)
<1>5. ASSUME NEW x \in Int, NEW y \in Int, x < y
      PROVE  w * x + w <= w * y
  <2>1. PICK v \in Nat : v = y - x - 1
    BY <1>5
  <2>2. y = x + 1 + v
    BY <1>5, <2>1
  <2>3. w * (x + 1 + v) = w * x + w + w * v
    BY <1>5, <2>1
  <2>4. w * v \in Nat /\ w * x \in Int
    BY <1>5, <2>1
  <2> QED
    BY <2>2, <2>3, <2>4
<1>6. q < c => f + w <= e
  BY <1>2, <1>3, <1>4, <1>5
<1>7. c < q => e + w <= f
  BY <1>2, <1>3, <1>4, <1>5
<1>8. q = c => f = e
  BY <1>3, <1>4
<1>9. i = f + r + 1
  BY <1>0, <1>2, <1>3
<1>10. /\ e < i /\ i <= e + w => q = c
       /\ i <= e => q < c
       /\ e < i => c <= q
  BY <1>2, <1>4, <1>6, <1>7, <1>8, <1>9
<1> QED
  BY <1>0, <1>1, <1>3, <1>10

(* No run of v elements goes on behind d. *)
Apart(d, v) == \A i, j \in Nat \ {0} : i <= d /\ d < j => ~SameRun(i, j, v)

(* The run of v elements behind d, and the second of two runs of w elements. *)
OneRun(d, v) ==
  \A i, j \in Nat \ {0} : d < i /\ i <= d + v /\ d < j /\ j <= d + v => SameRun(i, j, v)
SecondRun(d, w) ==
  \A i, j \in Nat \ {0} :
    d + w < i /\ i <= d + 2 * w /\ d + w < j /\ j <= d + 2 * w => SameRun(i, j, w)

(* Runs of any size: one ends at a multiple of it. *)
LEMMA RunsEnd ==
  ASSUME NEW c \in Nat, NEW v \in Nat \ {0}, NEW d \in Nat, d = c * v
  PROVE  Apart(d, v)
<1> SUFFICES ASSUME NEW i \in Nat \ {0}, NEW j \in Nat \ {0}, i <= d, d < j
             PROVE  ~SameRun(i, j, v)
  BY DEF Apart
<1>1. (i - 1) \div v < c
  BY RunBounds
<1>2. c <= (j - 1) \div v
  BY RunBounds
<1>3. (i - 1) \div v \in Int /\ (j - 1) \div v \in Int
  BY Division
<1> QED
  BY <1>1, <1>2, <1>3 DEF SameRun

(* ... and the next one begins behind it. *)
LEMMA RunBegins ==
  ASSUME NEW c \in Nat, NEW v \in Nat \ {0}, NEW d \in Nat, d = c * v
  PROVE  OneRun(d, v)
<1> SUFFICES ASSUME NEW i \in Nat \ {0}, NEW j \in Nat \ {0},
                    d < i, i <= d + v, d < j, j <= d + v
             PROVE  SameRun(i, j, v)
  BY DEF OneRun
<1>1. (i - 1) \div v = c
  BY RunBounds
<1>2. (j - 1) \div v = c
  BY RunBounds
<1> QED
  BY <1>1, <1>2 DEF SameRun

(* Runs of twice the size: one ends at d and one begins behind it, made of *)
(* two runs of the size.                                                   *)
LEMMA RunsMeet ==
  ASSUME NEW c \in Nat, NEW w \in Nat \ {0}, NEW d \in Nat, d = c * (2 * w)
  PROVE  Apart(d, 2 * w) /\ OneRun(d, 2 * w) /\ OneRun(d, w) /\ SecondRun(d, w)
<1>1. PICK v \in Nat \ {0} : v = 2 * w
  OBVIOUS
<1>2. Apart(d, v) /\ OneRun(d, v)
  BY <1>1, RunsEnd, RunBegins
<1>3. PICK b \in Nat : b = 2 * c
  OBVIOUS
<1>4. d = b * w
  <2>1. c * (2 * w) = (2 * c) * w
    OBVIOUS
  <2> QED
    BY <1>3, <2>1
<1>5. OneRun(d, w)
  BY <1>4, RunBegins
<1>6. PICK b1 \in Nat, d1 \in Nat : b1 = b + 1 /\ d1 = d + w
  OBVIOUS
<1>7. d1 = b1 * w
  <2>1. (b + 1) * w = b * w + w
    OBVIOUS
  <2> QED
    BY <1>4, <1>6, <2>1
<1>8. OneRun(d1, w)
  BY <1>7, RunBegins
<1>9. d1 + w = d + 2 * w
  BY <1>6
<1>10. SecondRun(d, w)
  BY <1>6, <1>8, <1>9 DEF OneRun, SecondRun
<1> QED
  BY <1>1, <1>2, <1>5, <1>10

(* The products that count merges. *)
LEMMA MergeCount ==
  ASSUME NEW m \in Nat, NEW w \in Nat \ {0}
  PROVE  /\ m * (2 * w) \in Nat
         /\ 0 * (2 * w) = 0
         /\ 1 * (2 * w) = 2 * w
         /\ (m + 1) * (2 * w) = m * (2 * w) + 2 * w
         /\ (m + 1) - 1 = m
  OBVIOUS
-----------------------------------------------------------------------------
Locals == [pc : {"pass", "runs", "merge", "done"},
           list : 0 .. MaxLength, p : 0 .. MaxLength, q : 0 .. MaxLength,
           last : 0 .. MaxLength, oldhead : 0 .. MaxLength,
           psize : Nat, qsize : Nat, insize : Nat \ {0}, nmerges : Nat,
           out : Seq(Elements)]
RingOf == [head : 0 .. MaxLength, next : [Elements -> 0 .. MaxLength],
          prev : [Elements -> 0 .. MaxLength], tail : 0 .. MaxLength]

(* What the type invariant says of the values that the steps compute with. *)
LEMMA Facts ==
  ASSUME TypeInv
  PROVE  /\ kind \in {"LL", "DL", "CDL", "HASH"}
         /\ MaxLength \in Nat /\ length \in Nat /\ length <= MaxLength
         /\ 1 .. length \subseteq Elements
         /\ \A i \in 1 .. length : key[i] \in Int
         /\ sort \in Locals /\ chain \in RingOf
         /\ Len(sort.out) \in Nat
         /\ sort.list \in 0 .. MaxLength /\ sort.p \in 0 .. MaxLength /\ sort.q \in 0 .. MaxLength
         /\ sort.last \in 0 .. MaxLength /\ sort.oldhead \in 0 .. MaxLength
         /\ sort.psize \in Nat /\ sort.qsize \in Nat /\ sort.insize \in Nat \ {0} /\ sort.nmerges \in Nat
<1>1. /\ kind \in {"LL", "DL", "CDL", "HASH"}
      /\ MaxLength \in Nat /\ length \in Nat /\ length <= MaxLength
  BY SortAssumption DEF TypeInv
<1>4. \A i \in 1 .. length : key[i] \in Int
  <2>1. key \in [1 .. length -> Keys] /\ Keys \subseteq Int
    BY SortAssumption DEF TypeInv
  <2> QED
    BY <2>1
<1>2. sort \in Locals /\ chain \in RingOf
  BY DEF TypeInv, Locals, RingOf
<1>3. Len(sort.out) \in Nat
  BY <1>2, LenProperties DEF Locals
<1> QED
  BY <1>1, <1>2, <1>3, <1>4 DEF Locals, Elements

(* StartPass: nothing is emitted yet and all that waits is linked as before. *)
LEMMA PassStarts ==
  ASSUME TypeInv, NEW t \in [1 .. length -> 1 .. length], SortInv(t),
         StartPass, UNCHANGED <<kind, key, length>>
  PROVE  TypeInv' /\ SortInv(t)'
<1>1. /\ Arranges(t) /\ Stable(t) /\ PassInv(t) /\ sort.pc = "pass"
  BY DEF SortInv, StartPass
<1>2. /\ sort'.pc = "runs" /\ sort'.p = sort.list /\ sort'.oldhead = sort.list
      /\ sort'.list = NIL /\ sort'.last = NIL /\ sort'.nmerges = 0 /\ sort'.out = <<>>
      /\ sort'.insize = sort.insize
      /\ chain' = chain /\ sort' \in Locals
  <2>1. sort \in Locals /\ 0 \in 0 .. MaxLength
    BY Facts
  <2>2. <<>> \in Seq(Elements)
    OBVIOUS
  <2> QED
    BY <2>1, <2>2 DEF StartPass, Locals, NIL
<1>3. TypeInv'
  BY <1>2 DEF TypeInv, Locals
<1>4. Arranges(t)' /\ Stable(t)'
  BY <1>1 DEF Arranges, Stable
<1>5. Waiting(t, 1)'
  <2>1. /\ \A i \in 1 .. length :
             chain.next[t[i]] = IF i < length THEN t[i + 1] ELSE IF kind = "CDL" THEN t[1] ELSE NIL
        /\ sort.list = t[1] /\ 0 < length /\ length \in Nat
    BY <1>1, Facts DEF PassInv, Closed
  <2>2. \A i \in 1 .. length : i < length => i + 1 \in 1 .. length /\ i + 1 # 1
    BY <2>1
  <2>3. 1 \in 1 .. length
    BY <2>1
  <2>4. \A i, j \in 1 .. length : t[i] = t[j] => i = j
    BY <1>1 DEF Arranges
  <2>5. \A i \in 1 .. length : i < length => t[i + 1] # t[1]
    BY <2>2, <2>3, <2>4
  <2>6. \A i \in 1 .. length : Ahead(t[i])' = IF i < length THEN t[i + 1] ELSE NIL
    BY <1>2, <2>1, <2>5 DEF Ahead
  <2> QED
    BY <2>6 DEF Waiting
<1>6. Emitted(t, 0)'
  BY <1>2, Facts DEF Emitted
<1>7. RunsInv(t, 0, 0)'
  <2>1. RunsIn(t, 1, 0, 2 * sort.insize)' /\ RunsIn(t, 1, length, sort.insize)'
    BY <1>1, <1>2 DEF PassInv, RunsIn
  <2> QED
    BY <1>1, <1>2, <1>5, <1>6, <2>1 DEF RunsInv, PassInv
<1>8. Len(sort.out)' = 0 /\ (sort.nmerges * (2 * sort.insize))' = 0
  BY <1>2, Facts, MergeCount
<1> QED
  BY <1>2, <1>3, <1>4, <1>7, <1>8 DEF SortInv

(* Both runs are used up: what is emitted is a run of twice the size.      *)
LEMMA MergeEnds ==
  ASSUME TypeInv, NEW t \in [1 .. length -> 1 .. length], SortInv(t),
         EndMerge, UNCHANGED <<kind, key, length>>
  PROVE  TypeInv' /\ SortInv(t)'
<1>0. PICK k \in Nat, w \in Nat \ {0}, u \in Nat, m \in Nat :
        k = Len(sort.out) /\ w = sort.insize /\ u = sort.qsize /\ m = sort.nmerges
  BY Facts
<1> DEFINE d == (m - 1) * (2 * w)
           z == k + u
<1>1. /\ sort.pc = "merge" /\ sort.psize = 0 /\ ~QLeft
      /\ Arranges(t) /\ Stable(t)
  BY DEF EndMerge, SortInv
<1>2. MergeInv(t, k, k, z, d)
  <2>1. MergeInv(t, k, k + 0, k + 0 + u, d)
    BY <1>0, <1>1 DEF SortInv
  <2>2. k + 0 = k
    OBVIOUS
  <2> QED
    BY <2>1, <2>2
<1>3. /\ sort'.pc = "runs" /\ sort'.p = sort.q /\ sort'.oldhead = sort.oldhead
      /\ sort'.list = sort.list /\ sort'.last = sort.last /\ sort'.nmerges = m
      /\ sort'.out = sort.out /\ sort'.insize = w
      /\ chain' = chain /\ sort' \in Locals
  BY <1>0, Facts DEF EndMerge, Locals
<1>4. TypeInv'
  BY <1>3 DEF TypeInv, Locals
<1>5. Arranges(t)' /\ Stable(t)'
  BY <1>1 DEF Arranges, Stable
<1>6. PICK e : e = m * (2 * w)
  OBVIOUS
<1>7. e = d + 2 * w /\ d \in Nat
  <2>1. PICK l \in Nat : l = m - 1
    BY <1>0, <1>2 DEF MergeInv
  <2>2. m = l + 1
    BY <2>1
  <2>3. (l + 1) * (2 * w) = l * (2 * w) + 2 * w /\ l * (2 * w) \in Nat
    BY MergeCount
  <2> QED
    BY <1>6, <2>1, <2>2, <2>3
<1> HIDE DEF d
<1>8. length \in Nat /\ sort.q = IF k < length THEN t[k + 1] ELSE NIL
  BY <1>2, Facts DEF MergeInv, TwoRuns
<1>9. k < length => sort.q # NIL
  <2> SUFFICES ASSUME k < length
               PROVE  sort.q # NIL
    OBVIOUS
  <2>1. k + 1 \in 1 .. length
    BY <1>8
  <2>2. sort.q \in 1 .. length
    BY <1>8, <2>1
  <2> QED
    BY <2>2 DEF NIL
<1>10. /\ k = e \/ (k = length /\ k <= e)
       /\ k < length => z = k
  <2>1. /\ z = d + 2 * w \/ (length <= z /\ z < d + 2 * w)
        /\ k <= length
    BY <1>0, <1>2 DEF MergeInv
  <2>2. k < length => u = 0
    BY <1>0, <1>1, <1>9 DEF QLeft
  <2> QED
    BY <1>7, <1>8, <2>1, <2>2
<1>11. RunsIn(t, 1, k, 2 * w)' /\ RunsIn(t, k + 1, length, w)'
  <2>1. RunsIn(t, 1, k, 2 * w) /\ RunsIn(t, z + 1, length, w)
    BY <1>0, <1>2 DEF MergeInv
  <2>2. RunsIn(t, k + 1, length, w)
    BY <1>8, <1>10, <2>1 DEF RunsIn
  <2> QED
    BY <2>1, <2>2 DEF RunsIn
<1>12. Emitted(t, k)' /\ Waiting(t, k + 1)'
  <2>1. Emitted(t, k) /\ Waiting(t, k + 1)
    BY <1>2 DEF MergeInv, TwoRuns
  <2>2. Emitted(t, k)'
    BY <1>3, <2>1 DEF Emitted
  <2>3. Waiting(t, k + 1)'
    BY <1>3, <2>1 DEF Waiting, Ahead
  <2> QED
    BY <2>2, <2>3
<1>13. RunsInv(t, k, e)'
  BY <1>2, <1>3, <1>8, <1>10, <1>11, <1>12 DEF RunsInv, MergeInv
<1>14. Len(sort.out)' = k /\ (sort.nmerges * (2 * sort.insize))' = e
  BY <1>0, <1>3, <1>6
<1> QED
  BY <1>3, <1>4, <1>5, <1>13, <1>14 DEF SortInv

(* A closed chain with its head, and the hash table's tail, is a list. *)
LEMMA ClosedLists ==
  ASSUME NEW n \in Nat \ {0}, NEW t \in [1 .. n -> 1 .. n], NEW kd, NEW c,
         Closed(kd, c, n, t), c.head = t[1], kd = "HASH" => c.tail = t[n]
  PROVE  Lists(kd, c, t)
<1>1. Len(t) = n
  OBVIOUS
<1> QED
  BY <1>1 DEF Lists, Closed, NIL

(* The chain is closed behind the last merge of the pass. *)
LEMMA ChainCloses ==
  ASSUME TypeInv, NEW t \in [1 .. length -> 1 .. length], Arranges(t), 0 < length,
         Emitted(t, length), EndPass, UNCHANGED <<kind, key, length>>
  PROVE  /\ TypeInv' /\ Closed(kind, chain, length, t)'
         /\ kind # "HASH" \/ sort.nmerges <= 1 => chain.head' = t[1]
         /\ kind = "HASH" /\ sort.nmerges <= 1 => chain.tail' = t[length]
<1>1. /\ sort.list = t[1] /\ sort.last = t[length]
      /\ \A i \in 1 .. length - 1 : chain.next[t[i]] = t[i + 1]
      /\ kind # "LL" => \A i \in 1 .. length : chain.prev[t[i]] = IF i = 1 THEN NIL ELSE t[i - 1]
      /\ length \in Nat
  BY Facts DEF Emitted
<1>2. /\ 1 \in 1 .. length /\ length \in 1 .. length
      /\ \A i \in 1 .. length : i < length <=> i \in 1 .. length - 1
  BY <1>1
<1>3. /\ t[1] \in Elements /\ t[length] \in Elements /\ t[1] \in 0 .. MaxLength
      /\ t[length] \in 0 .. MaxLength /\ NIL \in 0 .. MaxLength
  <2>1. t[1] \in 1 .. length /\ t[length] \in 1 .. length
    BY <1>2
  <2>2. 1 .. length \subseteq Elements /\ MaxLength \in Nat
    BY Facts
  <2>3. Elements \subseteq 0 .. MaxLength /\ NIL \in 0 .. MaxLength
    BY <2>2 DEF Elements, NIL
  <2> QED
    BY <2>1, <2>2, <2>3
<1>4. \A i \in 1 .. length : t[i] \in Elements
  BY Facts
<1>5. PICK nx \in [Elements -> 0 .. MaxLength], pv \in [Elements -> 0 .. MaxLength] :
        nx = chain.next /\ pv = chain.prev
  BY Facts DEF RingOf
<1> DEFINE end == IF kind = "CDL" THEN t[1] ELSE NIL
           nx1 == [nx EXCEPT ![t[length]] = end]
           pv1 == IF kind \in {"DL", "CDL"} THEN [pv EXCEPT ![t[1]] = t[length]] ELSE pv
           hd1 == IF kind # "HASH" \/ sort.nmerges <= 1 THEN t[1] ELSE chain.head
           tl1 == IF kind = "HASH" /\ sort.nmerges <= 1 THEN t[length] ELSE chain.tail
<1>6. chain' = [head |-> hd1, next |-> nx1, prev |-> pv1, tail |-> tl1]
  BY <1>1, <1>5 DEF EndPass, Backed
<1>7. /\ nx1 \in [Elements -> 0 .. MaxLength] /\ pv1 \in [Elements -> 0 .. MaxLength]
      /\ hd1 \in 0 .. MaxLength /\ tl1 \in 0 .. MaxLength
  BY <1>3, Facts DEF RingOf
<1>8. \A i, j \in 1 .. length : t[i] = t[j] => i = j
  BY DEF Arranges
<1>9. \A i \in 1 .. length :
        nx1[t[i]] = IF i < length THEN t[i + 1] ELSE end
  <2>1. nx1[t[length]] = end
    BY <1>3, <1>5
  <2>2. ASSUME NEW i \in 1 .. length, i < length
        PROVE  nx1[t[i]] = t[i + 1]
    <3>1. t[i] # t[length] /\ t[i] \in Elements
      BY <1>2, <1>4, <1>8, <2>2
    <3>2. nx[t[i]] = t[i + 1]
      BY <1>1, <1>2, <1>5, <2>2
    <3> QED
      BY <1>5, <3>1, <3>2
  <2>3. \A i \in 1 .. length : i < length \/ (i = length /\ ~(i < length))
    BY <1>1
  <2> HIDE DEF nx1, end
  <2> QED
    BY <2>1, <2>2, <2>3, Zenon
<1>10. kind # "LL" => \A i \in 1 .. length :
        pv1[t[i]] = IF i > 1 THEN t[i - 1] ELSE IF kind = "HASH" THEN NIL ELSE t[length]
  <2>1. kind \in {"LL", "DL", "CDL", "HASH"}
    BY Facts
  <2>2. kind = "HASH" => \A i \in 1 .. length : pv1[t[i]] = IF i = 1 THEN NIL ELSE t[i - 1]
    BY <1>1, <1>5
  <2>3. kind \in {"DL", "CDL"} => \A i \in 1 .. length : pv1[t[i]] = IF i = 1 THEN t[length] ELSE t[i - 1]
    BY <1>1, <1>2, <1>4, <1>5, <1>8
  <2>4. \A i \in 1 .. length : i > 1 <=> i # 1
    BY <1>1
  <2> QED
    BY <2>1, <2>2, <2>3, <2>4
<1> HIDE DEF nx1, pv1, hd1, tl1
<1>11. chain.next' = nx1 /\ chain.prev' = pv1 /\ chain.head' = hd1 /\ chain.tail' = tl1
  BY <1>6
<1>12. Closed(kind, chain, length, t)'
  BY <1>9, <1>10, <1>11 DEF Closed
<1>13. TypeInv'
  <2>1. sort' \in Locals
    <3>0. PICK w \in Nat \ {0} : w = sort.insize
      BY Facts DEF Locals
    <3>1. sort \in Locals /\ sort.insize * 2 \in Nat \ {0}
      <4>1. w * 2 \in Nat \ {0}
        OBVIOUS
      <4> QED
        BY <3>0, <4>1, Facts
    <3>2. PICK x, y : /\ x = IF sort.nmerges <= 1 THEN "done" ELSE "pass"
                      /\ y = sort.insize * 2
      OBVIOUS
    <3>3. sort' = [sort EXCEPT !.pc = x, !.insize = y]
      BY <3>2 DEF EndPass, Longer
    <3>4. x \in {"pass", "runs", "merge", "done"} /\ y \in Nat \ {0}
      BY <3>1, <3>2
    <3> QED
      BY <3>1, <3>3, <3>4 DEF Locals
  <2>2. chain' \in RingOf
    BY <1>6, <1>7 DEF RingOf
  <2> QED
    BY <2>1, <2>2 DEF TypeInv, Locals, RingOf
<1> QED
  BY <1>11, <1>12, <1>13 DEF hd1, tl1

(* EndPass: the chain is closed, and a pass of one merge sorted all.       *)
LEMMA PassCompletes ==
  ASSUME TypeInv, NEW t \in [1 .. length -> 1 .. length], SortInv(t),
         EndPass, UNCHANGED <<kind, key, length>>
  PROVE  TypeInv' /\ SortInv(t)'
<1>0. PICK k \in Nat, w \in Nat \ {0}, m \in Nat :
        k = Len(sort.out) /\ w = sort.insize /\ m = sort.nmerges
  BY Facts
<1>1. PICK d : d = m * (2 * w)
  OBVIOUS
<1>2. /\ sort.pc = "runs" /\ sort.p = NIL
      /\ Arranges(t) /\ Stable(t) /\ RunsInv(t, k, d)
  BY <1>0, <1>1 DEF EndPass, SortInv
<1>3. k = length /\ 0 < length /\ length \in Nat /\ length <= d
  <2>1. /\ 0 < length /\ length \in Nat /\ k <= length
        /\ sort.p = IF k < length THEN t[k + 1] ELSE NIL
        /\ k = d \/ (k = length /\ k <= d)
    BY <1>2, Facts DEF RunsInv, Emitted
  <2>2. ~(k < length)
    <3> SUFFICES ASSUME k < length
                 PROVE  FALSE
      OBVIOUS
    <3>1. k + 1 \in 1 .. length
      BY <2>1
    <3> QED
      BY <1>2, <2>1, <3>1 DEF NIL
  <2> QED
    BY <2>1, <2>2
<1>4. Emitted(t, length) /\ RunsIn(t, 1, length, 2 * w)
  BY <1>0, <1>2, <1>3 DEF RunsInv
<1>5. /\ TypeInv' /\ Closed(kind, chain, length, t)'
      /\ kind # "HASH" \/ m <= 1 => chain.head' = t[1]
      /\ kind = "HASH" /\ m <= 1 => chain.tail' = t[length]
  BY <1>0, <1>2, <1>3, <1>4, ChainCloses
<1>6. /\ sort'.pc = IF m <= 1 THEN "done" ELSE "pass"
      /\ sort'.out = sort.out /\ sort'.list = sort.list /\ sort'.insize = w * 2
  BY <1>0, Facts DEF EndPass, Longer, Locals
<1>7. Arranges(t)' /\ Stable(t)'
  BY <1>2 DEF Arranges, Stable
<1>8. sort.out = t /\ sort.list = t[1]
  <2>1. sort.out \in Seq(Elements) /\ Len(sort.out) = length
        /\ \A i \in 1 .. length : sort.out[i] = t[i]
    BY <1>4, Facts DEF Emitted, Locals
  <2>2. sort.out = [i \in 1 .. length |-> sort.out[i]]
    BY <2>1
  <2> QED
    BY <2>1, <2>2, <1>3, <1>4 DEF Emitted
<1>9. CASE m <= 1
  <2>1. Lists(kind, chain, t)'
    <3>1. length' = length /\ length \in Nat \ {0}
      BY <1>3
    <3> QED
      BY <3>1, <1>5, <1>9, ClosedLists
  <2>2. length <= 2 * w
    <3>1. m = 0 \/ m = 1
      BY <1>9
    <3> QED
      BY <1>1, <1>3, <3>1
  <2>3. \A i, j \in 1 .. length : SameRun(i, j, 2 * w)
    <3>1. PICK o \in Nat, v \in Nat : o = 0 /\ v = 2 * w
      OBVIOUS
    <3>2. o = o * (2 * w)
      BY <3>1
    <3>3. OneRun(o, 2 * w)
      BY <3>2, RunsMeet
    <3>4. OneRun(0, v) /\ length <= v
      BY <2>2, <3>1, <3>3
    <3> TAKE i, j \in 1 .. length
    <3>5. i \in Nat \ {0} /\ j \in Nat \ {0} /\ 0 < i /\ i <= 0 + v /\ 0 < j /\ j <= 0 + v
      BY <1>3, <3>4
    <3>6. SameRun(i, j, v)
      BY <3>4, <3>5 DEF OneRun
    <3> QED
      BY <3>1, <3>6
  <2>4. Ascending(t, 1, length)'
    BY <1>4, <2>3 DEF RunsIn, Ascending
  <2>5. DoneInv(t)'
    BY <1>6, <1>8, <2>1, <2>4 DEF DoneInv
  <2> QED
    BY <1>5, <1>6, <1>7, <1>9, <2>5 DEF SortInv
<1>10. CASE ~(m <= 1)
  <2>1. RunsIn(t, 1, length, sort.insize)'
    <3>1. w * 2 = 2 * w
      OBVIOUS
    <3> QED
      BY <1>4, <1>6, <3>1 DEF RunsIn
  <2>2. PassInv(t)'
    BY <1>3, <1>5, <1>6, <1>8, <2>1 DEF PassInv
  <2> QED
    BY <1>5, <1>6, <1>7, <1>10, <2>2 DEF SortInv
<1> QED
  BY <1>9, <1>10

-----------------------------------------------------------------------------
(* Emitting one more element links it to the last one, and leaves the      *)
(* pointers of those that wait.                                            *)
LEMMA OneEmitted ==
  ASSUME TypeInv, NEW t \in [1 .. length -> 1 .. length], Arranges(t),
         NEW k \in Nat, k < length, Emitted(t, k), NEW e, e = t[k + 1], Emit(e),
         sort'.out = Append(sort.out, e), sort'.last = e,
         sort'.list = IF sort.last = NIL THEN e ELSE sort.list,
         UNCHANGED <<kind, key, length>>
  PROVE  /\ Emitted(t, k + 1)' /\ chain' \in RingOf
         /\ e \in Elements /\ sort'.out \in Seq(Elements) /\ sort'.list \in 0 .. MaxLength
         /\ \A i \in k + 1 .. length : chain'.next[t[i]] = chain.next[t[i]]
<1>1. /\ length \in Nat /\ Len(sort.out) = k
      /\ \A i \in 1 .. k : sort.out[i] = t[i]
      /\ sort.list = IF k = 0 THEN NIL ELSE t[1]
      /\ sort.last = IF k = 0 THEN NIL ELSE t[k]
      /\ \A i \in 1 .. k - 1 : chain.next[t[i]] = t[i + 1]
      /\ kind # "LL" => \A i \in 1 .. k : chain.prev[t[i]] = IF i = 1 THEN NIL ELSE t[i - 1]
  BY Facts DEF Emitted
<1>2. /\ k + 1 \in 1 .. length
      /\ \A i \in 1 .. k : i \in 1 .. length /\ i # k + 1
      /\ \A i \in k + 1 .. length : i \in 1 .. length /\ (0 < k => i # k)
      /\ 0 < k => k \in 1 .. length
  <2>1. PICK n \in Nat : n = length /\ k < n
    BY <1>1
  <2>2. /\ k + 1 \in 1 .. n
        /\ \A i \in 1 .. k : i \in 1 .. n /\ i # k + 1
        /\ \A i \in k + 1 .. n : i \in 1 .. n /\ (0 < k => i # k)
        /\ 0 < k => k \in 1 .. n
    BY <2>1
  <2> QED
    BY <2>1, <2>2
<1>3. \A i, j \in 1 .. length : t[i] = t[j] => i = j
  BY DEF Arranges
<1>4. \A i \in 1 .. length : t[i] \in Elements /\ t[i] \in 0 .. MaxLength /\ t[i] # NIL
  <2>1. \A i \in 1 .. length : t[i] \in Elements
    <3>1. 1 .. length \subseteq Elements
      BY Facts
    <3> QED
      BY <3>1
  <2>2. \A x \in Elements : x \in 0 .. MaxLength /\ x # NIL
    BY Facts DEF NIL, Elements
  <2> QED
    BY <2>1, <2>2
<1>5. e \in Elements /\ e \in 0 .. MaxLength /\ NIL \in 0 .. MaxLength
  BY <1>2, <1>4, Facts DEF NIL
<1>6. PICK nx \in [Elements -> 0 .. MaxLength], pv \in [Elements -> 0 .. MaxLength] :
        nx = chain.next /\ pv = chain.prev
  BY Facts DEF RingOf
<1>7. sort.last = NIL <=> k = 0
  BY <1>1, <1>2, <1>4
<1> DEFINE nx1 == IF k = 0 THEN nx ELSE [nx EXCEPT ![t[k]] = e]
           pv1 == IF kind = "LL" THEN pv ELSE [pv EXCEPT ![e] = sort.last]
<1>8. chain'.next = nx1 /\ chain'.prev = pv1 /\ chain' = [chain EXCEPT !.next = nx1, !.prev = pv1]
  <2>1. chain' = [chain EXCEPT !.next = nx1, !.prev = pv1]
    BY <1>1, <1>6, <1>7 DEF Emit
  <2>2. chain \in RingOf
    BY Facts
  <2> HIDE DEF nx1, pv1
  <2> QED
    BY <2>1, <2>2 DEF RingOf
<1>9. nx1 \in [Elements -> 0 .. MaxLength] /\ pv1 \in [Elements -> 0 .. MaxLength]
  BY <1>5, Facts
<1>10. chain' \in RingOf
  <2>1. chain \in RingOf
    BY Facts
  <2> HIDE DEF nx1, pv1
  <2> QED
    BY <1>8, <1>9, <2>1 DEF RingOf
<1>11. \A i \in k + 1 .. length : nx1[t[i]] = nx[t[i]]
  BY <1>2, <1>3, <1>4
<1>12. \A i \in 1 .. k : nx1[t[i]] = t[i + 1]
  <2>1. 0 < k => nx1[t[k]] = t[k + 1]
    BY <1>2, <1>4
  <2>2. ASSUME NEW i \in 1 .. k - 1
        PROVE  nx1[t[i]] = t[i + 1]
    <3>1. i \in 1 .. length /\ k \in 1 .. length /\ i # k
      BY <1>2
    <3>2. t[i] # t[k] /\ t[i] \in Elements
      BY <1>3, <1>4, <3>1
    <3>3. nx[t[i]] = t[i + 1]
      BY <1>1, <1>6
    <3> QED
      BY <3>2, <3>3
  <2>3. \A i \in 1 .. k : i \in 1 .. k - 1 \/ (i = k /\ 0 < k)
    OBVIOUS
  <2> HIDE DEF nx1
  <2> QED
    BY <2>1, <2>2, <2>3
<1>13. kind # "LL" => \A i \in 1 .. k + 1 : pv1[t[i]] = IF i = 1 THEN NIL ELSE t[i - 1]
  <2> SUFFICES ASSUME kind # "LL", NEW i \in 1 .. k + 1
               PROVE  pv1[t[i]] = IF i = 1 THEN NIL ELSE t[i - 1]
    OBVIOUS
  <2>1. CASE i = k + 1
    <3>1. pv1[t[i]] = sort.last
      BY <1>5, <2>1
    <3>2. (k = 0 <=> i = 1) /\ i - 1 = k
      BY <2>1
    <3> QED
      BY <1>1, <3>1, <3>2
  <2>2. CASE i # k + 1
    <3>1. i \in 1 .. k
      BY <2>2
    <3>2. t[i] # e /\ t[i] \in Elements
      BY <1>2, <1>3, <1>4, <3>1
    <3>3. pv[t[i]] = IF i = 1 THEN NIL ELSE t[i - 1]
      BY <1>1, <1>6, <3>1
    <3> QED
      BY <3>2, <3>3
  <2> QED
    BY <2>1, <2>2
<1> HIDE DEF nx1, pv1
<1>14. /\ Append(sort.out, e) \in Seq(Elements) /\ Len(Append(sort.out, e)) = k + 1
       /\ \A i \in 1 .. k : Append(sort.out, e)[i] = sort.out[i]
       /\ Append(sort.out, e)[k + 1] = e
  <2>1. PICK o \in Seq(Elements) : o = sort.out
    BY Facts DEF Locals
  <2>2. /\ Append(o, e) \in Seq(Elements) /\ Len(Append(o, e)) = Len(o) + 1
        /\ \A i \in 1 .. Len(o) : Append(o, e)[i] = o[i]
        /\ Append(o, e)[Len(o) + 1] = e
    BY <1>5, AppendProperties
  <2>3. Len(o) = k
    BY <1>1, <2>1
  <2> QED
    BY <2>1, <2>2, <2>3
<1>15. \A i \in 1 .. k + 1 : sort'.out[i] = t[i]
  <2>1. \A i \in 1 .. k : sort'.out[i] = t[i]
    BY <1>1, <1>14
  <2>2. sort'.out[k + 1] = t[k + 1]
    BY <1>14
  <2>3. \A i \in 1 .. k + 1 : i \in 1 .. k \/ i = k + 1
    OBVIOUS
  <2> QED
    BY <2>1, <2>2, <2>3, Zenon
<1>16. /\ k + 1 # 0 /\ (k + 1) - 1 = k
       /\ sort'.list = t[1]
  BY <1>1, <1>7
<1>17. Emitted(t, k + 1)'
  BY <1>1, <1>8, <1>12, <1>13, <1>14, <1>15, <1>16 DEF Emitted
<1>18. 1 \in 1 .. length
  BY <1>2
<1> QED
  BY <1>4, <1>5, <1>6, <1>8, <1>10, <1>11, <1>14, <1>16, <1>17, <1>18

(* The run that is written grows by an element no smaller than the rest.   *)
LEMMA RunGrows ==
  ASSUME TypeInv, NEW t \in [1 .. length -> 1 .. length],
         NEW c \in Nat, NEW w \in Nat \ {0}, NEW d \in Nat, d = c * (2 * w),
         NEW k \in Nat, d <= k, k < length, RunsIn(t, 1, k, 2 * w),
         \A i \in d + 1 .. k : key[t[i]] <= key[t[k + 1]]
  PROVE  RunsIn(t, 1, k + 1, 2 * w)
<1> SUFFICES ASSUME NEW i \in 1 .. k + 1, NEW j \in 1 .. k + 1, i < j, SameRun(i, j, 2 * w)
             PROVE  key[t[i]] <= key[t[j]]
  BY DEF RunsIn
<1>1. CASE j = k + 1
  <2>1. i \in Nat \ {0} /\ j \in Nat \ {0} /\ i <= k /\ d < j
    BY <1>1
  <2>2. Apart(d, 2 * w)
    BY RunsMeet
  <2>3. ~(i <= d)
    BY <2>1, <2>2 DEF Apart
  <2>4. i \in d + 1 .. k
    BY <2>1, <2>3
  <2> QED
    BY <1>1, <2>4
<1>2. CASE j # k + 1
  <2>1. i \in 1 .. k /\ j \in 1 .. k
    BY <1>2
  <2> QED
    BY <2>1 DEF RunsIn
<1> QED
  BY <1>1, <1>2

(* In the middle of a merge, with the numbers of its invariant named.      *)
Merging(t, k, a, z, d, w, c) ==
  /\ k = Len(sort.out) /\ a = k + sort.psize /\ z = a + sort.qsize /\ w = sort.insize
  /\ c = sort.nmerges - 1 /\ d = c * (2 * w)
  /\ MergeInv(t, k, a, z, d)

(* The numbers of the merge exist.                                          *)
LEMMA MergeNames ==
  ASSUME TypeInv, NEW t \in [1 .. length -> 1 .. length], SortInv(t), sort.pc = "merge"
  PROVE  \E k, a, z, d, c \in Nat : \E w \in Nat \ {0} : Merging(t, k, a, z, d, w, c)
<1>1. PICK k \in Nat, w \in Nat \ {0}, u \in Nat, v \in Nat, m \in Nat :
        k = Len(sort.out) /\ w = sort.insize /\ u = sort.psize /\ v = sort.qsize /\ m = sort.nmerges
  BY Facts
<1>2. PICK a \in Nat, z \in Nat : a = k + u /\ z = k + u + v
  OBVIOUS
<1>3. MergeInv(t, k, a, z, (m - 1) * (2 * w))
  BY <1>1, <1>2 DEF SortInv
<1>4. PICK c \in Nat : c = m - 1
  BY <1>1, <1>3 DEF MergeInv
<1>5. PICK d \in Nat : d = c * (2 * w)
  BY MergeCount
<1> QED
  BY <1>1, <1>2, <1>3, <1>4, <1>5 DEF Merging

(* The next element of the first run is not larger than what is left of    *)
(* the second.                                                             *)
LEMMA FirstTaken ==
  ASSUME TypeInv, NEW t \in [1 .. length -> 1 .. length], SortInv(t),
         MergeP, UNCHANGED <<kind, key, length>>
  PROVE  TypeInv' /\ SortInv(t)'
<1>0. /\ sort.pc = "merge" /\ TakesP /\ Emit(sort.p)
      /\ Arranges(t) /\ Stable(t)
  BY DEF MergeP, SortInv
<1>1. PICK k \in Nat, a \in Nat, z \in Nat, d \in Nat, c \in Nat, w \in Nat \ {0} :
        Merging(t, k, a, z, d, w, c)
  BY <1>0, MergeNames
<1>2. /\ k = Len(sort.out) /\ a = k + sort.psize /\ z = a + sort.qsize /\ w = sort.insize
      /\ c = sort.nmerges - 1 /\ d = c * (2 * w)
      /\ MergeInv(t, k, a, z, d)
  BY <1>1 DEF Merging
<1>u. PICK u \in Nat, v \in Nat : u = sort.psize /\ v = sort.qsize
  BY Facts
<1>3. /\ k < a /\ a <= length /\ length \in Nat /\ a <= z /\ d <= k
      /\ sort.p = t[k + 1]
      /\ QLeft => key[sort.p] <= key[sort.q]
  <2>1. a = k + u /\ z = a + v /\ u > 0
    BY <1>0, <1>2, <1>u DEF TakesP
  <2>2. k < a /\ a <= z
    BY <2>1
  <2>3. /\ a <= length /\ d <= k /\ length \in Nat
        /\ k < a => sort.p = t[k + 1]
        /\ QLeft => key[sort.p] <= key[sort.q]
    BY <1>0, <1>2, Facts DEF TakesP, MergeInv, TwoRuns
  <2>4. sort.p = t[k + 1]
    BY <2>2, <2>3
  <2>5. k < a /\ a <= length /\ length \in Nat /\ a <= z /\ d <= k
    BY <2>2, <2>3
  <2> QED
    BY <2>3, <2>4, <2>5, Zenon
<1>4. k + 1 \in 1 .. length /\ sort.p \in Elements
  BY <1>3, Facts
<1>5. /\ sort'.pc = "merge" /\ sort'.p = Ahead(sort.p) /\ sort'.q = sort.q
      /\ sort'.psize = sort.psize - 1 /\ sort'.qsize = sort.qsize
      /\ sort'.last = sort.p /\ sort'.oldhead = sort.oldhead
      /\ sort'.list = (IF sort.last = NIL THEN sort.p ELSE sort.list)
      /\ sort'.insize = w /\ sort'.nmerges = sort.nmerges
      /\ sort'.out = Append(sort.out, sort.p)
  BY <1>0, <1>2, Facts DEF MergeP, Locals
<1>6. /\ Emitted(t, k + 1)' /\ chain' \in RingOf
      /\ sort'.out \in Seq(Elements) /\ sort'.list \in 0 .. MaxLength
      /\ \A i \in k + 1 .. length : chain'.next[t[i]] = chain.next[t[i]]
  <2>1. Emitted(t, k) /\ k < length
    BY <1>2, <1>3 DEF MergeInv
  <2>2. PICK e : e = sort.p
    OBVIOUS
  <2>3. /\ e = t[k + 1] /\ Emit(e) /\ sort'.out = Append(sort.out, e) /\ sort'.last = e
        /\ sort'.list = IF sort.last = NIL THEN e ELSE sort.list
    BY <1>0, <1>3, <1>5, <2>2
  <2> QED
    BY <1>0, <2>1, <2>3, OneEmitted
<1>7. sort' \in Locals
  <2>1. sort.psize - 1 \in Nat
    <3>1. u > 0
      BY <1>0, <1>u DEF TakesP
    <3>2. u - 1 \in Nat
      BY <3>1
    <3> QED
      BY <1>u, <3>2
  <2>2. Ahead(sort.p) \in 0 .. MaxLength
    <3>1. chain.next[sort.p] \in 0 .. MaxLength /\ 0 \in 0 .. MaxLength
      BY <1>4, Facts DEF RingOf
    <3> QED
      BY <3>1 DEF Ahead, NIL
  <2>3. sort \in Locals /\ sort.p \in 0 .. MaxLength
    BY Facts
  <2>4. PICK x, y, o : x = Ahead(sort.p) /\ y = sort.psize - 1 /\ o = sort'.list
    OBVIOUS
  <2>5. sort' = [sort EXCEPT !.p = x, !.psize = y, !.last = sort.p, !.list = o, !.out = Append(sort.out, sort.p)]
    BY <1>5, <2>4 DEF MergeP
  <2> QED
    BY <1>5, <1>6, <2>1, <2>2, <2>3, <2>4, <2>5 DEF Locals
<1>8. TypeInv'
  BY <1>6, <1>7 DEF TypeInv, Locals, RingOf
<1>9. Arranges(t)' /\ Stable(t)'
  BY <1>0 DEF Arranges, Stable
<1>10. TwoRuns(t, k + 1, a, z)'
  <2>1. \A i \in k + 1 .. length : Ahead(t[i])' = Ahead(t[i])
    BY <1>5, <1>6 DEF Ahead
  <2>2. /\ \A i \in k + 1 .. a - 1 : Ahead(t[i]) = t[i + 1]
        /\ \A i \in a + 1 .. length : Ahead(t[i]) = IF i < length THEN t[i + 1] ELSE NIL
        /\ sort.q = IF a < length THEN t[a + 1] ELSE NIL
    BY <1>2 DEF MergeInv, TwoRuns, Waiting
  <2>3. \A i \in (k + 1) + 1 .. a - 1 : Ahead(t[i])' = t[i + 1]
    <3>1. \A i \in (k + 1) + 1 .. a - 1 : i \in k + 1 .. a - 1 /\ i \in k + 1 .. length
      BY <1>3
    <3> QED
      BY <2>1, <2>2, <3>1
  <2>4. \A i \in a + 1 .. length : Ahead(t[i])' = IF i < length THEN t[i + 1] ELSE NIL
    <3>1. \A i \in a + 1 .. length : i \in k + 1 .. length
      BY <1>3
    <3> QED
      BY <2>1, <2>2, <3>1
  <2>5. k + 1 < a => sort'.p = t[(k + 1) + 1]
    <3>1. k + 1 < a => k + 1 \in k + 1 .. a - 1
      OBVIOUS
    <3> QED
      BY <1>3, <1>5, <2>2, <3>1
  <2> QED
    BY <1>5, <2>2, <2>3, <2>4, <2>5 DEF TwoRuns, Waiting
<1>11. /\ RunsIn(t, 1, k, 2 * w) /\ RunsIn(t, z + 1, length, w)
       /\ Ascending(t, k + 1, a)
       /\ \A i, j \in a + 1 .. length : i < j /\ j <= z => key[t[i]] <= key[t[j]]
       /\ \A i \in d + 1 .. k : \A j \in k + 1 .. length : j <= z => key[t[i]] <= key[t[j]]
       /\ z = d + 2 * w \/ (length <= z /\ z < d + 2 * w)
       /\ 0 < length /\ 0 < sort.nmerges
       /\ sort.q = IF a < length THEN t[a + 1] ELSE NIL
  BY <1>2 DEF MergeInv, TwoRuns
<1>12. \A i \in 1 .. length : key[t[i]] \in Int
  BY Facts
<1>13. RunsIn(t, 1, k + 1, 2 * w)
  <2>1. \A i \in d + 1 .. k : key[t[i]] <= key[t[k + 1]]
    <3>1. k + 1 \in k + 1 .. length /\ k + 1 <= z
      BY <1>3
    <3> QED
      BY <1>11, <3>1
  <2>2. d = c * (2 * w) /\ RunsIn(t, 1, k, 2 * w) /\ d <= k
    BY <1>2, <1>3, <1>11, Zenon
  <2>3. k < length
    BY <1>3
  <2> QED
    BY <2>1, <2>2, <2>3, RunGrows
(* What is taken is not larger than what is left. *)
<1>14. \A j \in k + 2 .. length : j <= z => key[t[k + 1]] <= key[t[j]]
  <2> SUFFICES ASSUME NEW j \in k + 2 .. length, j <= z
               PROVE  key[t[k + 1]] <= key[t[j]]
    OBVIOUS
  <2>1. CASE j <= a
    <3>1. k + 1 \in k + 1 .. a /\ j \in k + 1 .. a /\ k + 1 < j
      BY <1>3, <2>1
    <3> QED
      BY <1>11, <3>1 DEF Ascending
  <2>2. CASE ~(j <= a)
    <3>1. a < length /\ a + 1 \in a + 1 .. length /\ j \in a + 1 .. length /\ a + 1 <= j /\ a < z
      BY <1>3, <2>2
    <3>2. sort.q = t[a + 1] /\ t[a + 1] \in 1 .. length
      BY <1>3, <1>11, <3>1
    <3>3. sort.q # NIL
      BY <3>2 DEF NIL
    <3>4. z = a + v
      BY <1>2, <1>u
    <3>a. v > 0
      BY <3>1, <3>4
    <3>5. QLeft
      BY <1>u, <3>3, <3>a DEF QLeft
    <3>6. key[t[k + 1]] <= key[t[a + 1]]
      BY <1>3, <3>2, <3>5
    <3>7. a + 1 < j => key[t[a + 1]] <= key[t[j]]
      BY <1>11, <3>1
    <3>8. a + 1 = j \/ a + 1 < j
      BY <3>1
    <3>9. a + 1 \in 1 .. length /\ j \in 1 .. length
      BY <1>3, <3>1
    <3>10. key[t[k + 1]] \in Int /\ key[t[a + 1]] \in Int /\ key[t[j]] \in Int
      BY <1>4, <1>12, <3>9
    <3>11. CASE a + 1 = j
      BY <3>6, <3>11
    <3>12. CASE a + 1 < j
      BY <3>6, <3>7, <3>10, <3>12
    <3> QED
      BY <3>8, <3>11, <3>12
  <2> QED
    BY <2>1, <2>2
<1>15. Ascending(t, k + 2, a)
  BY <1>11 DEF Ascending
<1>16. \A i \in d + 1 .. k + 1 : \A j \in k + 2 .. length : j <= z => key[t[i]] <= key[t[j]]
  <2>1. \A i \in d + 1 .. k + 1 : i \in d + 1 .. k \/ i = k + 1
    OBVIOUS
  <2>2. \A j \in k + 2 .. length : j \in k + 1 .. length
    OBVIOUS
  <2> QED
    BY <1>11, <1>14, <2>1, <2>2
<1>17. Merging(t, k + 1, a, z, d, w, c)'
  <2>1. Len(sort'.out) = k + 1
    BY <1>6 DEF Emitted
  <2>2. a = (k + 1) + (sort.psize - 1)
    <3>1. a = k + u
      BY <1>2, <1>u
    <3>2. a = (k + 1) + (u - 1)
      BY <3>1
    <3> QED
      BY <1>u, <3>2
  <2>3. (k + 1) + 1 = k + 2 /\ d <= k + 1
    BY <1>3
  <2>4. MergeInv(t, k + 1, a, z, d)'
    BY <1>3, <1>5, <1>6, <1>10, <1>11, <1>13, <1>15, <1>16, <2>3 DEF MergeInv, RunsIn, Ascending
  <2> QED
    BY <1>2, <1>5, <2>1, <2>2, <2>4 DEF Merging
<1>18. SortInv(t)'
  BY <1>5, <1>9, <1>17 DEF Merging, SortInv
<1> QED
  BY <1>8, <1>18

(* Where the i-th element was before the one behind a moved to k + 1. *)
From(i, k, a) == IF i = k + 1 THEN a + 1 ELSE IF k + 1 < i /\ i <= a + 1 THEN i - 1 ELSE i

Rotated(t, s, k, a) ==
  /\ s \in [1 .. length -> 1 .. length]
  /\ \A i \in 1 .. length : s[i] = t[From(i, k, a)]

FromFact(n, k, a) ==
  /\ \A i \in 1 .. n : From(i, k, a) \in 1 .. n
  /\ \A i, j \in 1 .. n : From(i, k, a) = From(j, k, a) => i = j
  /\ \A j \in 1 .. n : \E i \in 1 .. n : From(i, k, a) = j
  /\ \A i, j \in 1 .. n : i < j =>
       From(i, k, a) < From(j, k, a) \/ (i = k + 1 /\ j \in k + 2 .. a + 1)
  /\ \A i \in 1 .. k : From(i, k, a) = i
  /\ From(k + 1, k, a) = a + 1
  /\ \A i \in k + 2 .. a + 1 : From(i, k, a) = i - 1
  /\ \A i \in a + 2 .. n : From(i, k, a) = i

(* It is a permutation that keeps the order of all but the one moved.       *)
LEMMA FromFacts ==
  ASSUME NEW n \in Nat, NEW k \in Nat, NEW a \in Nat, k <= a, a < n
  PROVE  FromFact(n, k, a)
<1>1. ASSUME NEW j \in 1 .. n
      PROVE  \E i \in 1 .. n : From(i, k, a) = j
  <2>1. CASE j = a + 1
    <3>1. k + 1 \in 1 .. n /\ From(k + 1, k, a) = j
      BY <2>1 DEF From
    <3> QED
      BY <3>1
  <2>2. CASE k + 1 <= j /\ j <= a
    <3>1. j + 1 \in 1 .. n /\ From(j + 1, k, a) = j
      BY <2>2 DEF From
    <3> QED
      BY <3>1
  <2>3. CASE j <= k \/ a + 1 < j
    <3>1. From(j, k, a) = j
      BY <2>3 DEF From
    <3> QED
      BY <3>1
  <2> QED
    BY <2>1, <2>2, <2>3
<1>2. \A i \in 1 .. n : From(i, k, a) \in 1 .. n
  BY DEF From
<1>3. \A i, j \in 1 .. n : From(i, k, a) = From(j, k, a) => i = j
  BY DEF From
<1>4. \A i, j \in 1 .. n : i < j =>
        From(i, k, a) < From(j, k, a) \/ (i = k + 1 /\ j \in k + 2 .. a + 1)
  BY DEF From
<1>5. /\ \A i \in 1 .. k : From(i, k, a) = i
      /\ From(k + 1, k, a) = a + 1
      /\ \A i \in k + 2 .. a + 1 : From(i, k, a) = i - 1
      /\ \A i \in a + 2 .. n : From(i, k, a) = i
  BY DEF From
<1> QED
  BY <1>1, <1>2, <1>3, <1>4, <1>5 DEF FromFact

(* It moves in front of larger elements only. *)
LEMMA RotatedKeepsOrder ==
  ASSUME length \in Nat, NEW t \in [1 .. length -> 1 .. length], NEW s, NEW k \in Nat, NEW a \in Nat,
         k <= a, a < length, Rotated(t, s, k, a), Arranges(t), Stable(t),
         \A i \in 1 .. length : key[t[i]] \in Int,
         \A j \in k + 1 .. a : key[t[a + 1]] < key[t[j]]
  PROVE  Arranges(s) /\ Stable(s)
<1>1. /\ \A i \in 1 .. length : From(i, k, a) \in 1 .. length
      /\ \A i, j \in 1 .. length : From(i, k, a) = From(j, k, a) => i = j
      /\ \A j \in 1 .. length : \E i \in 1 .. length : From(i, k, a) = j
      /\ \A i, j \in 1 .. length : i < j =>
           From(i, k, a) < From(j, k, a) \/ (i = k + 1 /\ j \in k + 2 .. a + 1)
      /\ From(k + 1, k, a) = a + 1
      /\ \A i \in k + 2 .. a + 1 : From(i, k, a) = i - 1
  <2>1. FromFact(length, k, a)
    BY FromFacts
  <2> QED
    BY <2>1 DEF FromFact
<1>2. s \in [1 .. length -> 1 .. length] /\ \A i \in 1 .. length : s[i] = t[From(i, k, a)]
  BY DEF Rotated
<1>3. Arranges(s)
  <2>1. /\ \A i, j \in 1 .. length : t[i] = t[j] => i = j
        /\ \A x \in 1 .. length : \E i \in 1 .. length : t[i] = x
    BY DEF Arranges
  <2>2. ASSUME NEW i \in 1 .. length, NEW j \in 1 .. length, s[i] = s[j]
        PROVE  i = j
    <3>1. PICK f \in 1 .. length, g \in 1 .. length : f = From(i, k, a) /\ g = From(j, k, a)
      BY <1>1
    <3>2. t[f] = t[g]
      BY <1>2, <2>2, <3>1
    <3>3. f = g
      BY <2>1, <3>2
    <3> QED
      BY <1>1, <3>1, <3>3
  <2>3. ASSUME NEW x \in 1 .. length
        PROVE  \E i \in 1 .. length : s[i] = x
    <3>1. PICK j \in 1 .. length : t[j] = x
      BY <2>1
    <3>2. PICK i \in 1 .. length : From(i, k, a) = j
      BY <1>1
    <3> QED
      BY <1>2, <3>1, <3>2
  <2> QED
    BY <1>2, <2>2, <2>3 DEF Arranges
<1>4. Stable(s)
  <2> SUFFICES ASSUME NEW i \in 1 .. length, NEW j \in 1 .. length, i < j, key[s[i]] = key[s[j]]
               PROVE  s[i] < s[j]
    BY DEF Stable
  <2>1. CASE From(i, k, a) < From(j, k, a)
    <3>1. PICK f \in 1 .. length, g \in 1 .. length : f = From(i, k, a) /\ g = From(j, k, a)
      BY <1>1
    <3>2. s[i] = t[f] /\ s[j] = t[g]
      BY <1>2, <3>1
    <3>3. f < g /\ key[t[f]] = key[t[g]]
      BY <2>1, <3>1, <3>2
    <3>4. t[f] < t[g]
      BY <3>3 DEF Stable
    <3> QED
      BY <3>2, <3>4
  <2>2. CASE i = k + 1 /\ j \in k + 2 .. a + 1
    <3>1. PICK h \in k + 1 .. a : h = j - 1
      BY <2>2
    <3>2. s[i] = t[a + 1] /\ s[j] = t[h]
      BY <1>1, <1>2, <2>2, <3>1
    <3>3. key[t[a + 1]] < key[t[h]] /\ key[t[a + 1]] = key[t[h]]
      BY <3>2
    <3>4. a + 1 \in 1 .. length
      OBVIOUS
    <3>5. PICK x \in Int : x = key[t[a + 1]]
      BY <3>4
    <3>6. x < x
      BY <3>3, <3>5
    <3> QED
      BY <3>6
  <2> QED
    BY <1>1, <2>1, <2>2
<1> QED
  BY <1>3, <1>4

(* The next element of the second run is smaller than what is left of the  *)
(* first, and is moved in front of it.                                     *)
LEMMA SecondTaken ==
  ASSUME TypeInv, NEW t \in [1 .. length -> 1 .. length], SortInv(t),
         MergeQ, UNCHANGED <<kind, key, length>>
  PROVE  TypeInv' /\ \E s \in [1 .. length -> 1 .. length] : SortInv(s)'
<1>0. /\ sort.pc = "merge" /\ QLeft /\ ~TakesP /\ Emit(sort.q)
      /\ Arranges(t) /\ Stable(t)
  BY DEF MergeQ, SortInv
<1>1. PICK k \in Nat, a \in Nat, z \in Nat, d \in Nat, c \in Nat, w \in Nat \ {0} :
        Merging(t, k, a, z, d, w, c)
  BY <1>0, MergeNames
<1>2. /\ k = Len(sort.out) /\ a = k + sort.psize /\ z = a + sort.qsize /\ w = sort.insize
      /\ c = sort.nmerges - 1 /\ d = c * (2 * w)
      /\ MergeInv(t, k, a, z, d)
  BY <1>1 DEF Merging
<1>u. PICK u \in Nat, v \in Nat : u = sort.psize /\ v = sort.qsize
  BY Facts
<1>3. /\ k <= a /\ a < length /\ length \in Nat /\ a < z /\ d <= k /\ 0 < v
      /\ sort.q = t[a + 1]
      /\ k < a => sort.p = t[k + 1]
  <2>1. a = k + u /\ z = a + v /\ v > 0 /\ sort.q # NIL
    BY <1>0, <1>2, <1>u DEF QLeft
  <2>2. /\ a <= length /\ d <= k /\ length \in Nat
        /\ k < a => sort.p = t[k + 1]
        /\ sort.q = IF a < length THEN t[a + 1] ELSE NIL
    BY <1>2, Facts DEF MergeInv, TwoRuns
  <2>3. k <= a /\ a < z
    BY <2>1
  <2>4. a < length
    BY <2>1, <2>2
  <2>5. sort.q = t[a + 1]
    BY <2>2, <2>4
  <2> QED
    BY <2>1, <2>2, <2>3, <2>4, <2>5, Zenon
<1>4. a + 1 \in 1 .. length /\ k + 1 \in 1 .. length /\ sort.q \in Elements
  BY <1>3, Facts
<1>5. /\ sort'.pc = "merge" /\ sort'.q = Ahead(sort.q) /\ sort'.p = sort.p
      /\ sort'.qsize = sort.qsize - 1 /\ sort'.psize = sort.psize
      /\ sort'.last = sort.q /\ sort'.oldhead = sort.oldhead
      /\ sort'.list = (IF sort.last = NIL THEN sort.q ELSE sort.list)
      /\ sort'.insize = w /\ sort'.nmerges = sort.nmerges
      /\ sort'.out = Append(sort.out, sort.q)
  BY <1>0, <1>2, Facts DEF MergeQ, Locals
<1>11. /\ RunsIn(t, 1, k, 2 * w) /\ RunsIn(t, z + 1, length, w)
       /\ Ascending(t, k + 1, a)
       /\ \A i, j \in a + 1 .. length : i < j /\ j <= z => key[t[i]] <= key[t[j]]
       /\ \A i \in d + 1 .. k : \A j \in k + 1 .. length : j <= z => key[t[i]] <= key[t[j]]
       /\ z = d + 2 * w \/ (length <= z /\ z < d + 2 * w)
       /\ 0 < length /\ 0 < sort.nmerges
       /\ \A i \in k + 1 .. a - 1 : Ahead(t[i]) = t[i + 1]
       /\ \A i \in a + 1 .. length : Ahead(t[i]) = IF i < length THEN t[i + 1] ELSE NIL
       /\ Emitted(t, k)
  BY <1>2 DEF MergeInv, TwoRuns, Waiting
<1>12. \A i \in 1 .. length : key[t[i]] \in Int
  BY Facts
(* What is taken is smaller than what is left of the first run. *)
<1>13. \A j \in k + 1 .. a : key[t[a + 1]] < key[t[j]]
  <2> SUFFICES ASSUME NEW j \in k + 1 .. a
               PROVE  key[t[a + 1]] < key[t[j]]
    OBVIOUS
  <2>1. k < a
    OBVIOUS
  <2>2. u > 0
    <3>1. a = k + u
      BY <1>2, <1>u
    <3> QED
      BY <2>1, <3>1
  <2>3. ~(key[sort.p] <= key[sort.q])
    BY <1>0, <1>u, <2>2 DEF TakesP
  <2>4. ~(key[t[k + 1]] <= key[t[a + 1]])
    BY <1>3, <2>1, <2>3
  <2>5. k + 1 = j \/ key[t[k + 1]] <= key[t[j]]
    BY <1>11, <2>1 DEF Ascending
  <2>6. j \in 1 .. length
    BY <1>3
  <2>7. PICK x \in Int, y \in Int, f \in Int : x = key[t[a + 1]] /\ y = key[t[k + 1]] /\ f = key[t[j]]
    BY <1>4, <1>12, <2>6
  <2>8. ~(y <= x) /\ (f = y \/ y <= f)
    BY <2>4, <2>5, <2>7
  <2>9. x < f
    BY <2>8
  <2> QED
    BY <2>7, <2>9
<1> DEFINE s == [i \in 1 .. length |-> t[From(i, k, a)]]
<1>14. FromFact(length, k, a)
  BY <1>3, FromFacts
<1>15. Rotated(t, s, k, a)
  BY <1>14 DEF FromFact, Rotated
<1>16. PICK r \in [1 .. length -> 1 .. length] : Rotated(t, r, k, a)
  BY <1>15 DEF Rotated
<1> HIDE DEF s
<1>17. Arranges(r) /\ Stable(r)
  BY <1>0, <1>3, <1>12, <1>13, <1>16, RotatedKeepsOrder
<1>18. /\ \A i \in 1 .. k : r[i] = t[i]
       /\ r[k + 1] = t[a + 1]
       /\ \A i \in k + 2 .. a + 1 : r[i] = t[i - 1]
       /\ \A i \in a + 2 .. length : r[i] = t[i]
  <2>1. \A i \in 1 .. length : r[i] = t[From(i, k, a)]
    BY <1>16 DEF Rotated
  <2>2. /\ \A i \in 1 .. k : From(i, k, a) = i
        /\ From(k + 1, k, a) = a + 1
        /\ \A i \in k + 2 .. a + 1 : From(i, k, a) = i - 1
        /\ \A i \in a + 2 .. length : From(i, k, a) = i
    BY <1>14 DEF FromFact
  <2>3. /\ \A i \in 1 .. k : i \in 1 .. length
        /\ \A i \in k + 2 .. a + 1 : i \in 1 .. length
        /\ \A i \in a + 2 .. length : i \in 1 .. length
    <3>1. PICK n \in Nat : n = length /\ k <= a /\ a < n
      BY <1>3
    <3>2. /\ \A i \in 1 .. k : i \in 1 .. n
          /\ \A i \in k + 2 .. a + 1 : i \in 1 .. n
          /\ \A i \in a + 2 .. n : i \in 1 .. n
      BY <3>1
    <3> QED
      BY <3>1, <3>2
  <2> QED
    BY <1>4, <2>1, <2>2, <2>3
<1>19. Emitted(r, k)
  <2>1. /\ \A i \in 1 .. k - 1 : i \in 1 .. k /\ i + 1 \in 1 .. k
        /\ \A i \in 1 .. k : i # 1 => i - 1 \in 1 .. k
        /\ k # 0 => 1 \in 1 .. k /\ k \in 1 .. k
    OBVIOUS
  <2> QED
    BY <1>11, <1>18, <2>1 DEF Emitted
<1>6. /\ Emitted(r, k + 1)' /\ chain' \in RingOf
      /\ sort'.out \in Seq(Elements) /\ sort'.list \in 0 .. MaxLength
      /\ \A i \in k + 1 .. length : chain'.next[r[i]] = chain.next[r[i]]
  <2>1. k < length
    BY <1>3
  <2>2. PICK e : e = sort.q
    OBVIOUS
  <2>3. /\ e = r[k + 1] /\ Emit(e) /\ sort'.out = Append(sort.out, e) /\ sort'.last = e
        /\ sort'.list = IF sort.last = NIL THEN e ELSE sort.list
    BY <1>0, <1>3, <1>5, <1>18, <2>2
  <2> QED
    BY <1>17, <1>19, <2>1, <2>3, OneEmitted

<1>7. sort' \in Locals
  <2>1. sort.qsize - 1 \in Nat
    <3>1. v - 1 \in Nat
      BY <1>3
    <3> QED
      BY <1>u, <3>1
  <2>2. Ahead(sort.q) \in 0 .. MaxLength
    <3>1. chain.next[sort.q] \in 0 .. MaxLength /\ 0 \in 0 .. MaxLength
      BY <1>4, Facts DEF RingOf
    <3> QED
      BY <3>1 DEF Ahead, NIL
  <2>3. sort \in Locals /\ sort.q \in 0 .. MaxLength
    BY Facts
  <2>4. PICK x, y, o : x = Ahead(sort.q) /\ y = sort.qsize - 1 /\ o = sort'.list
    OBVIOUS
  <2>5. sort' = [sort EXCEPT !.q = x, !.qsize = y, !.last = sort.q, !.list = o, !.out = Append(sort.out, sort.q)]
    BY <1>5, <2>4 DEF MergeQ
  <2> QED
    BY <1>5, <1>6, <2>1, <2>2, <2>3, <2>4, <2>5 DEF Locals
<1>8. TypeInv'
  BY <1>6, <1>7 DEF TypeInv, Locals, RingOf
<1>9. Arranges(r)' /\ Stable(r)'
  BY <1>17 DEF Arranges, Stable
<1>10. TwoRuns(r, k + 1, a + 1, z)'
  <2>1. \A i \in k + 1 .. length : Ahead(r[i])' = Ahead(r[i])
    BY <1>5, <1>6 DEF Ahead
  <2>2. ASSUME NEW i \in (k + 1) + 1 .. (a + 1) - 1
        PROVE  Ahead(r[i])' = r[i + 1]
    <3>1. PICK h \in k + 1 .. a - 1 : h = i - 1
      OBVIOUS
    <3>2. i \in k + 2 .. a + 1 /\ i + 1 \in k + 2 .. a + 1 /\ i \in k + 1 .. length /\ (i + 1) - 1 = h + 1
      BY <1>3, <3>1
    <3>3. r[i] = t[h] /\ r[i + 1] = t[h + 1]
      BY <1>18, <3>1, <3>2
    <3>4. Ahead(t[h]) = t[h + 1]
      BY <1>11
    <3> QED
      BY <2>1, <3>2, <3>3, <3>4
  <2>3. ASSUME NEW i \in (a + 1) + 1 .. length
        PROVE  Ahead(r[i])' = IF i < length THEN r[i + 1] ELSE NIL
    <3>1. i \in a + 2 .. length /\ i \in k + 1 .. length /\ i \in a + 1 .. length
      BY <1>3
    <3>2. i < length => i + 1 \in a + 2 .. length
      BY <1>3
    <3>3. r[i] = t[i] /\ (i < length => r[i + 1] = t[i + 1])
      BY <1>18, <3>1, <3>2
    <3>4. Ahead(t[i]) = IF i < length THEN t[i + 1] ELSE NIL
      BY <1>11, <3>1
    <3> QED
      BY <2>1, <3>1, <3>3, <3>4
  <2>4. k + 1 < a + 1 => sort'.p = r[(k + 1) + 1]
    <3> SUFFICES ASSUME k < a
                 PROVE  sort'.p = r[(k + 1) + 1]
      OBVIOUS
    <3>1. k + 2 \in k + 2 .. a + 1 /\ (k + 2) - 1 = k + 1 /\ (k + 1) + 1 = k + 2
      OBVIOUS
    <3> QED
      BY <1>3, <1>5, <1>18, <3>1
  <2>5. sort'.q = IF a + 1 < length THEN r[(a + 1) + 1] ELSE NIL
    <3>1. Ahead(t[a + 1]) = IF a + 1 < length THEN t[(a + 1) + 1] ELSE NIL
      BY <1>3, <1>11
    <3>2. a + 1 < length => (a + 1) + 1 \in a + 2 .. length
      BY <1>3
    <3> QED
      BY <1>3, <1>5, <1>18, <3>1, <3>2
  <2> QED
    BY <2>2, <2>3, <2>4, <2>5 DEF TwoRuns, Waiting
<1>20. RunsIn(r, 1, k + 1, 2 * w)
  <2>1. RunsIn(r, 1, k, 2 * w)
    BY <1>11, <1>18 DEF RunsIn
  <2>2. \A i \in d + 1 .. k : key[r[i]] <= key[r[k + 1]]
    <3>1. a + 1 \in k + 1 .. length /\ a + 1 <= z
      BY <1>3
    <3>2. \A i \in d + 1 .. k : i \in 1 .. k
      OBVIOUS
    <3> QED
      BY <1>11, <1>18, <3>1, <3>2
  <2>3. d = c * (2 * w) /\ d <= k
    BY <1>2, <1>3, Zenon
  <2>4. k < length
    BY <1>3
  <2> QED
    BY <2>1, <2>2, <2>3, <2>4, RunGrows
<1>21. RunsIn(r, z + 1, length, w)
  <2>1. \A i \in z + 1 .. length : i \in a + 2 .. length
    BY <1>3
  <2> QED
    BY <1>11, <1>18, <2>1 DEF RunsIn
<1>22. Ascending(r, k + 2, a + 1)
  <2> SUFFICES ASSUME NEW i \in k + 2 .. a + 1, NEW j \in k + 2 .. a + 1, i < j
               PROVE  key[r[i]] <= key[r[j]]
    BY DEF Ascending
  <2>1. PICK f \in k + 1 .. a, g \in k + 1 .. a : f = i - 1 /\ g = j - 1 /\ f < g
    OBVIOUS
  <2>2. r[i] = t[f] /\ r[j] = t[g]
    BY <1>18, <2>1
  <2> QED
    BY <1>11, <2>1, <2>2 DEF Ascending
<1>23. \A i, j \in a + 2 .. length : i < j /\ j <= z => key[r[i]] <= key[r[j]]
  <2>1. \A i \in a + 2 .. length : i \in a + 1 .. length
    BY <1>3
  <2> QED
    BY <1>11, <1>18, <2>1
<1>24. ASSUME NEW j \in k + 2 .. length, j <= z
       PROVE  \E h \in k + 1 .. length : h <= z /\ r[j] = t[h] /\ (h \in k + 1 .. a \/ a + 1 < h)
  <2>1. CASE j <= a + 1
    <3>1. PICK h \in k + 1 .. a : h = j - 1
      BY <2>1
    <3>2. j \in k + 2 .. a + 1 /\ h \in k + 1 .. length /\ h <= z
      BY <1>3, <2>1
    <3> QED
      BY <1>18, <3>1, <3>2
  <2>2. CASE ~(j <= a + 1)
    <3>1. j \in a + 2 .. length /\ j \in k + 1 .. length /\ a + 1 < j
      BY <1>3, <2>2
    <3> QED
      BY <1>18, <1>24, <3>1
  <2> QED
    BY <2>1, <2>2
<1>25. \A i \in d + 1 .. k + 1 : \A j \in k + 2 .. length : j <= z => key[r[i]] <= key[r[j]]
  <2> SUFFICES ASSUME NEW i \in d + 1 .. k + 1, NEW j \in k + 2 .. length, j <= z
               PROVE  key[r[i]] <= key[r[j]]
    OBVIOUS
  <2>1. PICK h \in k + 1 .. length : h <= z /\ r[j] = t[h] /\ (h \in k + 1 .. a \/ a + 1 < h)
    BY <1>24
  <2>2. CASE i = k + 1
    <3>1. r[i] = t[a + 1] /\ h \in 1 .. length
      BY <1>18, <2>2
    <3>2. PICK x \in Int, y \in Int : x = key[t[a + 1]] /\ y = key[t[h]]
      BY <1>4, <1>12, <3>1
    <3>3. CASE h \in k + 1 .. a
      <4>1. x < y
        BY <1>13, <3>2, <3>3
      <4> QED
        BY <2>1, <3>1, <3>2, <4>1
    <3>4. CASE a + 1 < h
      <4>1. a + 1 \in a + 1 .. length /\ h \in a + 1 .. length
        BY <1>3, <3>4
      <4> QED
        BY <1>11, <2>1, <3>1, <3>4, <4>1
    <3> QED
      BY <2>1, <3>3, <3>4
  <2>3. CASE i # k + 1
    <3>1. i \in d + 1 .. k /\ i \in 1 .. k
      BY <2>3
    <3>2. r[i] = t[i]
      BY <1>18, <3>1
    <3> QED
      BY <1>11, <2>1, <3>1, <3>2
  <2> QED
    BY <2>2, <2>3
<1>26. Merging(r, k + 1, a + 1, z, d, w, c)'
  <2>1. Len(sort'.out) = k + 1
    BY <1>6 DEF Emitted
  <2>2. a + 1 = (k + 1) + sort.psize /\ z = (a + 1) + (sort.qsize - 1)
    <3>1. a = k + u /\ z = a + v
      BY <1>2, <1>u
    <3>2. a + 1 = (k + 1) + u /\ z = (a + 1) + (v - 1)
      BY <3>1
    <3> QED
      BY <1>u, <3>2
  <2>3. (k + 1) + 1 = k + 2 /\ (a + 1) + 1 = a + 2 /\ d <= k + 1 /\ a + 1 <= length
    BY <1>3
  <2>4. MergeInv(r, k + 1, a + 1, z, d)'
    BY <1>3, <1>5, <1>6, <1>10, <1>11, <1>20, <1>21, <1>22, <1>23, <1>25, <2>3
    DEF MergeInv, RunsIn, Ascending
  <2> QED
    BY <1>2, <1>5, <2>1, <2>2, <2>4 DEF Merging
<1>27. SortInv(r)'
  BY <1>5, <1>9, <1>26 DEF Merging, SortInv
<1> QED
  BY <1>8, <1>27

-----------------------------------------------------------------------------
(* What a walk has to be. *)
Walks(x, n, g) ==
  g = [i \in 0 .. n |-> IF i = 0 THEN x ELSE IF g[i - 1] = NIL THEN NIL ELSE Ahead(g[i - 1])]

(* Walked chooses one: each of its steps goes one element ahead.           *)
LEMMA WalkedSteps ==
  ASSUME TypeInv, NEW x \in 0 .. MaxLength, NEW n \in Nat, NEW g, g = Walked(x, n)
  PROVE  /\ g[0] = x
         /\ \A i \in 1 .. n : g[i] = IF g[i - 1] = NIL THEN NIL ELSE Ahead(g[i - 1])
<1>1. \E h : Walks(x, n, h)
  <2> DEFINE S == 0 .. MaxLength
  <2>1. PICK f : f = [i \in 1 .. n |-> [y \in S |-> IF y = NIL THEN NIL ELSE Ahead(y)]]
    OBVIOUS
  <2>2. PICK h : Iterates(h, n, x, f, S)
    <3>1. \A y \in S : (IF y = NIL THEN NIL ELSE Ahead(y)) \in S
      <4> SUFFICES ASSUME NEW y \in S, y # NIL
                   PROVE  Ahead(y) \in S
        BY Facts DEF NIL
      <4>1. y \in Elements
        BY Facts DEF NIL, Elements
      <4>2. chain.next[y] \in S /\ NIL \in S
        BY <4>1, Facts DEF RingOf, NIL
      <4> QED
        BY <4>2 DEF Ahead
    <3>2. f \in Steps(n, S)
      BY <2>1, <3>1 DEF Steps
    <3> QED
      BY <3>2, RecursionExists
  <2>3. h \in [0 .. n -> S] /\ h[0] = x /\ \A i \in 1 .. n : h[i] = f[i][h[i - 1]]
    BY <2>2 DEF Iterates
  <2>4. \A i \in 1 .. n : h[i] = IF h[i - 1] = NIL THEN NIL ELSE Ahead(h[i - 1])
    <3> TAKE i \in 1 .. n
    <3>1. h[i - 1] \in S
      BY <2>3
    <3> QED
      BY <2>1, <2>3, <3>1
  <2>5. Walks(x, n, h)
    <3>1. \A i \in 0 .. n : h[i] = IF i = 0 THEN x ELSE IF h[i - 1] = NIL THEN NIL ELSE Ahead(h[i - 1])
      <4>1. \A i \in 0 .. n : i = 0 \/ i \in 1 .. n
        OBVIOUS
      <4> QED
        BY <2>3, <2>4, <4>1
    <3>2. h = [i \in 0 .. n |-> h[i]]
      BY <2>3
    <3> QED
      BY <3>1, <3>2 DEF Walks
  <2> QED
    BY <2>5
<1>2. g = CHOOSE h : Walks(x, n, h)
  BY DEF Walked, Walks
<1>3. Walks(x, n, g)
  BY <1>1, <1>2
<1>4. \A i \in 0 .. n : g[i] = IF i = 0 THEN x ELSE IF g[i - 1] = NIL THEN NIL ELSE Ahead(g[i - 1])
  BY <1>3 DEF Walks
<1> QED
  BY <1>4

(* A walk of n steps from the element at lo comes to those up to hi. *)
Finds(g, n, t, lo, hi) == \A i \in 0 .. n : lo + i <= hi => g[i] = t[lo + i]
Linked(t, lo, hi) == \A i \in lo .. hi - 1 : Ahead(t[i]) = t[i + 1]

(* It does if they are linked, ...                                         *)
LEMMA WalkWithin ==
  ASSUME TypeInv, NEW t \in [1 .. length -> 1 .. length],
         NEW hi \in 1 .. length, NEW lo \in 1 .. hi, Linked(t, lo, hi),
         NEW n \in Nat, NEW g, g = Walked(t[lo], n)
  PROVE  Finds(g, n, t, lo, hi)
<1> DEFINE T == {i \in Nat : i <= n /\ lo + i <= hi => g[i] = t[lo + i]}
<1>0. PICK l \in Nat : l = length
  BY Facts
<1>1. t[lo] \in 0 .. MaxLength
  <2>1. lo \in 1 .. length
    BY <1>0
  <2> QED
    BY <2>1, Facts
<1>2. /\ g[0] = t[lo]
      /\ \A i \in 1 .. n : g[i] = IF g[i - 1] = NIL THEN NIL ELSE Ahead(g[i - 1])
  BY <1>1, WalkedSteps
<1>3. 0 \in T
  BY <1>2
<1>4. ASSUME NEW i \in Nat, i \in T
      PROVE  i + 1 \in T
  <2> SUFFICES ASSUME i + 1 <= n, lo + (i + 1) <= hi
               PROVE  g[i + 1] = t[lo + (i + 1)]
    OBVIOUS
  <2>1. g[i] = t[lo + i]
    BY <1>4
  <2>2. lo + i \in lo .. hi - 1 /\ lo + i \in 1 .. length /\ (lo + i) + 1 = lo + (i + 1)
    BY <1>0
  <2>3. g[i] # NIL
    BY <2>1, <2>2 DEF NIL
  <2>4. i + 1 \in 1 .. n /\ (i + 1) - 1 = i
    OBVIOUS
  <2>5. g[i + 1] = Ahead(g[i])
    BY <1>2, <2>3, <2>4
  <2>6. Ahead(t[lo + i]) = t[(lo + i) + 1]
    BY <2>2 DEF Linked
  <2> QED
    BY <2>1, <2>2, <2>5, <2>6
<1> HIDE DEF T
<1>5. Nat \subseteq T
  BY <1>3, <1>4, SetInduction
<1> QED
  BY <1>5 DEF T, Finds

(* x is the i-th element, or NIL behind the end of the list. *)
At(x, t, i) == x = IF i <= length THEN t[i] ELSE NIL

(* ... and ends with NIL if the elements wait up to the end of the list.   *)
LEMMA WalkToEnd ==
  ASSUME TypeInv, NEW t \in [1 .. length -> 1 .. length],
         NEW lo \in Nat \ {0}, Waiting(t, lo), NEW x, At(x, t, lo),
         NEW n \in Nat, NEW g, g = Walked(x, n)
  PROVE  \A i \in 0 .. n : At(g[i], t, lo + i)
<1> DEFINE T == {i \in Nat : i <= n => At(g[i], t, lo + i)}
<1>0. PICK l \in Nat : l = length
  BY Facts
<1>1. x \in 0 .. MaxLength
  <2>1. CASE lo <= length
    <3>1. lo \in 1 .. length
      BY <1>0, <2>1
    <3>2. t[lo] \in 1 .. length /\ 1 .. length \subseteq 0 .. MaxLength
      BY <3>1, Facts DEF Elements
    <3> QED
      BY <2>1, <3>2 DEF At
  <2>2. CASE ~(lo <= length)
    <3>1. 0 \in 0 .. MaxLength
      BY Facts
    <3> QED
      BY <2>2, <3>1 DEF At, NIL
  <2> QED
    BY <2>1, <2>2
<1>2. /\ g[0] = x
      /\ \A i \in 1 .. n : g[i] = IF g[i - 1] = NIL THEN NIL ELSE Ahead(g[i - 1])
  BY <1>1, WalkedSteps
<1>3. 0 \in T
  <2>1. lo + 0 = lo
    OBVIOUS
  <2> QED
    BY <1>2, <2>1
<1>4. ASSUME NEW i \in Nat, i \in T
      PROVE  i + 1 \in T
  <2> SUFFICES ASSUME i + 1 <= n
               PROVE  g[i + 1] = IF lo + (i + 1) <= length THEN t[lo + (i + 1)] ELSE NIL
    BY DEF At
  <2>1. g[i] = IF lo + i <= length THEN t[lo + i] ELSE NIL
    BY <1>4 DEF At
  <2>2. i + 1 \in 1 .. n /\ (i + 1) - 1 = i
    OBVIOUS
  <2>3. g[i + 1] = IF g[i] = NIL THEN NIL ELSE Ahead(g[i])
    BY <1>2, <2>2
  <2>4. CASE lo + i <= length
    <3>1. lo + i \in 1 .. length /\ lo + i \in lo .. length /\ (lo + i) + 1 = lo + (i + 1)
      BY <1>0, <2>4
    <3>2. g[i] # NIL
      BY <2>1, <2>4, <3>1 DEF NIL
    <3>3. Ahead(t[lo + i]) = IF lo + i < length THEN t[(lo + i) + 1] ELSE NIL
      BY <3>1 DEF Waiting
    <3>4. lo + i < length <=> lo + (i + 1) <= length
      BY <1>0
    <3> QED
      BY <2>1, <2>3, <2>4, <3>1, <3>2, <3>3, <3>4
  <2>5. CASE ~(lo + i <= length)
    <3>1. ~(lo + (i + 1) <= length)
      BY <1>0, <2>5
    <3> QED
      BY <2>1, <2>3, <2>5, <3>1
  <2> QED
    BY <2>4, <2>5
<1> HIDE DEF T
<1>5. Nat \subseteq T
  BY <1>3, <1>4, SetInduction
<1> QED
  BY <1>5 DEF T

(* Two runs of the size of the pass begin behind what was merged, the first *)
(* or the second shorter at the end of the list.                            *)
LEMMA MergeBegins ==
  ASSUME TypeInv, NEW t \in [1 .. length -> 1 .. length], SortInv(t),
         StartMerge, UNCHANGED <<kind, key, length>>
  PROVE  TypeInv' /\ SortInv(t)'
<1>0. PICK k \in Nat, w \in Nat \ {0}, m \in Nat, n \in Nat :
        k = Len(sort.out) /\ w = sort.insize /\ m = sort.nmerges /\ n = length
  BY Facts
<1>1. PICK d \in Nat : d = m * (2 * w)
  BY MergeCount
<1>2. /\ sort.pc = "runs" /\ sort.p # NIL
      /\ Arranges(t) /\ Stable(t) /\ RunsInv(t, k, d)
  BY <1>0, <1>1 DEF StartMerge, SortInv
<1>3. k < n /\ k = d /\ sort.p = t[k + 1] /\ Waiting(t, k + 1) /\ Emitted(t, k)
      /\ RunsIn(t, 1, k, 2 * w) /\ RunsIn(t, k + 1, n, w) /\ 0 < n
  <2>1. /\ sort.p = IF k < length THEN t[k + 1] ELSE NIL
        /\ k = d \/ (k = length /\ k <= d)
        /\ Waiting(t, k + 1) /\ Emitted(t, k)
        /\ RunsIn(t, 1, k, 2 * w) /\ RunsIn(t, k + 1, n, w) /\ 0 < n
    BY <1>0, <1>2 DEF RunsInv
  <2>2. k < n
    BY <1>0, <1>2, <2>1
  <2> QED
    BY <1>0, <2>1, <2>2
<1>a. k < n
  BY <1>3
<1>4. PICK g : g = Walked(sort.p, w)
  OBVIOUS
<1>5. \A i \in 0 .. w : g[i] = IF (k + 1) + i <= n THEN t[(k + 1) + i] ELSE NIL
  <2>a. PICK lo \in Nat \ {0} : lo = k + 1
    OBVIOUS
  <2>b. PICK x : x = sort.p
    OBVIOUS
  <2>1. lo = k + 1 /\ x = sort.p
    BY <2>a, <2>b
  <2>2. At(x, t, lo)
    <3>1. lo <= n
      BY <1>a, <2>1
    <3> QED
      BY <1>0, <1>3, <2>1, <3>1 DEF At
  <2>3. Waiting(t, lo) /\ w \in Nat /\ g = Walked(x, w)
    BY <1>3, <1>4, <2>1
  <2>4. \A i \in 0 .. w : At(g[i], t, lo + i)
    BY <2>2, <2>3, WalkToEnd
  <2> QED
    BY <1>0, <2>1, <2>4 DEF At
(* How many elements the first run has. *)
<1>6. PICK u \in Nat : u = IF w <= n - k THEN w ELSE n - k
  <2>1. PICK v \in Nat : v = n - k
    BY <1>a
  <2>2. CASE w <= v
    BY <2>1, <2>2
  <2>3. CASE ~(w <= v)
    BY <2>1, <2>3
  <2> QED
    BY <2>2, <2>3
<1>7. Cardinality({i \in 0 .. w - 1 : g[i] # NIL}) = u
  <2>1. \A i \in 0 .. w - 1 : g[i] # NIL <=> i < u
    <3> TAKE i \in 0 .. w - 1
    <3>1. (k + 1) + i <= n <=> i < u
      BY <1>6
    <3>2. (k + 1) + i <= n => (k + 1) + i \in 1 .. length
      BY <1>0
    <3>3. (k + 1) + i <= n => t[(k + 1) + i] # NIL
      BY <3>2 DEF NIL
    <3>4. i \in 0 .. w
      OBVIOUS
    <3> QED
      BY <1>5, <3>1, <3>3, <3>4
  <2>2. {i \in 0 .. w - 1 : g[i] # NIL} = 0 .. u - 1
    <3>1. u <= w
      BY <1>3, <1>6
    <3>2. \A i \in 0 .. u - 1 : i \in 0 .. w - 1 /\ i < u
      BY <3>1
    <3>3. \A i \in 0 .. w - 1 : i < u => i \in 0 .. u - 1
      OBVIOUS
    <3> QED
      BY <2>1, <3>2, <3>3
  <2>3. Cardinality(0 .. u - 1) = u
    <3>1. PICK v \in Int : v = u - 1
      OBVIOUS
    <3>2. Cardinality(0 .. v) = IF 0 > v THEN 0 ELSE v - 0 + 1
      BY FS_Interval
    <3> QED
      BY <3>1, <3>2
  <2> QED
    BY <2>2, <2>3
<1>8. PICK a \in Nat, z \in Nat : a = k + u /\ z = a + w
  OBVIOUS
<1>9. /\ k < a /\ a <= n /\ a <= k + w
      /\ a = k + w \/ a = n
      /\ z = d + 2 * w \/ (n <= z /\ z < d + 2 * w)
  BY <1>3, <1>6, <1>8
<1>10. g[w] \in 0 .. MaxLength /\ g[w] = IF a < n THEN t[a + 1] ELSE NIL
  <2>1. g[w] = IF (k + 1) + w <= n THEN t[(k + 1) + w] ELSE NIL
    BY <1>5
  <2>2. /\ (k + 1) + w <= n <=> a < n
        /\ a < n => a + 1 = (k + 1) + w /\ a + 1 \in 1 .. n
    BY <1>a, <1>6, <1>8
  <2>3. g[w] = IF a < n THEN t[a + 1] ELSE NIL
    <3>1. CASE a < n
      BY <2>1, <2>2, <3>1
    <3>2. CASE ~(a < n)
      BY <2>1, <2>2, <3>2
    <3> QED
      BY <3>1, <3>2
  <2>4. a < n => t[a + 1] \in 1 .. length
    BY <1>0, <2>2
  <2> QED
    BY <2>3, <2>4, Facts DEF NIL
<1>11. /\ sort'.pc = "merge" /\ sort'.p = sort.p /\ sort'.q = g[w]
       /\ sort'.psize = u /\ sort'.qsize = w
       /\ sort'.last = sort.last /\ sort'.oldhead = sort.oldhead
       /\ sort'.list = sort.list
       /\ sort'.insize = w /\ sort'.nmerges = m + 1
       /\ sort'.out = sort.out
       /\ chain' = chain /\ sort' \in Locals
  <2>1. PICK x, y : x = g[w] /\ y = m + 1
    OBVIOUS
  <2>2. sort' = [sort EXCEPT !.pc = "merge", !.nmerges = y, !.q = x, !.psize = u, !.qsize = w]
    <3>1. sort' = [sort EXCEPT !.pc = "merge", !.nmerges = @ + 1, !.q = g[w], !.psize = u, !.qsize = w]
      BY <1>0, <1>4, <1>7 DEF StartMerge
    <3>2. sort.nmerges + 1 = y
      BY <1>0, <2>1
    <3> QED
      BY <2>1, <3>1, <3>2
  <2>3. sort \in Locals /\ x \in 0 .. MaxLength /\ y \in Nat
    BY <1>10, <2>1, Facts
  <2>4. chain' = chain
    BY DEF StartMerge
  <2> QED
    BY <1>0, <2>1, <2>2, <2>3, <2>4 DEF Locals
<1>12. TypeInv'
  BY <1>11 DEF TypeInv, Locals
<1>13. Arranges(t)' /\ Stable(t)'
  BY <1>2 DEF Arranges, Stable
<1>14. Emitted(t, k)'
  BY <1>3, <1>11 DEF Emitted
<1>15. TwoRuns(t, k, a, z)'
  <2>1. \A i \in k + 1 .. n : Ahead(t[i])' = IF i < n THEN t[i + 1] ELSE NIL
    BY <1>0, <1>3, <1>11 DEF Waiting, Ahead
  <2>2. \A i \in k + 1 .. a - 1 : i \in k + 1 .. n /\ i < n
    BY <1>9
  <2>3. \A i \in a + 1 .. n : i \in k + 1 .. n
    BY <1>9
  <2>4. \A i \in k + 1 .. a - 1 : Ahead(t[i])' = t[i + 1]
    BY <2>1, <2>2
  <2>5. Waiting(t, a + 1)'
    BY <1>0, <2>1, <2>3 DEF Waiting
  <2> QED
    BY <1>0, <1>3, <1>10, <1>11, <2>4, <2>5 DEF TwoRuns
<1>16. RunsIn(t, z + 1, n, w)
  <2>1. \A i \in z + 1 .. n : i \in k + 1 .. n
    BY <1>8
  <2> QED
    BY <1>3, <2>1 DEF RunsIn
<1>17. Ascending(t, k + 1, a)
  <2> SUFFICES ASSUME NEW i \in k + 1 .. a, NEW j \in k + 1 .. a, i < j
               PROVE  key[t[i]] <= key[t[j]]
    BY DEF Ascending
  <2>1. OneRun(d, w)
    BY <1>1, RunsMeet
  <2>2. i \in Nat \ {0} /\ j \in Nat \ {0} /\ d < i /\ i <= d + w /\ d < j /\ j <= d + w
    BY <1>3, <1>9
  <2>3. SameRun(i, j, w)
    BY <2>1, <2>2 DEF OneRun
  <2>4. i \in k + 1 .. n /\ j \in k + 1 .. n
    BY <1>9
  <2> QED
    BY <1>3, <2>3, <2>4 DEF RunsIn
<1>18. \A i, j \in a + 1 .. n : i < j /\ j <= z => key[t[i]] <= key[t[j]]
  <2> SUFFICES ASSUME NEW i \in a + 1 .. n, NEW j \in a + 1 .. n, i < j, j <= z
               PROVE  key[t[i]] <= key[t[j]]
    OBVIOUS
  <2>1. SecondRun(d, w)
    BY <1>1, RunsMeet
  <2>2. a = d + w /\ z = d + 2 * w
    BY <1>3, <1>8, <1>9
  <2>3. /\ i \in Nat \ {0} /\ j \in Nat \ {0}
        /\ d + w < i /\ i <= d + 2 * w /\ d + w < j /\ j <= d + 2 * w
    BY <2>2
  <2>4. SameRun(i, j, w)
    BY <2>1, <2>3 DEF SecondRun
  <2>5. i \in k + 1 .. n /\ j \in k + 1 .. n
    BY <1>9
  <2> QED
    BY <1>3, <2>4, <2>5 DEF RunsIn
<1>19. \A i \in d + 1 .. k : \A j \in k + 1 .. n : j <= z => key[t[i]] <= key[t[j]]
  BY <1>3
<1>20. MergeInv(t, k, a, z, d)'
  <2>1. d <= k /\ 0 < m + 1
    BY <1>3
  <2> QED
    BY <1>0, <1>3, <1>9, <1>11, <1>14, <1>15, <1>16, <1>17, <1>18, <1>19, <2>1
    DEF MergeInv, RunsIn, Ascending
<1>21. (sort'.nmerges - 1) * (2 * sort'.insize) = d
  <2>1. (m + 1) - 1 = m
    OBVIOUS
  <2> QED
    BY <1>1, <1>11, <2>1
<1>22. Len(sort'.out) = k /\ k + sort'.psize = a /\ a + sort'.qsize = z
  BY <1>0, <1>8, <1>11
<1> QED
  BY <1>11, <1>12, <1>13, <1>20, <1>21, <1>22 DEF SortInv

-----------------------------------------------------------------------------
(* The list as it is given is a pass of runs of one element.               *)
LEMMA SortBegins ==
  ASSUME Init
  PROVE  SInv
<1>1. /\ kind \in {"LL", "DL", "CDL", "HASH"} /\ kind \in Kinds
      /\ MaxLength \in Nat /\ length \in Nat /\ length <= MaxLength /\ length \in 0 .. MaxLength
      /\ key \in [1 .. length -> Keys]
  BY SortAssumption DEF Init
<1> DEFINE t == [i \in 1 .. length |-> i]
           before == IF kind = "HASH" THEN NIL ELSE length
           end == IF kind = "CDL" THEN 1 ELSE NIL
           nx == [e \in Elements |-> IF e < length THEN e + 1 ELSE end]
           pv == [e \in Elements |-> IF e > 1 THEN e - 1 ELSE before]
           hd == IF length = 0 THEN NIL ELSE 1
<1>2. /\ chain = [head |-> hd, next |-> nx, prev |-> pv, tail |-> length]
      /\ sort = [pc |-> IF length = 0 THEN "done" ELSE "pass",
                 list |-> hd, p |-> NIL, q |-> NIL, last |-> NIL, oldhead |-> NIL,
                 psize |-> 0, qsize |-> 0, insize |-> 1, nmerges |-> 0, out |-> t]
  BY DEF Init
<1>3. t \in [1 .. length -> 1 .. length] /\ t \in Seq(Elements) /\ Len(t) = length
  BY <1>1 DEF Elements
<1>4. nx \in [Elements -> 0 .. MaxLength]
  BY <1>1 DEF Elements, NIL
<1>5. pv \in [Elements -> 0 .. MaxLength]
  BY <1>1 DEF Elements, NIL
<1>6. hd \in 0 .. MaxLength /\ NIL \in 0 .. MaxLength
  BY <1>1 DEF NIL
<1>7. \A i \in 1 .. length : t[i] = i
  OBVIOUS
<1>8. \A i \in 1 .. length :
        /\ nx[i] = IF i < length THEN i + 1 ELSE end
        /\ pv[i] = IF i > 1 THEN i - 1 ELSE before
        /\ i < length => i + 1 \in 1 .. length
        /\ i > 1 => i - 1 \in 1 .. length
        /\ 1 \in 1 .. length /\ length \in 1 .. length
  BY <1>1 DEF Elements
<1> HIDE DEF t, nx, pv, hd
<1>9. TypeInv
  <2>1. sort \in Locals
    BY <1>2, <1>3, <1>6 DEF Locals
  <2>2. chain \in RingOf
    BY <1>1, <1>2, <1>4, <1>5, <1>6 DEF RingOf
  <2> QED
    BY <1>1, <2>1, <2>2 DEF TypeInv, Locals, RingOf
<1>10. Arranges(t) /\ Stable(t)
  BY <1>1, <1>3, <1>7 DEF Arranges, Stable
<1>11. Closed(kind, chain, length, t)
  BY <1>1, <1>2, <1>7, <1>8 DEF Closed
<1>12. CASE length = 0
  <2>1. Lists(kind, chain, t)
    BY <1>1, <1>2, <1>3, <1>12 DEF Lists, hd, NIL
  <2>2. DoneInv(t)
    BY <1>2, <1>12, <2>1 DEF DoneInv, Ascending
  <2> QED
    BY <1>2, <1>3, <1>9, <1>10, <1>12, <2>2 DEF SInv, SortInv
<1>13. CASE length # 0
  <2>1. 0 < length /\ 1 \in 1 .. length
    BY <1>1, <1>13
  <2>2. hd = t[1]
    BY <1>7, <1>13, <2>1 DEF hd
  <2>3. RunsIn(t, 1, length, 1)
    <3>1. \A i, j \in 1 .. length : i < j => ~SameRun(i, j, 1)
      BY <1>1 DEF SameRun
    <3> QED
      BY <3>1 DEF RunsIn
  <2>4. PassInv(t)
    BY <1>2, <1>11, <2>1, <2>2, <2>3 DEF PassInv
  <2> QED
    BY <1>2, <1>3, <1>9, <1>10, <1>13, <2>4 DEF SInv, SortInv
<1> QED
  BY <1>12, <1>13

(* One case for each piece of the macro.                                    *)
LEMMA SortGoesOn ==
  ASSUME SInv, [Next]_sortVars
  PROVE  SInv'
<1>1. TypeInv
  BY DEF SInv
<1>2. PICK t \in [1 .. length -> 1 .. length] : SortInv(t)
  BY DEF SInv
<1>3. CASE UNCHANGED sortVars
  <2>1. TypeInv'
    BY <1>1, <1>3 DEF TypeInv, sortVars
  <2>2. Ahead(0)' = Ahead(0) /\ \A x : Ahead(x)' = Ahead(x)
    BY <1>3 DEF Ahead, sortVars
  <2>3. SortInv(t)'
    <3>1. /\ kind' = kind /\ key' = key /\ length' = length /\ sort' = sort /\ chain' = chain
      BY <1>3 DEF sortVars
    <3>2. Arranges(t)' /\ Stable(t)'
      BY <1>2, <3>1 DEF SortInv, Arranges, Stable
    <3>3. sort.pc = "pass" => PassInv(t)'
      BY <1>2, <3>1 DEF SortInv, PassInv, RunsIn, Closed
    <3>4. sort.pc = "done" => DoneInv(t)'
      BY <1>2, <3>1 DEF SortInv, DoneInv, Ascending
    <3>5. ASSUME NEW k, NEW d, RunsInv(t, k, d)
          PROVE  RunsInv(t, k, d)'
      BY <2>2, <3>1, <3>5 DEF RunsInv, Emitted, Waiting, RunsIn
    <3>6. ASSUME NEW k, NEW a, NEW z, NEW d, MergeInv(t, k, a, z, d)
          PROVE  MergeInv(t, k, a, z, d)'
      BY <2>2, <3>1, <3>6 DEF MergeInv, TwoRuns, Emitted, Waiting, RunsIn, Ascending
    <3> QED
      BY <1>2, <3>1, <3>2, <3>3, <3>4, <3>5, <3>6 DEF SortInv
  <2> QED
    BY <1>3, <2>1, <2>3 DEF SInv, sortVars
<1>4. CASE Next
  <2>1. Step /\ UNCHANGED <<kind, key, length>>
    BY <1>4 DEF Next, LL_SORT, DL_SORT, CDL_SORT, HASH_SRT
  <2>2. TypeInv' /\ \E s \in [1 .. length -> 1 .. length] : SortInv(s)'
    <3>1. CASE StartPass
      BY <1>1, <1>2, <2>1, <3>1, PassStarts
    <3>2. CASE StartMerge
      BY <1>1, <1>2, <2>1, <3>2, MergeBegins
    <3>3. CASE MergeP
      BY <1>1, <1>2, <2>1, <3>3, FirstTaken
    <3>4. CASE MergeQ
      BY <1>1, <1>2, <2>1, <3>4, SecondTaken
    <3>5. CASE EndMerge
      BY <1>1, <1>2, <2>1, <3>5, MergeEnds
    <3>6. CASE EndPass
      BY <1>1, <1>2, <2>1, <3>6, PassCompletes
    <3> QED
      BY <2>1, <3>1, <3>2, <3>3, <3>4, <3>5, <3>6 DEF Step
  <2>3. length' = length
    BY <2>1
  <2>4. PICK s \in [1 .. length -> 1 .. length] : SortInv(s)'
    BY <2>2
  <2> QED
    BY <2>2, <2>3, <2>4 DEF SInv
<1> QED
  BY <1>3, <1>4

-----------------------------------------------------------------------------
(* Stable arrangements in runs are sorted runs with ties in the old order.  *)
LEMMA SortedRuns ==
  ASSUME SInv
  PROVE  RunsSorted
<1>1. PICK t \in [1 .. length -> 1 .. length] : SortInv(t)
  BY DEF SInv
<1>2. TypeInv
  BY DEF SInv
<1> SUFFICES ASSUME sort.pc \in {"pass", "done"},
                    NEW i \in 1 .. length, NEW j \in 1 .. length, i < j,
                    sort.pc = "done" \/ SameRun(i, j, sort.insize)
             PROVE  \/ key[sort.out[i]] < key[sort.out[j]]
                    \/ key[sort.out[i]] = key[sort.out[j]] /\ sort.out[i] < sort.out[j]
  BY DEF RunsSorted, SameRun
<1>3. sort.out = t
  BY <1>1 DEF SortInv, PassInv, DoneInv
<1>4. key[t[i]] <= key[t[j]]
  BY <1>1 DEF SortInv, PassInv, DoneInv, RunsIn, Ascending
<1>5. PICK x \in Int, y \in Int : x = key[t[i]] /\ y = key[t[j]]
  BY <1>2, Facts
<1>6. x = y => t[i] < t[j]
  BY <1>1, <1>5 DEF SortInv, Stable
<1>7. x < y \/ x = y
  BY <1>4, <1>5
<1> QED
  BY <1>3, <1>5, <1>6, <1>7

(* Closed chains with their heads are the lists of what was emitted.        *)
LEMMA WholeLists ==
  ASSUME SInv
  PROVE  Relinked
<1>1. PICK t \in [1 .. length -> 1 .. length] : SortInv(t)
  BY DEF SInv
<1>2. TypeInv
  BY DEF SInv
<1>3. sort.pc = "done" => Lists(kind, chain, sort.out)
  BY <1>1 DEF SortInv, DoneInv
<1>4. ASSUME sort.pc = "pass", kind # "HASH"
      PROVE  Lists(kind, chain, sort.out)
  <2>1. sort.out = t /\ Closed(kind, chain, length, t) /\ chain.head = t[1] /\ 0 < length
    BY <1>1, <1>4 DEF SortInv, PassInv
  <2>2. length \in Nat \ {0}
    BY <1>2, <2>1, Facts
  <2> QED
    BY <1>4, <2>1, <2>2, ClosedLists
<1> QED
  BY <1>3, <1>4 DEF Relinked

(* The elements at lo to hi. *)
Part(t, lo, hi) == {t[i] : i \in lo .. hi}
OneToOne(t, n) == t \in [1 .. n -> 1 .. n] /\ \A i, j \in 1 .. n : t[i] = t[j] => i = j

(* There are as many as places. *)
LEMMA PartSize ==
  ASSUME NEW n \in Nat, NEW t, OneToOne(t, n),
         NEW lo \in Nat \ {0}, NEW hi \in Nat, lo <= hi + 1, hi <= n
  PROVE  Cardinality(Part(t, lo, hi)) = hi - lo + 1
<1> DEFINE S == lo .. hi
           T == {t[i] : i \in S}
           f == [i \in S |-> t[i]]
<1>1. \A i \in S : i \in 1 .. n
  OBVIOUS
<1>2. f \in [S -> T] /\ \A i \in S : f[i] = t[i]
  OBVIOUS
<1>3. \A i, j \in S : f[i] = f[j] => i = j
  BY <1>1, <1>2 DEF OneToOne
<1>4. \A y \in T : \E i \in S : f[i] = y
  BY <1>2
<1> HIDE DEF S, T, f
<1>5. f \in Bijection(S, T)
  <2>1. f \in Injection(S, T)
    BY <1>2, <1>3 DEF Injection, IsInjective
  <2>2. f \in Surjection(S, T)
    BY <1>2, <1>4 DEF Surjection
  <2> QED
    BY <2>1, <2>2 DEF Bijection
<1>6. ExistsBijection(S, T)
  BY <1>5 DEF ExistsBijection
<1>7. IsFiniteSet(S) /\ Cardinality(S) = hi - lo + 1
  <2>1. IsFiniteSet(lo .. hi) /\ Cardinality(lo .. hi) = IF lo > hi THEN 0 ELSE hi - lo + 1
    BY FS_Interval
  <2>2. lo > hi => hi - lo + 1 = 0
    OBVIOUS
  <2> QED
    BY <2>1, <2>2 DEF S
<1>8. Cardinality(T) = hi - lo + 1
  BY <1>6, <1>7, FS_Bijection
<1> QED
  BY <1>8 DEF S, T, Part

(* The walks from p and q find what was not emitted, each element once.     *)
LEMMA NothingLost ==
  ASSUME SInv
  PROVE  MergeConserves
<1>1. PICK t \in [1 .. length -> 1 .. length] : SortInv(t)
  BY DEF SInv
<1>2. TypeInv
  BY DEF SInv
<1> SUFFICES ASSUME sort.pc = "merge"
             PROVE  /\ ToSet(sort.out) \cup Path(sort.p, sort.psize) \cup Path(sort.q, length) = 1 .. length
                    /\ Len(sort.out) + Cardinality(Path(sort.p, sort.psize))
                         + Cardinality(Path(sort.q, length)) = length
  BY DEF MergeConserves
<1>3. PICK k \in Nat, a \in Nat, z \in Nat, d \in Nat, c \in Nat, w \in Nat \ {0} :
        Merging(t, k, a, z, d, w, c)
  BY <1>1, <1>2, MergeNames
<1>4. PICK n \in Nat, u \in Nat : n = length /\ u = sort.psize
  BY <1>2, Facts
<1>5. /\ k = Len(sort.out) /\ a = k + u /\ a <= n
      /\ \A i \in 1 .. k : sort.out[i] = t[i]
      /\ \A i \in k + 1 .. a - 1 : Ahead(t[i]) = t[i + 1]
      /\ Waiting(t, a + 1)
      /\ k < a => sort.p = t[k + 1]
      /\ sort.q = IF a < n THEN t[a + 1] ELSE NIL
  BY <1>3, <1>4 DEF Merging, MergeInv, TwoRuns, Emitted
<1>6. /\ t \in [1 .. n -> 1 .. n]
      /\ \A i, j \in 1 .. n : t[i] = t[j] => i = j
      /\ \A x \in 1 .. n : \E i \in 1 .. n : t[i] = x
  BY <1>1, <1>4 DEF SortInv, Arranges
<1>7. k <= a /\ a <= n
  BY <1>5
<1>8. ToSet(sort.out) = Part(t, 1, k)
  <2>1. ToSet(sort.out) = {sort.out[i] : i \in 1 .. k}
    <3>1. DOMAIN sort.out = 1 .. k
      <4>1. sort.out \in Seq(Elements)
        BY <1>2, Facts DEF Locals
      <4> QED
        BY <1>5, <4>1, LenProperties
    <3> QED
      BY <3>1 DEF ToSet
  <2> QED
    BY <1>5, <2>1 DEF Part
<1>9. Path(sort.p, u) = Part(t, k + 1, a)
  <2>1. CASE u = 0
    <3>1. 0 .. u - 1 = {} /\ k + 1 .. a = {}
      BY <1>5, <2>1
    <3> QED
      BY <3>1 DEF Path, Part
  <2>2. CASE u # 0
    <3>1. k < a /\ k + 1 <= a
      BY <1>5, <2>2
    <3>b. PICK lo \in Nat \ {0} : lo = k + 1
      OBVIOUS
    <3>c. PICK g : g = Walked(t[lo], u)
      OBVIOUS
    <3>2. lo = k + 1 /\ g = Walked(t[lo], u)
      BY <3>b, <3>c
    <3>3. lo <= a /\ a <= length /\ Linked(t, lo, a)
      BY <1>4, <1>5, <3>1, <3>2 DEF Linked
    <3>4. \A i \in 0 .. u : lo + i <= a => g[i] = t[lo + i]
      <4>1. g = Walked(t[lo], u) /\ TypeInv
        BY <1>2, <3>2
      <4>2. a \in 1 .. n /\ lo \in 1 .. a
        BY <1>7, <3>1, <3>2
      <4>3. a \in 1 .. length /\ Linked(t, lo, a)
        BY <1>4, <3>3, <4>2
      <4>4. Finds(g, u, t, lo, a)
        BY <4>1, <4>2, <4>3, WalkWithin
      <4> QED
        BY <4>4 DEF Finds
    <3>5. \A i \in 0 .. u - 1 : i \in 0 .. u /\ lo + i <= a /\ lo + i \in lo .. a /\ lo + i \in 1 .. n
      BY <1>5, <3>2
    <3>6. \A i \in 0 .. u - 1 : g[i] = t[lo + i] /\ g[i] # NIL
      <4> TAKE i \in 0 .. u - 1
      <4>1. g[i] = t[lo + i] /\ lo + i \in 1 .. n
        BY <3>4, <3>5
      <4>2. t[lo + i] \in 1 .. n
        BY <1>6, <4>1
      <4> QED
        BY <4>1, <4>2 DEF NIL
    <3>a. a = k + u /\ lo = k + 1
      BY <1>5, <3>2
    <3>7. \A i \in lo .. a : \E h \in 0 .. u - 1 : lo + h = i
      <4> TAKE i \in lo .. a
      <4>1. i - lo \in 0 .. u - 1 /\ lo + (i - lo) = i
        BY <3>a
      <4> QED
        BY <4>1
    <3>8. Path(sort.p, u) = {g[i] : i \in 0 .. u - 1} \ {NIL}
      BY <1>5, <3>1, <3>2 DEF Path
    <3>9. \A y : y \in {g[i] : i \in 0 .. u - 1} \ {NIL} => y \in Part(t, lo, a)
      BY <3>5, <3>6 DEF Part
    <3>10. \A y : y \in Part(t, lo, a) => y \in {g[i] : i \in 0 .. u - 1} \ {NIL}
      <4> SUFFICES ASSUME NEW i \in lo .. a
                   PROVE  t[i] \in {g[h] : h \in 0 .. u - 1} \ {NIL}
        BY DEF Part
      <4>1. PICK h \in 0 .. u - 1 : lo + h = i
        BY <3>7
      <4> QED
        BY <3>6, <4>1
    <3> QED
      BY <3>2, <3>8, <3>9, <3>10
  <2> QED
    BY <2>1, <2>2
<1>10. Path(sort.q, n) = Part(t, a + 1, n)
  <2>a. PICK lo \in Nat \ {0} : lo = a + 1
    OBVIOUS
  <2>b. PICK x, g : x = sort.q /\ g = Walked(x, n)
    OBVIOUS
  <2>1. lo = a + 1 /\ x = sort.q /\ g = Walked(x, n)
    BY <2>a, <2>b
  <2>2. At(x, t, lo) /\ Waiting(t, lo)
    <3>1. lo <= n <=> a < n
      BY <2>1
    <3> QED
      BY <1>4, <1>5, <2>1, <3>1 DEF At
  <2>3. \A i \in 0 .. n : At(g[i], t, lo + i)
    BY <1>2, <2>1, <2>2, WalkToEnd
  <2>4. \A i \in 0 .. n - 1 : g[i] = IF lo + i <= n THEN t[lo + i] ELSE NIL
    BY <1>4, <2>3 DEF At
  <2>5. \A i \in 0 .. n - 1 : lo + i <= n => lo + i \in lo .. n /\ t[lo + i] # NIL
    <3> SUFFICES ASSUME NEW i \in 0 .. n - 1, lo + i <= n
                 PROVE  lo + i \in lo .. n /\ t[lo + i] # NIL
      OBVIOUS
    <3>1. lo + i \in lo .. n /\ lo + i \in 1 .. n
      OBVIOUS
    <3>2. t[lo + i] \in 1 .. n
      BY <1>6, <3>1
    <3> QED
      BY <3>1, <3>2 DEF NIL
  <2>6. \A i \in lo .. n : i - lo \in 0 .. n - 1 /\ lo + (i - lo) = i /\ i <= n
    BY <2>1
  <2>7. Path(x, n) = {g[i] : i \in 0 .. n - 1} \ {NIL}
    BY <2>1 DEF Path
  <2>8. \A y : y \in {g[i] : i \in 0 .. n - 1} \ {NIL} => y \in Part(t, lo, n)
    BY <2>4, <2>5 DEF Part
  <2>9. \A y : y \in Part(t, lo, n) => y \in {g[i] : i \in 0 .. n - 1} \ {NIL}
    <3> SUFFICES ASSUME NEW i \in lo .. n
                 PROVE  t[i] \in {g[h] : h \in 0 .. n - 1} \ {NIL}
      BY DEF Part
    <3>1. PICK h \in 0 .. n - 1 : lo + h = i /\ i <= n
      BY <2>6
    <3> QED
      BY <2>4, <2>5, <3>1
  <2> QED
    BY <2>1, <2>7, <2>8, <2>9
<1>11. Part(t, 1, k) \cup Part(t, k + 1, a) \cup Part(t, a + 1, n) = 1 .. n
  <2>1. \A i \in 1 .. n : i \in 1 .. k \/ i \in k + 1 .. a \/ i \in a + 1 .. n
    OBVIOUS
  <2>2. /\ \A i \in 1 .. k : i \in 1 .. n
        /\ \A i \in k + 1 .. a : i \in 1 .. n
        /\ \A i \in a + 1 .. n : i \in 1 .. n
    BY <1>7
  <2>3. \A x \in 1 .. n : x \in Part(t, 1, k) \/ x \in Part(t, k + 1, a) \/ x \in Part(t, a + 1, n)
    <3> TAKE x \in 1 .. n
    <3>1. PICK i \in 1 .. n : t[i] = x
      BY <1>6
    <3>2. i \in 1 .. k \/ i \in k + 1 .. a \/ i \in a + 1 .. n
      BY <2>1
    <3> QED
      BY <3>1, <3>2 DEF Part
  <2>4. \A i \in 1 .. n : t[i] \in 1 .. n
    BY <1>6
  <2>5. Part(t, 1, k) \subseteq 1 .. n /\ Part(t, k + 1, a) \subseteq 1 .. n /\ Part(t, a + 1, n) \subseteq 1 .. n
    BY <2>2, <2>4 DEF Part
  <2> HIDE DEF Part
  <2> QED
    BY <2>3, <2>5
<1>15. OneToOne(t, n)
  BY <1>6 DEF OneToOne
<1>12. Cardinality(Part(t, k + 1, a)) = a - k
  <2>1. PICK lo \in Nat \ {0} : lo = k + 1
    OBVIOUS
  <2>2. lo <= a + 1 /\ a <= n
    BY <1>7, <2>1
  <2>3. Cardinality(Part(t, lo, a)) = a - lo + 1
    BY <1>15, <2>2, PartSize
  <2>4. a - lo + 1 = a - k
    BY <2>1
  <2> QED
    BY <2>1, <2>3, <2>4
<1>13. Cardinality(Part(t, a + 1, n)) = n - a
  <2>1. PICK lo \in Nat \ {0} : lo = a + 1
    OBVIOUS
  <2>2. lo <= n + 1 /\ n <= n
    BY <1>7, <2>1
  <2>3. Cardinality(Part(t, lo, n)) = n - lo + 1
    BY <1>15, <2>2, PartSize
  <2>4. n - lo + 1 = n - a
    BY <2>1
  <2> QED
    BY <2>1, <2>3, <2>4
<1>14. k + (a - k) + (n - a) = n
  OBVIOUS
<1> QED
  BY <1>4, <1>5, <1>8, <1>9, <1>10, <1>11, <1>12, <1>13, <1>14

-----------------------------------------------------------------------------
(* SInv holds in every state of the sort. *)
THEOREM SortInvariant == Spec => []SInv
<1>1. Init => SInv
  BY SortBegins
<1>2. SInv /\ [Next]_sortVars => SInv'
  BY SortGoesOn
<1> QED
  BY <1>1, <1>2, PTL DEF Spec

(* No list of any length and no keys make the sort lose or duplicate an    *)
(* element while _ls_p, _ls_q and _ls_tail are in the middle of a merge.   *)
THEOREM MergesConserve == Spec => []MergeConserves
<1>1. SInv => MergeConserves
  BY NothingLost
<1> QED
  BY <1>1, SortInvariant, PTL

(* After each pass the runs of _ls_insize are sorted and keep the order of *)
(* equal elements, and after the last pass the whole list is.              *)
THEOREM RunsAreSorted == Spec => []RunsSorted
<1>1. SInv => RunsSorted
  BY SortedRuns
<1> QED
  BY <1>1, SortInvariant, PTL

(* The four macros leave a list behind, forwards and backwards, with the   *)
(* ring, the head's prev and the hash table's tail that its kind demands.  *)
THEOREM SortsRelink == Spec => []Relinked
<1>1. SInv => Relinked
  BY WholeLists
<1> QED
  BY <1>1, SortInvariant, PTL
=============================================================================
