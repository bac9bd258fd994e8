------------------------------- MODULE UtHash --------------------------------
(***************************************************************************)
(* The hash table of uthash.h: items chained in the order they were added, *)
(* and in buckets chosen by the low bits of their hash.  A bucket that     *)
(* gets too long doubles the number of buckets; when that twice in a row   *)
(* leaves most items badly placed the table stops growing.  Keys differ,   *)
(* as uthash demands, so that an item stands for its key.                  *)
(***************************************************************************)
EXTENDS Chains, SequencesExt, FiniteSets

CONSTANTS
  Items,           (* a set of positive integers                            *)
  HashValues,      (* what the hash function may yield                      *)
  InitialBuckets,  (* HASH_INITIAL_NUM_BUCKETS, a power of two              *)
  Thresh,          (* HASH_BKT_CAPACITY_THRESH                              *)
  BloomBits,       (* bits of the filter HASH_BLOOM adds to the table       *)
  MaxBuckets       (* bound: no item is added to a table that has grown so  *)

VARIABLES
  app,         (* the chain in application order: head, next, prev, tail    *)
  hashv,       (* the hash of each item's key                               *)
  tbl,         (* the table; buckets hold head, count, expand_mult          *)
  added        (* history: the items in the order they were added           *)

hashVars == <<app, hashv, tbl, added>>

ASSUME HashAssumption ==
  /\ Items \subseteq Nat \ {0} /\ IsFiniteSet(Items)
  /\ HashValues \subseteq Nat
  /\ InitialBuckets \in Nat \ {0}

EmptyBuckets(n) == [b \in 0 .. n - 1 |-> [head |-> NIL, count |-> 0, mult |-> 0]]

(* The handles of items that are in no table.  Their pointers are NIL here: *)
(* what a deleted item's pointers hold is never read, as adding it again    *)
(* writes all four.                                                         *)
Unset == [i \in Items |-> NIL]
NoItems == [head |-> NIL, next |-> Unset, prev |-> Unset, tail |-> NIL]

(* next and prev are hh_next and hh_prev of the handles. *)
HASH_MAKE_TABLE ==
  [num |-> InitialBuckets, buckets |-> EmptyBuckets(InitialBuckets),
   next |-> Unset, prev |-> Unset, items |-> 0,
   ideal |-> 0, nonideal |-> 0, ineff |-> 0, noexpand |-> FALSE, bloom |-> {}]

HashInit ==
  /\ hashv \in [Items -> HashValues]
  /\ app = NoItems
  /\ tbl = HASH_MAKE_TABLE
  /\ added = <<>>

(* bkt = ((hashv) & ((num_bkts) - 1)) *)
ToBkt(i, num) == hashv[i] % num

-----------------------------------------------------------------------------
(* The first steps of HASH_ADD_TO_BKT, and those of an item that moves in   *)
(* HASH_EXPAND_BUCKETS: the item becomes the head of the bucket.            *)
PushFront(t, b, i) ==
  LET bkt == t.buckets[b]
      old == bkt.head
  IN  [t EXCEPT !.buckets[b] = [bkt EXCEPT !.head = i, !.count = bkt.count + 1],
                !.next[i] = old,
                !.prev = IF old = NIL THEN [@ EXCEPT ![i] = NIL]
                         ELSE [@ EXCEPT ![i] = NIL, ![old] = i]]

(* The items from the first one on, up to one without a next one. *)
ItemsFrom(first, next) ==
  LET N == Cardinality(Items)
      w[k \in 0 .. N] ==
        IF k = 0 THEN first ELSE IF w[k - 1] = NIL THEN NIL ELSE next[w[k - 1]]
  IN  [k \in 1 .. Cardinality({j \in 0 .. N : w[j] # NIL}) |-> w[k - 1]]

(* The items of a bucket. *)
Bucket(t, b) == ItemsFrom(t.buckets[b].head, t.next)

(* All items in the order of the buckets. *)
BucketOrder(t) ==
  LET order[b \in 0 .. t.num] == IF b = 0 THEN <<>> ELSE order[b - 1] \o Bucket(t, b - 1)
  IN  order[t.num]

(* Mutant: the items are placed by the old number of buckets. *)
DoubledStale(t) == t.num

(* The number of buckets the items are placed by. *)
Doubled(t) == 2 * t.num

(* An item moves to its new bucket; beyond the ideal length it counts as    *)
(* badly placed and the bucket tolerates longer chains.                     *)
Rehash(t, i, b) ==
  LET u == PushFront(t, b, i)
      n == u.buckets[b].count
  IN  IF n > t.ideal
        THEN [u EXCEPT !.nonideal = @ + 1, !.buckets[b].mult = n \div t.ideal]
        ELSE u

(* Mutant: a doubling counts as ineffective if it leaves any item badly     *)
(* placed.                                                                  *)
IneffectiveAny(t) == t.nonideal > 0

(* tbl->nonideal_items > (tbl->num_items >> 1) *)
Ineffective(t) == t.nonideal > t.items \div 2

(* The new buckets, still empty. *)
Expanding(t) ==
  [t EXCEPT !.buckets = EmptyBuckets(2 * t.num), !.nonideal = 0,
            !.ideal = t.items \div (2 * t.num)
                      + (IF t.items % (2 * t.num) # 0 THEN 1 ELSE 0)]

(* u with the items of order placed in the first n of its buckets. *)
Moved(u, order, n) ==
  LET m[k \in 0 .. Len(order)] ==
        IF k = 0 THEN u ELSE Rehash(m[k - 1], order[k], ToBkt(order[k], n))
  IN  m[Len(order)]

HASH_EXPAND_BUCKETS(t) ==
  LET moved  == Moved(Expanding(t), BucketOrder(t), Doubled(t))
      ineff  == IF Ineffective(moved) THEN t.ineff + 1 ELSE 0
  IN  [moved EXCEPT !.num = 2 * t.num, !.ineff = ineff, !.noexpand = @ \/ ineff > 1]

HASH_ADD_TO_BKT(t, b, i) ==
  LET u == PushFront(t, b, i)
  IN  IF u.buckets[b].count >= (u.buckets[b].mult + 1) * Thresh /\ ~u.noexpand
        THEN HASH_EXPAND_BUCKETS(u)
        ELSE u

(* The pointer of i's neighbour x, if there is one, passes i by. *)
Relink(f, x, y, i) == [e \in Items |-> IF e = i THEN NIL ELSE IF e = x THEN y ELSE f[e]]

HASH_DEL_IN_BKT(t, b, i) ==
  LET before == t.prev[i]
      after  == t.next[i]
      bkt    == t.buckets[b]
  IN  [t EXCEPT !.buckets[b] = [bkt EXCEPT !.count = bkt.count - 1,
                                           !.head = IF bkt.head = i THEN after ELSE bkt.head],
                !.next = Relink(@, before, after, i),
                !.prev = Relink(@, after, before, i)]

(* The bit of i's hash in the filter. *)
BloomIndex(i) == hashv[i] % BloomBits

(* Deleting an item leaves its bit set: another one may share it. *)
HASH_BLOOM_ADD(t, i) == [t EXCEPT !.bloom = @ \cup {BloomIndex(i)}]
HASH_BLOOM_TEST(t, i) == BloomIndex(i) \in t.bloom

-----------------------------------------------------------------------------
HASH_ADD_KEYPTR(i) ==
  /\ i \notin ToSet(added) /\ tbl.num < MaxBuckets
  /\ app' = IF app.head = NIL
              THEN [head |-> i, next |-> [app.next EXCEPT ![i] = NIL],
                    prev |-> [app.prev EXCEPT ![i] = NIL], tail |-> i]
              ELSE [app EXCEPT !.next[i] = NIL, !.next[app.tail] = i,
                               !.prev[i] = app.tail, !.tail = i]
  /\ LET t == IF app.head = NIL THEN HASH_MAKE_TABLE ELSE tbl
     IN  tbl' = HASH_BLOOM_ADD(HASH_ADD_TO_BKT([t EXCEPT !.items = @ + 1], ToBkt(i, t.num), i), i)
  /\ added' = Append(added, i)
  /\ UNCHANGED hashv

(* Mutant: the tail still names the deleted item. *)
TailAfterStale(i) == app.tail

TailAfter(i) == IF app.tail = i THEN app.prev[i] ELSE app.tail

(* The last item takes the table with it. *)
HASH_DELETE(i) ==
  LET before == app.prev[i]
      after  == app.next[i]
  IN  /\ \E k \in 1 .. Len(added) : added[k] = i /\ added' = RemoveAt(added, k)
      /\ IF before = NIL /\ after = NIL
           THEN /\ app' = NoItems
                /\ tbl' = HASH_MAKE_TABLE
           ELSE /\ app' = [app EXCEPT
                     !.tail = TailAfter(i),
                     !.head = IF before = NIL THEN after ELSE @,
                     !.next = Relink(@, before, after, i),
                     !.prev = Relink(@, after, before, i)]
                /\ tbl' = [HASH_DEL_IN_BKT(tbl, ToBkt(i, tbl.num), i) EXCEPT !.items = @ - 1]
      /\ UNCHANGED hashv

HASH_CLEAR ==
  /\ app.head # NIL
  /\ app' = NoItems
  /\ tbl' = HASH_MAKE_TABLE
  /\ added' = <<>>
  /\ UNCHANGED hashv

(* HASH_FIND and HASH_FIND_IN_BKT: the item with the key of i, or NIL. *)
HASH_FIND(i) ==
  IF /\ app.head # NIL /\ HASH_BLOOM_TEST(tbl, i)
     /\ i \in ToSet(Bucket(tbl, ToBkt(i, tbl.num)))
    THEN i ELSE NIL

HASH_COUNT == IF app.head = NIL THEN 0 ELSE tbl.items

HashNext ==
  \/ \E i \in Items : HASH_ADD_KEYPTR(i) \/ HASH_DELETE(i)
  \/ HASH_CLEAR

HashSpec == HashInit /\ [][HashNext]_hashVars

-----------------------------------------------------------------------------
(* The items HASH_ITER visits, in application order. *)
HASH_ITER == ItemsFrom(app.head, app.next)

(* Nothing to complain of in the buckets or in application order. *)
HASH_FSCK ==
  LET Backs(s, p) == \A k \in 1 .. Len(s) : p[s[k]] = (IF k = 1 THEN NIL ELSE s[k - 1])
  IN  app.head # NIL =>
        /\ \A b \in 0 .. tbl.num - 1 :
             LET s == Bucket(tbl, b) IN Backs(s, tbl.prev) /\ tbl.buckets[b].count = Len(s)
        /\ Len(BucketOrder(tbl)) = tbl.items
        /\ Backs(HASH_ITER, app.prev) /\ Len(HASH_ITER) = tbl.items

-----------------------------------------------------------------------------
(* What HASH_FSCK asserts after every call, and that the chains are the     *)
(* items that are in the table, in the order in which they were added.      *)
TableSound ==
  /\ HASH_FSCK
  /\ Lists("HASH", app, added)
  /\ HASH_COUNT = Len(added)

(* A key is found exactly while it is in the table, across every growth.    *)
FindExact == \A i \in Items : HASH_FIND(i) = (IF i \in ToSet(added) THEN i ELSE NIL)

(* The items within the ideal length of their chain. *)
WellPlaced ==
  {i \in ToSet(added) : LET s == Bucket(tbl, ToBkt(i, tbl.num))
                        IN  \E k \in 1 .. Len(s) : k <= tbl.ideal /\ s[k] = i}

(* Growth stops only where it does not help, and then for good: a table     *)
(* that gives up doubling has most of its items beyond the ideal length of  *)
(* their chains, and never doubles again while it lives.                    *)
GrowthJustified ==
  [][ /\ tbl'.noexpand /\ ~tbl.noexpand => 2 * Cardinality(WellPlaced') < Len(added')
      /\ tbl.noexpand /\ app'.head # NIL => tbl'.num = tbl.num
    ]_hashVars
=============================================================================
