------------------------------ MODULE SortState ------------------------------
(***************************************************************************)
(* A chain on which MergeSort is at work, the walks on it, and what must   *)
(* be true of it in the middle of the sort, after each pass and at the end.*)
(***************************************************************************)
EXTENDS Chains, SequencesExt, FiniteSets

CONSTANTS
  Kinds,       (* of the chains                                             *)
  MaxLength,   (* elements in the longest list                              *)
  Keys         (* a set of integers                                         *)

ASSUME SortAssumption ==
  /\ Kinds \subseteq {"LL", "DL", "CDL", "HASH"}
  /\ MaxLength \in Nat /\ Keys \subseteq Int

VARIABLES
  kind, key,   (* the macro; what cmp compares                              *)
  chain,       (* the list: head, next, prev, and tail of the hash table    *)
  sort,        (* the locals of the macro; out: history, what was emitted   *)
  length       (* elements of the list                                      *)

(* Mutant: the end of the ring is not told. *)
AheadRound(x) == chain.next[x]

(* The element behind x, NIL at the end of the list as it was before the    *)
(* pass: CDL_SORT knows the end of its ring by the old head.                *)
Ahead(x) == IF kind = "CDL" /\ chain.next[x] = sort.oldhead THEN NIL ELSE chain.next[x]

(* Where a walk of at most n steps from x stands after each of them. *)
Walked(x, n) ==
  LET w[i \in 0 .. n] == IF i = 0 THEN x ELSE IF w[i - 1] = NIL THEN NIL ELSE Ahead(w[i - 1])
  IN  w

(* Elements on the way from x, at most n of them. *)
Path(x, n) == {Walked(x, n)[i] : i \in 0 .. n - 1} \ {NIL}

(* In the middle of the relinking no element is lost and none is in two     *)
(* places: emitted, in the first run, or behind it.                         *)
MergeConserves ==
  sort.pc = "merge" =>
    LET first == Path(sort.p, sort.psize)
        rest  == Path(sort.q, length)
    IN  /\ ToSet(sort.out) \cup first \cup rest = 1 .. length
        /\ Len(sort.out) + Cardinality(first) + Cardinality(rest) = length

(* Every pass leaves runs of twice the length, each sorted and with equal   *)
(* elements in their old order, and after the last pass all is one run.     *)
RunsSorted ==
  LET Before(a, b) == key[a] < key[b] \/ (key[a] = key[b] /\ a < b)
      SameRun(i, j) == sort.pc = "done" \/ (i - 1) \div sort.insize = (j - 1) \div sort.insize
  IN  sort.pc \in {"pass", "done"} =>
        \A i, j \in 1 .. length : i < j /\ SameRun(i, j) => Before(sort.out[i], sort.out[j])

(* Between the passes and at the end the pointers are the sorted list, its  *)
(* back pointers, ring and tail included.                                   *)
Relinked ==
  /\ sort.pc = "done" => Lists(kind, chain, sort.out)
  /\ sort.pc = "pass" /\ kind # "HASH" => Lists(kind, chain, sort.out)
=============================================================================
