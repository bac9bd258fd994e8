------------------------------ MODULE MergeSort ------------------------------
(***************************************************************************)
(* The bottom-up mergesort of utlist.h and uthash.h: LL_SORT, DL_SORT,     *)
(* CDL_SORT and HASH_SRT are the same loop on four kinds of chain and      *)
(* differ in where a chain ends and in which back pointers they keep.      *)
(* Element i is the i-th of the list to be sorted; key gives its place in  *)
(* the order of cmp.                                                       *)
(*                                                                         *)
(*   "pass"   at the head of while (_ls_looping)                           *)
(*   "runs"   at the head of while (_ls_p)                                 *)
(*   "merge"  at the head of the loop that merges two runs                 *)
(*   "done"   behind the macro                                             *)
(***************************************************************************)
EXTENDS SortState

Elements == 1 .. MaxLength

sortVars == <<kind, key, chain, sort, length>>

(* A list of any length and any keys, linked as its kind demands. *)
Init ==
  /\ kind \in Kinds /\ length \in 0 .. MaxLength
  /\ key \in [1 .. length -> Keys]
  /\ LET Wrap(e) == IF kind = "CDL" THEN e ELSE NIL
         Before  == IF kind = "HASH" THEN NIL ELSE length
     IN  chain = [head |-> IF length = 0 THEN NIL ELSE 1,
                  next |-> [e \in Elements |-> IF e < length THEN e + 1 ELSE Wrap(1)],
                  prev |-> [e \in Elements |-> IF e > 1 THEN e - 1 ELSE Before],
                  tail |-> length]
  /\ sort = [pc |-> IF length = 0 THEN "done" ELSE "pass",
             list |-> chain.head, p |-> NIL, q |-> NIL, last |-> NIL, oldhead |-> NIL,
             psize |-> 0, qsize |-> 0, insize |-> 1, nmerges |-> 0,
             out |-> [i \in 1 .. length |-> i]]

StartPass ==
  /\ sort.pc = "pass"
  /\ sort' = [sort EXCEPT !.pc = "runs", !.p = sort.list, !.oldhead = sort.list,
                          !.list = NIL, !.last = NIL, !.nmerges = 0, !.out = <<>>]
  /\ UNCHANGED chain

(* p is the first run, psize long, and q begins the second. *)
StartMerge ==
  /\ sort.pc = "runs" /\ sort.p # NIL
  /\ LET w == Walked(sort.p, sort.insize)
     IN  sort' = [sort EXCEPT !.pc = "merge", !.nmerges = @ + 1, !.q = w[sort.insize],
                    !.psize = Cardinality({i \in 0 .. sort.insize - 1 : w[i] # NIL}),
                    !.qsize = sort.insize]
  /\ UNCHANGED chain

QLeft == sort.qsize > 0 /\ sort.q # NIL

(* Mutant: of two equal elements the later one is taken first. *)
TakesPUnstable == sort.psize > 0 /\ (QLeft => key[sort.p] < key[sort.q])

(* The next element is taken from p: an equal one before that of q. *)
TakesP == sort.psize > 0 /\ (QLeft => key[sort.p] <= key[sort.q])

(* e is appended to the sorted part; its back pointer follows. *)
Emit(e) ==
  /\ chain' = [chain EXCEPT !.next = IF sort.last = NIL THEN @ ELSE [@ EXCEPT ![sort.last] = e],
                            !.prev = IF kind = "LL" THEN @ ELSE [@ EXCEPT ![e] = sort.last]]

MergeP ==
  /\ sort.pc = "merge" /\ TakesP
  /\ Emit(sort.p)
  /\ sort' = [sort EXCEPT !.p = Ahead(sort.p), !.psize = @ - 1, !.last = sort.p,
                          !.list = IF sort.last = NIL THEN sort.p ELSE @,
                          !.out = Append(@, sort.p)]

MergeQ ==
  /\ sort.pc = "merge" /\ QLeft /\ ~TakesP
  /\ Emit(sort.q)
  /\ sort' = [sort EXCEPT !.q = Ahead(sort.q), !.qsize = @ - 1, !.last = sort.q,
                          !.list = IF sort.last = NIL THEN sort.q ELSE @,
                          !.out = Append(@, sort.q)]

EndMerge ==
  /\ sort.pc = "merge" /\ sort.psize = 0 /\ ~QLeft
  /\ sort' = [sort EXCEPT !.pc = "runs", !.p = sort.q]
  /\ UNCHANGED chain

(* Mutant: the runs do not grow. *)
LongerNot == sort.insize

(* _ls_insize *= 2; *)
Longer == sort.insize * 2

(* Mutant: the head's prev is left at what the merge wrote. *)
BackedNot == chain.prev

(* list->prev = tail, which the list without a ring in uthash.h leaves out. *)
Backed ==
  IF kind \in {"DL", "CDL"} THEN [chain.prev EXCEPT ![sort.list] = sort.last] ELSE chain.prev

(* The chain is closed; a pass of one merge was the last.  The hash table's *)
(* head and tail are assigned only then.                                    *)
EndPass ==
  /\ sort.pc = "runs" /\ sort.p = NIL
  /\ LET over   == sort.nmerges <= 1
         closed == [chain.next EXCEPT ![sort.last] = IF kind = "CDL" THEN sort.list ELSE NIL]
     IN  /\ chain' = [head |-> IF kind # "HASH" \/ over THEN sort.list ELSE chain.head,
                      next |-> closed, prev |-> Backed,
                      tail |-> IF kind = "HASH" /\ over THEN sort.last ELSE chain.tail]
         /\ sort' = [sort EXCEPT !.pc = IF over THEN "done" ELSE "pass", !.insize = Longer]

Step == StartPass \/ StartMerge \/ MergeP \/ MergeQ \/ EndMerge \/ EndPass

LL_SORT   == kind = "LL" /\ Step /\ UNCHANGED <<kind, key, length>>
DL_SORT   == kind = "DL" /\ Step /\ UNCHANGED <<kind, key, length>>
CDL_SORT  == kind = "CDL" /\ Step /\ UNCHANGED <<kind, key, length>>
HASH_SRT  == kind = "HASH" /\ Step /\ UNCHANGED <<kind, key, length>>

Next == LL_SORT \/ DL_SORT \/ CDL_SORT \/ HASH_SRT

Spec == Init /\ [][Next]_sortVars

-----------------------------------------------------------------------------
(* The sort ends. *)
SortEnds == <>(sort.pc = "done")
=============================================================================
