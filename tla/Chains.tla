-------------------------------- MODULE Chains --------------------------------
(***************************************************************************)
(* What it means for the pointers of utlist.h and uthash.h to be a list:   *)
(* "LL" single, "DL" double with the head's prev at the last element,      *)
(* "CDL" a ring, "HASH" double and open with a tail in the table.  A chain *)
(* is a record of head, next, prev and tail; NIL is 0.                     *)
(***************************************************************************)
EXTENDS Integers, Sequences

NIL == 0

(* The chain c of a kind lists the elements of the sequence s. *)
Lists(k, c, s) ==
  LET n == Len(s)
      Succ(i) == IF i < n THEN s[i + 1] ELSE IF k = "CDL" THEN s[1] ELSE NIL
      Pred(i) == IF i > 1 THEN s[i - 1] ELSE IF k = "HASH" THEN NIL ELSE s[n]
  IN  /\ c.head = (IF n = 0 THEN NIL ELSE s[1])
      /\ \A i \in 1 .. n : c.next[s[i]] = Succ(i)
      /\ k # "LL" => \A i \in 1 .. n : c.prev[s[i]] = Pred(i)
      /\ k = "HASH" => c.tail = (IF n = 0 THEN NIL ELSE s[n])
=============================================================================
