-------------------------------- MODULE Token --------------------------------
(***************************************************************************)
(* The token creatTheToken (CoAPpthread.c:70-88) makes of its counter: the *)
(* bytes of the counter, the lowest first, until nothing is left of it.    *)
(***************************************************************************)
EXTENDS Integers, Sequences

CONSTANTS Base,      (* values of a byte                                   *)
          Bytes      (* bytes of the counter                               *)

VARIABLES token,     (* the static counter of creatTheToken                *)
          issued     (* history: the tokens of the requests, in order      *)

ASSUME TokenAssumption == Base \in Nat \ {0, 1} /\ Bytes \in Nat

Powers[n \in 0 .. Bytes] == IF n = 0 THEN 1 ELSE Base * Powers[n - 1]

(* The counter wraps here. *)
Capacity == Powers[Bytes]

(* me after i rounds of the loop, me = me >> 8. *)
Rest(me, i) == me \div Powers[i]

Byte(me, i) == Rest(me, i - 1) % Base

(* The rounds of the loop. *)
Significant(me) ==
  CHOOSE n \in 0 .. Bytes : Rest(me, n) = 0 /\ \A m \in 0 .. n - 1 : Rest(me, m) # 0

(* Mutant: the loop ends at the first byte that is zero. *)
TokenOfTruncated(me) ==
  LET stops == {i \in 1 .. Significant(me) : Byte(me, i) = 0}
      n == IF stops = {} THEN Significant(me) ELSE (CHOOSE i \in stops : \A j \in stops : i <= j) - 1
  IN  [i \in 1 .. n |-> Byte(me, i)]

TokenOf(me) == [i \in 1 .. Significant(me) |-> Byte(me, i)]

(* A token is not used again before the counter went round: a token is the  *)
(* significant bytes of the counter, zero bytes inside included, and the    *)
(* empty one when it wraps.                                                 *)
TokensDistinct ==
  \A i, j \in 1 .. Len(issued) :
    i < j /\ j - i < Capacity => issued[i] # issued[j]
=============================================================================
