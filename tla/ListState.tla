------------------------------ MODULE ListState ------------------------------
(***************************************************************************)
(* A linked list of UtList with a FOREACH_SAFE loop over it, and what must *)
(* be true of them after every call.                                       *)
(***************************************************************************)
EXTENDS Chains

CONSTANT Members     (* the elements                                       *)

(* None of them is the null pointer. *)
ASSUME MembersAssumption == NIL \notin Members

VARIABLES
  ring,        (* head, next and prev                                       *)
  style,       (* "LL", "DL" or "CDL"                                       *)
  loop,        (* el, tmp and last of a FOREACH_SAFE; on: it is under way   *)
  listed,      (* history: the list as a sequence                           *)
  due          (* history: the elements the loop has still to visit         *)

(* After any sequence of calls, on elements with stale pointers too, the    *)
(* chain is the list: both directions, and the head's prev at the last one. *)
DoubleLinked == Lists(style, ring, listed)

(* A FOREACH_SAFE loop visits what was in the list when it began, once and  *)
(* in order, whichever of the elements its body deletes.                    *)
LoopExact == loop.on => loop.el = (IF due = <<>> THEN NIL ELSE Head(due))
=============================================================================
