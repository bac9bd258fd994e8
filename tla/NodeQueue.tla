------------------------------ MODULE NodeQueue ------------------------------
(***************************************************************************)
(* libcoap's queues of coap_queue_t nodes, linked by next and ordered by   *)
(* time: the t of a node is relative to the node before it.  A queue is the*)
(* sequence of its nodes; a node has at least the fields id and t.         *)
(***************************************************************************)
EXTENDS Integers, Sequences, FiniteSets, SequencesExt

(* The time of node i of the queue q, relative to the time the queue counts *)
(* from.                                                                   *)
Offset(q, i) ==
  LET sum[k \in 0 .. Len(q)] == IF k = 0 THEN 0 ELSE sum[k - 1] + q[k].t
  IN  sum[i]

(* Mutant: the time is made relative to a node too far behind. *)
coap_insert_node_far(q, n) ==
  LET before == Cardinality({i \in 1 .. Len(q) : Offset(q, i) <= n.t})
      upto   == IF before < Len(q) THEN before + 1 ELSE before
  IN  InsertAt(q, before + 1, [n EXCEPT !.t = @ - Offset(q, upto)])

(* Behind all nodes that are due no later; the time becomes relative to    *)
(* the node before it, and the successor's relative to it.                 *)
coap_insert_node(q, n) ==
  LET before == Cardinality({i \in 1 .. Len(q) : Offset(q, i) <= n.t})
      node   == [n EXCEPT !.t = @ - Offset(q, before)]
      rest   == SubSeq(q, before + 1, Len(q))
  IN  SubSeq(q, 1, before) \o <<node>>
      \o (IF rest = <<>> THEN <<>> ELSE [rest EXCEPT ![1].t = @ - node.t])

(* Mutant: the successor does not inherit the removed node's time. *)
UnlinkBare(q, i) == RemoveAt(q, i)

(* The successor of the removed node inherits its relative time. *)
Unlink(q, i) ==
  IF i = Len(q) THEN RemoveAt(q, i)
  ELSE [RemoveAt(q, i) EXCEPT ![i].t = @ + q[i].t]

(* coap_pop_next: the queue without its first node, which keeps its time. *)
coap_pop_next(q) == Unlink(q, 1)

(* Mutant: the first node is taken out, whatever its id. *)
coap_remove_first(q, id) == IF q = <<>> THEN q ELSE Unlink(q, 1)

(* coap_remove_from_queue takes out the first node with the given id. *)
coap_remove_from_queue(q, id) ==
  LET found == {i \in 1 .. Len(q) : q[i].id = id}
  IN  IF found = {} THEN q
      ELSE Unlink(q, CHOOSE i \in found : \A j \in found : i <= j)
=============================================================================
