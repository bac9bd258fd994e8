----------------------------- MODULE RequestList -----------------------------
(***************************************************************************)
(* The request list of list.c with its pointers: PthreadRequestList is the *)
(* head of a chain of malloc'ed elements, changed by the macros of utlist.h*)
(* one assignment of a walk at a time, and swept by the CoAP thread        *)
(* (CoAPpthread.c:504-517), which deletes the element it stands on and then*)
(* reads its next, after free.  CoapThread takes the list for a sequence;  *)
(* ListIntact says it may.                                                 *)
(*                                                                         *)
(*   "idle"    between the operations                                      *)
(*   "append"  in the walk of LL_APPEND to the last element                *)
(*   "search"  in the walk of LL_SEARCH                                    *)
(*   "sweep"   at line 508, pt examined next                               *)
(*   "delete"  in the walk of LL_DELETE to the element before el           *)
(***************************************************************************)
EXTENDS Integers, Sequences, SequencesExt

CONSTANTS
  Nodes,       (* the addresses malloc may return                           *)
  Ids,         (* what idCmp compares: addr and respath                     *)
  NULL

ASSUME ListAssumption == NULL \notin Nodes

VARIABLES
  head,        (* PthreadRequestList                                        *)
  next,        (* el->next; free leaves it as it is                         *)
  id,          (* el->addr and el->respath                                  *)
  allocated,   (* the elements malloc returned and free did not get         *)
  pc,          (* which operation is under way                              *)
  el,          (* the element the operation is about                        *)
  tmp,         (* _tmp of LL_APPEND and LL_DELETE, out of LL_SEARCH         *)
  pt,          (* pt of the sweep                                           *)
  wanted,      (* the id findPthreadRequestfromListbyid looks for           *)
  order,       (* history: the elements of the list, in the order of append *)
  seen         (* history: the elements this walk has passed and kept       *)

heapVars == <<head, next, id, allocated>>
vars == <<heapVars, pc, el, tmp, pt, wanted, order, seen>>

Pointers == Nodes \cup {NULL}

Init ==
  /\ head = NULL
  /\ next \in [Nodes -> {NULL}] /\ id \in [Nodes -> Ids] /\ allocated = {}
  /\ pc = "idle" /\ el = NULL /\ tmp = NULL /\ pt = NULL
  /\ wanted \in Ids
  /\ order = <<>> /\ seen = <<>>

(* The operation is over: its locals are dead. *)
Return ==
  /\ pc' = "idle"
  /\ el' = NULL /\ tmp' = NULL /\ pt' = NULL
  /\ seen' = <<>>
  /\ UNCHANGED wanted

-----------------------------------------------------------------------------
(* addPthreadRequesttoList: malloc and the copy of the request, then the    *)
(* start of LL_APPEND.  An empty list is finished at once.  When malloc     *)
(* fails nothing changes, so that outcome has no action.                    *)
Add(n, i) ==
  /\ pc = "idle" /\ n \in Nodes \ allocated
  /\ allocated' = allocated \cup {n}
  /\ id' = [id EXCEPT ![n] = i]
  /\ next' = [next EXCEPT ![n] = NULL]
  /\ IF head = NULL
       THEN /\ head' = n
            /\ order' = <<n>>
            /\ UNCHANGED <<pc, el, tmp, pt, wanted, seen>>
       ELSE /\ pc' = "append"
            /\ el' = n /\ tmp' = head
            /\ UNCHANGED <<head, pt, wanted, order, seen>>

(* Mutant: the walk reads the head's next again and again. *)
AppendWalkHead ==
  /\ pc = "append" /\ next[tmp] # NULL
  /\ tmp' = next[head]
  /\ UNCHANGED <<heapVars, pc, el, pt, wanted, order, seen>>

(* while (_tmp->next) { _tmp = _tmp->next; } *)
AppendWalk ==
  /\ pc = "append" /\ next[tmp] # NULL
  /\ tmp' = next[tmp]
  /\ UNCHANGED <<heapVars, pc, el, pt, wanted, order, seen>>

(* Mutant: the walk stops one element early, whose successor is lost. *)
AtEndEarly == next[tmp] # NULL => next[next[tmp]] = NULL

AtEnd == next[tmp] = NULL

(* _tmp->next=(add); *)
AppendLink ==
  /\ pc = "append" /\ AtEnd
  /\ next' = [next EXCEPT ![tmp] = el]
  /\ order' = Append(order, el)
  /\ Return
  /\ UNCHANGED <<head, id, allocated>>

-----------------------------------------------------------------------------
(* findPthreadRequestfromListbyid; its only caller is commented out         *)
(* (CoAPpthread.c:203-205).                                                 *)
Find(i) ==
  /\ pc = "idle"
  /\ pc' = "search"
  /\ wanted' = i
  /\ tmp' = head
  /\ UNCHANGED <<heapVars, el, pt, order, seen>>

(* Mutant: the comparison of idCmp is inverted. *)
MatchesNot(n) == id[n] # wanted

(* idCmp(out,elt)==0 *)
Matches(n) == id[n] = wanted

SearchWalk ==
  /\ pc = "search" /\ tmp # NULL /\ ~Matches(tmp)
  /\ tmp' = next[tmp]
  /\ seen' = Append(seen, tmp)
  /\ UNCHANGED <<heapVars, pc, el, pt, wanted, order>>

(* The result is tmp: an element, or NULL at the end of the list. *)
SearchReturn ==
  /\ pc = "search" /\ (tmp # NULL => Matches(tmp))
  /\ Return
  /\ UNCHANGED <<heapVars, order>>

-----------------------------------------------------------------------------
(* LL_FOREACH(PthreadRequestList,pt) *)
SweepStart ==
  /\ pc = "idle"
  /\ pc' = "sweep"
  /\ pt' = head
  /\ UNCHANGED <<heapVars, el, tmp, wanted, order, seen>>

(* The time of the request is not over. *)
SweepKeep ==
  /\ pc = "sweep" /\ pt # NULL
  /\ pt' = next[pt]
  /\ seen' = Append(seen, pt)
  /\ UNCHANGED <<heapVars, pc, el, tmp, wanted, order>>

(* The time of the request is over: deletePthreadRequestfromList(pt).       *)
(* LL_DELETE unlinks the head at once and walks to any other element; then  *)
(* el is freed and the sweep reads its next.                                *)
Unlinked(n, h, nx) ==
  /\ head' = h
  /\ next' = nx
  /\ allocated' = allocated \ {n}
  /\ order' = RemoveAt(order, Len(seen) + 1)
  /\ pt' = nx[pt]
  /\ UNCHANGED <<id, wanted, seen>>

(* Mutant: the head is compared after it was advanced, and stays. *)
DeleteHeadKept ==
  /\ pc = "sweep" /\ pt # NULL /\ pt = head
  /\ Unlinked(pt, head, next)
  /\ UNCHANGED <<pc, el, tmp>>

DeleteHead ==
  /\ pc = "sweep" /\ pt # NULL /\ pt = head
  /\ Unlinked(pt, next[head], next)
  /\ UNCHANGED <<pc, el, tmp>>

DeleteStart ==
  /\ pc = "sweep" /\ pt # NULL /\ pt # head
  /\ pc' = "delete"
  /\ el' = pt /\ tmp' = head
  /\ UNCHANGED <<heapVars, pt, wanted, order, seen>>

(* while (_tmp->next && (_tmp->next != (del))) { _tmp = _tmp->next; } *)
DeleteWalk ==
  /\ pc = "delete" /\ next[tmp] \notin {NULL, el}
  /\ tmp' = next[tmp]
  /\ UNCHANGED <<heapVars, pc, el, pt, wanted, order, seen>>

(* if (_tmp->next) _tmp->next = ((del)->next); *)
DeleteUnlink ==
  /\ pc = "delete" /\ next[tmp] \in {NULL, el}
  /\ Unlinked(el, head, IF next[tmp] = NULL THEN next ELSE [next EXCEPT ![tmp] = next[el]])
  /\ pc' = "sweep" /\ el' = NULL /\ tmp' = NULL

SweepEnd ==
  /\ pc = "sweep" /\ pt = NULL
  /\ Return
  /\ UNCHANGED <<heapVars, order>>

-----------------------------------------------------------------------------
Walk ==
  \/ AppendWalk \/ AppendLink
  \/ SearchWalk \/ SearchReturn
  \/ SweepKeep \/ SweepEnd
  \/ DeleteHead \/ DeleteStart \/ DeleteWalk \/ DeleteUnlink

Next ==
  \/ \E n \in Nodes, i \in Ids : Add(n, i)
  \/ \E i \in Ids : Find(i)
  \/ SweepStart
  \/ Walk

Spec == Init /\ [][Next]_vars

(* An operation that was called goes on: the thread runs. *)
FairSpec == Spec /\ WF_vars(Walk)

-----------------------------------------------------------------------------
TypeOK ==
  /\ head \in Pointers
  /\ next \in [Nodes -> Pointers]
  /\ id \in [Nodes -> Ids]
  /\ allocated \subseteq Nodes
  /\ pc \in {"idle", "append", "search", "sweep", "delete"}
  /\ {el, tmp, pt} \subseteq Pointers
  /\ wanted \in Ids
  /\ order \in Seq(Nodes) /\ seen \in Seq(Nodes)

(* The chain of the pointers is the list as a sequence, after every single  *)
(* assignment: no element twice, none cut off, none of them freed, none     *)
(* allocated and forgotten, except the one LL_APPEND is about to link.      *)
ListIntact ==
  /\ IsInjective(order)
  /\ head = (IF order = <<>> THEN NULL ELSE order[1])
  /\ \A i \in 1 .. Len(order) :
       next[order[i]] = (IF i = Len(order) THEN NULL ELSE order[i + 1])
  /\ allocated = ToSet(order) \cup (IF pc = "append" THEN {el} ELSE {})

(* Where a walk that has passed the elements seen stands, at pointer p. *)
At(p) ==
  /\ Len(seen) <= Len(order) /\ \A i \in 1 .. Len(seen) : seen[i] = order[i]
  /\ p = (IF Len(seen) = Len(order) THEN NULL ELSE order[Len(seen) + 1])

(* The sweep examines every element exactly once, in order, although it     *)
(* deletes and frees elements under its own feet: what it has passed and    *)
(* what lies before it together are the list.                               *)
SweepExact == pc \in {"sweep", "delete"} => At(pt)

(* The search has passed no element with the wanted id: what it returns is  *)
(* the first one, or NULL only if there is none.                            *)
SearchExact == pc = "search" => At(tmp) /\ \A n \in ToSet(seen) : id[n] # wanted

(* The element a walk is about is where the walk can reach it. *)
WalkInv ==
  /\ pc \in {"idle", "append"} => seen = <<>>
  /\ pc = "append" => /\ el \in Nodes \ ToSet(order) /\ next[el] = NULL
                      /\ tmp \in ToSet(order)
  /\ pc = "delete" => /\ el = pt /\ pt # NULL
                      /\ tmp \in ToSet(seen)

(* The inductive invariant. *)
LInv == TypeOK /\ ListIntact /\ SweepExact /\ SearchExact /\ WalkInv

(* Every append, search, deletion and sweep ends: no walk runs in a circle. *)
WalkEnds == pc # "idle" ~> pc = "idle"
=============================================================================
