------------------------------- MODULE UtList --------------------------------
(***************************************************************************)
(* The linked lists of utlist.h, single ("LL"), double ("DL") and circular *)
(* ("CDL"): each macro that adds or deletes is one action on the pointers, *)
(* and the FOREACH_SAFE loops run one round at a time, whose body may      *)
(* delete the element it stands on.  Deleted elements keep their pointers  *)
(* and may be added again.  LL_APPEND and LL_DELETE are here in the form   *)
(* for compilers without decltype; the one list.c is compiled with is in   *)
(* RequestList with LL_SEARCH, the sorts are in MergeSort.                 *)
(***************************************************************************)
EXTENDS ListState, SequencesExt

listVars == <<ring, style, loop, listed, due>>

Idle == [on |-> FALSE, el |-> NIL, tmp |-> NIL, last |-> NIL]

Init ==
  /\ style \in {"LL", "DL", "CDL"}
  /\ ring = [head |-> NIL, next |-> [e \in Members |-> NIL],
             prev |-> [e \in Members |-> NIL], tail |-> NIL]
  /\ loop = Idle
  /\ listed = <<>> /\ due = <<>>

h    == ring.head
next == ring.next
prev == ring.prev

Chain(head, nx, pv) == ring' = [ring EXCEPT !.head = head, !.next = nx, !.prev = pv]

(* The body of a loop adds nothing; between loops anything may be called.   *)
AddsOutside(e, s) ==
  /\ ~loop.on /\ e \in Members \ ToSet(listed)
  /\ listed' = s
  /\ UNCHANGED <<style, loop, due>>

LL_PREPEND(e) ==
  /\ style = "LL" /\ AddsOutside(e, <<e>> \o listed)
  /\ Chain(e, [next EXCEPT ![e] = h], prev)

(* The elements a walk from the head comes to. *)
Forward ==
  {e \in Members : \A S \in SUBSET Members :
                     h \in S /\ (\A x \in S : next[x] \in S \cup {NIL}) => e \in S}

(* The new element's next walks to the last element. *)
LL_APPEND_VS2008(e) ==
  /\ style = "LL" /\ AddsOutside(e, Append(listed, e))
  /\ IF h = NIL
       THEN Chain(e, [next EXCEPT ![e] = NIL], prev)
       ELSE \E last \in Forward :
              /\ next[last] = NIL
              /\ Chain(h, [next EXCEPT ![last] = e, ![e] = NIL], prev)

DL_PREPEND(e) ==
  /\ style = "DL" /\ AddsOutside(e, <<e>> \o listed)
  /\ Chain(e, [next EXCEPT ![e] = h],
           IF h = NIL THEN [prev EXCEPT ![e] = e] ELSE [prev EXCEPT ![e] = prev[h], ![h] = e])

DL_APPEND(e) ==
  /\ style = "DL" /\ AddsOutside(e, Append(listed, e))
  /\ IF h = NIL
       THEN Chain(e, [next EXCEPT ![e] = NIL], [prev EXCEPT ![e] = e])
       ELSE Chain(h, [next EXCEPT ![prev[h]] = e, ![e] = NIL],
                  [prev EXCEPT ![e] = prev[h], ![h] = e])

CDL_PREPEND(e) ==
  /\ style = "CDL" /\ AddsOutside(e, <<e>> \o listed)
  /\ IF h = NIL
       THEN Chain(e, [next EXCEPT ![e] = e], [prev EXCEPT ![e] = e])
       ELSE Chain(e, [next EXCEPT ![e] = h, ![prev[h]] = e],
                  [prev EXCEPT ![e] = prev[h], ![h] = e])

-----------------------------------------------------------------------------
(* Mutant: the new last element is not noted in the head's prev. *)
UnlinkKeepsLast(e) ==
  IF prev[e] = e
    THEN Chain(NIL, next, prev)
  ELSE IF e = h
    THEN Chain(next[e], next, [prev EXCEPT ![next[e]] = prev[e]])
  ELSE Chain(h, [next EXCEPT ![prev[e]] = next[e]],
             [prev EXCEPT ![IF next[e] = NIL THEN e ELSE next[e]] = prev[e]])

(* The head's prev is the last element: it moves when that one is deleted. *)
DLUnlink(e) ==
  IF prev[e] = e
    THEN Chain(NIL, next, prev)
  ELSE IF e = h
    THEN Chain(next[e], next, [prev EXCEPT ![next[e]] = prev[e]])
  ELSE Chain(h, [next EXCEPT ![prev[e]] = next[e]],
             [prev EXCEPT ![IF next[e] = NIL THEN h ELSE next[e]] = prev[e]])

(* The head itself walks to the element before e and is then restored. *)
LLUnlink(e) ==
  IF h = e THEN Chain(next[h], next, prev)
  ELSE \E p \in Forward : next[p] = e /\ Chain(h, [next EXCEPT ![p] = next[e]], prev)

CDLUnlink(e) ==
  IF h = e /\ next[h] = h
    THEN Chain(NIL, next, prev)
  ELSE Chain(IF e = h THEN next[e] ELSE h,
             [next EXCEPT ![prev[e]] = next[e]], [prev EXCEPT ![next[e]] = prev[e]])

(* An element is deleted outside a loop, or the one the loop stands on. *)
Deletes(e) ==
  /\ loop.on => e = loop.el
  /\ \E k \in 1 .. Len(listed) : listed[k] = e /\ listed' = RemoveAt(listed, k)
  /\ UNCHANGED <<style, loop, due>>

LL_DELETE_VS2008(e) == style = "LL" /\ Deletes(e) /\ LLUnlink(e)
DL_DELETE(e)  == style = "DL" /\ Deletes(e) /\ DLUnlink(e)
CDL_DELETE(e) == style = "CDL" /\ Deletes(e) /\ CDLUnlink(e)

-----------------------------------------------------------------------------
(* (el) && (tmp = (el)->next, 1) *)
At(e, last) == [on |-> TRUE, el |-> e, tmp |-> IF e = NIL THEN NIL ELSE next[e], last |-> last]

ForeachSafe ==
  /\ ~loop.on
  /\ loop' = At(h, IF h = NIL \/ style # "CDL" THEN NIL ELSE prev[h])
  /\ due' = listed
  /\ UNCHANGED <<ring, style, listed>>

(* Mutant: the end of the ring is told by its head, which may be deleted. *)
AfterElAtHead == IF loop.tmp = h /\ style = "CDL" THEN NIL ELSE loop.tmp

(* (el) = tmp; CDL_FOREACH_SAFE ends behind the element that was last. *)
AfterEl == IF loop.el = loop.last /\ style = "CDL" THEN NIL ELSE loop.tmp

ForeachNext ==
  /\ loop.on /\ loop.el # NIL
  /\ loop' = At(AfterEl, loop.last)
  /\ due' = Tail(due)
  /\ UNCHANGED <<ring, style, listed>>

ForeachEnd ==
  /\ loop.on /\ loop.el = NIL
  /\ loop' = Idle
  /\ due' = <<>>
  /\ UNCHANGED <<ring, style, listed>>

Next ==
  \/ \E e \in Members : \/ LL_PREPEND(e) \/ LL_APPEND_VS2008(e) \/ LL_DELETE_VS2008(e)
                        \/ DL_PREPEND(e) \/ DL_APPEND(e) \/ CDL_PREPEND(e)
                        \/ DL_DELETE(e) \/ CDL_DELETE(e)
  \/ ForeachSafe \/ ForeachNext \/ ForeachEnd

Spec == Init /\ [][Next]_listVars

=============================================================================
