----------------------------- MODULE MCStructures -----------------------------
(***************************************************************************)
(* One run for the data structures: part says which of them this behaviour *)
(* exercises; the others stay as they are.                                 *)
(***************************************************************************)
EXTENDS RequestList, WallClock, Token, ListState, SortState, Exchange, UtHash, RequestPdu

VARIABLE part                        (* the structure under test            *)

CONSTANTS Parts,                     (* the parts of this run               *)
          Requests, Codes, Mids

Sorting == INSTANCE MergeSort
Doubly  == INSTANCE UtList
Clock   == INSTANCE ClockToken
Answer  == INSTANCE Dispatch

sortVars == <<kind, key, chain, sort, length>>
listVars == <<ring, style, loop, listed, due>>
clockVars == <<now, deadline, token, issued>>
answerVars == <<datagram, stage, replies, lapsed, echoes, awaited>>
allVars  == <<vars, part, sortVars, listVars, hashVars, pduVars, clockVars, answerVars>>

(* The inputs of a part that is not exercised are of no interest: one of    *)
(* them will do.  Items differ in nothing but their hash.                   *)
Hashes  == {f \in [Items -> HashValues] : \A i, j \in Items : i < j => f[i] <= f[j]}
One(S)  == {CHOOSE x \in S : TRUE}
If(p, S, T) == IF part = p THEN S ELSE T

MCInit ==
  /\ part \in Parts
  /\ wanted \in If("list", Ids, One(Ids))
  /\ kind \in If("sort", Kinds, One(Kinds)) /\ length \in If("sort", 0 .. MaxLength, {0})
  /\ style \in If("doubly", {"LL", "DL", "CDL"}, {"DL"})
  /\ hashv \in If("hash", Hashes, One(Hashes))
  /\ id = [n \in Nodes |-> CHOOSE i \in Ids : TRUE]
  /\ Init /\ Sorting!Init /\ Doubly!Init /\ HashInit
  /\ PduInit
  /\ Clock!ClockInit
  /\ datagram \in If("dispatch", Answer!Message, One(Answer!Message)) /\ Answer!Init
  /\ part # "clock" => now = CHOOSE t \in [sec : {0}, nsec : Instants] : TRUE

OthersWait(p) ==
  /\ part = p /\ UNCHANGED part
  /\ p # "list" => UNCHANGED vars
  /\ p # "sort" => UNCHANGED sortVars
  /\ p # "doubly" => UNCHANGED listVars
  /\ p # "hash" => UNCHANGED hashVars
  /\ p # "pdu" => UNCHANGED pduVars
  /\ p # "clock" => UNCHANGED clockVars
  /\ p # "dispatch" => UNCHANGED answerVars

MCNext ==
  \/ OthersWait("list") /\ Next
  \/ OthersWait("sort") /\ Sorting!Next
  \/ OthersWait("doubly") /\ Doubly!Next
  \/ OthersWait("hash") /\ HashNext
  \/ OthersWait("pdu") /\ PduNext
  \/ OthersWait("clock") /\ Clock!ClockNext
  \/ OthersWait("dispatch") /\ Answer!Next

(* A macro that was entered goes on: the thread runs. *)
MCSpec ==
  /\ MCInit /\ [][MCNext]_allVars
  /\ WF_allVars(OthersWait("list") /\ Walk)
  /\ WF_allVars(OthersWait("sort") /\ Sorting!Next)

(* The sorts end.                                                           *)
SortEnds == part = "sort" => Sorting!SortEnds
=============================================================================
