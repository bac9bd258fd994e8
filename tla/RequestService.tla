---------------------------- MODULE RequestService ----------------------------
(***************************************************************************)
(* What the gateway as built makes of a request, whatever its threads,     *)
(* queue and list look like: a request is submitted once; it is queued if  *)
(* there is room and lost otherwise; the CoAP thread takes it over or loses*)
(* it; a request taken over ends by its sender being told that its time is *)
(* over, and in no other way while the process lives; a crash of the       *)
(* process loses every request taken over, and at most one queued request, *)
(* while the other queued requests stay.  What is told or lost stays so.   *)
(***************************************************************************)
EXTENDS Integers, FiniteSets

CONSTANTS Requests, Capacity

VARIABLE status

Statuses == {"idle", "queued", "pending", "told", "lost"}

With(s) == {r \in Requests : status[r] = s}

Init == status = [r \in Requests |-> "idle"]

Move(r, from, to) ==
  /\ status[r] = from
  /\ status' = [status EXCEPT ![r] = to]

Submit(r) == Cardinality(With("queued")) < Capacity /\ Move(r, "idle", "queued")

Refuse(r) == Cardinality(With("queued")) = Capacity /\ Move(r, "idle", "lost")

Take(r) == Move(r, "queued", "pending")

Skip(r) == Move(r, "queued", "lost")

Expire(r) == Move(r, "pending", "told")

Crash(also) ==
  /\ also \subseteq With("queued") /\ Cardinality(also) <= 1
  /\ status' = [r \in Requests |->
                  IF r \in also \cup With("pending") THEN "lost" ELSE status[r]]

Next ==
  \/ \E r \in Requests :
       \/ Submit(r) \/ Refuse(r) \/ Take(r) \/ Skip(r) \/ Expire(r)
       \/ Crash({r})
  \/ Crash({})

Spec == Init /\ [][Next]_status
=============================================================================
