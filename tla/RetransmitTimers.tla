--------------------------- MODULE RetransmitTimers ---------------------------
(***************************************************************************)
(* What a queue of messages waiting for an acknowledgement promises: each  *)
(* waiting message is due at a time of its own, which nothing that happens *)
(* to another message moves; of the messages that are due the earliest goes*)
(* first; a message whose turn has come waits for another time or is given *)
(* up; a message can be taken out at any time.                             *)
(***************************************************************************)
EXTENDS Integers

CONSTANT Messages

VARIABLES
  clock,
  due        (* the time each waiting message is due, a function on those   *)

Waiting == DOMAIN due

Init == clock \in Nat /\ due = [m \in {} |-> 0]

(* The times of the messages in S stay what they are. *)
Untouched(S) == \A m \in S : m \in DOMAIN due' /\ due'[m] = due[m]

Arm(m) ==
  /\ m \notin Waiting
  /\ DOMAIN due' = Waiting \cup {m}
  /\ due'[m] > clock
  /\ Untouched(Waiting)
  /\ UNCHANGED clock

Cancel(m) ==
  /\ m \in Waiting
  /\ DOMAIN due' = Waiting \ {m}
  /\ Untouched(Waiting \ {m})
  /\ UNCHANGED clock

Fire(m) ==
  /\ m \in Waiting
  /\ due[m] <= clock
  /\ \A n \in Waiting : due[m] <= due[n]
  /\ DOMAIN due' \in {Waiting, Waiting \ {m}}
  /\ Untouched(Waiting \ {m})
  /\ UNCHANGED clock

Pass ==
  /\ clock' > clock
  /\ UNCHANGED due

Next ==
  \/ \E m \in Messages : Arm(m) \/ Cancel(m) \/ Fire(m)
  \/ Pass

Spec == Init /\ [][Next]_<<clock, due>>
=============================================================================
