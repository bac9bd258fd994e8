------------------------------ MODULE WallClock ------------------------------
(***************************************************************************)
(* Absolute times as clock_gettime gives them and mq_timedreceive takes    *)
(* them, seconds and nanoseconds, the latter below a second; and the       *)
(* deadline the CoAP thread computes from such a time in every turn.       *)
(***************************************************************************)
EXTENDS Integers

CONSTANTS Second,    (* nanoseconds in a second                            *)
          Delay,     (* the delay asked for, in nanoseconds                *)
          Instants   (* values of tv_nsec the clock may show               *)

VARIABLES now,       (* what clock_gettime returned: [sec, nsec]           *)
          deadline   (* what delay_us_at_TimesSpec returned                *)

ASSUME ClockAssumption ==
  /\ Second \in Nat /\ Delay \in Nat
  /\ 0 < Delay /\ Delay < Second - 1
  /\ Instants \subseteq 0 .. Second - 1

(* The carry is taken at Second - 1, the largest valid tv_nsec. *)
Carry == Second - 1

(* Mutant: the second is not carried. *)
delay_us_uncarried(t) ==
  LET tmpns == t.nsec + Delay
  IN  [sec |-> t.sec, nsec |-> IF tmpns > Carry THEN tmpns % Carry ELSE tmpns]

delay_us_at_TimesSpec(t) ==
  LET tmpns == t.nsec + Delay
  IN  IF tmpns > Carry
      THEN [sec |-> t.sec + tmpns \div Carry, nsec |-> tmpns % Carry]
      ELSE [sec |-> t.sec, nsec |-> tmpns]

(* How long after t the time u is, in nanoseconds. *)
Elapsed(t, u) == (u.sec - t.sec) * Second + u.nsec - t.nsec

(* The deadline of mq_timedreceive is valid (tv_nsec is below a second) and *)
(* never before the delay is over; taking the carry at 999999999 makes it   *)
(* one nanosecond late at most.                                             *)
DeadlinePrompt ==
  /\ deadline.nsec \in 0 .. Second - 1
  /\ Elapsed(now, deadline) - Delay \in 0 .. 1
=============================================================================
