------------------------------ MODULE MCGateway ------------------------------
(***************************************************************************)
(* Gateway for TLC.  Times are scaled: 3 s, 30 s and 300 s become 1, 2 and *)
(* 3 clock units.  The clock starts at YCTimeout, since any real clock     *)
(* value is more than 300 s away from the zero of a fresh DeviceInfo.time. *)
(***************************************************************************)
EXTENDS Gateway, TLC

(* Requests of one kind differ in nothing but their identity. *)
Symmetry == Permutations(BlockReqs) \cup Permutations(AskReqs) \cup Permutations(PollReqs)
=============================================================================
