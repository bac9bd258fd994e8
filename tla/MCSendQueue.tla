----------------------------- MODULE MCSendQueue -----------------------------
(* SendQueue for TLC.  A clock unit stands for a second, 1024 ticks. *)
EXTENDS SendQueue
=============================================================================
