------------------------------- MODULE Exchange -------------------------------
(***************************************************************************)
(* One datagram and what is sent for it (see Dispatch), and what must be   *)
(* true of the two together.                                               *)
(***************************************************************************)
EXTENDS Integers, Sequences

VARIABLES
  datagram,   (* the message that is read, dispatched or handled            *)
  stage,      (* "read", "dispatch", "handler"; then "done" or "dropped"    *)
  replies,    (* what was sent for it, in order                             *)
  lapsed,     (* history: a reply is missing for want of memory, because    *)
              (* sendto failed, or as if the request had been multicast     *)
  echoes,     (* history: 0 for a datagram of the asker, 1 for a reply to it*)
  awaited     (* the message id the asker's sendqueue holds, or NoMid       *)

NoMid == -1          (* COAP_INVALID_TID *)

(* What a station owes the sender of a datagram: a CON gets one ACK or RST  *)
(* with its message id, by whichever of the five ways it is answered, never *)
(* two, and nothing else is ever acknowledged.                              *)
AnsweredOnce ==
  stage = "done" =>
    /\ Len(replies) <= 1
    /\ datagram.type = "CON" /\ ~lapsed => replies # <<>>
    /\ \A i \in 1 .. Len(replies) :
         /\ replies[i].mid = datagram.mid
         /\ datagram.type = "CON" => replies[i].type \in {"ACK", "RST"}
         /\ replies[i].type = "ACK" => datagram.type = "CON"

(* An exchange ends with the reply: it is never answered in turn, so two    *)
(* stations with this library do not answer each other for ever, and it     *)
(* ends the wait of the one who asked with a CON.                           *)
ExchangeEnds == stage = "done" /\ echoes > 0 => replies = <<>> /\ awaited = NoMid
=============================================================================
