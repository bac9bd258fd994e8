------------------------------- MODULE Dispatch -------------------------------
(***************************************************************************)
(* How a datagram is answered: coap_read, coap_dispatch, the handling of   *)
(* requests for a context without resources (the gateway registers none)   *)
(* and the part of message_handler that acknowledges.                      *)
(*                                                                         *)
(* One datagram at a time: readCoAPFrame reads one, coap_dispatch empties  *)
(* the receive queue before the next one is read.  What was sent for it    *)
(* may come back to a station with the same library (Echo): that is how    *)
(* the answer to a request of the gateway reaches it, and how an answer of *)
(* the gateway reaches a device.  Either of them may be the asker.         *)
(***************************************************************************)
EXTENDS Exchange

CONSTANTS Codes,    (* codes of the datagrams that arrive                   *)
          Mids      (* message ids                                          *)

vars == <<datagram, stage, replies, lapsed, echoes, awaited>>

GET == 1
Empty == 0
COAP_RESPONSE_CODE(n) == 32 * (n \div 100) + (n % 100)

COAP_MESSAGE_IS_REQUEST(m)  == m.code # Empty /\ m.code < 32
COAP_MESSAGE_IS_RESPONSE(m) == 64 <= m.code /\ m.code <= 191

ReplyCodes == {Empty} \cup {COAP_RESPONSE_CODE(n) : n \in {205, 402, 404, 405}}

(* Of the options only these matter: a critical one nobody registered,      *)
(* Uri-Host, Uri-Path, and a path that is .well-known/core.                 *)
Options == {"unknown", "host", "path", "core"}

(* coap_pdu_parse accepts an empty message only without options. *)
Message ==
  {m \in [type : {"CON", "NON", "ACK", "RST"}, code : Codes \cup ReplyCodes,
          mid : Mids, options : SUBSET Options] :
     /\ m.code = Empty => m.options = {}
     /\ "core" \in m.options => "path" \in m.options}

(* Anything may arrive.  The asker of a CON keeps it in its sendqueue; of   *)
(* an exchange the context keeps nothing else.                              *)
Init ==
  /\ datagram \in Message
  /\ stage = "read" /\ replies = <<>> /\ lapsed = FALSE /\ echoes = 0
  /\ awaited = IF datagram.type = "CON" THEN datagram.mid ELSE NoMid

-----------------------------------------------------------------------------
Reply(type, code, options) ==
  [type |-> type, code |-> code, mid |-> datagram.mid, options |-> options]

(* A reply is built and sent; without memory, or when sendto fails, not. *)
Sends(r) ==
  \/ replies' = Append(replies, r) /\ UNCHANGED lapsed
  \/ lapsed' = TRUE /\ UNCHANGED replies

SendsNothing == UNCHANGED <<replies, lapsed>>

(* An acknowledgement for a CON, otherwise a NON; same message id. *)
ResponseType == IF datagram.type = "CON" THEN "ACK" ELSE "NON"
coap_new_error_response(code, options) == Reply(ResponseType, code, options)

coap_send_error(n, options) == Sends(coap_new_error_response(COAP_RESPONSE_CODE(n), options))
coap_send_message_type(type) == Sends(Reply(type, Empty, {}))
coap_send_rst == coap_send_message_type("RST")

AcksAny == coap_send_message_type("ACK")            (* mutant: NON as well *)

coap_send_ack ==
  IF datagram.type = "CON" THEN coap_send_message_type("ACK") ELSE SendsNothing

-----------------------------------------------------------------------------
(* A reply reaches the asker. *)
Echo ==
  /\ stage = "done"
  /\ \E i \in 1 .. Len(replies) : datagram' = replies[i]
  /\ stage' = "read"
  /\ replies' = <<>> /\ lapsed' = FALSE /\ echoes' = echoes + 1
  /\ UNCHANGED awaited

(* A datagram that is too short, malformed or of another version, and one   *)
(* for which there is no memory, is not queued.                             *)
coap_read ==
  /\ stage = "read"
  /\ stage' \in {"dispatch", "dropped"}
  /\ UNCHANGED <<datagram, replies, lapsed, echoes, awaited>>

(* No resource is registered.  The multicast test of the last case reads    *)
(* the node's local address, which coap_read leaves uninitialised.          *)
handle_request ==
  \/ /\ datagram.code = GET /\ "core" \in datagram.options
     /\ Sends(Reply(ResponseType, COAP_RESPONSE_CODE(205), {}))
  \/ /\ datagram.code = GET /\ "core" \notin datagram.options
     /\ coap_send_error(404, {})
  \/ /\ datagram.code # GET
     /\ coap_send_error(405, {}) \/ (lapsed' = TRUE /\ UNCHANGED replies)

(* Requests and responses go to their handlers, other codes are refused. *)
Classify ==
  \/ /\ COAP_MESSAGE_IS_REQUEST(datagram)
     /\ handle_request /\ stage' = "done"
  \/ /\ COAP_MESSAGE_IS_RESPONSE(datagram)
     /\ SendsNothing /\ stage' = "handler"
  \/ /\ ~COAP_MESSAGE_IS_REQUEST(datagram) /\ ~COAP_MESSAGE_IS_RESPONSE(datagram)
     /\ coap_send_rst /\ stage' = "done"

(* coap_option_check_critical, see RequestPdu; only a CON and a NON are     *)
(* checked.                                                                 *)
CriticalKnown == "unknown" \notin datagram.options

NeverSilent == FALSE                     (* mutant: an empty ACK is refused *)

(* An empty ACK has no response in it: nothing more is to be done. *)
SilentAck == datagram.code = Empty

coap_dispatch ==
  /\ stage = "dispatch"
  /\ \/ /\ datagram.type \in {"CON", "NON"} /\ CriticalKnown
        /\ Classify
     \/ /\ datagram.type = "CON" /\ ~CriticalKnown
        /\ coap_send_error(402, {"unknown"}) /\ stage' = "done"
     \/ /\ datagram.type = "NON" /\ ~CriticalKnown
        /\ SendsNothing /\ stage' = "done"
     \/ /\ datagram.type = "ACK"
        /\ IF SilentAck THEN SendsNothing /\ stage' = "done" ELSE Classify
     \/ /\ datagram.type = "RST"
        /\ SendsNothing /\ stage' = "done"
  /\ awaited' = IF datagram.type \in {"ACK", "RST"} /\ echoes = 1 /\ datagram.mid = awaited
                THEN NoMid ELSE awaited      (* coap_remove_from_queue *)
  /\ UNCHANGED <<datagram, echoes>>

(* The acknowledgement comes before the tests for Uri-Host and Uri-Path:    *)
(* what is done after them, or dies of (see CoapThread), sends no reply.    *)
message_handler ==
  /\ stage = "handler"
  /\ coap_send_ack
  /\ stage' = "done"
  /\ UNCHANGED <<datagram, echoes, awaited>>

Next == Echo \/ coap_read \/ coap_dispatch \/ message_handler

Spec == Init /\ [][Next]_vars

=============================================================================
