----------------------------- MODULE ClockToken -----------------------------
(***************************************************************************)
(* The two pieces of arithmetic every turn of the CoAP thread goes         *)
(* through: the absolute deadline delay_us_at_TimesSpec gives to           *)
(* mq_timedreceive, and the token creatTheToken makes for a request from a *)
(* counter of eight bytes.                                                 *)
(***************************************************************************)
EXTENDS WallClock, Token

CONSTANT Requests    (* bound: requests of one behaviour                   *)

clockVars == <<now, deadline, token, issued>>

ClockInit ==
  /\ now \in [sec : {0}, nsec : Instants]
  /\ deadline = delay_us_at_TimesSpec(now)
  /\ token = 0 /\ issued = <<>>

(* The top of the loop of CoapPthread. *)
Turn ==
  /\ now' \in [sec : {0}, nsec : Instants]
  /\ deadline' = delay_us_at_TimesSpec(now')
  /\ UNCHANGED <<token, issued>>

(* coap_new_request *)
creatTheToken ==
  /\ Len(issued) < Requests
  /\ token' = (token + 1) % Capacity
  /\ issued' = Append(issued, TokenOf(token'))
  /\ UNCHANGED <<now, deadline>>

ClockNext == Turn \/ creatTheToken
ClockSpec == ClockInit /\ [][ClockNext]_clockVars
=============================================================================
