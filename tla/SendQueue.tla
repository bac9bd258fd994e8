------------------------------ MODULE SendQueue ------------------------------
(***************************************************************************)
(* The confirmable messages of the gateway under way: libcoap's sendqueue  *)
(* as CoapPthread (CoAPpthread.c:417-500) drives it.  A node of the queue  *)
(* holds a time relative to the node before it, the first one relative to  *)
(* sendqueue_basetime.  coap_send_confirmed sets the base time when it     *)
(* finds the queue empty; the gateway never calls coap_adjust_basetime, so *)
(* the base stays where it is until the queue has been empty once.         *)
(*                                                                         *)
(*   "take"   417-422   a message to send, or none: the time is sampled    *)
(*   "resend" 490-495   one message whose time has come per step           *)
(*   "read"   498-500   one datagram                                       *)
(*                                                                         *)
(* coap_tick_t is unsigned: the ticks wrap at TickMod.                     *)
(***************************************************************************)
EXTENDS NodeQueue

CONSTANTS
  Messages,       (* the requests that are sent, numbered                   *)
  TickMod,        (* 2^32, the range of coap_tick_t                         *)
  Timeouts,       (* the randomised timeouts coap_send_confirmed may choose *)
  MaxRetransmit,  (* COAP_DEFAULT_MAX_RETRANSMIT                            *)
  StartClock,     (* the clock when the thread starts                       *)
  MaxClock,       (* bound on the clock                                     *)
  SendFails       (* whether sendto may fail                                *)

(* 1 << n *)
Shifted[n \in 0 .. MaxRetransmit] == IF n = 0 THEN 1 ELSE 2 * Shifted[n - 1]

ASSUME SendQueueAssumption ==
  /\ Messages \subseteq Nat
  /\ Timeouts \subseteq Nat \ {0}
  /\ {MaxRetransmit, StartClock, MaxClock} \subseteq Nat
  /\ TickMod \in Nat \ {0}
  /\ StartClock <= MaxClock
  /\ \A t \in Timeouts : MaxClock - StartClock + t * Shifted[MaxRetransmit] < TickMod
  /\ SendFails \in BOOLEAN

VARIABLES
  clock,      (* the time; coap_ticks returns it modulo TickMod             *)
  basetime,   (* sendqueue_basetime, a value of coap_tick_t                 *)
  sendqueue,  (* its nodes in order                                         *)
  tid,        (* the transaction id of each message                         *)
  pc,         (* where the loop is                                          *)
  sampled,    (* the ticks the retransmission loop compares with            *)
  timeout,    (* the timeout chosen for a message; 0 before it is sent      *)
  attempts,   (* history: how often a message was handed to sendto          *)
  lastSent,   (* history: when that was last                                *)
  acked       (* history: the messages whose acknowledgement was read       *)

queueVars   == <<basetime, sendqueue>>
historyVars == <<timeout, attempts, lastSent, acked>>
vars == <<clock, queueVars, tid, pc, sampled, historyVars>>

-----------------------------------------------------------------------------
(* coap_queue_t: id is the transaction id, or COAP_INVALID_TID after a      *)
(* retransmission that failed.                                              *)
InvalidTid == -1

(* coap_transaction_id folds a hash of the peer and the message id to 16    *)
(* bits: two messages may get the same one.  Only which of them do matters, *)
(* so an id is the first message that has it.                               *)
TransactionIds ==
  {f \in [Messages -> Messages] : \A m \in Messages : f[m] <= m /\ f[f[m]] = f[m]}

Node == [msg : Messages, id : Messages \cup {InvalidTid}, t : Nat, retransmit_cnt : Nat]

Waiting == {sendqueue[i].msg : i \in 1 .. Len(sendqueue)}

(* Unsigned subtraction and addition. *)
TickDiff(a, b) == (a - b) % TickMod
TickSum(a, b) == (a + b) % TickMod

coap_ticks == clock % TickMod

-----------------------------------------------------------------------------
Init ==
  /\ clock = StartClock
  /\ basetime = 0 /\ sendqueue = <<>>
  /\ tid \in TransactionIds
  /\ pc = "take" /\ sampled = 0
  /\ timeout = [m \in Messages |-> 0]
  /\ attempts = [m \in Messages |-> 0]
  /\ lastSent = [m \in Messages |-> 0]
  /\ acked = {}

Transmitted(m) ==
  /\ attempts' = [attempts EXCEPT ![m] = @ + 1]
  /\ lastSent' = [lastSent EXCEPT ![m] = clock]

(* Mutant: the time of a later message is not made relative to the base. *)
FirstDueUnbased(m, t) == t

(* The time coap_send_confirmed gives the node of m. *)
FirstDue(m, t) ==
  IF sendqueue = <<>> THEN t ELSE TickSum(TickDiff(coap_ticks, basetime), t)

(* The randomised timeout is drawn after sendto took the message. *)
coap_send_confirmed(m) ==
  \E t \in Timeouts :
    /\ timeout' = [timeout EXCEPT ![m] = t]
    /\ Transmitted(m)
    /\ basetime' = IF sendqueue = <<>> THEN coap_ticks ELSE basetime
    /\ sendqueue' = coap_insert_node(sendqueue,
                      [msg |-> m, id |-> tid[m], t |-> FirstDue(m, t), retransmit_cnt |-> 0])
    /\ UNCHANGED acked

(* A request came from the message queue.  When sendto fails the message   *)
(* is not queued and never sent again.                                     *)
SendRequest(m) ==
  /\ pc = "take" /\ attempts[m] = 0
  /\ \/ coap_send_confirmed(m)
     \/ /\ SendFails
        /\ Transmitted(m)
        /\ UNCHANGED <<queueVars, timeout, acked>>
  /\ pc' = "read"
  /\ UNCHANGED <<clock, tid, sampled>>

NoRequest ==
  /\ pc = "take"
  /\ sampled' = coap_ticks
  /\ pc' = "resend"
  /\ UNCHANGED <<clock, queueVars, tid, historyVars>>

(* Mutant: the absolute times are compared, which breaks when ticks wrap. *)
HeadIsDueAbsolute ==
  sendqueue # <<>> /\ basetime + Head(sendqueue).t <= sampled

(* nextpdu && nextpdu->t <= now - ctx->sendqueue_basetime *)
HeadIsDue ==
  sendqueue # <<>> /\ Head(sendqueue).t <= TickDiff(sampled, basetime)

(* Mutant: one retransmission too few. *)
ExhaustedEarly(n) == n.retransmit_cnt + 1 >= MaxRetransmit

Exhausted(n) == n.retransmit_cnt >= MaxRetransmit

(* coap_retransmit of a node already taken out of the queue: it is queued  *)
(* again, its time doubled and counted from the base, and then sent; or it *)
(* is deleted.                                                             *)
coap_retransmit(rest, n) ==
  IF Exhausted(n)
    THEN sendqueue' = rest /\ UNCHANGED historyVars
    ELSE /\ \E id \in {tid[n.msg]} \cup (IF SendFails THEN {InvalidTid} ELSE {}) :
              sendqueue' = coap_insert_node(rest,
                [n EXCEPT !.id = id,
                          !.retransmit_cnt = @ + 1,
                          !.t = timeout[n.msg] * Shifted[n.retransmit_cnt + 1]])
         /\ Transmitted(n.msg)
         /\ UNCHANGED <<timeout, acked>>

(* coap_pop_next and coap_retransmit. *)
Resend ==
  /\ pc = "resend" /\ HeadIsDue
  /\ coap_retransmit(coap_pop_next(sendqueue), Head(sendqueue))
  /\ UNCHANGED <<clock, basetime, tid, pc, sampled>>

ResendDone ==
  /\ pc = "resend" /\ ~HeadIsDue
  /\ pc' = "read"
  /\ sampled' = 0
  /\ UNCHANGED <<clock, queueVars, tid, historyVars>>

(* No datagram, a malformed one, or a response that does not acknowledge:  *)
(* coap_dispatch does not look for the request of a separate response.     *)
ReadOther ==
  /\ pc = "read"
  /\ pc' = "take"
  /\ UNCHANGED <<clock, queueVars, tid, sampled, historyVars>>

(* An ACK (with or without a response in it) or a RST. *)
ReadAck(m) ==
  /\ pc = "read" /\ timeout[m] # 0
  /\ sendqueue' = coap_remove_from_queue(sendqueue, tid[m])
  /\ acked' = acked \cup {m}
  /\ pc' = "take"
  /\ UNCHANGED <<clock, basetime, tid, sampled, timeout, attempts, lastSent>>

Tick ==
  /\ clock < MaxClock
  /\ clock' = clock + 1
  /\ UNCHANGED <<queueVars, tid, pc, sampled, historyVars>>

LoopStep ==
  \/ \E m \in Messages : SendRequest(m) \/ ReadAck(m)
  \/ NoRequest \/ Resend \/ ResendDone \/ ReadOther

Next == LoopStep \/ Tick

Spec == Init /\ [][Next]_vars

(* The loop never blocks for good and time passes (see Gateway). *)
FairSpec == Spec /\ WF_vars(LoopStep) /\ WF_vars(Tick)

-----------------------------------------------------------------------------
TypeOK ==
  /\ clock \in Nat
  /\ basetime \in 0 .. TickMod - 1
  /\ sendqueue \in Seq(Node)
  /\ tid \in TransactionIds
  /\ pc \in {"take", "resend", "read"}
  /\ sampled \in 0 .. TickMod - 1
  /\ timeout \in [Messages -> Timeouts \cup {0}]
  /\ attempts \in [Messages -> Nat]
  /\ lastSent \in [Messages -> Nat]
  /\ acked \subseteq Messages

(* An acknowledgement with the transaction id of m was read. *)
Acked(m) == \E n \in acked : tid[n] = tid[m]

(* The queue never loses or repeats a message: one that was sent, has no    *)
(* acknowledgement under its transaction id and was not retransmitted often *)
(* enough has exactly one node, whatever was inserted, removed or           *)
(* retransmitted around it.                                                 *)
SentAwaited ==
  /\ Cardinality(Waiting) = Len(sendqueue)
  /\ \A m \in Messages :
       timeout[m] # 0 /\ ~Acked(m) /\ attempts[m] <= MaxRetransmit => m \in Waiting

(* A message is given up only after all its retransmissions; otherwise only *)
(* an acknowledgement takes it out of the queue.                            *)
GivenUpExhausted ==
  [][\A m \in Waiting \ Waiting' : Acked(m)' \/ attempts[m] = MaxRetransmit + 1]_vars

(* The first retransmission waits for the timeout that was drawn, although  *)
(* the time in the node counts from an older base and from other nodes.     *)
FirstTimeoutKept ==
  [][\A m \in Messages : attempts[m] = 1 /\ attempts'[m] = 2
                           => clock - lastSent[m] >= timeout[m]]_vars

(* Every message is settled in the end, acknowledged or given up, also      *)
(* across the wrap of the tick counter.  The clock of the model stops at    *)
(* MaxClock, so this asks it of the messages whose last timeout is over by  *)
(* then.                                                                    *)
Settled ==
  \A m \in Messages :
    m \in Waiting /\ attempts[m] = 1 /\ lastSent[m] + timeout[m] * Shifted[MaxRetransmit] <= MaxClock
      ~> m \notin Waiting

-----------------------------------------------------------------------------
(* When the base time was set, and when the waiting messages are due.       *)
Base == clock - TickDiff(coap_ticks, basetime)

NodeOf(m) == CHOOSE i \in 1 .. Len(sendqueue) : sendqueue[i].msg = m

Due == [m \in Waiting |-> Base + Offset(sendqueue, NodeOf(m))]

Timers == INSTANCE RetransmitTimers WITH due <- Due

(* The relative times of the queue implement a time of its own for every    *)
(* message: inserting, removing, retransmitting and acknowledging one       *)
(* message never moves another one, and the earliest is retransmitted first.*)
ImplementsTimers == Timers!Spec

-----------------------------------------------------------------------------
(* pdu.h:22 calls COAP_DEFAULT_RESPONSE_TIMEOUT the response timeout: a     *)
(* message is retransmitted only when its response did not come within it,  *)
(* counted from the transmission before.                                    *)
RetransmissionSpaced ==
  [][\A m \in Messages : attempts[m] > 0 /\ attempts'[m] > attempts[m]
                           => clock - lastSent[m] >= timeout[m]]_vars
=============================================================================
