------------------------------ MODULE CoapThread ------------------------------
(***************************************************************************)
(* CoapPthread (CoAPpthread.c): the loop that takes a request from the     *)
(* message queue, remembers it in the request list and transmits it, lets  *)
(* libcoap retransmit when the queue is empty, reads one datagram, sweeps  *)
(* the list for requests whose time is over, and wakes the telemetry round.*)
(*                                                                         *)
(*   "recv"   417-496   take a message, or retransmit                      *)
(*   "read"   498-502   one datagram, then time_now is sampled             *)
(*   "sweep"  504-517   one list element per step                          *)
(*   "signal" 521       between the test of line 520 and its signal        *)
(*                                                                         *)
(* libcoap's retransmission timers are abstracted: a PDU may be given up   *)
(* whenever the loop comes by.  SendQueue is the detailed model of them.   *)
(***************************************************************************)
EXTENDS GatewayState

(* Mutant: LL_PREPEND. *)
LLPrepend(l, r) == <<r>> \o l

(* LL_APPEND in addPthreadRequesttoList. *)
LLAppend(l, r) == Append(l, r)

(* Mutant: the head is unlinked whatever element was passed. *)
LLDeleteHead(l, i) == Tail(l)

(* LL_DELETE in deletePthreadRequestfromList: unlinks exactly element i. *)
LLDelete(l, i) == RemoveAt(l, i)

(* Mutant: the expired element's successor is jumped over. *)
NextAfterDeleteSkip(i) == i + 1

(* pt = pt->next of the freed element: the allocator leaves the field      *)
(* intact (offset 0x128; only the first 16 bytes of a freed chunk are      *)
(* reused), so the sweep goes on at the element that now has position i.   *)
NextAfterDelete(i) == i

(* Mutants: one unit early; the operands of the subtraction swapped. *)
OverdueEarly(r) == timeNow + 1 - stamp[r] >= Timing(r)
OverdueSwapped(r) == stamp[r] - timeNow >= Timing(r)

(* time_now-pt->time>=pt->pthpara->timing *)
Overdue(r) == timeNow - stamp[r] >= Timing(r)

(* pthread_cond_signal(&pt->pthpara->askcond): wakes the sender if it is   *)
(* inside pthread_cond_wait; it prints and waits again.                    *)
WakeAsker(r) ==
  [a \in AskReqs |-> IF a = r /\ asker[a] = "wait" THEN "here" ELSE asker[a]]

(* The global path as the transmission of r finds it. *)
PathFor(r) == IF Kind(r) = "LTU_TX_BLOCK" THEN r ELSE path

(* Mutant: the message is read but stays in the queue. *)
DequeuePeek == mq

(* What mq_timedreceive leaves in the queue. *)
Dequeue == Tail(mq)

(* Mutant: the next message is taken only once every PDU is acknowledged. *)
CanTakeWhenAcked == pc = "recv" /\ mq # <<>> /\ unacked = {}

(* mq_timedreceive returns a message: the queue is not empty. *)
CanTake == pc = "recv" /\ mq # <<>>

-----------------------------------------------------------------------------
(* tmp.req still holds LTU_NOACK: the memcpy that would change it is       *)
(* skipped, now and for every later message.                               *)
DiscardRequest ==
  /\ CanTake /\ tmpReq = "LTU_NOACK"
  /\ mq' = Dequeue
  /\ pc' = "read"
  /\ UNCHANGED <<now, posted, refused, tmpReq, path, timeNow, cursor, listVars, wireVars,
                 paraVars, ycVars, restarts>>

(* Line 428-429: the element is stamped and appended, or its malloc fails  *)
(* and nobody looks at the result.                                         *)
Remember(r) ==
  \/ /\ list' = LLAppend(list, r)
     /\ stamp' = [stamp EXCEPT ![r] = now]
  \/ AllocFails /\ UNCHANGED listVars

(* Lines 432-484: a confirmable GET is built with the global path and      *)
(* handed to libcoap; without memory for its PDU or queue node, or when     *)
(* sendto refuses it, nothing is sent and nothing waits for an             *)
(* acknowledgement.  The type the request asks for (msgtype) is not looked *)
(* at.                                                                     *)
Transmit(r) ==
  /\ path' = PathFor(r)
  /\ \/ /\ unacked' = unacked \cup {r}
        /\ sentPath' = [sentPath EXCEPT ![r] = PathFor(r)]
     \/ (AllocFails \/ SendFails) /\ UNCHANGED <<unacked, sentPath>>
  /\ UNCHANGED answered

AcceptRequest ==
  /\ CanTake /\ tmpReq # "LTU_NOACK"
  /\ mq' = Dequeue
  /\ tmpReq' = Kind(Head(mq))
  /\ Remember(Head(mq))
  /\ Transmit(Head(mq))
  /\ pc' = "read"
  /\ UNCHANGED <<now, posted, refused, timeNow, cursor, paraVars, ycVars, restarts>>

(* host.s, path.s or a telemetry request's pdu is NULL and is dereferenced.*)
AcceptOutOfMemory ==
  /\ CanTake /\ tmpReq # "LTU_NOACK" /\ AllocFails
  /\ mq' = Dequeue
  /\ Die

(* The queue is empty: PDUs whose last retransmission is over are freed.   *)
Retransmit ==
  /\ pc = "recv" /\ mq = <<>>
  /\ \E gone \in SUBSET unacked : unacked' = unacked \ gone
  /\ pc' = "read"
  /\ UNCHANGED <<now, mqVars, tmpReq, path, timeNow, cursor, listVars, sentPath, answered,
                 paraVars, ycVars, restarts>>

(* time_now=time(NULL); the sweep starts at the head of the list. *)
StartSweep ==
  /\ pc' = "sweep"
  /\ timeNow' = now
  /\ cursor' = 1
  /\ UNCHANGED <<now, mqVars, tmpReq, path, listVars, sentPath, paraVars, ycVars, restarts>>

(* Nothing came within 200 ms, or select failed. *)
ReadNothing ==
  /\ pc = "read"
  /\ StartSweep
  /\ UNCHANGED <<unacked, answered>>

(* An empty ACK or a RST: coap_dispatch drops the PDU, no handler runs.    *)
(* The PDU stays if its last retransmission failed (SendQueue).            *)
ReadAck(r) ==
  /\ pc = "read" /\ "ack" \in AnswerKinds /\ sentPath[r] # "unsent"
  /\ unacked' \in {unacked, unacked \ {r}}
  /\ StartSweep
  /\ UNCHANGED answered

(* A response, piggybacked on the ACK or separate (acknowledged at line    *)
(* 172 when it is confirmable).  Without Uri-Host or Uri-Path, or with a   *)
(* code other than 2.05, the handler has no further effect; it never looks *)
(* its request up in the list (lines 203-205 are disabled).                *)
ReadResponse(r) ==
  /\ pc = "read" /\ "response" \in AnswerKinds /\ sentPath[r] # "unsent"
  /\ unacked' \in {unacked, unacked \ {r}}
  /\ answered' = answered \cup {r}
  /\ StartSweep

(* 2.05 with Uri-Host and Uri-Path: message_handler goes on to read the    *)
(* uninitialised cnrList, which the build folds to NULL.                   *)
ReadContent(r) ==
  /\ pc = "read" /\ "content" \in AnswerKinds /\ sentPath[r] # "unsent"
  /\ Die
  /\ UNCHANGED mq

SweepExpire ==
  /\ pc = "sweep" /\ cursor <= Len(list)
  /\ list[cursor] \in mapped /\ Overdue(list[cursor])
  /\ told' = told \cup {list[cursor]}
  /\ asker' = WakeAsker(list[cursor])
  /\ list' = LLDelete(list, cursor)
  /\ cursor' = NextAfterDelete(cursor)
  /\ UNCHANGED <<now, mqVars, pc, tmpReq, path, timeNow, stamp, wireVars, mapped, ycVars,
                 restarts>>

SweepKeep ==
  /\ pc = "sweep" /\ cursor <= Len(list)
  /\ list[cursor] \in mapped /\ ~Overdue(list[cursor])
  /\ cursor' = cursor + 1
  /\ UNCHANGED <<now, mqVars, pc, tmpReq, path, timeNow, listVars, wireVars, paraVars, ycVars,
                 restarts>>

(* pthpara is NULL (a telemetry request) or the address of a block of an   *)
(* earlier process: reading pthpara->timing is a segmentation fault.       *)
SweepFault ==
  /\ pc = "sweep" /\ cursor <= Len(list)
  /\ list[cursor] \notin mapped
  /\ Die
  /\ UNCHANGED mq

(* Mutant: the telemetry round is woken only by its last answer. *)
RoundOverdueNever == FALSE

(* Lines 518-520, without the mutex.  YCRequest is true from the moment    *)
(* the round starts and stays so, so reading it first changes nothing.     *)
RoundOverdue == yc # "fetch" /\ timeNow - ycTime >= YCTimeout

(* time_now is local to the loop's body and dead after this step. *)
SweepDone ==
  /\ pc = "sweep" /\ cursor > Len(list)
  /\ pc' = IF RoundOverdue THEN "signal" ELSE "recv"
  /\ timeNow' = 0 /\ cursor' = 1
  /\ UNCHANGED <<now, mqVars, tmpReq, path, listVars, wireVars, paraVars, ycVars, restarts>>

(* pthread_cond_signal(&YCRequestcond) wakes the telemetry thread only if  *)
(* it is already waiting.                                                  *)
SignalRound ==
  /\ pc = "signal"
  /\ pc' = "recv"
  /\ yc' = IF yc = "wait" THEN "relock" ELSE yc
  /\ UNCHANGED <<now, mqVars, tmpReq, path, timeNow, cursor, listVars, wireVars, paraVars,
                 ycTime, restarts>>

CoapStep ==
  \/ DiscardRequest \/ AcceptRequest \/ AcceptOutOfMemory \/ Retransmit
  \/ ReadNothing
  \/ \E r \in Requests : ReadAck(r) \/ ReadResponse(r) \/ ReadContent(r)
  \/ SweepExpire \/ SweepKeep \/ SweepFault \/ SweepDone
  \/ SignalRound
=============================================================================
