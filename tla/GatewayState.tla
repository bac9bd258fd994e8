----------------------------- MODULE GatewayState -----------------------------
(***************************************************************************)
(* What the threads of the gateway process share: the POSIX message queue  *)
(* /CoAPRecvMq, the request list, the sPthreadPara blocks, YCRequest and   *)
(* DeviceInfo, and what a crash of the process leaves behind.  The threads *)
(* themselves are CoapThread, Console and YCThread; Gateway composes them. *)
(*                                                                         *)
(* A request is a struct sCoAPNewRequest handed to mq_send.  Every request *)
(* has an identity and is submitted at most once, so that the properties   *)
(* can follow it; the code has no such identity.                           *)
(***************************************************************************)
EXTENDS Integers, Sequences, FiniteSets, SequencesExt

CONSTANTS
  BlockReqs,    (* console 'l' requests: LTU_TX_BLOCK                        *)
  AskReqs,      (* console 'a' requests: LTU_YC, their sender waits          *)
  PollReqs,     (* requests of the telemetry thread: LTU_YC, pthpara NULL    *)
  MQMax,        (* CoAPRX_MQmaxmsg                                           *)
  TimingBlock,  (* pthpara->timing of an 'l' request, in clock units         *)
  TimingAsk,    (* pthpara->timing of an 'a' request                         *)
  YCTimeout,    (* the 300 s after which a telemetry round is woken          *)
  StartTime,    (* time(NULL) when the process first starts                  *)
  MaxTime,      (* bound on the clock                                        *)
  MaxRestarts,  (* bound on the restarts of the process                      *)
  UninitReqs,   (* what the uninitialised tmp.req may hold at thread start   *)
  AnswerKinds,  (* the datagrams the devices send                            *)
  AllocFails,   (* whether malloc may fail                                   *)
  SendFails     (* whether sendto may fail                                   *)

Requests == BlockReqs \cup AskReqs \cup PollReqs

ReqKinds == {"LTU_YC", "LTU_TX_BLOCK", "LTU_NOACK"}

ASSUME GatewayAssumption ==
  /\ BlockReqs \cap AskReqs = {}
  /\ BlockReqs \cap PollReqs = {}
  /\ AskReqs \cap PollReqs = {}
  /\ IsFiniteSet(Requests)
  /\ MQMax \in Nat \ {0}
  /\ {TimingBlock, TimingAsk, YCTimeout, StartTime, MaxTime, MaxRestarts} \subseteq Nat
  /\ UninitReqs \subseteq ReqKinds
  /\ AnswerKinds \subseteq {"ack", "response", "content"}
  /\ AllocFails \in BOOLEAN /\ SendFails \in BOOLEAN

VARIABLES
  now,       (* time(NULL)                                                   *)
  mq,        (* the kernel's message queue; it survives the process          *)
  posted,    (* history: the requests mq_send accepted, in order             *)
  refused,   (* history: the requests mq_send returned EAGAIN for            *)
  pc,        (* where the CoAP thread is in its loop; "dead": no process     *)
  tmpReq,    (* tmp.req of the CoAP thread                                   *)
  path,      (* the global path: "dsAin", or the respath of a block request  *)
  timeNow,   (* time_now of the CoAP thread, sampled before the sweep        *)
  cursor,    (* position of the sweep's pt in the list                       *)
  list,      (* PthreadRequestList, as the sequence of its elements          *)
  stamp,     (* tmp.time copied into the element                             *)
  unacked,   (* libcoap's sendqueue: the requests being retransmitted        *)
  sentPath,  (* history: the Uri-Path each request was transmitted with      *)
  answered,  (* history: the requests a device's response arrived for        *)
  told,      (* history: the requests whose pthpara->timeout was set         *)
  mapped,    (* the requests whose pthpara points into the living process    *)
  asker,     (* the console thread, for each 'a' request it may send         *)
  yc,        (* the telemetry thread                                         *)
  ycTime,    (* DeviceInfo.time; 0 in a fresh process                        *)
  restarts   (* how often the process was started again                      *)

mqVars    == <<mq, posted, refused>>
loopVars  == <<pc, tmpReq, path, timeNow, cursor>>
listVars  == <<list, stamp>>
wireVars  == <<unacked, sentPath, answered>>
paraVars  == <<told, mapped, asker>>
ycVars    == <<yc, ycTime>>
vars == <<now, mqVars, loopVars, listVars, wireVars, paraVars, ycVars, restarts>>

-----------------------------------------------------------------------------
Kind(r) == IF r \in BlockReqs THEN "LTU_TX_BLOCK" ELSE "LTU_YC"

Timing(r) == IF r \in BlockReqs THEN TimingBlock ELSE TimingAsk

Alive == pc # "dead"

Fresh(r) == r \notin refused /\ ~Contains(posted, r)

(* Mutant: the queue takes one message more than its attributes say. *)
HasRoomOffByOne == Len(mq) <= MQMax

(* mq_maxmsg of the queue, opened O_NONBLOCK. *)
HasRoom == Len(mq) < MQMax

(* mq_send(CoAPRxMq, &tmp, sizeof(tmp), 0), its return value ignored.  All *)
(* messages have priority 0: the queue is first in, first out.             *)
MqSend(r) ==
  /\ Fresh(r)
  /\ IF HasRoom THEN /\ mq' = Append(mq, r)
                     /\ posted' = Append(posted, r)
                     /\ UNCHANGED refused
                ELSE /\ refused' = refused \cup {r}
                     /\ UNCHANGED <<mq, posted>>

(* The process is killed by a signal: its memory is gone, the message queue *)
(* (left to the caller) and the history are not.                           *)
Die ==
  /\ pc' = "dead"
  /\ path' = "dsAin" /\ timeNow' = 0 /\ cursor' = 1
  /\ list' = <<>> /\ unacked' = {} /\ mapped' = {}
  /\ asker' = [a \in AskReqs |-> "idle"]
  /\ yc' = "fetch" /\ ycTime' = 0
  /\ UNCHANGED <<now, posted, refused, tmpReq, stamp, sentPath, answered, told, restarts>>

Init ==
  /\ now = StartTime
  /\ mq = <<>> /\ posted = <<>> /\ refused = {}
  /\ pc = "recv" /\ tmpReq \in UninitReqs /\ path = "dsAin"
  /\ timeNow = 0 /\ cursor = 1
  /\ list = <<>> /\ stamp = [r \in Requests |-> 0]
  /\ unacked = {} /\ sentPath = [r \in Requests |-> "unsent"] /\ answered = {}
  /\ told = {} /\ mapped = {} /\ asker = [a \in AskReqs |-> "idle"]
  /\ yc = "fetch" /\ ycTime = 0
  /\ restarts = 0

(* main(): opens the queue, which may still hold messages, and starts the  *)
(* threads.  A supervisor outside this repository runs the program again.  *)
Restart ==
  /\ ~Alive /\ restarts < MaxRestarts
  /\ pc' = "recv"
  /\ tmpReq' \in UninitReqs
  /\ restarts' = restarts + 1
  /\ UNCHANGED <<now, mqVars, path, timeNow, cursor, listVars, wireVars, paraVars, ycVars>>

Tick ==
  /\ now < MaxTime
  /\ now' = now + 1
  /\ UNCHANGED <<mqVars, loopVars, listVars, wireVars, paraVars, ycVars, restarts>>
=============================================================================
