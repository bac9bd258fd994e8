---------------------------- MODULE Gateway_proofs ----------------------------
(***************************************************************************)
(* Proofs about Gateway, for any sets of requests and devices, any queue   *)
(* size, any timings and any bounds on the clock and the restarts.         *)
(***************************************************************************)
EXTENDS Gateway, SequenceLemmas, FiniteSetTheorems

(* The bounds and timings are natural numbers. *)
LEMMA ConstantTypes ==
  /\ MQMax \in Nat /\ MQMax >= 1
  /\ TimingBlock \in Nat /\ TimingAsk \in Nat /\ YCTimeout \in Nat
  /\ StartTime \in Nat /\ MaxTime \in Nat /\ MaxRestarts \in Nat
  /\ UninitReqs \subseteq ReqKinds
  BY GatewayAssumption

-----------------------------------------------------------------------------
(* mq_send keeps the queue and the history well typed. *)
LEMMA MqSendType ==
  ASSUME TypeOK, NEW r \in Requests, MqSend(r)
  PROVE  /\ mq' \in Seq(Requests) /\ Len(mq') <= MQMax
         /\ posted' \in Seq(Requests)
         /\ refused' \subseteq Requests
<1>1. CASE HasRoom
  <2>1. mq' = Append(mq, r) /\ posted' = Append(posted, r) /\ refused' = refused
    BY <1>1 DEF MqSend
  <2> QED
    BY <1>1, <2>1, AppendProperties, ConstantTypes, LenProperties DEF TypeOK, HasRoom
<1>2. CASE ~HasRoom
  BY <1>2 DEF MqSend, TypeOK
<1> QED
  BY <1>1, <1>2

(* A crash leaves a well-typed state behind, whatever it consumed. *)
LEMMA DieType ==
  ASSUME TypeOK, Die, mq' \in Seq(Requests), Len(mq') <= MQMax
  PROVE  TypeOK'
  BY DEF TypeOK, Die

(* Taking the message at the head off the queue. *)
LEMMA DequeueType ==
  ASSUME TypeOK, mq # <<>>
  PROVE  /\ Dequeue \in Seq(Requests) /\ Len(Dequeue) <= MQMax
         /\ Head(mq) \in Requests
  BY ConstantTypes, HeadTailProperties DEF TypeOK, Dequeue

(* Type correctness is kept by every step of the CoAP thread. *)
LEMMA CoapType ==
  ASSUME TypeOK, CoapStep
  PROVE  TypeOK'
<1> USE DEF mqVars, loopVars, listVars, wireVars, paraVars, ycVars
<1>1. CASE DiscardRequest
  BY <1>1, DequeueType DEF DiscardRequest, CanTake, TypeOK
<1>2. CASE AcceptRequest
  <2> DEFINE r == Head(mq)
  <2>1. r \in Requests /\ mq' \in Seq(Requests) /\ Len(mq') <= MQMax
    BY <1>2, DequeueType DEF AcceptRequest, CanTake
  <2>2. Kind(r) \in ReqKinds /\ PathFor(r) \in BlockReqs \cup {"dsAin"}
    BY DEF Kind, ReqKinds, PathFor, TypeOK
  <2>3. list' \in Seq(Requests) /\ stamp' \in [Requests -> Nat]
    <3>1. CASE UNCHANGED listVars
      BY <3>1 DEF TypeOK
    <3>2. CASE list' = Append(list, r) /\ stamp' = [stamp EXCEPT ![r] = now]
      BY <3>2, <2>1, AppendProperties DEF TypeOK
    <3> QED
      BY <1>2, <3>1, <3>2 DEF AcceptRequest, CanTake, Remember, LLAppend
  <2>4. /\ path' \in BlockReqs \cup {"dsAin"} /\ unacked' \subseteq Requests
        /\ sentPath' \in [Requests -> BlockReqs \cup {"dsAin", "unsent"}]
        /\ answered' = answered
    BY <1>2, <2>1, <2>2 DEF AcceptRequest, CanTake, Transmit, TypeOK
  <2> QED
    BY <1>2, <2>1, <2>2, <2>3, <2>4 DEF AcceptRequest, CanTake, TypeOK
<1>3. CASE AcceptOutOfMemory
  BY <1>3, DequeueType, DieType DEF AcceptOutOfMemory, CanTake
<1>4. CASE Retransmit
  BY <1>4 DEF Retransmit, TypeOK
<1>5. CASE ReadNothing
  BY <1>5 DEF ReadNothing, StartSweep, TypeOK
<1>6. ASSUME NEW r \in Requests, ReadAck(r) \/ ReadResponse(r)
      PROVE  TypeOK'
  BY <1>6 DEF ReadAck, ReadResponse, StartSweep, TypeOK
<1>7. ASSUME NEW r \in Requests, ReadContent(r)
      PROVE  TypeOK'
  BY <1>7, DieType DEF ReadContent, TypeOK
<1>8. CASE SweepExpire
  <2>1. cursor \in 1 .. Len(list)
    BY <1>8 DEF SweepExpire, TypeOK
  <2>2. list' \in Seq(Requests) /\ list[cursor] \in Requests
    BY <1>8, <2>1, RemoveAtProperties DEF SweepExpire, LLDelete, TypeOK
  <2>3. asker' \in [AskReqs -> {"idle", "ask", "wait", "here"}]
    BY <1>8 DEF SweepExpire, WakeAsker, TypeOK
  <2> QED
    BY <1>8, <2>2, <2>3 DEF SweepExpire, NextAfterDelete, TypeOK
<1>9. CASE SweepKeep
  BY <1>9 DEF SweepKeep, TypeOK
<1>10. CASE SweepFault
  BY <1>10, DieType DEF SweepFault, TypeOK
<1>11. CASE SweepDone
  BY <1>11 DEF SweepDone, TypeOK
<1>12. CASE SignalRound
  BY <1>12 DEF SignalRound, TypeOK
<1> QED
  BY <1>1, <1>2, <1>3, <1>4, <1>5, <1>6, <1>7, <1>8, <1>9, <1>10, <1>11, <1>12 DEF CoapStep

(* Type correctness is kept by every step of the console and of the        *)
(* telemetry thread.                                                       *)
LEMMA SenderType ==
  ASSUME TypeOK, ConsoleStep \/ YCStep
  PROVE  TypeOK'
<1> USE DEF mqVars, loopVars, listVars, wireVars, paraVars, ycVars
<1>1. ASSUME NEW r \in BlockReqs, CommandBlock(r)
      PROVE  TypeOK'
  <2>1. r \in Requests
    BY DEF Requests
  <2> QED
    BY <1>1, <2>1, MqSendType DEF CommandBlock, TypeOK
<1>2. ASSUME NEW r \in AskReqs, CommandAsk(r)
      PROVE  TypeOK'
  <2>1. r \in Requests
    BY DEF Requests
  <2> QED
    BY <1>2, <2>1, MqSendType DEF CommandAsk, TypeOK
<1>3. ASSUME NEW r \in AskReqs, EnterWait(r)
      PROVE  TypeOK'
  BY <1>3 DEF EnterWait, TypeOK
<1>4. CASE CommandOutOfMemory
  BY <1>4, DieType DEF CommandOutOfMemory, TypeOK
<1>5. CASE OpenRound \/ TimeRound \/ AwaitRound
  BY <1>5 DEF OpenRound, TimeRound, AwaitRound, TypeOK
<1>6. ASSUME NEW r \in PollReqs, PostPoll(r)
      PROVE  TypeOK'
  <2>1. r \in Requests
    BY DEF Requests
  <2> QED
    BY <1>6, <2>1, MqSendType DEF PostPoll, TypeOK
<1> QED
  BY <1>1, <1>2, <1>3, <1>4, <1>5, <1>6 DEF ConsoleStep, YCStep

(* Type correctness is kept by every step of the gateway. *)
LEMMA TypeStep ==
  ASSUME TypeOK, [Next]_vars
  PROVE  TypeOK'
<1> USE DEF mqVars, loopVars, listVars, wireVars, paraVars, ycVars
<1>1. CASE Tick
  BY <1>1 DEF Tick, TypeOK
<1>2. CASE Restart
  BY <1>2, ConstantTypes DEF Restart, TypeOK
<1>3. CASE UNCHANGED vars
  BY <1>3 DEF vars, TypeOK
<1> QED
  BY <1>1, <1>2, <1>3, CoapType, SenderType DEF Next

(* Every reachable state of the gateway is well typed, and the queue never *)
(* holds more than mq_maxmsg messages.                                     *)
THEOREM TypeCorrect == Spec => []TypeOK
<1>1. Init => TypeOK
  BY ConstantTypes DEF Init, TypeOK
<1> QED
  BY <1>1, TypeStep, PTL DEF Spec

-----------------------------------------------------------------------------
(* The parts of the inductive invariant a step must establish when the type *)
(* invariant is known before and after it: what is told, and not stamped    *)
(* again, stays justified as time passes.                                   *)
LEMMA JustifiedKept ==
  ASSUME IInv, TypeOK', InOnePlace', told' = told, now' >= now,
         \A r \in told : stamp'[r] = stamp[r]
  PROVE  TimeoutJustified'
<1>1. ASSUME NEW r \in told
      PROVE  now' - stamp'[r] >= Timing(r)
  <2>1. r \in Requests /\ stamp[r] \in Nat /\ now \in Nat /\ now' \in Nat
        /\ stamp'[r] = stamp[r]
    BY <1>1 DEF IInv, TypeOK
  <2>2. Timing(r) \in Nat
    BY ConstantTypes DEF Timing
  <2>3. now - stamp[r] >= Timing(r)
    BY <1>1 DEF IInv, TimeoutJustified
  <2> QED
    BY <2>1, <2>2, <2>3
<1>2. \A r \in told' : r \notin Listed' \cup Queued'
  BY DEF InOnePlace
<1> QED
  BY <1>1, <1>2 DEF TimeoutJustified, Timing

(* A step that leaves the queue, the list and what was told alone. *)
LEMMA FrameStep ==
  ASSUME IInv, TypeOK',
         UNCHANGED <<mq, posted, list, told, stamp, restarts, tmpReq>>,
         now' >= now, timeNow' <= now', Alive, Alive',
         pc' = "sweep" => cursor' = 1 \/ UNCHANGED <<pc, cursor, timeNow>>
  PROVE  IInv'
<1>1. InOnePlace'
  BY DEF IInv, InOnePlace, Queued, Listed
<1>2. TimeoutJustified'
  BY <1>1, JustifiedKept
<1>3. SweptIsFresh'
  <2>1. CASE pc' = "sweep" /\ UNCHANGED <<pc, cursor, timeNow>>
    BY <2>1 DEF IInv, SweptIsFresh, Overdue, Timing
  <2>2. CASE cursor' = 1
    BY <2>2 DEF SweptIsFresh
  <2>3. CASE pc' # "sweep"
    BY <2>3 DEF SweptIsFresh
  <2> QED
    BY <2>1, <2>2, <2>3
<1>4. NothingLost' /\ DeadIsStill'
  BY DEF IInv, NothingLost, Queued, Listed, DeadIsStill
<1> QED
  BY <1>1, <1>2, <1>3, <1>4 DEF IInv

(* The process dies: the list is gone, the queue keeps what it held except  *)
(* for a message that was being handled.                                    *)
LEMMA DieStep ==
  ASSUME IInv, TypeOK', Die,
         \/ mq' = mq
         \/ mq # <<>> /\ mq' = Dequeue
  PROVE  IInv'
<1>1. Queued' \subseteq Queued /\ IsInjective(mq')
  <2>1. CASE mq' = mq
    BY <2>1 DEF IInv, InOnePlace, Queued
  <2>2. CASE mq # <<>> /\ mq' = Dequeue
    BY <2>2, TailSet DEF IInv, TypeOK, InOnePlace, Queued, Dequeue
  <2> QED
    BY <2>1, <2>2
<1>2. Listed' = {} /\ IsInjective(list')
  BY DEF Die, Listed, ToSet, IsInjective
<1>3. InOnePlace'
  BY <1>1, <1>2 DEF IInv, InOnePlace, Die
<1>4. TimeoutJustified'
  BY <1>3, JustifiedKept DEF Die, IInv, TypeOK
<1>5. timeNow' <= now' /\ SweptIsFresh' /\ NothingLost' /\ DeadIsStill'
  BY DEF Die, SweptIsFresh, NothingLost, DeadIsStill, Alive, IInv, TypeOK
<1> QED
  BY <1>3, <1>4, <1>5 DEF IInv

(* mq_send by the console or the telemetry thread. *)
LEMMA SendStep ==
  ASSUME IInv, TypeOK', NEW r \in Requests, MqSend(r), Alive,
         UNCHANGED <<now, loopVars, listVars, told, restarts>>
  PROVE  IInv'
<1> USE DEF loopVars, listVars
<1>1. r \notin ToSet(posted)
  BY LenProperties DEF MqSend, Fresh, Contains, ToSet, IInv, TypeOK
<1>2. r \notin Queued \cup Listed \cup told
  BY <1>1 DEF IInv, InOnePlace
<1>3. /\ IsInjective(mq')
      /\ \/ Queued' = Queued /\ ToSet(posted)' = ToSet(posted)
         \/ Queued' = Queued \cup {r} /\ ToSet(posted)' = ToSet(posted) \cup {r}
  <2>1. CASE HasRoom
    <3>1. mq' = Append(mq, r) /\ posted' = Append(posted, r)
      BY <2>1 DEF MqSend
    <3>2. mq \in Seq(Requests) /\ posted \in Seq(Requests) /\ IsInjective(mq)
      BY DEF IInv, TypeOK, InOnePlace
    <3> QED
      BY <3>1, <3>2, <1>2, AppendSet, AppendInjectiveSeq DEF Queued
  <2>2. CASE ~HasRoom
    BY <2>2 DEF MqSend, IInv, InOnePlace, Queued
  <2> QED
    BY <2>1, <2>2
<1>4. InOnePlace'
  BY <1>2, <1>3 DEF IInv, InOnePlace, Listed
<1>5. TimeoutJustified'
  BY <1>4, JustifiedKept DEF IInv, TypeOK
<1>6. SweptIsFresh' /\ timeNow' <= now'
  BY DEF IInv, SweptIsFresh, Overdue, Timing
<1>7. NothingLost' /\ DeadIsStill'
  BY <1>3 DEF IInv, NothingLost, DeadIsStill, Alive, Listed
<1> QED
  BY <1>4, <1>5, <1>6, <1>7 DEF IInv

(* A message is taken off the queue: handed over, or discarded. *)
LEMMA TakeStep ==
  ASSUME IInv, TypeOK', DiscardRequest \/ AcceptRequest
  PROVE  IInv'
<1> USE DEF listVars, paraVars
<1> DEFINE r == Head(mq)
<1>1. /\ mq \in Seq(Requests) /\ list \in Seq(Requests) /\ mq # <<>>
      /\ IsInjective(mq) /\ IsInjective(list)
  BY DEF IInv, TypeOK, InOnePlace, DiscardRequest, AcceptRequest, CanTake
<1>2. mq' = Tail(mq) /\ UNCHANGED <<posted, told, now, timeNow, restarts>> /\ pc' = "read"
  BY DEF DiscardRequest, AcceptRequest, CanTake, Dequeue
<1>3. Queued' = Queued \ {r} /\ r \in Queued /\ IsInjective(mq')
  BY <1>1, <1>2, TailSet DEF Queued
<1>4. r \in Requests /\ r \notin Listed /\ r \notin told
  BY <1>1, <1>3, HeadTailProperties DEF IInv, InOnePlace
<1>5. SweptIsFresh' /\ timeNow' <= now' /\ DeadIsStill'
  BY <1>2 DEF SweptIsFresh, DeadIsStill, Alive, IInv
<1>6. CASE UNCHANGED listVars
  <2>1. InOnePlace'
    BY <1>2, <1>3, <1>6 DEF IInv, InOnePlace, Listed
  <2>2. TimeoutJustified'
    BY <2>1, <1>2, <1>6, JustifiedKept DEF IInv, TypeOK
  <2>3. AllocFails \/ tmpReq' = "LTU_NOACK" \/ list' = Append(list, r)
    BY <1>6 DEF DiscardRequest, AcceptRequest, CanTake, Remember, LLAppend
  <2>4. list' # Append(list, r)
    BY <1>1, <1>4, <1>6, AppendSet DEF Listed
  <2>5. NothingLost'
    BY <2>3, <2>4 DEF NothingLost
  <2> QED
    BY <1>5, <2>1, <2>2, <2>5 DEF IInv
<1>7. CASE /\ AcceptRequest
           /\ list' = Append(list, r)
           /\ stamp' = [stamp EXCEPT ![r] = now]
  <2>1. Listed' = Listed \cup {r} /\ IsInjective(list')
    BY <1>1, <1>4, <1>7, AppendSet, AppendInjectiveSeq DEF Listed
  <2>2. InOnePlace'
    BY <1>2, <1>3, <1>4, <2>1 DEF IInv, InOnePlace
  <2>3. \A q \in told : stamp'[q] = stamp[q]
    BY <1>4, <1>7 DEF IInv, TypeOK
  <2>4. TimeoutJustified'
    BY <2>2, <2>3, <1>2, JustifiedKept DEF IInv, TypeOK
  <2>5. tmpReq # "LTU_NOACK" /\ Alive
    BY <1>7 DEF AcceptRequest, CanTake, Alive
  <2>6. NothingLost'
    BY <1>2, <1>3, <2>1, <2>5 DEF IInv, NothingLost
  <2> QED
    BY <1>5, <2>2, <2>4, <2>6 DEF IInv
<1> QED
  BY <1>6, <1>7 DEF DiscardRequest, AcceptRequest, CanTake, Remember, LLAppend

(* The sweep deletes an element whose time is over. *)
LEMMA ExpireStep ==
  ASSUME IInv, TypeOK', SweepExpire
  PROVE  IInv'
<1> DEFINE r == list[cursor]
<1>1. /\ list \in Seq(Requests) /\ cursor \in 1 .. Len(list) /\ IsInjective(list)
      /\ Len(list) \in Nat /\ DOMAIN list = 1 .. Len(list)
  BY LenProperties DEF IInv, TypeOK, InOnePlace, SweepExpire
<1>2. /\ list' = RemoveAt(list, cursor) /\ told' = told \cup {r} /\ cursor' = cursor
      /\ UNCHANGED <<mq, posted, refused, now, stamp, timeNow, pc, tmpReq, restarts>>
  BY DEF SweepExpire, LLDelete, NextAfterDelete, mqVars
<1>3. Listed' = Listed \ {r} /\ r \in Listed /\ IsInjective(list') /\ r \in Requests
  <2>1. Listed' = Listed \ {r} /\ IsInjective(list')
    BY <1>1, <1>2, RemoveAtSet DEF Listed
  <2>2. r \in Listed /\ r \in Requests
    BY <1>1 DEF Listed, ToSet
  <2> QED
    BY <2>1, <2>2
<1>4. InOnePlace'
  BY <1>2, <1>3 DEF IInv, InOnePlace, Queued
<1>5. TimeoutJustified'
  <2>1. now - stamp[r] >= Timing(r)
    <3>1. timeNow - stamp[r] >= Timing(r) /\ timeNow <= now
      BY DEF SweepExpire, Overdue, IInv
    <3>2. timeNow \in Nat /\ now \in Nat /\ stamp[r] \in Nat /\ Timing(r) \in Nat
      BY <1>3, ConstantTypes DEF IInv, TypeOK, Timing
    <3> QED
      BY <3>1, <3>2
  <2>2. \A q \in told' : now - stamp[q] >= Timing(q)
    BY <2>1, <1>2 DEF IInv, TimeoutJustified
  <2>3. \A q \in told' : q \notin Listed' \cup Queued'
    BY <1>4 DEF InOnePlace
  <2> QED
    BY <1>2, <2>2, <2>3 DEF TimeoutJustified, Timing
<1>6. SweptIsFresh'
  <2> SUFFICES ASSUME NEW i \in 1 .. cursor - 1, i <= Len(list')
               PROVE  ~Overdue(list[i])'
    BY <1>2 DEF SweptIsFresh
  <2>1. i \in 1 .. Len(list) - 1 /\ i < cursor
    BY <1>1
  <2>2. list'[i] = list[i]
    BY <2>1, <1>1, <1>2, RemoveAtProperties
  <2>3. ~Overdue(list[i])
    BY <2>1, <1>1 DEF IInv, SweptIsFresh, SweepExpire
  <2> QED
    BY <2>2, <2>3, <1>2 DEF Overdue, Timing
<1>7. NothingLost'
  BY <1>2, <1>3 DEF IInv, NothingLost, Alive, Queued
<1>8. timeNow' <= now' /\ DeadIsStill'
  BY <1>2 DEF IInv, DeadIsStill, Alive, SweepExpire
<1> QED
  BY <1>4, <1>5, <1>6, <1>7, <1>8 DEF IInv

(* The sweep goes past an element whose time is not over. *)
LEMMA KeepStep ==
  ASSUME IInv, TypeOK', SweepKeep
  PROVE  IInv'
<1> USE DEF mqVars, listVars, paraVars
<1>1. InOnePlace'
  BY DEF IInv, InOnePlace, Queued, Listed, SweepKeep
<1>2. TimeoutJustified'
  BY <1>1, JustifiedKept DEF SweepKeep, IInv, TypeOK
<1>3. SweptIsFresh'
  <2> SUFFICES ASSUME NEW i \in 1 .. cursor' - 1, i <= Len(list')
               PROVE  ~Overdue(list[i])'
    BY DEF SweptIsFresh
  <2>1. cursor \in Nat /\ cursor' = cursor + 1 /\ i \in 1 .. cursor
    BY DEF SweepKeep, IInv, TypeOK
  <2>2. ~Overdue(list[i])
    <3>1. CASE i = cursor
      BY <3>1 DEF SweepKeep
    <3>2. CASE i \in 1 .. cursor - 1
      BY <3>2 DEF SweepKeep, IInv, SweptIsFresh
    <3> QED
      BY <2>1, <3>1, <3>2
  <2> QED
    BY <2>2 DEF SweepKeep, Overdue, Timing
<1>4. NothingLost' /\ timeNow' <= now' /\ DeadIsStill'
  BY DEF IInv, NothingLost, DeadIsStill, Alive, Queued, Listed, SweepKeep
<1> QED
  BY <1>1, <1>2, <1>3, <1>4 DEF IInv

(* A new process starts with an empty list and the queue of the dead one. *)
LEMMA RestartStep ==
  ASSUME IInv, TypeOK', Restart
  PROVE  IInv'
<1> USE DEF mqVars, listVars, paraVars
<1>1. InOnePlace'
  BY DEF IInv, InOnePlace, Queued, Listed, Restart
<1>2. TimeoutJustified'
  BY <1>1, JustifiedKept DEF Restart, IInv, TypeOK
<1>3. SweptIsFresh' /\ timeNow' <= now'
  BY DEF Restart, SweptIsFresh, IInv
<1>4. NothingLost' /\ DeadIsStill'
  BY DEF Restart, NothingLost, DeadIsStill, Alive, IInv, TypeOK
<1> QED
  BY <1>1, <1>2, <1>3, <1>4 DEF IInv

(* The inductive invariant is kept by every step of the CoAP thread. *)
LEMMA CoapInv ==
  ASSUME IInv, TypeOK', CoapStep
  PROVE  IInv'
<1> USE DEF mqVars, listVars, paraVars
<1>1. now \in Nat /\ timeNow \in Nat /\ timeNow <= now
  BY DEF IInv, TypeOK
<1>2. CASE DiscardRequest \/ AcceptRequest
  BY <1>2, TakeStep
<1>3. CASE AcceptOutOfMemory
  BY <1>3, DieStep DEF AcceptOutOfMemory, CanTake
<1>4. CASE Retransmit
  BY <1>1, <1>4, FrameStep DEF Retransmit, Alive
<1>5. CASE ReadNothing
  BY <1>1, <1>5, FrameStep DEF ReadNothing, StartSweep, Alive
<1>6. ASSUME NEW r \in Requests, ReadAck(r) \/ ReadResponse(r)
      PROVE  IInv'
  BY <1>1, <1>6, FrameStep DEF ReadAck, ReadResponse, StartSweep, Alive
<1>7. ASSUME NEW r \in Requests, ReadContent(r)
      PROVE  IInv'
  BY <1>7, DieStep DEF ReadContent
<1>8. CASE SweepExpire
  BY <1>8, ExpireStep
<1>9. CASE SweepKeep
  BY <1>9, KeepStep
<1>10. CASE SweepFault
  BY <1>10, DieStep DEF SweepFault
<1>11. CASE SweepDone
  BY <1>1, <1>11, FrameStep DEF SweepDone, Alive
<1>12. CASE SignalRound
  BY <1>1, <1>12, FrameStep DEF SignalRound, Alive
<1> QED
  BY <1>2, <1>3, <1>4, <1>5, <1>6, <1>7, <1>8, <1>9, <1>10, <1>11, <1>12 DEF CoapStep

(* The inductive invariant is kept by every step of the console and of the  *)
(* telemetry thread.                                                        *)
LEMMA SenderInv ==
  ASSUME IInv, TypeOK', ConsoleStep \/ YCStep
  PROVE  IInv'
<1> USE DEF mqVars, loopVars, listVars, paraVars, ycVars
<1>1. now \in Nat /\ timeNow \in Nat /\ timeNow <= now
  BY DEF IInv, TypeOK
<1>2. ASSUME NEW r \in Requests, MqSend(r), AtPrompt \/ yc = "post",
             UNCHANGED <<now, loopVars, listVars, told, restarts>>
      PROVE  IInv'
  BY <1>2, SendStep DEF IInv, DeadIsStill, AtPrompt
<1>3. ASSUME NEW r \in BlockReqs, CommandBlock(r)
      PROVE  IInv'
  BY <1>2, <1>3 DEF CommandBlock, Requests
<1>4. ASSUME NEW r \in AskReqs, CommandAsk(r)
      PROVE  IInv'
  BY <1>2, <1>4 DEF CommandAsk, Requests
<1>5. ASSUME NEW r \in AskReqs, EnterWait(r)
      PROVE  IInv'
  <2>1. Alive
    BY <1>5 DEF EnterWait, IInv, DeadIsStill
  <2> QED
    BY <1>1, <1>5, <2>1, FrameStep DEF EnterWait, Alive
<1>6. CASE CommandOutOfMemory
  BY <1>6, DieStep DEF CommandOutOfMemory
<1>7. CASE OpenRound \/ TimeRound \/ AwaitRound
  <2>1. Alive
    BY <1>7 DEF OpenRound, TimeRound, AwaitRound, IInv, DeadIsStill
  <2> QED
    BY <1>1, <1>7, <2>1, FrameStep DEF OpenRound, TimeRound, AwaitRound, Alive
<1>8. ASSUME NEW r \in PollReqs, PostPoll(r)
      PROVE  IInv'
  BY <1>2, <1>8 DEF PostPoll, Requests
<1> QED
  BY <1>3, <1>4, <1>5, <1>6, <1>7, <1>8 DEF ConsoleStep, YCStep

(* The inductive invariant holds in every reachable state of the gateway. *)
THEOREM InvariantHolds == Spec => []IInv
<1>1. Init => IInv
  <2> SUFFICES ASSUME Init PROVE IInv
    OBVIOUS
  <2>1. mq = <<>> /\ list = <<>> /\ posted = <<>> /\ told = {}
    BY DEF Init
  <2>2. Queued = {} /\ Listed = {} /\ ToSet(posted) = {}
    BY <2>1 DEF Queued, Listed, ToSet
  <2>3. InOnePlace
    BY <2>1, <2>2 DEF InOnePlace, IsInjective
  <2>4. TypeOK /\ timeNow <= now
    BY ConstantTypes DEF Init, TypeOK
  <2>5. TimeoutJustified /\ SweptIsFresh /\ NothingLost /\ DeadIsStill
    BY <2>1, <2>2 DEF Init, TimeoutJustified, SweptIsFresh, NothingLost, DeadIsStill, Alive
  <2> QED
    BY <2>3, <2>4, <2>5 DEF IInv
<1>2. IInv /\ [Next]_vars => IInv'
  <2> SUFFICES ASSUME IInv, [Next]_vars
               PROVE  IInv'
    OBVIOUS
  <2> USE DEF mqVars, loopVars, listVars, paraVars, ycVars
  <2>1. TypeOK'
    BY TypeStep DEF IInv
  <2>2. CASE Tick /\ Alive
    BY <2>1, <2>2, FrameStep DEF Tick, Alive, IInv, TypeOK
  <2>3. CASE Tick /\ ~Alive
    <3>1. InOnePlace'
      BY <2>3 DEF Tick, IInv, InOnePlace, Queued, Listed
    <3>2. TimeoutJustified'
      BY <2>1, <2>3, <3>1, JustifiedKept DEF Tick, IInv, TypeOK
    <3>3. SweptIsFresh' /\ NothingLost' /\ DeadIsStill' /\ timeNow' <= now'
      BY <2>3 DEF Tick, SweptIsFresh, NothingLost, DeadIsStill, Alive, IInv, TypeOK
    <3> QED
      BY <2>1, <3>1, <3>2, <3>3 DEF IInv
  <2>4. CASE UNCHANGED vars
    <3>1. InOnePlace' /\ TimeoutJustified'
      BY <2>4 DEF vars, IInv, InOnePlace, TimeoutJustified, Queued, Listed, Timing
    <3>2. SweptIsFresh' /\ NothingLost' /\ DeadIsStill' /\ timeNow' <= now'
      BY <2>4 DEF vars, IInv, SweptIsFresh, Overdue, NothingLost, DeadIsStill, Alive,
                  Queued, Listed, Timing
    <3> QED
      BY <2>1, <3>1, <3>2 DEF IInv
  <2> QED
    BY <2>1, <2>2, <2>3, <2>4, CoapInv, SenderInv, RestartStep DEF Next
<1> QED
  BY <1>1, <1>2, PTL DEF Spec

(* A step that neither unlinks an element nor ends the process keeps the     *)
(* elements of the list.                                                     *)
LEMMA ListStep ==
  ASSUME IInv, [Next]_vars, ~SweepExpire, pc' # "dead"
  PROVE  Listed \subseteq Listed'
<1> USE DEF mqVars, loopVars, listVars, wireVars, paraVars, ycVars
<1>1. list \in Seq(Requests)
  BY DEF IInv, TypeOK
<1>2. CASE list' = list
  BY <1>2 DEF Listed
<1>3. CASE AcceptRequest
  <2>1. Head(mq) \in Requests
    BY <1>3, DequeueType DEF AcceptRequest, CanTake, IInv
  <2>2. list' = Append(list, Head(mq)) \/ list' = list
    BY <1>3 DEF AcceptRequest, Remember, LLAppend
  <2>3. CASE list' = Append(list, Head(mq))
    <3>1. ToSet(list') = ToSet(list) \cup {Head(mq)}
      BY <1>1, <2>1, <2>3, AppendSet
    <3> QED
      BY <3>1 DEF Listed
  <2> QED
    BY <1>2, <2>2, <2>3
<1>4. CASE CoapStep /\ ~AcceptRequest
  BY <1>2, <1>4
  DEF CoapStep, DiscardRequest, AcceptOutOfMemory, Retransmit, ReadNothing, ReadAck,
      ReadResponse, ReadContent, StartSweep, SweepKeep, SweepFault, SweepDone, SignalRound, Die
<1>5. CASE ConsoleStep
  BY <1>2, <1>5 DEF ConsoleStep, CommandBlock, CommandAsk, EnterWait, CommandOutOfMemory, Die
<1>6. CASE YCStep
  BY <1>2, <1>6 DEF YCStep, OpenRound, TimeRound, PostPoll, AwaitRound
<1>7. CASE Tick \/ Restart \/ UNCHANGED vars
  BY <1>2, <1>7 DEF Tick, Restart, vars
<1> QED
  BY <1>3, <1>4, <1>5, <1>6, <1>7 DEF Next

(* An element leaves the list of a living process only when its sender is   *)
(* told that its time is over: LL_DELETE takes no other element out.        *)
THEOREM OnlyToldLeave == Spec => LeavesOnlyTold
<1> DEFINE Step == \A r \in Listed : r \notin Listed' => r \in told' \/ pc' = "dead"
<1>1. IInv /\ [Next]_vars => [Step]_vars
  <2> SUFFICES ASSUME IInv, [Next]_vars, pc' # "dead"
               PROVE  \A r \in Listed : r \notin Listed' => r \in told'
    OBVIOUS
  <2>1. CASE SweepExpire
    <3>1. /\ list \in Seq(Requests) /\ cursor \in 1 .. Len(list) /\ IsInjective(list)
          /\ list' = RemoveAt(list, cursor) /\ told' = told \cup {list[cursor]}
      BY <2>1, LenProperties DEF SweepExpire, LLDelete, IInv, TypeOK, InOnePlace
    <3>2. Listed' = Listed \ {list[cursor]}
      BY <3>1, RemoveAtSet DEF Listed
    <3> QED
      BY <3>1, <3>2
  <2>2. CASE ~SweepExpire
    BY <2>2, ListStep
  <2> QED
    BY <2>1, <2>2
<1> QED
  BY <1>1, InvariantHolds, PTL DEF Spec, LeavesOnlyTold

(* A sender is told that its time is over (CoAPpthread.c:508-510) only once  *)
(* that is so, and never twice.                                              *)
THEOREM TimeoutsJustified == Spec => []TimeoutJustified
  BY InvariantHolds, PTL DEF IInv

(* The deleting sweep of CoAPpthread.c:505-517 overlooks no element.         *)
THEOREM SweepComplete == Spec => []SweptIsFresh
  BY InvariantHolds, PTL DEF IInv

(* Until the process first dies no accepted request is lost between the      *)
(* queue, the list and its sender.                                           *)
THEOREM NothingIsLost == Spec => []NothingLost
  BY InvariantHolds, PTL DEF IInv

-----------------------------------------------------------------------------
(***************************************************************************)
(* Proof that the gateway keeps its requests in the order in which the     *)
(* message queue accepted them, whichever thread sent them, whatever is    *)
(* discarded, expires or is lost in a crash.                               *)
(*                                                                         *)
(* List and queue together are one sequence: taking a request over moves   *)
(* the border between them, and everything else that can happen to them    *)
(* takes elements out or adds the newest one at the end.                   *)
(***************************************************************************)

(* The requests under way, the oldest first. *)
UnderWay == list \o mq

(* t is what is left of s after elements were taken out. *)
Thinned(t, s) ==
  \E e \in [1 .. Len(t) -> 1 .. Len(s)] :
    /\ \A i, j \in 1 .. Len(t) : i < j => e[i] < e[j]
    /\ \A i \in 1 .. Len(t) : t[i] = s[e[i]]

(* The position of x in s. *)
Position(s, x) == CHOOSE i \in 1 .. Len(s) : s[i] = x

(* An element of a sequence has a position. *)
LEMMA PositionProperties ==
  ASSUME NEW S, NEW s \in Seq(S), NEW x \in ToSet(s)
  PROVE  Position(s, x) \in 1 .. Len(s) /\ s[Position(s, x)] = x
<1>1. DOMAIN s = 1 .. Len(s)
  BY LenProperties
<1>2. \E i \in 1 .. Len(s) : s[i] = x
  BY <1>1 DEF ToSet
<1> QED
  BY <1>2 DEF Position

(* A new element at the end of a sequence without repetitions leaves the    *)
(* positions of the others.                                                 *)
LEMMA PositionAppend ==
  ASSUME NEW S, NEW s \in Seq(S), NEW e \in S, IsInjective(s), e \notin ToSet(s)
  PROVE  /\ \A x \in ToSet(s) : Position(Append(s, e), x) = Position(s, x)
         /\ Position(Append(s, e), e) = Len(s) + 1
<1> DEFINE a == Append(s, e)
<1>1. /\ a \in Seq(S) /\ Len(a) = Len(s) + 1 /\ Len(s) \in Nat
      /\ \A i \in 1 .. Len(s) : a[i] = s[i]
      /\ a[Len(s) + 1] = e
      /\ DOMAIN a = 1 .. Len(a)
  BY AppendProperties, LenProperties
<1>2. IsInjective(a) /\ ToSet(a) = ToSet(s) \cup {e}
  BY AppendInjectiveSeq, AppendSet
<1> HIDE DEF a
<1>3. \A i, j \in 1 .. Len(a) : a[i] = a[j] => i = j
  BY <1>1, <1>2 DEF IsInjective
<1>4. ASSUME NEW x \in ToSet(s)
      PROVE  Position(a, x) = Position(s, x)
  <2>1. Position(s, x) \in 1 .. Len(s) /\ s[Position(s, x)] = x
    BY PositionProperties
  <2>2. Position(a, x) \in 1 .. Len(a) /\ a[Position(a, x)] = x
    BY <1>1, <1>2, PositionProperties
  <2>3. Position(s, x) \in 1 .. Len(a) /\ a[Position(s, x)] = x
    BY <2>1, <1>1
  <2> QED
    BY <2>2, <2>3, <1>3
<1>5. Position(a, e) = Len(s) + 1
  <2>1. Position(a, e) \in 1 .. Len(a) /\ a[Position(a, e)] = e
    BY <1>1, <1>2, PositionProperties
  <2>2. Len(s) + 1 \in 1 .. Len(a)
    BY <1>1
  <2> QED
    BY <2>1, <2>2, <1>1, <1>3
<1> QED
  BY <1>4, <1>5 DEF a

-----------------------------------------------------------------------------
(* The elements of two sequences put together, by their positions. *)
LEMMA JoinProperties ==
  ASSUME NEW S, NEW s \in Seq(S), NEW t \in Seq(S)
  PROVE  /\ s \o t \in Seq(S) /\ Len(s) \in Nat /\ Len(t) \in Nat
         /\ Len(s \o t) = Len(s) + Len(t)
         /\ \A i \in 1 .. Len(s) + Len(t) :
              (s \o t)[i] = IF i <= Len(s) THEN s[i] ELSE t[i - Len(s)]
  BY ConcatProperties, LenProperties, Zenon

(* Nothing taken out. *)
LEMMA ThinnedSelf ==
  ASSUME NEW S, NEW s \in Seq(S)
  PROVE  Thinned(s, s)
<1> DEFINE e == [i \in 1 .. Len(s) |-> i]
<1>1. /\ e \in [1 .. Len(s) -> 1 .. Len(s)]
      /\ \A i, j \in 1 .. Len(s) : i < j => e[i] < e[j]
      /\ \A i \in 1 .. Len(s) : s[i] = s[e[i]]
  OBVIOUS
<1> QED
  BY <1>1 DEF Thinned

(* The elements of the list that LL_DELETE leaves. *)
LEMMA ThinnedRemoveAt ==
  ASSUME NEW S, NEW s \in Seq(S), NEW k \in 1 .. Len(s)
  PROVE  Thinned(RemoveAt(s, k), s)
<1> DEFINE t == RemoveAt(s, k)
           e == [i \in 1 .. Len(t) |-> IF i < k THEN i ELSE i + 1]
<1>1. /\ Len(t) = Len(s) - 1 /\ Len(s) \in Nat
      /\ \A j \in 1 .. Len(s) - 1 : t[j] = IF j < k THEN s[j] ELSE s[j + 1]
  BY RemoveAtProperties, LenProperties
<1> HIDE DEF t
<1>2. /\ e \in [1 .. Len(t) -> 1 .. Len(s)]
      /\ \A i, j \in 1 .. Len(t) : i < j => e[i] < e[j]
      /\ \A i \in 1 .. Len(t) : t[i] = s[e[i]]
  BY <1>1
<1> QED
  BY <1>2 DEF Thinned, t

(* An element deleted from the list is an element taken out of list and     *)
(* queue together.                                                          *)
LEMMA ThinnedDelete ==
  ASSUME NEW S, NEW s \in Seq(S), NEW t \in Seq(S), NEW k \in 1 .. Len(s)
  PROVE  Thinned(RemoveAt(s, k) \o t, s \o t)
<1> DEFINE d == RemoveAt(s, k)
           u == d \o t
           v == s \o t
           e == [i \in 1 .. Len(u) |-> IF i < k THEN i ELSE i + 1]
<1>1. /\ d \in Seq(S) /\ Len(d) = Len(s) - 1
      /\ \A j \in 1 .. Len(s) - 1 : d[j] = IF j < k THEN s[j] ELSE s[j + 1]
  BY RemoveAtProperties
<1> HIDE DEF d
<1>2. /\ Len(v) = Len(s) + Len(t) /\ Len(s) \in Nat /\ Len(t) \in Nat
      /\ \A i \in 1 .. Len(s) + Len(t) : v[i] = IF i <= Len(s) THEN s[i] ELSE t[i - Len(s)]
  BY JoinProperties
<1>3. /\ Len(u) = Len(d) + Len(t)
      /\ \A i \in 1 .. Len(d) + Len(t) : u[i] = IF i <= Len(d) THEN d[i] ELSE t[i - Len(d)]
  BY <1>1, JoinProperties
<1> HIDE DEF u, v
<1>4. /\ e \in [1 .. Len(u) -> 1 .. Len(v)]
      /\ \A i, j \in 1 .. Len(u) : i < j => e[i] < e[j]
  BY <1>1, <1>2, <1>3
<1>5. ASSUME NEW i \in 1 .. Len(u)
      PROVE  u[i] = v[e[i]]
  <2>1. CASE i <= Len(d)
    BY <2>1, <1>1, <1>2, <1>3
  <2>2. CASE ~(i <= Len(d))
    <3>1. e[i] = i + 1 /\ i + 1 \in 1 .. Len(s) + Len(t) /\ ~(i + 1 <= Len(s))
          /\ i - Len(d) = i + 1 - Len(s)
      BY <2>2, <1>1, <1>2, <1>3
    <3> QED
      BY <3>1, <2>2, <1>2, <1>3
  <2> QED
    BY <2>1, <2>2
<1> QED
  BY <1>4, <1>5 DEF Thinned, u, v, d

(* The message at the head of the queue is gone, the list is not. *)
LEMMA ThinnedDequeue ==
  ASSUME NEW S, NEW s \in Seq(S), NEW t \in Seq(S), t # <<>>
  PROVE  Thinned(s \o Tail(t), s \o t)
<1> DEFINE u == s \o Tail(t)
           v == s \o t
           e == [i \in 1 .. Len(u) |-> IF i <= Len(s) THEN i ELSE i + 1]
<1>1. /\ Tail(t) \in Seq(S) /\ Len(Tail(t)) = Len(t) - 1
      /\ \A i \in 1 .. Len(t) - 1 : Tail(t)[i] = t[i + 1]
  BY HeadTailProperties
<1>2. /\ Len(v) = Len(s) + Len(t) /\ Len(s) \in Nat /\ Len(t) \in Nat
      /\ \A i \in 1 .. Len(s) + Len(t) : v[i] = IF i <= Len(s) THEN s[i] ELSE t[i - Len(s)]
  BY JoinProperties
<1>3. /\ Len(u) = Len(s) + Len(t) - 1
      /\ \A i \in 1 .. Len(s) + Len(t) - 1 :
           u[i] = IF i <= Len(s) THEN s[i] ELSE Tail(t)[i - Len(s)]
  <2>1. /\ Len(u) = Len(s) + Len(Tail(t))
        /\ \A i \in 1 .. Len(s) + Len(Tail(t)) :
             u[i] = IF i <= Len(s) THEN s[i] ELSE Tail(t)[i - Len(s)]
    BY <1>1, JoinProperties
  <2>2. Len(s) + Len(Tail(t)) = Len(s) + Len(t) - 1
    BY <1>1, <1>2
  <2> QED
    BY <2>1, <2>2
<1> HIDE DEF u, v
<1>4. /\ e \in [1 .. Len(u) -> 1 .. Len(v)]
      /\ \A i, j \in 1 .. Len(u) : i < j => e[i] < e[j]
  BY <1>2, <1>3
<1>5. ASSUME NEW i \in 1 .. Len(u)
      PROVE  u[i] = v[e[i]]
  <2>1. CASE i <= Len(s)
    BY <2>1, <1>2, <1>3
  <2>2. CASE ~(i <= Len(s))
    <3>1. e[i] = i + 1 /\ i + 1 \in 1 .. Len(s) + Len(t) /\ ~(i + 1 <= Len(s))
          /\ i + 1 - Len(s) = (i - Len(s)) + 1 /\ i - Len(s) \in 1 .. Len(t) - 1
      BY <2>2, <1>2, <1>3
    <3>2. u[i] = Tail(t)[i - Len(s)] /\ v[i + 1] = t[i + 1 - Len(s)]
      BY <3>1, <2>2, <1>2, <1>3
    <3> QED
      BY <3>1, <3>2, <1>1
  <2> QED
    BY <2>1, <2>2
<1> QED
  BY <1>4, <1>5 DEF Thinned, u, v

(* The list is gone, the queue is not. *)
LEMMA ThinnedCrash ==
  ASSUME NEW S, NEW s \in Seq(S), NEW t \in Seq(S)
  PROVE  Thinned(t, s \o t)
<1> DEFINE v == s \o t
           e == [i \in 1 .. Len(t) |-> Len(s) + i]
<1>1. /\ Len(v) = Len(s) + Len(t) /\ Len(s) \in Nat /\ Len(t) \in Nat
      /\ \A i \in 1 .. Len(s) + Len(t) : v[i] = IF i <= Len(s) THEN s[i] ELSE t[i - Len(s)]
  BY JoinProperties
<1> HIDE DEF v
<1>2. /\ e \in [1 .. Len(t) -> 1 .. Len(v)]
      /\ \A i, j \in 1 .. Len(t) : i < j => e[i] < e[j]
  BY <1>1
<1>3. ASSUME NEW i \in 1 .. Len(t)
      PROVE  t[i] = v[e[i]]
  <2>1. e[i] = Len(s) + i /\ e[i] \in 1 .. Len(s) + Len(t) /\ ~(e[i] <= Len(s))
        /\ e[i] - Len(s) = i
    BY <1>1
  <2> QED
    BY <2>1, <1>1
<1> QED
  BY <1>2, <1>3 DEF Thinned, v

(* What is left of what is left. *)
LEMMA ThinnedTwice ==
  ASSUME NEW S, NEW s \in Seq(S), NEW t \in Seq(S), NEW u \in Seq(S),
         Thinned(u, t), Thinned(t, s)
  PROVE  Thinned(u, s)
<1>1. PICK e \in [1 .. Len(u) -> 1 .. Len(t)] :
        /\ \A i, j \in 1 .. Len(u) : i < j => e[i] < e[j]
        /\ \A i \in 1 .. Len(u) : u[i] = t[e[i]]
  BY DEF Thinned
<1>2. PICK d \in [1 .. Len(t) -> 1 .. Len(s)] :
        /\ \A i, j \in 1 .. Len(t) : i < j => d[i] < d[j]
        /\ \A i \in 1 .. Len(t) : t[i] = s[d[i]]
  BY DEF Thinned
<1> DEFINE f == [i \in 1 .. Len(u) |-> d[e[i]]]
<1>3. /\ f \in [1 .. Len(u) -> 1 .. Len(s)]
      /\ \A i, j \in 1 .. Len(u) : i < j => f[i] < f[j]
      /\ \A i \in 1 .. Len(u) : u[i] = s[f[i]]
  BY <1>1, <1>2
<1> QED
  BY <1>3 DEF Thinned

(* The message at the head of the queue moves to the end of the list. *)
LEMMA ThinnedMove ==
  ASSUME NEW S, NEW s \in Seq(S), NEW t \in Seq(S), t # <<>>
  PROVE  Thinned(Append(s, Head(t)) \o Tail(t), s \o t)
<1> DEFINE a == Append(s, Head(t))
           u == a \o Tail(t)
           v == s \o t
           e == [i \in 1 .. Len(u) |-> i]
<1>1. /\ Tail(t) \in Seq(S) /\ Len(Tail(t)) = Len(t) - 1
      /\ \A i \in 1 .. Len(t) - 1 : Tail(t)[i] = t[i + 1]
      /\ Head(t) \in S /\ Head(t) = t[1]
  BY HeadTailProperties
<1>2. /\ a \in Seq(S) /\ Len(a) = Len(s) + 1
      /\ \A i \in 1 .. Len(s) : a[i] = s[i]
      /\ a[Len(s) + 1] = t[1]
  BY <1>1, AppendProperties
<1> HIDE DEF a
<1>3. /\ Len(v) = Len(s) + Len(t) /\ Len(s) \in Nat /\ Len(t) \in Nat
      /\ \A i \in 1 .. Len(s) + Len(t) : v[i] = IF i <= Len(s) THEN s[i] ELSE t[i - Len(s)]
  BY JoinProperties
<1>4. /\ Len(u) = Len(a) + Len(Tail(t)) /\ Len(u) = Len(s) + Len(t)
      /\ \A i \in 1 .. Len(a) + Len(Tail(t)) :
           u[i] = IF i <= Len(a) THEN a[i] ELSE Tail(t)[i - Len(a)]
  <2>1. /\ Len(u) = Len(a) + Len(Tail(t))
        /\ \A i \in 1 .. Len(a) + Len(Tail(t)) :
             u[i] = IF i <= Len(a) THEN a[i] ELSE Tail(t)[i - Len(a)]
    BY <1>1, <1>2, JoinProperties
  <2> QED
    BY <2>1, <1>1, <1>2, <1>3
<1> HIDE DEF u, v
<1>5. ASSUME NEW i \in 1 .. Len(u)
      PROVE  u[i] = v[i]
  <2>1. CASE i <= Len(s)
    BY <2>1, <1>2, <1>3, <1>4
  <2>2. CASE i = Len(s) + 1
    <3>1. i - Len(s) = 1 /\ ~(i <= Len(s)) /\ i <= Len(a)
      BY <2>2, <1>2, <1>3
    <3> QED
      BY <3>1, <2>2, <1>2, <1>3, <1>4
  <2>3. CASE i > Len(s) + 1
    <3>1. /\ ~(i <= Len(s)) /\ ~(i <= Len(a)) /\ i - Len(a) \in 1 .. Len(t) - 1
          /\ (i - Len(a)) + 1 = i - Len(s)
      BY <2>3, <1>2, <1>3, <1>4
    <3>2. u[i] = Tail(t)[i - Len(a)] /\ v[i] = t[i - Len(s)]
      BY <3>1, <1>3, <1>4
    <3> QED
      BY <3>1, <3>2, <1>1
  <2> QED
    BY <2>1, <2>2, <2>3, <1>3
<1>6. /\ e \in [1 .. Len(u) -> 1 .. Len(v)]
      /\ \A i, j \in 1 .. Len(u) : i < j => e[i] < e[j]
      /\ \A i \in 1 .. Len(u) : u[i] = v[e[i]]
  BY <1>3, <1>4, <1>5
<1> QED
  BY <1>6 DEF Thinned, u, v, a

(* Taking elements out of a sequence keeps it in order. *)
LEMMA ThinnedSorted ==
  ASSUME NEW S, NEW s \in Seq(S), NEW t \in Seq(S), Thinned(t, s), NEW R,
         \A i, j \in 1 .. Len(s) : i < j => <<s[i], s[j]>> \in R
  PROVE  \A i, j \in 1 .. Len(t) : i < j => <<t[i], t[j]>> \in R
<1>1. PICK e \in [1 .. Len(t) -> 1 .. Len(s)] :
        /\ \A i, j \in 1 .. Len(t) : i < j => e[i] < e[j]
        /\ \A i \in 1 .. Len(t) : t[i] = s[e[i]]
  BY DEF Thinned
<1> TAKE i, j \in 1 .. Len(t)
<1> HAVE i < j
<1>2. e[i] \in 1 .. Len(s) /\ e[j] \in 1 .. Len(s) /\ e[i] < e[j]
  BY <1>1
<1> QED
  BY <1>1, <1>2

-----------------------------------------------------------------------------
(* The inductive invariant behind ArrivalOrder: mq_send accepts no request  *)
(* twice, so each has one place in the order of acceptance, and the stamps  *)
(* in the list are times that have been.                                    *)
OrderInv ==
  /\ IsInjective(posted)
  /\ ArrivalOrder
  /\ \A r \in Listed : stamp[r] <= now

(* A step that takes requests out of list and queue, or moves the head of   *)
(* the queue to the end of the list, keeps the order of acceptance.         *)
LEMMA PostedOrderKept ==
  ASSUME IInv, OrderInv, TypeOK', posted' = posted, Thinned(UnderWay', UnderWay)
  PROVE  IsSorted(list \o mq, LAMBDA q, r : PostedAt(q) < PostedAt(r))'
<1> DEFINE R == {p \in Requests \X Requests : PostedAt(p[1]) < PostedAt(p[2])}
<1>1. /\ list \in Seq(Requests) /\ mq \in Seq(Requests)
      /\ list' \in Seq(Requests) /\ mq' \in Seq(Requests)
  BY DEF IInv, TypeOK
<1>2. UnderWay \in Seq(Requests) /\ UnderWay' \in Seq(Requests)
  BY <1>1, JoinProperties DEF UnderWay
<1>3. \A i \in 1 .. Len(UnderWay) : UnderWay[i] \in Requests
  BY <1>2, ElementOfSeq
<1>4. \A i \in 1 .. Len(UnderWay') : UnderWay'[i] \in Requests
  BY <1>2, ElementOfSeq
<1>5. \A i, j \in 1 .. Len(UnderWay) : i < j => <<UnderWay[i], UnderWay[j]>> \in R
  BY <1>3 DEF OrderInv, ArrivalOrder, IsSorted, UnderWay
<1> HIDE DEF R
<1>6. \A i, j \in 1 .. Len(UnderWay') : i < j => <<UnderWay'[i], UnderWay'[j]>> \in R
  BY <1>2, <1>5, ThinnedSorted
<1>7. \A i, j \in 1 .. Len(UnderWay') :
        i < j => PostedAt(UnderWay'[i]) < PostedAt(UnderWay'[j])
  BY <1>4, <1>6 DEF R
<1>8. \A i, j \in 1 .. Len(UnderWay') :
        i < j => (PostedAt(UnderWay[i]) < PostedAt(UnderWay[j]))'
  BY <1>7 DEF PostedAt
<1> QED
  BY <1>8 DEF IsSorted, UnderWay

(* A step that takes elements out of the list keeps the order of its stamps. *)
LEMMA StampOrderKept ==
  ASSUME IInv, OrderInv, TypeOK', Thinned(list', list), \A r \in Listed : stamp'[r] = stamp[r]
  PROVE  /\ IsSorted(list, LAMBDA q, r : stamp[q] <= stamp[r])'
         /\ Listed' \subseteq Listed
<1> DEFINE R == {p \in Requests \X Requests : stamp'[p[1]] <= stamp'[p[2]]}
<1>1. list \in Seq(Requests) /\ list' \in Seq(Requests)
  BY DEF IInv, TypeOK
<1>2. /\ DOMAIN list = 1 .. Len(list) /\ DOMAIN list' = 1 .. Len(list')
      /\ \A i \in 1 .. Len(list) : list[i] \in Requests
      /\ \A i \in 1 .. Len(list') : list'[i] \in Requests
  BY <1>1, LenProperties, ElementOfSeq
<1>3. \A i \in 1 .. Len(list) : stamp'[list[i]] = stamp[list[i]]
  BY <1>2 DEF Listed, ToSet
<1>4. \A i, j \in 1 .. Len(list) : i < j => <<list[i], list[j]>> \in R
  BY <1>2, <1>3 DEF OrderInv, ArrivalOrder, IsSorted
<1> HIDE DEF R
<1>5. \A i, j \in 1 .. Len(list') : i < j => <<list'[i], list'[j]>> \in R
  BY <1>1, <1>4, ThinnedSorted
<1>6. \A i, j \in 1 .. Len(list') : i < j => stamp'[list'[i]] <= stamp'[list'[j]]
  BY <1>5 DEF R
<1>7. Listed' \subseteq Listed
  BY <1>2 DEF Thinned, Listed, ToSet
<1> QED
  BY <1>6, <1>7 DEF IsSorted

(* Any step but a submission and a take-over, in terms of what it does to   *)
(* list and queue.                                                          *)
LEMMA ThinStep ==
  ASSUME IInv, OrderInv, TypeOK', posted' = posted, now' >= now,
         Thinned(UnderWay', UnderWay), Thinned(list', list),
         \A r \in Listed : stamp'[r] = stamp[r]
  PROVE  OrderInv'
<1>1. ArrivalOrder'
  BY PostedOrderKept, StampOrderKept DEF ArrivalOrder
<1>2. \A r \in Listed' : stamp'[r] <= now'
  <2> TAKE r \in Listed'
  <2>1. r \in Listed /\ r \in Requests
    <3>1. list' \in Seq(Requests)
      BY DEF TypeOK
    <3>2. Listed' \subseteq Requests
      BY <3>1, LenProperties, ElementOfSeq DEF Listed, ToSet
    <3> QED
      BY <3>2, StampOrderKept
  <2>2. stamp[r] <= now /\ stamp'[r] = stamp[r] /\ stamp[r] \in Nat /\ now \in Nat /\ now' \in Nat
    BY <2>1 DEF OrderInv, IInv, TypeOK
  <2> QED
    BY <2>2
<1> QED
  BY <1>1, <1>2 DEF OrderInv

(* List and queue are left alone. *)
LEMMA SameStep ==
  ASSUME IInv, OrderInv, TypeOK', UNCHANGED <<list, mq, posted, stamp>>, now' >= now
  PROVE  OrderInv'
<1>1. list \in Seq(Requests) /\ mq \in Seq(Requests)
  BY DEF IInv, TypeOK
<1>2. UnderWay \in Seq(Requests) /\ UnderWay' = UnderWay
  BY <1>1, JoinProperties DEF UnderWay
<1> QED
  BY <1>1, <1>2, ThinnedSelf, ThinStep

(* A crash: the list is gone, and the message being handled may be. *)
LEMMA DieOrder ==
  ASSUME IInv, OrderInv, TypeOK', Die, mq' = mq \/ (mq # <<>> /\ mq' = Dequeue)
  PROVE  OrderInv'
<1>1. /\ list \in Seq(Requests) /\ mq \in Seq(Requests) /\ mq' \in Seq(Requests)
      /\ list' = <<>> /\ now \in Nat
      /\ UNCHANGED <<posted, now, stamp>>
  BY DEF IInv, TypeOK, Die
<1>2. UnderWay' = mq'
  BY <1>1, ConcatEmptySeq DEF UnderWay
<1>3. Thinned(mq', mq)
  <2>1. CASE mq' = mq
    BY <2>1, <1>1, ThinnedSelf
  <2>2. CASE mq # <<>> /\ mq' = Tail(mq)
    <3>1. Thinned(<<>> \o Tail(mq), <<>> \o mq)
      BY <2>2, <1>1, ThinnedDequeue, EmptySeq
    <3>2. <<>> \o Tail(mq) = Tail(mq) /\ <<>> \o mq = mq
      BY <2>2, <1>1, HeadTailProperties, ConcatEmptySeq
    <3> QED
      BY <2>2, <3>1, <3>2
  <2> QED
    BY <2>1, <2>2 DEF Dequeue
<1>4. Thinned(mq, UnderWay) /\ UnderWay \in Seq(Requests)
  BY <1>1, ThinnedCrash, JoinProperties DEF UnderWay
<1>5. Thinned(UnderWay', UnderWay)
  BY <1>1, <1>2, <1>3, <1>4, ThinnedTwice
<1>6. Thinned(list', list)
  <2>1. Thinned(<<>>, list \o <<>>)
    BY <1>1, ThinnedCrash, EmptySeq
  <2> QED
    BY <2>1, <1>1, ConcatEmptySeq
<1> QED
  BY <1>1, <1>5, <1>6, ThinStep

(* A message is taken off the queue: discarded, remembered as the newest of *)
(* the list, or forgotten for lack of memory.                               *)
LEMMA TakeOrder ==
  ASSUME IInv, OrderInv, IInv', DiscardRequest \/ AcceptRequest
  PROVE  OrderInv'
<1> USE DEF listVars
<1> DEFINE r == Head(mq)
<1>1. /\ list \in Seq(Requests) /\ mq \in Seq(Requests) /\ mq # <<>>
      /\ mq' = Tail(mq) /\ UNCHANGED <<posted, now>>
      /\ now \in Nat /\ TypeOK'
  BY DEF IInv, TypeOK, DiscardRequest, AcceptRequest, CanTake, Dequeue
<1>2. r \in Requests /\ r \notin Listed
  BY <1>1, TailSet, HeadTailProperties DEF IInv, InOnePlace, Queued
<1>3. CASE UNCHANGED listVars
  <2>1. Thinned(UnderWay', UnderWay) /\ Thinned(list', list)
    BY <1>1, <1>3, ThinnedDequeue, ThinnedSelf DEF UnderWay
  <2> QED
    BY <1>1, <1>3, <2>1, ThinStep
<1>4. CASE list' = Append(list, r) /\ stamp' = [stamp EXCEPT ![r] = now]
  <2>1. Thinned(UnderWay', UnderWay)
    BY <1>1, <1>4, ThinnedMove DEF UnderWay
  <2>2. /\ Len(list') = Len(list) + 1 /\ Len(list) \in Nat
        /\ \A i \in 1 .. Len(list) : list'[i] = list[i] /\ list[i] \in Listed
        /\ list'[Len(list) + 1] = r
        /\ Listed' = Listed \cup {r}
    <3>1. DOMAIN list = 1 .. Len(list)
      BY <1>1, LenProperties
    <3>2. \A i \in 1 .. Len(list) : list[i] \in Listed
      BY <3>1 DEF Listed, ToSet
    <3>3. Listed' = Listed \cup {r}
      BY <1>1, <1>2, <1>4, AppendSet DEF Listed
    <3> QED
      BY <3>2, <3>3, <1>1, <1>2, <1>4, AppendProperties, LenProperties
  <2>3. /\ \A q \in Listed : stamp'[q] = stamp[q] /\ stamp[q] <= now
        /\ stamp'[r] = now
    <3>1. Listed \subseteq Requests
      BY <1>1, LenProperties, ElementOfSeq DEF Listed, ToSet
    <3> QED
      BY <3>1, <1>2, <1>4 DEF OrderInv, IInv, TypeOK
  <2>4. ASSUME NEW i \in 1 .. Len(list'), NEW j \in 1 .. Len(list'), i < j
        PROVE  stamp'[list'[i]] <= stamp'[list'[j]]
    <3>1. CASE j = Len(list) + 1
      BY <3>1, <2>2, <2>3, <2>4
    <3>2. CASE j # Len(list) + 1
      <4>1. i \in 1 .. Len(list) /\ j \in 1 .. Len(list)
        BY <3>2, <2>2, <2>4
      <4>2. stamp[list[i]] <= stamp[list[j]]
        BY <4>1, <2>4 DEF OrderInv, ArrivalOrder, IsSorted
      <4> QED
        BY <4>1, <4>2, <2>2, <2>3
    <3> QED
      BY <3>1, <3>2
  <2>5. IsSorted(list, LAMBDA q, p : stamp[q] <= stamp[p])'
    BY <2>4 DEF IsSorted
  <2>6. ArrivalOrder'
    BY <1>1, <2>1, <2>5, PostedOrderKept DEF ArrivalOrder, IsSorted
  <2>7. \A q \in Listed' : stamp'[q] <= now'
    BY <1>1, <2>2, <2>3
  <2> QED
    BY <1>1, <2>6, <2>7 DEF OrderInv
<1> QED
  BY <1>3, <1>4 DEF DiscardRequest, AcceptRequest, CanTake, Remember, LLAppend

(* The sweep deletes an element. *)
LEMMA ExpireOrder ==
  ASSUME IInv, OrderInv, TypeOK', SweepExpire
  PROVE  OrderInv'
<1>1. /\ list \in Seq(Requests) /\ mq \in Seq(Requests) /\ cursor \in 1 .. Len(list)
      /\ list' = RemoveAt(list, cursor) /\ UNCHANGED <<mq, posted, now, stamp>> /\ now \in Nat
  BY LenProperties DEF IInv, TypeOK, SweepExpire, LLDelete, mqVars
<1>2. Thinned(UnderWay', UnderWay) /\ Thinned(list', list)
  BY <1>1, ThinnedDelete, ThinnedRemoveAt DEF UnderWay
<1> QED
  BY <1>1, <1>2, ThinStep

(* mq_send accepts a request: it is the newest. *)
LEMMA SendOrder ==
  ASSUME IInv, OrderInv, TypeOK', NEW r \in Requests, MqSend(r), UNCHANGED <<now, listVars>>
  PROVE  OrderInv'
<1> USE DEF listVars
<1>1. /\ list \in Seq(Requests) /\ mq \in Seq(Requests) /\ posted \in Seq(Requests)
      /\ now \in Nat /\ IsInjective(posted)
  BY DEF IInv, TypeOK, OrderInv
<1>2. CASE ~HasRoom
  BY <1>1, <1>2, SameStep DEF MqSend
<1>3. CASE HasRoom
  <2>1. mq' = Append(mq, r) /\ posted' = Append(posted, r)
    BY <1>3 DEF MqSend
  <2>2. r \notin ToSet(posted)
    BY <1>1, LenProperties DEF MqSend, Fresh, Contains, ToSet
  <2>3. /\ IsInjective(posted')
        /\ \A q \in ToSet(posted) :
             PostedAt(q)' = PostedAt(q) /\ PostedAt(q) \in 1 .. Len(posted)
        /\ PostedAt(r)' = Len(posted) + 1
    <3>1. IsInjective(posted')
      BY <1>1, <2>1, <2>2, AppendInjectiveSeq
    <3>2. /\ \A q \in ToSet(posted) : Position(posted', q) = Position(posted, q)
          /\ Position(posted', r) = Len(posted) + 1
      BY <1>1, <2>1, <2>2, PositionAppend
    <3>3. \A q \in ToSet(posted) : Position(posted, q) \in 1 .. Len(posted)
      BY <1>1, PositionProperties
    <3> QED
      BY <3>1, <3>2, <3>3 DEF Position, PostedAt
  <2>4. /\ Len(UnderWay') = Len(UnderWay) + 1 /\ Len(UnderWay) \in Nat /\ Len(posted) \in Nat
        /\ \A i \in 1 .. Len(UnderWay) :
             UnderWay'[i] = UnderWay[i] /\ UnderWay[i] \in ToSet(posted)
        /\ UnderWay'[Len(UnderWay) + 1] = r
    <3>1. /\ mq' \in Seq(Requests) /\ Len(mq') = Len(mq) + 1
          /\ \A i \in 1 .. Len(mq) : mq'[i] = mq[i]
          /\ mq'[Len(mq) + 1] = r
      BY <1>1, <2>1, AppendProperties
    <3>2. /\ Len(list) \in Nat /\ Len(mq) \in Nat /\ Len(UnderWay) = Len(list) + Len(mq)
          /\ \A i \in 1 .. Len(list) + Len(mq) :
               UnderWay[i] = IF i <= Len(list) THEN list[i] ELSE mq[i - Len(list)]
      BY <1>1, JoinProperties DEF UnderWay
    <3>3. /\ Len(UnderWay') = Len(list) + Len(mq')
          /\ \A i \in 1 .. Len(list) + Len(mq') :
               UnderWay'[i] = IF i <= Len(list) THEN list[i] ELSE mq'[i - Len(list)]
      <4>1. UnderWay' = list \o mq'
        BY DEF UnderWay
      <4>2. /\ Len(list \o mq') = Len(list) + Len(mq')
            /\ \A i \in 1 .. Len(list) + Len(mq') :
                 (list \o mq')[i] = IF i <= Len(list) THEN list[i] ELSE mq'[i - Len(list)]
        BY <1>1, <3>1, JoinProperties
      <4> QED
        BY <4>1, <4>2, Zenon
    <3>4. /\ \A i \in 1 .. Len(list) : list[i] \in ToSet(posted)
          /\ \A i \in 1 .. Len(mq) : mq[i] \in ToSet(posted)
      BY <1>1, LenProperties DEF IInv, InOnePlace, Listed, Queued, ToSet
    <3>5. \A i \in 1 .. Len(list) + Len(mq) :
            /\ UnderWay'[i] = UnderWay[i]
            /\ UnderWay[i] \in ToSet(posted)
      <4> TAKE i \in 1 .. Len(list) + Len(mq)
      <4>1. /\ UnderWay'[i] = IF i <= Len(list) THEN list[i] ELSE mq'[i - Len(list)]
            /\ UnderWay[i] = IF i <= Len(list) THEN list[i] ELSE mq[i - Len(list)]
        <5>1. i \in 1 .. Len(list) + Len(mq')
          BY <3>1, <3>2
        <5> QED
          BY <5>1, <3>2, <3>3
      <4>2. CASE i <= Len(list)
        <5>1. i \in 1 .. Len(list)
          BY <4>2, <3>2
        <5> QED
          BY <4>1, <4>2, <5>1, <3>4
      <4>3. CASE ~(i <= Len(list))
        <5>1. i - Len(list) \in 1 .. Len(mq)
          BY <4>3, <3>2
        <5> QED
          BY <4>1, <4>3, <5>1, <3>1, <3>4
      <4> QED
        BY <4>2, <4>3
    <3>6. UnderWay'[Len(list) + Len(mq) + 1] = r
      <4>1. /\ Len(list) + Len(mq) + 1 \in 1 .. Len(list) + Len(mq')
            /\ ~(Len(list) + Len(mq) + 1 <= Len(list))
            /\ Len(list) + Len(mq) + 1 - Len(list) = Len(mq) + 1
        BY <3>1, <3>2
      <4> QED
        BY <4>1, <3>1, <3>3
    <3>7. Len(posted) \in Nat
      BY <1>1, LenProperties
    <3> QED
      BY <3>1, <3>2, <3>3, <3>5, <3>6, <3>7
  <2>5. ASSUME NEW i \in 1 .. Len(UnderWay'), NEW j \in 1 .. Len(UnderWay'), i < j
        PROVE  (PostedAt(UnderWay[i]) < PostedAt(UnderWay[j]))'
    <3>1. i \in 1 .. Len(UnderWay)
      BY <2>4, <2>5
    <3>2. CASE j = Len(UnderWay) + 1
      BY <3>1, <3>2, <2>3, <2>4
    <3>3. CASE j # Len(UnderWay) + 1
      <4>1. j \in 1 .. Len(UnderWay)
        BY <3>3, <2>4
      <4>2. PostedAt(UnderWay[i]) < PostedAt(UnderWay[j])
        BY <3>1, <4>1, <2>5 DEF OrderInv, ArrivalOrder, IsSorted, UnderWay
      <4> QED
        BY <3>1, <4>1, <4>2, <2>3, <2>4
    <3> QED
      BY <3>2, <3>3
  <2>6. IsSorted(list \o mq, LAMBDA q, p : PostedAt(q) < PostedAt(p))'
    BY <2>5 DEF IsSorted, UnderWay
  <2>7. IsSorted(list, LAMBDA q, p : stamp[q] <= stamp[p])'
    BY DEF OrderInv, ArrivalOrder, IsSorted
  <2> QED
    <3>1. ArrivalOrder'
      BY <2>6, <2>7 DEF ArrivalOrder, IsSorted
    <3>2. \A q \in Listed' : stamp'[q] <= now'
      BY DEF OrderInv, Listed
    <3> QED
      BY <2>3, <3>1, <3>2 DEF OrderInv
<1> QED
  BY <1>2, <1>3

-----------------------------------------------------------------------------
(* The order is kept by every step of the gateway. *)
LEMMA OrderStep ==
  ASSUME IInv, IInv', OrderInv, [Next]_vars
  PROVE  OrderInv'
<1> USE DEF mqVars, loopVars, listVars, wireVars, paraVars, ycVars
<1>1. TypeOK' /\ now \in Nat
  BY DEF IInv, TypeOK
<1>2. CASE UNCHANGED <<list, mq, posted, stamp>> /\ now' >= now
  BY <1>1, <1>2, SameStep
<1>3. CASE DiscardRequest \/ AcceptRequest
  BY <1>3, TakeOrder
<1>4. CASE SweepExpire
  BY <1>1, <1>4, ExpireOrder
<1>5. CASE AcceptOutOfMemory
  BY <1>1, <1>5, DieOrder DEF AcceptOutOfMemory, CanTake
<1>6. CASE CoapStep /\ ~(DiscardRequest \/ AcceptRequest \/ SweepExpire \/ AcceptOutOfMemory)
  <2>1. CASE SweepFault \/ \E r \in Requests : ReadContent(r)
    BY <1>1, <2>1, DieOrder DEF SweepFault, ReadContent
  <2>2. CASE Retransmit \/ ReadNothing \/ SweepKeep \/ SweepDone \/ SignalRound
    BY <1>1, <1>2, <2>2
    DEF Retransmit, ReadNothing, StartSweep, SweepKeep, SweepDone, SignalRound
  <2>3. CASE \E r \in Requests : ReadAck(r) \/ ReadResponse(r)
    BY <1>1, <1>2, <2>3 DEF ReadAck, ReadResponse, StartSweep
  <2> QED
    BY <1>6, <2>1, <2>2, <2>3 DEF CoapStep
<1>7. CASE ConsoleStep
  <2>1. ASSUME NEW r \in BlockReqs, CommandBlock(r)
        PROVE  OrderInv'
    BY <1>1, <2>1, SendOrder DEF CommandBlock, Requests
  <2>2. ASSUME NEW r \in AskReqs, CommandAsk(r)
        PROVE  OrderInv'
    BY <1>1, <2>2, SendOrder DEF CommandAsk, Requests
  <2>3. CASE \E r \in AskReqs : EnterWait(r)
    BY <1>1, <1>2, <2>3 DEF EnterWait
  <2>4. CASE CommandOutOfMemory
    BY <1>1, <2>4, DieOrder DEF CommandOutOfMemory
  <2> QED
    BY <1>7, <2>1, <2>2, <2>3, <2>4 DEF ConsoleStep
<1>8. CASE YCStep
  <2>1. ASSUME NEW r \in PollReqs, PostPoll(r)
        PROVE  OrderInv'
    BY <1>1, <2>1, SendOrder DEF PostPoll, Requests
  <2>2. CASE OpenRound \/ TimeRound \/ AwaitRound
    BY <1>1, <1>2, <2>2 DEF OpenRound, TimeRound, AwaitRound
  <2> QED
    BY <1>8, <2>1, <2>2 DEF YCStep
<1>9. CASE Tick \/ Restart \/ UNCHANGED vars
  BY <1>1, <1>2, <1>9 DEF Tick, Restart, vars
<1> QED
  BY <1>3, <1>4, <1>5, <1>6, <1>7, <1>8, <1>9 DEF Next

(* Requests are taken over, kept and swept in the order in which mq_send    *)
(* accepted them (test.c:55,69, YCpthread.c:128), whichever thread sent     *)
(* them and across restarts; so the list is ordered by time too.            *)
THEOREM OrderKept == Spec => []ArrivalOrder
<1>1. Init => OrderInv
  <2> SUFFICES ASSUME Init PROVE OrderInv
    OBVIOUS
  <2>1. mq = <<>> /\ list = <<>> /\ posted = <<>>
    BY DEF Init
  <2>2. list \o mq = <<>>
    BY <2>1, ConcatEmptySeq, EmptySeq
  <2> QED
    BY <2>1, <2>2 DEF OrderInv, ArrivalOrder, IsSorted, IsInjective, Listed, ToSet
<1>2. IInv /\ IInv' /\ OrderInv /\ [Next]_vars => OrderInv'
  BY OrderStep
<1>3. OrderInv => ArrivalOrder
  BY DEF OrderInv
<1> QED
  BY <1>1, <1>2, <1>3, InvariantHolds, PTL DEF Spec

-----------------------------------------------------------------------------
(***************************************************************************)
(* Proof that the gateway implements RequestService: seen through the      *)
(* status of its requests, every step of the three threads, of a crash and *)
(* of a restart is a step of the service or changes nothing.               *)
(***************************************************************************)

(* The state of the service. *)
Status == [r \in Requests |-> StatusOf(r)]

(* A queue without repetitions has as many messages as elements. *)
LEMMA QueueCardinality ==
  ASSUME NEW S, NEW s \in Seq(S), IsInjective(s)
  PROVE  Cardinality(ToSet(s)) = Len(s)
<1>1. Len(s) \in Nat /\ DOMAIN s = 1 .. Len(s) /\ s \in [1 .. Len(s) -> ToSet(s)]
  BY LenProperties DEF ToSet
<1>2. s \in Bijection(1 .. Len(s), ToSet(s))
  BY <1>1 DEF Bijection, Injection, Surjection, IsInjective, ToSet
<1>3. ExistsBijection(1 .. Len(s), ToSet(s))
  BY <1>2 DEF ExistsBijection
<1> QED
  BY <1>1, <1>3, FS_CountingElements

(* A request is fresh if mq_send neither accepted nor refused it. *)
LEMMA FreshMeaning ==
  ASSUME TypeOK, NEW r
  PROVE  Fresh(r) <=> r \notin refused /\ r \notin ToSet(posted)
  BY LenProperties DEF TypeOK, Fresh, Contains, ToSet

(* What the status of a request says. *)
LEMMA StatusMeaning ==
  ASSUME IInv, NEW r \in Requests
  PROVE  /\ StatusOf(r) = "told" <=> r \in told
         /\ StatusOf(r) = "pending" <=> r \in Listed
         /\ StatusOf(r) = "queued" <=> r \in Queued
         /\ StatusOf(r) = "idle" <=> r \notin refused /\ r \notin ToSet(posted)
         /\ StatusOf(r) = "lost" <=> /\ r \notin told \cup Listed \cup Queued
                                     /\ r \in refused \/ r \in ToSet(posted)
         /\ Status[r] = StatusOf(r)
  BY FreshMeaning, Zenon DEF IInv, InOnePlace, StatusOf, Status

(* FreshMeaning in the next state. *)
LEMMA FreshMeaningNext ==
  ASSUME TypeOK', NEW r
  PROVE  Fresh(r)' <=> r \notin refused' /\ r \notin ToSet(posted')
<1>1. posted' \in Seq(Requests)
  BY DEF TypeOK
<1> QED
  BY <1>1, LenProperties DEF Fresh, Contains, ToSet

(* StatusMeaning in the next state. *)
LEMMA StatusMeaningNext ==
  ASSUME IInv', NEW r \in Requests
  PROVE  /\ StatusOf(r)' = "told" <=> r \in told'
         /\ StatusOf(r)' = "pending" <=> r \in Listed'
         /\ StatusOf(r)' = "queued" <=> r \in Queued'
         /\ StatusOf(r)' = "lost" <=> /\ r \notin told' \cup Listed' \cup Queued'
                                      /\ r \in refused' \/ r \in ToSet(posted')
<1>1. Fresh(r)' <=> r \notin refused' /\ r \notin ToSet(posted')
  BY FreshMeaningNext DEF IInv
<1> QED
  BY <1>1, Zenon DEF IInv, InOnePlace, StatusOf

(* A request keeps its status if it stays where it is. *)
LEMMA StatusKept ==
  ASSUME IInv, IInv', NEW q \in Requests,
         q \in told' <=> q \in told, q \in Listed' <=> q \in Listed,
         q \in Queued' <=> q \in Queued, q \in refused' <=> q \in refused,
         q \in ToSet(posted') <=> q \in ToSet(posted)
  PROVE  StatusOf(q)' = StatusOf(q)
<1>1. Fresh(q) <=> q \notin refused /\ q \notin ToSet(posted)
  BY FreshMeaning DEF IInv
<1>2. Fresh(q)' <=> q \notin refused' /\ q \notin ToSet(posted')
  BY FreshMeaningNext DEF IInv
<1> QED
  BY <1>1, <1>2 DEF StatusOf

(* The service counts as the library does. *)
LEMMA SameCardinality ==
  ASSUME NEW S
  PROVE  Service!Cardinality(S) = Cardinality(S)
  BY DEF Service!Cardinality, Cardinality

(* Room in the queue is room in the service. *)
LEMMA QueuedCount ==
  ASSUME IInv
  PROVE  Service!With("queued") = Queued /\ Cardinality(Queued) = Len(mq)
<1>1. mq \in Seq(Requests) /\ IsInjective(mq)
  BY DEF IInv, TypeOK, InOnePlace
<1>2. Queued \subseteq Requests
  BY <1>1, LenProperties, ElementOfSeq DEF Queued, ToSet
<1>3. Service!With("queued") = Queued
  BY <1>2, StatusMeaning DEF Service!With, Status
<1> QED
  BY <1>1, <1>3, QueueCardinality DEF Queued

(* One request changes its status and no other does. *)
LEMMA MoveOne ==
  ASSUME NEW r \in Requests, NEW from, NEW to,
         StatusOf(r) = from, StatusOf(r)' = to,
         \A q \in Requests \ {r} : StatusOf(q)' = StatusOf(q)
  PROVE  Service!Move(r, from, to)
<1>1. Status[r] = from
  BY DEF Status
<1>2. Status' = [Status EXCEPT ![r] = to]
  BY DEF Status
<1> QED
  BY <1>1, <1>2 DEF Service!Move, Status

(* A step that moves no request. *)
LEMMA NoMove ==
  ASSUME UNCHANGED <<mq, posted, refused, list, told>>
  PROVE  Status' = Status
  BY DEF Status, StatusOf, Fresh, Contains, Queued, Listed

-----------------------------------------------------------------------------
(* mq_send: a submission, or a refusal. *)
LEMMA SendService ==
  ASSUME IInv, IInv', NEW r \in Requests, MqSend(r), UNCHANGED <<listVars, told>>
  PROVE  Service!Next
<1> USE DEF listVars
<1>1. /\ mq \in Seq(Requests) /\ posted \in Seq(Requests) /\ Len(mq) \in Nat /\ Len(mq) <= MQMax
      /\ r \notin refused /\ r \notin ToSet(posted)
  BY FreshMeaning, LenProperties DEF IInv, TypeOK, MqSend
<1>2. StatusOf(r) = "idle" /\ Listed' = Listed
  BY <1>1, StatusMeaning DEF Listed
<1>3. CASE HasRoom
  <2>1. /\ Queued' = Queued \cup {r} /\ ToSet(posted') = ToSet(posted) \cup {r}
        /\ refused' = refused /\ r \in Queued'
    <3>1. mq' = Append(mq, r) /\ posted' = Append(posted, r) /\ refused' = refused
      BY <1>3 DEF MqSend
    <3> QED
      BY <1>1, <3>1, AppendSet DEF Queued
  <2>2. StatusOf(r)' = "queued"
    BY <2>1, StatusMeaningNext
  <2>3. \A q \in Requests \ {r} : StatusOf(q)' = StatusOf(q)
    BY <1>2, <2>1, StatusKept
  <2>4. Service!Move(r, "idle", "queued")
    BY <1>2, <2>2, <2>3, MoveOne
  <2>5. Cardinality(Service!With("queued")) < MQMax
    BY <1>1, <1>3, QueuedCount DEF HasRoom
  <2>6. Service!Submit(r)
    BY <2>4, <2>5, SameCardinality DEF Service!Submit
  <2> QED
    BY <2>6 DEF Service!Next
<1>4. CASE ~HasRoom
  <2>1. refused' = refused \cup {r} /\ UNCHANGED <<mq, posted>> /\ Queued' = Queued
    BY <1>4 DEF MqSend, Queued
  <2>2. StatusOf(r)' = "lost"
    <3>1. r \notin told' \cup Listed' \cup Queued' /\ r \in refused'
      BY <1>1, <1>2, <2>1 DEF IInv, InOnePlace
    <3> QED
      BY <3>1, StatusMeaningNext
  <2>3. \A q \in Requests \ {r} : StatusOf(q)' = StatusOf(q)
    BY <1>2, <2>1, StatusKept
  <2>4. Service!Move(r, "idle", "lost")
    BY <1>2, <2>2, <2>3, MoveOne
  <2>5. Cardinality(Service!With("queued")) = MQMax
    BY <1>1, <1>4, QueuedCount, ConstantTypes DEF HasRoom
  <2>6. Service!Refuse(r)
    BY <2>4, <2>5, SameCardinality DEF Service!Refuse
  <2> QED
    BY <2>6 DEF Service!Next
<1> QED
  BY <1>3, <1>4

(* A message taken off the queue is taken over, or lost. *)
LEMMA TakeService ==
  ASSUME IInv, IInv', DiscardRequest \/ AcceptRequest
  PROVE  Service!Next
<1> USE DEF listVars, paraVars
<1>0. PICK r : r = Head(mq)
  OBVIOUS
<1>1. /\ mq \in Seq(Requests) /\ list \in Seq(Requests) /\ mq # <<>> /\ IsInjective(mq)
      /\ mq' = Tail(mq) /\ UNCHANGED <<posted, refused, told>>
  BY DEF IInv, TypeOK, InOnePlace, DiscardRequest, AcceptRequest, CanTake, Dequeue
<1>2. r \in Requests /\ r \in Queued /\ Queued' = Queued \ {r}
  BY <1>0, <1>1, TailSet, HeadTailProperties DEF Queued
<1>3. r \in ToSet(posted) /\ r \notin told /\ r \notin Listed
  BY <1>2 DEF IInv, InOnePlace
<1>4. StatusOf(r) = "queued"
  BY <1>2, StatusMeaning
<1>5. CASE UNCHANGED list
  <2>1. Listed' = Listed
    BY <1>5 DEF Listed
  <2>2. StatusOf(r)' = "lost"
    BY <1>1, <1>2, <1>3, <2>1, StatusMeaningNext
  <2>3. \A q \in Requests \ {r} : StatusOf(q)' = StatusOf(q)
    BY <1>1, <1>2, <2>1, StatusKept
  <2>4. Service!Skip(r)
    BY <1>2, <1>4, <2>2, <2>3, MoveOne DEF Service!Skip
  <2> QED
    BY <1>2, <2>4 DEF Service!Next
<1>6. CASE list' = Append(list, r)
  <2>1. Listed' = Listed \cup {r}
    BY <1>1, <1>2, <1>6, AppendSet DEF Listed
  <2>2. StatusOf(r)' = "pending"
    BY <1>2, <2>1, StatusMeaningNext
  <2>3. \A q \in Requests \ {r} : StatusOf(q)' = StatusOf(q)
    BY <1>1, <1>2, <2>1, StatusKept
  <2>4. Service!Take(r)
    BY <1>2, <1>4, <2>2, <2>3, MoveOne DEF Service!Take
  <2> QED
    BY <1>2, <2>4 DEF Service!Next
<1> QED
  BY <1>0, <1>5, <1>6 DEF DiscardRequest, AcceptRequest, CanTake, Remember, LLAppend

(* The sweep tells the sender of the element it deletes. *)
LEMMA ExpireService ==
  ASSUME IInv, IInv', SweepExpire
  PROVE  Service!Next
<1>0. PICK r : r = list[cursor]
  OBVIOUS
<1>1. /\ list \in Seq(Requests) /\ cursor \in 1 .. Len(list) /\ IsInjective(list)
      /\ list' = RemoveAt(list, cursor) /\ told' = told \cup {r}
      /\ UNCHANGED <<mq, posted, refused>>
  BY <1>0, LenProperties DEF IInv, TypeOK, InOnePlace, SweepExpire, LLDelete, mqVars
<1>2. Listed' = Listed \ {r} /\ r \in Listed /\ r \in Requests /\ Queued' = Queued
  <2>1. r \in Listed /\ r \in Requests
    BY <1>0, <1>1, LenProperties, ElementOfSeq DEF Listed, ToSet
  <2> QED
    BY <2>1, <1>0, <1>1, RemoveAtSet DEF Listed, Queued
<1>3. StatusOf(r) = "pending" /\ StatusOf(r)' = "told"
  BY <1>1, <1>2, StatusMeaning, StatusMeaningNext
<1>4. \A q \in Requests \ {r} : StatusOf(q)' = StatusOf(q)
  BY <1>1, <1>2, StatusKept
<1>5. Service!Expire(r)
  BY <1>2, <1>3, <1>4, MoveOne DEF Service!Expire
<1> QED
  BY <1>2, <1>5 DEF Service!Next

(* A crash loses what was taken over and the message being handled. *)
LEMMA DieService ==
  ASSUME IInv, IInv', Die, mq' = mq \/ (mq # <<>> /\ mq' = Dequeue)
  PROVE  Service!Next
<1>1. UNCHANGED <<posted, refused, told>> /\ Listed' = {} /\ mq \in Seq(Requests) /\ IsInjective(mq)
  BY DEF Die, Listed, ToSet, IInv, TypeOK, InOnePlace
<1>2. Listed \cup Queued \subseteq ToSet(posted)
  BY DEF IInv, InOnePlace
<1>3. \A q \in Requests : q \in Service!With("pending") <=> q \in Listed
  BY StatusMeaning DEF Service!With, Status
<1>4. ASSUME NEW also \in SUBSET Queued, Queued' = Queued \ also, NEW q \in Requests
      PROVE  StatusOf(q)' = IF q \in also \cup Service!With("pending") THEN "lost" ELSE StatusOf(q)
  <2>1. CASE q \in also \cup Listed
    <3>1. q \notin told' \cup Listed' \cup Queued' /\ q \in ToSet(posted')
      BY <1>1, <1>2, <1>4, <2>1 DEF IInv, InOnePlace
    <3> QED
      BY <1>3, <1>4, <2>1, <3>1, StatusMeaningNext
  <2>2. CASE q \notin also \cup Listed
    BY <1>1, <1>3, <1>4, <2>2, StatusKept
  <2> QED
    BY <2>1, <2>2
<1>5. ASSUME NEW also \in SUBSET Queued, Queued' = Queued \ also
      PROVE  Status' = [q \in Requests |->
                          IF q \in also \cup Service!With("pending") THEN "lost" ELSE Status[q]]
  BY <1>4, <1>5 DEF Status
<1>6. CASE mq' = mq
  <2>1. Queued' = Queued \ {}
    BY <1>6 DEF Queued
  <2>2. Service!Crash({})
    BY <1>5, <2>1, SameCardinality, FS_EmptySet DEF Service!Crash, Status
  <2> QED
    BY <2>2 DEF Service!Next
<1>7. CASE mq # <<>> /\ mq' = Tail(mq)
  <2>1. PICK r : r = Head(mq)
    OBVIOUS
  <2>2. r \in Requests /\ r \in Queued /\ Queued' = Queued \ {r}
    BY <1>1, <1>7, <2>1, TailSet, HeadTailProperties DEF Queued
  <2>3. {r} \subseteq Service!With("queued")
    BY <2>2, QueuedCount
  <2>4. Service!Cardinality({r}) <= 1
    BY SameCardinality, FS_Singleton
  <2>5. Status' = [q \in Requests |->
                     IF q \in {r} \cup Service!With("pending") THEN "lost" ELSE Status[q]]
    BY <1>5, <2>2
  <2>6. Service!Crash({r})
    BY <2>3, <2>4, <2>5 DEF Service!Crash, Status
  <2> QED
    BY <2>2, <2>6 DEF Service!Next
<1> QED
  BY <1>6, <1>7 DEF Dequeue

-----------------------------------------------------------------------------
(* Every step of the gateway is a step of the service or no change to it. *)
LEMMA ServiceStep ==
  ASSUME IInv, IInv', [Next]_vars
  PROVE  Service!Next \/ Status' = Status
<1> USE DEF mqVars, loopVars, listVars, wireVars, paraVars, ycVars
<1>1. CASE UNCHANGED <<mq, posted, refused, list, told>>
  BY <1>1, NoMove
<1>2. CASE DiscardRequest \/ AcceptRequest
  BY <1>2, TakeService
<1>3. CASE SweepExpire
  BY <1>3, ExpireService
<1>4. CASE AcceptOutOfMemory
  BY <1>4, DieService DEF AcceptOutOfMemory, CanTake
<1>5. CASE CoapStep /\ ~(DiscardRequest \/ AcceptRequest \/ SweepExpire \/ AcceptOutOfMemory)
  <2>1. CASE SweepFault \/ \E r \in Requests : ReadContent(r)
    BY <2>1, DieService DEF SweepFault, ReadContent
  <2>2. CASE Retransmit \/ ReadNothing \/ SweepKeep \/ SweepDone \/ SignalRound
    BY <1>1, <2>2
    DEF Retransmit, ReadNothing, StartSweep, SweepKeep, SweepDone, SignalRound
  <2>3. CASE \E r \in Requests : ReadAck(r) \/ ReadResponse(r)
    BY <1>1, <2>3 DEF ReadAck, ReadResponse, StartSweep
  <2> QED
    BY <1>5, <2>1, <2>2, <2>3 DEF CoapStep
<1>6. CASE ConsoleStep
  <2>1. ASSUME NEW r \in BlockReqs, CommandBlock(r)
        PROVE  Service!Next
    BY <2>1, SendService DEF CommandBlock, Requests
  <2>2. ASSUME NEW r \in AskReqs, CommandAsk(r)
        PROVE  Service!Next
    BY <2>2, SendService DEF CommandAsk, Requests
  <2>3. CASE \E r \in AskReqs : EnterWait(r)
    BY <1>1, <2>3 DEF EnterWait
  <2>4. CASE CommandOutOfMemory
    BY <2>4, DieService DEF CommandOutOfMemory
  <2> QED
    BY <1>6, <2>1, <2>2, <2>3, <2>4 DEF ConsoleStep
<1>7. CASE YCStep
  <2>1. ASSUME NEW r \in PollReqs, PostPoll(r)
        PROVE  Service!Next
    BY <2>1, SendService DEF PostPoll, Requests
  <2>2. CASE OpenRound \/ TimeRound \/ AwaitRound
    BY <1>1, <2>2 DEF OpenRound, TimeRound, AwaitRound
  <2> QED
    BY <1>7, <2>1, <2>2 DEF YCStep
<1>8. CASE Tick \/ Restart \/ UNCHANGED vars
  BY <1>1, <1>8 DEF Tick, Restart, vars
<1> QED
  BY <1>2, <1>3, <1>4, <1>5, <1>6, <1>7, <1>8 DEF Next

(* The threads, the queue and the list of the gateway implement the request *)
(* service, crashes and restarts included.                                  *)
THEOREM GatewayServes == Spec => ImplementsService
<1>1. Init => Service!Init
  <2> SUFFICES ASSUME Init PROVE Service!Init
    OBVIOUS
  <2>1. Queued = {} /\ Listed = {} /\ told = {}
    BY DEF Init, Queued, Listed, ToSet
  <2>2. \A r \in Requests : Fresh(r)
    BY EmptySeq DEF Init, Fresh, Contains
  <2> QED
    BY <2>1, <2>2 DEF Service!Init, StatusOf
<1>2. IInv /\ IInv' /\ [Next]_vars => [Service!Next]_Status
  BY ServiceStep
<1>3. Init /\ [][Next]_vars /\ []IInv => Service!Init /\ [][Service!Next]_Status
  BY <1>1, <1>2, PTL
<1> QED
  BY <1>3, InvariantHolds, PTL DEF Spec, ImplementsService, Service!Spec, Status
=============================================================================
