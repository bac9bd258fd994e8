------------------------------- MODULE Gateway -------------------------------
(***************************************************************************)
(* The gateway process: the CoAP thread, the console, the telemetry thread *)
(* and the clock, interleaved, with crashes and restarts of the process.   *)
(***************************************************************************)
EXTENDS CoapThread, Console, YCThread

Next ==
  \/ CoapStep
  \/ ConsoleStep
  \/ YCStep
  \/ Tick
  \/ Restart

Spec == Init /\ [][Next]_vars

(* The loop of the CoAP thread never blocks for good: the queue is opened   *)
(* O_NONBLOCK, select has a timeout of 200 ms, and the mutex of the list is *)
(* used by this thread alone.  Time passes.  Nothing makes the users of the *)
(* console, the devices, the database or the supervisor act.                *)
FairSpec == Spec /\ WF_vars(CoapStep) /\ WF_vars(Tick)

-----------------------------------------------------------------------------
Listed == ToSet(list)
Queued == ToSet(mq)

TypeOK ==
  /\ now \in Nat
  /\ mq \in Seq(Requests) /\ Len(mq) <= MQMax
  /\ posted \in Seq(Requests)
  /\ refused \subseteq Requests
  /\ pc \in {"recv", "read", "sweep", "signal", "dead"}
  /\ tmpReq \in ReqKinds
  /\ path \in BlockReqs \cup {"dsAin"}
  /\ timeNow \in Nat
  /\ cursor \in Nat \ {0}
  /\ list \in Seq(Requests)
  /\ stamp \in [Requests -> Nat]
  /\ unacked \subseteq Requests
  /\ sentPath \in [Requests -> BlockReqs \cup {"dsAin", "unsent"}]
  /\ answered \subseteq Requests
  /\ told \subseteq Requests
  /\ mapped \subseteq Requests
  /\ asker \in [AskReqs -> {"idle", "ask", "wait", "here"}]
  /\ yc \in {"fetch", "time", "post", "wait", "relock"}
  /\ ycTime \in Nat
  /\ restarts \in Nat

(* A request whose sender was told that its time is over (line 510) was    *)
(* taken over at least its timing ago, and no copy of it is left in the    *)
(* list or the queue that could be told, or dereferenced, again.           *)
TimeoutJustified ==
  \A r \in told : /\ now - stamp[r] >= Timing(r)
                  /\ r \notin Listed \cup Queued

(* The sweep of lines 505-517 leaves no request behind it whose time was   *)
(* over when time_now was sampled, although it deletes elements while it   *)
(* walks the list.                                                         *)
SweptIsFresh ==
  pc = "sweep" => \A i \in 1 .. cursor - 1 : i <= Len(list) => ~Overdue(list[i])

(* Position of r in the history of accepted submissions. *)
PostedAt(r) == CHOOSE i \in 1 .. Len(posted) : posted[i] = r

(* Requests are taken over, kept and swept in the order in which mq_send    *)
(* accepted them, whichever thread sent them and across restarts; so the    *)
(* list is also ordered by the time in its elements.                        *)
ArrivalOrder ==
  /\ IsSorted(list \o mq, LAMBDA q, r : PostedAt(q) < PostedAt(r))
  /\ IsSorted(list, LAMBDA q, r : stamp[q] <= stamp[r])

(* While the first process lives, with memory to be had and a tmp.req that  *)
(* was not LTU_NOACK by accident, every accepted request is waiting in the  *)
(* queue, is in the list, or its sender was told.                           *)
NothingLost ==
  Alive /\ restarts = 0 /\ ~AllocFails /\ tmpReq # "LTU_NOACK"
    => ToSet(posted) = Queued \cup Listed \cup told

(* A step of a living process takes an element out of the list only to tell *)
(* its sender that its time is over: an answer does not (lines 203-205).    *)
LeavesOnlyTold ==
  [][\A r \in Listed : r \notin Listed' => r \in told' \/ pc' = "dead"]_vars

(* A request taken over is told its time is over, unless the process dies   *)
(* first.  The clock of the model stops at MaxTime, so this asks it of the  *)
(* requests whose time is over by then.                                     *)
AcceptedTold ==
  \A r \in Requests :
    r \in Listed /\ stamp[r] + Timing(r) <= MaxTime ~> r \in told \/ ~Alive

(* A message does not stay in the queue for ever while a process runs, not  *)
(* even in the process started after a crash that the message before it     *)
(* caused: each crash has consumed its message.                             *)
QueueServed ==
  \A r \in Requests : r \in Queued ~> r \notin Queued \/ ~Alive

(* The telemetry thread's wait ends although a signal sent before the wait  *)
(* is lost: the CoAP thread signals again in every round of its loop.       *)
RoundWoken ==
  yc = "wait" /\ ycTime + YCTimeout <= MaxTime ~> yc = "relock" \/ ~Alive

-----------------------------------------------------------------------------
(* No request is twice in the queue or the list, in both, or in one of them *)
(* after its sender was told: the queue hands each message over once, the   *)
(* sweep unlinks the element it told, and a restart revives nothing.        *)
InOnePlace ==
  /\ IsInjective(mq) /\ IsInjective(list)
  /\ Queued \cap Listed = {}
  /\ (Queued \cup Listed) \cap told = {}
  /\ Queued \cup Listed \cup told \subseteq ToSet(posted)

(* Nobody but the supervisor acts while no process runs. *)
DeadIsStill ==
  ~Alive => yc = "fetch" /\ \A a \in AskReqs : asker[a] = "idle"

(* The inductive invariant behind TimeoutJustified, SweptIsFresh and        *)
(* NothingLost: a request that is told must not be stamped again, the       *)
(* sweep's time_now is a time that has been, and a dead process sends       *)
(* nothing.                                                                 *)
IInv ==
  /\ TypeOK
  /\ InOnePlace
  /\ timeNow <= now
  /\ TimeoutJustified
  /\ SweptIsFresh
  /\ NothingLost
  /\ DeadIsStill

-----------------------------------------------------------------------------
(* The refinement mapping to RequestService. *)
StatusOf(r) ==
  IF r \in told THEN "told"
  ELSE IF r \in Listed THEN "pending"
  ELSE IF r \in Queued THEN "queued"
  ELSE IF Fresh(r) THEN "idle"
  ELSE "lost"

Service == INSTANCE RequestService WITH
  Capacity <- MQMax, status <- [r \in Requests |-> StatusOf(r)]

(* The threads, the queue and the list implement the request service: every *)
(* step, crashes and restarts included, is a step of it or changes nothing. *)
ImplementsService == Service!Spec

-----------------------------------------------------------------------------
(* Statements of the repository's comments that the code does not keep.     *)

(* wgconfig.h:48 says the thread uses askmtx to judge whether the message   *)
(* was answered: a request that a device answered is not told a timeout.    *)
AnsweredNotTimedOut ==
  [][\A r \in answered : r \in told' => r \in told]_vars

(* wgconfig.h:48: the thread that waits for the answer of its request has   *)
(* that request still on its way to it, in the queue or in the list.        *)
AskerNotStranded ==
  \A r \in AskReqs : asker[r] = "wait" => r \in Queued \cup Listed

(* YCpthread.c:110 says the telemetry quantities are requested: a telemetry *)
(* request is transmitted with the path of the quantities (line 39).        *)
TelemetryPath ==
  \A r \in AskReqs \cup PollReqs : sentPath[r] \in {"unsent", "dsAin"}

(* YCpthread.c:110: the telemetry thread sends its requests to the CoAP     *)
(* thread as well as the console does: the sweep finds a timing in each of  *)
(* the elements it visits.                                                  *)
SweepFindsTiming ==
  pc = "sweep" /\ cursor <= Len(list) => list[cursor] \in mapped

(* wgconfig.h:74 says DeviceInfo.time is when the round's requests were     *)
(* sent: the round is not woken before 300 s have passed since then.        *)
RoundNotWokenEarly == yc = "relock" => now - ycTime >= YCTimeout
=============================================================================
