------------------------------- MODULE YCThread -------------------------------
(***************************************************************************)
(* YCPthread (YCpthread.c): one telemetry round.  The thread fetches the   *)
(* registered devices, opens the round, posts a request per device without *)
(* a pthpara, and waits to be woken.                                       *)
(*                                                                         *)
(*   "fetch"  109      GetRegisteredDeviceInfo, repeated while it fails    *)
(*   "time"   114      YCRequest is set, DeviceInfo.time is not yet        *)
(*   "post"   120-130  requests are being sent                             *)
(*   "wait"   131      inside pthread_cond_wait                            *)
(*   "relock" 132      woken, which locked YCRequestmtx, and locking the   *)
(*                     same default mutex again: the thread stays here     *)
(*                                                                         *)
(* The number of devices a fetch returns is left open: the thread posts    *)
(* any of PollReqs that were not posted yet and then waits.                *)
(***************************************************************************)
EXTENDS GatewayState

OpenRound ==
  /\ Alive /\ yc = "fetch"
  /\ yc' = "time"
  /\ UNCHANGED <<now, mqVars, loopVars, listVars, wireVars, paraVars, ycTime, restarts>>

TimeRound ==
  /\ yc = "time"
  /\ yc' = "post"
  /\ ycTime' = now
  /\ UNCHANGED <<now, mqVars, loopVars, listVars, wireVars, paraVars, restarts>>

PostPoll(r) ==
  /\ yc = "post"
  /\ MqSend(r)
  /\ UNCHANGED <<now, loopVars, listVars, wireVars, paraVars, ycVars, restarts>>

AwaitRound ==
  /\ yc = "post"
  /\ yc' = "wait"
  /\ UNCHANGED <<now, mqVars, loopVars, listVars, wireVars, paraVars, ycTime, restarts>>

YCStep ==
  \/ OpenRound \/ TimeRound \/ AwaitRound
  \/ \E r \in PollReqs : PostPoll(r)
=============================================================================
