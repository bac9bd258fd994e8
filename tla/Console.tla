------------------------------- MODULE Console -------------------------------
(***************************************************************************)
(* testpthread (test.c): reads commands.  'l' submits a block request and  *)
(* goes on; 'a' submits a telemetry request and waits on its askcond, in a *)
(* loop that never ends: the console takes no further command.  The first  *)
(* pthread_cond_wait is called without the mutex, which glibc lets pass.   *)
(***************************************************************************)
EXTENDS GatewayState

AtPrompt == Alive /\ \A a \in AskReqs : asker[a] = "idle"

CommandBlock(r) ==
  /\ AtPrompt
  /\ MqSend(r)
  /\ mapped' = mapped \cup {r}
  /\ UNCHANGED <<now, loopVars, listVars, wireVars, told, asker, ycVars, restarts>>

CommandAsk(r) ==
  /\ AtPrompt
  /\ MqSend(r)
  /\ mapped' = mapped \cup {r}
  /\ asker' = [asker EXCEPT ![r] = "ask"]
  /\ UNCHANGED <<now, loopVars, listVars, wireVars, told, ycVars, restarts>>

(* The sender reaches pthread_cond_wait; a signal sent before is lost. *)
EnterWait(r) ==
  /\ asker[r] = "ask"
  /\ asker' = [asker EXCEPT ![r] = "wait"]
  /\ UNCHANGED <<now, mqVars, loopVars, listVars, wireVars, told, mapped, ycVars, restarts>>

(* malloc(sizeof(struct sPthreadPara)) returned NULL: ->timing faults. *)
CommandOutOfMemory ==
  /\ AtPrompt /\ AllocFails
  /\ Die
  /\ UNCHANGED mq

ConsoleStep ==
  \/ \E r \in BlockReqs : CommandBlock(r)
  \/ \E r \in AskReqs : CommandAsk(r) \/ EnterWait(r)
  \/ CommandOutOfMemory
=============================================================================
