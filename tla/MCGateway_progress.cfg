SPECIFICATION FairSpec
CONSTANTS
  BlockReqs = {b1}
  AskReqs = {a1}
  PollReqs = {p1}
  MQMax = 2
  TimingBlock = 2
  TimingAsk = 1
  YCTimeout = 2
  StartTime = 2
  MaxTime = 4
  MaxRestarts = 1
  UninitReqs = {"LTU_YC"}
  AnswerKinds = {"response"}
  AllocFails = FALSE
  SendFails = FALSE
PROPERTIES AcceptedTold QueueServed RoundWoken
CHECK_DEADLOCK FALSE
