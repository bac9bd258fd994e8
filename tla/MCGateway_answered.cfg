SPECIFICATION Spec
CONSTANTS
  BlockReqs = {}
  AskReqs = {a1}
  PollReqs = {}
  MQMax = 1
  TimingBlock = 2
  TimingAsk = 1
  YCTimeout = 3
  StartTime = 3
  MaxTime = 6
  MaxRestarts = 0
  UninitReqs = {"LTU_YC"}
  AnswerKinds = {"response"}
  AllocFails = FALSE
  SendFails = FALSE
PROPERTY AnsweredNotTimedOut
CHECK_DEADLOCK FALSE
