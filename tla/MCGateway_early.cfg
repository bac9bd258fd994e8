SPECIFICATION Spec
CONSTANTS
  BlockReqs = {}
  AskReqs = {}
  PollReqs = {p1}
  MQMax = 1
  TimingBlock = 2
  TimingAsk = 1
  YCTimeout = 3
  StartTime = 3
  MaxTime = 6
  MaxRestarts = 0
  UninitReqs = {"LTU_YC"}
  AnswerKinds = {}
  AllocFails = FALSE
  SendFails = FALSE
INVARIANT RoundNotWokenEarly
CHECK_DEADLOCK FALSE
