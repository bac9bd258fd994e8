SPECIFICATION Spec
CONSTANTS
  BlockReqs = {}
  AskReqs = {a1}
  PollReqs = {p1}
  MQMax = 2
  TimingBlock = 2
  TimingAsk = 1
  YCTimeout = 3
  StartTime = 3
  MaxTime = 6
  MaxRestarts = 0
  UninitReqs = {"LTU_YC"}
  AnswerKinds = {}
  AllocFails = FALSE
  SendFails = FALSE
INVARIANT SweepFindsTiming
CHECK_DEADLOCK FALSE
