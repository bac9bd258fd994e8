SPECIFICATION Spec
CONSTANTS
  BlockReqs = {b1}
  AskReqs = {a1}
  PollReqs = {}
  MQMax = 1
  TimingBlock = 2
  TimingAsk = 1
  YCTimeout = 3
  StartTime = 3
  MaxTime = 6
  MaxRestarts = 0
  UninitReqs = {"LTU_YC"}
  AnswerKinds = {}
  AllocFails = FALSE
  SendFails = FALSE
INVARIANT AskerNotStranded
CHECK_DEADLOCK FALSE
