SPECIFICATION Spec
CONSTANTS
  BlockReqs = {b1, b2}
  AskReqs = {a1}
  PollReqs = {}
  MQMax = 2
  TimingBlock = 2
  TimingAsk = 1
  YCTimeout = 3
  StartTime = 3
  MaxTime = 6
  MaxRestarts = 0
  UninitReqs = {"LTU_YC", "LTU_NOACK"}
  AnswerKinds = {"ack", "response"}
  AllocFails = FALSE
  SendFails = TRUE
SYMMETRY Symmetry
INVARIANTS TypeOK TimeoutJustified SweptIsFresh ArrivalOrder NothingLost
PROPERTIES LeavesOnlyTold
