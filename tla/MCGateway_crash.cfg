SPECIFICATION Spec
CONSTANTS
  BlockReqs = {}
  AskReqs = {a1}
  PollReqs = {p1, p2}
  MQMax = 2
  TimingBlock = 2
  TimingAsk = 1
  YCTimeout = 2
  StartTime = 2
  MaxTime = 4
  MaxRestarts = 1
  UninitReqs = {"LTU_YC", "LTU_NOACK"}
  AnswerKinds = {"ack", "content"}
  AllocFails = TRUE
  SendFails = TRUE
SYMMETRY Symmetry
INVARIANTS IInv ArrivalOrder
PROPERTIES ImplementsService
CHECK_DEADLOCK FALSE
