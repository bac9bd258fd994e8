SPECIFICATION FairSpec
CONSTANTS
  Messages = {1, 2}
  TickMod = 32
  Timeouts = {1, 2}
  MaxRetransmit = 2
  StartClock = 28
  MaxClock = 35
  SendFails = TRUE
CHECK_DEADLOCK FALSE
INVARIANTS TypeOK SentAwaited
PROPERTIES GivenUpExhausted FirstTimeoutKept ImplementsTimers Settled
