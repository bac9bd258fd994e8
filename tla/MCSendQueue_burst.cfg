SPECIFICATION FairSpec
CONSTANTS
  Messages = {1, 2}
  TickMod = 64
  Timeouts = {2, 3}
  MaxRetransmit = 4
  StartClock = 0
  MaxClock = 8
  SendFails = FALSE
CHECK_DEADLOCK FALSE
PROPERTIES RetransmissionSpaced
