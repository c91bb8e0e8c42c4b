\* Calls that take no time, a little, till the client's timeout, or far too long.
CONSTANTS
  Latencies = {0, 1, 30, 130}
  FinalityTimes = {0, 1, 8, 14, 15, 16, 40, 1000}
SPECIFICATION PollSpec
INVARIANTS
  OverrunIsTheRpcs
  TypicalFinalityIsSeen
CHECK_DEADLOCK FALSE
