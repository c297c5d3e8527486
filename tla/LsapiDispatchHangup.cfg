SPECIFICATION Spec
CONSTANTS
  MaxReq = 2
  BodyLen = 2
  MaxData = 2
  InlineCap = 1
  RetryMax = 2
  MaxFaults = 2
  Mixes <- MCMixes
  HangupAt = {"acquire", "begin", "write", "read"}
CHECK_DEADLOCK FALSE
INVARIANT OwnResponse
