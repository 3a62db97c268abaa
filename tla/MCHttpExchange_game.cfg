\* A reply from the game thread races with the connection's end.
SPECIFICATION Spec
CONSTANTS
  Wsis = {w1}
  NULL = null
  MaxEpoch = 2
  MaxBody = 0
  MaxWire = 3
  Uses = {"game"}
INVARIANT NoReplyToClosed
CHECK_DEADLOCK FALSE
