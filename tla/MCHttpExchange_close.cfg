\* lws asks for a close that Callback_HTTP does not pass on.
SPECIFICATION Spec
CONSTANTS
  Wsis = {w1}
  NULL = null
  MaxEpoch = 2
  MaxBody = 0
  MaxWire = 3
  Uses = {"own"}
INVARIANT MustCloseIsObeyed
CHECK_DEADLOCK FALSE
