\* Replies of every kind at one address, which serves several clients in turn.
SPECIFICATION Spec
CONSTANTS
  Wsis = {w1}
  NULL = null
  MaxEpoch = 4
  MaxBody = 1
  MaxWire = 4
  Uses = {"own", "later", "game"}
INVARIANTS ReplyGoesToItsClient OwnReplyFindsItsConnection ReplyIsContiguous
PROPERTY KeepsReplyContract
CHECK_DEADLOCK FALSE
