\* Replies on the service thread, in the request's callbacks and in others.
SPECIFICATION Spec
CONSTANTS
  Wsis = {w1, w2}
  NULL = null
  MaxEpoch = 3
  MaxBody = 1
  MaxWire = 4
  Uses = {"own", "later"}
SYMMETRY WsiSymmetry
INVARIANTS TypeOK ReplyGoesToItsClient ReplyIsContiguous
PROPERTY KeepsReplyContract
CHECK_DEADLOCK FALSE
