\* Bodies on both sides of the length that makes the buffer large enough.
SPECIFICATION Spec
CONSTANTS
  BodyLengths = {0, 9, 10, 62, 63, 64, 65, 66, 67, 70, 73, 100}
  Responses <- MCResponses
  Slack = 2
INVARIANTS TypeOK WithinBuffer LongBodyIsComplete AnnouncedIsSent
CHECK_DEADLOCK FALSE
