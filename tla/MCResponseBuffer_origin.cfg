\* Short bodies leave no room for the header the tooltip promises.
SPECIFICATION Spec
CONSTANTS
  BodyLengths = {2}
  Responses <- MCResponses
  Slack = 0
INVARIANT AllowOriginAdded
CHECK_DEADLOCK FALSE
