\* Every getter on every kind of request, in both callbacks.
SPECIFICATION Spec
CONSTANTS
  Words = {"a", "A", "b", "u", "long"}
  Headers = {"host", "accept"}
  Names = {"x-one", "x-two"}
  BufferSizes = {0, 8, 2048}
  MaxBody = 1
  MaxRequests = 2
  WordLen <- MCWordLen
  Ascii <- MCAscii
  Widen <- MCWiden
  Lower <- MCLower
  Methods <- MCMethods
  Requests <- MCRequests
  Chunks <- MCChunks
INVARIANTS TypeOK AnswersAreTheRequests NothingSentIsMissed ParametersAreTheArguments
CHECK_DEADLOCK FALSE
