\* A value shorter than the default buffer.
SPECIFICATION Spec
CONSTANTS
  Words = {"a", "A", "b", "u", "long"}
  Headers = {"host", "accept"}
  Names = {"x-one", "x-two"}
  BufferSizes = {0, 8, 2048}
  MaxBody = 1
  MaxRequests = 2
  WordLen <- MCWordLen
  Ascii <- MCAscii
  Widen <- MCWiden
  Lower <- MCLower
  Methods <- MCMethods
  Requests <- MCRequests
  Chunks <- MCChunks
INVARIANTS DefaultBufferHoldsTheValue
CHECK_DEADLOCK FALSE
