\* The plugin as shipped, from loading its libraries to freeing them.
SPECIFICATION SystemSpec
CONSTANTS
  Objects = {t1, t2}
  Game = game
  NULL = null
  GameCalls = {"Toggle"}
  HandlerCalls = {"Toggle"}
  MaxSuspend = 2
  Wsis = {w1}
  MaxEpoch = 3
  MaxBody = 1
  MaxWire = 3
  Uses = {"own", "later", "game"}
INVARIANTS SystemTypeOK FreedUseOnlyAfterStop NoServiceAfterEndPlay HandlersEndBeforeActor DllsOutliveService AnswersStayInOrder
PROPERTY AnswersCutOnlyByStop AnswersUntilStop
CHECK_DEADLOCK FALSE
