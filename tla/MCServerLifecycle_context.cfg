\* The stock actor breaks the rule of lws_context_destroy.
SPECIFICATION Spec
CONSTANTS
  Objects = {t1}
  Game = game
  NULL = null
  GameCalls = {}
  HandlerCalls = {}
  MaxSuspend = 0
INVARIANT NoUseOfDestroyedContext
CHECK_DEADLOCK FALSE
