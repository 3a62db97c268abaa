\* Any Blueprint: every server function from the game thread and from handlers,
\* and under fairness which Stop comes back.
SPECIFICATION FairSpec
CONSTANTS
  Objects = {t1, t2}
  Game = game
  NULL = null
  GameCalls = {"Start", "Stop", "Toggle"}
  HandlerCalls = {"Start", "Stop", "Toggle"}
  MaxSuspend = 2
INVARIANTS TypeOK JoinBeforeFree NoLostStop DestroyedUseOnlyDuringStop
PROPERTIES RunnableContractHolds RunWindsDown SelfStopNeverReturns StopReturns
CHECK_DEADLOCK FALSE
