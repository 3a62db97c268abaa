------------------------- MODULE PluginSystemProofs -------------------------
(***************************************************************************)
(* Theorems about the plugin as it is shipped.  Every step of the system   *)
(* is a step of the server or leaves the server alone, so what is proved   *)
(* of the shipped server holds of the system; the rest couples the         *)
(* callback of HttpExchange to the handler of ServerLifecycle.             *)
(***************************************************************************)
EXTENDS PluginSystem, ServerImplementsProofs

LEMMA Shipped == StockCaller
  BY ShippedAssumption DEF StockCaller

LEMMA ServerStep == SystemNext => [Next]_vars
<1> SUFFICES ASSUME SystemNext PROVE [Next]_vars OBVIOUS
<1>1. CASE StartupModule \/ ShutdownModule \/ GameReplyStep
  BY <1>1 DEF StartupModule, ShutdownModule, GameReplyStep
<1>2. CASE ActorStep
  BY <1>2 DEF ActorStep, Up, Next
<1>3. ASSUME NEW c \in Callers, CallStep(c) \/ DestroyStep(c) PROVE [Next]_vars
  <2>1. ~crashed /\ Running(c) /\ (CallBegins(c) \/ CallProceeds(c))
    BY <1>3 DEF CallStep, DestroyStep, Up, CallProceeds
  <2>2. QED BY <2>1 DEF Next
<1>4. ASSUME NEW t \in Objects,
             \/ LoopStep(t) \/ CallbackStep(t) \/ StaleCallbackStep(t)
             \/ CallbackReturnStep(t)
      PROVE [Next]_vars
  <2>1. ~crashed /\ Running(t)
    BY <1>4 DEF LoopStep, CallbackStep, StaleCallbackStep, CallbackReturnStep, Up
  <2>2. \/ WorkerProceeds(t) \/ Dispatch(t) \/ ServiceReturns(t)
        \/ LeaveDestroyed(t) \/ DispatchDestroyed(t)
    BY <1>4 DEF LoopStep, CallbackStep, StaleCallbackStep, CallbackReturnStep,
      WorkerProceeds
  <2>3. QED BY <2>1, <2>2 DEF Next
<1>5. ASSUME NEW t \in Objects, LwsStep(t) \/ HandlerReplyStep(t) PROVE [Next]_vars
  BY <1>5 DEF LwsStep, HandlerReplyStep
<1>6. QED BY <1>1, <1>2, <1>3, <1>4, <1>5 DEF SystemNext

LEMMA ServerStutters == UNCHANGED allvars => UNCHANGED vars
  BY DEF allvars

-----------------------------------------------------------------------------
(* The inductive invariant.                                                *)

(* The actor plays only while the module and its libraries are loaded.     *)
LoadedWhilePlaying ==
  /\ module \in {"unloaded", "loaded", "fatal", "shut"}
  /\ handles \subseteq Dlls
  /\ module = "loaded" => handles = Dlls
  /\ module # "loaded" => actor \in {"spawned", "ended"}

(* The callback under way is the handler a service thread runs.            *)
CallbackIsHandler == cb # Http!NoCallback <=> \E t \in Objects : worker[t] = "handler"

(* What is needed of the types of the exchange.                            *)
ExchangeShape ==
  /\ DOMAIN conn = Wsis
  /\ DOMAIN reply = {"service", "game"}
  /\ cb # Http!NoCallback => cb.wsi \in Wsis
  /\ reply["game"].use \in {"none", "game"}
  /\ cb = Http!NoCallback => reply["service"] = Http!NoReply
  /\ reply["service"].use = "own" => reply["service"].request.wsi = cb.wsi

(* The connection of the callback under way is open, unless the context    *)
(* its handler runs in has been destroyed.                                 *)
CallbackOpenOrDestroyed ==
  cb # Http!NoCallback /\ conn[cb.wsi] = "closed" =>
    \E t \in Objects : worker[t] = "handler" /\ lws[t] = "destroyed"

SystemInv ==
  /\ StockInv
  /\ LoadedWhilePlaying
  /\ CallbackIsHandler
  /\ ExchangeShape
  /\ CallbackOpenOrDestroyed

(* At most one service thread runs, and a Stop under way is its own.       *)
LEMMA OneHandler ==
  ASSUME StockInv, NEW t \in Objects, worker[t] = "handler"
  PROVE  /\ \A u \in Objects : worker[u] = "handler" => u = t
         /\ InStop(Game) => on[Game] = t
<1> USE DEF StockInv, OnlyActorCalls, InStop
<1>1. CASE Thread_LibWebSocket = t
  <2>1. at[Game] # "create" BY <1>1, ConstantsAssumption DEF ConstantsAssumption
  <2>2. QED BY <1>1, <2>1, OneThread
<1>2. CASE at[Game] = "create" /\ on[Game] = t
  <2>1. Thread_LibWebSocket = NULL BY <1>2
  <2>2. QED BY <1>2, <2>1, OneThread, ConstantsAssumption DEF ConstantsAssumption
<1>3. QED BY <1>1, <1>2, OneThread

-----------------------------------------------------------------------------
LEMMA SystemInitInv == SystemInit => SystemInv
<1> SUFFICES ASSUME SystemInit PROVE SystemInv OBVIOUS
<1>1. StockInv BY StockInit DEF SystemInit
<1>2. LoadedWhilePlaying BY DEF SystemInit, Init, LoadedWhilePlaying
<1>3. CallbackIsHandler BY DEF SystemInit, Init, Http!Init, CallbackIsHandler
<1>4. ExchangeShape
  BY DEF SystemInit, Http!Init, Http!Threads, Http!NoReply, ExchangeShape
<1>5. CallbackOpenOrDestroyed
  BY DEF SystemInit, Http!Init, CallbackOpenOrDestroyed
<1>6. QED BY <1>1, <1>2, <1>3, <1>4, <1>5 DEF SystemInv

(* Steps that leave the exchange alone keep what is coupled to it if they  *)
(* start and end no handler and destroy no context.                        *)
LEMMA ExchangeUntouched ==
  ASSUME SystemInv, UNCHANGED exchange,
         \A t \in Objects : worker'[t] = "handler" <=> worker[t] = "handler",
         \A t \in Objects : lws[t] = "destroyed" /\ worker[t] = "handler" => lws'[t] = "destroyed"
  PROVE  CallbackIsHandler' /\ ExchangeShape' /\ CallbackOpenOrDestroyed'
<1>1. CallbackIsHandler' BY DEF SystemInv, CallbackIsHandler, exchange
<1>2. ExchangeShape' BY DEF SystemInv, ExchangeShape, exchange
<1>3. CallbackOpenOrDestroyed' BY DEF SystemInv, CallbackOpenOrDestroyed, exchange
<1>4. QED BY <1>1, <1>2, <1>3

LEMMA LoadedKept ==
  ASSUME SystemInv, Up, UNCHANGED plugin PROVE LoadedWhilePlaying'
  BY DEF SystemInv, LoadedWhilePlaying, Up, plugin

(* A reply on either thread keeps the shape and closes no connection.      *)
LEMMA ReplyKeeps ==
  ASSUME SystemInv, NEW th \in {"service", "game"}, Http!Reply(th),
         th = "service" => cb # Http!NoCallback
  PROVE  /\ ExchangeShape' /\ cb' = cb
         /\ \A w \in Wsis : conn'[w] = "closed" <=> conn[w] = "closed"
<1> USE DEF SystemInv, ExchangeShape
<1>1. ASSUME NEW r \in requests, Http!SendResponse(th, r)
      PROVE /\ ExchangeShape' /\ cb' = cb
            /\ \A w \in Wsis : conn'[w] = "closed" <=> conn[w] = "closed"
  <2>1. UNCHANGED <<conn, cb>> BY <1>1 DEF Http!SendResponse, Http!connections
  <2>2. CASE th = "game"
    BY <1>1, <2>1, <2>2 DEF Http!SendResponse, Http!UseOf
  <2>3. CASE th = "service"
    BY <1>1, <2>1, <2>3 DEF Http!SendResponse, Http!UseOf
  <2>4. QED BY <2>1, <2>2, <2>3
<1>2. ASSUME NEW part, NEW next, Http!WritePart(th, part, next)
      PROVE /\ ExchangeShape' /\ cb' = cb
            /\ \A w \in Wsis : conn'[w] = "closed" <=> conn[w] = "closed"
  BY <1>2 DEF Http!WritePart, Http!connections
<1>3. CASE Http!FinishReply(th)
  <2>1. /\ cb' = cb /\ DOMAIN conn' = Wsis
        /\ \A w \in Wsis : conn'[w] = "closed" <=> conn[w] = "closed"
    BY <1>3 DEF Http!FinishReply
  <2>2. reply' = [reply EXCEPT ![th] = Http!NoReply] BY <1>3 DEF Http!FinishReply
  <2>3. ExchangeShape' BY <2>1, <2>2 DEF Http!NoReply
  <2>4. QED BY <2>1, <2>3
<1>4. QED BY <1>1, <1>2, <1>3 DEF Http!Reply, Http!WriteHeader, Http!WriteBody

-----------------------------------------------------------------------------
(* One lemma per kind of step.  Coupled is what a step must keep besides   *)
(* the server's own invariant.                                             *)
Coupled == LoadedWhilePlaying /\ CallbackIsHandler /\ ExchangeShape /\ CallbackOpenOrDestroyed

LEMMA ModuleKeeps ==
  ASSUME SystemInv, StartupModule \/ ShutdownModule PROVE Coupled'
<1>0. UNCHANGED <<vars, exchange>> BY DEF StartupModule, ShutdownModule
<1>1. UNCHANGED <<actor, worker, lws>> BY <1>0 DEF vars, object
<1>2. LoadedWhilePlaying'
  <2>1. CASE StartupModule
    BY <1>1, <2>1 DEF StartupModule, SystemInv, LoadedWhilePlaying
  <2>2. CASE ShutdownModule
    BY <1>1, <2>2 DEF ShutdownModule, SystemInv, LoadedWhilePlaying
  <2>3. QED BY <2>1, <2>2
<1>3. QED BY <1>0, <1>1, <1>2, ExchangeUntouched DEF Coupled

LEMMA ActorKeeps ==
  ASSUME SystemInv, ActorStep PROVE Coupled'
<1>0. UNCHANGED plugin /\ UNCHANGED exchange /\ Up BY DEF ActorStep
<1>1. LoadedWhilePlaying' BY <1>0, LoadedKept
<1>2. UNCHANGED lws /\ \A t \in Objects : worker'[t] = "handler" <=> worker[t] = "handler"
  <2>1. CASE BeginPlay
    BY <2>1 DEF BeginPlay, StartCall, object, SystemInv, StockInv, IInv, TypeOK, UnusedIsFresh
  <2>2. CASE EndPlay
    BY <2>2 DEF EndPlay
  <2>3. CASE EndPlayReturns
    BY <2>3 DEF EndPlayReturns, object
  <2>4. QED BY <2>1, <2>2, <2>3 DEF ActorStep
<1>3. QED BY <1>0, <1>1, <1>2, ExchangeUntouched DEF Coupled

LEMMA CallKeeps ==
  ASSUME SystemInv, NEW c \in Callers, CallStep(c) PROVE Coupled'
<1>0. UNCHANGED plugin /\ UNCHANGED exchange /\ Up BY DEF CallStep
<1>1. LoadedWhilePlaying' BY <1>0, LoadedKept
<1>2. UNCHANGED <<worker, lws>>
  <2>1. CASE CallBegins(c)
    <3>1. PICK b \in BOOLEAN : HTTP_Server_Toggle(c, b)
      BY <2>1, Shipped
      DEF StockCaller, CallBegins, HTTP_Server_Start, HTTP_Server_Stop, MayCall,
        Callers
    <3>2. QED BY <3>1 DEF HTTP_Server_Toggle
  <2>2. CASE CreateReturns(c) \/ ClearContext(c) \/ LowerFlag(c) \/ Joined(c) \/ StopOnFreed(c)
    BY <2>2 DEF CreateReturns, ClearContext, LowerFlag, Joined, StopOnFreed, object
  <2>3. QED BY <2>1, <2>2 DEF CallStep
<1>3. QED BY <1>0, <1>1, <1>2, ExchangeUntouched DEF Coupled

(* Destroying the context under a handler is what closes its connection.   *)
LEMMA DestroyKeeps ==
  ASSUME SystemInv, NEW c \in Callers, DestroyStep(c) PROVE Coupled'
<1>0. UNCHANGED plugin /\ Up /\ DestroyContext(c) BY DEF DestroyStep
<1>1. LoadedWhilePlaying' BY <1>0, LoadedKept
<1>2. UNCHANGED worker BY <1>0 DEF DestroyContext
<1>3. c = Game /\ on[Game] \in Objects /\ InStop(Game)
  BY <1>0 DEF DestroyContext, SystemInv, StockInv, OnlyActorCalls, Callers, IInv,
    TypeOK, InStop
<1>4. CASE Context[on[c]]
  <2>1. CloseConnections BY <1>4 DEF DestroyStep
  <2>2. UNCHANGED <<cb, reply>> BY <2>1 DEF CloseConnections
  <2>3. CallbackIsHandler' BY <1>2, <2>2 DEF SystemInv, CallbackIsHandler
  <2>4. ExchangeShape'
    BY <2>1, <2>2 DEF CloseConnections, SystemInv, ExchangeShape
  <2>5. lws' = [lws EXCEPT ![on[Game]] = "destroyed"]
    BY <1>0, <1>3, <1>4 DEF DestroyContext
  <2>6. lws'[on[Game]] = "destroyed"
    BY <1>3, <2>5 DEF SystemInv, StockInv, IInv, TypeOK
  <2>7. ASSUME cb # Http!NoCallback PROVE worker[on[Game]] = "handler"
    <3>1. PICK t \in Objects : worker[t] = "handler"
      BY <2>7 DEF SystemInv, CallbackIsHandler
    <3>2. QED BY <1>3, <3>1, OneHandler DEF SystemInv
  <2>8. CallbackOpenOrDestroyed'
    BY <1>2, <1>3, <2>2, <2>6, <2>7 DEF CallbackOpenOrDestroyed
  <2>9. QED BY <1>1, <2>3, <2>4, <2>8 DEF Coupled
<1>5. CASE ~Context[on[c]]
  <2>1. UNCHANGED exchange BY <1>5 DEF DestroyStep
  <2>2. UNCHANGED lws BY <1>0, <1>5 DEF DestroyContext
  <2>3. QED BY <1>1, <1>2, <2>1, <2>2, ExchangeUntouched DEF Coupled
<1>6. QED BY <1>4, <1>5

LEMMA LoopKeeps ==
  ASSUME SystemInv, NEW t \in Objects, LoopStep(t) PROVE Coupled'
<1>0. UNCHANGED plugin /\ UNCHANGED exchange /\ Up BY DEF LoopStep
<1>1. LoadedWhilePlaying' BY <1>0, LoadedKept
<1>2. worker[t] # "handler" /\ \E p \in WorkerPoints \ {"handler"} : worker' = [worker EXCEPT ![t] = p]
  BY DEF LoopStep, InitThread, RunTest, RunCheck, ServiceEnter, ServiceReturns,
    LeaveDestroyed, Move, WorkerPoints
<1>3. \A u \in Objects : worker'[u] = "handler" <=> worker[u] = "handler"
  BY <1>2 DEF SystemInv, StockInv, IInv, TypeOK
<1>4. UNCHANGED lws \/ lws' = [lws EXCEPT ![t] = "live"]
  BY DEF LoopStep, InitThread, RunTest, RunCheck, ServiceEnter, ServiceReturns,
    LeaveDestroyed
<1>5. \A u \in Objects : lws[u] = "destroyed" /\ worker[u] = "handler" => lws'[u] = "destroyed"
  BY <1>2, <1>4 DEF SystemInv, StockInv, IInv, TypeOK
<1>6. QED BY <1>0, <1>1, <1>3, <1>5, ExchangeUntouched DEF Coupled

(* lws works by itself only outside callbacks.                             *)
LEMMA LwsKeeps ==
  ASSUME SystemInv, NEW t \in Objects, LwsStep(t) PROVE Coupled'
<1>0. UNCHANGED plugin /\ Up /\ UNCHANGED <<worker, lws>>
  BY DEF LwsStep, vars, object
<1>1. LoadedWhilePlaying' BY <1>0, LoadedKept
<1>2. cb = Http!NoCallback /\ UNCHANGED <<cb, reply>> /\ DOMAIN conn' = Wsis
  BY DEF LwsStep, Http!Lws, Http!Accept, Http!RequestArrives, Http!Close,
    Http!HttpDummy, Http!Drop, SystemInv, ExchangeShape
<1>3. CallbackIsHandler' BY <1>0, <1>2 DEF SystemInv, CallbackIsHandler
<1>4. ExchangeShape' BY <1>2 DEF SystemInv, ExchangeShape
<1>5. CallbackOpenOrDestroyed' BY <1>2 DEF CallbackOpenOrDestroyed
<1>6. QED BY <1>1, <1>3, <1>4, <1>5 DEF Coupled

LEMMA CallbackKeeps ==
  ASSUME SystemInv, NEW t \in Objects, CallbackStep(t) \/ StaleCallbackStep(t)
  PROVE  Coupled'
<1>0. UNCHANGED plugin /\ Up BY DEF CallbackStep, StaleCallbackStep
<1>1. LoadedWhilePlaying' BY <1>0, LoadedKept
<1>2. worker'[t] = "handler" /\ UNCHANGED lws
  BY DEF CallbackStep, StaleCallbackStep, Dispatch, DispatchDestroyed, Move,
    SystemInv, StockInv, IInv, TypeOK
<1>3. PICK w \in Wsis, reason \in {"filter", "http", "body"} :
        /\ cb = Http!NoCallback /\ cb' = [reason |-> reason, wsi |-> w]
        /\ UNCHANGED reply /\ DOMAIN conn' = Wsis
        /\ conn'[w] = "closed" => lws[t] = "destroyed"
  <2>1. CASE CallbackStep(t)
    BY <2>1 DEF CallbackStep, Http!FilterCallback, Http!HttpCallback,
      Http!BodyCallback, Http!Enter, SystemInv, ExchangeShape
  <2>2. CASE StaleCallbackStep(t)
    BY <2>2 DEF StaleCallbackStep, DispatchDestroyed, Http!Enter, SystemInv,
      ExchangeShape
  <2>3. QED BY <2>1, <2>2
<1>4. cb' # Http!NoCallback /\ cb'.wsi = w BY <1>3 DEF Http!NoCallback
<1>5. CallbackIsHandler' BY <1>2, <1>4 DEF CallbackIsHandler
<1>6. ExchangeShape'
  BY <1>3, <1>4 DEF SystemInv, ExchangeShape, Http!NoReply
<1>7. CallbackOpenOrDestroyed' BY <1>2, <1>3, <1>4 DEF CallbackOpenOrDestroyed
<1>8. QED BY <1>1, <1>5, <1>6, <1>7 DEF Coupled

LEMMA CallbackReturnKeeps ==
  ASSUME SystemInv, NEW t \in Objects, CallbackReturnStep(t) PROVE Coupled'
<1>0. UNCHANGED plugin /\ Up /\ HandlerReturns(t) /\ Http!CallbackReturns
  BY DEF CallbackReturnStep
<1>1. LoadedWhilePlaying' BY <1>0, LoadedKept
<1>2. cb' = Http!NoCallback /\ reply["service"] = Http!NoReply /\ UNCHANGED <<reply, conn>>
  BY <1>0 DEF Http!CallbackReturns, Http!connections
<1>3. worker[t] = "handler" /\ worker' = [worker EXCEPT ![t] = "service"]
  BY <1>0 DEF HandlerReturns, Move
<1>4. \A u \in Objects : worker'[u] # "handler"
  BY <1>3, OneHandler DEF SystemInv, StockInv, IInv, TypeOK
<1>5. CallbackIsHandler' BY <1>2, <1>4 DEF CallbackIsHandler
<1>6. ExchangeShape' BY <1>2 DEF SystemInv, ExchangeShape, Http!NoReply
<1>7. CallbackOpenOrDestroyed' BY <1>2 DEF CallbackOpenOrDestroyed
<1>8. QED BY <1>1, <1>5, <1>6, <1>7 DEF Coupled

LEMMA ReplyStepKeeps ==
  ASSUME SystemInv, GameReplyStep \/ \E t \in Objects : HandlerReplyStep(t)
  PROVE  Coupled'
<1>0. UNCHANGED plugin /\ Up /\ UNCHANGED <<worker, lws>>
  BY DEF GameReplyStep, HandlerReplyStep, vars, object
<1>1. LoadedWhilePlaying' BY <1>0, LoadedKept
<1>2. PICK th \in {"service", "game"} :
        Http!Reply(th) /\ (th = "service" => cb # Http!NoCallback)
  BY DEF GameReplyStep, HandlerReplyStep, SystemInv, CallbackIsHandler
<1>3. /\ ExchangeShape' /\ cb' = cb
      /\ \A w \in Wsis : conn'[w] = "closed" <=> conn[w] = "closed"
  BY <1>2, ReplyKeeps
<1>4. CallbackIsHandler' BY <1>0, <1>3 DEF SystemInv, CallbackIsHandler
<1>5. CallbackOpenOrDestroyed'
  BY <1>0, <1>3 DEF SystemInv, CallbackOpenOrDestroyed, ExchangeShape
<1>6. QED BY <1>1, <1>3, <1>4, <1>5 DEF Coupled

LEMMA SystemNextInv == SystemInv /\ [SystemNext]_allvars => SystemInv'
<1> SUFFICES ASSUME SystemInv, [SystemNext]_allvars PROVE SystemInv' OBVIOUS
<1>1. StockInv'
  <2>1. [Next]_vars BY ServerStep, ServerStutters
  <2>2. QED BY <2>1, Shipped, StockNext DEF SystemInv
<1>2. Coupled'
  <2>1. CASE SystemNext
    BY <2>1, ModuleKeeps, ActorKeeps, CallKeeps, DestroyKeeps, LoopKeeps, LwsKeeps,
      CallbackKeeps, CallbackReturnKeeps, ReplyStepKeeps
    DEF SystemNext
  <2>2. CASE UNCHANGED allvars
    <3>1. UNCHANGED <<plugin, exchange, actor, worker, lws>>
      BY <2>2 DEF allvars, vars, object
    <3>2. LoadedWhilePlaying' BY <3>1 DEF SystemInv, LoadedWhilePlaying, plugin
    <3>3. QED BY <3>1, <3>2, ExchangeUntouched DEF Coupled
  <2>3. QED BY <2>1, <2>2
<1>3. QED BY <1>1, <1>2 DEF SystemInv, Coupled

LEMMA SystemInvariance == SystemSpec => []SystemInv
  BY SystemInitInv, SystemNextInv, PTL DEF SystemSpec

-----------------------------------------------------------------------------
LEMMA SystemRunsTheServer == SystemSpec => Spec
<1>1. SystemInit => Init BY DEF SystemInit
<1>2. [SystemNext]_allvars => [Next]_vars BY ServerStep, ServerStutters
<1>3. QED BY <1>1, <1>2, PTL DEF SystemSpec, Spec

(* The module's state is well typed and the callback under way is the one  *)
(* a service thread is in.                                                 *)
THEOREM SystemTypeCorrect == SystemSpec => []SystemTypeOK
<1>1. SystemInv => SystemTypeOK
  BY DEF SystemInv, LoadedWhilePlaying, CallbackIsHandler, SystemTypeOK
<1>2. QED BY <1>1, SystemInvariance, PTL

(* Only Event EndPlay can reach the freed server object, when the Stop has *)
(* returned, whatever requests and replies are under way.                  *)
THEOREM SystemUsesFreedOnlyAfterStop == SystemSpec => []FreedUseOnlyAfterStop
<1>1. SystemInv => FreedUseOnlyAfterStop
  BY DEF SystemInv, StockInv, LateFreedUse, FreedByEndPlay, Stopped,
    FreedUseOnlyAfterStop
<1>2. QED BY <1>1, SystemInvariance, PTL

(* When EndPlay has returned the service thread has left Run.              *)
THEOREM SystemEndPlayStopsService == SystemSpec => []NoServiceAfterEndPlay
<1>1. SystemInv => NoServiceAfterEndPlay
  BY DEF SystemInv, StockInv, FreedByEndPlay, Stopped, NoServiceAfterEndPlay
<1>2. QED BY <1>1, SystemInvariance, PTL

(* When EndPlay has returned no handler runs and no answer is half sent.   *)
THEOREM SystemHandlersEndFirst == SystemSpec => []HandlersEndBeforeActor
<1>1. SystemInv => HandlersEndBeforeActor
  BY DEF SystemInv, StockInv, FreedByEndPlay, Stopped, CallbackIsHandler, ExchangeShape,
    HandlersEndBeforeActor
<1>2. QED BY <1>1, SystemInvariance, PTL

(* The pthread libraries are not freed under a service thread.             *)
THEOREM SystemKeepsItsDlls == SystemSpec => []DllsOutliveService
<1>1. SystemInv => DllsOutliveService
  <2> SUFFICES ASSUME SystemInv, handles # Dlls, NEW t \in Objects
               PROVE worker[t] \in {"none", "exited"}
    BY DEF DllsOutliveService
  <2>1. actor \in {"spawned", "ended"} BY DEF SystemInv, LoadedWhilePlaying
  <2>2. CASE actor = "ended" BY <2>2 DEF SystemInv, StockInv, FreedByEndPlay, Stopped
  <2>3. CASE actor = "spawned"
    BY <2>3 DEF SystemInv, StockInv, OneServer, IInv, UnusedIsFresh
  <2>4. QED BY <2>1, <2>2, <2>3
<1>2. QED BY <1>1, SystemInvariance, PTL

-----------------------------------------------------------------------------
(* A handler whose context is destroyed is one EndPlay's Stop waits for.   *)
LEMMA DestroyedUnderHandler ==
  ASSUME SystemInv, NEW t \in Objects, worker[t] = "handler", lws[t] = "destroyed"
  PROVE  at[Game] \in {"clear", "flag", "join"} /\ on[Game] = t
<1>1. heap[t] # "freed" BY DEF SystemInv, StockInv, IInv, JoinBeforeFree
<1>2. PICK c \in Callers : on[c] = t /\ at[c] \in {"clear", "flag", "join"}
  BY <1>1 DEF SystemInv, StockInv, IInv, DestroyedIsBeingStopped
<1>3. c = Game BY <1>2 DEF SystemInv, StockInv, OnlyActorCalls, Callers
<1>4. QED BY <1>2, <1>3

(* Only a reply's lws call adds a stray reply, of the reply's own kind,    *)
(* and only when the connection is closed.                                 *)
LEMMA StrayStep ==
  ASSUME NEW th \in {"service", "game"}, Http!Reply(th), "own" \in stray', "own" \notin stray
  PROVE  reply[th].use = "own" /\ conn[reply[th].request.wsi] = "closed"
<1>1. ASSUME NEW part, Http!LwsCall(th, part)
      PROVE reply[th].use = "own" /\ conn[reply[th].request.wsi] = "closed"
  BY <1>1 DEF Http!LwsCall
<1>2. \E part : Http!LwsCall(th, part)
  <2>1. ASSUME NEW r \in requests, Http!SendResponse(th, r) PROVE FALSE
    BY <2>1 DEF Http!SendResponse
  <2>2. QED BY <2>1 DEF Http!Reply, Http!WriteHeader, Http!WriteBody, Http!WritePart,
            Http!FinishReply
<1>3. QED BY <1>1, <1>2

(* An answer in its request's own callback finds its connection gone only  *)
(* if EndPlay's Stop has just destroyed the context under that handler.    *)
THEOREM SystemAnswersCutOnlyByStop == SystemSpec => AnswersCutOnlyByStop
<1>1. SystemInv /\ [SystemNext]_allvars => [CutOnlyByStop]_allvars
  <2> SUFFICES ASSUME SystemInv, SystemNext, "own" \in stray', "own" \notin stray
               PROVE  at[Game] \in {"clear", "flag", "join"} /\ worker[on[Game]] = "handler"
    BY DEF CutOnlyByStop
  <2>1. CASE GameReplyStep
    <3>1. reply["game"].use = "own" BY <2>1, StrayStep DEF GameReplyStep
    <3>2. QED BY <3>1 DEF SystemInv, ExchangeShape
  <2>2. ASSUME NEW u \in Objects, HandlerReplyStep(u)
        PROVE  at[Game] \in {"clear", "flag", "join"} /\ worker[on[Game]] = "handler"
    <3>1. /\ reply["service"].use = "own"
          /\ conn[reply["service"].request.wsi] = "closed"
          /\ worker[u] = "handler"
      BY <2>2, StrayStep DEF HandlerReplyStep
    <3>2. cb # Http!NoCallback BY <3>1 DEF SystemInv, CallbackIsHandler
    <3>3. conn[cb.wsi] = "closed" BY <3>1 DEF SystemInv, ExchangeShape
    <3>4. PICK t \in Objects : worker[t] = "handler" /\ lws[t] = "destroyed"
      BY <3>2, <3>3 DEF SystemInv, CallbackOpenOrDestroyed
    <3>5. QED BY <3>4, DestroyedUnderHandler
  <2>3. ASSUME UNCHANGED stray PROVE FALSE
    BY <2>3
  <2>4. ~GameReplyStep /\ (\A u \in Objects : ~HandlerReplyStep(u)) => UNCHANGED stray
    BY DEF SystemNext, StartupModule, ShutdownModule, ActorStep, CallStep, DestroyStep,
      CloseConnections, LoopStep, LwsStep, CallbackStep, StaleCallbackStep,
      CallbackReturnStep, exchange, Http!Lws, Http!Accept, Http!RequestArrives,
      Http!Close, Http!HttpDummy, Http!FilterCallback, Http!HttpCallback,
      Http!BodyCallback, Http!CallbackReturns
  <2>5. QED BY <2>1, <2>2, <2>3, <2>4
<1>2. QED BY <1>1, SystemInvariance, PTL DEF SystemSpec, AnswersCutOnlyByStop
-----------------------------------------------------------------------------
(***************************************************************************)
(* The exchange inside the system.  Until EndPlay's Stop destroys the      *)
(* context the system takes the steps of HttpExchange, so what is proved   *)
(* of those holds of it; afterwards every connection is closed and nothing *)
(* is written any more.                                                    *)
(***************************************************************************)
Ex == INSTANCE ReplyContractProofs

LEMMA ExchangeConstants == Ex!ConstantsAssumption
  BY ExchangeAssumption DEF Http!ConstantsAssumption, Ex!ConstantsAssumption

LEMMA SameInit == Http!Init => Ex!Init
  BY DEF Http!Init, Http!NoCallback, Http!Threads, Http!NoReply,
         Ex!Init, Ex!NoCallback, Ex!Threads, Ex!NoReply

LEMMA SameStep == Http!Next => Ex!Next
  BY DEF Http!Next, Http!Lws, Http!Accept, Http!NewEpoch, Http!RequestArrives,
         Http!Close, Http!Drop, Http!Callback, Http!FilterCallback,
         Http!HttpCallback, Http!HttpDummy, Http!BodyCallback, Http!Enter,
         Http!CallbackReturns, Http!Reply, Http!SendResponse, Http!UseOf,
         Http!WriteHeader, Http!WriteBody, Http!WritePart, Http!FinishReply,
         Http!LwsCall, Http!NoCallback, Http!NoReply, Http!Threads, Http!connections,
         Ex!Next, Ex!Lws, Ex!Accept, Ex!NewEpoch, Ex!RequestArrives,
         Ex!Close, Ex!Drop, Ex!Callback, Ex!FilterCallback,
         Ex!HttpCallback, Ex!HttpDummy, Ex!BodyCallback, Ex!Enter,
         Ex!CallbackReturns, Ex!Reply, Ex!SendResponse, Ex!UseOf,
         Ex!WriteHeader, Ex!WriteBody, Ex!WritePart, Ex!FinishReply,
         Ex!LwsCall, Ex!NoCallback, Ex!NoReply, Ex!Threads, Ex!connections

LEMMA SameStutter == UNCHANGED exchange => UNCHANGED Ex!vars
  BY DEF exchange, Ex!vars, Ex!connections

LEMMA SameOrder ==
  Ex!ReplyGoesToItsClient /\ Ex!ReplyIsContiguous <=> AnswersStayInOrder
  BY DEF Ex!ReplyGoesToItsClient, Ex!ReplyIsContiguous, Ex!Contiguous, Ex!Unbroken,
         Http!ReplyGoesToItsClient, Http!ReplyIsContiguous, Http!Contiguous,
         Http!Unbroken, AnswersStayInOrder

LEMMA SameContract ==
  [Ex!Contract!Next]_(Ex!Contract!vars) => [Http!Contract!Next]_(Http!Contract!vars)
  BY DEF Ex!Contract!Next, Ex!Contract!vars, Ex!Contract!Renew, Ex!Contract!Leave,
         Ex!Contract!Ask, Ex!Contract!Begin, Ex!Contract!Continue,
         Ex!Contract!Finish, Ex!Contract!Say, Ex!There, Ex!Asked, Ex!Answer,
         Ex!AnswerTo,
         Http!Contract!Next, Http!Contract!vars, Http!Contract!Renew,
         Http!Contract!Leave, Http!Contract!Ask, Http!Contract!Begin,
         Http!Contract!Continue, Http!Contract!Finish, Http!Contract!Say,
         Http!There, Http!Asked, Http!Answer, Http!AnswerTo

-----------------------------------------------------------------------------
(* There is one context, and a destroyed one stays destroyed.              *)
LEMMA OneContext ==
  ASSUME SystemInv, Destroyed, NEW t \in Objects, worker[t] # "none"
  PROVE  lws[t] = "destroyed" /\ worker[t] # "init"
<1> USE DEF SystemInv, StockInv
<1>1. PICK u \in Objects : lws[u] = "destroyed" BY DEF Destroyed
<1>2. heap[u] # "unused" /\ heap[t] # "unused"
  BY <1>1 DEF IInv, UnusedIsFresh
<1>3. u = t
  <2>1. at[Game] = "create" => Thread_LibWebSocket = NULL BY DEF OnlyActorCalls
  <2>2. QED BY <1>2, <2>1, ConstantsAssumption DEF OneServer, ConstantsAssumption
<1>4. worker[t] # "init"
  BY <1>1, <1>3 DEF IInv, DestroyedIsBeingStopped, JoinBeforeFree,
    NoPointerBeforeInit, InStop
<1>5. QED BY <1>1, <1>3, <1>4

LEMMA DestroyedStays ==
  ASSUME SystemInv, [SystemNext]_allvars, Destroyed PROVE Destroyed'
<1>1. [Next]_vars BY ServerStep, ServerStutters
<1>2. PICK u \in Objects : lws[u] = "destroyed" BY DEF Destroyed
<1>3. ASSUME NEW t \in Objects, InitThread(t) PROVE FALSE
  <2>1. worker[t] = "init" BY <1>3 DEF InitThread, Move
  <2>2. QED BY <2>1, OneContext
<1>4. ASSUME NEW c \in Callers, DestroyContext(c) PROVE lws'[u] = "destroyed"
  BY <1>2, <1>4 DEF DestroyContext, SystemInv, StockInv, IInv, TypeOK
<1>5. CASE UNCHANGED lws BY <1>2, <1>5 DEF Destroyed
<1>6. UNCHANGED lws \/ (\E t \in Objects : InitThread(t))
        \/ \E c \in Callers : DestroyContext(c)
  BY <1>1 DEF Next, BeginPlay, EndPlay, EndPlayReturns, StartCall, StopCall,
    CallBegins, HTTP_Server_Start, HTTP_Server_Stop, HTTP_Server_Toggle,
    CallProceeds, CreateReturns, ClearContext, LowerFlag, Joined, StopOnFreed,
    WorkerProceeds, RunTest, RunCheck, ServiceEnter, HandlerReturns, Dispatch,
    ServiceReturns, LeaveDestroyed, DispatchDestroyed, object, vars
<1>7. QED BY <1>2, <1>3, <1>4, <1>5, <1>6 DEF Destroyed

(* A step after which no context is destroyed is one of the exchange's.    *)
LEMMA ExchangeStep ==
  ASSUME SystemInv, SystemNext, ~Destroyed'
  PROVE  Http!Next \/ UNCHANGED exchange
<1>1. CASE StartupModule \/ ShutdownModule \/ ActorStep
  BY <1>1 DEF StartupModule, ShutdownModule, ActorStep
<1>2. ASSUME NEW c \in Callers, CallStep(c) PROVE UNCHANGED exchange
  BY <1>2 DEF CallStep
<1>3. ASSUME NEW c \in Callers, DestroyStep(c) PROVE UNCHANGED exchange
  <2>1. ASSUME Context[on[c]] PROVE FALSE
    <3>1. on[c] \in Objects /\ lws' = [lws EXCEPT ![on[c]] = "destroyed"]
      BY <1>3, <2>1 DEF DestroyStep, DestroyContext, SystemInv, StockInv, IInv, TypeOK
    <3>2. QED BY <3>1 DEF Destroyed, SystemInv, StockInv, IInv, TypeOK
  <2>2. QED BY <1>3, <2>1 DEF DestroyStep
<1>4. ASSUME NEW t \in Objects, LoopStep(t) PROVE UNCHANGED exchange
  BY <1>4 DEF LoopStep
<1>5. ASSUME NEW t \in Objects, LwsStep(t) \/ CallbackStep(t) PROVE Http!Next
  BY <1>5 DEF LwsStep, CallbackStep, Http!Next, Http!Callback
<1>6. ASSUME NEW t \in Objects, StaleCallbackStep(t) PROVE FALSE
  <2>1. lws'[t] = "destroyed"
    BY <1>6 DEF StaleCallbackStep, DispatchDestroyed
  <2>2. QED BY <2>1 DEF Destroyed
<1>7. ASSUME NEW t \in Objects, CallbackReturnStep(t) PROVE Http!Next
  BY <1>7 DEF CallbackReturnStep, Http!Next
<1>8. CASE GameReplyStep \/ \E t \in Objects : HandlerReplyStep(t)
  BY <1>8 DEF GameReplyStep, HandlerReplyStep, Http!Next, Http!Threads
<1>9. QED BY <1>1, <1>2, <1>3, <1>4, <1>5, <1>6, <1>7, <1>8 DEF SystemNext
-----------------------------------------------------------------------------
(* Every reply under way, and every one still to come, is to an address    *)
(* lws has used.                                                           *)
ReplyTargets ==
  /\ \A r \in requests : r.wsi \in Wsis
  /\ \A th \in {"service", "game"} :
       reply[th].step # "none" => reply[th].request.wsi \in Wsis

(* The inductive invariant: until the context is destroyed the exchange    *)
(* satisfies the invariants it has by itself, afterwards it is closed.     *)
ExchangeInv ==
  /\ AnswersStayInOrder
  /\ ReplyTargets
  /\ ~Destroyed => Ex!Inv /\ Ex!OrderInv
  /\ Destroyed => \A w \in Wsis : conn[w] = "closed"

LEMMA TargetsTyped == Ex!Inv => ReplyTargets
<1> SUFFICES ASSUME Ex!Inv PROVE ReplyTargets OBVIOUS
<1>1. Ex!TypeOK BY DEF Ex!Inv, Ex!TypeInv
<1>2. \A r \in requests : r.wsi \in Wsis BY <1>1 DEF Ex!TypeOK, Ex!Request
<1>3. \A th \in Ex!Threads : reply[th].step # "none" => reply[th].request.wsi \in Wsis
  BY <1>1, ExchangeConstants, Ex!ReplyFacts
<1>4. QED BY <1>2, <1>3 DEF ReplyTargets, Ex!Threads

LEMMA ExchangeInit == SystemInit => ExchangeInv
<1> SUFFICES ASSUME SystemInit PROVE ExchangeInv OBVIOUS
<1>1. ~Destroyed BY DEF SystemInit, Init, Destroyed
<1>2. Ex!Init BY SameInit DEF SystemInit
<1>3. Ex!TypeInv /\ Ex!OwnInv /\ Ex!OrderInv
  BY <1>2, ExchangeConstants, Ex!TypeInit, Ex!OwnInit, Ex!OrderInit
<1>4. Ex!Inv
  BY <1>2, <1>3 DEF Ex!Inv, Ex!Init, Ex!RequestsArePast, Ex!RepliesAreAsked,
    Ex!NoReply, Ex!Threads
<1>5. AnswersStayInOrder BY <1>3, SameOrder DEF Ex!OwnInv, Ex!OrderInv
<1>6. QED BY <1>1, <1>3, <1>4, <1>5, TargetsTyped DEF ExchangeInv

(* Before the context is destroyed.                                        *)
LEMMA ExchangeKeeps ==
  ASSUME ExchangeInv, ~Destroyed, Http!Next \/ UNCHANGED exchange
  PROVE  /\ Ex!Inv' /\ Ex!OrderInv' /\ AnswersStayInOrder' /\ ReplyTargets'
         /\ [Ex!Contract!Next]_(Ex!Contract!vars)
<1>1. [Ex!Next]_Ex!vars BY SameStep, SameStutter
<1>2. Ex!Inv /\ Ex!OrderInv BY DEF ExchangeInv
<1>3. Ex!TypeInv /\ Ex!OwnInv /\ Ex!RequestsArePast /\ Ex!RepliesAreAsked
  BY <1>2 DEF Ex!Inv
<1>4. Ex!TypeInv' BY <1>1, <1>3, ExchangeConstants, Ex!TypeStep
<1>5. Ex!OwnInv' BY <1>1, <1>3, ExchangeConstants, Ex!OwnStep
<1>6. Ex!RequestsArePast' BY <1>1, <1>3, ExchangeConstants, Ex!PastStep
<1>7. Ex!RepliesAreAsked' BY <1>1, <1>3, ExchangeConstants, Ex!AskedStep
<1>8. Ex!OrderInv' BY <1>1, <1>2, <1>3, ExchangeConstants, Ex!OrderStep
<1>9. Ex!Inv' BY <1>4, <1>5, <1>6, <1>7 DEF Ex!Inv
<1>10. AnswersStayInOrder'
  <2>1. (Ex!ReplyGoesToItsClient /\ Ex!ReplyIsContiguous)'
    BY <1>5, <1>8 DEF Ex!OwnInv, Ex!OrderInv
  <2>2. QED BY <2>1, SameOrder, PTL
<1>11. ReplyTargets' BY <1>9, TargetsTyped, PTL
<1>12. [Ex!Contract!Next]_(Ex!Contract!vars)
  BY <1>1, <1>2, ExchangeConstants, Ex!ContractStep
<1>13. QED BY <1>8, <1>9, <1>10, <1>11, <1>12

(* An lws call on a closed connection writes nothing.                      *)
LEMMA ClosedReply ==
  ASSUME SystemInv, ReplyTargets, \A w \in Wsis : conn[w] = "closed",
         NEW th \in {"service", "game"}, Http!Reply(th)
  PROVE  ReplyTargets' /\ UNCHANGED <<conn, epoch, wire>>
<1> USE DEF ReplyTargets
<1>0. DOMAIN reply = {"service", "game"} BY DEF SystemInv, ExchangeShape
<1>1. ASSUME NEW r \in requests, Http!SendResponse(th, r)
      PROVE  ReplyTargets' /\ UNCHANGED <<conn, epoch, wire>>
  BY <1>0, <1>1 DEF Http!SendResponse, Http!connections
<1>2. ASSUME NEW part, NEW next, part # "none", Http!WritePart(th, part, next)
      PROVE  ReplyTargets' /\ UNCHANGED <<conn, epoch, wire>>
  <2>1. conn[reply[th].request.wsi] = "closed" BY <1>2 DEF Http!WritePart
  <2>2. UNCHANGED wire BY <1>2, <2>1 DEF Http!WritePart, Http!LwsCall
  <2>3. UNCHANGED <<conn, epoch, requests>>
    BY <1>2 DEF Http!WritePart, Http!connections
  <2>4. ReplyTargets' BY <1>0, <1>2, <2>3 DEF Http!WritePart
  <2>5. QED BY <2>2, <2>3, <2>4
<1>3. CASE Http!FinishReply(th)
  <2>1. conn[reply[th].request.wsi] = "closed" BY <1>3 DEF Http!FinishReply
  <2>2. UNCHANGED <<conn, epoch, requests, wire>>
    BY <1>3, <2>1 DEF Http!FinishReply, Http!LwsCall
  <2>3. ReplyTargets' BY <1>0, <1>3, <2>2 DEF Http!FinishReply, Http!NoReply
  <2>4. QED BY <2>2, <2>3
<1>4. QED BY <1>1, <1>2, <1>3 DEF Http!Reply, Http!WriteHeader, Http!WriteBody

(* Once it is destroyed.                                                   *)
LEMMA ClosedKeeps ==
  ASSUME SystemInv, SystemNext, Destroyed, ReplyTargets,
         \A w \in Wsis : conn[w] = "closed"
  PROVE  /\ ReplyTargets' /\ UNCHANGED <<epoch, wire>>
         /\ \A w \in Wsis : conn'[w] = "closed"
<1> DEFINE Kept == /\ ReplyTargets' /\ UNCHANGED <<epoch, wire>>
                   /\ \A w \in Wsis : conn'[w] = "closed"
<1>1. CASE UNCHANGED exchange BY <1>1 DEF exchange, ReplyTargets
<1>2. CASE StartupModule \/ ShutdownModule \/ ActorStep
  BY <1>1, <1>2 DEF StartupModule, ShutdownModule, ActorStep
<1>3. ASSUME NEW c \in Callers, CallStep(c) \/ DestroyStep(c) PROVE Kept
  BY <1>1, <1>3 DEF CallStep, DestroyStep, CloseConnections, ReplyTargets
<1>4. ASSUME NEW t \in Objects, LoopStep(t) PROVE Kept
  BY <1>1, <1>4 DEF LoopStep
<1>5. ASSUME NEW t \in Objects, LwsStep(t) \/ CallbackStep(t) PROVE FALSE
  <2>1. worker[t] = "service" /\ lws[t] = "live"
    BY <1>5 DEF LwsStep, CallbackStep, Dispatch, Move
  <2>2. QED BY <2>1, OneContext
<1>6. ASSUME NEW t \in Objects, StaleCallbackStep(t) PROVE Kept
  <2>1. /\ UNCHANGED <<conn, epoch, reply, wire>>
        /\ \A r \in requests' : r.wsi \in Wsis
    BY <1>6 DEF StaleCallbackStep, ReplyTargets
  <2>2. QED BY <2>1 DEF ReplyTargets
<1>7. ASSUME NEW t \in Objects, CallbackReturnStep(t) PROVE Kept
  BY <1>7 DEF CallbackReturnStep, Http!CallbackReturns, Http!connections, ReplyTargets
<1>8. CASE GameReplyStep \/ \E t \in Objects : HandlerReplyStep(t)
  BY <1>8, ClosedReply DEF GameReplyStep, HandlerReplyStep
<1>9. QED BY <1>2, <1>3, <1>4, <1>5, <1>6, <1>7, <1>8 DEF SystemNext
(* The step that destroys it writes nothing and closes every connection.   *)
LEMMA DestroyingCloses ==
  ASSUME SystemInv, SystemNext, ~Destroyed, Destroyed'
  PROVE  UNCHANGED <<epoch, requests, reply, wire>> /\ \A w \in Wsis : conn'[w] = "closed"
<1>1. [Next]_vars BY ServerStep
<1>2. ASSUME UNCHANGED lws PROVE FALSE BY <1>2 DEF Destroyed
<1>3. ASSUME NEW c \in Callers, DestroyStep(c)
      PROVE  UNCHANGED <<epoch, requests, reply, wire>> /\ \A w \in Wsis : conn'[w] = "closed"
  <2>1. Context[on[c]] BY <1>2, <1>3 DEF DestroyStep, DestroyContext
  <2>2. QED BY <1>3, <2>1 DEF DestroyStep, CloseConnections
<1>4. ASSUME NEW t \in Objects, LoopStep(t) PROVE FALSE
  <2>1. UNCHANGED lws \/ lws' = [lws EXCEPT ![t] = "live"]
    BY <1>4 DEF LoopStep, InitThread, RunTest, RunCheck, ServiceEnter,
      ServiceReturns, LeaveDestroyed
  <2>2. QED BY <2>1 DEF Destroyed, SystemInv, StockInv, IInv, TypeOK
<1>5. ASSUME NEW c \in Callers, CallStep(c) PROVE UNCHANGED lws
  BY <1>5, Shipped DEF CallStep, CallBegins, StockCaller, HTTP_Server_Start,
    HTTP_Server_Stop, HTTP_Server_Toggle, MayCall, CreateReturns, ClearContext,
    LowerFlag, Joined, StopOnFreed, object
<1>6. CASE StartupModule \/ ShutdownModule \/ ActorStep \/ GameReplyStep
  BY <1>2, <1>6 DEF StartupModule, ShutdownModule, ActorStep, GameReplyStep,
    BeginPlay, EndPlay, EndPlayReturns, StartCall, object, vars
<1>7. ASSUME NEW t \in Objects,
             \/ LwsStep(t) \/ CallbackStep(t) \/ StaleCallbackStep(t)
             \/ CallbackReturnStep(t) \/ HandlerReplyStep(t)
      PROVE  UNCHANGED lws
  BY <1>7 DEF LwsStep, CallbackStep, StaleCallbackStep, CallbackReturnStep,
    HandlerReplyStep, Dispatch, DispatchDestroyed, HandlerReturns, object, vars
<1>8. QED BY <1>2, <1>3, <1>4, <1>5, <1>6, <1>7 DEF SystemNext

LEMMA ExchangeNext == SystemInv /\ ExchangeInv /\ [SystemNext]_allvars => ExchangeInv'
<1> SUFFICES ASSUME SystemInv, ExchangeInv, [SystemNext]_allvars PROVE ExchangeInv'
  OBVIOUS
<1>1. CASE ~Destroyed'
  <2>1. ~Destroyed BY <1>1, DestroyedStays
  <2>2. Http!Next \/ UNCHANGED exchange BY <1>1, ExchangeStep DEF allvars
  <2>3. QED BY <1>1, <2>1, <2>2, ExchangeKeeps DEF ExchangeInv
<1>2. CASE Destroyed /\ SystemNext
  <2>1. /\ ReplyTargets' /\ UNCHANGED <<epoch, wire>>
        /\ \A w \in Wsis : conn'[w] = "closed"
    BY <1>2, ClosedKeeps DEF ExchangeInv
  <2>2. AnswersStayInOrder'
    BY <2>1 DEF ExchangeInv, AnswersStayInOrder, Http!ReplyGoesToItsClient,
      Http!ReplyIsContiguous
  <2>3. QED BY <1>2, <2>1, <2>2, DestroyedStays DEF ExchangeInv
<1>3. CASE ~Destroyed /\ Destroyed' /\ SystemNext
  <2>1. /\ UNCHANGED <<epoch, requests, reply, wire>>
        /\ \A w \in Wsis : conn'[w] = "closed"
    BY <1>3, DestroyingCloses
  <2>2. AnswersStayInOrder' /\ ReplyTargets'
    BY <2>1 DEF ExchangeInv, AnswersStayInOrder, ReplyTargets,
      Http!ReplyGoesToItsClient, Http!ReplyIsContiguous
  <2>3. QED BY <1>3, <2>1, <2>2 DEF ExchangeInv
<1>4. CASE UNCHANGED allvars
  <2>1. UNCHANGED lws /\ UNCHANGED exchange BY <1>4 DEF allvars, vars, object
  <2>2. Destroyed' <=> Destroyed BY <2>1 DEF Destroyed
  <2>3. CASE Destroyed
    BY <2>1, <2>2, <2>3 DEF exchange, ExchangeInv, AnswersStayInOrder, ReplyTargets,
      Http!ReplyGoesToItsClient, Http!ReplyIsContiguous
  <2>4. CASE ~Destroyed
    BY <2>1, <2>2, <2>4, ExchangeKeeps DEF ExchangeInv
  <2>5. QED BY <2>3, <2>4
<1>5. QED BY <1>1, <1>2, <1>3, <1>4

LEMMA ExchangeInvariance == SystemSpec => [](SystemInv /\ ExchangeInv)
  BY SystemInitInv, SystemNextInv, ExchangeInit, ExchangeNext, PTL DEF SystemSpec

(* All through the plugin's life, a Stop under a running handler included, *)
(* an answer in its request's own callback is only written to the client   *)
(* that put the request, and only the game thread can break into a reply.  *)
THEOREM SystemAnswersInOrder == SystemSpec => []AnswersStayInOrder
<1>1. ExchangeInv => AnswersStayInOrder BY DEF ExchangeInv
<1>2. QED BY <1>1, ExchangeInvariance, PTL

(* Until that Stop the clients of the plugin are answered as ReplyContract *)
(* promises.                                                               *)
THEOREM SystemKeepsReplyContract == SystemSpec => AnswersUntilStop
<1>1. SystemInit => Http!Contract!Init
  <2> SUFFICES ASSUME SystemInit PROVE Http!Contract!Init OBVIOUS
  <2>1. Ex!Contract!Init
    BY SameInit, ExchangeConstants, Ex!ContractInit DEF SystemInit
  <2>2. QED
    BY <2>1 DEF Ex!Contract!Init, Ex!There, Ex!Asked, Ex!Answer, Ex!AnswerTo,
      Http!Contract!Init, Http!There, Http!Asked, Http!Answer, Http!AnswerTo
<1>2. SystemInv /\ ExchangeInv /\ [SystemNext]_allvars =>
        [Destroyed' \/ Http!Contract!Next]_(Http!Contract!vars)
  <2> SUFFICES ASSUME SystemInv, ExchangeInv, [SystemNext]_allvars, ~Destroyed'
               PROVE  [Http!Contract!Next]_(Http!Contract!vars)
    OBVIOUS
  <2>1. ~Destroyed BY DestroyedStays
  <2>2. Http!Next \/ UNCHANGED exchange BY ExchangeStep DEF allvars
  <2>3. QED BY <2>1, <2>2, ExchangeKeeps, SameContract
<1>3. QED BY <1>1, <1>2, ExchangeInvariance, PTL DEF SystemSpec, AnswersUntilStop

(* The server object of the plugin keeps the contract of an FRunnable with *)
(* every request, reply and pause under way.                               *)
THEOREM SystemKeepsServerContract == SystemSpec => RunnableContractHolds
  BY SystemRunsTheServer, ServerKeepsContract, PTL
=============================================================================
