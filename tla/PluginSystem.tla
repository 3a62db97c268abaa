---------------------------- MODULE PluginSystem ----------------------------
(***************************************************************************)
(* The plugin as it is shipped: the module that loads the pthread          *)
(* libraries, the actor with its server (ServerLifecycle), and the         *)
(* requests that server handles (HttpExchange), put together.              *)
(*                                                                         *)
(* What HttpExchange leaves to itself happens here where the code makes it *)
(* happen: lws works on connections inside lws_service, a callback is a    *)
(* handler on the service thread, a reply on the game thread is made       *)
(* between the actor's own calls, and lws_context_destroy, on the game     *)
(* thread, closes every connection under the service thread's hands.       *)
(***************************************************************************)
EXTENDS ServerLifecycle, Sequences

CONSTANTS Wsis, MaxEpoch, MaxBody, MaxWire, Uses   \* as in HttpExchange

(* Only BeginPlay starts the server and only EndPlay stops it.             *)
ASSUME ShippedAssumption ==
  GameCalls \subseteq {"Toggle"} /\ HandlerCalls \subseteq {"Toggle"}

VARIABLES
  module,      \* phase of FFF_HTTP_LWSModule
  handles,     \* the DLL handles that are not null
  conn, epoch, bodies, mustClose, cb, requests, reply, wire, stray

Http == INSTANCE HttpExchange

ASSUME ExchangeAssumption == Http!ConstantsAssumption

plugin   == <<module, handles>>
exchange == <<conn, epoch, bodies, mustClose, cb, requests, reply, wire, stray>>
allvars  == <<vars, plugin, exchange>>

Dlls == {"VC2", "GC2"}
Up   == module = "loaded" /\ ~crashed

SystemTypeOK ==
  /\ module \in {"unloaded", "loaded", "fatal", "shut"}
  /\ handles \subseteq Dlls
  /\ cb # Http!NoCallback <=> \E t \in Objects : worker[t] = "handler"

SystemInit ==
  /\ Init /\ Http!Init
  /\ module = "unloaded" /\ handles = {}

-----------------------------------------------------------------------------
(* The plugin module.  A handle that stays null is logged as Fatal, which  *)
(* ends the process.  The engine unloads a module when its actors are gone.*)

StartupModule_OneTested ==   \* the second handle is not tested
  /\ module = "unloaded"
  /\ handles' \in SUBSET Dlls
  /\ module' = IF "VC2" \in handles' THEN "loaded" ELSE "fatal"
  /\ UNCHANGED <<vars, exchange>>

StartupModule ==
  /\ module = "unloaded"
  /\ handles' \in SUBSET Dlls
  /\ module' = IF handles' = Dlls THEN "loaded" ELSE "fatal"
  /\ UNCHANGED <<vars, exchange>>

ShutdownModule ==
  /\ Up /\ actor \in {"spawned", "ended"}
  /\ reply["game"] = Http!NoReply
  /\ module' = "shut" /\ handles' = {}
  /\ UNCHANGED <<vars, exchange>>

-----------------------------------------------------------------------------
(* The actor's calls and the server functions.  A caller inside            *)
(* SendResponse calls nothing else.                                        *)

InReply(c) == reply[IF c = Game THEN "game" ELSE "service"] # Http!NoReply

ActorStep ==
  /\ Up /\ ~InReply(Game)
  /\ BeginPlay \/ EndPlay \/ EndPlayReturns
  /\ UNCHANGED <<plugin, exchange>>

CallStep(c) ==
  /\ Up /\ Running(c)
  /\ \/ CallBegins(c) /\ ~InReply(c)
     \/ CreateReturns(c) \/ ClearContext(c) \/ LowerFlag(c) \/ Joined(c) \/ StopOnFreed(c)
  /\ UNCHANGED <<plugin, exchange>>

(* "This function closes any active connections", also one whose handler   *)
(* is running.                                                             *)
CloseConnections ==
  /\ conn' = [w \in Wsis |-> "closed"]
  /\ bodies' = [w \in Wsis |-> 0]
  /\ mustClose' = [w \in Wsis |-> FALSE]
  /\ UNCHANGED <<epoch, cb, requests, reply, wire, stray>>

DestroyStep(c) ==
  /\ Up /\ Running(c)
  /\ DestroyContext(c)
  /\ IF Context[on[c]] THEN CloseConnections ELSE UNCHANGED exchange
  /\ UNCHANGED plugin

-----------------------------------------------------------------------------
(* The service thread.                                                     *)

LoopStep(t) ==
  /\ Up /\ Running(t)
  /\ \/ InitThread(t) \/ RunTest(t) \/ RunCheck(t) \/ ServiceEnter(t)
     \/ ServiceReturns(t) \/ LeaveDestroyed(t)
  /\ UNCHANGED <<plugin, exchange>>

(* lws accepts, reads and closes, and answers what no handler is asked.    *)
LwsStep(t) ==
  /\ Up /\ Running(t) /\ worker[t] = "service" /\ lws[t] = "live"
  /\ \E w \in Wsis : Http!Lws(w) \/ Http!HttpDummy(w)
  /\ UNCHANGED <<vars, plugin>>

CallbackStep_OtherThread(t) ==   \* the handler is left to another thread
  /\ Up /\ Running(t) /\ worker[t] = "service" /\ lws[t] = "live"
  /\ \E w \in Wsis : Http!FilterCallback(w) \/ Http!HttpCallback(w) \/ Http!BodyCallback(w)
  /\ UNCHANGED <<vars, plugin>>

CallbackStep(t) ==
  /\ Up /\ Running(t)
  /\ Dispatch(t)
  /\ \E w \in Wsis : Http!FilterCallback(w) \/ Http!HttpCallback(w) \/ Http!BodyCallback(w)
  /\ UNCHANGED plugin

(* A callback out of the memory of a destroyed context, for a connection   *)
(* it once had.                                                            *)
StaleCallbackStep(t) ==
  /\ Up /\ Running(t)
  /\ DispatchDestroyed(t)
  /\ \E w \in Wsis, reason \in {"filter", "http", "body"} :
       /\ epoch[w] > 0
       /\ Http!Enter(reason, w)
       /\ requests' = requests \cup
            IF reason = "http" THEN {[wsi |-> w, epoch |-> epoch[w]]} ELSE {}
  /\ UNCHANGED <<plugin, conn, epoch, bodies, mustClose, reply, wire, stray>>

CallbackReturnStep(t) ==
  /\ Up /\ Running(t)
  /\ HandlerReturns(t) /\ Http!CallbackReturns
  /\ UNCHANGED plugin

HandlerReplyStep(t) ==
  /\ Up /\ Running(t) /\ worker[t] = "handler" /\ at[t] = "idle"
  /\ Http!Reply("service")
  /\ UNCHANGED <<vars, plugin>>

GameReplyStep ==
  /\ Up /\ at[Game] = "idle"
  /\ Http!Reply("game")
  /\ UNCHANGED <<vars, plugin>>

-----------------------------------------------------------------------------
SystemNext ==
  \/ StartupModule \/ ShutdownModule
  \/ ActorStep \/ GameReplyStep
  \/ \E c \in Callers : CallStep(c) \/ DestroyStep(c)
  \/ \E t \in Objects :
       \/ LoopStep(t) \/ LwsStep(t) \/ CallbackStep(t) \/ StaleCallbackStep(t)
       \/ CallbackReturnStep(t) \/ HandlerReplyStep(t)

SystemSpec == SystemInit /\ [][SystemNext]_allvars

-----------------------------------------------------------------------------
(* When EndPlay has returned no handler of the actor is running and none   *)
(* is half-way through an answer.                                          *)
HandlersEndBeforeActor ==
  actor = "ended" => cb = Http!NoCallback /\ reply["service"] = Http!NoReply

(* An answer given in its request's own callback loses its connection only *)
(* while EndPlay's Stop, which has destroyed the context, is waiting for   *)
(* that very handler.                                                      *)
CutOnlyByStop ==
  "own" \in stray' /\ "own" \notin stray =>
    at[Game] \in {"clear", "flag", "join"} /\ worker[on[Game]] = "handler"

AnswersCutOnlyByStop == [][CutOnlyByStop]_allvars

(* The pthread libraries are there as long as a service thread is.         *)
DllsOutliveService ==
  handles # Dlls => \A t \in Objects : worker[t] \in {"none", "exited"}
-----------------------------------------------------------------------------
Destroyed == \E t \in Objects : lws[t] = "destroyed"

(* From loading the plugin to unloading it, also across a Stop, nothing    *)
(* written in a request's own callback reaches another request's client    *)
(* and no reply of the service thread is broken up.                        *)
AnswersStayInOrder == Http!ReplyGoesToItsClient /\ Http!ReplyIsContiguous

(* Until EndPlay's Stop destroys the context the clients are answered as   *)
(* ReplyContract promises, whatever the actor and the engine do meanwhile. *)
AnswersUntilStop ==
  /\ Http!Contract!Init
  /\ [][Destroyed' \/ Http!Contract!Next]_(Http!Contract!vars)
=============================================================================
