-------------------------- MODULE ServerLifecycle --------------------------
(***************************************************************************)
(* The life of the HTTP server: the actor AHTTP_Server_LWS, the            *)
(* FHTTP_Thread_LibWebSocket objects it allocates, the service thread each *)
(* of them runs and the lws context each service thread creates.           *)
(*                                                                         *)
(* A caller is the game thread or a service thread: handlers run on the    *)
(* service thread, so a Blueprint handler that calls HTTP_Server_Start,    *)
(* _Stop or _Toggle executes it there.  at[c] is how far caller c has got  *)
(* in such a call and on[c] the object the call works on.  A step of the   *)
(* model is one access to state two threads share.                         *)
(***************************************************************************)
EXTENDS Integers

CONSTANTS
  Objects,       \* allocations of FHTTP_Thread_LibWebSocket (bounds Starts)
  Game,          \* the game thread
  NULL,          \* the null pointer
  GameCalls,     \* server functions Blueprint calls on the game thread
  HandlerCalls,  \* server functions Blueprint calls inside a handler
  MaxSuspend     \* bound: suspend count of a thread

ServerFunctions == {"Start", "Stop", "Toggle"}

ASSUME ConstantsAssumption ==
  /\ Game \notin Objects
  /\ NULL \notin Objects
  /\ GameCalls \subseteq ServerFunctions
  /\ HandlerCalls \subseteq ServerFunctions
  /\ MaxSuspend \in Nat

Callers == Objects \cup {Game}   \* the service thread of object t is named t

VARIABLES
  named,         \* Server_Name is not empty; fixed when the actor spawns
  actor,         \* phase of the actor
  Thread_LibWebSocket,  \* the actor's pointer to its server object
  heap,          \* heap[t]: is the object allocated
  worker,        \* worker[t]: where the service thread of t is
  suspend,       \* suspend[t]: OS suspend count of that thread
  Context,       \* Context[t]: the field Context of t is not NULL
  lws,           \* lws[t]: the lws context created by t
  bStartThread,  \* bStartThread[t]: the field of that name
  at, on,        \* the call each caller is executing
  ub,            \* kinds of undefined behaviour met so far
  crashed        \* the process has died of one of them

object == <<heap, worker, suspend, Context, lws, bStartThread>>
calls  == <<at, on>>
faults == <<ub, crashed>>
vars   == <<named, actor, Thread_LibWebSocket, object, calls, faults>>

(* "none": no RunnableThread; "test", "check", "call": the three points of *)
(* the loop of Run; "service": inside lws_service; "handler": inside a     *)
(* Blueprint handler; "wedged": asleep in a destroyed context, or spinning *)
(* in Run on stale reads, and never leaving either.                        *)
WorkerPoints == {"none", "init", "test", "check", "call", "service",
                 "handler", "wedged", "exited"}
CallPoints   == {"idle", "create", "destroy", "clear", "flag", "join"}
InStop(c)    == at[c] \in {"destroy", "clear", "flag", "join"}

TypeOK ==
  /\ named \in BOOLEAN
  /\ actor \in {"spawned", "playing", "ending", "ended"}
  /\ Thread_LibWebSocket \in Objects \cup {NULL}
  /\ heap \in [Objects -> {"unused", "live", "freed"}]
  /\ worker \in [Objects -> WorkerPoints]
  /\ suspend \in [Objects -> 0..MaxSuspend]
  /\ Context \in [Objects -> BOOLEAN]
  /\ lws \in [Objects -> {"none", "live", "destroyed"}]
  /\ bStartThread \in [Objects -> BOOLEAN]
  /\ at \in [Callers -> CallPoints]
  /\ on \in [Callers -> Objects \cup {NULL}]
  /\ \A c \in Callers : at[c] # "idle" => on[c] \in Objects
  /\ ub \in SUBSET {"freed", "context"}
  /\ crashed \in BOOLEAN

Init ==
  /\ named \in BOOLEAN
  /\ actor = "spawned"
  /\ Thread_LibWebSocket = NULL
  /\ heap = [t \in Objects |-> "unused"]
  /\ worker = [t \in Objects |-> "none"]
  /\ suspend = [t \in Objects |-> 0]
  /\ Context = [t \in Objects |-> FALSE]
  /\ lws = [t \in Objects |-> "none"]
  /\ bStartThread = [t \in Objects |-> FALSE]
  /\ at = [c \in Callers |-> "idle"]
  /\ on = [c \in Callers |-> NULL]
  /\ ub = {}
  /\ crashed = FALSE

-----------------------------------------------------------------------------
(* Who may take a step.                                                    *)

Running(c)  == c \in Objects => suspend[c] = 0   \* SuspendThread stops it dead

(* Blueprint calls between the actor's own calls, in a handler, and, when  *)
(* EndPlay's Stop has returned, in Event EndPlay, which Super::EndPlay     *)
(* runs.                                                                   *)
MayCall(c, f) ==
  /\ at[c] = "idle"
  /\ \/ c = Game /\ actor \in {"playing", "ending"} /\ f \in GameCalls
     \/ c \in Objects /\ worker[c] = "handler" /\ f \in HandlerCalls

Goto(c, p) == at' = [at EXCEPT ![c] = p] /\ UNCHANGED on
Return(c)  == at' = [at EXCEPT ![c] = "idle"] /\ on' = [on EXCEPT ![c] = NULL]

(* A use of freed memory, or of a context lws_context_destroy has had: the *)
(* process dies or the use goes unnoticed.                                 *)
Undefined(kind) == ub' = ub \cup {kind} /\ crashed' \in {crashed, TRUE}

-----------------------------------------------------------------------------
(* HTTP_Server_Start: the constructor creates the thread and Create waits  *)
(* for Init to have run on it; only then does the actor get its pointer.   *)
(* Create may fail, which leaves RunnableThread null.                      *)

StartCall(c) ==
  IF named
  THEN \E t \in Objects :
         /\ heap[t] = "unused"
         /\ heap' = [heap EXCEPT ![t] = "live"]
         /\ \/ /\ worker' = [worker EXCEPT ![t] = "init"]
               /\ at' = [at EXCEPT ![c] = "create"]
               /\ on' = [on EXCEPT ![c] = t]
               /\ UNCHANGED Thread_LibWebSocket
            \/ /\ Thread_LibWebSocket' = t
               /\ UNCHANGED <<worker, calls>>
         /\ UNCHANGED <<suspend, Context, lws, bStartThread, faults>>
  ELSE UNCHANGED <<Thread_LibWebSocket, object, calls, faults>>

HTTP_Server_Start(c) ==
  /\ MayCall(c, "Start")
  /\ StartCall(c)
  /\ UNCHANGED <<named, actor>>

CreateReturns_NoWait(c) ==  \* Create does not wait for Init
  /\ at[c] = "create"
  /\ Thread_LibWebSocket' = on[c]
  /\ Return(c)
  /\ UNCHANGED <<named, actor, object, faults>>

CreateReturns(c) ==
  /\ at[c] = "create"
  /\ worker[on[c]] # "init"
  /\ Thread_LibWebSocket' = on[c]
  /\ Return(c)
  /\ UNCHANGED <<named, actor, object, faults>>

-----------------------------------------------------------------------------
(* HTTP_Server_Stop: `delete` runs the destructor, which calls Kill(true): *)
(* Stop() on the caller's thread (destroy the context, clear the field,    *)
(* lower the flag), then a wait for the service thread, then the memory    *)
(* goes.  The actor keeps its pointer.                                     *)

StopCall_NoNullTest(c) ==  \* `delete` with no test of the pointer
  /\ at' = [at EXCEPT ![c] = "destroy"]
  /\ on' = [on EXCEPT ![c] = Thread_LibWebSocket]
  /\ UNCHANGED <<heap, faults>>

StopCall(c) ==
  LET t == Thread_LibWebSocket IN
  \/ t = NULL /\ UNCHANGED <<heap, calls, faults>>
  \/ t # NULL /\ heap[t] = "freed" /\ Undefined("freed") /\ UNCHANGED <<heap, calls>>
  \/ /\ t # NULL /\ heap[t] = "live" /\ worker[t] = "none"
     /\ heap' = [heap EXCEPT ![t] = "freed"]
     /\ UNCHANGED <<calls, faults>>
  \/ /\ t # NULL /\ heap[t] = "live" /\ worker[t] # "none"
     /\ at' = [at EXCEPT ![c] = "destroy"]
     /\ on' = [on EXCEPT ![c] = t]
     /\ UNCHANGED <<heap, faults>>

HTTP_Server_Stop(c) ==
  /\ MayCall(c, "Stop")
  /\ StopCall(c)
  /\ UNCHANGED <<named, actor, Thread_LibWebSocket, worker, suspend, Context,
                 lws, bStartThread>>

DestroyContext_Skipped(c) ==  \* Stop() only lowers the flag
  /\ at[c] = "destroy" /\ heap[on[c]] = "live"
  /\ Goto(c, "flag")
  /\ UNCHANGED <<named, actor, Thread_LibWebSocket, object, faults>>

DestroyContext(c) ==
  LET t == on[c] IN
  /\ at[c] = "destroy" /\ heap[t] = "live"
  /\ \/ ~Context[t] /\ Goto(c, "flag") /\ UNCHANGED <<lws, faults>>
     \/ /\ Context[t] /\ Goto(c, "clear")
        /\ lws' = [lws EXCEPT ![t] = "destroyed"]
        /\ IF lws[t] = "destroyed" THEN Undefined("context") ELSE UNCHANGED faults
  /\ UNCHANGED <<named, actor, Thread_LibWebSocket, heap, worker, suspend,
                 Context, bStartThread>>

ClearContext(c) ==
  /\ at[c] = "clear" /\ heap[on[c]] = "live"
  /\ Context' = [Context EXCEPT ![on[c]] = FALSE]
  /\ Goto(c, "flag")
  /\ UNCHANGED <<named, actor, Thread_LibWebSocket, heap, worker, suspend, lws,
                 bStartThread, faults>>

LowerFlag_Forgotten(c) ==  \* Stop() leaves bStartThread alone
  /\ at[c] = "flag" /\ heap[on[c]] = "live"
  /\ Goto(c, "join")
  /\ UNCHANGED <<named, actor, Thread_LibWebSocket, object, faults>>

LowerFlag(c) ==
  /\ at[c] = "flag" /\ heap[on[c]] = "live"
  /\ bStartThread' = [bStartThread EXCEPT ![on[c]] = FALSE]
  /\ Goto(c, "join")
  /\ UNCHANGED <<named, actor, Thread_LibWebSocket, heap, worker, suspend,
                 Context, lws, faults>>

Joined_KillNoWait(c) ==  \* Kill(false)
  /\ at[c] = "join" /\ heap[on[c]] = "live"
  /\ heap' = [heap EXCEPT ![on[c]] = "freed"]
  /\ Return(c)
  /\ UNCHANGED <<named, actor, Thread_LibWebSocket, worker, suspend, Context,
                 lws, bStartThread, faults>>

Joined(c) ==
  /\ at[c] = "join" /\ heap[on[c]] = "live"
  /\ worker[on[c]] = "exited"
  /\ heap' = [heap EXCEPT ![on[c]] = "freed"]
  /\ Return(c)
  /\ UNCHANGED <<named, actor, Thread_LibWebSocket, worker, suspend, Context,
                 lws, bStartThread, faults>>

(* Two callers stopping one object: the slower one finds it freed.         *)
StopOnFreed(c) ==
  /\ InStop(c) /\ heap[on[c]] = "freed"
  /\ Undefined("freed")
  /\ Return(c)
  /\ UNCHANGED <<named, actor, Thread_LibWebSocket, object>>

-----------------------------------------------------------------------------
(* HTTP_Server_Toggle: SuspendThread adds one to the thread's suspend      *)
(* count, ResumeThread takes one away if there is one.                     *)

HTTP_Server_Toggle(c, bIsPause) ==
  LET t == Thread_LibWebSocket IN
  /\ MayCall(c, "Toggle")
  /\ t # NULL
  /\ \/ heap[t] = "freed" /\ Undefined("freed") /\ UNCHANGED suspend
     \/ /\ heap[t] = "live" /\ worker[t] # "none"
        /\ IF bIsPause THEN suspend[t] < MaxSuspend ELSE suspend[t] > 0
        /\ suspend' = [suspend EXCEPT ![t] = IF bIsPause THEN @ + 1 ELSE @ - 1]
        /\ UNCHANGED faults
  /\ UNCHANGED <<named, actor, Thread_LibWebSocket, heap, worker, Context, lws,
                 bStartThread, calls>>

-----------------------------------------------------------------------------
(* The actor's own calls.                                                  *)

BeginPlay ==
  /\ actor = "spawned"
  /\ actor' = "playing"
  /\ StartCall(Game)
  /\ UNCHANGED named

EndPlay_NoStop ==  \* EndPlay without HTTP_Server_Stop
  /\ actor = "playing" /\ at[Game] = "idle"
  /\ actor' = "ending"
  /\ UNCHANGED <<named, Thread_LibWebSocket, object, calls, faults>>

EndPlay ==
  /\ actor = "playing" /\ at[Game] = "idle"
  /\ actor' = "ending"
  /\ StopCall(Game)
  /\ UNCHANGED <<named, Thread_LibWebSocket, worker, suspend, Context, lws,
                 bStartThread>>

(* Super::EndPlay returns, and with it Blueprint's Event EndPlay.          *)
EndPlayReturns ==
  /\ actor = "ending" /\ at[Game] = "idle"
  /\ actor' = "ended"
  /\ UNCHANGED <<named, Thread_LibWebSocket, object, calls, faults>>

-----------------------------------------------------------------------------
(* The service thread: Init, then the loop of Run.                         *)

Move(t, from, to) ==
  /\ worker[t] = from
  /\ worker' = [worker EXCEPT ![t] = to]

InitThread(t) ==
  /\ Move(t, "init", "test")
  /\ bStartThread' = [bStartThread EXCEPT ![t] = TRUE]
  /\ \/ /\ Context' = [Context EXCEPT ![t] = TRUE]
        /\ lws' = [lws EXCEPT ![t] = "live"]
     \/ UNCHANGED <<Context, lws>>   \* lws_create_context returned NULL
  /\ UNCHANGED <<named, actor, Thread_LibWebSocket, heap, suspend, calls, faults>>

RunTest(t) ==
  /\ Move(t, "test", IF bStartThread[t] THEN "check" ELSE "exited")
  /\ UNCHANGED <<named, actor, Thread_LibWebSocket, heap, suspend, Context, lws,
                 bStartThread, calls, faults>>

(* bStartThread and Context are plain fields.  While Context is null the   *)
(* loop has no side effect, so a build may keep both reads out of it and   *)
(* spin on the values it has seen.                                         *)
RunCheck(t) ==
  /\ \/ Context[t] /\ Move(t, "check", "call")
     \/ ~Context[t] /\ \E to \in {"test", "wedged"} : Move(t, "check", to)
  /\ UNCHANGED <<named, actor, Thread_LibWebSocket, heap, suspend, Context, lws,
                 bStartThread, calls, faults>>

(* The argument is the pointer RunCheck saw or a second read of the field: *)
(* the build may do either.  lws_service(NULL) returns at once.            *)
ServiceEnter(t) ==
  /\ \/ Move(t, "call", "service")
     \/ ~Context[t] /\ Move(t, "call", "test")
  /\ UNCHANGED <<named, actor, Thread_LibWebSocket, heap, suspend, Context, lws,
                 bStartThread, calls, faults>>

(* lws calls Callback_HTTP, which calls the actor's handlers.              *)
Dispatch(t) ==
  /\ lws[t] = "live"
  /\ Move(t, "service", "handler")
  /\ UNCHANGED <<named, actor, Thread_LibWebSocket, heap, suspend, Context, lws,
                 bStartThread, calls, faults>>

HandlerReturns(t) ==
  /\ at[t] = "idle"
  /\ Move(t, "handler", "service")
  /\ UNCHANGED <<named, actor, Thread_LibWebSocket, heap, suspend, Context, lws,
                 bStartThread, calls, faults>>

ServiceReturns(t) ==
  /\ lws[t] = "live"
  /\ Move(t, "service", "test")
  /\ UNCHANGED <<named, actor, Thread_LibWebSocket, heap, suspend, Context, lws,
                 bStartThread, calls, faults>>

(* lws_service on a destroyed context may as well return, sleep for ever   *)
(* on an event that is gone, or call a handler out of stale memory.        *)
LeaveDestroyed(t) ==
  /\ lws[t] = "destroyed"
  /\ \E to \in {"test", "wedged"} : Move(t, "service", to)
  /\ Undefined("context")
  /\ UNCHANGED <<named, actor, Thread_LibWebSocket, heap, suspend, Context, lws,
                 bStartThread, calls>>

DispatchDestroyed(t) ==
  /\ lws[t] = "destroyed"
  /\ Move(t, "service", "handler")
  /\ Undefined("context")
  /\ UNCHANGED <<named, actor, Thread_LibWebSocket, heap, suspend, Context, lws,
                 bStartThread, calls>>

-----------------------------------------------------------------------------
CallProceeds(c) ==
  \/ CreateReturns(c) \/ DestroyContext(c) \/ ClearContext(c)
  \/ LowerFlag(c) \/ Joined(c) \/ StopOnFreed(c)

CallBegins(c) ==
  \/ HTTP_Server_Start(c) \/ HTTP_Server_Stop(c)
  \/ \E b \in BOOLEAN : HTTP_Server_Toggle(c, b)

WorkerProceeds(t) ==
  \/ InitThread(t) \/ RunTest(t) \/ RunCheck(t) \/ ServiceEnter(t)
  \/ HandlerReturns(t)

Next ==
  /\ ~crashed
  /\ \/ BeginPlay \/ EndPlay \/ EndPlayReturns
     \/ \E c \in Callers : Running(c) /\ (CallBegins(c) \/ CallProceeds(c))
     \/ \E t \in Objects :
          Running(t) /\ (\/ WorkerProceeds(t) \/ Dispatch(t) \/ ServiceReturns(t)
                         \/ LeaveDestroyed(t) \/ DispatchDestroyed(t))

Spec == Init /\ [][Next]_vars

(* Threads the OS has not suspended are scheduled; Init and handlers       *)
(* return; one call of lws_service runs the handlers of one poll, so it    *)
(* cannot go on calling them for ever (the strong fairness).  On a live    *)
(* context it may sleep for ever: it wakes for events, and Stop sends none.*)
Fairness ==
  /\ \A c \in Callers : WF_vars(~crashed /\ Running(c) /\ CallProceeds(c))
  /\ \A t \in Objects :
       /\ WF_vars(~crashed /\ Running(t) /\ WorkerProceeds(t))
       /\ SF_vars(~crashed /\ Running(t) /\ LeaveDestroyed(t))

FairSpec == Spec /\ Fairness

-----------------------------------------------------------------------------
(* No thread runs in a freed object: `delete` in HTTP_Server_Stop returns  *)
(* the memory only after Run has returned, whoever stops and however many  *)
(* stop at once.                                                           *)
JoinBeforeFree ==
  \A t \in Objects : heap[t] = "freed" => worker[t] \in {"none", "exited"}

(* A caller that waits for a service thread has the loop's flag down: Init *)
(* cannot raise bStartThread again after Stop() has lowered it.            *)
NoLostStop ==
  \A c \in Callers : at[c] = "join" => ~bStartThread[on[c]]

(* Stop() destroys the context before it stops the loop, so lws_service    *)
(* may run on a destroyed context; it does so only while some caller is    *)
(* still inside the Stop() that destroyed it.                              *)
DestroyedUseOnlyDuringStop ==
  \A t \in Objects :
    lws[t] = "destroyed" /\ worker[t] \notin {"none", "exited"} =>
      \E c \in Callers : on[c] = t /\ at[c] \in {"clear", "flag", "join"}

(* After EndPlay no service thread is left to call into the actor.         *)
NoServiceAfterEndPlay ==
  actor = "ended" => \A t \in Objects : worker[t] \in {"none", "exited"}

(* The actor keeps its pointer when the object is gone.  Where Blueprint   *)
(* only pauses and resumes, a call reaches the freed object at the very    *)
(* end alone: from Event EndPlay, when the Stop has returned and no service*)
(* thread is left, never from a handler and never while requests are still *)
(* being answered.                                                         *)
FreedUseOnlyAfterStop ==
  "freed" \in ub =>
    /\ actor = "ended" \/ (actor = "ending" /\ at[Game] = "idle")
    /\ \A t \in Objects : worker[t] \in {"none", "exited"}

(* lws-context-vhost.h: after lws_context_destroy "any further use of the  *)
(* context is undefined".                                                  *)
NoUseOfDestroyedContext == "context" \notin ub

(* How far a service thread is from the end of Run.                        *)
Remaining == [exited |-> 0, wedged |-> 0, test |-> 1, service |-> 2,
              handler |-> 3, call |-> 3, check |-> 4]

(* Once a caller waits for a service thread, that thread never begins      *)
(* another round of its loop: each of its steps is one towards the end of  *)
(* Run, but for a callback lws makes out of the destroyed context.         *)
WindsDown ==
  \A c \in Callers : LET t == on[c] IN
    at[c] = "join" /\ worker'[t] # worker[t] =>
      \/ Remaining[worker'[t]] < Remaining[worker[t]]
      \/ worker[t] = "service" /\ worker'[t] = "handler" /\ lws[t] = "destroyed"

RunWindsDown == [][WindsDown]_vars

(* A handler that stops the server it runs on waits for its own thread:    *)
(* the call never returns, whatever the game thread and other handlers do, *)
(* and nothing frees the object any more.                                  *)
SelfStop(t) == at[t] = "join" /\ on[t] = t

SelfStopLasts ==
  \A t \in Objects : SelfStop(t) => SelfStop(t)' /\ heap'[t] # "freed"

SelfStopNeverReturns == [][SelfStopLasts]_vars

(* A Stop returns unless the process dies, one of the two threads is       *)
(* suspended, or the service thread is wedged or waits for a thread itself.*)
StopReturns ==
  \A c \in Callers, t \in Objects :
    (InStop(c) /\ on[c] = t) ~>
      \/ at[c] = "idle" \/ crashed
      \/ ~Running(c) \/ suspend[t] > 0
      \/ worker[t] = "wedged" \/ at[t] = "join"
=============================================================================
