----------------------- MODULE ServerLifecycleProofs -----------------------
(***************************************************************************)
(* The safety of the server's life for any number of objects and any       *)
(* Blueprint caller: one inductive invariant, IInv, implies every safety   *)
(* property of ServerLifecycle that holds for every caller.  What holds of *)
(* the shipped actor only comes after.                                     *)
(***************************************************************************)
EXTENDS ServerLifecycle, TLAPS

(* An object that was never allocated is in its initial state, and no      *)
(* pointer and no call refers to it.                                       *)
UnusedIsFresh ==
  \A t \in Objects : heap[t] = "unused" =>
    /\ worker[t] = "none"
    /\ lws[t] = "none"
    /\ Thread_LibWebSocket # t
    /\ \A c \in Callers : on[c] # t

(* The actor has an object, and so a caller can stop it, only once Init    *)
(* has run on its service thread.                                          *)
NoPointerBeforeInit ==
  /\ \A t \in Objects : Thread_LibWebSocket = t => worker[t] # "init"
  /\ \A c \in Callers : InStop(c) => worker[on[c]] \notin {"none", "init"}

(* A destroyed context belongs to a freed object or to one that some       *)
(* caller is still stopping.                                               *)
DestroyedIsBeingStopped ==
  \A t \in Objects : lws[t] = "destroyed" =>
    \/ heap[t] = "freed"
    \/ \E c \in Callers : on[c] = t /\ at[c] \in {"clear", "flag", "join"}

(* Nothing runs on the game thread before BeginPlay.                       *)
SpawnedIsIdle == actor = "spawned" => at[Game] = "idle"

IInv ==
  /\ TypeOK
  /\ SpawnedIsIdle
  /\ UnusedIsFresh
  /\ NoPointerBeforeInit
  /\ JoinBeforeFree
  /\ NoLostStop
  /\ DestroyedIsBeingStopped

-----------------------------------------------------------------------------
(* The first state satisfies the invariant.                                *)
LEMMA InitInv == Init => IInv
<1> SUFFICES ASSUME Init PROVE IInv
  OBVIOUS
<1> USE ConstantsAssumption DEF Init, Callers, ConstantsAssumption
<1>1. /\ heap \in [Objects -> {"unused", "live", "freed"}]
      /\ worker \in [Objects -> WorkerPoints]
      /\ suspend \in [Objects -> 0..MaxSuspend]
      /\ Context \in [Objects -> BOOLEAN]
      /\ lws \in [Objects -> {"none", "live", "destroyed"}]
      /\ bStartThread \in [Objects -> BOOLEAN]
  BY DEF WorkerPoints
<1>2. /\ at \in [Callers -> CallPoints]
      /\ on \in [Callers -> Objects \cup {NULL}]
      /\ \A c \in Callers : at[c] # "idle" => on[c] \in Objects
  BY DEF CallPoints
<1>3. TypeOK
  <2>1. ub \in SUBSET {"freed", "context"} /\ crashed \in BOOLEAN /\ named \in BOOLEAN
    BY Zenon
  <2> QED BY <1>1, <1>2, <2>1 DEF TypeOK
<1>4. SpawnedIsIdle /\ UnusedIsFresh /\ NoPointerBeforeInit
  BY DEF SpawnedIsIdle, UnusedIsFresh, NoPointerBeforeInit, InStop
<1>5. JoinBeforeFree /\ NoLostStop /\ DestroyedIsBeingStopped
  BY DEF JoinBeforeFree, NoLostStop, DestroyedIsBeingStopped
<1> QED BY <1>3, <1>4, <1>5 DEF IInv

(* Undefined behaviour keeps the fault variables well typed.               *)
LEMMA UndefinedType ==
  ASSUME TypeOK, NEW kind \in {"freed", "context"}, Undefined(kind)
  PROVE  ub' \in SUBSET {"freed", "context"} /\ crashed' \in BOOLEAN
<1>1. ub' \in SUBSET {"freed", "context"}
  BY Zenon DEF TypeOK, Undefined
<1>2. crashed' \in BOOLEAN
  BY Zenon DEF TypeOK, Undefined
<1> QED BY <1>1, <1>2

(* A caller's step preserves it.                                           *)
LEMMA StartInv ==
  ASSUME NEW c \in Callers, IInv, StartCall(c), at[c] = "idle", UNCHANGED named,
         actor' \in {"spawned", "playing", "ending", "ended"},
         actor' = "spawned" => c # Game /\ actor = "spawned"
  PROVE  IInv'
<1> USE ConstantsAssumption DEF Callers, ConstantsAssumption, SpawnedIsIdle
<1>1. CASE UNCHANGED <<Thread_LibWebSocket, object, calls, faults>>
  BY <1>1 DEF IInv, TypeOK, UnusedIsFresh, NoPointerBeforeInit, JoinBeforeFree,
      NoLostStop, DestroyedIsBeingStopped, InStop, object, calls, faults
<1>2. ASSUME NEW t \in Objects,
             heap[t] = "unused",
             heap' = [heap EXCEPT ![t] = "live"],
             worker' = [worker EXCEPT ![t] = "init"],
             at' = [at EXCEPT ![c] = "create"],
             on' = [on EXCEPT ![c] = t],
             UNCHANGED Thread_LibWebSocket,
             UNCHANGED <<suspend, Context, lws, bStartThread, faults>>
      PROVE IInv'
  <2>1. TypeOK' /\ SpawnedIsIdle'
    BY <1>2 DEF IInv, TypeOK, faults, WorkerPoints, CallPoints
  <2>2. UnusedIsFresh'
    BY <1>2 DEF IInv, TypeOK, UnusedIsFresh
  <2>3. NoPointerBeforeInit'
    BY <1>2 DEF IInv, TypeOK, UnusedIsFresh, NoPointerBeforeInit, InStop
  <2>4. JoinBeforeFree'
    BY <1>2 DEF IInv, TypeOK, JoinBeforeFree
  <2>5. NoLostStop'
    BY <1>2 DEF IInv, TypeOK, NoLostStop
  <2>6. DestroyedIsBeingStopped'
    BY <1>2 DEF IInv, TypeOK, UnusedIsFresh, DestroyedIsBeingStopped
  <2> QED BY <2>1, <2>2, <2>3, <2>4, <2>5, <2>6 DEF IInv
<1>3. ASSUME NEW t \in Objects,
             heap[t] = "unused",
             heap' = [heap EXCEPT ![t] = "live"],
             Thread_LibWebSocket' = t,
             UNCHANGED <<worker, calls>>,
             UNCHANGED <<suspend, Context, lws, bStartThread, faults>>
      PROVE IInv'
  BY <1>3 DEF IInv, TypeOK, UnusedIsFresh, NoPointerBeforeInit, JoinBeforeFree,
      NoLostStop, DestroyedIsBeingStopped, InStop, calls, faults
<1> QED BY <1>1, <1>2, <1>3 DEF StartCall

LEMMA StopInv ==
  ASSUME NEW c \in Callers, IInv, StopCall(c), at[c] = "idle",
         actor' \in {"spawned", "playing", "ending", "ended"},
         actor' = "spawned" => c # Game /\ actor = "spawned",
         UNCHANGED <<named, Thread_LibWebSocket, worker, suspend, Context, lws,
                     bStartThread>>
  PROVE  IInv'
<1> USE ConstantsAssumption DEF Callers, ConstantsAssumption, SpawnedIsIdle, IInv
<1> DEFINE t == Thread_LibWebSocket
<1>0. t \in Objects \cup {NULL} BY DEF TypeOK
<1>1. CASE UNCHANGED <<heap, calls>> /\ (UNCHANGED faults \/ Undefined("freed"))
  <2>1. ub' \in SUBSET {"freed", "context"} /\ crashed' \in BOOLEAN
    BY <1>1, UndefinedType DEF TypeOK, faults
  <2> QED
    BY <1>1, <2>1 DEF TypeOK, UnusedIsFresh, NoPointerBeforeInit, JoinBeforeFree,
        NoLostStop, DestroyedIsBeingStopped, InStop, calls
<1>2. CASE /\ t # NULL /\ heap[t] = "live" /\ worker[t] = "none"
           /\ heap' = [heap EXCEPT ![t] = "freed"]
           /\ UNCHANGED <<calls, faults>>
  BY <1>0, <1>2 DEF TypeOK, UnusedIsFresh, NoPointerBeforeInit, JoinBeforeFree,
      NoLostStop, DestroyedIsBeingStopped, InStop, calls, faults
<1>3. CASE /\ t # NULL /\ heap[t] = "live" /\ worker[t] # "none"
           /\ at' = [at EXCEPT ![c] = "destroy"]
           /\ on' = [on EXCEPT ![c] = t]
           /\ UNCHANGED <<heap, faults>>
  <2>1. TypeOK' /\ SpawnedIsIdle'
    BY <1>0, <1>3 DEF TypeOK, faults, CallPoints
  <2>2. UnusedIsFresh' /\ NoPointerBeforeInit'
    BY <1>0, <1>3 DEF TypeOK, UnusedIsFresh, NoPointerBeforeInit, InStop
  <2>3. JoinBeforeFree' /\ NoLostStop'
    BY <1>0, <1>3 DEF TypeOK, JoinBeforeFree, NoLostStop
  <2>4. DestroyedIsBeingStopped'
    BY <1>0, <1>3 DEF TypeOK, DestroyedIsBeingStopped
  <2> QED BY <2>1, <2>2, <2>3, <2>4
<1> QED BY <1>0, <1>1, <1>2, <1>3 DEF StopCall

LEMMA CallProceedsInv ==
  ASSUME NEW c \in Callers, IInv, CallProceeds(c)
  PROVE  IInv'
<1> USE ConstantsAssumption DEF Callers, ConstantsAssumption, SpawnedIsIdle, IInv, Goto, Return
<1> DEFINE t == on[c]
<1>0. at[c] # "idle" => t \in Objects BY DEF TypeOK
<1>1. CASE CreateReturns(c)
  BY <1>0, <1>1 DEF CreateReturns, TypeOK, UnusedIsFresh, NoPointerBeforeInit,
      JoinBeforeFree, NoLostStop, DestroyedIsBeingStopped, InStop, object, faults,
      CallPoints
<1>2. CASE DestroyContext(c)
  <2>1. TypeOK' /\ SpawnedIsIdle'
    <3>1. ub' \in SUBSET {"freed", "context"} /\ crashed' \in BOOLEAN
      BY <1>2, UndefinedType DEF DestroyContext, TypeOK, faults
    <3> QED BY <1>0, <1>2, <3>1 DEF DestroyContext, TypeOK, CallPoints
  <2>2. UnusedIsFresh' /\ NoPointerBeforeInit' /\ JoinBeforeFree' /\ NoLostStop'
    BY <1>0, <1>2 DEF DestroyContext, TypeOK, UnusedIsFresh, NoPointerBeforeInit,
      JoinBeforeFree, NoLostStop, InStop
  <2>3. DestroyedIsBeingStopped'
    BY <1>0, <1>2 DEF DestroyContext, TypeOK, DestroyedIsBeingStopped
  <2> QED BY <2>1, <2>2, <2>3
<1>3. CASE ClearContext(c)
  BY <1>0, <1>3 DEF ClearContext, TypeOK, UnusedIsFresh, NoPointerBeforeInit,
      JoinBeforeFree, NoLostStop, DestroyedIsBeingStopped, InStop, faults, CallPoints
<1>4. CASE LowerFlag(c)
  BY <1>0, <1>4 DEF LowerFlag, TypeOK, UnusedIsFresh, NoPointerBeforeInit,
      JoinBeforeFree, NoLostStop, DestroyedIsBeingStopped, InStop, faults, CallPoints
<1>5. CASE Joined(c)
  BY <1>0, <1>5 DEF Joined, TypeOK, UnusedIsFresh, NoPointerBeforeInit,
      JoinBeforeFree, NoLostStop, DestroyedIsBeingStopped, InStop, faults, CallPoints
<1>6. CASE StopOnFreed(c)
  <2>1. ub' \in SUBSET {"freed", "context"} /\ crashed' \in BOOLEAN
    BY <1>6, UndefinedType DEF StopOnFreed
  <2> QED
    BY <1>0, <1>6, <2>1 DEF StopOnFreed, TypeOK, UnusedIsFresh, NoPointerBeforeInit,
        JoinBeforeFree, NoLostStop, DestroyedIsBeingStopped, InStop, object,
        CallPoints
<1> QED BY <1>1, <1>2, <1>3, <1>4, <1>5, <1>6 DEF CallProceeds

LEMMA ToggleInv ==
  ASSUME NEW c \in Callers, NEW b \in BOOLEAN, IInv, HTTP_Server_Toggle(c, b)
  PROVE  IInv'
<1> USE DEF HTTP_Server_Toggle
<1>1. suspend' \in [Objects -> 0..MaxSuspend]
  <2>1. CASE UNCHANGED suspend
    BY <2>1 DEF IInv, TypeOK
  <2>2. ASSUME NEW t \in Objects, NEW n \in 0..MaxSuspend,
               suspend' = [suspend EXCEPT ![t] = n]
        PROVE suspend' \in [Objects -> 0..MaxSuspend]
    BY <2>2 DEF IInv, TypeOK
  <2> DEFINE t == Thread_LibWebSocket
             n == IF b THEN suspend[t] + 1 ELSE suspend[t] - 1
  <2>3. ASSUME t # NULL, IF b THEN suspend[t] < MaxSuspend ELSE suspend[t] > 0
        PROVE  t \in Objects /\ n \in 0..MaxSuspend
    BY <2>3, ConstantsAssumption DEF IInv, TypeOK, ConstantsAssumption
  <2> QED BY <2>1, <2>2, <2>3
<1>2. ub' \in SUBSET {"freed", "context"} /\ crashed' \in BOOLEAN
  BY UndefinedType DEF IInv, TypeOK, faults
<1>3. TypeOK' /\ SpawnedIsIdle'
  BY <1>1, <1>2 DEF IInv, TypeOK, calls, SpawnedIsIdle
<1> QED
  BY <1>3 DEF IInv, UnusedIsFresh, NoPointerBeforeInit, JoinBeforeFree,
      NoLostStop, DestroyedIsBeingStopped, InStop, calls

(* A service thread's step preserves it: no thread is in "none" or         *)
(* "exited" before such a step or in "none" or "init" after it.            *)
ServiceStep(t) ==
  WorkerProceeds(t) \/ Dispatch(t) \/ ServiceReturns(t)
    \/ LeaveDestroyed(t) \/ DispatchDestroyed(t)

LEMMA ServiceInv ==
  ASSUME NEW t \in Objects, IInv, ServiceStep(t)
  PROVE  IInv'
<1> USE ConstantsAssumption DEF Callers, ConstantsAssumption, SpawnedIsIdle
<1>1. CASE InitThread(t)
  <2> USE <1>1 DEF InitThread, Move
  <2>1. Context' \in [Objects -> BOOLEAN] /\ bStartThread' \in [Objects -> BOOLEAN]
    BY DEF IInv, TypeOK
  <2>2. TypeOK' /\ SpawnedIsIdle'
    BY <2>1 DEF IInv, TypeOK, SpawnedIsIdle, calls, faults, WorkerPoints
  <2>3. UnusedIsFresh' /\ NoPointerBeforeInit' /\ JoinBeforeFree'
    BY DEF IInv, TypeOK, UnusedIsFresh, NoPointerBeforeInit, JoinBeforeFree,
        InStop, calls
  <2>4. NoLostStop' /\ DestroyedIsBeingStopped'
    BY DEF IInv, TypeOK, NoPointerBeforeInit, NoLostStop,
        DestroyedIsBeingStopped, InStop, calls
  <2> QED BY <2>2, <2>3, <2>4 DEF IInv
<1>2. ASSUME /\ worker[t] \notin {"none", "init", "exited"}
             /\ \E p \in WorkerPoints \ {"none", "init"} :
                  worker' = [worker EXCEPT ![t] = p]
             /\ UNCHANGED faults \/ Undefined("context")
             /\ UNCHANGED <<named, actor, Thread_LibWebSocket, heap, suspend,
                            Context, lws, bStartThread, calls>>
      PROVE IInv'
  <2>1. ub' \in SUBSET {"freed", "context"} /\ crashed' \in BOOLEAN
    BY <1>2, UndefinedType DEF IInv, TypeOK, faults
  <2>2. TypeOK' /\ SpawnedIsIdle'
    BY <1>2, <2>1 DEF IInv, TypeOK, SpawnedIsIdle, calls, WorkerPoints
  <2>3. UnusedIsFresh' /\ NoPointerBeforeInit' /\ JoinBeforeFree'
    BY <1>2 DEF IInv, TypeOK, UnusedIsFresh, NoPointerBeforeInit, JoinBeforeFree,
        InStop, calls
  <2>4. NoLostStop' /\ DestroyedIsBeingStopped'
    BY <1>2 DEF IInv, TypeOK, NoLostStop, DestroyedIsBeingStopped, calls
  <2> QED BY <2>2, <2>3, <2>4 DEF IInv
<1>3. CASE RunTest(t)
  BY <1>2, <1>3 DEF RunTest, Move, WorkerPoints
<1>4. CASE RunCheck(t)
  BY <1>2, <1>4 DEF RunCheck, Move, WorkerPoints
<1>5. CASE ServiceEnter(t)
  BY <1>2, <1>5 DEF ServiceEnter, Move, WorkerPoints
<1>6. CASE Dispatch(t) \/ HandlerReturns(t) \/ ServiceReturns(t)
  BY <1>2, <1>6 DEF Dispatch, HandlerReturns, ServiceReturns, Move, WorkerPoints
<1>7. CASE LeaveDestroyed(t) \/ DispatchDestroyed(t)
  BY <1>2, <1>7 DEF LeaveDestroyed, DispatchDestroyed, Move, WorkerPoints
<1> QED BY <1>1, <1>3, <1>4, <1>5, <1>6, <1>7 DEF ServiceStep, WorkerProceeds

(* So does every step.                                                     *)
LEMMA NextInv == IInv /\ [Next]_vars => IInv'
<1> SUFFICES ASSUME IInv, [Next]_vars PROVE IInv'
  OBVIOUS
<1> USE ConstantsAssumption DEF Callers, ConstantsAssumption
<1>1. CASE BeginPlay
  BY <1>1, StartInv DEF BeginPlay, IInv, SpawnedIsIdle
<1>2. CASE EndPlay
  BY <1>2, StopInv DEF EndPlay
<1>3. CASE EndPlayReturns
  BY <1>3 DEF EndPlayReturns, IInv, TypeOK, UnusedIsFresh, NoPointerBeforeInit,
      JoinBeforeFree, NoLostStop, DestroyedIsBeingStopped, InStop, object, calls,
      faults, SpawnedIsIdle
<1>4. ASSUME NEW c \in Callers, CallBegins(c) PROVE IInv'
  <2>1. CASE HTTP_Server_Start(c)
    BY <2>1, StartInv DEF HTTP_Server_Start, MayCall, IInv, TypeOK
  <2>2. CASE HTTP_Server_Stop(c)
    BY <2>2, StopInv DEF HTTP_Server_Stop, MayCall, IInv, TypeOK
  <2>3. CASE \E b \in BOOLEAN : HTTP_Server_Toggle(c, b)
    BY <2>3, ToggleInv
  <2> QED BY <1>4, <2>1, <2>2, <2>3 DEF CallBegins
<1>5. ASSUME NEW c \in Callers, CallProceeds(c) PROVE IInv'
  BY <1>5, CallProceedsInv
<1>6. ASSUME NEW t \in Objects, ServiceStep(t) PROVE IInv'
  BY <1>6, ServiceInv
<1>7. CASE UNCHANGED vars
  BY <1>7 DEF vars, IInv, TypeOK, UnusedIsFresh, NoPointerBeforeInit,
      JoinBeforeFree, NoLostStop, DestroyedIsBeingStopped, InStop, object, calls,
      faults, SpawnedIsIdle
<1> QED BY <1>1, <1>2, <1>3, <1>4, <1>5, <1>6, <1>7 DEF Next, ServiceStep

LEMMA Invariance == Spec => []IInv
  BY InitInv, NextInv, PTL DEF Spec

-----------------------------------------------------------------------------
(* Every reachable state of the server is well typed.                      *)
THEOREM TypeCorrect == Spec => []TypeOK
  BY Invariance, PTL DEF IInv

(* However many callers stop however many objects, HTTP_Server_Stop frees  *)
(* an object only when its service thread has left Run.                    *)
THEOREM FreedOnlyAfterJoin == Spec => []JoinBeforeFree
  BY Invariance, PTL DEF IInv

(* Whoever waits for a service thread has told it to leave its loop, and   *)
(* Init cannot take that back.                                             *)
THEOREM StopIsNeverLost == Spec => []NoLostStop
  BY Invariance, PTL DEF IInv

(* A service thread can meet a destroyed context only inside the window of *)
(* the Stop that destroyed it.                                             *)
THEOREM DestroyedOnlyInStop == Spec => []DestroyedUseOnlyDuringStop
<1>1. IInv => DestroyedUseOnlyDuringStop
  BY DEF IInv, JoinBeforeFree, DestroyedIsBeingStopped, DestroyedUseOnlyDuringStop
<1> QED BY <1>1, Invariance, PTL

-----------------------------------------------------------------------------
(* A live context is named by its object's field; past the destruction in  *)
(* Stop() there is none, and past the next step the field is null.         *)
StopLeavesNoContext ==
  /\ \A t \in Objects : lws[t] = "live" => Context[t]
  /\ \A c \in Callers :
       at[c] \in {"clear", "flag", "join"} => lws[on[c]] # "live"
  /\ \A c \in Callers : at[c] \in {"flag", "join"} => ~Context[on[c]]

LEMMA NoContextNext ==
  IInv /\ StopLeavesNoContext /\ [Next]_vars => StopLeavesNoContext'
<1> SUFFICES ASSUME IInv, StopLeavesNoContext, [Next]_vars
             PROVE  StopLeavesNoContext'
  OBVIOUS
<1> USE DEF StopLeavesNoContext
<1>1. ASSUME UNCHANGED <<Context, lws>>,
             \A c \in Callers : \/ at'[c] \notin {"clear", "flag", "join"}
                                \/ at'[c] = at[c] /\ on'[c] = on[c]
      PROVE  StopLeavesNoContext'
  BY <1>1
<1>2. ASSUME NEW c \in Callers, StartCall(c) \/ StopCall(c),
             UNCHANGED <<Context, lws>>
      PROVE  StopLeavesNoContext'
  BY <1>1, <1>2 DEF StartCall, StopCall, calls, IInv, TypeOK
<1>3. CASE BeginPlay \/ EndPlay \/ EndPlayReturns
  BY <1>1, <1>2, <1>3
  DEF BeginPlay, EndPlay, EndPlayReturns, StartCall, object, calls, Callers
<1>4. ASSUME NEW c \in Callers, CallBegins(c) PROVE StopLeavesNoContext'
  BY <1>1, <1>2, <1>4 DEF CallBegins, HTTP_Server_Start, HTTP_Server_Stop,
    HTTP_Server_Toggle, StartCall, object, calls
<1>5. ASSUME NEW c \in Callers, CallProceeds(c) PROVE StopLeavesNoContext'
  <2>1. at[c] # "idle" => on[c] \in Objects BY DEF IInv, TypeOK
  <2>2. CASE CreateReturns(c) \/ Joined(c) \/ StopOnFreed(c)
    BY <1>1, <2>2 DEF CreateReturns, Joined, StopOnFreed, Return, object, IInv, TypeOK
  <2>3. CASE DestroyContext(c)
    BY <2>1, <2>3 DEF DestroyContext, Goto, IInv, TypeOK
  <2>4. CASE ClearContext(c) BY <2>1, <2>4 DEF ClearContext, Goto, IInv, TypeOK
  <2>5. CASE LowerFlag(c) BY <2>1, <2>5 DEF LowerFlag, Goto, IInv, TypeOK
  <2>6. QED BY <1>5, <2>2, <2>3, <2>4, <2>5 DEF CallProceeds
<1>6. ASSUME NEW t \in Objects, ServiceStep(t) PROVE StopLeavesNoContext'
  <2>1. CASE InitThread(t)
    <3>1. \A c \in Callers : InStop(c) => on[c] # t
      BY <2>1 DEF InitThread, Move, IInv, NoPointerBeforeInit
    <3>2. QED BY <2>1, <3>1 DEF InitThread, InStop, calls, IInv, TypeOK
  <2>2. CASE ~InitThread(t)
    BY <1>1, <1>6, <2>2 DEF ServiceStep, WorkerProceeds, RunTest, RunCheck,
      ServiceEnter, HandlerReturns, Dispatch, ServiceReturns, LeaveDestroyed,
      DispatchDestroyed, calls
  <2>3. QED BY <2>1, <2>2
<1>7. CASE UNCHANGED vars BY <1>1, <1>7 DEF vars, object, calls
<1>8. QED BY <1>3, <1>4, <1>5, <1>6, <1>7 DEF Next, ServiceStep

LEMMA WindingDown ==
  IInv /\ StopLeavesNoContext /\ [Next]_vars => [WindsDown]_vars
<1> SUFFICES ASSUME IInv, StopLeavesNoContext, Next, NEW c \in Callers,
                    at[c] = "join", worker'[on[c]] # worker[on[c]]
             PROVE  \/ Remaining[worker'[on[c]]] < Remaining[worker[on[c]]]
                    \/ /\ worker[on[c]] = "service" /\ worker'[on[c]] = "handler"
                       /\ lws[on[c]] = "destroyed"
  BY DEF WindsDown
<1> DEFINE t == on[c]
<1>1. /\ t \in Objects /\ heap[t] # "unused" /\ worker[t] # "init"
      /\ ~bStartThread[t] /\ ~Context[t] /\ lws[t] # "live"
  BY DEF IInv, TypeOK, UnusedIsFresh, NoPointerBeforeInit, NoLostStop,
    StopLeavesNoContext, InStop
<1> HIDE DEF t
<1>2. ServiceStep(t)
  <2>1. ASSUME NEW d \in Callers, StartCall(d) PROVE worker'[t] = worker[t]
    BY <1>1, <2>1 DEF StartCall, object, IInv, TypeOK
  <2>2. CASE BeginPlay \/ EndPlay \/ EndPlayReturns
    BY <2>1, <2>2 DEF BeginPlay, EndPlay, EndPlayReturns, object, Callers, t
  <2>3. ASSUME NEW d \in Callers, CallBegins(d) \/ CallProceeds(d)
        PROVE  worker'[t] = worker[t]
    BY <2>1, <2>3 DEF CallBegins, HTTP_Server_Start, HTTP_Server_Stop,
      HTTP_Server_Toggle, CallProceeds, CreateReturns, DestroyContext,
      ClearContext, LowerFlag, Joined, StopOnFreed, object
  <2>4. ASSUME NEW u \in Objects, ServiceStep(u), u # t
        PROVE  worker'[t] = worker[t]
    BY <1>1, <2>4 DEF ServiceStep, WorkerProceeds, InitThread, RunTest, RunCheck,
      ServiceEnter, HandlerReturns, Dispatch, ServiceReturns, LeaveDestroyed,
      DispatchDestroyed, Move, IInv, TypeOK
  <2>5. worker'[t] # worker[t] BY DEF t
  <2>6. QED BY <2>2, <2>3, <2>4, <2>5 DEF Next, ServiceStep
<1>3. \/ worker[t] = "test" /\ worker'[t] = "exited"
      \/ worker[t] = "check" /\ worker'[t] \in {"test", "wedged"}
      \/ worker[t] = "call" /\ worker'[t] \in {"service", "test"}
      \/ worker[t] = "handler" /\ worker'[t] = "service"
      \/ worker[t] = "service" /\ worker'[t] \in {"test", "wedged"}
      \/ worker[t] = "service" /\ worker'[t] = "handler" /\ lws[t] = "destroyed"
  BY <1>1, <1>2 DEF ServiceStep, WorkerProceeds, InitThread, RunTest, RunCheck,
    ServiceEnter, HandlerReturns, Dispatch, ServiceReturns, LeaveDestroyed,
    DispatchDestroyed, Move, IInv, TypeOK
<1>4. \/ Remaining[worker'[t]] < Remaining[worker[t]]
      \/ worker[t] = "service" /\ worker'[t] = "handler" /\ lws[t] = "destroyed"
  BY <1>3 DEF Remaining
<1>5. QED BY <1>4 DEF t

(* Whoever stops whatever, a service thread that is waited for only has    *)
(* fewer and fewer steps left, stale callbacks aside.                      *)
THEOREM StoppedRunWindsDown == Spec => RunWindsDown
<1>1. Init => StopLeavesNoContext BY DEF Init, StopLeavesNoContext
<1>2. QED BY <1>1, InitInv, NextInv, NoContextNext, WindingDown, PTL
          DEF Spec, RunWindsDown

(* A service thread makes calls in its handlers only.                      *)
HandlersCall == \A t \in Objects : at[t] # "idle" => worker[t] = "handler"

LEMMA HandlersCallNext == IInv /\ HandlersCall /\ [Next]_vars => HandlersCall'
<1> SUFFICES ASSUME IInv, HandlersCall, [Next]_vars PROVE HandlersCall'
  OBVIOUS
<1> USE ConstantsAssumption DEF HandlersCall, Callers, ConstantsAssumption
<1>1. ASSUME NEW c \in Callers, StartCall(c),
             c = Game \/ worker[c] = "handler"
      PROVE  HandlersCall'
  BY <1>1 DEF StartCall, object, calls, IInv, TypeOK, UnusedIsFresh
<1>2. ASSUME NEW c \in Callers, StopCall(c), UNCHANGED worker,
             c = Game \/ worker[c] = "handler"
      PROVE  HandlersCall'
  BY <1>2 DEF StopCall, calls, IInv, TypeOK
<1>3. CASE BeginPlay \/ EndPlay \/ EndPlayReturns
  BY <1>1, <1>2, <1>3 DEF BeginPlay, EndPlay, EndPlayReturns, object, calls
<1>4. ASSUME NEW c \in Callers, CallBegins(c) PROVE HandlersCall'
  BY <1>1, <1>2, <1>4 DEF CallBegins, HTTP_Server_Start, HTTP_Server_Stop,
    HTTP_Server_Toggle, MayCall, calls
<1>5. ASSUME NEW c \in Callers, CallProceeds(c) PROVE HandlersCall'
  BY <1>5 DEF CallProceeds, CreateReturns, DestroyContext, ClearContext, LowerFlag,
    Joined, StopOnFreed, Goto, Return, object, IInv, TypeOK
<1>6. ASSUME NEW t \in Objects, ServiceStep(t) PROVE HandlersCall'
  BY <1>6 DEF ServiceStep, WorkerProceeds, InitThread, RunTest, RunCheck,
    ServiceEnter, HandlerReturns, Dispatch, ServiceReturns, LeaveDestroyed,
    DispatchDestroyed, Move, calls, IInv, TypeOK
<1>7. CASE UNCHANGED vars BY <1>7 DEF vars, object, calls
<1>8. QED BY <1>3, <1>4, <1>5, <1>6, <1>7 DEF Next, ServiceStep

LEMMA SelfStopStep ==
  IInv /\ HandlersCall /\ [Next]_vars => [SelfStopLasts]_vars
<1> SUFFICES ASSUME IInv, HandlersCall, Next, NEW t \in Objects, SelfStop(t)
             PROVE  SelfStop(t)' /\ heap'[t] # "freed"
  BY DEF SelfStopLasts
<1> USE ConstantsAssumption DEF Callers, ConstantsAssumption, SelfStop
<1>1. worker[t] = "handler" /\ heap[t] = "live"
  BY DEF HandlersCall, IInv, TypeOK, UnusedIsFresh, JoinBeforeFree
<1>2. ASSUME NEW c \in Callers, StartCall(c) \/ StopCall(c), at[c] = "idle"
      PROVE  SelfStop(t)' /\ heap'[t] # "freed"
  BY <1>1, <1>2 DEF StartCall, StopCall, object, calls, IInv, TypeOK
<1>3. CASE BeginPlay \/ EndPlay \/ EndPlayReturns
  BY <1>1, <1>2, <1>3 DEF BeginPlay, EndPlay, EndPlayReturns, object, calls, IInv,
    SpawnedIsIdle
<1>4. ASSUME NEW c \in Callers, CallBegins(c)
      PROVE  SelfStop(t)' /\ heap'[t] # "freed"
  BY <1>1, <1>2, <1>4 DEF CallBegins, HTTP_Server_Start, HTTP_Server_Stop,
    HTTP_Server_Toggle, MayCall, calls
<1>5. ASSUME NEW c \in Callers, CallProceeds(c)
      PROVE  SelfStop(t)' /\ heap'[t] # "freed"
  BY <1>1, <1>5 DEF CallProceeds, CreateReturns, DestroyContext, ClearContext,
    LowerFlag, Joined, StopOnFreed, Goto, Return, object, InStop, IInv, TypeOK
<1>6. ASSUME NEW u \in Objects, ServiceStep(u)
      PROVE  SelfStop(t)' /\ heap'[t] # "freed"
  BY <1>1, <1>6 DEF ServiceStep, WorkerProceeds, InitThread, RunTest, RunCheck,
    ServiceEnter, HandlerReturns, Dispatch, ServiceReturns, LeaveDestroyed,
    DispatchDestroyed, calls
<1>7. QED BY <1>3, <1>4, <1>5, <1>6 DEF Next, ServiceStep

(* A handler that stops its own server never returns, with any number of   *)
(* servers and whatever the game thread and other handlers call.           *)
THEOREM SelfStopIsForever == Spec => SelfStopNeverReturns
<1>1. Init => HandlersCall BY DEF Init, HandlersCall, Callers
<1>2. QED BY <1>1, InitInv, NextInv, HandlersCallNext, SelfStopStep, PTL
          DEF Spec, SelfStopNeverReturns

-----------------------------------------------------------------------------
(***************************************************************************)
(* The actor as it is shipped: Blueprint pauses and resumes the server but *)
(* leaves Start to BeginPlay and Stop to EndPlay.  Then at most one object *)
(* is ever allocated, and it is stopped and freed exactly once.            *)
(***************************************************************************)
StockCaller == GameCalls \subseteq {"Toggle"} /\ HandlerCalls \subseteq {"Toggle"}

(* The only object is the one BeginPlay allocated, which the actor's       *)
(* pointer names once Create has returned.                                 *)
OneServer ==
  /\ actor = "spawned" =>
       Thread_LibWebSocket = NULL /\ \A t \in Objects : heap[t] = "unused"
  /\ \A t \in Objects : heap[t] # "unused" =>
       Thread_LibWebSocket = t \/ (at[Game] = "create" /\ on[Game] = t)

(* The only calls in progress are BeginPlay's Start and EndPlay's Stop.    *)
OnlyActorCalls ==
  /\ \A c \in Objects : at[c] = "idle"
  /\ at[Game] = "create" => actor = "playing" /\ Thread_LibWebSocket = NULL
  /\ InStop(Game) => /\ actor = "ending"
                     /\ on[Game] = Thread_LibWebSocket
                     /\ heap[on[Game]] = "live"

(* EndPlay's Stop has returned.                                            *)
Stopped == actor = "ended" \/ (actor = "ending" /\ at[Game] = "idle")

(* EndPlay's Stop is what frees the object, and it waits for the thread.   *)
FreedByEndPlay ==
  /\ \A t \in Objects : heap[t] = "freed" => actor \in {"ending", "ended"}
  /\ Stopped => \A t \in Objects : worker[t] \in {"none", "exited"}

LateFreedUse == "freed" \in ub => Stopped

StockInv == IInv /\ OneServer /\ OnlyActorCalls /\ FreedByEndPlay /\ LateFreedUse

(* So its service thread is the only one.                                  *)
LEMMA OneThread ==
  ASSUME IInv, OneServer, NEW t \in Objects, worker[t] # "none"
  PROVE  Thread_LibWebSocket = t \/ (at[Game] = "create" /\ on[Game] = t)
  BY DEF IInv, UnusedIsFresh, OneServer

LEMMA StockInit == Init => StockInv
<1> SUFFICES ASSUME Init PROVE StockInv
  OBVIOUS
<1> USE ConstantsAssumption DEF Callers, ConstantsAssumption
<1>1. LateFreedUse
  BY DEF Init, LateFreedUse
<1>2. OneServer /\ OnlyActorCalls /\ FreedByEndPlay
  BY DEF Init, OneServer, OnlyActorCalls, FreedByEndPlay, Stopped, InStop
<1> QED BY <1>1, <1>2, InitInv DEF StockInv

(* No freed object is reached when faults do not change or when a service  *)
(* thread meets a destroyed context.                                       *)
LEMMA NoNewFreedUse ==
  ASSUME LateFreedUse, UNCHANGED faults \/ Undefined("context"),
         Stopped => Stopped'
  PROVE  LateFreedUse'
<1>1. CASE UNCHANGED faults
  BY <1>1 DEF LateFreedUse, faults
<1>2. CASE Undefined("context")
  BY <1>2 DEF LateFreedUse, Undefined
<1> QED BY <1>1, <1>2

LEMMA StockBeginPlay ==
  ASSUME StockInv, BeginPlay
  PROVE  OneServer' /\ OnlyActorCalls' /\ FreedByEndPlay' /\ LateFreedUse'
<1> USE ConstantsAssumption DEF Callers, ConstantsAssumption, StockInv, BeginPlay
<1>0. UNCHANGED faults
  BY DEF StartCall
<1>1. LateFreedUse'
  BY <1>0, NoNewFreedUse DEF Stopped
<1>2. OneServer' /\ OnlyActorCalls' /\ FreedByEndPlay'
  BY DEF StartCall, IInv, TypeOK, UnusedIsFresh, SpawnedIsIdle, OneServer,
    OnlyActorCalls, FreedByEndPlay, Stopped, InStop, object, calls
<1> QED BY <1>1, <1>2

LEMMA StockEndPlay ==
  ASSUME StockInv, EndPlay
  PROVE  OneServer' /\ OnlyActorCalls' /\ FreedByEndPlay' /\ LateFreedUse'
<1> USE ConstantsAssumption DEF Callers, ConstantsAssumption, StockInv, EndPlay
<1> DEFINE t == Thread_LibWebSocket
<1>0. t \in Objects => heap[t] # "freed"
  BY DEF FreedByEndPlay
<1>1. LateFreedUse'
  BY <1>0, NoNewFreedUse DEF StopCall, IInv, TypeOK, Stopped
<1>2. OneServer'
  BY <1>0 DEF StopCall, IInv, TypeOK, OneServer
<1>3. OnlyActorCalls'
  BY <1>0 DEF StopCall, IInv, TypeOK, OnlyActorCalls, InStop, calls
<1>4. FreedByEndPlay'
  BY <1>0 DEF StopCall, IInv, TypeOK, UnusedIsFresh, OneServer, FreedByEndPlay, Stopped,
    InStop, calls
<1> QED BY <1>1, <1>2, <1>3, <1>4

LEMMA StockProceeds ==
  ASSUME StockInv, NEW c \in Callers, CallProceeds(c)
  PROVE  OneServer' /\ OnlyActorCalls' /\ FreedByEndPlay' /\ LateFreedUse'
<1> USE ConstantsAssumption
    DEF Callers, ConstantsAssumption, StockInv, OneServer, OnlyActorCalls,
        FreedByEndPlay, Stopped, InStop, Goto, Return
<1>0. c = Game /\ at[c] # "idle" /\ on[c] \in Objects
  BY DEF CallProceeds, CreateReturns, DestroyContext, ClearContext, LowerFlag,
    Joined, StopOnFreed, IInv, TypeOK
<1>1. CASE CreateReturns(c)
  <2>1. LateFreedUse'
    BY <1>1, NoNewFreedUse DEF CreateReturns
  <2>2. /\ actor = "playing" /\ actor' = "playing"
        /\ Thread_LibWebSocket' = on[Game]
        /\ UNCHANGED <<heap, worker>>
        /\ \A t \in Objects : heap[t] # "unused" => t = on[Game]
    BY <1>0, <1>1 DEF CreateReturns, object, IInv, TypeOK
  <2>3. at'[Game] = "idle" /\ \A d \in Objects : at'[d] = "idle"
    BY <1>0, <1>1 DEF CreateReturns, IInv, TypeOK
  <2>4. OneServer' /\ OnlyActorCalls' /\ FreedByEndPlay'
    BY <2>2, <2>3
  <2> QED BY <2>1, <2>4
<1>2. CASE DestroyContext(c)
  <2>1. LateFreedUse'
    BY <1>2, NoNewFreedUse DEF DestroyContext
  <2>2. OneServer' /\ OnlyActorCalls' /\ FreedByEndPlay'
    BY <1>0, <1>2 DEF DestroyContext, IInv, TypeOK
  <2> QED BY <2>1, <2>2
<1>3. CASE ClearContext(c)
  BY <1>0, <1>3, NoNewFreedUse DEF ClearContext, IInv, TypeOK
<1>4. CASE LowerFlag(c)
  BY <1>0, <1>4, NoNewFreedUse DEF LowerFlag, IInv, TypeOK
<1>5. CASE Joined(c)
  <2>1. LateFreedUse'
    BY <1>5, NoNewFreedUse DEF Joined
  <2>2. /\ on[Game] = Thread_LibWebSocket /\ actor = "ending"
        /\ \A t \in Objects : heap[t] # "unused" => t = on[Game]
        /\ heap' = [heap EXCEPT ![on[Game]] = "freed"]
        /\ UNCHANGED <<actor, Thread_LibWebSocket, worker>>
        /\ worker[on[Game]] = "exited"
    BY <1>0, <1>5 DEF Joined
  <2>3. at'[Game] = "idle" /\ \A d \in Objects : at'[d] = "idle"
    BY <1>0, <1>5 DEF Joined, IInv, TypeOK
  <2>4. OneServer' /\ OnlyActorCalls'
    BY <1>0, <2>2, <2>3 DEF IInv, TypeOK
  <2>5. \A t \in Objects : worker[t] \in {"none", "exited"}
    BY <1>0, <2>2, OneThread
  <2>6. FreedByEndPlay'
    BY <2>2, <2>3, <2>5
  <2> QED BY <2>1, <2>4, <2>6
<1>6. CASE StopOnFreed(c)
  BY <1>0, <1>6 DEF StopOnFreed
<1> QED BY <1>1, <1>2, <1>3, <1>4, <1>5, <1>6 DEF CallProceeds

LEMMA StockCallBegins ==
  ASSUME StockCaller, StockInv, NEW c \in Callers, CallBegins(c)
  PROVE  OneServer' /\ OnlyActorCalls' /\ FreedByEndPlay' /\ LateFreedUse'
<1> USE ConstantsAssumption DEF Callers, ConstantsAssumption
<1>1. PICK b \in BOOLEAN : HTTP_Server_Toggle(c, b)
  BY DEF StockCaller, CallBegins, HTTP_Server_Start, HTTP_Server_Stop, MayCall
<1> DEFINE t == Thread_LibWebSocket
<1>2. t \in Objects
  BY <1>1 DEF HTTP_Server_Toggle, StockInv, IInv, TypeOK
<1>3. heap[t] = "freed" => Stopped
  <2>1. CASE c = Game
    BY <1>1, <1>2, <2>1
    DEF HTTP_Server_Toggle, MayCall, StockInv, FreedByEndPlay, Stopped
  <2>2. CASE c \in Objects
    <3>1. worker[c] = "handler"
      BY <1>1, <2>2 DEF HTTP_Server_Toggle, MayCall
    <3>2. t = c
      BY <1>1, <2>2, <3>1, OneThread DEF HTTP_Server_Toggle, StockInv, OnlyActorCalls
    <3> QED BY <2>2, <3>1, <3>2 DEF StockInv, IInv, JoinBeforeFree
  <2> QED BY <2>1, <2>2
<1>4. LateFreedUse'
  <2>1. UNCHANGED <<actor, at>>
    BY <1>1 DEF HTTP_Server_Toggle, calls
  <2>2. CASE heap[t] = "freed"
    BY <1>3, <2>1, <2>2 DEF LateFreedUse, Stopped
  <2>3. CASE heap[t] # "freed"
    BY <1>1, <2>1, <2>3, NoNewFreedUse DEF HTTP_Server_Toggle, StockInv, Stopped
  <2> QED BY <2>2, <2>3
<1> QED
  BY <1>1, <1>4
  DEF HTTP_Server_Toggle, calls, StockInv, OneServer, OnlyActorCalls, FreedByEndPlay,
    Stopped, InStop

LEMMA StockService ==
  ASSUME StockInv, NEW t \in Objects, ServiceStep(t)
  PROVE  OneServer' /\ OnlyActorCalls' /\ FreedByEndPlay' /\ LateFreedUse'
<1> USE ConstantsAssumption DEF Callers, ConstantsAssumption
<1>1. /\ worker[t] \notin {"none", "exited"}
      /\ \E p : worker' = [worker EXCEPT ![t] = p]
      /\ UNCHANGED faults \/ Undefined("context")
      /\ UNCHANGED <<actor, Thread_LibWebSocket, heap, at, on>>
  BY DEF ServiceStep, WorkerProceeds, InitThread, RunTest, RunCheck, ServiceEnter,
    Dispatch, HandlerReturns, ServiceReturns, LeaveDestroyed, DispatchDestroyed,
    Move, calls
<1>2. LateFreedUse'
  BY <1>1, NoNewFreedUse DEF StockInv, Stopped
<1>3. OneServer' /\ OnlyActorCalls' /\ FreedByEndPlay'
  BY <1>1 DEF StockInv, IInv, TypeOK, OneServer, OnlyActorCalls, FreedByEndPlay, Stopped,
    InStop
<1> QED BY <1>2, <1>3

LEMMA StockNext == StockCaller /\ StockInv /\ [Next]_vars => StockInv'
<1> SUFFICES ASSUME StockCaller, StockInv, [Next]_vars PROVE StockInv'
  OBVIOUS
<1> DEFINE Rest == OneServer' /\ OnlyActorCalls' /\ FreedByEndPlay' /\ LateFreedUse'
<1>1. CASE BeginPlay
  <2>1. Rest BY <1>1, StockBeginPlay
  <2> QED BY <2>1, NextInv DEF StockInv
<1>2. CASE EndPlay
  <2>1. Rest BY <1>2, StockEndPlay
  <2> QED BY <2>1, NextInv DEF StockInv
<1>3. CASE EndPlayReturns
  <2>1. Rest
    BY <1>3, NoNewFreedUse DEF EndPlayReturns, object, calls, faults, StockInv,
      OneServer, OnlyActorCalls, FreedByEndPlay, Stopped, InStop
  <2> QED BY <2>1, NextInv DEF StockInv
<1>4. ASSUME NEW c \in Callers, CallBegins(c) \/ CallProceeds(c) PROVE StockInv'
  <2>1. Rest BY <1>4, StockCallBegins, StockProceeds
  <2> QED BY <2>1, NextInv DEF StockInv
<1>5. ASSUME NEW t \in Objects, ServiceStep(t) PROVE StockInv'
  <2>1. Rest BY <1>5, StockService
  <2> QED BY <2>1, NextInv DEF StockInv
<1>6. CASE UNCHANGED vars
  <2>1. Rest
    BY <1>6, NoNewFreedUse DEF vars, object, calls, faults, StockInv, OneServer,
      OnlyActorCalls, FreedByEndPlay, Stopped, InStop
  <2> QED BY <2>1, NextInv DEF StockInv
<1> QED BY <1>1, <1>2, <1>3, <1>4, <1>5, <1>6 DEF Next, ServiceStep

LEMMA StockInvariance == StockCaller /\ Spec => []StockInv
<1>1. StockCaller => (Spec => []StockInv)
  <2> SUFFICES ASSUME StockCaller PROVE Spec => []StockInv
    OBVIOUS
  <2>1. StockInv /\ [Next]_vars => StockInv'
    BY StockNext
  <2> QED BY <2>1, StockInit, PTL DEF Spec
<1> QED BY <1>1

(* The shipped actor touches its freed object after EndPlay's Stop only,   *)
(* from Event EndPlay, when no service thread is left.                     *)
THEOREM StockUsesFreedOnlyAfterStop == StockCaller /\ Spec => []FreedUseOnlyAfterStop
<1>1. StockInv => FreedUseOnlyAfterStop
  BY DEF StockInv, LateFreedUse, FreedByEndPlay, Stopped, FreedUseOnlyAfterStop
<1> QED BY <1>1, StockInvariance, PTL

(* When the shipped actor's EndPlay has returned, no service thread is     *)
(* left that could call a handler of the dead actor.                       *)
THEOREM StockEndPlayStopsService == StockCaller /\ Spec => []NoServiceAfterEndPlay
<1>1. StockInv => NoServiceAfterEndPlay
  BY DEF StockInv, FreedByEndPlay, Stopped, NoServiceAfterEndPlay
<1> QED BY <1>1, StockInvariance, PTL
=============================================================================
