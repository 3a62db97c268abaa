----------------------- MODULE ServerImplementsProofs ----------------------
(* ServerLifecycle implements RunnableContract, for any number of objects  *)
(* and any caller.                                                         *)
EXTENDS ServerImplements, ServerLifecycleProofs

ph == [t \in Objects |-> PhaseOf(t)]

(* A step that changes the phase of one object at most is a contract step  *)
(* or a stutter.                                                           *)
LEMMA OneObjectMoves ==
  ASSUME NEW t \in Objects,
         \A u \in Objects \ {t} : PhaseOf(u)' = PhaseOf(u),
         \/ PhaseOf(t)' = PhaseOf(t)
         \/ PhaseOf(t) = "absent" /\ PhaseOf(t)' \in {"starting", "inert"}
         \/ PhaseOf(t) = "starting" /\ PhaseOf(t)' = "running"
         \/ PhaseOf(t) = "running" /\ PhaseOf(t)' = "stopping"
         \/ PhaseOf(t) = "stopping" /\ PhaseOf(t)' = "exited"
         \/ PhaseOf(t) \in {"exited", "inert"} /\ PhaseOf(t)' = "gone"
  PROVE  [Contract!Next]_ph
<1>1. CASE PhaseOf(t)' = PhaseOf(t)
  BY <1>1 DEF ph
<1>2. CASE PhaseOf(t)' # PhaseOf(t)
  <2>1. ph' = [ph EXCEPT ![t] = PhaseOf(t)'] /\ ph[t] = PhaseOf(t)
    BY DEF ph
  <2> QED
    BY <1>2, <2>1 DEF Contract!Next, Contract!Construct, Contract!CreateFails,
      Contract!RunnableInit, Contract!RunnableStop, Contract!RunReturns,
      Contract!Delete, Contract!Advance, ph
<1> QED BY <1>1, <1>2

(* A step that leaves what the phase depends on alone is a stutter.        *)
LEMMA NoObjectMoves ==
  ASSUME UNCHANGED <<heap, worker, bStartThread>>
  PROVE  UNCHANGED ph
  BY DEF ph, PhaseOf

-----------------------------------------------------------------------------
LEMMA StartImplements ==
  ASSUME NEW c \in Callers, IInv, StartCall(c)
  PROVE  [Contract!Next]_ph
<1>1. CASE UNCHANGED object
  BY <1>1, NoObjectMoves DEF object
<1>2. ASSUME NEW t \in Objects, heap[t] = "unused",
             heap' = [heap EXCEPT ![t] = "live"],
             worker' = [worker EXCEPT ![t] = "init"] \/ UNCHANGED worker,
             UNCHANGED bStartThread
      PROVE [Contract!Next]_ph
  <2>1. \A u \in Objects \ {t} : PhaseOf(u)' = PhaseOf(u)
    BY <1>2 DEF IInv, TypeOK, PhaseOf
  <2>2. PhaseOf(t) = "absent" /\ PhaseOf(t)' \in {"starting", "inert"}
    BY <1>2 DEF IInv, TypeOK, UnusedIsFresh, PhaseOf
  <2> QED BY <2>1, <2>2, OneObjectMoves
<1> QED BY <1>1, <1>2 DEF StartCall, calls

LEMMA FreeImplements ==
  ASSUME IInv, NEW t \in Objects, heap[t] = "live", worker[t] \in {"none", "exited"},
         heap' = [heap EXCEPT ![t] = "freed"], UNCHANGED <<worker, bStartThread>>
  PROVE  [Contract!Next]_ph
<1>1. \A u \in Objects \ {t} : PhaseOf(u)' = PhaseOf(u)
  BY DEF IInv, TypeOK, PhaseOf
<1>2. PhaseOf(t) \in {"exited", "inert"} /\ PhaseOf(t)' = "gone"
  BY DEF IInv, TypeOK, PhaseOf
<1> QED BY <1>1, <1>2, OneObjectMoves

LEMMA StopImplements ==
  ASSUME IInv, NEW c \in Callers, StopCall(c), UNCHANGED <<worker, bStartThread>>
  PROVE  [Contract!Next]_ph
<1>1. CASE UNCHANGED heap
  BY <1>1, NoObjectMoves
<1>2. CASE heap' # heap
  BY <1>2, FreeImplements DEF StopCall, IInv, TypeOK
<1> QED BY <1>1, <1>2

LEMMA ProceedsImplements ==
  ASSUME IInv, NEW c \in Callers, CallProceeds(c)
  PROVE  [Contract!Next]_ph
<1> DEFINE t == on[c]
<1>0. at[c] # "idle" => t \in Objects BY DEF IInv, TypeOK
<1>1. CASE CreateReturns(c) \/ DestroyContext(c) \/ ClearContext(c) \/ StopOnFreed(c)
  BY <1>1, NoObjectMoves
  DEF CreateReturns, DestroyContext, ClearContext, StopOnFreed, object
<1>2. ASSUME NEW u \in Objects, u = t, LowerFlag(c) PROVE [Contract!Next]_ph
  <2>1. /\ heap[u] = "live" /\ worker[u] \notin {"none", "init"}
        /\ bStartThread' = [bStartThread EXCEPT ![u] = FALSE]
        /\ UNCHANGED <<heap, worker>>
    BY <1>2 DEF LowerFlag, IInv, NoPointerBeforeInit, InStop
  <2>2. \A v \in Objects \ {u} : PhaseOf(v)' = PhaseOf(v)
    BY <2>1 DEF IInv, TypeOK, PhaseOf
  <2>3. CASE worker[u] = "exited"
    <3>1. PhaseOf(u)' = PhaseOf(u)
      BY <2>1, <2>3 DEF PhaseOf
    <3> QED BY <2>2, <3>1, OneObjectMoves
  <2>4. CASE worker[u] # "exited"
    <3>1. PhaseOf(u) \in {"running", "stopping"} /\ PhaseOf(u)' = "stopping"
      BY <2>1, <2>4 DEF IInv, TypeOK, PhaseOf
    <3> QED BY <2>2, <3>1, OneObjectMoves
  <2> QED BY <2>3, <2>4
<1>3. CASE Joined(c)
  BY <1>0, <1>3, FreeImplements DEF Joined
<1> QED BY <1>0, <1>1, <1>2, <1>3 DEF CallProceeds, LowerFlag

LEMMA ServiceImplements ==
  ASSUME IInv, NEW t \in Objects, ServiceStep(t)
  PROVE  [Contract!Next]_ph
<1>0. worker[t] \notin {"none", "exited"} => heap[t] = "live"
  BY DEF IInv, TypeOK, UnusedIsFresh, JoinBeforeFree
<1>1. CASE InitThread(t)
  <2>1. \A u \in Objects \ {t} : PhaseOf(u)' = PhaseOf(u)
    BY <1>1 DEF InitThread, Move, IInv, TypeOK, PhaseOf
  <2>2. PhaseOf(t) = "starting" /\ PhaseOf(t)' = "running"
    BY <1>0, <1>1 DEF InitThread, Move, IInv, TypeOK, PhaseOf
  <2> QED BY <2>1, <2>2, OneObjectMoves
<1>2. CASE RunTest(t)
  <2>1. \A u \in Objects \ {t} : PhaseOf(u)' = PhaseOf(u)
    BY <1>2 DEF RunTest, Move, IInv, TypeOK, PhaseOf
  <2>2. \/ PhaseOf(t)' = PhaseOf(t)
        \/ PhaseOf(t) = "stopping" /\ PhaseOf(t)' = "exited"
    BY <1>0, <1>2 DEF RunTest, Move, IInv, TypeOK, PhaseOf
  <2> QED BY <2>1, <2>2, OneObjectMoves
<1>3. ASSUME worker[t] \notin {"none", "init", "exited"},
             NEW p, p \notin {"none", "init", "exited"},
             worker' = [worker EXCEPT ![t] = p],
             UNCHANGED <<heap, bStartThread>>
      PROVE [Contract!Next]_ph
  <2>1. \A u \in Objects \ {t} : PhaseOf(u)' = PhaseOf(u)
    BY <1>3 DEF IInv, TypeOK, PhaseOf
  <2>2. PhaseOf(t)' = PhaseOf(t)
    BY <1>3, <1>0 DEF IInv, TypeOK, PhaseOf
  <2> QED BY <2>1, <2>2, OneObjectMoves
<1>4. CASE RunCheck(t) \/ ServiceEnter(t)
  BY <1>3, <1>4 DEF RunCheck, ServiceEnter, Move
<1>5. CASE Dispatch(t) \/ HandlerReturns(t) \/ ServiceReturns(t)
  BY <1>3, <1>5 DEF Dispatch, HandlerReturns, ServiceReturns, Move
<1>6. CASE LeaveDestroyed(t) \/ DispatchDestroyed(t)
  BY <1>3, <1>6 DEF LeaveDestroyed, DispatchDestroyed, Move
<1> QED BY <1>1, <1>2, <1>4, <1>5, <1>6 DEF ServiceStep, WorkerProceeds

LEMMA StepImplements == IInv /\ [Next]_vars => [Contract!Next]_ph
<1> SUFFICES ASSUME IInv, [Next]_vars PROVE [Contract!Next]_ph
  OBVIOUS
<1> USE DEF Callers
<1>1. CASE BeginPlay
  BY <1>1, StartImplements DEF BeginPlay
<1>2. CASE EndPlay
  BY <1>2, StopImplements DEF EndPlay
<1>3. CASE EndPlayReturns
  BY <1>3, NoObjectMoves DEF EndPlayReturns, object
<1>4. ASSUME NEW c \in Callers, CallBegins(c) PROVE [Contract!Next]_ph
  BY <1>4, StartImplements, StopImplements, NoObjectMoves
  DEF CallBegins, HTTP_Server_Start, HTTP_Server_Stop, HTTP_Server_Toggle
<1>5. ASSUME NEW c \in Callers, CallProceeds(c) PROVE [Contract!Next]_ph
  BY <1>5, ProceedsImplements
<1>6. ASSUME NEW t \in Objects, ServiceStep(t) PROVE [Contract!Next]_ph
  BY <1>6, ServiceImplements
<1>7. CASE UNCHANGED vars
  BY <1>7, NoObjectMoves DEF vars, object
<1> QED BY <1>1, <1>2, <1>3, <1>4, <1>5, <1>6, <1>7 DEF Next, ServiceStep

(* Every object the actor allocates keeps the contract of an FRunnable:    *)
(* Init before the loop, the end of Run only after Stop, delete only after *)
(* the end of Run, and each of them once.                                  *)
THEOREM ServerKeepsContract == Spec => RunnableContractHolds
<1>1. Init => Contract!Init
  BY DEF Init, Contract!Init, PhaseOf
<1>2. IInv /\ [Next]_vars => [Contract!Next]_([t \in Objects |-> PhaseOf(t)])
  BY StepImplements DEF ph
<1> QED
  BY <1>1, <1>2, Invariance, PTL DEF Spec, RunnableContractHolds, Contract!Spec
=============================================================================
