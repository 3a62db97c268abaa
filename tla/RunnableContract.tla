-------------------------- MODULE RunnableContract --------------------------
(***************************************************************************)
(* What FHTTP_Thread_LibWebSocket promises as an FRunnable: each object    *)
(* goes through its phases once and in order.  Its loop starts only after  *)
(* Init, it ends only after Stop, and the memory goes only when the loop   *)
(* has ended, or never began because no thread could be created.           *)
(***************************************************************************)
CONSTANT Objects

VARIABLE phase

Phases == {"absent", "inert", "starting", "running", "stopping", "exited", "gone"}

PhaseOK == phase \in [Objects -> Phases]

Init == phase = [t \in Objects |-> "absent"]

Advance(t, from, to) ==
  /\ phase[t] \in from
  /\ phase' = [phase EXCEPT ![t] = to]

Construct(t) == Advance(t, {"absent"}, "starting")
CreateFails(t) == Advance(t, {"absent"}, "inert")
RunnableInit(t) == Advance(t, {"starting"}, "running")
RunnableStop(t) == Advance(t, {"running"}, "stopping")
RunReturns(t) == Advance(t, {"stopping"}, "exited")
Delete(t) == Advance(t, {"exited", "inert"}, "gone")

Next ==
  \E t \in Objects :
    \/ Construct(t) \/ CreateFails(t) \/ RunnableInit(t)
    \/ RunnableStop(t) \/ RunReturns(t) \/ Delete(t)

Spec == Init /\ [][Next]_phase
=============================================================================
