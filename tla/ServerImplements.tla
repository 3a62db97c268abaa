-------------------------- MODULE ServerImplements --------------------------
(***************************************************************************)
(* The server objects of ServerLifecycle implement RunnableContract: the   *)
(* phase of an object is a function of its heap cell, of where its service *)
(* thread is and of the loop's flag.                                       *)
(***************************************************************************)
EXTENDS ServerLifecycle

PhaseOf(t) ==
  CASE heap[t] = "unused" -> "absent"
    [] heap[t] = "freed"  -> "gone"
    [] heap[t] = "live" /\ worker[t] = "none"   -> "inert"
    [] heap[t] = "live" /\ worker[t] = "init"   -> "starting"
    [] heap[t] = "live" /\ worker[t] = "exited" -> "exited"
    [] OTHER -> IF bStartThread[t] THEN "running" ELSE "stopping"

Contract == INSTANCE RunnableContract WITH phase <- [t \in Objects |-> PhaseOf(t)]

(* Every behaviour of the server, with any caller, takes each object        *)
(* through Init, loop, Stop, end of Run and delete in that order.           *)
RunnableContractHolds == Contract!Spec
=============================================================================
