---------------------------- MODULE ReplyContract ---------------------------
(***************************************************************************)
(* What answering a request in its own callback promises the clients.      *)
(* Clients come and go at the addresses in Wsis, and one may put several   *)
(* requests; client[w] numbers them.  `there` are the addresses with a     *)
(* client, `asked` those whose client waits for an answer.  Nothing        *)
(* happens to a client while an answer to it is under way.                 *)
(***************************************************************************)
EXTENDS Integers

CONSTANT Wsis

VARIABLES there, client, asked, answer

vars == <<there, client, asked, answer>>

Init ==
  /\ there  = {}
  /\ client = [w \in Wsis |-> 0]
  /\ asked  = {}
  /\ answer = [w \in Wsis |-> "none"]

(* A client connects, or the one that is there puts its next request.      *)
Renew(w) ==
  /\ answer[w] = "none"
  /\ there'  = there \cup {w}
  /\ client' = [client EXCEPT ![w] = @ + 1]
  /\ asked'  = asked \ {w}
  /\ UNCHANGED answer

Leave(w) ==
  /\ answer[w] = "none"
  /\ there' = there \ {w}
  /\ UNCHANGED <<client, asked, answer>>

Ask(w) ==
  /\ w \in there
  /\ asked' = asked \cup {w}
  /\ UNCHANGED <<there, client, answer>>

Say(w, from, to) ==
  /\ answer[w] = from
  /\ answer' = [answer EXCEPT ![w] = to]
  /\ UNCHANGED <<there, client, asked>>

Begin(w) ==
  /\ w \in there \cap asked
  /\ \A v \in Wsis : answer[v] = "none"
  /\ Say(w, "none", "header")

Continue(w) == Say(w, "header", "body")
Finish(w)   == Say(w, "body", "none")

Next ==
  \E w \in Wsis :
    \/ Renew(w) \/ Leave(w) \/ Ask(w)
    \/ Begin(w) \/ Continue(w) \/ Finish(w)

Spec == Init /\ [][Next]_vars
=============================================================================
