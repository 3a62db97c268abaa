------------------------- MODULE ReplyContractProofs ------------------------
(* Answers given in a callback of their request keep ReplyContract.        *)
EXTENDS HttpExchangeProofs

(* Request objects are of the connection's epoch or of earlier ones, and a *)
(* reply is to a request object there is.                                  *)
RequestsArePast == \A r \in requests : r.epoch <= epoch[r.wsi]
RepliesAreAsked == reply["service"].step # "none" => reply["service"].request \in requests

Inv == TypeInv /\ OwnInv /\ RequestsArePast /\ RepliesAreAsked

LEMMA PastStep == TypeInv /\ RequestsArePast /\ [Next]_vars => RequestsArePast'
<1> SUFFICES ASSUME TypeInv, RequestsArePast, [Next]_vars PROVE RequestsArePast'
  OBVIOUS
<1> USE DEF RequestsArePast, TypeInv, TypeOK, Request
<1>1. ASSUME NEW w \in Wsis, NewEpoch(w), requests' = requests
      PROVE  RequestsArePast'
  BY <1>1, ConstantsAssumption DEF NewEpoch
<1>2. ASSUME UNCHANGED <<epoch, requests>> PROVE RequestsArePast'
  BY <1>2
<1>3. ASSUME NEW w \in Wsis, HttpCallback(w) PROVE RequestsArePast'
  BY <1>3, ConstantsAssumption DEF HttpCallback
<1>4. ASSUME NEW w \in Wsis, Lws(w) PROVE RequestsArePast'
  BY <1>1, <1>2, <1>4 DEF Lws, Accept, RequestArrives, Close, Drop
<1>5. ASSUME NEW w \in Wsis, Callback(w) PROVE RequestsArePast'
  <2>1. CASE HttpCallback(w) BY <1>3, <2>1
  <2>2. CASE ~HttpCallback(w)
    BY <1>2, <1>5, <2>2
    DEF Callback, FilterCallback, HttpDummy, BodyCallback, Drop
  <2>3. QED BY <2>1, <2>2
<1>6. ASSUME NEW th \in Threads, Reply(th) PROVE RequestsArePast'
  BY <1>2, <1>6 DEF Reply, SendResponse, WriteHeader, WriteBody, WritePart,
    FinishReply, connections
<1>7. CASE CallbackReturns \/ UNCHANGED vars
  BY <1>2, <1>7 DEF CallbackReturns, vars, connections
<1>8. QED BY <1>4, <1>5, <1>6, <1>7 DEF Next

LEMMA AskedStep == TypeInv /\ RepliesAreAsked /\ [Next]_vars => RepliesAreAsked'
<1> SUFFICES ASSUME TypeInv, RepliesAreAsked, [Next]_vars PROVE RepliesAreAsked'
  OBVIOUS
<1> USE DEF RepliesAreAsked
<1>1. ASSUME reply' = reply, requests \subseteq requests' PROVE RepliesAreAsked'
  BY <1>1
<1>2. ASSUME NEW w \in Wsis, Lws(w) \/ Callback(w) PROVE RepliesAreAsked'
  BY <1>1, <1>2 DEF Lws, Accept, RequestArrives, Close, Callback, FilterCallback,
    HttpCallback, HttpDummy, BodyCallback
<1>3. ASSUME NEW th \in Threads, NEW r \in requests, SendResponse(th, r)
      PROVE  RepliesAreAsked'
  BY <1>3 DEF SendResponse, TypeInv, TypeOK, Threads
<1>4. ASSUME NEW th \in Threads, WriteHeader(th) \/ WriteBody(th)
      PROVE  RepliesAreAsked'
  <2>1. PICK next : reply' = [reply EXCEPT ![th].step = next]
    BY <1>4 DEF WriteHeader, WriteBody, WritePart
  <2>2. reply[th].step # "none" /\ requests' = requests
    BY <1>4 DEF WriteHeader, WriteBody, WritePart
  <2>3. reply[th] \in [step : {"header", "body", "dummy"}, use : Kinds, request : Request]
    BY <2>2 DEF TypeInv, TypeOK, Replies, NoReply
  <2>4. /\ reply'["service"].request = reply["service"].request
        /\ th # "service" => reply'["service"] = reply["service"]
    BY <2>1, <2>3 DEF TypeInv, TypeOK, Threads
  <2>5. QED BY <2>2, <2>4 DEF Threads
<1>5. ASSUME NEW th \in Threads, FinishReply(th) PROVE RepliesAreAsked'
  BY <1>5 DEF FinishReply, TypeInv, TypeOK, Threads, NoReply
<1>6. CASE CallbackReturns \/ UNCHANGED vars
  BY <1>1, <1>6 DEF CallbackReturns, vars
<1>7. QED BY <1>2, <1>3, <1>4, <1>5, <1>6 DEF Next, Reply

LEMMA InvHolds == Spec => []Inv
<1>1. Init => RequestsArePast /\ RepliesAreAsked
  BY DEF Init, RequestsArePast, RepliesAreAsked, NoReply, Threads
<1>2. QED BY TypeInit, TypeStep, OwnInit, OwnStep, <1>1, PastStep, AskedStep, PTL
          DEF Spec, Inv
-----------------------------------------------------------------------------
LEMMA ContractInit == Init => Contract!Init
<1> SUFFICES ASSUME Init PROVE Contract!Init OBVIOUS
<1>1. reply["service"] = NoReply BY DEF Init, Threads
<1>2. \A w \in Wsis : AnswerTo(w) = "none" BY <1>1 DEF AnswerTo, NoReply
<1>3. QED BY <1>2 DEF Init, Contract!Init, There, Asked, Answer

(* Outside a callback no client is being answered.                         *)
LEMMA QuietBetween ==
  ASSUME TypeOK, cb = NoCallback, NEW w \in Wsis
  PROVE  AnswerTo(w) = "none"
  BY IdleService DEF AnswerTo

LEMMA ContractRenew ==
  ASSUME Inv, NEW w \in Wsis, Accept(w) \/ RequestArrives(w)
  PROVE  Contract!Renew(w)
<1>1. /\ NewEpoch(w) /\ cb = NoCallback /\ UNCHANGED <<requests, reply>>
      /\ \E p \in {"open", "parsed"} : conn' = [conn EXCEPT ![w] = p]
  BY DEF Accept, RequestArrives
<1>2. Answer[w] = "none" /\ Answer' = Answer
  BY <1>1, QuietBetween DEF Answer, AnswerTo, Inv, TypeInv
<1>3. There' = There \cup {w}
  BY <1>1 DEF There, Inv, TypeInv, TypeOK
<1>4. [wsi |-> w, epoch |-> epoch'[w]] \notin requests
  BY <1>1 DEF NewEpoch, Inv, RequestsArePast, TypeInv, TypeOK
<1>5. Asked' = Asked \ {w}
  BY <1>1, <1>4 DEF Asked, NewEpoch, Inv, TypeInv, TypeOK
<1>6. epoch' = [epoch EXCEPT ![w] = @ + 1] BY <1>1 DEF NewEpoch
<1>7. QED BY <1>2, <1>3, <1>5, <1>6 DEF Contract!Renew

LEMMA ContractLeave ==
  ASSUME Inv, NEW w \in Wsis, cb = NoCallback, Drop(w), UNCHANGED <<requests, reply>>
  PROVE  Contract!Leave(w)
<1>1. Answer[w] = "none" /\ Answer' = Answer
  BY QuietBetween DEF Answer, AnswerTo, Inv, TypeInv
<1>2. There' = There \ {w}
  BY DEF Drop, There, Inv, TypeInv, TypeOK
<1>3. epoch' = epoch /\ Asked' = Asked BY DEF Drop, Asked
<1>4. QED BY <1>1, <1>2, <1>3 DEF Contract!Leave

(* Steps that change none of what the clients see.                         *)
LEMMA ContractStutter ==
  ASSUME \A w \in Wsis : conn'[w] # "closed" <=> conn[w] # "closed",
         UNCHANGED <<epoch, requests>>, \A w \in Wsis : AnswerTo(w)' = AnswerTo(w)
  PROVE  UNCHANGED Contract!vars
<1>1. There' = There BY DEF There
<1>2. Asked' = Asked BY DEF Asked
<1>3. Answer' = Answer BY DEF Answer
<1>4. QED BY <1>1, <1>2, <1>3 DEF Contract!vars

LEMMA ContractCallback ==
  ASSUME Inv, NEW w \in Wsis, Callback(w)
  PROVE  [Contract!Next]_Contract!vars
<1>1. ASSUME reply' = reply PROVE \A v \in Wsis : AnswerTo(v)' = AnswerTo(v)
  BY <1>1 DEF AnswerTo
<1>2. CASE FilterCallback(w)
  <2>1. \A v \in Wsis : conn'[v] # "closed" <=> conn[v] # "closed"
    BY <1>2 DEF FilterCallback, Inv, TypeInv, TypeOK
  <2>2. QED BY <1>1, <1>2, <2>1, ContractStutter DEF FilterCallback
<1>3. CASE HttpCallback(w)
  <2>1. There' = There /\ w \in There
    BY <1>3 DEF HttpCallback, There, Inv, TypeInv, TypeOK
  <2>2. Asked' = Asked \cup {w}
    BY <1>3 DEF HttpCallback, Asked, Inv, TypeInv, TypeOK
  <2>3. Answer' = Answer BY <1>1, <1>3 DEF HttpCallback, Answer
  <2>4. Contract!Ask(w) BY <1>3, <2>1, <2>2, <2>3 DEF HttpCallback, Contract!Ask
  <2>5. QED BY <2>4 DEF Contract!Next
<1>4. CASE HttpDummy(w)
  <2>1. CASE Drop(w)
    <3>1. Contract!Leave(w) BY <1>4, <2>1, ContractLeave DEF HttpDummy
    <3>2. QED BY <3>1 DEF Contract!Next
  <2>2. CASE conn' = [conn EXCEPT ![w] = "open"] /\ epoch' = epoch
    <3>1. \A v \in Wsis : conn'[v] # "closed" <=> conn[v] # "closed"
      BY <1>4, <2>2 DEF HttpDummy, Inv, TypeInv, TypeOK
    <3>2. QED BY <1>1, <1>4, <2>2, <3>1, ContractStutter DEF HttpDummy
  <2>3. QED BY <1>4, <2>1, <2>2 DEF HttpDummy
<1>5. CASE BodyCallback(w) BY <1>1, <1>5, ContractStutter DEF BodyCallback
<1>6. QED BY <1>2, <1>3, <1>4, <1>5 DEF Callback

(* A step of an answer in the request's own callback is one of the         *)
(* contract's; a step of another reply is none.                            *)
LEMMA ContractWrite ==
  ASSUME Inv, NEW th \in Threads, WriteHeader(th) \/ WriteBody(th)
  PROVE  [Contract!Next]_Contract!vars
<1> DEFINE w == reply["service"].request.wsi
<1>1. PICK from, next :
        /\ reply[th].step = from /\ reply' = [reply EXCEPT ![th].step = next]
        /\ <<from, next>> \in {<<"header", "body">>, <<"body", "dummy">>}
        /\ UNCHANGED <<connections, requests>>
  BY DEF WriteHeader, WriteBody, WritePart
<1>2. There' = There /\ Asked' = Asked /\ epoch' = epoch
  BY <1>1 DEF There, Asked, connections
<1>3. reply \in [Threads -> Replies(Kinds)] BY DEF Inv, TypeInv, TypeOK
<1>4. reply[th] \in [step : {"header", "body", "dummy"}, use : Kinds, request : Request]
  BY <1>1, <1>3 DEF Replies, NoReply
<1>5. CASE th = "game" \/ reply[th].use # "own"
  <2>1. /\ reply'["service"].use = reply["service"].use
        /\ th = "game" => reply'["service"] = reply["service"]
        /\ th # "game" => reply["service"].use # "own"
    BY <1>1, <1>3, <1>4, <1>5 DEF Threads
  <2>2. \A v \in Wsis : AnswerTo(v)' = AnswerTo(v) BY <2>1 DEF AnswerTo
  <2>3. QED BY <1>1, <2>2, ContractStutter DEF connections
<1>6. CASE th = "service" /\ reply[th].use = "own"
  <2>1. /\ reply["service"].step = from /\ reply'["service"].step = next
        /\ reply'["service"].request = reply["service"].request
        /\ reply["service"].use = "own" /\ reply'["service"].use = "own"
    BY <1>1, <1>3, <1>4, <1>6 DEF Threads
  <2>2. w \in Wsis BY <1>4, <1>6 DEF Request
  <2>3. w \in There \cap Asked
    <3>1. cb # NoCallback BY <2>1, IdleService DEF Inv, TypeInv
    <3>2. reply["service"].request = [wsi |-> cb.wsi, epoch |-> epoch[cb.wsi]]
      BY <2>1 DEF Inv, OwnInv, OwnAnswers
    <3>3. w = cb.wsi /\ conn[w] # "closed" BY <3>1, <3>2, CallbackWsi DEF Inv
    <3>4. reply["service"].request \in requests
      BY <1>1, <2>1 DEF Inv, RepliesAreAsked
    <3>5. QED BY <2>2, <3>2, <3>3, <3>4 DEF There, Asked
  <2> HIDE DEF w
  <2>4. CASE from = "header" /\ next = "body"
    <3>1. \A v \in Wsis : Answer[v] = "none"
      BY <2>1, <2>4 DEF Answer, AnswerTo
    <3>2. Answer' = [Answer EXCEPT ![w] = "header"]
      BY <2>1, <2>2, <2>4, <3>1 DEF Answer, AnswerTo, w
    <3>3. Contract!Begin(w)
      BY <1>2, <2>2, <2>3, <3>1, <3>2 DEF Contract!Begin, Contract!Say
    <3>4. QED BY <2>2, <3>3 DEF Contract!Next
  <2>5. CASE from = "body" /\ next = "dummy"
    <3>1. Answer[w] = "header" BY <2>1, <2>2, <2>5 DEF Answer, AnswerTo, w
    <3>2. Answer' = [Answer EXCEPT ![w] = "body"]
      BY <2>1, <2>2, <2>5 DEF Answer, AnswerTo, w
    <3>3. Contract!Continue(w)
      BY <1>2, <3>1, <3>2 DEF Contract!Continue, Contract!Say
    <3>4. QED BY <2>2, <3>3 DEF Contract!Next
  <2>6. QED BY <1>1, <2>4, <2>5
<1>7. QED BY <1>5, <1>6 DEF Threads

LEMMA ContractFinish ==
  ASSUME Inv, NEW th \in Threads, FinishReply(th)
  PROVE  [Contract!Next]_Contract!vars
<1> DEFINE w == reply["service"].request.wsi
<1>1. /\ reply[th].step = "dummy" /\ reply' = [reply EXCEPT ![th] = NoReply]
      /\ UNCHANGED <<epoch, requests>>
      /\ \/ conn' = conn
         \/ /\ conn[reply[th].request.wsi] # "closed"
            /\ conn' = [conn EXCEPT ![reply[th].request.wsi] = "open"]
  BY DEF FinishReply
<1>2. \A v \in Wsis : conn'[v] # "closed" <=> conn[v] # "closed"
  BY <1>1 DEF Inv, TypeInv, TypeOK
<1>3. reply \in [Threads -> Replies(Kinds)] BY DEF Inv, TypeInv, TypeOK
<1>4. CASE th = "game" \/ reply[th].use # "own"
  <2>1. /\ th = "game" => reply'["service"] = reply["service"]
        /\ th # "game" => /\ reply["service"].use # "own"
                          /\ reply'["service"].use # "own"
    BY <1>1, <1>3, <1>4 DEF Threads, NoReply
  <2>2. \A v \in Wsis : AnswerTo(v)' = AnswerTo(v) BY <2>1 DEF AnswerTo
  <2>3. QED BY <1>1, <1>2, <2>2, ContractStutter
<1>5. CASE th = "service" /\ reply[th].use = "own"
  <2>1. reply["service"].step = "dummy" /\ reply["service"].use = "own"
        /\ reply'["service"] = NoReply
    BY <1>1, <1>3, <1>5 DEF Threads
  <2>2. w \in Wsis BY <1>5, <2>1, ReplyFacts DEF Inv, TypeInv
  <2>3. Answer[w] = "body" BY <2>1, <2>2 DEF Answer, AnswerTo
  <2>4. \A v \in Wsis : AnswerTo(v)' = "none" /\ (v # w => AnswerTo(v) = "none")
    BY <2>1 DEF AnswerTo, NoReply
  <2>5. There' = There /\ Asked' = Asked BY <1>1, <1>2 DEF There, Asked
  <2> HIDE DEF w
  <2>6. Answer' = [Answer EXCEPT ![w] = "none"] BY <2>2, <2>4 DEF Answer
  <2>7. Contract!Finish(w)
    BY <1>1, <2>3, <2>5, <2>6 DEF Contract!Finish, Contract!Say
  <2>8. QED BY <2>2, <2>7 DEF Contract!Next
<1>6. QED BY <1>4, <1>5 DEF Threads

LEMMA ContractStep == Inv /\ [Next]_vars => [Contract!Next]_Contract!vars
<1> SUFFICES ASSUME Inv, [Next]_vars PROVE [Contract!Next]_Contract!vars OBVIOUS
<1>1. ASSUME NEW w \in Wsis, Lws(w) PROVE [Contract!Next]_Contract!vars
  <2>1. CASE Accept(w) \/ RequestArrives(w)
    BY <2>1, ContractRenew DEF Contract!Next
  <2>2. CASE Close(w) BY <2>2, ContractLeave DEF Close, Contract!Next
  <2>3. QED BY <1>1, <2>1, <2>2 DEF Lws
<1>2. ASSUME NEW w \in Wsis, Callback(w) PROVE [Contract!Next]_Contract!vars
  BY <1>2, ContractCallback
<1>3. CASE CallbackReturns \/ UNCHANGED vars
  <2>1. UNCHANGED <<conn, epoch, requests, reply>>
    BY <1>3 DEF CallbackReturns, vars, connections
  <2>2. \A v \in Wsis : AnswerTo(v)' = AnswerTo(v) BY <2>1 DEF AnswerTo
  <2>3. QED BY <2>1, <2>2, ContractStutter
<1>4. ASSUME NEW th \in Threads, NEW r \in requests, SendResponse(th, r)
      PROVE  [Contract!Next]_Contract!vars
  <2>1. /\ UNCHANGED <<conn, epoch, requests>> /\ reply[th] = NoReply
        /\ \E u : reply' = [reply EXCEPT ![th] =
                             [step |-> "header", use |-> u, request |-> r]]
    BY <1>4 DEF SendResponse, connections
  <2>2. \A v \in Wsis : AnswerTo(v)' = AnswerTo(v)
    BY <2>1 DEF AnswerTo, Inv, TypeInv, TypeOK, NoReply, Threads
  <2>3. QED BY <2>1, <2>2, ContractStutter
<1>5. ASSUME NEW th \in Threads, Reply(th) PROVE [Contract!Next]_Contract!vars
  BY <1>4, <1>5, ContractWrite, ContractFinish DEF Reply
<1>6. QED BY <1>1, <1>2, <1>3, <1>5 DEF Next

(* Whatever other replies Blueprint sends and from whichever thread, an    *)
(* answer in a callback of its request goes, undisturbed, to the client    *)
(* that asked.                                                             *)
THEOREM OwnRepliesKeepContract == Spec => KeepsReplyContract
  BY InvHolds, ContractInit, ContractStep, PTL
  DEF Spec, KeepsReplyContract, Contract!Spec
=============================================================================
