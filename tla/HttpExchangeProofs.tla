------------------------- MODULE HttpExchangeProofs -------------------------
(* Theorems about HttpExchange.                                            *)
EXTENDS HttpExchange, TLAPS

(* A connection that is not closed has had its epoch; lws is inside a      *)
(* callback only for a connection that is there.                           *)
OpenHasEpoch == \A w \in Wsis : conn[w] # "closed" => epoch[w] > 0
CallbackHasConnection == cb # NoCallback => conn[cb.wsi] # "closed"

TypeInv == TypeOK /\ OpenHasEpoch /\ CallbackHasConnection

LEMMA ReplyFacts ==
  ASSUME TypeOK, NEW th \in Threads, reply[th].step # "none"
  PROVE  /\ reply[th].request \in Request
         /\ reply[th].request.wsi \in Wsis
         /\ reply[th].request.epoch \in 1..MaxEpoch
         /\ reply[th].use \in Kinds
         /\ reply[th].step \in {"header", "body", "dummy"}
         /\ th = "game" <=> reply[th].use = "game"
<1>1. reply[th] \in [step : {"header", "body", "dummy"}, use : Kinds, request : Request]
  BY DEF TypeOK, Replies, NoReply
<1>2. th = "game" <=> reply[th].use = "game"
  BY DEF TypeOK, Replies, NoReply, Threads
<1>3. QED BY <1>1, <1>2 DEF Request

LEMMA EpochOfOpen ==
  ASSUME TypeInv, NEW w \in Wsis, conn[w] # "closed"
  PROVE  epoch[w] \in 1..MaxEpoch
<1>1. epoch[w] \in 0..MaxEpoch BY DEF TypeInv, TypeOK
<1>2. epoch[w] > 0 BY DEF TypeInv, OpenHasEpoch
<1>3. QED BY <1>1, <1>2, ConstantsAssumption

LEMMA CallbackWsi ==
  ASSUME TypeInv, cb # NoCallback
  PROVE  /\ cb.wsi \in Wsis /\ conn[cb.wsi] # "closed"
         /\ epoch[cb.wsi] \in 1..MaxEpoch
<1>1. cb.wsi \in Wsis BY DEF TypeInv, TypeOK
<1>2. conn[cb.wsi] # "closed" BY DEF TypeInv, CallbackHasConnection
<1>3. QED BY <1>1, <1>2, EpochOfOpen

LEMMA WireAppend ==
  ASSUME NEW w \in Wsis, NEW p \in Piece, wire \in [Wsis -> Seq(Piece)],
         wire' = [wire EXCEPT ![w] = Append(@, p)]
  PROVE  wire' \in [Wsis -> Seq(Piece)]
  OBVIOUS

(* What an lws call of SendResponse writes, and where.                     *)
PieceOf(th, part) ==
  [epoch |-> reply[th].request.epoch, by |-> reply[th].use, part |-> part]

LEMMA PieceFacts ==
  ASSUME TypeOK, NEW th \in Threads, reply[th].step # "none",
         NEW part \in {"header", "body", "notfound"}
  PROVE  /\ PieceOf(th, part) \in Piece
         /\ PieceOf(th, part).part = part /\ PieceOf(th, part).by = reply[th].use
         /\ PieceOf(th, part).epoch = reply[th].request.epoch
         /\ [PieceOf(th, part) EXCEPT !.part = "header"] = PieceOf(th, "header")
  BY ReplyFacts DEF PieceOf, Piece

LEMMA CallFacts ==
  ASSUME NEW th, NEW part, LwsCall(th, part)
  PROVE  LET w == reply[th].request.wsi IN
         \/ /\ conn[w] = "closed" /\ wire' = wire
            /\ stray' = stray \cup {reply[th].use}
         \/ /\ conn[w] # "closed" /\ stray' = stray
            /\ wire' = [wire EXCEPT ![w] = Append(@, PieceOf(th, part))]
  BY DEF LwsCall, PieceOf

LEMMA CallTypes ==
  ASSUME TypeInv, NEW th \in Threads, reply[th].step # "none",
         NEW part \in {"header", "body", "notfound"}, LwsCall(th, part)
  PROVE  wire' \in [Wsis -> Seq(Piece)] /\ stray' \subseteq Kinds
<1> DEFINE w == reply[th].request.wsi  p == PieceOf(th, part)
<1>1. w \in Wsis /\ reply[th].use \in Kinds BY ReplyFacts DEF TypeInv
<1>2. p \in Piece BY PieceFacts DEF TypeInv
<1>3. wire \in [Wsis -> Seq(Piece)] /\ stray \subseteq Kinds
  BY DEF TypeInv, TypeOK
<1>4. CASE wire' = wire /\ stray' = stray \cup {reply[th].use}
  BY <1>1, <1>3, <1>4
<1>5. CASE stray' = stray /\ wire' = [wire EXCEPT ![w] = Append(@, p)]
  <2> HIDE DEF w, p
  <2>1. QED BY <1>1, <1>2, <1>3, <1>5, WireAppend
<1>6. QED BY <1>4, <1>5, CallFacts

LEMMA TypeInit == Init => TypeInv
<1> SUFFICES ASSUME Init PROVE TypeInv OBVIOUS
<1>1. wire \in [Wsis -> Seq(Piece)] BY DEF Init
<1>2. conn \in [Wsis -> ConnStates] BY DEF Init, ConnStates
<1>3. /\ reply \in [Threads -> Replies(Kinds)]
      /\ reply["service"] = NoReply /\ reply["game"] = NoReply
  BY DEF Init, Threads, Replies
<1>4. stray \subseteq Kinds BY DEF Init
<1>5. /\ epoch \in [Wsis -> 0..MaxEpoch] /\ bodies \in [Wsis -> 0..MaxBody]
      /\ mustClose \in [Wsis -> BOOLEAN] /\ cb = NoCallback
      /\ requests \subseteq Request /\ OpenHasEpoch
  BY ConstantsAssumption DEF Init, OpenHasEpoch
<1>6. QED BY <1>1, <1>2, <1>3, <1>4, <1>5
          DEF TypeInv, TypeOK, CallbackHasConnection, Replies

LEMMA TypeLws ==
  ASSUME TypeInv, NEW w \in Wsis, Lws(w) PROVE TypeInv'
<1> USE ConstantsAssumption
    DEF TypeInv, TypeOK, OpenHasEpoch, CallbackHasConnection, NoCallback
<1>1. CASE Accept(w) BY <1>1 DEF Accept, NewEpoch, ConnStates
<1>2. CASE RequestArrives(w) BY <1>2 DEF RequestArrives, NewEpoch, ConnStates
<1>3. CASE Close(w) BY <1>3 DEF Close, Drop, ConnStates
<1>4. QED BY <1>1, <1>2, <1>3 DEF Lws

LEMMA TypeCallback ==
  ASSUME TypeInv, NEW w \in Wsis, Callback(w) PROVE TypeInv'
<1> USE ConstantsAssumption
    DEF TypeInv, TypeOK, OpenHasEpoch, CallbackHasConnection, NoCallback
<1>1. CASE FilterCallback(w) BY <1>1 DEF FilterCallback, Enter, ConnStates
<1>2. CASE HttpCallback(w)
  <2>1. epoch[w] \in 1..MaxEpoch BY <1>2, EpochOfOpen DEF HttpCallback
  <2>2. [wsi |-> w, epoch |-> epoch[w]] \in Request BY <2>1 DEF Request
  <2>3. requests' \subseteq Request BY <1>2, <2>2 DEF HttpCallback
  <2>4. QED BY <1>2, <2>3 DEF HttpCallback, Enter, ConnStates
<1>3. CASE HttpDummy(w)
  <2>1. epoch[w] \in 1..MaxEpoch BY <1>3, EpochOfOpen DEF HttpDummy
  <2>2. [epoch |-> epoch[w], by |-> "lws", part |-> "notfound"] \in Piece
    BY <2>1 DEF Piece
  <2>3. wire' \in [Wsis -> Seq(Piece)] BY <1>3, <2>2, WireAppend DEF HttpDummy
  <2>4. CASE /\ conn' = [conn EXCEPT ![w] = "open"]
              /\ UNCHANGED <<epoch, bodies, mustClose>>
    BY <1>3, <2>3, <2>4 DEF HttpDummy, ConnStates
  <2>5. CASE Drop(w)
    BY <1>3, <2>3, <2>5 DEF HttpDummy, Drop, ConnStates
  <2>6. QED BY <1>3, <2>4, <2>5 DEF HttpDummy
<1>4. CASE BodyCallback(w) BY <1>4 DEF BodyCallback, Enter
<1>5. QED BY <1>1, <1>2, <1>3, <1>4 DEF Callback

(* The reply of a thread is replaced by one of the same kind.              *)
LEMMA ReplyReplaced ==
  ASSUME TypeOK, NEW th \in Threads, NEW n, reply' = [reply EXCEPT ![th] = n],
         th = "service" => n \in Replies({"own", "later"}) /\ cb # NoCallback,
         th = "game" => n \in Replies({"game"})
  PROVE  /\ reply' \in [Threads -> Replies(Kinds)]
         /\ reply'["service"] \in Replies({"own", "later"})
         /\ reply'["game"] \in Replies({"game"})
         /\ cb = NoCallback => reply'["service"] = NoReply
<1>1. n \in Replies(Kinds) BY DEF Replies, Kinds, Threads
<1>2. QED BY <1>1 DEF TypeOK, Threads

LEMMA TypeReply ==
  ASSUME TypeInv, NEW th \in Threads, Reply(th) PROVE TypeInv'
<1> USE ConstantsAssumption
<1> DEFINE Rest == /\ UNCHANGED <<epoch, bodies, cb, requests>>
                   /\ conn' \in [Wsis -> ConnStates]
                   /\ mustClose' \in [Wsis -> BOOLEAN]
                   /\ \A w \in Wsis : conn'[w] # "closed" <=> conn[w] # "closed"
           Replying == /\ reply' \in [Threads -> Replies(Kinds)]
                       /\ reply'["service"] \in Replies({"own", "later"})
                       /\ reply'["game"] \in Replies({"game"})
                       /\ cb = NoCallback => reply'["service"] = NoReply
<1>0. ASSUME Rest, Replying, wire' \in [Wsis -> Seq(Piece)], stray' \subseteq Kinds
      PROVE  TypeInv'
  BY <1>0 DEF TypeInv, TypeOK, OpenHasEpoch, CallbackHasConnection, NoCallback
<1>1. ASSUME NEW r \in requests, SendResponse(th, r) PROVE TypeInv'
  <2>1. Rest BY <1>1 DEF SendResponse, connections, TypeInv, TypeOK
  <2>2. /\ th = "game" => UseOf(th, r) = "game"
        /\ th = "service" => UseOf(th, r) \in {"own", "later"}
    BY DEF UseOf
  <2>3. r \in Request BY DEF TypeInv, TypeOK
  <2>4. Replying
    <3> DEFINE n == [step |-> "header", use |-> UseOf(th, r), request |-> r]
    <3>1. /\ th = "service" => n \in Replies({"own", "later"}) /\ cb # NoCallback
          /\ th = "game" => n \in Replies({"game"})
      BY <1>1, <2>2, <2>3 DEF SendResponse, Replies
    <3>2. reply' = [reply EXCEPT ![th] = n] BY <1>1 DEF SendResponse
    <3> HIDE DEF n
    <3>3. QED BY <3>1, <3>2, ReplyReplaced DEF TypeInv
  <2>5. wire' = wire /\ stray' = stray BY <1>1 DEF SendResponse
  <2>6. QED BY <1>0, <2>1, <2>4, <2>5 DEF TypeInv, TypeOK
<1>2. ASSUME NEW part \in {"header", "body"}, NEW next \in {"body", "dummy"},
             WritePart(th, part, next)
      PROVE  TypeInv'
  <2>1. reply[th].step # "none" BY <1>2 DEF WritePart
  <2>2. Rest BY <1>2 DEF WritePart, connections, TypeInv, TypeOK
  <2>3. cb = NoCallback => th # "service"
    BY <2>1 DEF TypeInv, TypeOK, NoReply
  <2>4. Replying
    <3> DEFINE n == [reply[th] EXCEPT !.step = next]
    <3>1. reply' = [reply EXCEPT ![th] = n] BY <1>2 DEF WritePart
    <3>2. th = "service" => reply[th] \in [step : {"header", "body", "dummy"},
                                           use : {"own", "later"}, request : Request]
      BY <2>1 DEF TypeInv, TypeOK, Replies, NoReply
    <3>3. th = "game" => reply[th] \in [step : {"header", "body", "dummy"},
                                        use : {"game"}, request : Request]
      BY <2>1 DEF TypeInv, TypeOK, Replies, NoReply
    <3>4. th = "service" => n \in Replies({"own", "later"}) /\ cb # NoCallback
      BY <1>2, <2>3, <3>2 DEF Replies
    <3>5. th = "game" => n \in Replies({"game"})
      BY <1>2, <3>3 DEF Replies
    <3> HIDE DEF n
    <3>6. QED BY <3>1, <3>4, <3>5, ReplyReplaced DEF TypeInv
  <2>5. wire' \in [Wsis -> Seq(Piece)] /\ stray' \subseteq Kinds
    BY <1>2, <2>1, CallTypes DEF WritePart
  <2>6. QED BY <1>0, <2>2, <2>4, <2>5
<1>3. CASE FinishReply(th)
  <2>1. reply[th].step # "none" BY <1>3 DEF FinishReply
  <2>2. Rest
    <3> DEFINE w == reply[th].request.wsi
    <3>1. w \in Wsis BY <2>1, ReplyFacts DEF TypeInv
    <3>2. \/ UNCHANGED <<conn, mustClose>>
          \/ /\ conn[w] # "closed" /\ conn' = [conn EXCEPT ![w] = "open"]
             /\ UNCHANGED mustClose
          \/ mustClose' = [mustClose EXCEPT ![w] = TRUE] /\ UNCHANGED conn
      BY <1>3 DEF FinishReply
    <3>3. UNCHANGED <<epoch, bodies, cb, requests>> BY <1>3 DEF FinishReply
    <3> HIDE DEF w
    <3>4. QED BY <3>1, <3>2, <3>3 DEF TypeInv, TypeOK, ConnStates
  <2>3. Replying
    BY <1>3, <2>1 DEF FinishReply, TypeInv, TypeOK, Threads, Replies
  <2>4. wire' \in [Wsis -> Seq(Piece)] /\ stray' \subseteq Kinds
    BY <1>3, <2>1, CallTypes DEF FinishReply
  <2>5. QED BY <1>0, <2>2, <2>3, <2>4
<1>4. QED BY <1>1, <1>2, <1>3 DEF Reply, WriteHeader, WriteBody

LEMMA TypeStep == TypeInv /\ [Next]_vars => TypeInv'
<1> SUFFICES ASSUME TypeInv, [Next]_vars PROVE TypeInv' OBVIOUS
<1>1. ASSUME NEW w \in Wsis, Lws(w) PROVE TypeInv' BY <1>1, TypeLws
<1>2. ASSUME NEW w \in Wsis, Callback(w) PROVE TypeInv' BY <1>2, TypeCallback
<1>3. CASE CallbackReturns
  BY <1>3 DEF CallbackReturns, connections, TypeInv, TypeOK, OpenHasEpoch,
              CallbackHasConnection, NoCallback
<1>4. ASSUME NEW th \in Threads, Reply(th) PROVE TypeInv' BY <1>4, TypeReply
<1>5. CASE UNCHANGED vars
  BY <1>5 DEF vars, connections, TypeInv, TypeOK, OpenHasEpoch,
              CallbackHasConnection
<1>6. QED BY <1>1, <1>2, <1>3, <1>4, <1>5 DEF Next

(* The exchange's state is well typed; in particular the service thread is *)
(* inside SendResponse only while it is inside a callback.                 *)
THEOREM ExchangeTypeCorrect == Spec => []TypeOK
<1>1. TypeInv => TypeOK BY DEF TypeInv
<1>2. QED BY TypeInit, TypeStep, <1>1, PTL DEF Spec
-----------------------------------------------------------------------------
(* The inductive invariant: an own reply under way is a reply to the       *)
(* request whose callback the service thread is in.                        *)
OwnAnswers ==
  reply["service"].use = "own" =>
    reply["service"].request = [wsi |-> cb.wsi, epoch |-> epoch[cb.wsi]]

OwnInv == OwnAnswers /\ ReplyGoesToItsClient /\ OwnReplyFindsItsConnection

LEMMA OwnInit == Init => OwnInv
  BY DEF Init, OwnInv, OwnAnswers, NoReply, Threads, ReplyGoesToItsClient,
         OwnReplyFindsItsConnection

LEMMA IdleService ==
  ASSUME TypeOK, cb = NoCallback
  PROVE  reply["service"].step = "none" /\ reply["service"].use = "none"
  BY DEF TypeOK, NoReply

(* Appending a piece keeps a wire its client's if an own piece is of the   *)
(* connection's epoch.                                                     *)
LEMMA OwnPiece ==
  ASSUME NEW w \in Wsis, NEW p \in Piece, wire \in [Wsis -> Seq(Piece)],
         wire' = [wire EXCEPT ![w] = Append(@, p)],
         p.by = "own" => p.epoch = epoch[w],
         epoch' = epoch, ReplyGoesToItsClient
  PROVE  ReplyGoesToItsClient'
<1> SUFFICES ASSUME NEW v \in Wsis, NEW k \in DOMAIN wire'[v],
                    wire'[v][k].by = "own"
             PROVE  wire'[v][k].epoch = epoch[v]
  BY DEF ReplyGoesToItsClient
<1>1. CASE v # w BY <1>1 DEF ReplyGoesToItsClient
<1>2. CASE v = w
  <2>1. wire'[v] = Append(wire[w], p) BY <1>2
  <2>2. wire[w] \in Seq(Piece) OBVIOUS
  <2>3. CASE k = Len(wire[w]) + 1 BY <1>2, <2>1, <2>2, <2>3
  <2>4. CASE k # Len(wire[w]) + 1
    <3>1. k \in DOMAIN wire[w] /\ wire'[v][k] = wire[w][k] BY <2>1, <2>2, <2>4
    <3>2. QED BY <1>2, <3>1 DEF ReplyGoesToItsClient
  <2>5. QED BY <2>3, <2>4
<1>3. QED BY <1>1, <1>2

LEMMA OwnLws ==
  ASSUME TypeOK, OwnInv, NEW w \in Wsis, Lws(w) PROVE OwnInv'
<1>1. cb = NoCallback /\ cb' = cb /\ reply' = reply /\ stray' = stray
  BY DEF Lws, Accept, RequestArrives, Close
<1>2. OwnAnswers' BY <1>1, IdleService DEF OwnAnswers
<1>3. ReplyGoesToItsClient'
  <2>1. CASE NewEpoch(w)
    BY <2>1 DEF OwnInv, ReplyGoesToItsClient, NewEpoch, TypeOK
  <2>2. CASE UNCHANGED <<epoch, wire>>
    BY <2>2 DEF OwnInv, ReplyGoesToItsClient
  <2>3. QED BY <2>1, <2>2 DEF Lws, Accept, RequestArrives, Close, Drop
<1>4. QED BY <1>1, <1>2, <1>3 DEF OwnInv, OwnReplyFindsItsConnection

LEMMA OwnCallback ==
  ASSUME TypeInv, OwnInv, NEW w \in Wsis, Callback(w) PROVE OwnInv'
<1>1. cb = NoCallback /\ reply' = reply /\ stray' = stray /\ epoch' = epoch
  BY DEF Callback, FilterCallback, HttpCallback, HttpDummy, BodyCallback, Enter,
         Drop
<1>2. OwnAnswers' BY <1>1, IdleService DEF OwnAnswers, TypeInv
<1>3. ReplyGoesToItsClient'
  <2>1. CASE wire' = wire BY <1>1, <2>1 DEF OwnInv, ReplyGoesToItsClient
  <2>2. CASE HttpDummy(w)
    <3>1. epoch[w] \in 1..MaxEpoch BY <2>2, EpochOfOpen DEF HttpDummy
    <3> DEFINE p == [epoch |-> epoch[w], by |-> "lws", part |-> "notfound"]
    <3>2. p \in Piece /\ p.by # "own" BY <3>1 DEF Piece
    <3>3. wire' = [wire EXCEPT ![w] = Append(@, p)] BY <2>2 DEF HttpDummy
    <3>4. wire \in [Wsis -> Seq(Piece)] BY DEF TypeInv, TypeOK
    <3> HIDE DEF p
    <3>5. QED BY <1>1, <3>2, <3>3, <3>4, OwnPiece DEF OwnInv
  <2>3. QED BY <2>1, <2>2
        DEF Callback, FilterCallback, HttpCallback, BodyCallback
<1>4. QED BY <1>1, <1>2, <1>3 DEF OwnInv, OwnReplyFindsItsConnection

(* An lws call of an own reply reaches its own client, on an open          *)
(* connection; one of another reply is not marked own.                     *)
LEMMA OwnCall ==
  ASSUME TypeInv, OwnInv, NEW th \in Threads, reply[th].step # "none",
         NEW part \in {"header", "body", "notfound"}, LwsCall(th, part),
         UNCHANGED <<epoch, cb>>
  PROVE  ReplyGoesToItsClient' /\ OwnReplyFindsItsConnection'
<1> DEFINE w == reply[th].request.wsi  p == PieceOf(th, part)
<1>1. w \in Wsis BY ReplyFacts DEF TypeInv
<1>2. reply[th].use = "own" =>
        reply[th].request = [wsi |-> cb.wsi, epoch |-> epoch[cb.wsi]]
        /\ cb # NoCallback
  <2>1. reply[th].use = "own" => th = "service"
    BY ReplyFacts DEF Threads, TypeInv
  <2>2. QED BY <2>1, IdleService DEF OwnInv, OwnAnswers, TypeInv
<1>3. reply[th].use = "own" => conn[w] # "closed" /\ p.epoch = epoch[w]
  BY <1>2, CallbackWsi DEF PieceOf
<1>4. p \in Piece /\ p.by = reply[th].use BY PieceFacts DEF TypeInv
<1>5. wire \in [Wsis -> Seq(Piece)] BY DEF TypeInv, TypeOK
<1>6. \/ /\ conn[w] = "closed" /\ wire' = wire
         /\ stray' = stray \cup {reply[th].use}
      \/ /\ stray' = stray
         /\ wire' = [wire EXCEPT ![w] = Append(@, p)]
  BY CallFacts
<1> HIDE DEF w, p
<1>7. OwnReplyFindsItsConnection'
  BY <1>3, <1>6 DEF OwnInv, OwnReplyFindsItsConnection
<1>8. CASE wire' = wire
  BY <1>7, <1>8 DEF OwnInv, ReplyGoesToItsClient
<1>9. CASE wire' = [wire EXCEPT ![w] = Append(@, p)]
  BY <1>1, <1>3, <1>4, <1>5, <1>7, <1>9, OwnPiece DEF OwnInv
<1>10. QED BY <1>6, <1>8, <1>9

LEMMA OwnReply ==
  ASSUME TypeInv, OwnInv, NEW th \in Threads, Reply(th)
  PROVE  OwnInv'
<1>1. UNCHANGED <<epoch, cb>> /\ th \in {"service", "game"}
  BY DEF Reply, SendResponse, WriteHeader, WriteBody, WritePart, FinishReply,
         connections, Threads
<1>2. ASSUME NEW r \in requests, SendResponse(th, r) PROVE OwnInv'
  <2>1. UNCHANGED <<wire, stray>> BY <1>2 DEF SendResponse
  <2>2. OwnAnswers'
    BY <1>1, <1>2 DEF SendResponse, UseOf, OwnInv, OwnAnswers, TypeInv, TypeOK,
                      Threads
  <2>3. QED BY <1>1, <2>1, <2>2
        DEF OwnInv, ReplyGoesToItsClient, OwnReplyFindsItsConnection
<1>3. ASSUME NEW part \in {"header", "body"}, NEW next \in {"body", "dummy"},
             WritePart(th, part, next)
      PROVE  OwnInv'
  <2>1. reply[th].step # "none" /\ LwsCall(th, part) BY <1>3 DEF WritePart
  <2>2. /\ reply'["service"].use = reply["service"].use
        /\ reply'["service"].request = reply["service"].request
    <3>1. reply \in [Threads -> Replies(Kinds)] BY DEF TypeInv, TypeOK
    <3>2. reply[th] \in [step : {"header", "body", "dummy"}, use : Kinds, request : Request]
      BY <2>1, <3>1 DEF Replies, NoReply
    <3>3. QED BY <1>1, <1>3, <3>1, <3>2 DEF WritePart, Threads
  <2>3. OwnAnswers' BY <1>1, <2>2 DEF OwnInv, OwnAnswers
  <2>4. QED BY <1>1, <2>1, <2>3, OwnCall DEF OwnInv
<1>4. CASE FinishReply(th)
  <2>1. reply[th].step # "none" /\ LwsCall(th, "notfound")
    BY <1>4 DEF FinishReply
  <2>2. reply'["service"] \in {NoReply, reply["service"]}
    BY <1>1, <1>4 DEF FinishReply, TypeInv, TypeOK, Threads
  <2>3. OwnAnswers' BY <1>1, <2>2 DEF OwnInv, OwnAnswers, NoReply
  <2>4. QED BY <1>1, <2>1, <2>3, OwnCall DEF OwnInv
<1>5. QED BY <1>2, <1>3, <1>4 DEF Reply, WriteHeader, WriteBody

LEMMA OwnStep == TypeInv /\ OwnInv /\ [Next]_vars => OwnInv'
<1> SUFFICES ASSUME TypeInv, OwnInv, [Next]_vars PROVE OwnInv' OBVIOUS
<1>1. ASSUME NEW w \in Wsis, Lws(w) PROVE OwnInv' BY <1>1, OwnLws DEF TypeInv
<1>2. ASSUME NEW w \in Wsis, Callback(w) PROVE OwnInv' BY <1>2, OwnCallback
<1>3. CASE CallbackReturns
  <2>1. reply["service"].use = "none" BY <1>3 DEF CallbackReturns, NoReply
  <2>2. QED BY <1>3, <2>1 DEF CallbackReturns, connections, OwnInv, OwnAnswers,
              ReplyGoesToItsClient, OwnReplyFindsItsConnection
<1>4. ASSUME NEW th \in Threads, Reply(th) PROVE OwnInv' BY <1>4, OwnReply
<1>5. CASE UNCHANGED vars
  BY <1>5 DEF vars, connections, OwnInv, OwnAnswers, ReplyGoesToItsClient,
              OwnReplyFindsItsConnection
<1>6. QED BY <1>1, <1>2, <1>3, <1>4, <1>5 DEF Next

LEMMA OwnInvariance == Spec => [](TypeInv /\ OwnInv)
  BY TypeInit, TypeStep, OwnInit, OwnStep, PTL DEF Spec

(* An answer given in a callback of its request goes out to the client     *)
(* that put it, whatever Blueprint does with other requests.               *)
THEOREM OwnRepliesReachTheirClient == Spec => []ReplyGoesToItsClient
<1>1. OwnInv => ReplyGoesToItsClient BY DEF OwnInv
<1>2. QED BY OwnInvariance, <1>1, PTL

(* And SendResponse never touches a closed connection with it.             *)
THEOREM OwnRepliesFindTheirConnection == Spec => []OwnReplyFindsItsConnection
<1>1. OwnInv => OwnReplyFindsItsConnection BY DEF OwnInv
<1>2. QED BY OwnInvariance, <1>1, PTL
-----------------------------------------------------------------------------
(* The header block of the service thread's reply, and after it on the     *)
(* wire only what the game thread writes.                                  *)
HeaderFound(s, h) ==
  \E j \in DOMAIN s : s[j] = h /\ \A i \in (j + 1)..Len(s) : s[i].by = "game"

(* The inductive invariant: between the two writes of a reply its header   *)
(* block is found, unless the connection was closed all along.             *)
HeaderIsLast ==
  reply["service"].step = "body" /\ conn[reply["service"].request.wsi] # "closed" =>
    HeaderFound(wire[reply["service"].request.wsi], PieceOf("service", "header"))

OrderInv == HeaderIsLast /\ ReplyIsContiguous

LEMMA OrderInit == Init => OrderInv
  BY DEF Init, OrderInv, HeaderIsLast, ReplyIsContiguous, Contiguous, NoReply,
         Threads

LEMMA ContiguousAppend ==
  ASSUME NEW s \in Seq(Piece), NEW p \in Piece, Contiguous(s),
         p.part = "body" /\ p.by # "game" =>
           HeaderFound(s, [p EXCEPT !.part = "header"])
  PROVE  Contiguous(Append(s, p))
<1> DEFINE t == Append(s, p)
<1> SUFFICES ASSUME NEW k \in DOMAIN t, t[k].part = "body", t[k].by # "game"
             PROVE  Unbroken(t, k)
  BY DEF Contiguous
<1>1. CASE k = Len(s) + 1
  <2>1. t[k] = p BY <1>1
  <2>2. PICK j \in DOMAIN s : /\ s[j] = [p EXCEPT !.part = "header"]
                              /\ \A i \in (j + 1)..Len(s) : s[i].by = "game"
    BY <2>1 DEF HeaderFound
  <2>3. j \in 1..(k - 1) /\ t[j] = s[j] BY <1>1, <2>2
  <2>4. \A i \in (j + 1)..(k - 1) : i \in DOMAIN s /\ t[i] = s[i] BY <1>1, <2>3
  <2>5. \A i \in (j + 1)..(k - 1) : t[i].by = "game" BY <1>1, <2>2, <2>4
  <2>6. QED BY <2>1, <2>2, <2>3, <2>5 DEF Unbroken
<1>2. CASE k # Len(s) + 1
  <2>1. k \in DOMAIN s /\ t[k] = s[k] BY <1>2
  <2>2. Unbroken(s, k) BY <2>1 DEF Contiguous
  <2>3. \A i \in 1..(k - 1) : t[i] = s[i] BY <2>1
  <2>4. QED BY <2>1, <2>2, <2>3 DEF Unbroken
<1>3. QED BY <1>1, <1>2

LEMMA FoundAppend ==
  ASSUME NEW s \in Seq(Piece), NEW p \in Piece, NEW h
  PROVE  /\ HeaderFound(s, h) /\ p.by = "game" => HeaderFound(Append(s, p), h)
         /\ HeaderFound(Append(s, p), p)
<1> DEFINE t == Append(s, p)
<1>1. ASSUME HeaderFound(s, h), p.by = "game" PROVE HeaderFound(t, h)
  <2>1. PICK j \in DOMAIN s : s[j] = h /\ \A i \in (j + 1)..Len(s) : s[i].by = "game"
    BY <1>1 DEF HeaderFound
  <2>2. j \in DOMAIN t /\ t[j] = h BY <2>1
  <2>3. ASSUME NEW i \in (j + 1)..Len(t) PROVE t[i].by = "game"
    <3>1. CASE i = Len(s) + 1 BY <1>1, <3>1
    <3>2. CASE i # Len(s) + 1
      <4>1. i \in (j + 1)..Len(s) /\ t[i] = s[i] BY <2>1, <2>3, <3>2
      <4>2. QED BY <2>1, <4>1
    <3>3. QED BY <3>1, <3>2
  <2>4. QED BY <2>2, <2>3 DEF HeaderFound
<1>2. HeaderFound(t, p)
  <2>1. Len(t) \in DOMAIN t /\ t[Len(t)] = p OBVIOUS
  <2>2. \A i \in (Len(t) + 1)..Len(t) : t[i].by = "game" OBVIOUS
  <2>3. QED BY <2>1, <2>2 DEF HeaderFound
<1>3. QED BY <1>1, <1>2

LEMMA ContiguousPiece ==
  ASSUME NEW w \in Wsis, NEW p \in Piece, wire \in [Wsis -> Seq(Piece)],
         wire' = [wire EXCEPT ![w] = Append(@, p)], ReplyIsContiguous,
         p.part = "body" /\ p.by # "game" =>
           HeaderFound(wire[w], [p EXCEPT !.part = "header"])
  PROVE  ReplyIsContiguous'
<1>1. wire[w] \in Seq(Piece) /\ Contiguous(wire[w]) BY DEF ReplyIsContiguous
<1>2. Contiguous(Append(wire[w], p)) BY <1>1, ContiguousAppend
<1>3. ASSUME NEW v \in Wsis PROVE Contiguous(wire'[v])
  BY <1>2 DEF ReplyIsContiguous
<1>4. QED BY <1>3 DEF ReplyIsContiguous, Contiguous, Unbroken

LEMMA SameWire == ReplyIsContiguous /\ wire' = wire => ReplyIsContiguous'
  BY DEF ReplyIsContiguous, Contiguous, Unbroken

LEMMA OrderLws ==
  ASSUME TypeOK, OrderInv, NEW w \in Wsis, Lws(w) PROVE OrderInv'
<1>1. cb = NoCallback /\ reply' = reply
  BY DEF Lws, Accept, RequestArrives, Close
<1>2. HeaderIsLast' BY <1>1, IdleService DEF HeaderIsLast
<1>3. ReplyIsContiguous'
  <2>1. CASE NewEpoch(w)
    <3>1. wire' = [wire EXCEPT ![w] = << >>] /\ wire \in [Wsis -> Seq(Piece)]
      BY <2>1 DEF NewEpoch, TypeOK
    <3>2. Contiguous(<< >>) BY DEF Contiguous
    <3>3. ASSUME NEW v \in Wsis PROVE Contiguous(wire'[v])
      BY <3>1, <3>2 DEF OrderInv, ReplyIsContiguous
    <3>4. QED BY <3>3 DEF ReplyIsContiguous, Contiguous, Unbroken
  <2>2. CASE wire' = wire BY <2>2, SameWire DEF OrderInv
  <2>3. QED BY <2>1, <2>2 DEF Lws, Accept, RequestArrives, Close
<1>4. QED BY <1>2, <1>3 DEF OrderInv

LEMMA OrderCallback ==
  ASSUME TypeInv, OrderInv, NEW w \in Wsis, Callback(w) PROVE OrderInv'
<1>1. cb = NoCallback /\ reply' = reply
  BY DEF Callback, FilterCallback, HttpCallback, HttpDummy, BodyCallback, Enter
<1>2. HeaderIsLast' BY <1>1, IdleService DEF HeaderIsLast, TypeInv
<1>3. ReplyIsContiguous'
  <2>1. CASE wire' = wire BY <2>1, SameWire DEF OrderInv
  <2>2. CASE HttpDummy(w)
    <3>1. epoch[w] \in 1..MaxEpoch BY <2>2, EpochOfOpen DEF HttpDummy
    <3> DEFINE p == [epoch |-> epoch[w], by |-> "lws", part |-> "notfound"]
    <3>2. p \in Piece /\ p.part # "body" BY <3>1 DEF Piece
    <3>3. wire' = [wire EXCEPT ![w] = Append(@, p)] BY <2>2 DEF HttpDummy
    <3>4. wire \in [Wsis -> Seq(Piece)] BY DEF TypeInv, TypeOK
    <3> HIDE DEF p
    <3>5. QED BY <3>2, <3>3, <3>4, ContiguousPiece DEF OrderInv
  <2>3. QED BY <2>1, <2>2
        DEF Callback, FilterCallback, HttpCallback, BodyCallback
<1>4. QED BY <1>2, <1>3 DEF OrderInv

(* An lws call of SendResponse keeps the wires contiguous.                 *)
LEMMA OrderCall ==
  ASSUME TypeInv, OrderInv, NEW th \in Threads, reply[th].step # "none",
         NEW part \in {"header", "body", "notfound"}, LwsCall(th, part),
         part = "body" => reply[th].step = "body"
  PROVE  ReplyIsContiguous'
<1> DEFINE w == reply[th].request.wsi  p == PieceOf(th, part)
<1>1. w \in Wsis /\ p \in Piece BY ReplyFacts, PieceFacts DEF TypeInv
<1>2. ASSUME part = "body", p.by # "game", conn[w] # "closed"
      PROVE  HeaderFound(wire[w], [p EXCEPT !.part = "header"])
  <2>1. th = "service" BY <1>2, PieceFacts, ReplyFacts DEF Threads, TypeInv
  <2>2. [p EXCEPT !.part = "header"] = PieceOf("service", "header")
    BY <2>1, PieceFacts DEF TypeInv
  <2>3. QED BY <1>2, <2>1, <2>2 DEF OrderInv, HeaderIsLast
<1>3. wire \in [Wsis -> Seq(Piece)] BY DEF TypeInv, TypeOK
<1>4. p.part = part BY PieceFacts DEF TypeInv
<1>5. \/ wire' = wire
      \/ conn[w] # "closed" /\ wire' = [wire EXCEPT ![w] = Append(@, p)]
  BY CallFacts
<1> HIDE DEF w, p
<1>6. QED BY <1>1, <1>2, <1>3, <1>4, <1>5, SameWire, ContiguousPiece DEF OrderInv

(* What the game thread does leaves the header of the service thread's     *)
(* reply where it was.                                                     *)
LEMMA GameCall ==
  ASSUME TypeInv, OrderInv, reply["game"].step # "none",
         NEW part \in {"header", "body", "notfound"}, LwsCall("game", part),
         reply'["service"] = reply["service"],
         \A w \in Wsis : conn'[w] # "closed" <=> conn[w] # "closed"
  PROVE  HeaderIsLast'
<1> DEFINE w == reply["game"].request.wsi  p == PieceOf("game", part)
           v == reply["service"].request.wsi  h == PieceOf("service", "header")
<1> SUFFICES ASSUME reply["service"].step = "body", conn'[v] # "closed"
             PROVE  HeaderFound(wire'[v], h)
  BY DEF HeaderIsLast, PieceOf
<1>1. v \in Wsis BY ReplyFacts DEF TypeInv, Threads
<1>2. HeaderFound(wire[v], h) BY <1>1 DEF OrderInv, HeaderIsLast
<1>3. w \in Wsis /\ p \in Piece /\ p.by = "game"
  BY ReplyFacts, PieceFacts DEF TypeInv, Threads
<1>4. wire \in [Wsis -> Seq(Piece)] BY DEF TypeInv, TypeOK
<1>5. wire' = wire \/ wire' = [wire EXCEPT ![w] = Append(@, p)] BY CallFacts
<1> HIDE DEF w, p, v, h
<1>6. CASE v = w /\ wire' = [wire EXCEPT ![w] = Append(@, p)]
  <2>1. wire'[v] = Append(wire[v], p) /\ wire[v] \in Seq(Piece)
    BY <1>1, <1>4, <1>6
  <2>2. QED BY <1>2, <1>3, <2>1, FoundAppend
<1>7. CASE wire'[v] = wire[v] BY <1>2, <1>7
<1>8. QED BY <1>1, <1>4, <1>5, <1>6, <1>7

LEMMA OrderReply ==
  ASSUME TypeInv, OrderInv, NEW th \in Threads, Reply(th) PROVE OrderInv'
<1>1. th \in {"service", "game"} BY DEF Threads
<1>2. ASSUME NEW r \in requests, SendResponse(th, r) PROVE OrderInv'
  <2>1. wire' = wire /\ conn' = conn BY <1>2 DEF SendResponse, connections
  <2>2. \/ reply'["service"].step = "header"
        \/ reply'["service"] = reply["service"]
    BY <1>1, <1>2 DEF SendResponse, TypeInv, TypeOK, Threads
  <2>3. HeaderIsLast' BY <2>1, <2>2 DEF OrderInv, HeaderIsLast, PieceOf
  <2>4. QED BY <2>1, <2>3, SameWire DEF OrderInv
<1>3. CASE WritePart(th, "header", "body")
  <2>1. reply[th].step = "header" /\ LwsCall(th, "header") /\ conn' = conn
    BY <1>3 DEF WritePart, connections
  <2>2. ReplyIsContiguous' BY <2>1, OrderCall
  <2>3. HeaderIsLast'
    <3>1. CASE th = "game"
      <4>1. reply'["service"] = reply["service"]
        BY <1>3, <3>1 DEF WritePart, TypeInv, TypeOK, Threads
      <4>2. QED BY <2>1, <3>1, <4>1, GameCall
    <3>2. CASE th = "service"
      <4> DEFINE w == reply[th].request.wsi  p == PieceOf(th, "header")
      <4>1. w \in Wsis /\ p \in Piece
        BY <2>1, ReplyFacts, PieceFacts DEF TypeInv
      <4>2. reply'["service"].request.wsi = w /\ PieceOf("service", "header")' = p
        <5>1. reply' = [reply EXCEPT ![th].step = "body"] BY <1>3 DEF WritePart
        <5>2. reply[th] \in [step : {"header", "body", "dummy"}, use : Kinds,
                             request : Request]
          BY <2>1 DEF TypeInv, TypeOK, Replies, NoReply
        <5>3. /\ reply'[th].request = reply[th].request
              /\ reply'[th].use = reply[th].use
          BY <5>1, <5>2 DEF TypeInv, TypeOK
        <5>4. QED BY <3>2, <5>3 DEF PieceOf
      <4>3. wire \in [Wsis -> Seq(Piece)] BY DEF TypeInv, TypeOK
      <4>4. \/ conn'[w] = "closed"
            \/ wire' = [wire EXCEPT ![w] = Append(@, p)]
        BY <2>1, CallFacts
      <4> HIDE DEF w, p
      <4>5. wire' = [wire EXCEPT ![w] = Append(@, p)] => HeaderFound(wire'[w], p)
        BY <4>1, <4>3, FoundAppend
      <4>6. QED BY <4>2, <4>4, <4>5 DEF HeaderIsLast
    <3>3. QED BY <1>1, <3>1, <3>2
  <2>4. QED BY <2>2, <2>3 DEF OrderInv
<1>4. CASE WritePart(th, "body", "dummy")
  <2>1. reply[th].step = "body" /\ LwsCall(th, "body") /\ conn' = conn
    BY <1>4 DEF WritePart, connections
  <2>2. ReplyIsContiguous' BY <2>1, OrderCall
  <2>3. HeaderIsLast'
    <3>1. CASE th = "game"
      <4>1. reply'["service"] = reply["service"]
        BY <1>4, <3>1 DEF WritePart, TypeInv, TypeOK, Threads
      <4>2. QED BY <2>1, <3>1, <4>1, GameCall
    <3>2. CASE th = "service"
      <4>1. reply[th] \in [step : {"header", "body", "dummy"}, use : Kinds,
                           request : Request]
        BY <2>1 DEF TypeInv, TypeOK, Replies, NoReply
      <4>2. reply'["service"].step = "dummy"
        BY <1>4, <3>2, <4>1 DEF WritePart, TypeInv, TypeOK
      <4>3. QED BY <4>2 DEF HeaderIsLast
    <3>3. QED BY <1>1, <3>1, <3>2
  <2>4. QED BY <2>2, <2>3 DEF OrderInv
<1>5. CASE FinishReply(th)
  <2>1. reply[th].step # "none" /\ LwsCall(th, "notfound")
    BY <1>5 DEF FinishReply
  <2>2. ReplyIsContiguous' BY <2>1, OrderCall
  <2>3. HeaderIsLast'
    <3>1. CASE th = "game"
      <4>1. reply'["service"] = reply["service"]
        BY <1>5, <3>1 DEF FinishReply, TypeInv, TypeOK, Threads
      <4>2. \A w \in Wsis : conn'[w] # "closed" <=> conn[w] # "closed"
        <5> DEFINE w == reply[th].request.wsi
        <5>1. \/ conn' = conn
              \/ conn[w] # "closed" /\ conn' = [conn EXCEPT ![w] = "open"]
          BY <1>5 DEF FinishReply
        <5>2. conn \in [Wsis -> ConnStates] BY DEF TypeInv, TypeOK
        <5> HIDE DEF w
        <5>3. QED BY <5>1, <5>2
      <4>3. QED BY <2>1, <3>1, <4>1, <4>2, GameCall
    <3>2. CASE th = "service"
      <4>1. reply'["service"] = NoReply
        BY <1>5, <3>2 DEF FinishReply, TypeInv, TypeOK
      <4>2. QED BY <4>1 DEF HeaderIsLast, NoReply
    <3>3. QED BY <1>1, <3>1, <3>2
  <2>4. QED BY <2>2, <2>3 DEF OrderInv
<1>6. QED BY <1>2, <1>3, <1>4, <1>5 DEF Reply, WriteHeader, WriteBody

LEMMA OrderStep == TypeInv /\ OrderInv /\ [Next]_vars => OrderInv'
<1> SUFFICES ASSUME TypeInv, OrderInv, [Next]_vars PROVE OrderInv' OBVIOUS
<1>1. ASSUME NEW w \in Wsis, Lws(w) PROVE OrderInv'
  BY <1>1, OrderLws DEF TypeInv
<1>2. ASSUME NEW w \in Wsis, Callback(w) PROVE OrderInv'
  BY <1>2, OrderCallback
<1>3. CASE CallbackReturns
  <2>1. reply["service"].step = "none" /\ reply' = reply /\ wire' = wire
    BY <1>3 DEF CallbackReturns, NoReply
  <2>2. QED BY <2>1, SameWire DEF OrderInv, HeaderIsLast
<1>4. ASSUME NEW th \in Threads, Reply(th) PROVE OrderInv'
  BY <1>4, OrderReply
<1>5. CASE UNCHANGED vars
  <2>1. UNCHANGED <<conn, reply, wire>> BY <1>5 DEF vars, connections
  <2>2. HeaderIsLast'
    BY <2>1 DEF OrderInv, HeaderIsLast, HeaderFound, PieceOf
  <2>3. QED BY <2>1, <2>2, SameWire DEF OrderInv
<1>6. QED BY <1>1, <1>2, <1>3, <1>4, <1>5 DEF Next

(* The body of a reply sent on the service thread follows its own header   *)
(* block, but for what the game thread writes.                             *)
THEOREM ServiceRepliesAreContiguous == Spec => []ReplyIsContiguous
<1>1. OrderInv => ReplyIsContiguous BY DEF OrderInv
<1>2. QED BY TypeInit, TypeStep, OrderInit, OrderStep, <1>1, PTL DEF Spec
=============================================================================
