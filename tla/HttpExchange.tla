---------------------------- MODULE HttpExchange ----------------------------
(***************************************************************************)
(* Requests and replies while the server runs: the connections lws keeps,  *)
(* the callbacks of Callback_HTTP, the ULwsRequest objects it hands to     *)
(* Blueprint, and the SendResponse calls Blueprint makes on them.          *)
(*                                                                         *)
(* lws and the handlers run on the service thread.  Blueprint may keep a   *)
(* request object and answer later, in another callback or on the game     *)
(* thread.  A step is one lws call, or one change lws makes by itself.     *)
(* Connections are pointers (wsi): lws uses an address again.              *)
(***************************************************************************)
EXTENDS Integers, Sequences

CONSTANTS
  Wsis,        \* addresses of connections
  NULL,        \* no connection
  MaxEpoch,    \* bound: connections and requests at one address
  MaxBody,     \* bound: body callbacks of one request
  MaxWire,     \* bound: pieces at which Blueprint starts no more replies
  Uses         \* when Blueprint replies: in a callback of the request, in a
               \* callback of something else, on the game thread

ASSUME ConstantsAssumption ==
  /\ NULL \notin Wsis
  /\ MaxEpoch \in Nat /\ MaxBody \in Nat /\ MaxWire \in Nat
  /\ Uses \subseteq {"own", "later", "game"}

Threads == {"service", "game"}
Kinds   == {"own", "later", "game"}

VARIABLES
  conn,        \* conn[w]: how far lws is with the connection at w
  epoch,       \* epoch[w]: counts the connections and requests at w
  bodies,      \* bodies[w]: body callbacks lws still has to make
  mustClose,   \* mustClose[w]: lws has asked for the connection to be closed
  cb,          \* the callback the service thread is in
  requests,    \* the ULwsRequest objects made so far
  reply,       \* reply[th]: the SendResponse thread th is in
  wire,        \* wire[w]: what was written since w's last epoch began
  stray        \* the kinds of replies that have used a closed connection

connections == <<conn, epoch, bodies, mustClose>>
vars == <<connections, cb, requests, reply, wire, stray>>

(* "open": between requests; "parsed": the headers have come; "filtered":  *)
(* the filter callback let it pass; "asked": LWS_CALLBACK_HTTP was made.   *)
ConnStates == {"closed", "open", "parsed", "filtered", "asked"}
Request    == [wsi : Wsis, epoch : 1..MaxEpoch]
NoCallback == [reason |-> "none", wsi |-> NULL]
NoReply    == [step |-> "none", use |-> "none", request |-> NULL]
Replies(uses) ==
  {NoReply} \cup [step : {"header", "body", "dummy"}, use : uses, request : Request]
Piece      == [epoch : 1..MaxEpoch, by : Kinds \cup {"lws"},
               part : {"header", "body", "notfound"}]

TypeOK ==
  /\ conn \in [Wsis -> ConnStates]
  /\ epoch \in [Wsis -> 0..MaxEpoch]
  /\ bodies \in [Wsis -> 0..MaxBody]
  /\ mustClose \in [Wsis -> BOOLEAN]
  /\ cb \in {NoCallback} \cup [reason : {"filter", "http", "body"}, wsi : Wsis]
  /\ requests \subseteq Request
  /\ reply \in [Threads -> Replies(Kinds)]
  /\ reply["service"] \in Replies({"own", "later"})
  /\ reply["game"] \in Replies({"game"})
  /\ cb = NoCallback => reply["service"] = NoReply
  /\ wire \in [Wsis -> Seq(Piece)]
  /\ stray \subseteq Kinds

Init ==
  /\ conn = [w \in Wsis |-> "closed"]
  /\ epoch = [w \in Wsis |-> 0]
  /\ bodies = [w \in Wsis |-> 0]
  /\ mustClose = [w \in Wsis |-> FALSE]
  /\ cb = NoCallback
  /\ requests = {}
  /\ reply = [th \in Threads |-> NoReply]
  /\ wire = [w \in Wsis |-> << >>]
  /\ stray = {}

-----------------------------------------------------------------------------
(* What lws does by itself, between callbacks.                             *)

NewEpoch(w) ==
  /\ epoch[w] < MaxEpoch
  /\ epoch' = [epoch EXCEPT ![w] = @ + 1]
  /\ wire' = [wire EXCEPT ![w] = << >>]

Accept(w) ==
  /\ cb = NoCallback /\ conn[w] = "closed"
  /\ conn' = [conn EXCEPT ![w] = "open"]
  /\ NewEpoch(w)
  /\ UNCHANGED <<bodies, mustClose, cb, requests, reply, stray>>

RequestArrives(w) ==
  /\ cb = NoCallback /\ conn[w] = "open"
  /\ conn' = [conn EXCEPT ![w] = "parsed"]
  /\ \E n \in 0..MaxBody : bodies' = [bodies EXCEPT ![w] = n]
  /\ NewEpoch(w)
  /\ UNCHANGED <<mustClose, cb, requests, reply, stray>>

Drop(w) ==
  /\ conn' = [conn EXCEPT ![w] = "closed"]
  /\ bodies' = [bodies EXCEPT ![w] = 0]
  /\ mustClose' = [mustClose EXCEPT ![w] = FALSE]
  /\ UNCHANGED epoch

Close(w) ==
  /\ cb = NoCallback /\ conn[w] # "closed"
  /\ Drop(w)
  /\ UNCHANGED <<cb, requests, reply, wire, stray>>

-----------------------------------------------------------------------------
(* Callback_HTTP.  Its handlers are called and return inside the callback; *)
(* whatever they did, it returns 0 and lws goes on with the connection.    *)

Enter(reason, w) == cb = NoCallback /\ cb' = [reason |-> reason, wsi |-> w]

FilterCallback(w) ==
  /\ conn[w] = "parsed"
  /\ conn' = [conn EXCEPT ![w] = "filtered"]
  /\ Enter("filter", w)
  /\ UNCHANGED <<epoch, bodies, mustClose, requests, reply, wire,
                 stray>>

(* The request is for the API: a request object is made and handed over.   *)
HttpCallback(w) ==
  /\ conn[w] = "filtered"
  /\ conn' = [conn EXCEPT ![w] = "asked"]
  /\ Enter("http", w)
  /\ requests' = requests \cup {[wsi |-> w, epoch |-> epoch[w]]}
  /\ UNCHANGED <<epoch, bodies, mustClose, reply, wire, stray>>

(* It is not: lws_callback_http_dummy answers "not found", and its result  *)
(* is returned, so lws closes the connection when it says so.              *)
HttpDummy(w) ==
  /\ cb = NoCallback /\ conn[w] = "filtered"
  /\ wire' = [wire EXCEPT ![w] =
                Append(@, [epoch |-> epoch[w], by |-> "lws", part |-> "notfound"])]
  /\ \/ /\ conn' = [conn EXCEPT ![w] = "open"]
        /\ UNCHANGED <<epoch, bodies, mustClose>>
     \/ Drop(w)
  /\ UNCHANGED <<cb, requests, reply, stray>>

BodyCallback(w) ==
  /\ conn[w] \in {"asked", "open"} /\ bodies[w] > 0
  /\ bodies' = [bodies EXCEPT ![w] = @ - 1]
  /\ Enter("body", w)
  /\ UNCHANGED <<conn, epoch, mustClose, requests, reply, wire,
                 stray>>

CallbackReturns_NoWait ==  \* handlers are queued instead of called
  /\ cb # NoCallback
  /\ cb' = NoCallback
  /\ UNCHANGED <<connections, requests, reply, wire, stray>>

CallbackReturns ==
  /\ cb # NoCallback /\ reply["service"] = NoReply
  /\ cb' = NoCallback
  /\ UNCHANGED <<connections, requests, reply, wire, stray>>

-----------------------------------------------------------------------------
(* SendResponse.                                                           *)

(* The code does not tell replies apart.  Blueprint may answer in any      *)
(* callback of the request ("own"), so also when a body has come, or keep  *)
(* the request object and answer at another time: in a callback of another *)
(* one ("later") or on the game thread.                                    *)
UseOf(th, r) ==
  IF th = "game" THEN "game"
  ELSE IF r = [wsi |-> cb.wsi, epoch |-> epoch[cb.wsi]] THEN "own" ELSE "later"

SendResponse(th, r) ==
  /\ r \in requests /\ reply[th] = NoReply
  /\ th = "service" => cb # NoCallback
  /\ UseOf(th, r) \in Uses
  /\ Len(wire[r.wsi]) < MaxWire
  /\ reply' = [reply EXCEPT ![th] =
                 [step |-> "header", use |-> UseOf(th, r), request |-> r]]
  /\ UNCHANGED <<connections, cb, requests, wire, stray>>

(* An lws call on the wsi stored in the request object.  A closed wsi is   *)
(* freed memory.  lws buffers what the connection cannot take at once.     *)
LwsCall(th, part) ==
  LET r == reply[th].request  w == r.wsi  use == reply[th].use IN
  IF conn[w] = "closed"
  THEN stray' = stray \cup {use} /\ UNCHANGED wire
  ELSE /\ wire' = [wire EXCEPT ![w] =
                     Append(@, [epoch |-> r.epoch, by |-> use, part |-> part])]
       /\ UNCHANGED stray

WritePart(th, part, next) ==
  /\ reply[th].step = part
  /\ reply' = [reply EXCEPT ![th].step = next]
  /\ LwsCall(th, part)
  /\ UNCHANGED <<connections, cb, requests>>

WriteHeader(th) == WritePart(th, "header", "body")
WriteBody(th)   == WritePart(th, "body", "dummy")

(* lws_callback_http_dummy again: "not found" and the transaction is over. *)
(* RetVal gets its result, which nothing reads.                            *)
FinishReply(th) ==
  LET w == reply[th].request.wsi IN
  /\ reply[th].step = "dummy"
  /\ reply' = [reply EXCEPT ![th] = NoReply]
  /\ LwsCall(th, "notfound")
  /\ \/ conn[w] = "closed" /\ UNCHANGED <<conn, mustClose>>
     \/ conn[w] # "closed" /\ conn' = [conn EXCEPT ![w] = "open"] /\ UNCHANGED mustClose
     \/ conn[w] # "closed" /\ mustClose' = [mustClose EXCEPT ![w] = TRUE] /\ UNCHANGED conn
  /\ UNCHANGED <<epoch, bodies, cb, requests>>

-----------------------------------------------------------------------------
Lws(w) == Accept(w) \/ RequestArrives(w) \/ Close(w)

Callback(w) ==
  FilterCallback(w) \/ HttpCallback(w) \/ HttpDummy(w) \/ BodyCallback(w)

Reply(th) ==
  \/ \E r \in requests : SendResponse(th, r)
  \/ WriteHeader(th) \/ WriteBody(th) \/ FinishReply(th)

Next ==
  \/ \E w \in Wsis : Lws(w) \/ Callback(w)
  \/ CallbackReturns
  \/ \E th \in Threads : Reply(th)

Spec == Init /\ [][Next]_vars

-----------------------------------------------------------------------------
(* An answer given in a callback of its request is written for the request *)
(* the connection is waiting on, never for an earlier one or for another   *)
(* client at the same address, whatever other replies are under way.       *)
ReplyGoesToItsClient ==
  \A w \in Wsis : \A k \in DOMAIN wire[w] :
    wire[w][k].by = "own" => wire[w][k].epoch = epoch[w]

(* And it finds its connection open, at each of its three lws calls.       *)
OwnReplyFindsItsConnection == "own" \notin stray

(* The body of a reply sent on the service thread follows its own header   *)
(* block; only the game thread can write between the two.                  *)
Unbroken(s, k) ==
  \E j \in 1..(k - 1) :
    /\ s[j] = [s[k] EXCEPT !.part = "header"]
    /\ \A i \in (j + 1)..(k - 1) : s[i].by = "game"

Contiguous(s) ==
  \A k \in DOMAIN s : s[k].part = "body" /\ s[k].by # "game" => Unbroken(s, k)

ReplyIsContiguous == \A w \in Wsis : Contiguous(wire[w])

(* No reply at all is written to a connection lws has closed and freed.    *)
NoReplyToClosed == stray = {}

(* lws-http.h on lws_http_transaction_completed: "Returns nonzero if the   *)
(* HTTP connection must close now".                                        *)
MustCloseIsObeyed ==
  cb = NoCallback => \A w \in Wsis : ~mustClose[w]

-----------------------------------------------------------------------------
(* What the client at w sees of the answer given in its own callbacks.     *)
AnswerTo(w) ==
  LET mine == reply["service"] IN
  IF mine.use # "own" \/ mine.request.wsi # w THEN "none"
  ELSE CASE mine.step = "body"  -> "header"
         [] mine.step = "dummy" -> "body"
         [] OTHER -> "none"

There  == {w \in Wsis : conn[w] # "closed"}
Asked  == {w \in Wsis : [wsi |-> w, epoch |-> epoch[w]] \in requests}
Answer == [w \in Wsis |-> AnswerTo(w)]

Contract == INSTANCE ReplyContract WITH
  there <- There, client <- epoch, asked <- Asked, answer <- Answer

(* An answer given in a callback of its request goes to a client that has  *)
(* asked, one answer at a time, and from its first byte to its last that   *)
(* client neither leaves nor makes way for another.                        *)
KeepsReplyContract == Contract!Spec
=============================================================================
