# FF_HTTP_LWS: a TLA+ model of the plugin's HTTP server

FF_HTTP_LWS is an Unreal Engine plugin that runs a libwebsockets (lws) HTTP
server inside a game.  An actor, `AHTTP_Server_LWS`, owns the server; a thread
of its own polls lws; Blueprint handlers of the actor answer the requests.  This
directory holds models of the plugin's C++ code, the TLC configurations that
check them and the TLAPS proofs about them.  Paths below are relative to
`src/Source/FF_HTTP_LWS/`.

## 1. Inventory

### Components

| Component | Code | State it keeps | Operations |
|---|---|---|---|
| Server actor | `Private/FF_HTTP_LWS_Server.cpp` | the pointer `Thread_LibWebSocket`; configuration (name, ports, paths, `API_URI`) | `BeginPlay`, `EndPlay`, `HTTP_Server_Start`, `_Stop`, `_Toggle` |
| Service thread | `Private/FF_HTTP_LWS_Thread.cpp` 13-87, 324-347 | `RunnableThread`, `bStartThread`, `Context`, `Protocols` | construction, `Init`, `Run`, `Stop`, `Toggle`, destruction |
| Callback dispatch | same file, 229-291 | none of its own; lws's connections (`wsi`) | `Callback_HTTP` for `LWS_CALLBACK_HTTP`, `_HTTP_BODY`, `_FILTER_HTTP_CONNECTION` |
| Configuration | same file, 89-164, 293-322 | the two mounts, the protocol table, the creation info | `ConvertAddress`, `Init_*` |
| Request pool | same file, 166-227 | `RequestPool` | `Callback_Return` (no caller; nothing fills the pool) |
| Response | `Private/Objects/FF_HTTP_LWS_Request.cpp` | the buffer of one call, `RetVal` | `CalculcatePayloadSize`, `SendResponse` |
| Getters | `Private/Objects/FF_HTTP_LWS_Object.cpp`, `..._Info.cpp`, `GetUri` | the `FLwsParams` of one callback | method, headers, URL arguments, body |
| Plugin module | `Private/FF_HTTP_LWS.cpp` | the handles of the two pthread DLLs | `StartupModule`, `ShutdownModule` |
| Outside the code | Unreal's `FRunnableThread`, lws (headers and a library only), Blueprints (binary assets) | | |

### How they interact

* The **game thread** runs `BeginPlay`, `EndPlay` and whatever Blueprint calls.
  `HTTP_Server_Start` allocates an `FHTTP_Thread_LibWebSocket`, whose constructor
  calls `FRunnableThread::Create`; `Create` returns once `Init` has run on the
  new **service thread**.  `HTTP_Server_Stop` deletes the object; its destructor
  calls `Kill(true)`, which runs `Stop()` on the *calling* thread and then waits
  for the service thread.
* The service thread loops in `Run`, which calls `lws_service`; lws calls
  `Callback_HTTP`, which calls the actor's delegates and events **on the service
  thread**.  A handler may read the request, send a response, or call the three
  server functions itself.
* Fields shared by the threads (`Context`, `bStartThread`, the actor's pointer)
  are plain fields; no lock protects any of them.
* A Blueprint may keep a request or body object beyond its callback and use it
  later, in another callback or on the game thread.
* The module loads the DLLs lws needs before the first actor and frees them after
  the last one.

### What is hard, and what makes each part correct

* *Server actor and service thread*: stopping a thread from another thread (or
  from itself), destroying the context the thread is using, memory that is freed
  while a pointer to it remains, pausing with an OS suspend count, failing thread
  or context creation.  Correct means: memory is freed only after the thread has
  ended, a Stop is never lost, no thread outlives the actor, and a Stop returns.
* *Response*: one size computed by one function and consumed by another, two
  offsets into one buffer, unchecked "buffer full" results.  Correct means: no
  write outside the allocation, and no header silently missing.
* *Callback dispatch*: a connection's callbacks come in order, its handlers may
  answer now, later, twice or never, and the connection may close first.  Correct
  means: a reply reaches the client that asked, whole and in one piece, and what
  lws says about closing is obeyed.
* *All of it together*: the actor ends while requests are under way.  Correct
  means: handlers have ended before the actor has, only the final Stop cuts an
  answer short, and nothing the thread uses goes before the thread.
* *Getters*: which lws tables are still there in which callback, objects kept
  beyond their callback, and the error values (-1, 0) of lws functions, and UTF-8 that is widened byte by byte.
  Correct means: an answer is made of what the client sent, and what it sent is found.

The full list, line by line, is under `hazards` in `PROJECT.json`.

## 2. Modules

| Module | What it is |
|---|---|
| `ServerLifecycle` | the actor, its server objects, their threads and contexts, as a state machine with one action per access to shared state |
| `RunnableContract` | the abstract promise: each object goes through its phases once and in order |
| `ServerImplements` | the refinement mapping from the first to the second |
| `ServerLifecycleProofs`, `ServerImplementsProofs` | theorems about them |
| `MCServerLifecycle` | instances for TLC |
| `HttpExchange`, `HttpExchangeProofs`, `MCHttpExchange` | connections, callbacks, request objects and replies; their theorems; their instances |
| `ReplyContract`, `ReplyContractProofs` | the abstract promise to a client that is answered in its request's own callback; the proof that `HttpExchange` keeps it |
| `PluginSystem`, `PluginSystemProofs`, `MCPluginSystem` | the shipped plugin: the module, the actor and its server, and the exchange, composed; theorems; instance |
| `ResponseBuffer`, `ResponseBufferProofs`, `MCResponseBuffer` | the response's buffer, its theorems, its instances |
| `SequenceSums`, `SequenceSumsProofs` | sums over sequences, and the facts about them that need induction |
| `HeaderAccess`, `HeaderAccessProofs`, `MCHeaderAccess` | what the getters answer; its theorems; its instance |

`ServerLifecycle` sees lws from outside (a thread inside `lws_service`, handlers
running); `HttpExchange` is what goes on inside while the server runs, and
`PluginSystem` ties the two.  `ResponseBuffer` is what one `SendResponse` of
`HttpExchange` does before its first write, and `HeaderAccess` what a handler can
read from a request object.

### ServerLifecycle

A *caller* is the game thread or a service thread inside a handler.  The game
thread calls while the actor plays and once more in the middle of `EndPlay`: after
`HTTP_Server_Stop` comes `Super::EndPlay`, which runs Blueprint's Event EndPlay, and
the actor still has its pointer then (`MayCall`, phase `"ending"`).  `at[c]` is
how far caller `c` has got in a call and `on[c]` the object the call works on.

| Model | Code |
|---|---|
| `Thread_LibWebSocket`, `Context[t]`, `bStartThread[t]` | the fields of those names |
| `heap[t]`, `worker[t]` | whether object `t` is allocated; where its service thread is (`"none"`: `RunnableThread` is null) |
| `lws[t]`, `suspend[t]` | the context lws made for `t`; the OS suspend count of the thread |
| `StartCall`, `CreateReturns` | `HTTP_Server_Start`, the constructor, the return of `FRunnableThread::Create` |
| `StopCall`, `DestroyContext`, `ClearContext`, `LowerFlag`, `Joined` | `HTTP_Server_Stop`: the pointer test, `lws_context_destroy`, `Context = NULL`, `bStartThread = false`, the end of `Kill(true)` and of `delete` |
| `EndPlay`, `EndPlayReturns` | `EndPlay` up to its Stop; the return of `Super::EndPlay` after whatever Event EndPlay has called |
| `StopOnFreed` | a second stopper that goes on in an object the first one has freed |
| `InitThread`, `RunTest`, `RunCheck`, `ServiceEnter` | `Init`; the loop test, the `Context` test and the call of `Run` |
| `Dispatch`, `HandlerReturns`, `ServiceReturns` | lws calling `Callback_HTTP`, a handler ending, `lws_service` returning |
| `LeaveDestroyed`, `DispatchDestroyed` | `lws_service` on a context that has been destroyed |

The memory model of the fields is that of plain variables.  `ServiceEnter` may
use the pointer `RunCheck` saw or read it again; `RunCheck` with a null `Context`
may go on for ever, since that loop has no side effect and a build may keep the
reads out of it (point `"wedged"`).  Undefined behaviour, a use of freed memory
or of a destroyed context, is recorded in `ub`, and then the process dies or
carries on.

External facts the model takes: `Create` waits for `Init` and may fail; `Kill(true)`
calls `Stop` on the caller and waits without a limit; suspend and resume count;
`lws_create_context` may fail; `lws_service` on a null context returns at once.

### HttpExchange

A connection is an address (`wsi`), and lws uses addresses again, so a reply that
was meant for one client can reach another.  `epoch[w]` counts the connections
and requests at `w`; a request object remembers the epoch it was made in, which
the code does not: its `Params` hold the bare pointer.

| Model | Code |
|---|---|
| `conn[w]`, `bodies[w]`, `mustClose[w]` | lws: how far the connection is, body callbacks to come, whether lws has asked to close it |
| `cb` | the callback the service thread is in (`reason` and `wsi`) |
| `requests` | the `ULwsRequest` objects, `Params.wsi` and the epoch |
| `FilterCallback`, `HttpCallback`, `HttpDummy`, `BodyCallback`, `CallbackReturns` | the cases of `Callback_HTTP`, and its `return 0` |
| `SendResponse`, `WriteHeader`, `WriteBody`, `FinishReply` | the call, the two `lws_write`, `lws_callback_http_dummy`: one step per lws call |
| `reply[th]` | the `SendResponse` thread `th` is in: its step, its request, its kind |
| `Accept`, `RequestArrives`, `Close` | what lws does between callbacks |
| `wire[w]` | what was written in the current epoch: in what kind of reply, for which epoch, which part |
| `stray` | the kinds of replies whose `SendResponse` has used a connection lws had closed |

A reply has one of three kinds: `"own"`, in a callback of the request it
answers (the http callback or, once a body has come, the body callback);
`"later"`, in a callback of something else; `"game"`, on the game thread.  `Uses`
says which of them Blueprint makes.  The kinds (`UseOf`) are the model's: the code
does not tell replies apart, which is why the properties have to.  External facts: lws calls back on the service
thread only and one callback at a time; `lws_callback_http_dummy` answers "not
found", ends the transaction and returns nonzero when the connection must close; a
closed `wsi` is freed and its address may come back.  Whether a request belongs to
the API is a free choice between `HttpCallback` and `HttpDummy`.

`ReplyContract` knows only clients and answers: clients come, ask and leave, an
answer goes header, body, end, one at a time, and nothing happens to a client
while an answer to it is under way.  The mapping reads the clients from `conn`,
`epoch` and `requests`, and the answer from the service thread's `reply` when it
is of the kind `"own"`.

### PluginSystem

The variables of `ServerLifecycle` and `HttpExchange` side by side, plus `module`
and `handles`.  What `HttpExchange` does by itself happens here where the code
makes it happen:

| Model | Code |
|---|---|
| `StartupModule`, `ShutdownModule` | the functions of those names; a DLL that fails to load is a Fatal log, which ends the process |
| `ActorStep`, `CallStep` | `BeginPlay`, `EndPlay`, Toggle and the steps inside Start and Stop, by a caller that is not inside `SendResponse` |
| `DestroyStep` | `lws_context_destroy`, which closes all connections at that moment, also under a running handler |
| `LoopStep` | `Init` and `Run` |
| `LwsStep` | lws inside `lws_service`: accepting, reading, closing, "not found" |
| `CallbackStep`, `CallbackReturnStep` | a callback: `Dispatch` of `ServerLifecycle` and a callback of `HttpExchange` in one step |
| `StaleCallbackStep` | a callback out of a destroyed context |
| `HandlerReplyStep`, `GameReplyStep` | the lws calls of `SendResponse`, inside a handler and on the game thread |

A suspended thread takes no step, in a handler or out of it.  The instance is the
shipped actor's (`ShippedAssumption`): Start and Stop only from `BeginPlay` and
`EndPlay`, Toggle from anywhere.

### HeaderAccess

The requests that follow each other at one wsi, their callbacks, and the getters
called on the object of the callback under way (`Params`) or on one kept from an
earlier callback (`kept`).  `serial` numbers the requests and an object carries the
number of its request; `gone` says that lws has closed the connection and freed
the wsi.  `ret` keeps the last answer: the getter, its argument, the object, a
status, the value, and whether it was made of memory that was no longer the
getter's (`stale`): a freed wsi, the `in` pointer of a kept body object, or the
`HeaderKey` of `GetCustomHeader`, which points into a conversion that is gone.
The status is `"negative"` when the code passes a negative count to
`FString::AppendChars`.  A text is a sequence of words and of the separators `&`
and `=`, which is all that `GetAllUrlParameters` looks at; lengths are the sums
of `WordLen`.  `FString::AppendChars` does not decode UTF-8 but makes each byte a
character (`Widen`), so what a getter gives is the client's text only if that is
ASCII (`Ascii`).  The map `GetAllUrlParameters` fills finds keys whatever their case
(`Lower`, `Folded`), and a later pair replaces key and value of an earlier one.
`GetUrlParam` converts its key to UTF-8 and compares it exactly.  `table` says whether lws still holds the headers; they may go when a
callback returns.  External facts, from `lws-http.h`: known headers report length
0 when absent, custom headers and URL arguments -1; a copy needs room for a NUL;
arguments are decoded fragments, which the aggregate joins with `&`;
`lws_get_urlarg_by_name_safe` copies one fragment after the other into the buffer
it is given.  `GetKnownHeader_Int` is called with token indexes only.

### ResponseBuffer

One behaviour is one call of `SendResponse`.  Texts are their lengths, in
characters, which is what the code counts, and in UTF-8 bytes, which is what it
sends: between one and three bytes a character.  `SizeHeader` and `Allocate` are
the loops of `CalculcatePayloadSize`; `AddFixed` adds the status, origin, type and
length lines; `AddHeader` the custom and known headers; `Finalize` the blank line;
`Write` the two `lws_write` calls.  `announced` is the number on the content-length
line.  An lws header function appends a line or reports a full buffer (`AddLine`);
when it refuses it may have written the start of the line, and it may refuse a line
that would leave less than `Slack` bytes, because the header promises no exact
limit.  `AddHeader` also models that `Header_Name` and `Header_Value` point into
conversions that no longer exist (`stale`).

## 3. Runs

| Run | Question | Instance | Result |
|---|---|---|---|
| `any` | Is the server safe under any Blueprint, does an awaited thread only wind down, and which Stop comes back? | 2 objects, all calls from the game thread and from handlers, suspend count up to 2, fair scheduling (77 thousand states) | holds |
| `whole` | What does the plugin guarantee if Blueprint leaves Start and Stop to `BeginPlay` and `EndPlay`? | 2 objects, 1 connection address with 3 epochs, replies of every kind, Toggle also from Event EndPlay, suspend count up to 2 (770 thousand states) | holds |
| `context` | Is the rule of `lws_context_destroy` kept? | 1 object, one BeginPlay, one EndPlay | violated |
| `buffer` | Does the header block fit, and is the length announced the length sent? | body lengths on both sides of the exact threshold, plain and of three bytes a character, 4 header lists, 2 types | holds |
| `origin` | Is `access-control-allow-origin` always sent? | body of 2 characters | violated |
| `own` | Do replies sent in the request's own callbacks arrive, beside replies of other requests? | 2 connection addresses, 3 epochs each, 1 body callback (190 thousand states) | holds |
| `mixed` | And beside replies from the game thread? | 1 address, 4 epochs, replies of every kind (402 thousand states) | holds |
| `game` | Is a reply from the game thread safe? | 1 address | violated |
| `close` | Is a connection closed when lws says so? | 1 address, own callback | violated |
| `headers` | Do the getters tell the truth? | 32 requests (8 methods, every choice of 2 known and 2 custom headers, 11 queries, texts in and beyond ASCII), two in a row at one wsi, buffer sizes below and above an argument (315 thousand states) | holds |
| `absent` | Are lws's error values tested? | the same | violated |
| `param` | Does the default buffer hold a value of 1024 characters? | the same; a value of 1020 | violated |

What the properties say:

* `JoinBeforeFree`: a freed object has no running thread, whoever stops it.
* `NoLostStop`: a caller waiting for a thread has that thread's loop flag down.
* `RunWindsDown`: a thread somebody waits for never starts another round of its
  loop; each of its steps is one towards the end of `Run`, but for a callback lws
  makes out of the destroyed context.  This is the safety half of `StopReturns`, and
  it holds for any callers.
* `DestroyedUseOnlyDuringStop`: a service thread has a destroyed context only
  while the `Stop()` that destroyed it is still under way.  This bounds the damage
  the `context` run shows.
* `RunnableContractHolds`: the refinement of `RunnableContract`.
* `FreedUseOnlyAfterStop`: the actor keeps its pointer to the freed object.  The
  shipped actor reaches the freed memory only when `EndPlay`'s Stop has returned and no
  thread is left, by a Toggle from Event EndPlay; never from a handler, nor while
  requests are answered.  It does happen then: see section 5.
* `NoServiceAfterEndPlay`: when the shipped actor is gone, so is its thread.  With
  Start and Stop in Blueprint both of these fail (a second Stop works on a dangling
  pointer, a second Start leaks the first thread), and that is why run `whole`
  restricts `GameCalls` and `HandlerCalls`.
* `SelfStopNeverReturns`: a handler that stops its own server waits for its own
  thread; no other call gets it out of there, and its object is never freed.
* `HandlersEndBeforeActor`: once `EndPlay` has returned no callback is running and
  no answer is half sent; `Kill(true)` has waited for the handler.
* `AnswersCutOnlyByStop`: an answer given in its request's own callback loses its
  connection under its hands only while that final Stop, which has destroyed the
  context, waits for this very handler.  It does happen then.
* `AnswersUntilStop`: until the Stop destroys the context, the plugin keeps
  `ReplyContract`, whatever Toggle, Stop and the module do.  After that moment it is
  not promised: connections are closed under running handlers.
* `AnswersStayInOrder`: `ReplyGoesToItsClient` and `ReplyIsContiguous` hold through
  the whole life of the plugin, the Stop included.
* `DllsOutliveService`: a service thread is never left when the DLLs go.
* `StopReturns`: a Stop, from the game thread or a handler, comes back unless the
  process has died, one of the two threads is suspended, or the service thread is
  wedged or waits for a thread itself.  The exceptions are the code's: `Kill` does
  not resume a paused thread, a handler may stop a server, its own too, and a loop
  without a context has no side effect (`"wedged"`).
* `ReplyGoesToItsClient`, `OwnReplyFindsItsConnection`: an answer given in a
  callback of its request is written for the request its connection is waiting on
  and never to a closed one, whatever other replies are under way, from the game
  thread too.  For replies given later neither holds (the wsi of a kept request
  object may belong to someone else by then); run `game` shows the closed one.
* `KeepsReplyContract`: the refinement of `ReplyContract`.
* `ReplyIsContiguous`: the body of a reply sent on the service thread follows its
  own header block, though they are separate lws calls; only the game thread can
  write in between.
* `MustCloseIsObeyed`: fails, since the result goes to `RetVal`, which nothing
  reads, and the callback returns 0.
* `AnswersAreTheRequests`: an answer of "true" that read nothing stale gives the
  bytes of what the client sent, of the request the connection is on by then, in both
  callbacks and on a kept object of any request.  Each byte is one character, so it is
  the client's text exactly when that is ASCII (`Tells`).  `GetUri` goes on to answer
  "true", with nothing, once the headers are gone.  Even with a key that is gone,
  `GetCustomHeader` gives a whole header and does not mix two up.
* `NothingSentIsMissed`: while lws has the headers, a getter answers "false" or
  passes on a negative count only for a reason: the object is of the other callback,
  the client has not sent what is asked for or has sent it empty, or `GetUrlParam` has
  met an argument, up to the one it looks for, that is too long for its buffer
  together with name, `=` and NUL.
* `DefaultBufferHoldsTheValue`: fails for that last reason.
* `ParametersAreTheArguments`: `GetUrlParam` gives the value of the first argument of
  the very name, whatever the arguments are.  `GetAllUrlParameters` has every name of
  a pair but for its case, and if no separator but `=` was decoded into the
  arguments it has exactly the last pair of each name when case is ignored, without a
  `=` at the end: one of `a=1` and `A=2`, none of `a=1=2`.
* `WithinBuffer`: `Position` and the block handed to `lws_write` stay inside the
  allocation.
* `LongBodyIsComplete`: the size computed counts the body, which is not stored,
  and leaves out lines that are; `Uncounted` is the exact body length from which
  the mistakes cancel, and from there no line is dropped.  A name beyond ASCII
  moves it up by the bytes it has more than characters.
* `AnnouncedIsSent`: body and content-length are counted alike, in characters, so a
  text beyond ASCII is cut and yet the client gets as many bytes as announced.

**Bounds.** Two objects suffice for what the properties tell apart: one the
actor's pointer reaches and one it has lost, each stopped by itself, by the other
or by the game thread.  The proofs cover every number.  `MaxSuspend` bounds the
suspend count; 2 reaches a nested pause, one resume short of running again.
The number of Starts is bounded by `Objects`.  In `buffer` the body lengths lie around the
thresholds of the four header lists and around a change in the number of digits.
In `HttpExchange` and `PluginSystem`, three epochs let an address serve a connection, a request and
then another connection or another request; two addresses let a reply started for
one meet a callback of the other; `MaxWire` stops Blueprint from starting replies,
not replies under way.  The proofs cover every value of these.  In `HeaderAccess`
two requests let an object outlive its request, at an address used again; a getter
is asked only when none has been since the last step of lws, which loses nothing,
since getters change only `ret` and do not read it; the queries are none, a plain one, two plain ones, one beyond ASCII, a repeated name,
names that differ in case only, an empty value, decoded separators of each kind and at
the end, and one too long for the buffer.

**Deadlock** is not checked: the process may crash, the actor's life ends, a
handler that stops its own server waits for itself, a call finishes, and the
epochs and body callbacks of a run come to their bound, a DLL may fail to load.

**Fairness** (run `any`).  `CallProceeds` is weakly fair per caller and
`WorkerProceeds` per service thread: the OS schedules threads it has not
suspended, and `Init` and handlers return.  `LeaveDestroyed` is strongly fair:
one call of `lws_service` runs the handlers of one poll and cannot go on calling
handlers for ever.  `ServiceReturns` on a live context has no fairness: lws
sleeps until an event, and Stop sends none.  No caller has to begin a call.
`StopReturns` assumes that `lws_service` leaves a destroyed context at some time,
which lws does not promise: this is its best case.

## 4. Proofs

All theorems hold for every value of the constants under the named assumptions
`ConstantsAssumption`, `ResponsesAssumption`, `RequestsAssumption`,
`ShippedAssumption` and `ExchangeAssumption`, which say what the constants are
(finite bounds as naturals, `Uses` among the three kinds, requests made of texts, in
`PluginSystem` the shipped actor's calls and the constants of `HttpExchange`).

* `ServerLifecycleProofs`: `TypeCorrect`, `FreedOnlyAfterJoin`, `StopIsNeverLost`
  and `DestroyedOnlyInStop`, from one inductive invariant `IInv`.  None of the
  properties is inductive alone.  `NoLostStop` needs that nobody can call Stop on
  an object whose `Init` has not finished (`NoPointerBeforeInit`: only the caller
  in `Create` knows the object), and that a caller in Stop is on an object with a
  thread; `DestroyedUseOnlyDuringStop` needs `DestroyedIsBeingStopped`, which says
  which call destroyed the context and that its flag falls before the join.
* `StoppedRunWindsDown` needs besides that a Stop which has come to the join has left
  its object no context (`StopLeavesNoContext`: the field is null and the context is
  not a live one), so that the thread enters no handler but out of the destroyed
  context; that the flag is down (`NoLostStop`), so that it starts no other round;
  and that only a step of the thread itself moves it.
* `SelfStopIsForever`: needs `HandlersCall`; a caller that waits for its own thread is a thread in a
  handler, which only its own steps move, and it has none while it waits; the join
  cannot be over before that thread has left `Run`, so nobody frees the object.
* Also there: `StockUsesFreedOnlyAfterStop` and `StockEndPlayStopsService` under
  `StockCaller`, which says that `GameCalls` and `HandlerCalls` hold Toggle only;
  `StockInv` ties the actor's phase to the pointer, the object and the one Stop, and
  says that an object is freed only by `EndPlay`.
* `ServerImplementsProofs`: `ServerKeepsContract`, the refinement, with one step
  per action: it maps to one step of `RunnableContract` or to a stutter.
* `ResponseBufferProofs`: `ResponseTypeCorrect`, `ResponseStaysInBuffer` and
  `AnnouncedBytesAreSent`, from `BufferInv`: `Payload_Size` is at least `LWS_PRE`, so
  that `End` is not in front of the first byte, and lws never passes `End`.
  `LongBodiesAreComplete` needs two more conjuncts (`CompleteInv`): what
  `Payload_Size` is in each round of the sizing loop (`SizeInv`), and, as long as
  the body is long enough and nothing stale was read, that `Position` is the sum of
  the lines so far and `sent` all of them (`NothingDropped`).  The lines to come then
  fit, because header by header a line is no longer than its size and its shortfall
  (`PartialSumsCompare` of `SequenceSumsProofs`).
* `SequenceSumsProofs`: what holds of the sums of every sequence.  The library's
  induction theorems cannot be instantiated with a formula here, so `SetInduction`
  states induction for the set of the numbers a formula holds for; it follows
  from the well-foundedness of `<`.
* `HeaderAccessProofs`: `AccessTypeCorrect`, `GettersTellTheTruth`,
  `GettersMissNothing` and `ParametersAreRead`, for requests of any texts.  A
  getter's answer is made in one step, so there is a lemma per getter; from the
  state they need only `TypeInv`, with "a connection that is gone has no headers".
  The substance is in the buffers and in the bytes: a length is a natural number,
  positive for what is not empty (`LengthOf`, a sum), one more is enough for the copy,
  joined arguments are empty only if there are none (`QueryTextOf`, by induction), and
  a widened text is the text exactly if it is ASCII (`WidenedTells`).
  `ParametersAreRead` is about splitting: `ParseIntoArray` is a function by recursion
  on the length of the text, and `SetInduction` shows that splitting arguments joined
  by `&` gives back the parts of each of them (`SplitJoined`, `SplitQuery`).  Of an
  argument without a decoded `&` that is the argument itself, and its sections are its
  words (`SimpleSections`).  `AddedPairs` says what a map that ignores case keeps of a
  list of pairs.
* `HttpExchangeProofs`: `ExchangeTypeCorrect`, `OwnRepliesReachTheirClient`,
  `OwnRepliesFindTheirConnection` and `ServiceRepliesAreContiguous`, for every
  choice of `Uses`.  The second and third need `OwnInv`: a reply of the kind `"own"`
  is in a callback on its own request's connection, which is open in that epoch,
  and lws does nothing to connections during a callback.  The last needs that
  between header and body of a service thread's reply only the game thread's pieces
  come after the header.
* `ReplyContractProofs`: `OwnRepliesKeepContract`, the refinement, from `OwnInv`, one
  lemma per kind of step.
* `PluginSystemProofs`: `SystemTypeCorrect`, `SystemUsesFreedOnlyAfterStop`,
  `SystemEndPlayStopsService`, `SystemHandlersEndFirst`, `SystemKeepsItsDlls` and
  `SystemAnswersCutOnlyByStop`.  What is proved of the server alone carries over,
  since the composition only does to it what `ServerLifecycle` does (the lemma
  `SystemRunsTheServer`).  `SystemInv` adds to `StockInv` what ties the parts: the DLLs are loaded while the
  actor plays, a callback is under way exactly when a service thread is in a
  handler, and the connection of that callback is open unless the context has been
  destroyed.  The last is what makes the only way to lose it the Stop under way.
* Also there: `SystemAnswersInOrder`, `SystemKeepsReplyContract` and
  `SystemKeepsServerContract`.  `ExchangeInv` has two cases.  While no context is destroyed the exchange's own invariants hold, and
  `Ex == INSTANCE ReplyContractProofs` carries its lemmas over step by step.  Once the
  context is destroyed every connection is closed and stays closed (the shipped actor
  makes one context in its life, `OneContext`), so nothing goes on the wire any more,
  and what was written stays in order.

**Only model-checked**: `StopReturns`, which is liveness (its safety half,
`RunWindsDown`, is proved), and the violations.

## 5. Findings

* `lws_context_destroy` is called while the service thread may be using the
  context (`Private/FF_HTTP_LWS_Thread.cpp` 62-65, 71-75, 336-339), though
  `lws-context-vhost.h` makes any further use undefined.
* With a short body `SendResponse` drops headers, `access-control-allow-origin`
  among them, which its tooltip says it always adds.
* A reply from the game thread uses a `wsi` without the lock `lws-callbacks.h` asks
  for, and may reach a closed connection.
* After a reply, the result of `lws_callback_http_dummy` is dropped, so a
  connection lws wants closed stays open.  The same call puts a "not found" answer
  after every reply.
* A custom header or URL argument the client did not send gives a length of -1,
  which goes on as a count of characters.
* `GetUrlParam` with its default buffer does not give a value of 1020 characters: the
  buffer also holds the name, `=` and the NUL.  Its tooltip says to change the size
  only for values longer than 1024.  The -1 lws answers with is not recognised either.

Hazards the properties above bound: `EndPlay` leaves the pointer to the object it has
freed, and a Toggle from Event EndPlay uses it; a handler that stops its own server
waits for ever; texts beyond ASCII come out of every getter as their bytes; of two URL
arguments whose names differ in case only, `GetAllUrlParameters` shows one.

Seen while reading, and kept in the hazards: the getters are allowed in the body
callback, after `lws-http.h`'s last moment for headers; `GetUri` does not test the
result of lws; `GetCustomHeader` and the header loops of `SendResponse` read
conversions that are gone; the two writes of a reply do not wait for a writeable
connection; `GetKnownHeader_Enum` ignores its key; buffers are never freed; `In_Status` is not
used; a known header may repeat one `SendResponse` has written; `mountpoint_len`
holds lengths below 256 only; an empty `API_URI` leaves a null pointer for the API
test.

## 6. Not modelled

* **Configuration** (`ConvertAddress`, `Init_*`): constants computed before the
  context exists.  They feed the mounts, and which mount takes a request is decided
  inside lws, of which the repository has headers and a binary only; a model of it
  would be a guess.  The API test after it is one `Contains` on a text, a free
  choice here.
* **`Callback_Return` and `RequestPool`**: the function has no caller and nothing
  fills the pool.
* **The request objects' garbage collection**: `NewObject` on the service thread is
  Unreal's; nothing in the code says when the collector runs.
* **Enums, build files, web pages, Blueprint assets**: no behaviour in source form.
* **lws and pthreads**: third-party, headers and binaries.  Nearly all lines under
  `src/` are these headers; the plugin's own C++ is about 1500 lines.

What could still be added: liveness of the whole plugin under the fairness of run
`any`, which only TLC could check.
