---------------------------- MODULE HeaderAccess ---------------------------
(***************************************************************************)
(* What the getters of ULwsObject, ULwsInfos and ULwsRequest answer: the   *)
(* requests that follow each other at one wsi, their callbacks, and the    *)
(* getters Blueprint calls on the object of the callback it is in or on an *)
(* object it has kept.  A getter is one action; its answer goes to "ret".  *)
(*                                                                         *)
(* A text is a sequence of words and of the separators "&" and "=", words  *)
(* being what no code here looks into.  A URL argument is such a text      *)
(* after decoding, which may have brought separators into it.  On the wire *)
(* and in lws a text is UTF-8; what the getters make of it in an FString   *)
(* is another text unless it is ASCII.                                     *)
(***************************************************************************)
EXTENDS Integers, Sequences, SequencesExt, SequenceSums

CONSTANTS
  Words,       \* parts of texts
  WordLen,     \* their lengths in bytes
  Ascii,       \* those of ASCII characters
  Widen,       \* a part of a text, each byte of it made one character
  Lower,       \* what is left of those characters when case is ignored
  Headers,     \* known headers: tokens of lws, and Blueprint's enum for them
  Names,       \* names of custom headers, lower case as lws stores them
  Methods,     \* the method tokens of lws, which hold the URI
  Requests,    \* what clients send
  Chunks,      \* pieces of a body, as a callback delivers them
  BufferSizes, \* what Blueprint passes as BufferSize
  MaxBody,     \* bound: body callbacks of a request
  MaxRequests  \* bound: requests at the wsi

Separators == {"&", "="}
Texts      == Seq(Words \cup Separators)
URI_ARGS   == "uri_args"
GET_URI    == "GET"       \* the token with index 0

(* The methods GetMethod knows, in the order it asks for them.             *)
MethodOrder == <<"GET", "POST", "PUT", "PATCH", "DELETE", "HEAD", "OPTIONS">>

Tokens     == Methods \cup Headers \cup {URI_ARGS}

ASSUME RequestsAssumption ==
  /\ Words \cap Separators = {} /\ WordLen \in [Words -> Nat \ {0}]
  /\ Ascii \subseteq Words /\ Chunks \subseteq Texts \ {<< >>}
  /\ \A s \in Separators : Widen[s] = s
  /\ \A w \in Words : Widen[w] \notin Separators /\ (Widen[w] = w <=> w \in Ascii)
  /\ ToSet(MethodOrder) \subseteq Methods
  /\ Methods \cap Headers = {} /\ URI_ARGS \notin Methods \cup Headers
  /\ \A r \in Requests :
       /\ r.method \in Methods /\ r.uri \in Texts \ {<< >>}
       /\ r.known \in [Headers -> Texts]
       /\ DOMAIN r.custom \subseteq Names /\ \A h \in DOMAIN r.custom : r.custom[h] \in Texts
       /\ r.query \in Seq(Texts \ {<< >>})
  /\ BufferSizes \subseteq Int /\ MaxBody \in Nat /\ MaxRequests \in Nat \ {0}

VARIABLES
  request,     \* the request on the connection, or its last one
  serial,      \* how many requests there have been at the wsi
  gone,        \* lws has closed the connection and freed the wsi
  table,       \* lws still holds the headers of the request
  asked,       \* LWS_CALLBACK_HTTP was made
  bodies,      \* body callbacks made so far
  Params,      \* of the object of this callback
  kept,        \* Params of an object of an earlier callback
  ret          \* the last getter's answer

connection == <<request, serial, gone, table, asked, bodies>>
vars == <<connection, Params, kept, ret>>

NoObject == [reason |-> "none", in |-> << >>, serial |-> 0]
NoAnswer == [getter |-> "none", key |-> "none", object |-> NoObject,
             status |-> "no", value |-> << >>, stale |-> FALSE]

(* "in" is the text the pointer points to, the empty one for a null        *)
(* pointer.                                                                *)
Object ==
  [reason : {"http"}, in : {r.uri : r \in Requests}, serial : 1..MaxRequests] \cup
  [reason : {"body"}, in : Chunks \cup {<< >>}, serial : 1..MaxRequests]

Getters == {"GetMethod", "GetUri", "GetBody", "GetCustomHeader",
            "GetAllCustomHeaders", "GetKnownHeader_Enum", "GetKnownHeader_Int",
            "GetAllKnownHeaders", "GetAllUrlParameters", "GetUrlParam"}

TypeOK ==
  /\ request \in Requests /\ serial \in 1..MaxRequests
  /\ gone \in BOOLEAN /\ table \in BOOLEAN /\ asked \in BOOLEAN
  /\ bodies \in 0..MaxBody
  /\ Params \in {NoObject} \cup {o \in Object : o.serial = serial}
  /\ kept \in {NoObject} \cup Object
  /\ ret.getter \in Getters \cup {"none"}
  /\ ret.status \in {"yes", "no", "negative"} /\ ret.stale \in BOOLEAN
  /\ ret.getter # "none" => ret.object \in {Params, kept} \ {NoObject}

Init ==
  /\ request \in Requests /\ serial = 1
  /\ gone = FALSE /\ table = TRUE /\ asked = FALSE /\ bodies = 0
  /\ Params = NoObject /\ kept = NoObject
  /\ ret = NoAnswer

-----------------------------------------------------------------------------
(* The callbacks, as far as they hand out objects.                         *)

HttpCallback ==
  /\ Params = NoObject /\ ~gone /\ ~asked
  /\ asked' = TRUE
  /\ Params' = [reason |-> "http", in |-> request.uri, serial |-> serial]
  /\ ret' = NoAnswer
  /\ UNCHANGED <<request, serial, gone, table, bodies, kept>>

BodyObject_ReasonKept(in) ==   \* the reason filled in is the other callback's
  [reason |-> "http", in |-> in, serial |-> serial]

BodyObject(in) == [reason |-> "body", in |-> in, serial |-> serial]

BodyCallback ==
  /\ Params = NoObject /\ ~gone /\ asked /\ bodies < MaxBody
  /\ bodies' = bodies + 1
  /\ \E in \in Chunks \cup {<< >>} : Params' = BodyObject(in)
  /\ ret' = NoAnswer
  /\ UNCHANGED <<request, serial, gone, table, asked, kept>>

(* LWS_CALLBACK_HTTP is the last time the headers are sure to be there.    *)
(* Blueprint may keep the object.                                          *)
CallbackReturns ==
  /\ Params # NoObject
  /\ Params' = NoObject /\ ret' = NoAnswer
  /\ kept' \in {kept, Params}
  /\ table' \in {table, FALSE}
  /\ UNCHANGED <<request, serial, gone, asked, bodies>>

Closed ==
  /\ Params = NoObject /\ ~gone
  /\ gone' = TRUE /\ table' = FALSE
  /\ ret' = NoAnswer
  /\ UNCHANGED <<request, serial, asked, bodies, Params, kept>>

(* The client's next request, or the first of another client whose         *)
(* connection got the address of one that is gone.                         *)
NextRequest ==
  /\ Params = NoObject /\ (asked \/ gone) /\ serial < MaxRequests
  /\ request' \in Requests /\ serial' = serial + 1
  /\ gone' = FALSE /\ table' = TRUE /\ asked' = FALSE /\ bodies' = 0
  /\ ret' = NoAnswer
  /\ UNCHANGED <<Params, kept>>

-----------------------------------------------------------------------------
(* The functions of lws.  Lengths leave out the terminating NUL; a copy    *)
(* needs room for it, "or it will fail returning -1".  With the header     *)
(* table gone, every header is reported as absent.                         *)

Length(text) ==
  Total([k \in 1..Len(text) |-> IF text[k] \in Separators THEN 1 ELSE WordLen[text[k]]])

(* The aggregated arguments: the fragments, with "&" between them.         *)
Joined(query) ==
  LET text[k \in 0..Len(query)] ==
        IF k = 0 THEN << >>
        ELSE IF k = 1 THEN query[k] ELSE text[k - 1] \o <<"&">> \o query[k]
  IN  text

QueryText(r) == Joined(r.query)[Len(r.query)]

Stored(r, token) ==
  CASE token \in Methods -> IF token = r.method THEN r.uri ELSE << >>
    [] token \in Headers -> r.known[token]
    [] token = URI_ARGS  -> QueryText(r)

Header(token) == IF table THEN Stored(request, token) ELSE << >>

lws_hdr_total_length(token) == Length(Header(token))

CopyLength(text, size) == IF Length(text) < size THEN Length(text) ELSE -1

HasCustom(name) == table /\ name \in DOMAIN request.custom

lws_hdr_custom_length(name) ==
  IF HasCustom(name) THEN Length(request.custom[name]) ELSE -1

(* The fragments are copied into the buffer in turn until one starts with  *)
(* the name and "="; the search ends at one that does not fit.             *)
FirstArgument(r, key) ==
  SelectInSeq(r.query, LAMBDA f : IsPrefix(<<key, "=">>, f))

ArgumentFits(r, key, size) ==
  \A k \in 1..FirstArgument(r, key) : Length(r.query[k]) < size

-----------------------------------------------------------------------------
(* Answers.  FString::AppendChars takes chars and a count of them: it does *)
(* not decode UTF-8 but makes every byte a character.  A negative count    *)
(* breaks its precondition.                                                *)

No             == [status |-> "no", value |-> << >>]
Yes(value)     == [status |-> "yes", value |-> value]
Negative       == [status |-> "negative", value |-> << >>]
Widened(text)  == [k \in DOMAIN text |-> Widen[text[k]]]

AppendChars(text, count) == IF count < 0 THEN Negative ELSE Yes(Widened(text))

(* FString::ParseIntoArray, which drops empty parts: one begins only where *)
(* something else than a separator follows the start or a separator.       *)
(* Parts(text, separator)[k] are the parts of the first k elements.        *)
Parts(text, separator) ==
  LET parts[k \in 0..Len(text)] ==
        IF k = 0 THEN << >>
        ELSE IF text[k] = separator THEN parts[k - 1]
        ELSE IF k = 1 \/ text[k - 1] = separator THEN Append(parts[k - 1], <<text[k]>>)
        ELSE [parts[k - 1] EXCEPT ![Len(parts[k - 1])] = Append(@, text[k])]
  IN  parts

ParseIntoArray(text, separator) == Parts(text, separator)[Len(text)]

(* A getter called on an object answers "no" unless the object's reason is *)
(* one of those the getter is for.  An answer made of memory that is no    *)
(* longer the getter's to read is "stale".                                 *)
Return(o, getter, key, reasons, answer, stale) ==
  /\ o # NoObject
  /\ LET given == IF o.reason \in reasons THEN answer ELSE No IN
     ret' = [getter |-> getter, key |-> key, object |-> o, status |-> given.status,
             value |-> given.value, stale |-> stale /\ o.reason \in reasons]
  /\ UNCHANGED <<connection, Params, kept>>

(* Most getters ask lws about the wsi, which may be freed memory.          *)
Call(o, getter, key, reasons, answer, stale) ==
  IF gone
  THEN \E any \in {No, Yes(<< >>), Negative} :
         Return(o, getter, key, reasons, any, TRUE)
  ELSE Return(o, getter, key, reasons, answer, stale)

HeaderReasons == {"http", "body"}

GetMethod_NotNegative(o) ==   \* the length is compared with >= 0
  LET k == SelectInSeq(MethodOrder, LAMBDA m : lws_hdr_total_length(m) >= 0)
  IN  Call(o, "GetMethod", "none", {"http"}, IF k = 0 THEN No ELSE Yes(MethodOrder[k]), FALSE)

GetMethod(o) ==
  LET k == SelectInSeq(MethodOrder, LAMBDA m : lws_hdr_total_length(m) > 0)
  IN  Call(o, "GetMethod", "none", {"http"}, IF k = 0 THEN No ELSE Yes(MethodOrder[k]), FALSE)

(* lws_http_get_uri_and_method: its result is not tested; without headers, *)
(* or for a method it does not know, there is no URI.                      *)
GetUri(o) ==
  \E uri \in (IF table THEN {request.uri} ELSE {}) \cup
              (IF table /\ request.method \in ToSet(MethodOrder) THEN {} ELSE {<< >>}) :
    Call(o, "GetUri", "none", {"http"},
         IF o.in = << >> THEN No ELSE AppendChars(uri, Length(uri)), FALSE)

(* Params.in points to what lws passed to the callback, and to any other   *)
(* bytes once the callback is over.                                        *)
GetBody(o) ==
  \E body \in IF o = Params THEN {o.in} ELSE Chunks \cup {o.in} :
    Return(o, "GetBody", "none", {"body"},
           IF o.in = << >> THEN No ELSE AppendChars(body, Length(body)), o # Params)

(* HeaderKey points into a TCHAR_TO_UTF8 conversion that is gone when lws  *)
(* reads it, first to size the buffer and then to copy the value.          *)
Reads        == (Names \cup {"garbage"}) \X (Names \cup {"garbage"})
Intact(name) == <<name, name>>

CustomBuffer_NoNul(name) == lws_hdr_custom_length(name)   \* no room for the NUL
CustomBuffer(name)       == lws_hdr_custom_length(name) + 1

CustomHeader(read) ==
  IF HasCustom(read[2])
  THEN AppendChars(request.custom[read[2]],
                   CopyLength(request.custom[read[2]], CustomBuffer(read[1])))
  ELSE Negative

GetCustomHeader(o, name) ==
  \E read \in Reads :
    Call(o, "GetCustomHeader", name, HeaderReasons, CustomHeader(read),
         read # Intact(name))

GetAllCustomHeaders(o, names) ==
  \E reads \in [names -> Reads] :
    Call(o, "GetAllCustomHeaders", names, HeaderReasons,
         IF \E h \in names : CustomHeader(reads[h]).status = "negative"
         THEN Negative
         ELSE Yes([h \in names |-> CustomHeader(reads[h]).value]),
         \E h \in names : reads[h] # Intact(h))

KnownHeader(token) ==
  IF lws_hdr_total_length(token) > 0
  THEN AppendChars(Header(token),
                   CopyLength(Header(token), lws_hdr_total_length(token) + 1))
  ELSE No

ConvertLwsHeader(key)  == GET_URI   \* lws_token_indexes(), whatever the key
ConvertBpHeader(token) == "NONE"    \* ELwsKnownHeaders(), whatever the token

GetKnownHeader_Enum(o, key) ==
  Call(o, "GetKnownHeader_Enum", key, HeaderReasons, KnownHeader(ConvertLwsHeader(key)), FALSE)

GetKnownHeader_Int(o, token) ==
  Call(o, "GetKnownHeader_Int", token, HeaderReasons, KnownHeader(token), FALSE)

GetAllKnownHeaders(o) ==
  Call(o, "GetAllKnownHeaders", "none", HeaderReasons,
       Yes([t \in {t \in Tokens : lws_hdr_total_length(t) > 0} |->
              [String |-> KnownHeader(t).value, HeaderEnum |-> ConvertBpHeader(t)]]),
       FALSE)

(* The pairs of exactly two sections.  TMap<FString, FString>::Add finds a *)
(* key that is equal but for its case, and replaces it with its value.     *)
Folded(key) == [k \in DOMAIN key |-> Lower[key[k]]]

Sections(pairs) == [k \in DOMAIN pairs |-> ParseIntoArray(pairs[k], "=")]

Added(sections, whole) ==
  LET stays == {k \in whole : \A j \in whole :
                  j > k => Folded(sections[j][1]) # Folded(sections[k][1])}
  IN  [key \in {sections[k][1] : k \in stays} |->
         sections[CHOOSE k \in stays : sections[k][1] = key][2]]

PairMap_MoreSections(pairs) ==   \* what follows a second "=" is dropped
  Added(Sections(pairs), {k \in DOMAIN pairs : Len(Sections(pairs)[k]) >= 2})

PairMap(pairs) ==
  Added(Sections(pairs), {k \in DOMAIN pairs : Len(Sections(pairs)[k]) = 2})

GetAllUrlParameters(o) ==
  Call(o, "GetAllUrlParameters", "none", HeaderReasons,
       IF lws_hdr_total_length(URI_ARGS) = 0 THEN No
       ELSE Yes(PairMap(ParseIntoArray(Widened(Header(URI_ARGS)), "&"))), FALSE)

BufferSize(size) == IF size <= 0 THEN 1024 ELSE size

GetUrlParam(o, key, size) ==
  LET k     == FirstArgument(request, key)
      found == table /\ k # 0 /\ ArgumentFits(request, key, BufferSize(size))
      value == SubSeq(request.query[k], 3, Len(request.query[k]))
  IN  Call(o, "GetUrlParam", <<key, BufferSize(size)>>, HeaderReasons,
           IF ~found THEN Negative
           ELSE IF value = << >> THEN No ELSE AppendChars(value, Length(value)), FALSE)

-----------------------------------------------------------------------------
Getter(o) ==
  \/ GetMethod(o) \/ GetUri(o) \/ GetBody(o)
  \/ \E name \in Names : GetCustomHeader(o, name)
  \/ \E names \in SUBSET Names : GetAllCustomHeaders(o, names)
  \/ \E key \in Headers : GetKnownHeader_Enum(o, key)
  \/ \E token \in Tokens : GetKnownHeader_Int(o, token)
  \/ GetAllKnownHeaders(o) \/ GetAllUrlParameters(o)
  \/ \E key \in Words, size \in BufferSizes : GetUrlParam(o, key, size)

(* Getters change nothing but ret: what one answers does not depend on the *)
(* answers before it, so one is asked between two steps of lws.            *)
Next ==
  \/ HttpCallback \/ BodyCallback \/ CallbackReturns \/ Closed \/ NextRequest
  \/ ret.getter = "none" /\ (Getter(Params) \/ Getter(kept))

Spec == Init /\ [][Next]_vars

-----------------------------------------------------------------------------
Answered(getter) == ret.getter = getter /\ ret.status = "yes"
Refused(getter)  == ret.getter = getter /\ ret.status = "no"

(* The bytes of a text: the text itself if it is ASCII, and another one of *)
(* the same length if it is not.                                           *)
Tells(value, text) ==
  /\ value = Widened(text)
  /\ value = text <=> ToSet(text) \subseteq Ascii \cup Separators

(* A getter that answers "true" gives the bytes the client sent under that *)
(* name, on an object of whatever callback and request: it answers with    *)
(* the request the connection is on by then.  One that has read a key or a *)
(* body that was gone is left out, except that it does not mix up headers: *)
(* what it gives is one of them and all of it.  Once lws has dropped the   *)
(* headers GetUri goes on to answer "true", with nothing.  The URL         *)
(* arguments have a property of their own; GetKnownHeader_Enum, whose key  *)
(* lws never sees, answers with the URI of a GET request.                  *)
AnswersAreTheRequests ==
  /\ ~ret.stale =>
       /\ Answered("GetMethod") => ret.value = request.method
       /\ Answered("GetUri") =>
            \/ Tells(ret.value, request.uri)
            \/ ret.value = << >> /\ ~(table /\ request.method \in ToSet(MethodOrder))
       /\ Answered("GetBody") => Tells(ret.value, ret.object.in)
       /\ Answered("GetCustomHeader") =>
            /\ ret.key \in DOMAIN request.custom
            /\ Tells(ret.value, request.custom[ret.key])
       /\ Answered("GetAllCustomHeaders") =>
            /\ ret.key \subseteq DOMAIN request.custom
            /\ \A h \in ret.key : Tells(ret.value[h], request.custom[h])
       /\ Answered("GetKnownHeader_Int") => Tells(ret.value, Stored(request, ret.key))
       /\ Answered("GetKnownHeader_Enum") => Tells(ret.value, Stored(request, GET_URI))
       /\ Answered("GetAllKnownHeaders") =>
            \A t \in DOMAIN ret.value : Tells(ret.value[t].String, Stored(request, t))
  /\ ~gone /\ Answered("GetCustomHeader") =>
       \E h \in DOMAIN request.custom : Tells(ret.value, request.custom[h])

(* A getter asked while lws has the headers answers "false", or hands a    *)
(* negative count to AppendChars, only if there is a reason to: the object *)
(* is not of the callback the getter is for, the client has not sent what  *)
(* it is asked for or has sent it empty, or GetUrlParam meets an argument, *)
(* up to the one it looks for, that its buffer cannot hold with name, "="  *)
(* and NUL.  GetKnownHeader_Enum is not about what it is asked for.        *)
NothingSentIsMissed == ~ret.stale /\ table =>
  /\ Refused("GetMethod") =>
       ret.object.reason = "body" \/ request.method \notin ToSet(MethodOrder)
  /\ Refused("GetUri") => ret.object.reason = "body"
  /\ Refused("GetBody") => ret.object.reason = "http" \/ ret.object.in = << >>
  /\ ~Refused("GetCustomHeader") /\ ~Refused("GetAllCustomHeaders")
  /\ Refused("GetKnownHeader_Int") => Stored(request, ret.key) = << >>
  /\ ~Refused("GetAllKnownHeaders")
  /\ Answered("GetAllKnownHeaders") =>
       \A t \in Tokens : Stored(request, t) # << >> => t \in DOMAIN ret.value
  /\ Refused("GetAllUrlParameters") => request.query = << >>
  /\ Refused("GetUrlParam") =>
       \E k \in DOMAIN request.query : request.query[k] = <<ret.key[1], "=">>
  /\ ret.status = "negative" =>
       CASE ret.getter = "GetCustomHeader" -> ret.key \notin DOMAIN request.custom
         [] ret.getter = "GetAllCustomHeaders" -> ~(ret.key \subseteq DOMAIN request.custom)
         [] ret.getter = "GetUrlParam" ->
              \A k \in DOMAIN request.query :
                IsPrefix(<<ret.key[1], "=">>, request.query[k]) =>
                  \E j \in 1..k : Length(request.query[j]) >= ret.key[2]
         [] OTHER -> FALSE

(* Words with "=" between them; of these, name=value and name=value= are   *)
(* what GetAllUrlParameters takes for a pair.                              *)
Simple(f) == \A i \in DOMAIN f : IF i % 2 = 0 THEN f[i] = "=" ELSE f[i] \in Words
Pairs(r)  == {k \in DOMAIN r.query : Simple(r.query[k]) /\ Len(r.query[k]) \in {3, 4}}

FoldedName(f) == Folded(Widened(<<f[1]>>))

(* GetUrlParam gives the value of the first argument with that very name,  *)
(* whatever the arguments are.  GetAllUrlParameters has every name of a    *)
(* pair, but for its case; and if no separator but "=" was decoded into    *)
(* the arguments, the pairs are all it has, the last of each name when     *)
(* case is ignored, without a "=" at the end.  So it shows one of a=1 and  *)
(* A=2, none of a=1=2 and b=, and 1 for a=1=, where GetUrlParam has all.   *)
ParametersAreTheArguments == ~ret.stale =>
  /\ Answered("GetUrlParam") =>
       \E k \in DOMAIN request.query :
         /\ IsPrefix(<<ret.key[1], "=">>, request.query[k])
         /\ \A j \in 1..(k - 1) : ~IsPrefix(<<ret.key[1], "=">>, request.query[j])
         /\ Tells(ret.value, SubSeq(request.query[k], 3, Len(request.query[k])))
  /\ Answered("GetAllUrlParameters") =>
       /\ \A k \in Pairs(request) :
            \E name \in DOMAIN ret.value : Folded(name) = FoldedName(request.query[k])
       /\ (\A k \in DOMAIN request.query : Simple(request.query[k])) =>
            LET f       == request.query
                last(k) == \A j \in Pairs(request) :
                             j > k => FoldedName(f[j]) # FoldedName(f[k])
            IN  {<<name, ret.value[name]>> : name \in DOMAIN ret.value} =
                  {<<Widened(<<f[k][1]>>), Widened(<<f[k][3]>>)>> :
                     k \in {k \in Pairs(request) : last(k)}}

(* The tooltip of GetUrlParam in FF_HTTP_LWS_Object.h: "Change buffer size *)
(* if you only need to get longer values than 1024 chars."                 *)
DefaultBufferHoldsTheValue ==
  ~ret.stale /\ table /\ ret.getter = "GetUrlParam" /\ ret.key[2] = 1024 =>
    LET k == FirstArgument(request, ret.key[1])
    IN  k # 0 /\ Length(SubSeq(request.query[k], 3, Len(request.query[k]))) <= 1024 =>
          ret.status # "negative"

(* lws-http.h on lws_hdr_custom_copy and lws_get_urlarg_by_name_safe:      *)
(* "This api returns -1, or the length", "Returns -1 if not present".      *)
CountsAreLengths == ~ret.stale => ret.status # "negative"
=============================================================================
