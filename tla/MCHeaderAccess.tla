--------------------------- MODULE MCHeaderAccess ---------------------------
(* Requests for TLC: every method with one query, and one method with each *)
(* query: no argument, plain ones, a repeated name, names that differ in   *)
(* case only, an empty value, a value with separators in it or at its end, *)
(* one beyond ASCII ("u", "widened" when its bytes are characters), and a  *)
(* long one.                                                               *)
EXTENDS HeaderAccess

LongValue == 1020   \* with name, "=" and NUL it does not fit into 1024

MCWordLen == [w \in Words |-> IF w = "long" THEN LongValue ELSE 3]
MCAscii   == Words \ {"u"}
MCWiden   == [w \in Words \cup Separators |-> IF w = "u" THEN "widened" ELSE w]
MCLower   == [w \in Words \cup Separators \cup {"widened"} |->
                IF w = "A" THEN "a" ELSE w]

MCMethods == {"GET", "POST", "PUT", "PATCH", "DELETE", "HEAD", "OPTIONS", "CONNECT"}
MCChunks  == {<<"b">>, <<"u", "=">>}

Plain(key, value) == <<key, "=", value>>

PlainQueries ==
  { << >>, <<Plain("a", "b")>>, <<Plain("a", "b"), Plain("b", "a")>>,
    <<Plain("a", "u"), Plain("u", "b")>> }

OtherQueries ==
  { <<Plain("a", "b"), Plain("a", "a")>>,
    <<Plain("a", "b"), Plain("A", "a")>>,
    << <<"a", "=">>, <<"b">> >>,
    << <<"a", "=", "b", "&", "b", "=", "a">>, Plain("u", "b")>>,
    << <<"a", "=", "b", "=", "a">>, Plain("b", "a")>>,
    << <<"a", "=", "b", "=">>, Plain("A", "u")>>,
    <<Plain("a", "long"), Plain("b", "a")>> }

OneRequest(method, uri, known, custom, query) ==
  [method |-> method, uri |-> <<uri>>, known |-> known, custom |-> custom,
   query |-> query]

KnownChoices  == [Headers -> {<< >>, <<"b">>}]
CustomChoices == UNION {[names -> {<< >>, <<"u">>}] : names \in SUBSET Names}

Some == [h \in Headers |-> IF h = "host" THEN <<"u", "b">> ELSE <<"b">>]

MCRequests ==
  {OneRequest(m, "u", Some, << >>, <<Plain("a", "b")>>) : m \in MCMethods} \cup
  {OneRequest("GET", "a", known, << >>, << >>) : known \in KnownChoices} \cup
  {OneRequest("POST", "a", Some, custom, << >>) : custom \in CustomChoices} \cup
  {OneRequest("GET", "a", Some, << >>, query) : query \in PlainQueries \cup OtherQueries}
=============================================================================
