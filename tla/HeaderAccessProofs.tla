------------------------- MODULE HeaderAccessProofs -------------------------
(***************************************************************************)
(* What the getters answer is what the client sent, for every request and  *)
(* however lws callbacks and kept objects follow each other.  An answer is *)
(* made in one step out of the request there is, so the proof is a lemma   *)
(* for each getter; what connects the steps is that lws has no headers     *)
(* once it has closed the connection, and that an object tells for its     *)
(* life in which callback it was made.                                     *)
(***************************************************************************)
EXTENDS HeaderAccess, SequenceSumsProofs, SequenceTheorems

(* A set of indices has a least one, which Min chooses.                    *)
LEMMA MinOf ==
  ASSUME NEW I \in SUBSET Nat, I # {}
  PROVE  Min(I) \in I /\ \A y \in I : Min(I) <= y
<1>1. \E x \in I : \A y \in I : <<y, x>> \notin Less
  BY LessIsWellFounded, WFMin, Zenon
<1>2. \E x \in I : \A y \in I : x <= y
  <2>1. PICK x \in I : \A y \in I : <<y, x>> \notin Less
    BY <1>1
  <2>2. ASSUME NEW y \in I PROVE x <= y
    <3>1. <<y, x>> \notin Less /\ x \in Nat /\ y \in Nat BY <2>1
    <3>2. ~(y < x) BY <3>1 DEF Less
    <3>3. QED BY <3>1, <3>2
  <2>3. QED BY <2>2
<1>3. QED BY <1>2 DEF Min

(* A text has a length, and only the empty one has none.                   *)
LEMMA LengthOf ==
  ASSUME NEW t \in Texts
  PROVE  Length(t) \in Nat /\ (Length(t) = 0 <=> t = << >>)
<1> DEFINE n == Len(t)
           d == [k \in 1..n |-> IF t[k] \in Separators THEN 1 ELSE WordLen[t[k]]]
<1>1. n \in Nat BY DEF Texts
<1>2. ASSUME NEW k \in 1..n PROVE d[k] \in Nat /\ d[k] >= 1
  <2>1. t[k] \in Words \cup Separators BY DEF Texts
  <2>2. QED BY <2>1, RequestsAssumption
<1>3. d \in Seq(Nat) /\ Len(d) = n
  BY <1>1, <1>2
<1>4. Length(t) = PartialSums(d)[n]
  BY <1>3 DEF Length, Total
<1> HIDE DEF d
<1>5. PartialSums(d)[0] = 0 /\ (n > 0 => PartialSums(d)[1] = PartialSums(d)[0] + d[1])
  BY <1>1, <1>3, PartialSumsEquations
<1>6. n > 0 => PartialSums(d)[1] <= PartialSums(d)[n] /\ PartialSums(d)[n] \in Nat
  BY <1>1, <1>3, PartialSumsGrow
<1>7. n = 0 <=> t = << >>
  BY DEF Texts
<1>8. QED BY <1>1, <1>2, <1>4, <1>5, <1>6, <1>7

-----------------------------------------------------------------------------
(* A function s is the joined fragments of q up to m.                      *)
JoinedUpTo(s, q, m) ==
  s = [k \in 0..m |-> IF k = 0 THEN << >>
                      ELSE IF k = 1 THEN q[k] ELSE s[k - 1] \o <<"&">> \o q[k]]

LEMMA JoinedExists ==
  ASSUME NEW q, NEW n \in Nat
  PROVE  \E s : JoinedUpTo(s, q, n)
<1> DEFINE S == {m \in Nat : \E s : JoinedUpTo(s, q, m)}
<1>1. 0 \in S
  <2>1. JoinedUpTo([k \in 0..0 |-> << >>], q, 0)
    BY DEF JoinedUpTo
  <2>2. QED BY <2>1
<1>2. ASSUME NEW m \in S PROVE m + 1 \in S
  <2>1. PICK s : JoinedUpTo(s, q, m)
    OBVIOUS
  <2> DEFINE new == IF m = 0 THEN q[1] ELSE s[m] \o <<"&">> \o q[m + 1]
             t == [k \in 0..(m + 1) |-> IF k = m + 1 THEN new ELSE s[k]]
  <2>2. ASSUME NEW k \in 0..(m + 1)
        PROVE  t[k] = IF k = 0 THEN << >>
                      ELSE IF k = 1 THEN q[k] ELSE t[k - 1] \o <<"&">> \o q[k]
    <3>1. CASE k = m + 1
      BY <3>1
    <3>2. CASE k # m + 1 /\ k # 0
      BY <3>2, <2>1 DEF JoinedUpTo
    <3>3. CASE k = 0
      BY <3>3, <2>1 DEF JoinedUpTo
    <3>4. QED BY <3>1, <3>2, <3>3
  <2>3. JoinedUpTo(t, q, m + 1)
    BY <2>2 DEF JoinedUpTo
  <2>4. QED BY <2>3
<1>3. \A m \in Nat : m \in S
  <2> HIDE DEF S
  <2>1. QED BY <1>1, <1>2, SetInduction
<1>4. QED BY <1>3

(* The equations Joined is defined by.                                     *)
LEMMA JoinedEquations ==
  ASSUME NEW q, Len(q) \in Nat
  PROVE  /\ Joined(q)[0] = << >>
         /\ Len(q) >= 1 => Joined(q)[1] = q[1]
         /\ \A k \in 2..Len(q) : Joined(q)[k] = Joined(q)[k - 1] \o <<"&">> \o q[k]
<1> DEFINE n == Len(q)
           j == Joined(q)
<1>1. j = [k \in 0..n |-> IF k = 0 THEN << >>
                      ELSE IF k = 1 THEN q[k] ELSE j[k - 1] \o <<"&">> \o q[k]]
  <2>1. \E s : JoinedUpTo(s, q, n) BY JoinedExists
  <2>2. JoinedUpTo(j, q, n) BY <2>1 DEF Joined, JoinedUpTo
  <2>3. QED BY <2>2 DEF JoinedUpTo
<1> HIDE DEF j
<1>2. \A k \in 0..n : j[k] = IF k = 0 THEN << >>
                    ELSE IF k = 1 THEN q[k] ELSE j[k - 1] \o <<"&">> \o q[k]
  BY <1>1
<1>3. j[0] = << >> BY <1>2
<1>4. n >= 1 => j[1] = q[1] BY <1>2
<1>5. ASSUME NEW k \in 2..n PROVE j[k] = j[k - 1] \o <<"&">> \o q[k]
  <2>1. k \in 0..n /\ k # 0 /\ k # 1 OBVIOUS
  <2>2. QED BY <1>2, <2>1, Zenon
<1>6. QED BY <1>3, <1>4, <1>5 DEF j

(* The aggregated arguments are a text, empty only if there are none.      *)
LEMMA QueryTextOf ==
  ASSUME NEW r \in Requests
  PROVE  QueryText(r) \in Texts /\ (QueryText(r) = << >> <=> r.query = << >>)
<1> DEFINE q == r.query
           n == Len(q)
           j == Joined(q)
<1>1. q \in Seq(Texts \ {<< >>}) /\ n \in Nat
  BY RequestsAssumption DEF Texts
<1>3. j[0] = << >> /\ (n >= 1 => j[1] = q[1])
      /\ \A k \in 2..n : j[k] = j[k - 1] \o <<"&">> \o q[k]
  BY <1>1, JoinedEquations
<1> HIDE DEF j
<1> DEFINE S == {m \in Nat : m + 1 <= n => j[m + 1] \in Texts \ {<< >>}}
<1>4. \A k \in 1..n : q[k] \in Texts \ {<< >>}
  BY <1>1
<1>5. 0 \in S
  BY <1>1, <1>3, <1>4
<1>6. ASSUME NEW m \in S PROVE m + 1 \in S
  <2>1. SUFFICES ASSUME (m + 1) + 1 <= n PROVE j[(m + 1) + 1] \in Texts \ {<< >>}
    OBVIOUS
  <2>2. j[m + 1] \in Texts \ {<< >>} /\ q[(m + 1) + 1] \in Texts \ {<< >>}
    BY <1>1, <1>4, <2>1
  <2>3. j[(m + 1) + 1] = j[m + 1] \o <<"&">> \o q[(m + 1) + 1]
    <3>1. (m + 1) + 1 \in 2..n /\ ((m + 1) + 1) - 1 = m + 1 BY <1>1, <2>1
    <3>2. QED BY <1>3, <3>1
  <2>4. <<"&">> \in Texts BY DEF Texts, Separators
  <2>5. \A a, b, c \in Texts : a # << >> => a \o b \o c \in Texts \ {<< >>}
    BY DEF Texts
  <2>6. QED BY <2>2, <2>3, <2>4, <2>5
<1>7. \A m \in Nat : m \in S
  <2> HIDE DEF S
  <2>1. QED BY <1>5, <1>6, SetInduction
<1>8. n # 0 => j[n] \in Texts \ {<< >>}
  <2>1. n # 0 => n - 1 \in Nat /\ (n - 1) + 1 = n BY <1>1
  <2>2. QED BY <1>1, <1>7, <2>1
<1>9. QED BY <1>1, <1>3, <1>8 DEF QueryText, j, Texts

-----------------------------------------------------------------------------
(* A text made of the bytes of another one tells them.                     *)
LEMMA WidenedTells ==
  ASSUME NEW t \in Texts
  PROVE  Tells(Widened(t), t)
<1> DEFINE D == DOMAIN t
<1>1. ASSUME NEW i \in D PROVE Widen[t[i]] = t[i] <=> t[i] \in Ascii \cup Separators
  <2>1. t[i] \in Words \cup Separators BY DEF Texts
  <2>2. CASE t[i] \in Words BY <2>2, RequestsAssumption
  <2>3. CASE t[i] \in Separators BY <2>3, RequestsAssumption
  <2>4. QED BY <2>1, <2>2, <2>3
<1>2. t = [i \in D |-> t[i]]
  BY DEF Texts
<1>3. Widened(t) = t <=> \A i \in D : Widen[t[i]] = t[i]
  <2>1. Widened(t) = [i \in D |-> Widen[t[i]]] BY DEF Widened
  <2>2. ASSUME Widened(t) = t, NEW i \in D PROVE Widen[t[i]] = t[i]
    <3>1. Widened(t)[i] = Widen[t[i]] BY <2>1
    <3>2. QED BY <2>2, <3>1
  <2>3. ASSUME \A i \in D : Widen[t[i]] = t[i] PROVE Widened(t) = t
    BY <1>2, <2>1, <2>3
  <2>4. QED BY <2>2, <2>3
<1>4. ToSet(t) = {t[i] : i \in D}
  BY DEF ToSet
<1>5. QED BY <1>1, <1>3, <1>4 DEF Tells

(* AppendChars takes a text with its length.                               *)
LEMMA AppendText ==
  ASSUME NEW t \in Texts
  PROVE  /\ AppendChars(t, Length(t)) = Yes(Widened(t))
         /\ Yes(Widened(t)).status = "yes" /\ Tells(Yes(Widened(t)).value, t)
  BY LengthOf, WidenedTells DEF AppendChars, Yes

(* Types, and: a connection that is gone has no headers.                   *)
TypeInv == TypeOK /\ (gone => ~table)

StatusSet == {"yes", "no", "negative"}

LEMMA Objects ==
  ASSUME TypeInv, NEW o \in {Params, kept}, o # NoObject
  PROVE  o \in Object
  BY DEF TypeInv, TypeOK

(* What a call of lws leaves in ret, unless it has read something gone.    *)
LEMMA CallResult ==
  ASSUME TypeInv, NEW o \in {Params, kept}, NEW getter \in Getters, NEW key, NEW reasons,
         NEW answer, answer.status \in StatusSet, NEW st \in BOOLEAN,
         Call(o, getter, key, reasons, answer, st)
  PROVE  /\ TypeInv' /\ o # NoObject
         /\ UNCHANGED <<request, serial, gone, table, Params, kept>>
         /\ ret'.getter = getter /\ ret'.key = key /\ ret'.object = o
         /\ ret'.status \in StatusSet
         /\ ~ret'.stale => \/ o.reason \notin reasons /\ ret'.status = "no"
                           \/ /\ o.reason \in reasons /\ ~gone /\ ~st
                              /\ ret'.status = answer.status /\ ret'.value = answer.value
         /\ ~gone => \/ o.reason \notin reasons /\ ret'.status = "no"
                     \/ ret'.status = answer.status /\ ret'.value = answer.value
<1>1. ASSUME NEW any, any.status \in StatusSet, NEW b \in BOOLEAN,
             Return(o, getter, key, reasons, any, b)
      PROVE  /\ TypeInv' /\ o # NoObject
             /\ UNCHANGED <<request, serial, gone, table, Params, kept>>
             /\ ret'.getter = getter /\ ret'.key = key /\ ret'.object = o
             /\ ret'.status \in StatusSet
             /\ ~ret'.stale => \/ o.reason \notin reasons /\ ret'.status = "no"
                               \/ /\ o.reason \in reasons /\ ~b
                                  /\ ret'.status = any.status /\ ret'.value = any.value
             /\ \/ o.reason \notin reasons /\ ret'.status = "no"
                \/ ret'.status = any.status /\ ret'.value = any.value
  <2> DEFINE given == IF o.reason \in reasons THEN any ELSE No
  <2>1. /\ o # NoObject
        /\ ret' = [getter |-> getter, key |-> key, object |-> o, status |-> given.status,
                   value |-> given.value, stale |-> b /\ o.reason \in reasons]
        /\ UNCHANGED <<connection, Params, kept>>
    BY <1>1 DEF Return
  <2>2. given.status \in StatusSet /\ (o.reason \notin reasons => given.status = "no")
    BY <1>1 DEF No, StatusSet
  <2>3. ret'.stale \in BOOLEAN /\ (ret'.stale <=> b /\ o.reason \in reasons)
    BY <2>1
  <2>4. TypeInv'
    BY <2>1, <2>2, <2>3 DEF TypeInv, TypeOK, connection, StatusSet, Getters
  <2>5. QED BY <2>1, <2>2, <2>3, <2>4 DEF connection
<1>2. CASE gone
  <2>1. PICK any \in {No, Yes(<< >>), Negative} :
          Return(o, getter, key, reasons, any, TRUE)
    BY <1>2 DEF Call
  <2>2. any.status \in StatusSet
    BY DEF No, Yes, Negative, StatusSet
  <2>3. QED BY <1>1, <1>2, <2>1, <2>2
<1>3. CASE ~gone
  BY <1>1, <1>3 DEF Call
<1>4. QED BY <1>2, <1>3

-----------------------------------------------------------------------------
LEMMA RequestTypes ==
  ASSUME TypeInv
  PROVE  /\ request \in Requests /\ request.method \in Methods
         /\ request.uri \in Texts /\ request.uri # << >>
         /\ \A h \in DOMAIN request.custom : request.custom[h] \in Texts
         /\ request.query \in Seq(Texts)
  BY RequestsAssumption DEF TypeInv, TypeOK, Texts

LEMMA StoredTypes ==
  ASSUME NEW r \in Requests
  PROVE  /\ \A t \in Tokens : Stored(r, t) \in Texts
         /\ \A m \in Methods : Stored(r, m) # << >> <=> m = r.method
         /\ Stored(r, URI_ARGS) = QueryText(r)
<1>1. /\ r.method \in Methods /\ r.uri \in Texts /\ r.uri # << >>
      /\ r.known \in [Headers -> Texts]
      /\ Methods \cap Headers = {} /\ URI_ARGS \notin Methods \cup Headers
  BY RequestsAssumption DEF Texts
<1>2. << >> \in Texts /\ QueryText(r) \in Texts
  BY QueryTextOf DEF Texts
<1>3. ASSUME NEW m \in Methods
      PROVE  Stored(r, m) = IF m = r.method THEN r.uri ELSE << >>
  BY <1>1 DEF Stored
<1>4. ASSUME NEW h \in Headers PROVE Stored(r, h) = r.known[h]
  BY <1>1 DEF Stored
<1>5. Stored(r, URI_ARGS) = QueryText(r)
  BY <1>1 DEF Stored
<1>6. QED BY <1>1, <1>2, <1>3, <1>4, <1>5 DEF Tokens

(* A known header that is there is answered in full: the buffer made from  *)
(* its length, one longer, is large enough.                                *)
LEMMA HeaderOf ==
  ASSUME TypeInv, NEW t \in Tokens
  PROVE  /\ lws_hdr_total_length(t) \in Nat
         /\ lws_hdr_total_length(t) = 0 <=> Header(t) = << >>
         /\ KnownHeader(t) = IF Header(t) = << >> THEN No ELSE Yes(Widened(Header(t)))
<1>1. Header(t) \in Texts
  BY RequestTypes, StoredTypes DEF Header, Texts
<1>2. /\ Length(Header(t)) \in Nat
      /\ Length(Header(t)) = 0 <=> Header(t) = << >>
  BY <1>1, LengthOf
<1>3. CopyLength(Header(t), Length(Header(t)) + 1) = Length(Header(t))
  BY <1>2 DEF CopyLength
<1>4. QED BY <1>2, <1>3 DEF lws_hdr_total_length, KnownHeader, AppendChars

(* So is a custom header whose name lws reads as it was asked for.         *)
LEMMA CustomIntact ==
  ASSUME TypeInv, NEW name
  PROVE  CustomHeader(Intact(name)) =
           IF HasCustom(name) THEN Yes(Widened(request.custom[name])) ELSE Negative
<1>1. CASE HasCustom(name)
  <2> DEFINE text == request.custom[name]
  <2>1. Length(text) \in Nat
    BY <1>1, RequestTypes, LengthOf DEF HasCustom
  <2>2. CustomBuffer(name) = Length(text) + 1
    BY <1>1 DEF CustomBuffer, lws_hdr_custom_length
  <2>3. CopyLength(text, CustomBuffer(name)) = Length(text)
    BY <2>1, <2>2 DEF CopyLength
  <2>4. QED BY <1>1, <2>1, <2>3 DEF CustomHeader, Intact, AppendChars
<1>2. CASE ~HasCustom(name)
  BY <1>2 DEF CustomHeader, Intact
<1>3. QED BY <1>1, <1>2

LEMMA AppendStatus ==
  ASSUME NEW text, NEW count
  PROVE  AppendChars(text, count).status \in {"yes", "negative"} /\ Negative.status = "negative"
  BY DEF AppendChars, Yes, Negative

(* Whatever name lws reads, a custom header it copies it copies in full.   *)
LEMMA CustomIsWhole ==
  ASSUME TypeInv, NEW read, CustomHeader(read).status = "yes"
  PROVE  \E h \in DOMAIN request.custom : Tells(CustomHeader(read).value, request.custom[h])
<1> DEFINE h == read[2]
           text == request.custom[h]
           count == CopyLength(text, CustomBuffer(read[1]))
<1>1. HasCustom(h) /\ CustomHeader(read) = AppendChars(text, count)
  BY DEF CustomHeader, Negative
<1> HIDE DEF count
<1>2. CustomHeader(read) = Yes(Widened(text))
  BY <1>1 DEF AppendChars, Negative
<1>3. h \in DOMAIN request.custom /\ text \in Texts
  BY <1>1, RequestTypes DEF HasCustom
<1>4. QED BY <1>2, <1>3, AppendText

-----------------------------------------------------------------------------
(* The theorems' properties together.                                      *)
Inv == TypeInv /\ AnswersAreTheRequests /\ NothingSentIsMissed

(* The one method token with a URI is the request's.                       *)
LEMMA MethodFound ==
  ASSUME TypeInv
  PROVE  LET k == SelectInSeq(MethodOrder, LAMBDA m : lws_hdr_total_length(m) > 0)
         IN  IF k = 0 THEN table => request.method \notin ToSet(MethodOrder)
             ELSE MethodOrder[k] = request.method
<1> DEFINE I == {n \in 1..Len(MethodOrder) : lws_hdr_total_length(MethodOrder[n]) > 0}
           k == SelectInSeq(MethodOrder, LAMBDA m : lws_hdr_total_length(m) > 0)
<1>1. k = IF I # {} THEN Min(I) ELSE 0
  BY DEF SelectInSeq
<1>2. Len(MethodOrder) = 7 /\ \A n \in 1..7 : MethodOrder[n] \in ToSet(MethodOrder)
  BY DEF MethodOrder, ToSet
<1>3. \A m \in ToSet(MethodOrder) : m \in Methods /\ m \in Tokens
  BY RequestsAssumption DEF Tokens
<1>4. ASSUME NEW m \in Methods, m \in Tokens
      PROVE  lws_hdr_total_length(m) > 0 <=> table /\ m = request.method
  <2>1. Header(m) # << >> <=> table /\ m = request.method
    BY <1>4, RequestTypes, StoredTypes DEF Header
  <2>2. QED BY <1>4, <2>1, HeaderOf
<1>5. CASE I # {}
  <2>1. Min(I) \in I
    <3>1. I \in SUBSET Nat BY <1>2
    <3>2. QED BY <1>5, <3>1, MinOf
  <2>2. k \in I /\ k # 0 BY <1>1, <1>2, <1>5, <2>1
  <2>3. MethodOrder[k] = request.method
    BY <1>2, <1>3, <1>4, <2>2
  <2>4. QED BY <2>2, <2>3
<1>6. CASE I = {}
  <2>1. k = 0 BY <1>1, <1>6
  <2>2. ASSUME table, request.method \in ToSet(MethodOrder) PROVE FALSE
    <3>1. PICK n \in 1..7 : MethodOrder[n] = request.method
      BY <2>2, <1>2 DEF ToSet, MethodOrder
    <3>2. lws_hdr_total_length(MethodOrder[n]) > 0
      BY <1>3, <1>4, <2>2, <3>1
    <3>3. QED BY <1>2, <1>6, <3>2
  <2>3. QED BY <2>1, <2>2
<1>7. QED BY <1>5, <1>6

LEMMA MethodAnswer ==
  ASSUME TypeInv, NEW o \in {Params, kept}, GetMethod(o)
  PROVE  Inv'
<1> DEFINE k == SelectInSeq(MethodOrder, LAMBDA m : lws_hdr_total_length(m) > 0)
           answer == IF k = 0 THEN No ELSE Yes(MethodOrder[k])
           reasons == {"http"}
           st == FALSE
<1>1. Call(o, "GetMethod", "none", reasons, answer, st) /\ st \in BOOLEAN
  BY DEF GetMethod
<1>2. /\ answer.status \in StatusSet
      /\ answer.status = "yes" => answer.value = request.method
      /\ answer.status = "no" /\ table => request.method \notin ToSet(MethodOrder)
      /\ answer.status # "negative"
  BY MethodFound DEF No, Yes, StatusSet
<1> HIDE DEF answer, reasons, st
<1>3. /\ TypeInv' /\ o # NoObject
      /\ UNCHANGED <<request, serial, gone, table, Params, kept>>
      /\ ret'.getter = "GetMethod" /\ ret'.object = o
      /\ ret'.status \in StatusSet
      /\ ~ret'.stale => \/ o.reason \notin reasons /\ ret'.status = "no"
                        \/ ret'.status = answer.status /\ ret'.value = answer.value
  BY <1>1, <1>2, CallResult DEF Getters
<1>4. AnswersAreTheRequests'
  BY <1>2, <1>3 DEF AnswersAreTheRequests, Answered
<1>5. NothingSentIsMissed'
  <2>1. o.reason \notin reasons => o.reason = "body"
    BY <1>3, Objects DEF Object, reasons
  <2>2. QED BY <1>2, <1>3, <2>1 DEF NothingSentIsMissed, Answered, Refused
<1>6. QED BY <1>3, <1>4, <1>5 DEF Inv

LEMMA UriAnswer ==
  ASSUME TypeInv, NEW o \in {Params, kept}, GetUri(o)
  PROVE  Inv'
<1>1. PICK uri \in (IF table THEN {request.uri} ELSE {}) \cup
              (IF table /\ request.method \in ToSet(MethodOrder) THEN {} ELSE {<< >>}) :
        Call(o, "GetUri", "none", {"http"},
             IF o.in = << >> THEN No ELSE AppendChars(uri, Length(uri)), FALSE)
  BY DEF GetUri
<1> DEFINE answer == IF o.in = << >> THEN No ELSE AppendChars(uri, Length(uri))
           reasons == {"http"}
           st == FALSE
           headers == table /\ request.method \in ToSet(MethodOrder)
<1>2. uri \in Texts /\ (uri = request.uri \/ (uri = << >> /\ ~headers))
  <2>1. << >> \in Texts BY DEF Texts
  <2>2. uri = request.uri \/ (uri = << >> /\ ~headers) OBVIOUS
  <2>3. QED BY <2>1, <2>2, RequestTypes
<1>3. (answer = No /\ o.in = << >>) \/ answer = Yes(Widened(uri))
  BY <1>2, AppendText
<1>4. Widened(<< >>) = << >>
  BY DEF Widened
<1>5. /\ answer.status \in StatusSet
      /\ answer.status = "yes" =>
           Tells(answer.value, request.uri) \/ (answer.value = << >> /\ ~headers)
      /\ answer.status = "no" => o.in = << >>
      /\ answer.status # "negative"
  <2>1. answer = No \/ (answer.status = "yes" /\ Tells(answer.value, uri))
    BY <1>2, <1>3, AppendText
  <2>2. uri = << >> /\ answer # No => answer.value = << >>
    BY <1>3, <1>4 DEF Yes
  <2>3. No.status = "no" /\ (answer = No => o.in = << >>)
    BY <1>3 DEF No, Yes
  <2> HIDE DEF answer, headers
  <2>4. QED BY <1>2, <2>1, <2>2, <2>3 DEF StatusSet
<1>6. Call(o, "GetUri", "none", reasons, answer, st) /\ st \in BOOLEAN
  BY <1>1
<1> HIDE DEF answer, reasons, st
<1>7. /\ TypeInv' /\ o # NoObject
      /\ UNCHANGED <<request, serial, gone, table, Params, kept>>
      /\ ret'.getter = "GetUri" /\ ret'.object = o
      /\ ret'.status \in StatusSet
      /\ ~ret'.stale => \/ o.reason \notin reasons /\ ret'.status = "no"
                        \/ ret'.status = answer.status /\ ret'.value = answer.value
  BY <1>5, <1>6, CallResult DEF Getters
<1>8. o.in # << >> \/ o.reason = "body"
  BY <1>7, Objects, RequestsAssumption DEF Object
<1>9. o.reason \notin reasons => o.reason = "body"
  BY <1>7, Objects DEF Object, reasons
<1>10. AnswersAreTheRequests'
  BY <1>5, <1>7 DEF AnswersAreTheRequests, Answered
<1>11. NothingSentIsMissed'
  BY <1>5, <1>7, <1>8, <1>9 DEF NothingSentIsMissed, Answered, Refused
<1>12. QED BY <1>7, <1>10, <1>11 DEF Inv

LEMMA BodyAnswer ==
  ASSUME TypeInv, NEW o \in {Params, kept}, GetBody(o)
  PROVE  Inv'
<1>1. PICK body \in IF o = Params THEN {o.in} ELSE Chunks \cup {o.in} :
        Return(o, "GetBody", "none", {"body"},
               IF o.in = << >> THEN No ELSE AppendChars(body, Length(body)), o # Params)
  BY DEF GetBody
<1> DEFINE any == IF o.in = << >> THEN No ELSE AppendChars(body, Length(body))
           given == IF o.reason \in {"body"} THEN any ELSE No
           old == o # Params
<1>2. /\ o # NoObject
      /\ ret' = [getter |-> "GetBody", key |-> "none", object |-> o, status |-> given.status,
                 value |-> given.value, stale |-> old /\ o.reason \in {"body"}]
      /\ UNCHANGED <<connection, Params, kept>>
  BY <1>1 DEF Return
<1>3. o.reason = "http" \/ (o.reason = "body" /\ o.in \in Texts)
  <2>1. Chunks \cup {<< >>} \subseteq Texts
    <3>1. << >> \in Texts BY DEF Texts
    <3>2. Chunks \subseteq Texts BY RequestsAssumption
    <3>3. QED BY <3>1, <3>2
  <2>2. o \in Object BY <1>2, Objects
  <2>3. o.reason = "http" \/ (o.reason = "body" /\ o.in \in Chunks \cup {<< >>})
    BY <2>2 DEF Object
  <2>4. QED BY <2>1, <2>3
<1>4. \/ given = No /\ (o.reason = "http" \/ o.in = << >>)
      \/ o.reason = "body" /\ given = Yes(Widened(body)) /\ body \in Texts
  <2>1. o.reason = "body" => body \in Texts
    BY <1>3, RequestsAssumption
  <2>2. QED BY <1>3, <2>1, AppendText
<1>5. /\ given.status \in {"yes", "no"}
      /\ given.status = "yes" => o.reason = "body" /\ Tells(given.value, body)
      /\ given.status = "no" => o.reason = "http" \/ o.in = << >>
  BY <1>4, AppendText DEF No, Yes
<1> HIDE DEF given, old
<1>6. /\ ret'.getter = "GetBody" /\ ret'.object = o /\ ret'.stale \in BOOLEAN
      /\ ret'.status = given.status /\ ret'.value = given.value
      /\ ret'.stale <=> old /\ o.reason = "body"
  BY <1>2
<1>7. TypeInv'
  BY <1>2, <1>5, <1>6 DEF TypeInv, TypeOK, connection, Getters
<1>8. AnswersAreTheRequests'
  <2>1. ~old => body = o.in BY DEF old
  <2>2. QED BY <1>5, <1>6, <2>1 DEF AnswersAreTheRequests, Answered
<1>9. NothingSentIsMissed'
  BY <1>5, <1>6 DEF NothingSentIsMissed, Answered, Refused
<1>10. QED BY <1>7, <1>8, <1>9 DEF Inv

LEMMA CustomAnswer ==
  ASSUME TypeInv, NEW o \in {Params, kept}, NEW name \in Names, GetCustomHeader(o, name)
  PROVE  Inv'
<1>1. PICK read \in Reads :
        Call(o, "GetCustomHeader", name, HeaderReasons, CustomHeader(read),
             read # Intact(name))
  BY DEF GetCustomHeader
<1>2. CustomHeader(read).status \in StatusSet
  BY AppendStatus DEF CustomHeader, StatusSet
<1>3. /\ TypeInv' /\ o # NoObject
      /\ UNCHANGED <<request, serial, gone, table, Params, kept>>
      /\ ret'.getter = "GetCustomHeader" /\ ret'.key = name /\ ret'.object = o
      /\ ret'.status \in StatusSet
      /\ ~ret'.stale => \/ o.reason \notin HeaderReasons /\ ret'.status = "no"
                        \/ /\ read = Intact(name)
                           /\ ret'.status = CustomHeader(read).status
                           /\ ret'.value = CustomHeader(read).value
      /\ ~gone /\ ret'.status = "yes" =>
           CustomHeader(read).status = "yes" /\ ret'.value = CustomHeader(read).value
  BY <1>1, <1>2, CallResult DEF Getters
<1>4. read = Intact(name) =>
        /\ CustomHeader(read).status = "yes" =>
             name \in DOMAIN request.custom /\ Tells(CustomHeader(read).value, request.custom[name])
        /\ CustomHeader(read).status = "negative" => ~HasCustom(name)
  BY CustomIntact, RequestTypes, AppendText DEF Yes, Negative, HasCustom
<1>5. AnswersAreTheRequests'
  BY <1>3, <1>4, CustomIsWhole DEF AnswersAreTheRequests, Answered
<1>6. NothingSentIsMissed'
  <2>1. o.reason \in HeaderReasons BY <1>3, Objects DEF Object, HeaderReasons
  <2>2. read = Intact(name) => CustomHeader(read).status # "no"
    BY CustomIntact DEF Yes, Negative
  <2>3. QED BY <1>3, <1>4, <2>1, <2>2 DEF NothingSentIsMissed, Answered, Refused, HasCustom
<1>7. QED BY <1>3, <1>5, <1>6 DEF Inv

LEMMA AllCustomAnswer ==
  ASSUME TypeInv, NEW o \in {Params, kept}, NEW names \in SUBSET Names,
         GetAllCustomHeaders(o, names)
  PROVE  Inv'
<1>1. PICK reads \in [names -> Reads] :
        Call(o, "GetAllCustomHeaders", names, HeaderReasons,
             IF \E h \in names : CustomHeader(reads[h]).status = "negative"
             THEN Negative
             ELSE Yes([h \in names |-> CustomHeader(reads[h]).value]),
             \E h \in names : reads[h] # Intact(h))
  BY DEF GetAllCustomHeaders
<1> DEFINE answer == IF \E h \in names : CustomHeader(reads[h]).status = "negative"
                     THEN Negative
                     ELSE Yes([h \in names |-> CustomHeader(reads[h]).value])
           st == \E h \in names : reads[h] # Intact(h)
<1>2. st \in BOOLEAN /\ answer.status \in {"yes", "negative"} /\ answer.status \in StatusSet
  BY DEF Negative, Yes, StatusSet
<1>3. Call(o, "GetAllCustomHeaders", names, HeaderReasons, answer, st)
  BY <1>1
<1>4. ASSUME ~st, NEW h \in names
      PROVE  CustomHeader(reads[h]) =
               IF HasCustom(h) THEN Yes(Widened(request.custom[h])) ELSE Negative
  BY <1>4, CustomIntact
<1>5. ~st =>
        /\ answer.status = "yes" => \A h \in names : h \in DOMAIN request.custom /\
                                       Tells(answer.value[h], request.custom[h])
        /\ answer.status = "negative" => \E h \in names : ~HasCustom(h)
  <2>1. SUFFICES ASSUME ~st
                 PROVE /\ answer.status = "yes" =>
                            \A h \in names : h \in DOMAIN request.custom /\
                                             Tells(answer.value[h], request.custom[h])
                       /\ answer.status = "negative" => \E h \in names : ~HasCustom(h)
    OBVIOUS
  <2>2. CASE \E h \in names : CustomHeader(reads[h]).status = "negative"
    <3>1. answer.status = "negative" BY <2>2 DEF Negative
    <3>2. \E h \in names : ~HasCustom(h)
      BY <1>4, <2>1, <2>2 DEF Yes
    <3>3. QED BY <3>1, <3>2
  <2>3. CASE ~\E h \in names : CustomHeader(reads[h]).status = "negative"
    <3>1. answer.status = "yes"
          /\ answer.value = [h \in names |-> CustomHeader(reads[h]).value]
      BY <2>3 DEF Yes
    <3>2. ASSUME NEW h \in names
          PROVE  h \in DOMAIN request.custom /\ Tells(answer.value[h], request.custom[h])
      <4>1. HasCustom(h) BY <1>4, <2>1, <2>3 DEF Negative
      <4>2. h \in DOMAIN request.custom /\ request.custom[h] \in Texts
        BY <4>1, RequestTypes DEF HasCustom
      <4>3. CustomHeader(reads[h]) = Yes(Widened(request.custom[h]))
        BY <1>4, <2>1, <4>1
      <4>4. Tells(CustomHeader(reads[h]).value, request.custom[h])
        BY <4>2, <4>3, AppendText
      <4>5. QED BY <3>1, <4>2, <4>4
    <3>3. QED BY <3>1, <3>2
  <2>4. QED BY <2>2, <2>3
<1> HIDE DEF answer, st
<1>6. /\ TypeInv' /\ o # NoObject
      /\ UNCHANGED <<request, serial, gone, table, Params, kept>>
      /\ ret'.getter = "GetAllCustomHeaders" /\ ret'.key = names /\ ret'.object = o
      /\ ret'.status \in StatusSet
      /\ ~ret'.stale => \/ o.reason \notin HeaderReasons /\ ret'.status = "no"
                        \/ /\ ~st /\ ret'.status = answer.status /\ ret'.value = answer.value
  BY <1>2, <1>3, CallResult DEF Getters
<1>7. AnswersAreTheRequests'
  BY <1>5, <1>6 DEF AnswersAreTheRequests, Answered
<1>8. NothingSentIsMissed'
  <2>1. o.reason \in HeaderReasons BY <1>6, Objects DEF Object, HeaderReasons
  <2>2. QED BY <1>2, <1>5, <1>6, <2>1 DEF NothingSentIsMissed, Answered, Refused, HasCustom
<1>9. QED BY <1>6, <1>7, <1>8 DEF Inv

(* What a known header's text and its absence come from.                   *)
LEMMA KnownHeaderTells ==
  ASSUME TypeInv, NEW t \in Tokens
  PROVE  /\ KnownHeader(t).status \in {"yes", "no"}
         /\ KnownHeader(t).status = "yes" => Tells(KnownHeader(t).value, Stored(request, t))
         /\ KnownHeader(t).status = "no" /\ table => Stored(request, t) = << >>
<1>1. KnownHeader(t) = IF Header(t) = << >> THEN No ELSE Yes(Widened(Header(t)))
  BY HeaderOf
<1>2. Header(t) # << >> => Header(t) = Stored(request, t) /\ Header(t) \in Texts
  BY RequestTypes, StoredTypes DEF Header
<1>3. QED BY <1>1, <1>2, AppendText DEF Yes, No, Header

LEMMA KnownEnumAnswer ==
  ASSUME TypeInv, NEW o \in {Params, kept}, NEW key \in Headers, GetKnownHeader_Enum(o, key)
  PROVE  Inv'
<1> DEFINE answer == KnownHeader(GET_URI)
           st == FALSE
<1>1. Call(o, "GetKnownHeader_Enum", key, HeaderReasons, answer, st) /\ st \in BOOLEAN
  BY DEF GetKnownHeader_Enum, ConvertLwsHeader
<1>2. /\ answer.status \in {"yes", "no"} /\ answer.status \in StatusSet
      /\ answer.status = "yes" => Tells(answer.value, Stored(request, GET_URI))
  <2>1. GET_URI \in Tokens
    BY RequestsAssumption DEF GET_URI, Tokens, MethodOrder, ToSet
  <2>2. QED BY <2>1, KnownHeaderTells DEF StatusSet
<1> HIDE DEF answer, st
<1>3. /\ TypeInv' /\ o # NoObject
      /\ UNCHANGED <<request, serial, gone, table, Params, kept>>
      /\ ret'.getter = "GetKnownHeader_Enum"
      /\ ~ret'.stale => \/ ret'.status = "no"
                        \/ ret'.status = answer.status /\ ret'.value = answer.value
  BY <1>1, <1>2, CallResult DEF Getters
<1>4. Stored(request, GET_URI)' = Stored(request, GET_URI)
  BY <1>3
<1>5. AnswersAreTheRequests'
  BY <1>2, <1>3, <1>4 DEF AnswersAreTheRequests, Answered
<1>6. NothingSentIsMissed'
  BY <1>2, <1>3 DEF NothingSentIsMissed, Answered, Refused
<1>7. QED BY <1>3, <1>5, <1>6 DEF Inv

LEMMA KnownIntAnswer ==
  ASSUME TypeInv, NEW o \in {Params, kept}, NEW token \in Tokens, GetKnownHeader_Int(o, token)
  PROVE  Inv'
<1> DEFINE answer == KnownHeader(token)
           st == FALSE
<1>1. Call(o, "GetKnownHeader_Int", token, HeaderReasons, answer, st) /\ st \in BOOLEAN
  BY DEF GetKnownHeader_Int
<1>2. /\ answer.status \in {"yes", "no"} /\ answer.status \in StatusSet
      /\ answer.status = "yes" => Tells(answer.value, Stored(request, token))
      /\ answer.status = "no" /\ table => Stored(request, token) = << >>
  BY KnownHeaderTells DEF StatusSet
<1> HIDE DEF answer, st
<1>3. /\ TypeInv' /\ o # NoObject
      /\ UNCHANGED <<request, serial, gone, table, Params, kept>>
      /\ ret'.getter = "GetKnownHeader_Int" /\ ret'.key = token /\ ret'.object = o
      /\ ~ret'.stale => \/ o.reason \notin HeaderReasons /\ ret'.status = "no"
                        \/ ret'.status = answer.status /\ ret'.value = answer.value
  BY <1>1, <1>2, CallResult DEF Getters
<1>4. Stored(request, ret.key)' = Stored(request, token)
  BY <1>3
<1>5. AnswersAreTheRequests'
  BY <1>2, <1>3, <1>4 DEF AnswersAreTheRequests, Answered
<1>6. NothingSentIsMissed'
  <2>1. o.reason \in HeaderReasons BY <1>3, Objects DEF Object, HeaderReasons
  <2>2. QED BY <1>2, <1>3, <1>4, <2>1 DEF NothingSentIsMissed, Answered, Refused
<1>7. QED BY <1>3, <1>5, <1>6 DEF Inv

LEMMA AllKnownAnswer ==
  ASSUME TypeInv, NEW o \in {Params, kept}, GetAllKnownHeaders(o)
  PROVE  Inv'
<1> DEFINE T == {t \in Tokens : lws_hdr_total_length(t) > 0}
           answer == Yes([t \in T |-> [String |-> KnownHeader(t).value,
                                       HeaderEnum |-> ConvertBpHeader(t)]])
           st == FALSE
<1>1. Call(o, "GetAllKnownHeaders", "none", HeaderReasons, answer, st) /\ st \in BOOLEAN
  BY DEF GetAllKnownHeaders
<1>2. answer.status = "yes" /\ answer.status \in StatusSet
  BY DEF Yes, StatusSet
<1>3. DOMAIN answer.value = T
  BY DEF Yes
<1>4. ASSUME NEW t \in T PROVE Tells(answer.value[t].String, Stored(request, t))
  <2>1. t \in Tokens /\ KnownHeader(t) = Yes(Widened(Header(t)))
    BY HeaderOf
  <2>2. answer.value[t].String = KnownHeader(t).value
    BY DEF Yes
  <2>3. KnownHeader(t).status = "yes" BY <2>1 DEF Yes
  <2>4. QED BY <2>1, <2>2, <2>3, KnownHeaderTells
<1>5. ASSUME NEW t \in Tokens, table, Stored(request, t) # << >> PROVE t \in T
  BY <1>5, HeaderOf DEF Header
<1> HIDE DEF answer, st, T
<1>6. /\ TypeInv' /\ o # NoObject
      /\ UNCHANGED <<request, serial, gone, table, Params, kept>>
      /\ ret'.getter = "GetAllKnownHeaders" /\ ret'.object = o
      /\ ~ret'.stale => \/ o.reason \notin HeaderReasons /\ ret'.status = "no"
                        \/ ret'.status = answer.status /\ ret'.value = answer.value
  BY <1>1, <1>2, CallResult DEF Getters
<1>7. \A t : Stored(request, t)' = Stored(request, t)
  BY <1>6
<1>8. AnswersAreTheRequests'
  BY <1>2, <1>3, <1>4, <1>6, <1>7 DEF AnswersAreTheRequests, Answered
<1>9. NothingSentIsMissed'
  <2>1. o.reason \in HeaderReasons BY <1>6, Objects DEF Object, HeaderReasons
  <2>2. QED BY <1>2, <1>3, <1>5, <1>6, <1>7, <2>1 DEF NothingSentIsMissed, Answered, Refused
<1>10. QED BY <1>6, <1>8, <1>9 DEF Inv

LEMMA AllParametersAnswer ==
  ASSUME TypeInv, NEW o \in {Params, kept}, GetAllUrlParameters(o)
  PROVE  Inv'
<1> DEFINE answer == IF lws_hdr_total_length(URI_ARGS) = 0 THEN No
                     ELSE Yes(PairMap(ParseIntoArray(Widened(Header(URI_ARGS)), "&")))
           st == FALSE
<1>1. Call(o, "GetAllUrlParameters", "none", HeaderReasons, answer, st) /\ st \in BOOLEAN
  BY DEF GetAllUrlParameters
<1>2. /\ answer.status \in {"yes", "no"} /\ answer.status \in StatusSet
      /\ answer.status = "no" => lws_hdr_total_length(URI_ARGS) = 0
  BY DEF Yes, No, StatusSet
<1> HIDE DEF answer, st
<1>3. lws_hdr_total_length(URI_ARGS) = 0 /\ table => request.query = << >>
  <2>1. URI_ARGS \in Tokens BY DEF Tokens
  <2>2. Header(URI_ARGS) = << >> /\ table => QueryText(request) = << >>
    BY RequestTypes, StoredTypes DEF Header
  <2>3. QED BY <2>1, <2>2, HeaderOf, RequestTypes, QueryTextOf
<1>4. /\ TypeInv' /\ o # NoObject
      /\ UNCHANGED <<request, serial, gone, table, Params, kept>>
      /\ ret'.getter = "GetAllUrlParameters" /\ ret'.object = o
      /\ ~ret'.stale => \/ o.reason \notin HeaderReasons /\ ret'.status = "no"
                        \/ ret'.status = answer.status
  BY <1>1, <1>2, CallResult DEF Getters
<1>5. AnswersAreTheRequests'
  BY <1>4 DEF AnswersAreTheRequests, Answered
<1>6. NothingSentIsMissed'
  <2>1. o.reason \in HeaderReasons BY <1>4, Objects DEF Object, HeaderReasons
  <2>2. QED BY <1>2, <1>3, <1>4, <2>1 DEF NothingSentIsMissed, Answered, Refused
<1>7. QED BY <1>4, <1>5, <1>6 DEF Inv

(* The fragment found is the first with the name and "=" in front.         *)
LEMMA FirstArgumentOf ==
  ASSUME TypeInv, NEW key
  PROVE  LET k == FirstArgument(request, key)
             q == request.query
             Has(n) == IsPrefix(<<key, "=">>, q[n])
         IN  /\ k = 0 => \A n \in DOMAIN q : ~Has(n)
             /\ k # 0 => /\ k \in DOMAIN q /\ k \in Nat /\ Has(k)
                         /\ \A n \in DOMAIN q : Has(n) => k <= n
                         /\ \A n \in 1..(k - 1) : ~Has(n)
                         /\ q[k] \in Texts /\ SubSeq(q[k], 3, Len(q[k])) \in Texts
<1> DEFINE q == request.query
           Has(n) == IsPrefix(<<key, "=">>, q[n])
           I == {n \in 1..Len(q) : Has(n)}
           k == FirstArgument(request, key)
<1>1. k = IF I # {} THEN Min(I) ELSE 0
  BY DEF FirstArgument, SelectInSeq
<1>2. q \in Seq(Texts) /\ DOMAIN q = 1..Len(q) /\ Len(q) \in Nat
  BY RequestTypes
<1> HIDE DEF Has
<1>3. I # {} => k \in I /\ \A n \in I : k <= n
  <2>1. SUFFICES ASSUME I # {} PROVE k \in I /\ \A n \in I : k <= n
    OBVIOUS
  <2>2. I \in SUBSET Nat OBVIOUS
  <2>3. Min(I) \in I /\ \A n \in I : Min(I) <= n BY <2>1, <2>2, MinOf
  <2>4. QED BY <1>1, <2>1, <2>3
<1>4. k = 0 => \A n \in DOMAIN q : ~Has(n)
  BY <1>1, <1>2, <1>3
<1>5. ASSUME NEW t \in Texts PROVE SubSeq(t, 3, Len(t)) \in Texts
  BY DEF Texts
<1>6. k # 0 => /\ k \in DOMAIN q /\ k \in Nat /\ Has(k)
               /\ \A n \in DOMAIN q : Has(n) => k <= n
               /\ \A n \in 1..(k - 1) : ~Has(n)
               /\ q[k] \in Texts /\ SubSeq(q[k], 3, Len(q[k])) \in Texts
  <2>1. SUFFICES ASSUME k # 0
                 PROVE  /\ k \in DOMAIN q /\ k \in Nat /\ Has(k)
                        /\ \A n \in DOMAIN q : Has(n) => k <= n
                        /\ \A n \in 1..(k - 1) : ~Has(n)
                        /\ q[k] \in Texts /\ SubSeq(q[k], 3, Len(q[k])) \in Texts
    OBVIOUS
  <2>2. k \in I /\ \A n \in I : k <= n BY <1>1, <1>3, <2>1
  <2>3. k \in 1..Len(q) /\ Has(k) /\ q[k] \in Texts BY <1>2, <2>2
  <2>4. \A n \in DOMAIN q : Has(n) => k <= n BY <1>2, <2>2
  <2>5. \A n \in 1..(k - 1) : n \in DOMAIN q /\ ~(k <= n) BY <1>2, <2>3
  <2> HIDE DEF k, q
  <2>6. QED BY <1>2, <1>5, <2>3, <2>4, <2>5
<1>7. QED BY <1>4, <1>6 DEF Has

(* A text with a name and "=" in front and nothing behind is these two.    *)
LEMMA EmptyValue ==
  ASSUME NEW key, NEW f \in Texts, IsPrefix(<<key, "=">>, f), SubSeq(f, 3, Len(f)) = << >>
  PROVE  f = <<key, "=">>
<1> DEFINE name == <<key, "=">>
           W == Words \cup Separators
<1>1. f \in Seq(W) /\ Len(f) \in Nat BY DEF Texts
<1>2. Len(name) = 2 OBVIOUS
<1>3. 2 <= Len(f) /\ name = SubSeq(f, 1, 2)
  <2> HIDE DEF name
  <2>1. QED BY <1>1, <1>2 DEF IsPrefix, name
<1>4. Len(f) = 2
  <2> DEFINE value == SubSeq(f, 3, Len(f))
  <2>1. \A i \in 3..Len(f) : f[i] \in W BY <1>1
  <2>2. Len(value) = IF 3 <= Len(f) THEN Len(f) - 3 + 1 ELSE 0
    BY <1>1, <2>1, SubSeqProperties
  <2>3. value = << >> OBVIOUS
  <2> HIDE DEF name, W, value
  <2>4. Len(value) = 0 BY <2>3
  <2>5. QED BY <1>1, <1>3, <2>2, <2>4
<1>5. \A s \in Seq(W) : Len(s) = 2 => SubSeq(s, 1, 2) = s
  OBVIOUS
<1>6. QED BY <1>1, <1>3, <1>4, <1>5

LEMMA ParameterAnswer ==
  ASSUME TypeInv, NEW o \in {Params, kept}, NEW key \in Words, NEW size \in BufferSizes,
         GetUrlParam(o, key, size)
  PROVE  Inv'
<1> DEFINE q      == request.query
           k      == FirstArgument(request, key)
           found  == table /\ k # 0 /\ ArgumentFits(request, key, BufferSize(size))
           value  == SubSeq(q[k], 3, Len(q[k]))
           answer == IF ~found THEN Negative
                     ELSE IF value = << >> THEN No ELSE AppendChars(value, Length(value))
           question == <<key, BufferSize(size)>>
           st     == FALSE
           Missed(n) == IsPrefix(<<key, "=">>, q[n]) =>
                          \E j \in 1..n : Length(q[j]) >= BufferSize(size)
<1>1. Call(o, "GetUrlParam", question, HeaderReasons, answer, st) /\ st \in BOOLEAN
  BY DEF GetUrlParam
<1>2. k # 0 => AppendChars(value, Length(value)) = Yes(Widened(value))
  BY FirstArgumentOf, AppendText
<1>3. answer.status \in StatusSet
  BY <1>2 DEF No, Yes, Negative, StatusSet
<1>4. answer.status = "no" => \E n \in DOMAIN q : q[n] = <<key, "=">>
  <2>1. SUFFICES ASSUME answer.status = "no" PROVE q[k] = <<key, "=">> /\ k \in DOMAIN q
    OBVIOUS
  <2>2. k # 0 /\ value = << >> BY <1>2, <2>1 DEF No, Yes, Negative
  <2>3. /\ k \in DOMAIN q /\ q[k] \in Texts /\ IsPrefix(<<key, "=">>, q[k])
        /\ SubSeq(q[k], 3, Len(q[k])) = << >>
    BY <2>2, FirstArgumentOf
  <2> HIDE DEF k, q
  <2>4. QED BY <2>3, EmptyValue
<1>5. answer.status = "negative" /\ table => \A n \in DOMAIN q : Missed(n)
  <2>1. SUFFICES ASSUME answer.status = "negative", table, NEW n \in DOMAIN q,
                        IsPrefix(<<key, "=">>, q[n])
                 PROVE  \E j \in 1..n : Length(q[j]) >= BufferSize(size)
    OBVIOUS
  <2>2. ~found BY <1>2, <2>1 DEF No, Yes, Negative
  <2>3. k # 0 /\ k \in Nat /\ k <= n BY <2>1, FirstArgumentOf
  <2>4. PICK j \in 1..k : ~(Length(q[j]) < BufferSize(size))
    BY <2>1, <2>2, <2>3 DEF ArgumentFits
  <2>5. DOMAIN q = 1..Len(q) /\ q \in Seq(Texts) /\ Len(q) \in Nat BY RequestTypes
  <2>6. j \in 1..n /\ j \in 1..Len(q) BY <2>3, <2>4, <2>5
  <2>7. Length(q[j]) \in Nat BY <2>5, <2>6, LengthOf
  <2>8. BufferSize(size) \in Int BY RequestsAssumption DEF BufferSize
  <2> HIDE DEF k, q
  <2>9. Length(q[j]) >= BufferSize(size) BY <2>4, <2>7, <2>8
  <2>10. QED BY <2>6, <2>9
<1>6. question[1] = key /\ question[2] = BufferSize(size)
  OBVIOUS
<1> HIDE DEF answer, st, question
<1>7. /\ TypeInv' /\ o # NoObject
      /\ UNCHANGED <<request, serial, gone, table, Params, kept>>
      /\ ret'.getter = "GetUrlParam" /\ ret'.key = question /\ ret'.object = o
      /\ ~ret'.stale => \/ o.reason \notin HeaderReasons /\ ret'.status = "no"
                        \/ ret'.status = answer.status
  BY <1>1, <1>3, CallResult DEF Getters
<1>8. AnswersAreTheRequests'
  BY <1>7 DEF AnswersAreTheRequests, Answered
<1>9. NothingSentIsMissed'
  <2>1. o.reason \in HeaderReasons BY <1>7, Objects DEF Object, HeaderReasons
  <2>2. ret'.key[1] = key /\ ret'.key[2] = BufferSize(size) /\ request' = request
    BY <1>6, <1>7
  <2>3. ~ret'.stale /\ ret'.status = "no" =>
          \E n \in DOMAIN q : q[n] = <<ret'.key[1], "=">>
    BY <1>4, <1>7, <2>1, <2>2
  <2>4. ~ret'.stale /\ table' /\ ret'.status = "negative" =>
          \A n \in DOMAIN q : IsPrefix(<<ret'.key[1], "=">>, q[n]) =>
            \E j \in 1..n : Length(q[j]) >= ret'.key[2]
    BY <1>5, <1>7, <2>1, <2>2
  <2>5. QED BY <1>7, <2>2, <2>3, <2>4 DEF NothingSentIsMissed, Answered, Refused
<1>10. QED BY <1>7, <1>8, <1>9 DEF Inv

-----------------------------------------------------------------------------
(* A function s holds the parts of t up to m.                              *)
PartsUpTo(s, t, sep, m) ==
  s = [k \in 0..m |->
         IF k = 0 THEN << >>
         ELSE IF t[k] = sep THEN s[k - 1]
         ELSE IF k = 1 \/ t[k - 1] = sep THEN Append(s[k - 1], <<t[k]>>)
         ELSE [s[k - 1] EXCEPT ![Len(s[k - 1])] = Append(@, t[k])]]

LEMMA PartsExist ==
  ASSUME NEW t, NEW sep, NEW n \in Nat
  PROVE  \E s : PartsUpTo(s, t, sep, n)
<1> DEFINE S == {m \in Nat : \E s : PartsUpTo(s, t, sep, m)}
<1>1. 0 \in S
  <2>1. PartsUpTo([k \in 0..0 |-> << >>], t, sep, 0)
    BY DEF PartsUpTo
  <2>2. QED BY <2>1
<1>2. ASSUME NEW m \in S PROVE m + 1 \in S
  <2>1. PICK s : PartsUpTo(s, t, sep, m)
    OBVIOUS
  <2> DEFINE new == IF t[m + 1] = sep THEN s[m]
                    ELSE IF m = 0 \/ t[m] = sep THEN Append(s[m], <<t[m + 1]>>)
                    ELSE [s[m] EXCEPT ![Len(s[m])] = Append(@, t[m + 1])]
             u == [k \in 0..(m + 1) |-> IF k = m + 1 THEN new ELSE s[k]]
             at(v, k) == IF k = 0 THEN << >>
                         ELSE IF t[k] = sep THEN v[k - 1]
                         ELSE IF k = 1 \/ t[k - 1] = sep THEN Append(v[k - 1], <<t[k]>>)
                         ELSE [v[k - 1] EXCEPT ![Len(v[k - 1])] = Append(@, t[k])]
  <2>2. ASSUME NEW k \in 0..(m + 1) PROVE u[k] = at(u, k)
    <3>1. CASE k = m + 1
      <4>1. k # 0 /\ k - 1 = m /\ u[k - 1] = s[m] /\ (k = 1 <=> m = 0) BY <3>1
      <4>2. u[k] = new BY <3>1
      <4>3. QED BY <3>1, <4>1, <4>2
    <3>2. CASE k # m + 1 /\ k # 0
      <4>1. k \in 0..m /\ u[k] = s[k] /\ u[k - 1] = s[k - 1] BY <3>2
      <4>2. s[k] = at(s, k) BY <2>1, <4>1 DEF PartsUpTo
      <4>3. QED BY <4>1, <4>2
    <3>3. CASE k = 0
      <4>1. s[0] = << >> BY <2>1 DEF PartsUpTo
      <4>2. QED BY <3>3, <4>1
    <3>4. QED BY <3>1, <3>2, <3>3
  <2>3. PartsUpTo(u, t, sep, m + 1)
    <3>1. u = [k \in 0..(m + 1) |-> at(u, k)]
      <4>1. u = [k \in 0..(m + 1) |-> u[k]] OBVIOUS
      <4> HIDE DEF u, at
      <4>2. QED BY <2>2, <4>1
    <3>2. QED BY <3>1 DEF PartsUpTo
  <2>4. QED BY <2>3
<1>3. \A m \in Nat : m \in S
  <2> HIDE DEF S
  <2>1. QED BY <1>1, <1>2, SetInduction
<1>4. QED BY <1>3

(* What element k of t makes of the parts of the elements before it.       *)
Grown(ps, t, sep, k) ==
  IF t[k] = sep THEN ps
  ELSE IF k = 1 \/ t[k - 1] = sep THEN Append(ps, <<t[k]>>)
  ELSE [ps EXCEPT ![Len(ps)] = Append(ps[Len(ps)], t[k])]

(* The equations Parts is defined by.                                      *)
LEMMA PartsEquations ==
  ASSUME NEW t, NEW sep, Len(t) \in Nat
  PROVE  /\ Parts(t, sep)[0] = << >>
         /\ \A k \in 1..Len(t) : Parts(t, sep)[k] = Grown(Parts(t, sep)[k - 1], t, sep, k)
<1> DEFINE p == Parts(t, sep)
<1>1. \E s : PartsUpTo(s, t, sep, Len(t))
  BY PartsExist
<1>2. PartsUpTo(p, t, sep, Len(t))
  BY <1>1 DEF Parts, PartsUpTo
<1> HIDE DEF p
<1>3. p[0] = << >>
  BY <1>2 DEF PartsUpTo
<1>4. ASSUME NEW k \in 1..Len(t)
      PROVE  p[k] = Grown(p[k - 1], t, sep, k)
  <2>1. k \in 0..Len(t) /\ k # 0 OBVIOUS
  <2>2. QED BY <1>2, <2>1 DEF PartsUpTo, Grown
<1>5. QED BY <1>3, <1>4 DEF p

(* The parts are sequences, and there is one after an element that is none *)
(* of the separators.                                                      *)
LEMMA PartsTypes ==
  ASSUME NEW P, NEW t \in Seq(P), NEW sep
  PROVE  \A k \in 0..Len(t) :
           /\ Parts(t, sep)[k] \in Seq(Seq(P))
           /\ k # 0 => (t[k] # sep => Parts(t, sep)[k] # << >>)
<1> DEFINE p == Parts(t, sep)
           Ok(k) == p[k] \in Seq(Seq(P)) /\ (k # 0 => (t[k] # sep => p[k] # << >>))
           S == {k \in Nat : k <= Len(t) => Ok(k)}
<1>1. Len(t) \in Nat /\ \A k \in 1..Len(t) : t[k] \in P
  BY ElementOfSeq
<1>2. p[0] = << >> /\ \A k \in 1..Len(t) : p[k] = Grown(p[k - 1], t, sep, k)
  BY <1>1, PartsEquations
<1> HIDE DEF p
<1>3. 0 \in S
  <2>1. Ok(0) BY <1>2
  <2> HIDE DEF Ok
  <2>2. QED BY <2>1
<1>4. ASSUME NEW m \in S PROVE m + 1 \in S
  <2> DEFINE k == m + 1
             ps == p[m]
  <2>1. SUFFICES ASSUME k <= Len(t) PROVE Ok(k)
    OBVIOUS
  <2>2. /\ m \in Nat /\ k \in 1..Len(t) /\ k - 1 = m /\ t[k] \in P
        /\ (k = 1 <=> m = 0) /\ k # 0
    BY <1>1, <2>1
  <2>3. ps \in Seq(Seq(P)) /\ (m # 0 => (t[m] # sep => ps # << >>))
    BY <2>1, <2>2
  <2> HIDE DEF k
  <2>4. p[k] = IF t[k] = sep THEN ps
               ELSE IF k = 1 \/ t[m] = sep THEN Append(ps, <<t[k]>>)
               ELSE [ps EXCEPT ![Len(ps)] = Append(ps[Len(ps)], t[k])]
    BY <1>2, <2>2 DEF Grown
  <2> HIDE DEF ps
  <2>5. CASE t[k] = sep
    BY <2>3, <2>4, <2>5
  <2>6. CASE t[k] # sep /\ (k = 1 \/ t[m] = sep)
    <3>1. p[k] = Append(ps, <<t[k]>>) BY <2>4, <2>6
    <3>2. <<t[k]>> \in Seq(P) BY <2>2
    <3>3. Append(ps, <<t[k]>>) \in Seq(Seq(P)) /\ Append(ps, <<t[k]>>) # << >>
      BY <2>3, <3>2
    <3>4. QED BY <3>1, <3>3
  <2>7. CASE t[k] # sep /\ k # 1 /\ t[m] # sep
    <3>1. ps # << >> /\ Len(ps) \in 1..Len(ps)
      <4>1. ps # << >> BY <2>2, <2>3, <2>7
      <4>2. QED BY <2>3, <4>1, EmptySeq
    <3>2. ps[Len(ps)] \in Seq(P) BY <2>3, <3>1, ElementOfSeq
    <3>3. Append(ps[Len(ps)], t[k]) \in Seq(P) BY <2>2, <3>2
    <3>4. p[k] = [ps EXCEPT ![Len(ps)] = Append(ps[Len(ps)], t[k])]
      BY <2>4, <2>7
    <3>5. p[k] \in Seq(Seq(P)) /\ Len(p[k]) = Len(ps)
      BY <2>3, <3>1, <3>3, <3>4, ExceptSeq
    <3>6. Len(ps) # 0 BY <2>3, <3>1
    <3>7. QED BY <3>5, <3>6
  <2>8. QED BY <2>5, <2>6, <2>7
<1>5. \A m \in Nat : m \in S
  <2> HIDE DEF S
  <2>1. QED BY <1>3, <1>4, SetInduction
<1>6. QED BY <1>1, <1>5 DEF p

(* The parts of the first elements do not depend on the others.            *)
LEMMA PartsOfPrefix ==
  ASSUME NEW P, NEW a \in Seq(P), NEW u \in Seq(P), NEW sep, Len(a) <= Len(u),
         \A i \in 1..Len(a) : u[i] = a[i]
  PROVE  \A i \in 0..Len(a) : Parts(u, sep)[i] = Parts(a, sep)[i]
<1> DEFINE pa == Parts(a, sep)
           pu == Parts(u, sep)
           S  == {i \in Nat : i <= Len(a) => pu[i] = pa[i]}
<1>1. Len(a) \in Nat /\ Len(u) \in Nat
  OBVIOUS
<1>2. pa[0] = << >> /\ \A k \in 1..Len(a) : pa[k] = Grown(pa[k - 1], a, sep, k)
  BY <1>1, PartsEquations
<1>3. pu[0] = << >> /\ \A k \in 1..Len(u) : pu[k] = Grown(pu[k - 1], u, sep, k)
  BY <1>1, PartsEquations
<1> HIDE DEF pa, pu
<1>4. 0 \in S
  BY <1>2, <1>3
<1>5. ASSUME NEW m \in S PROVE m + 1 \in S
  <2>1. SUFFICES ASSUME m + 1 <= Len(a) PROVE pu[m + 1] = pa[m + 1]
    OBVIOUS
  <2>2. m \in Nat /\ pu[m] = pa[m] /\ (m + 1) - 1 = m /\ m + 1 \in 1..Len(a)
        /\ m + 1 \in 1..Len(u) /\ (m + 1 = 1 <=> m = 0)
    BY <1>1, <2>1
  <2>3. u[m + 1] = a[m + 1] /\ (m # 0 => u[m] = a[m])
    BY <1>1, <2>1, <2>2
  <2>4. Grown(pa[m], u, sep, m + 1) = Grown(pa[m], a, sep, m + 1)
    <3>1. CASE m = 0 BY <2>2, <2>3, <3>1 DEF Grown
    <3>2. CASE m # 0 BY <2>2, <2>3, <3>2 DEF Grown
    <3>3. QED BY <3>1, <3>2
  <2>5. QED BY <1>2, <1>3, <2>2, <2>4
<1>6. \A m \in Nat : m \in S
  <2> HIDE DEF S
  <2>1. QED BY <1>4, <1>5, SetInduction
<1>7. QED BY <1>1, <1>6 DEF pa, pu

(* Names that keep the provers from expanding what they stand for.         *)
Behind(A, B) == A \o B
Added1(B, x) == Append(B, x)

(* Adding a part, or to the last part, is the same before and after        *)
(* another sequence of parts is put in front.                              *)
LEMMA AppendBehind ==
  ASSUME NEW X, NEW A \in Seq(X), NEW B \in Seq(X), NEW x \in X
  PROVE  Added1(Behind(A, B), x) = Behind(A, Added1(B, x))
<1> DEFINE AB == A \o B
<1>1. /\ AB \in Seq(X) /\ Len(AB) = Len(A) + Len(B) /\ Len(A) \in Nat /\ Len(B) \in Nat
      /\ \A i \in 1..(Len(A) + Len(B)) :
           AB[i] = IF i <= Len(A) THEN A[i] ELSE B[i - Len(A)]
  BY ConcatProperties
<1>2. Append(AB, x) = A \o Append(B, x)
  <2> DEFINE Bx == Append(B, x)
             left == Append(AB, x)
             right == A \o Bx
  <2>1. /\ Bx \in Seq(X) /\ Len(Bx) = Len(B) + 1 /\ Bx[Len(B) + 1] = x
        /\ \A i \in 1..Len(B) : Bx[i] = B[i]
    OBVIOUS
  <2>2. /\ left \in Seq(X) /\ Len(left) = Len(AB) + 1 /\ left[Len(AB) + 1] = x
        /\ \A i \in 1..Len(AB) : left[i] = AB[i]
    <3> HIDE DEF AB
    <3>1. QED BY <1>1
  <2> HIDE DEF Bx, AB, left
  <2>3. /\ right \in Seq(X) /\ Len(right) = Len(A) + Len(Bx)
        /\ \A i \in 1..(Len(A) + Len(Bx)) :
             right[i] = IF i <= Len(A) THEN A[i] ELSE Bx[i - Len(A)]
    BY <2>1, ConcatProperties
  <2> HIDE DEF right
  <2>4. ASSUME NEW i \in 1..Len(left) PROVE left[i] = right[i]
    <3>1. CASE i <= Len(A)
      <4>1. i \in 1..Len(AB) /\ i \in 1..(Len(A) + Len(B)) /\ i \in 1..(Len(A) + Len(Bx))
        BY <1>1, <2>1, <2>2, <3>1
      <4>2. right[i] = A[i] BY <2>3, <3>1, <4>1
      <4>3. AB[i] = A[i] BY <1>1, <3>1, <4>1
      <4>4. QED BY <2>2, <4>1, <4>2, <4>3
    <3>2. CASE i > Len(A) /\ i # Len(left)
      <4>1. i - Len(A) \in 1..Len(B) /\ i \in 1..Len(AB) /\ ~(i <= Len(A))
        BY <1>1, <2>2, <3>2
      <4>2. i \in 1..(Len(A) + Len(B)) /\ i \in 1..(Len(A) + Len(Bx)) BY <1>1, <2>1, <4>1
      <4>3. right[i] = Bx[i - Len(A)] BY <2>3, <4>1, <4>2
      <4>4. AB[i] = B[i - Len(A)] BY <1>1, <4>1, <4>2
      <4>5. Bx[i - Len(A)] = B[i - Len(A)] BY <2>1, <4>1
      <4>6. QED BY <2>2, <4>1, <4>3, <4>4, <4>5
    <3>3. CASE i > Len(A) /\ i = Len(left)
      <4>1. i - Len(A) = Len(B) + 1 /\ i = Len(AB) + 1 /\ ~(i <= Len(A))
            /\ i \in 1..(Len(A) + Len(Bx))
        BY <1>1, <2>1, <2>2, <3>3
      <4>2. QED BY <2>1, <2>2, <2>3, <4>1
    <3>4. Len(left) \in Nat BY <1>1, <2>2
    <3>5. QED BY <1>1, <3>1, <3>2, <3>3, <3>4
  <2>5. Len(left) = Len(right) BY <1>1, <2>1, <2>2, <2>3
  <2>6. left = right BY <2>2, <2>3, <2>4, <2>5, SeqEqual
  <2>7. QED BY <2>6 DEF left, right, Bx, AB
<1>3. QED BY <1>2 DEF AB, Behind, Added1

LEMMA ExceptBehind ==
  ASSUME NEW X, NEW A \in Seq(X), NEW B \in Seq(X), NEW x \in X, B # << >>
  PROVE  /\ (A \o B)[Len(A \o B)] = B[Len(B)]
         /\ [A \o B EXCEPT ![Len(A \o B)] = x] = A \o [B EXCEPT ![Len(B)] = x]
<1> DEFINE AB == A \o B
<1>1. /\ AB \in Seq(X) /\ Len(AB) = Len(A) + Len(B) /\ Len(A) \in Nat /\ Len(B) \in Nat
      /\ \A i \in 1..(Len(A) + Len(B)) :
           AB[i] = IF i <= Len(A) THEN A[i] ELSE B[i - Len(A)]
  BY ConcatProperties
<1>2. /\ AB[Len(AB)] = B[Len(B)]
      /\ [AB EXCEPT ![Len(AB)] = x] = A \o [B EXCEPT ![Len(B)] = x]
  <2> DEFINE last == Len(B)
             Bx == [B EXCEPT ![last] = x]
             left == [AB EXCEPT ![Len(AB)] = x]
             right == A \o Bx
  <2>1. last \in 1..Len(B) /\ Len(B) # 0 BY EmptySeq
  <2>2. Len(AB) \in 1..Len(AB) BY <1>1, <2>1
  <2>3. AB[Len(AB)] = B[last]
    <3>1. ~(Len(AB) <= Len(A)) /\ Len(AB) - Len(A) = last BY <1>1, <2>1
    <3>2. QED BY <1>1, <2>2, <3>1
  <2>4. /\ Bx \in Seq(X) /\ Len(Bx) = Len(B)
        /\ \A j \in 1..Len(B) : Bx[j] = IF j = last THEN x ELSE B[j]
    BY <2>1, ExceptSeq
  <2> HIDE DEF AB
  <2>5. /\ left \in Seq(X) /\ Len(left) = Len(AB)
        /\ \A j \in 1..Len(AB) : left[j] = IF j = Len(AB) THEN x ELSE AB[j]
    BY <1>1, <2>2, ExceptSeq
  <2> HIDE DEF Bx, left
  <2>6. /\ right \in Seq(X) /\ Len(right) = Len(A) + Len(Bx)
        /\ \A i \in 1..(Len(A) + Len(Bx)) :
             right[i] = IF i <= Len(A) THEN A[i] ELSE Bx[i - Len(A)]
    BY <2>4, ConcatProperties
  <2> HIDE DEF right
  <2>7. ASSUME NEW i \in 1..Len(left) PROVE left[i] = right[i]
    <3>1. CASE i <= Len(A)
      <4>1. i \in 1..Len(AB) /\ i \in 1..(Len(A) + Len(B)) /\ i \in 1..(Len(A) + Len(Bx))
            /\ i # Len(AB)
        BY <1>1, <2>1, <2>4, <2>5, <3>1
      <4>2. right[i] = A[i] BY <2>6, <3>1, <4>1
      <4>3. AB[i] = A[i] BY <1>1, <3>1, <4>1
      <4>4. QED BY <2>5, <4>1, <4>2, <4>3
    <3>2. CASE ~(i <= Len(A))
      <4>1. i - Len(A) \in 1..Len(B) /\ i \in 1..Len(AB)
            /\ (i = Len(AB) <=> i - Len(A) = last)
        BY <1>1, <2>5, <3>2
      <4>2. right[i] = Bx[i - Len(A)] BY <1>1, <2>4, <2>6, <3>2, <4>1
      <4>3. AB[i] = B[i - Len(A)] BY <1>1, <3>2, <4>1
      <4>4. QED BY <2>4, <2>5, <4>1, <4>2, <4>3
    <3>3. QED BY <3>1, <3>2
  <2>8. Len(left) = Len(right) BY <1>1, <2>4, <2>5, <2>6
  <2>9. left = right BY <2>5, <2>6, <2>7, <2>8, SeqEqual
  <2>10. QED BY <1>1, <2>3, <2>9 DEF left, right, Bx
<1>3. QED BY <1>2 DEF AB

Follows(b, u, m) == \A i \in 1..Len(b) : u[m + i] = b[i]

(* Behind a separator the parts are made as in a text of its own.          *)
LEMMA PartsBehind ==
  ASSUME NEW P, NEW b \in Seq(P), NEW u \in Seq(P), NEW sep, NEW m \in 1..Len(u),
         u[m] = sep, Len(u) = m + Len(b), Follows(b, u, m)
  PROVE  ParseIntoArray(u, sep) = Behind(Parts(u, sep)[m], ParseIntoArray(b, sep))
<1> DEFINE pb == Parts(b, sep)
           pu == Parts(u, sep)
           A  == pu[m]
           S  == {i \in Nat : i <= Len(b) => pu[m + i] = A \o pb[i]}
<1>1. /\ Len(b) \in Nat /\ Len(u) \in Nat /\ m \in Nat /\ m \in 0..Len(u)
      /\ \A i \in 1..Len(b) : u[m + i] = b[i]
  BY DEF Follows
<1>2. pb[0] = << >> /\ \A k \in 1..Len(b) : pb[k] = Grown(pb[k - 1], b, sep, k)
  BY <1>1, PartsEquations
<1>3. \A k \in 1..Len(u) : pu[k] = Grown(pu[k - 1], u, sep, k)
  BY <1>1, PartsEquations
<1>4. /\ A \in Seq(Seq(P))
      /\ \A k \in 0..Len(b) : /\ pb[k] \in Seq(Seq(P))
                              /\ k # 0 => (b[k] # sep => pb[k] # << >>)
  BY <1>1, PartsTypes
<1> HIDE DEF pb, pu, A
<1>5. 0 \in S
  <2>1. A \o << >> = A BY <1>4, ConcatEmptySeq
  <2>2. m + 0 = m BY <1>1
  <2>3. QED BY <1>2, <2>1, <2>2 DEF A
<1>6. ASSUME NEW i \in S PROVE i + 1 \in S
  <2> DEFINE k == i + 1
             x == b[k]
             B == pb[i]
             old == pu[m + i]
  <2>1. SUFFICES ASSUME k <= Len(b) PROVE pu[m + k] = A \o pb[k]
    OBVIOUS
  <2>2. /\ i \in Nat /\ k \in 1..Len(b) /\ k - 1 = i /\ m + k \in 1..Len(u)
        /\ (m + k) - 1 = m + i /\ (k = 1 <=> i = 0) /\ m + k # 1 /\ i \in 0..Len(b)
    BY <1>1, <2>1
  <2>3. old = A \o B BY <2>1, <2>2
  <2>4. x \in P /\ u[m + k] = x BY <1>1, <2>2, ElementOfSeq
  <2>5. u[m + i] = sep <=> k = 1 \/ b[i] = sep
    <3>1. CASE i = 0 BY <1>1, <2>2, <3>1
    <3>2. CASE i # 0
      <4>1. i \in 1..Len(b) BY <2>2, <3>2
      <4>2. QED BY <1>1, <2>2, <3>2, <4>1
    <3>3. QED BY <3>1, <3>2
  <2> HIDE DEF k
  <2>6. pb[k] = IF x = sep THEN B
                ELSE IF k = 1 \/ b[i] = sep THEN Append(B, <<x>>)
                ELSE [B EXCEPT ![Len(B)] = Append(B[Len(B)], x)]
    BY <1>2, <2>2 DEF Grown
  <2>7. pu[m + k] = IF x = sep THEN old
                    ELSE IF u[m + i] = sep THEN Append(old, <<x>>)
                    ELSE [old EXCEPT ![Len(old)] = Append(old[Len(old)], x)]
    <3>1. pu[m + k] = Grown(pu[(m + k) - 1], u, sep, m + k) BY <1>3, <2>2
    <3>2. pu[m + k] = Grown(old, u, sep, m + k) /\ u[(m + k) - 1] = u[m + i]
      BY <2>2, <3>1
    <3> HIDE DEF old, x
    <3>3. QED BY <2>2, <2>4, <3>2 DEF Grown
  <2>8. B \in Seq(Seq(P)) /\ (i # 0 => (b[i] # sep => B # << >>))
    BY <1>4, <2>2
  <2> HIDE DEF x, B, old
  <2>9. CASE x = sep
    BY <2>3, <2>6, <2>7, <2>9
  <2>10. CASE x # sep /\ u[m + i] = sep
    <3>1. pu[m + k] = Append(old, <<x>>) /\ pb[k] = Append(B, <<x>>)
      BY <2>5, <2>6, <2>7, <2>10
    <3>2. <<x>> \in Seq(P) BY <2>4
    <3>3. Append(old, <<x>>) = A \o pb[k]
      <4> DEFINE y == <<x>>
                 X == Seq(P)
      <4>1. y \in X /\ A \in Seq(X) /\ B \in Seq(X)
        BY <1>4, <2>8, <3>2
      <4> HIDE DEF y, X
      <4>2. Added1(Behind(A, B), y) = Behind(A, Added1(B, y))
        BY <4>1, AppendBehind
      <4>3. QED BY <2>3, <3>1, <4>2 DEF y, Behind, Added1
    <3>4. QED BY <3>1, <3>3
  <2>11. CASE x # sep /\ u[m + i] # sep
    <3> DEFINE last == B[Len(B)]
               new == Append(last, x)
    <3>1. B # << >>
      BY <2>2, <2>5, <2>8, <2>11
    <3>2. last \in Seq(P)
      <4>1. Len(B) \in 1..Len(B) BY <2>8, <3>1, EmptySeq
      <4>2. QED BY <2>8, <4>1, ElementOfSeq
    <3>3. new \in Seq(P) BY <2>4, <3>2
    <3>4. /\ (A \o B)[Len(A \o B)] = last
          /\ [A \o B EXCEPT ![Len(A \o B)] = new] = A \o [B EXCEPT ![Len(B)] = new]
      <4> DEFINE X == Seq(P)
      <4>1. new \in X /\ A \in Seq(X) /\ B \in Seq(X) /\ B # << >>
        BY <1>4, <2>8, <3>1, <3>3
      <4> HIDE DEF new, last, X
      <4>2. /\ (A \o B)[Len(A \o B)] = B[Len(B)]
            /\ [A \o B EXCEPT ![Len(A \o B)] = new] = A \o [B EXCEPT ![Len(B)] = new]
        BY ONLY <4>1, ExceptBehind
      <4>3. QED BY <4>2 DEF last
    <3>5. pb[k] = [B EXCEPT ![Len(B)] = new]
      BY <2>5, <2>6, <2>11
    <3>6. pu[m + k] = [old EXCEPT ![Len(old)] = Append(old[Len(old)], x)]
      BY <2>7, <2>11
    <3>7. pu[m + k] = [A \o B EXCEPT ![Len(A \o B)] = new]
      BY <2>3, <3>4, <3>6
    <3>8. QED BY <3>4, <3>5, <3>7
  <2>12. QED BY <2>9, <2>10, <2>11
<1>7. \A i \in Nat : i \in S
  <2> HIDE DEF S
  <2>1. QED BY <1>5, <1>6, SetInduction
<1>8. pu[m + Len(b)] = A \o pb[Len(b)]
  BY <1>1, <1>7
<1>9. QED BY <1>8 DEF pb, pu, A, ParseIntoArray, Behind

(* u is a, the separator and b in a row.                                   *)
AreJoined(u, a, sep, b) ==
  /\ Len(u) = Len(a) + 1 + Len(b) /\ u[Len(a) + 1] = sep
  /\ \A i \in 1..Len(a) : u[i] = a[i]
  /\ \A i \in 1..Len(b) : u[Len(a) + 1 + i] = b[i]

(* Splitting undoes joining: what two texts with the separator between     *)
(* them are split into is what each of them is.                            *)
LEMMA SplitJoined ==
  ASSUME NEW P, NEW a \in Seq(P), NEW b \in Seq(P), NEW u \in Seq(P), NEW sep,
         AreJoined(u, a, sep, b)
  PROVE  ParseIntoArray(u, sep) = Behind(ParseIntoArray(a, sep), ParseIntoArray(b, sep))
<1> DEFINE m == Len(a) + 1
<1>0. /\ Len(u) = m + Len(b) /\ u[m] = sep
      /\ \A i \in 1..Len(a) : u[i] = a[i]
      /\ \A i \in 1..Len(b) : u[m + i] = b[i]
  BY DEF AreJoined
<1>1. Len(a) \in Nat /\ Len(b) \in Nat /\ m \in 1..Len(u) /\ m - 1 = Len(a)
      /\ Len(a) \in 0..Len(a) /\ Len(b) \in 0..Len(b) /\ Len(a) <= Len(u)
  BY <1>0
<1>2. Parts(u, sep)[Len(a)] = Parts(a, sep)[Len(a)]
  BY <1>0, <1>1, PartsOfPrefix
<1>3. Parts(u, sep)[m] = Parts(u, sep)[m - 1]
  <2>1. u[m] = sep /\ Len(u) \in Nat BY <1>0
  <2> HIDE DEF m
  <2>2. \A k \in 1..Len(u) : Parts(u, sep)[k] = Grown(Parts(u, sep)[k - 1], u, sep, k)
    BY <2>1, PartsEquations
  <2>3. Parts(u, sep)[m] = Grown(Parts(u, sep)[m - 1], u, sep, m)
    BY <1>1, <2>2
  <2>4. QED BY <2>1, <2>3 DEF Grown
<1>4. ParseIntoArray(u, sep) = Behind(Parts(u, sep)[m], ParseIntoArray(b, sep))
  <2>1. /\ u[m] = sep /\ Len(u) = m + Len(b) /\ Follows(b, u, m)
        /\ b \in Seq(P) /\ u \in Seq(P)
    BY <1>0 DEF Follows
  <2>2. m \in 1..Len(u) BY <1>1
  <2> HIDE DEF m
  <2>4. ParseIntoArray(u, sep) = Behind(Parts(u, sep)[m], ParseIntoArray(b, sep))
    BY ONLY <2>1, <2>2, PartsBehind
  <2>5. QED BY <2>4
<1>5. QED BY <1>1, <1>2, <1>3, <1>4 DEF ParseIntoArray

(* A text without the separator is one part.                               *)
LEMMA OnePart ==
  ASSUME NEW P, NEW t \in Seq(P), t # << >>, NEW sep, \A i \in 1..Len(t) : t[i] # sep
  PROVE  ParseIntoArray(t, sep) = <<t>>
<1> DEFINE p == Parts(t, sep)
           Is(ps, k) == /\ ps \in Seq(Seq(P)) /\ Len(ps) = 1 /\ Len(ps[1]) = k
                        /\ \A i \in 1..k : ps[1][i] = t[i]
           S == {m \in Nat : m + 1 <= Len(t) => Is(p[m + 1], m + 1)}
<1>1. Len(t) \in Nat /\ Len(t) # 0
  BY EmptySeq
<1>2. p[0] = << >> /\ \A k \in 1..Len(t) : p[k] = Grown(p[k - 1], t, sep, k)
  BY <1>1, PartsEquations
<1> HIDE DEF p
<1>3. 0 \in S
  <2>1. 1 \in 1..Len(t) /\ t[1] \in P /\ t[1] # sep /\ 1 - 1 = 0
    BY <1>1, ElementOfSeq
  <2>2. p[1] = Append(<< >>, <<t[1]>>)
    BY <1>2, <2>1 DEF Grown
  <2> DEFINE a == <<t[1]>>
  <2>3. a \in Seq(P) /\ Len(a) = 1 /\ a[1] = t[1] BY <2>1
  <2> HIDE DEF a
  <2>4. Append(<< >>, a) \in Seq(Seq(P)) /\ Len(Append(<< >>, a)) = 1
        /\ Append(<< >>, a)[1] = a
    BY <2>3
  <2>5. Is(p[1], 1) BY <2>2, <2>3, <2>4 DEF a
  <2> HIDE DEF Is
  <2>6. 0 + 1 = 1 OBVIOUS
  <2>7. QED BY <2>5, <2>6
<1>4. ASSUME NEW m \in S PROVE m + 1 \in S
  <2> DEFINE k == m + 1
             ps == p[k]
             x == t[k + 1]
             new == Append(ps[1], x)
  <2>1. SUFFICES ASSUME k + 1 <= Len(t) PROVE Is(p[k + 1], k + 1)
    OBVIOUS
  <2>2. /\ m \in Nat /\ k \in 1..Len(t) /\ k + 1 \in 1..Len(t) /\ (k + 1) - 1 = k
        /\ k + 1 # 1 /\ Is(ps, k)
    BY <1>1, <2>1
  <2> HIDE DEF k
  <2>3. x \in P /\ x # sep /\ t[k] # sep BY <2>2, ElementOfSeq
  <2>4. p[k + 1] = [ps EXCEPT ![Len(ps)] = Append(ps[Len(ps)], x)]
    <3>1. p[k + 1] = Grown(ps, t, sep, k + 1) BY <1>2, <2>2
    <3> HIDE DEF ps
    <3>2. QED BY <2>2, <2>3, <3>1 DEF Grown
  <2> HIDE DEF ps, x
  <2>5. /\ ps \in Seq(Seq(P)) /\ Len(ps) = 1 /\ Len(ps[1]) = k
        /\ \A i \in 1..k : ps[1][i] = t[i]
    BY <2>2
  <2>6. ps[1] \in Seq(P)
    <3>1. 1 \in 1..Len(ps) BY <2>5
    <3>2. QED BY <2>5, <3>1, ElementOfSeq
  <2>7. /\ new \in Seq(P) /\ Len(new) = k + 1 /\ new[k + 1] = x
        /\ \A i \in 1..k : new[i] = t[i]
    BY <2>3, <2>5, <2>6
  <2> HIDE DEF new
  <2>8. p[k + 1] = [ps EXCEPT ![1] = new]
    BY <2>4, <2>5 DEF new
  <2>9. /\ p[k + 1] \in Seq(Seq(P)) /\ Len(p[k + 1]) = 1 /\ p[k + 1][1] = new
    BY <2>5, <2>7, <2>8, ExceptSeq
  <2>10. ASSUME NEW i \in 1..(k + 1) PROVE new[i] = t[i]
    <3>1. i = k + 1 \/ i \in 1..k BY <2>2
    <3>2. QED BY <2>7, <3>1 DEF x
  <2>11. QED BY <2>7, <2>9, <2>10
<1>5. \A m \in Nat : m \in S
  <2> HIDE DEF S
  <2>1. QED BY <1>3, <1>4, SetInduction
<1>6. Is(p[Len(t)], Len(t))
  <2> HIDE DEF Is
  <2>1. Len(t) - 1 \in S /\ (Len(t) - 1) + 1 = Len(t) BY <1>1, <1>5
  <2>2. QED BY <1>1, <2>1
<1>7. p[Len(t)] = <<t>>
  <2> DEFINE ps == p[Len(t)]
  <2>1. /\ ps \in Seq(Seq(P)) /\ Len(ps) = 1 /\ Len(ps[1]) = Len(t)
        /\ \A i \in 1..Len(t) : ps[1][i] = t[i]
    BY <1>6
  <2> HIDE DEF ps
  <2>2. ps[1] \in Seq(P)
    <3>1. 1 \in 1..Len(ps) BY <2>1
    <3>2. QED BY <2>1, <3>1, ElementOfSeq
  <2>3. ps[1] = t BY <2>1, <2>2, SeqEqual
  <2>4. <<t>> \in Seq(Seq(P)) /\ Len(<<t>>) = 1 /\ <<t>>[1] = t OBVIOUS
  <2>5. ps = <<t>>
    <3>1. \A i \in 1..Len(ps) : ps[i] = <<t>>[i] BY <2>1, <2>3, <2>4
    <3>2. QED BY <2>1, <2>4, <3>1, SeqEqual
  <2>6. QED BY <2>5 DEF ps
<1>8. QED BY <1>7 DEF ParseIntoArray, p

-----------------------------------------------------------------------------
(* What the elements of a widened text are; the separators stay where they *)
(* are, and there are no others.                                           *)
Elements == {Widen[w] : w \in Words \cup Separators}

LEMMA WidenedText ==
  ASSUME NEW t \in Texts
  PROVE  /\ Widened(t) \in Seq(Elements) /\ Len(t) \in Nat /\ Len(Widened(t)) = Len(t)
         /\ \A i \in 1..Len(t) : /\ Widened(t)[i] = Widen[t[i]]
                                 /\ \A s \in Separators : Widened(t)[i] = s <=> t[i] = s
<1>1. Len(t) \in Nat /\ DOMAIN t = 1..Len(t) /\ \A i \in 1..Len(t) : t[i] \in Words \cup Separators
  BY DEF Texts
<1>2. Widened(t) = [i \in 1..Len(t) |-> Widen[t[i]]]
  BY <1>1 DEF Widened
<1>3. \A i \in 1..Len(t) : Widen[t[i]] \in Elements
  BY <1>1 DEF Elements
<1>4. Widened(t) \in Seq(Elements) /\ Len(Widened(t)) = Len(t)
  BY <1>1, <1>2, <1>3
<1>5. ASSUME NEW i \in 1..Len(t), NEW s \in Separators
      PROVE  Widen[t[i]] = s <=> t[i] = s
  <2>1. CASE t[i] \in Words
    <3>1. Widen[t[i]] \notin Separators /\ t[i] \notin Separators
      BY <2>1, RequestsAssumption
    <3>2. QED BY <3>1
  <2>2. CASE t[i] \in Separators
    <3>1. Widen[t[i]] = t[i] BY <2>2, RequestsAssumption
    <3>2. QED BY <3>1
  <2>3. QED BY <1>1, <2>1, <2>2
<1>6. QED BY <1>1, <1>2, <1>4, <1>5

(* The parts of a text are a sequence of sequences.                        *)
LEMMA ParsedType ==
  ASSUME NEW P, NEW t \in Seq(P), NEW sep
  PROVE  ParseIntoArray(t, sep) \in Seq(Seq(P))
<1>1. Len(t) \in 0..Len(t)
  OBVIOUS
<1>2. QED BY <1>1, PartsTypes DEF ParseIntoArray

(* The arguments of a query that are joined up to k, and argument k, each  *)
(* split at "&".                                                           *)
SplitUpTo(q, k) == ParseIntoArray(Widened(Joined(q)[k]), "&")
SplitOf(q, k)   == ParseIntoArray(Widened(q[k]), "&")

LEMMA JoinedTypes ==
  ASSUME NEW q \in Seq(Texts \ {<< >>})
  PROVE  \A k \in 1..Len(q) : Joined(q)[k] \in Texts
<1> DEFINE n == Len(q)
           j == Joined(q)
           S == {m \in Nat : m + 1 <= n => j[m + 1] \in Texts}
<1>1. n \in Nat /\ \A k \in 1..n : q[k] \in Texts
  OBVIOUS
<1>2. (n >= 1 => j[1] = q[1]) /\ \A k \in 2..n : j[k] = j[k - 1] \o <<"&">> \o q[k]
  BY <1>1, JoinedEquations
<1> HIDE DEF j
<1>3. 0 \in S
  BY <1>1, <1>2
<1>4. ASSUME NEW m \in S PROVE m + 1 \in S
  <2> DEFINE k == (m + 1) + 1
  <2>1. SUFFICES ASSUME k <= n PROVE j[k] \in Texts
    OBVIOUS
  <2>2. /\ m \in Nat /\ k \in 2..n /\ k - 1 = m + 1 /\ j[m + 1] \in Texts /\ q[k] \in Texts
    BY <1>1, <2>1
  <2>3. j[k] = j[m + 1] \o <<"&">> \o q[k] BY <1>2, <2>2
  <2>4. <<"&">> \in Texts BY DEF Texts, Separators
  <2>5. \A a, b, c \in Texts : a \o b \o c \in Texts
    BY DEF Texts
  <2>6. QED BY <2>2, <2>3, <2>4, <2>5
<1>5. \A m \in Nat : m \in S
  <2> HIDE DEF S
  <2>1. QED BY <1>3, <1>4, SetInduction
<1>6. ASSUME NEW k \in 1..n PROVE j[k] \in Texts
  <2>1. k - 1 \in S /\ (k - 1) + 1 = k BY <1>1, <1>5
  <2>2. QED BY <1>1, <2>1
<1>7. QED BY <1>6 DEF j

(* The elements of three sequences in a row.                               *)
LEMMA ConcatThree ==
  ASSUME NEW X, NEW a \in Seq(X), NEW x \in X, NEW b \in Seq(X), NEW c,
         c = a \o <<x>> \o b
  PROVE  /\ c \in Seq(X) /\ Len(c) = Len(a) + 1 + Len(b) /\ c[Len(a) + 1] = x
         /\ \A i \in 1..Len(a) : c[i] = a[i]
         /\ \A i \in 1..Len(b) : c[Len(a) + 1 + i] = b[i]
<1> DEFINE ax == a \o <<x>>
<1>1. /\ ax \in Seq(X) /\ Len(ax) = Len(a) + 1 /\ Len(a) \in Nat /\ Len(b) \in Nat
      /\ \A i \in 1..(Len(a) + 1) : ax[i] = IF i <= Len(a) THEN a[i] ELSE x
  <2>1. <<x>> \in Seq(X) /\ Len(<<x>>) = 1 /\ <<x>>[1] = x OBVIOUS
  <2> DEFINE y == <<x>>
  <2> HIDE DEF y
  <2>2. /\ a \o y \in Seq(X) /\ Len(a \o y) = Len(a) + Len(y)
        /\ \A i \in 1..(Len(a) + Len(y)) :
             (a \o y)[i] = IF i <= Len(a) THEN a[i] ELSE y[i - Len(a)]
    BY <2>1, ConcatProperties DEF y
  <2>3. ASSUME NEW i \in 1..(Len(a) + 1), ~(i <= Len(a)) PROVE y[i - Len(a)] = x
    <3>1. i - Len(a) = 1 BY <2>3
    <3>2. QED BY <2>1, <3>1 DEF y
  <2>4. QED BY <2>1, <2>2, <2>3 DEF y
<1> HIDE DEF ax
<1>2. /\ c \in Seq(X) /\ Len(c) = Len(ax) + Len(b)
      /\ \A i \in 1..(Len(ax) + Len(b)) :
           c[i] = IF i <= Len(ax) THEN ax[i] ELSE b[i - Len(ax)]
  <2>1. c = ax \o b BY DEF ax
  <2>2. QED BY <1>1, <2>1, ConcatProperties
<1>3. ASSUME NEW i \in 1..(Len(a) + 1) PROVE c[i] = ax[i]
  <2>1. i \in 1..(Len(ax) + Len(b)) /\ i <= Len(ax) BY <1>1
  <2>2. QED BY <1>2, <2>1
<1>4. ASSUME NEW i \in 1..Len(b) PROVE c[Len(a) + 1 + i] = b[i]
  <2> DEFINE k == Len(a) + 1 + i
  <2>1. k \in 1..(Len(ax) + Len(b)) /\ ~(k <= Len(ax)) /\ k - Len(ax) = i BY <1>1
  <2> HIDE DEF k
  <2>2. c[k] = b[i] BY <1>2, <2>1
  <2>3. QED BY <2>2 DEF k
<1>5. c[Len(a) + 1] = x
  <2>1. Len(a) + 1 \in 1..(Len(a) + 1) /\ ~(Len(a) + 1 <= Len(a)) BY <1>1
  <2>2. QED BY <1>1, <1>3, <2>1
<1>6. ASSUME NEW i \in 1..Len(a) PROVE c[i] = a[i]
  <2>1. i \in 1..(Len(a) + 1) /\ i <= Len(a) BY <1>1
  <2>2. QED BY <1>1, <1>3, <2>1
<1>7. QED BY <1>1, <1>2, <1>4, <1>5, <1>6

LEMMA SplitQuery ==
  ASSUME NEW q \in Seq(Texts \ {<< >>})
  PROVE  /\ \A k \in 1..Len(q) : /\ SplitUpTo(q, k) \in Seq(Seq(Elements))
                                 /\ SplitOf(q, k) \in Seq(Seq(Elements))
         /\ Len(q) >= 1 => SplitUpTo(q, 1) = SplitOf(q, 1)
         /\ \A k \in 2..Len(q) :
              SplitUpTo(q, k) = Behind(SplitUpTo(q, k - 1), SplitOf(q, k))
<1> DEFINE n == Len(q)
           j == Joined(q)
<1>1. n \in Nat /\ \A k \in 1..n : q[k] \in Texts
  OBVIOUS
<1>2. (n >= 1 => j[1] = q[1]) /\ \A k \in 2..n : j[k] = j[k - 1] \o <<"&">> \o q[k]
  BY <1>1, JoinedEquations
<1>3. \A k \in 1..n : j[k] \in Texts
  BY JoinedTypes
<1> HIDE DEF j
<1>4. ASSUME NEW k \in 1..n
      PROVE  SplitUpTo(q, k) \in Seq(Seq(Elements)) /\ SplitOf(q, k) \in Seq(Seq(Elements))
  <2>1. Widened(j[k]) \in Seq(Elements) /\ Widened(q[k]) \in Seq(Elements)
    BY <1>1, <1>3, WidenedText
  <2>2. QED BY <2>1, ParsedType DEF SplitUpTo, SplitOf, j
<1>5. n >= 1 => SplitUpTo(q, 1) = SplitOf(q, 1)
  BY <1>2 DEF SplitUpTo, SplitOf, j
<1>6. ASSUME NEW k \in 2..n
      PROVE  SplitUpTo(q, k) = Behind(SplitUpTo(q, k - 1), SplitOf(q, k))
  <2> DEFINE a == j[k - 1]
             b == q[k]
             c == j[k]
             wa == Widened(a)
             wb == Widened(b)
             wc == Widened(c)
  <2>1. k \in 1..n /\ k - 1 \in 1..n BY <1>1
  <2>2. a \in Texts /\ b \in Texts /\ c \in Texts BY <1>1, <1>3, <2>1
  <2>3. c = a \o <<"&">> \o b BY <1>2
  <2> HIDE DEF a, b, c
  <2>4. /\ Len(c) = Len(a) + 1 + Len(b) /\ c[Len(a) + 1] = "&"
        /\ \A i \in 1..Len(a) : c[i] = a[i]
        /\ \A i \in 1..Len(b) : c[Len(a) + 1 + i] = b[i]
    <3> DEFINE X == Words \cup Separators
    <3>1. "&" \in X BY DEF Separators
    <3>2. a \in Seq(X) /\ b \in Seq(X) BY <2>2 DEF Texts
    <3> HIDE DEF X
    <3>3. QED BY <2>3, <3>1, <3>2, ConcatThree
  <2>5. /\ wa \in Seq(Elements) /\ Len(wa) = Len(a) /\ Len(a) \in Nat
        /\ \A i \in 1..Len(a) : wa[i] = Widen[a[i]]
    BY <2>2, WidenedText
  <2>6. /\ wb \in Seq(Elements) /\ Len(wb) = Len(b) /\ Len(b) \in Nat
        /\ \A i \in 1..Len(b) : wb[i] = Widen[b[i]]
    BY <2>2, WidenedText
  <2>7. /\ wc \in Seq(Elements) /\ Len(wc) = Len(c)
        /\ \A i \in 1..Len(c) : wc[i] = Widen[c[i]]
    BY <2>2, WidenedText
  <2>8. Widen["&"] = "&" BY RequestsAssumption DEF Separators
  <2> HIDE DEF wa, wb, wc
  <2>9. AreJoined(wc, wa, "&", wb)
    <3>1. Len(a) + 1 \in 1..Len(c) BY <2>4, <2>5, <2>6
    <3>2. ASSUME NEW i \in 1..Len(a) PROVE wc[i] = wa[i]
      <4>1. i \in 1..Len(c) BY <2>4, <2>5, <2>6
      <4>2. QED BY <2>4, <2>5, <2>7, <4>1
    <3>3. ASSUME NEW i \in 1..Len(b) PROVE wc[Len(a) + 1 + i] = wb[i]
      <4>1. Len(a) + 1 + i \in 1..Len(c) BY <2>4, <2>5, <2>6
      <4>2. QED BY <2>4, <2>6, <2>7, <4>1
    <3>4. wc[Len(a) + 1] = "&" BY <2>4, <2>7, <2>8, <3>1
    <3>5. QED BY <2>4, <2>5, <2>6, <2>7, <3>2, <3>3, <3>4 DEF AreJoined
  <2>10. ParseIntoArray(wc, "&") = Behind(ParseIntoArray(wa, "&"), ParseIntoArray(wb, "&"))
    BY ONLY <2>5, <2>6, <2>7, <2>9, SplitJoined
  <2>11. QED BY <2>10 DEF SplitUpTo, SplitOf, wa, wb, wc, a, b, c, j
<1>7. QED BY <1>4, <1>5, <1>6

(* Where the elements of two sequences one behind the other come from.     *)
LEMMA BehindOf ==
  ASSUME NEW X, NEW A \in Seq(X), NEW B \in Seq(X)
  PROVE  /\ Behind(A, B) \in Seq(X) /\ Len(Behind(A, B)) = Len(A) + Len(B)
         /\ \A i \in 1..Len(A) : Behind(A, B)[i] = A[i]
         /\ \A i \in 1..Len(B) : Behind(A, B)[Len(A) + i] = B[i]
<1> DEFINE C == Behind(A, B)
<1>1. /\ C \in Seq(X) /\ Len(C) = Len(A) + Len(B) /\ Len(A) \in Nat /\ Len(B) \in Nat
      /\ \A i \in 1..(Len(A) + Len(B)) : C[i] = IF i <= Len(A) THEN A[i] ELSE B[i - Len(A)]
  BY ConcatProperties DEF Behind
<1> HIDE DEF C
<1>2. ASSUME NEW i \in 1..Len(A) PROVE C[i] = A[i]
  <2>1. i \in 1..(Len(A) + Len(B)) /\ i <= Len(A) BY <1>1
  <2>2. QED BY <1>1, <2>1
<1>3. ASSUME NEW i \in 1..Len(B) PROVE C[Len(A) + i] = B[i]
  <2> DEFINE k == Len(A) + i
  <2>1. k \in 1..(Len(A) + Len(B)) /\ ~(k <= Len(A)) /\ k - Len(A) = i BY <1>1
  <2> HIDE DEF k
  <2>2. C[k] = B[i] BY <1>1, <2>1
  <2>3. QED BY <2>2 DEF k
<1>4. QED BY <1>1, <1>2, <1>3 DEF C

(* An argument that is one part is one of the parts of the whole query.    *)
LEMMA OwnPart ==
  ASSUME NEW q \in Seq(Texts \ {<< >>}), NEW k \in 1..Len(q),
         SplitOf(q, k) = <<Widened(q[k])>>
  PROVE  \E i \in 1..Len(SplitUpTo(q, Len(q))) : SplitUpTo(q, Len(q))[i] = Widened(q[k])
<1> DEFINE n == Len(q)
           J(m) == SplitUpTo(q, m)
           w == Widened(q[k])
           In(m) == \E i \in 1..Len(J(m)) : J(m)[i] = w
           S == {d \in Nat : k + d <= n => In(k + d)}
<1>1. n \in Nat /\ k \in Nat /\ k >= 1
  OBVIOUS
<1>2. /\ \A m \in 1..n : J(m) \in Seq(Seq(Elements)) /\ SplitOf(q, m) \in Seq(Seq(Elements))
      /\ J(1) = SplitOf(q, 1)
      /\ \A m \in 2..n : J(m) = Behind(J(m - 1), SplitOf(q, m))
  BY <1>1, SplitQuery
<1>3. Len(SplitOf(q, k)) = 1 /\ SplitOf(q, k)[1] = w
  OBVIOUS
<1> HIDE DEF J, w
<1>4. 0 \in S
  <2>1. CASE k = 1
    <3>1. Len(J(1)) = 1 /\ J(1)[1] = w BY <1>2, <1>3, <2>1
    <3>2. In(1)
      <4>1. 1 \in 1..Len(J(1)) BY <3>1
      <4>2. QED BY <3>1, <4>1
    <3>3. In(k + 0) BY <1>1, <2>1, <3>2
    <3>4. QED BY <3>3
  <2>2. CASE k # 1
    <3> DEFINE A == J(k - 1)
               B == SplitOf(q, k)
    <3>1. k \in 2..n /\ k - 1 \in 1..n BY <1>1, <2>2
    <3>2. J(k) = Behind(A, B) /\ A \in Seq(Seq(Elements)) /\ B \in Seq(Seq(Elements))
      BY <1>2, <3>1
    <3> HIDE DEF A
    <3>3. /\ Len(Behind(A, B)) = Len(A) + Len(B)
          /\ \A i \in 1..Len(B) : Behind(A, B)[Len(A) + i] = B[i]
      <4> DEFINE X == Seq(Elements)
      <4>1. A \in Seq(X) /\ B \in Seq(X) BY <3>2
      <4> HIDE DEF X, B
      <4>2. QED BY ONLY <4>1, BehindOf
    <3>4. Len(A) \in Nat /\ Len(J(k)) = Len(A) + 1 /\ J(k)[Len(A) + 1] = w
      BY <1>3, <3>2, <3>3
    <3>5. Len(A) + 1 \in 1..Len(J(k)) BY <3>4
    <3>6. In(k) BY <3>4, <3>5
    <3>7. k + 0 = k BY <1>1
    <3>8. In(k + 0) BY <3>6, <3>7
    <3>9. QED BY <3>8
  <2>3. QED BY <2>1, <2>2
<1>5. ASSUME NEW d \in S PROVE d + 1 \in S
  <2> DEFINE m == k + (d + 1)
             A == J(m - 1)
             B == SplitOf(q, m)
  <2>1. SUFFICES ASSUME m <= n PROVE In(m)
    OBVIOUS
  <2>2. d \in Nat /\ m \in 2..n /\ m - 1 = k + d /\ m - 1 \in 1..n /\ k + d <= n /\ m \in 1..n
    BY <1>1, <2>1
  <2>3. In(m - 1) BY <2>2
  <2>4. J(m) = Behind(A, B) /\ A \in Seq(Seq(Elements)) /\ B \in Seq(Seq(Elements))
    BY <1>2, <2>2
  <2>5. PICK i \in 1..Len(A) : A[i] = w BY <2>3
  <2> HIDE DEF m, A, B
  <2>6. Len(J(m)) = Len(A) + Len(B) /\ \A h \in 1..Len(A) : J(m)[h] = A[h]
    BY <2>4, BehindOf
  <2>7. i \in 1..Len(J(m)) /\ J(m)[i] = w BY <2>4, <2>5, <2>6
  <2>8. QED BY <2>7
<1>6. \A d \in Nat : d \in S
  <2> HIDE DEF S
  <2>1. QED BY <1>4, <1>5, SetInduction
<1>7. In(n)
  <2>1. n - k \in Nat /\ k + (n - k) = n BY <1>1
  <2>2. n - k \in S
    <3> HIDE DEF S
    <3>1. QED BY <1>6, <2>1
  <2>3. QED BY <1>1, <2>1, <2>2
<1>8. QED BY <1>7 DEF J, w

(* If each is one part, those are the parts.                               *)
LEMMA OwnParts ==
  ASSUME NEW q \in Seq(Texts \ {<< >>}), Len(q) # 0,
         \A k \in 1..Len(q) : SplitOf(q, k) = <<Widened(q[k])>>
  PROVE  /\ Len(SplitUpTo(q, Len(q))) = Len(q)
         /\ \A i \in 1..Len(q) : SplitUpTo(q, Len(q))[i] = Widened(q[i])
<1> DEFINE n == Len(q)
           J(m) == SplitUpTo(q, m)
           Are(m) == Len(J(m)) = m /\ \A i \in 1..m : J(m)[i] = Widened(q[i])
           S == {d \in Nat : d + 1 <= n => Are(d + 1)}
<1>1. n \in Nat /\ n >= 1
  OBVIOUS
<1>2. /\ \A m \in 1..n : J(m) \in Seq(Seq(Elements)) /\ SplitOf(q, m) \in Seq(Seq(Elements))
      /\ J(1) = SplitOf(q, 1)
      /\ \A m \in 2..n : J(m) = Behind(J(m - 1), SplitOf(q, m))
  BY <1>1, SplitQuery
<1>3. \A k \in 1..n : Len(SplitOf(q, k)) = 1 /\ SplitOf(q, k)[1] = Widened(q[k])
  OBVIOUS
<1> HIDE DEF J
<1>4. 0 \in S
  <2>1. Len(J(1)) = 1 /\ J(1)[1] = Widened(q[1]) BY <1>1, <1>2, <1>3
  <2>2. Are(1) BY <2>1
  <2>3. QED BY <2>2
<1>5. ASSUME NEW d \in S PROVE d + 1 \in S
  <2> DEFINE m == (d + 1) + 1
             A == J(m - 1)
             B == SplitOf(q, m)
  <2>1. SUFFICES ASSUME m <= n PROVE Are(m)
    OBVIOUS
  <2>2. d \in Nat /\ m \in 2..n /\ m - 1 = d + 1 /\ m - 1 \in 1..n /\ m \in 1..n
    BY <1>1, <2>1
  <2>3. Len(A) = m - 1 /\ \A i \in 1..(m - 1) : A[i] = Widened(q[i]) BY <2>1, <2>2
  <2>4. /\ J(m) = Behind(A, B) /\ A \in Seq(Seq(Elements)) /\ B \in Seq(Seq(Elements))
        /\ Len(B) = 1 /\ B[1] = Widened(q[m])
    BY <1>2, <1>3, <2>2
  <2> HIDE DEF m, A, B
  <2>5. /\ Len(J(m)) = Len(A) + Len(B) /\ \A h \in 1..Len(A) : J(m)[h] = A[h]
        /\ \A h \in 1..Len(B) : J(m)[Len(A) + h] = B[h]
    <3> DEFINE X == Seq(Elements)
    <3>1. A \in Seq(X) /\ B \in Seq(X) BY <2>4
    <3> HIDE DEF X
    <3>2. Len(Behind(A, B)) = Len(A) + Len(B)
      BY ONLY <3>1, BehindOf
    <3>3. \A h \in 1..Len(A) : Behind(A, B)[h] = A[h]
      BY ONLY <3>1, BehindOf
    <3>4. \A h \in 1..Len(B) : Behind(A, B)[Len(A) + h] = B[h]
      BY ONLY <3>1, BehindOf
    <3>5. QED BY <2>4, <3>2, <3>3, <3>4
  <2>6. Len(J(m)) = m BY <2>2, <2>3, <2>4, <2>5
  <2>7. ASSUME NEW i \in 1..m PROVE J(m)[i] = Widened(q[i])
    <3>1. CASE i = m
      <4>1. 1 \in 1..Len(B) /\ Len(A) + 1 = m BY <2>2, <2>3, <2>4
      <4>2. J(m)[Len(A) + 1] = B[1] BY <2>5, <4>1
      <4>3. QED BY <2>4, <3>1, <4>1, <4>2
    <3>2. CASE i # m
      <4>1. i \in 1..(m - 1) BY <2>2, <3>2
      <4>2. QED BY <2>3, <2>5, <4>1
    <3>3. QED BY <3>1, <3>2
  <2>8. QED BY <2>6, <2>7
<1>6. \A d \in Nat : d \in S
  <2> HIDE DEF S
  <2>1. QED BY <1>4, <1>5, SetInduction
<1>7. Are(n)
  <2>1. n - 1 \in Nat /\ (n - 1) + 1 = n BY <1>1
  <2>2. n - 1 \in S
    <3> HIDE DEF S
    <3>1. QED BY <1>6, <2>1
  <2>3. QED BY <1>1, <2>1, <2>2
<1>8. QED BY <1>7 DEF J

-----------------------------------------------------------------------------
(* A simple argument has no "&", and "=" at the even places only.          *)
LEMMA SimpleArgument ==
  ASSUME NEW f \in Texts, f # << >>, Simple(f)
  PROVE  /\ Len(f) \in Nat /\ Len(f) >= 1
         /\ Widened(f) \in Seq(Elements) /\ Len(Widened(f)) = Len(f)
         /\ \A i \in 1..Len(f) : Widened(f)[i] = Widen[f[i]]
         /\ \A i \in 1..Len(f) : Widened(f)[i] = "=" <=> i % 2 = 0
         /\ ParseIntoArray(Widened(f), "&") = <<Widened(f)>>
<1> DEFINE w == Widened(f)
<1>1. /\ w \in Seq(Elements) /\ Len(f) \in Nat /\ Len(w) = Len(f)
      /\ \A i \in 1..Len(f) : /\ w[i] = Widen[f[i]]
                              /\ \A s \in Separators : w[i] = s <=> f[i] = s
  BY WidenedText
<1>2. Len(f) >= 1 /\ DOMAIN f = 1..Len(f)
  <2>1. Len(f) # 0 BY EmptySeq DEF Texts
  <2>2. QED BY <1>1, <2>1 DEF Texts
<1>3. "=" \in Separators /\ "&" \in Separators /\ Words \cap Separators = {}
  BY RequestsAssumption DEF Separators
<1>4. ASSUME NEW i \in 1..Len(f) PROVE (f[i] = "=" <=> i % 2 = 0) /\ f[i] # "&"
  <2>1. IF i % 2 = 0 THEN f[i] = "=" ELSE f[i] \in Words
    BY <1>2 DEF Simple
  <2>2. QED BY <1>3, <2>1
<1> HIDE DEF w
<1>5. \A i \in 1..Len(f) : (w[i] = "=" <=> i % 2 = 0) /\ w[i] # "&"
  BY <1>1, <1>3, <1>4
<1>6. w # << >> BY <1>1, <1>2
<1>7. ParseIntoArray(w, "&") = <<w>>
  BY <1>1, <1>5, <1>6, OnePart
<1>8. QED BY <1>1, <1>2, <1>5, <1>7 DEF w

(* The parts of a text get no fewer from one element to the next.          *)
LEMMA PartsKeep ==
  ASSUME NEW P, NEW t \in Seq(P), NEW sep, NEW k \in 1..Len(t)
  PROVE  Len(Parts(t, sep)[k]) >= Len(Parts(t, sep)[k - 1])
<1> DEFINE ps == Parts(t, sep)[k - 1]
<1>1. Len(t) \in Nat /\ k - 1 \in 0..Len(t)
  OBVIOUS
<1>2. ps \in Seq(Seq(P)) BY <1>1, PartsTypes
<1>3. Parts(t, sep)[k] = Grown(ps, t, sep, k) BY <1>1, PartsEquations
<1> HIDE DEF ps
<1>4. Len(Grown(ps, t, sep, k)) >= Len(ps)
  <2>1. CASE t[k] = sep BY <1>2, <2>1 DEF Grown
  <2>2. CASE t[k] # sep /\ (k = 1 \/ t[k - 1] = sep)
    <3>1. Grown(ps, t, sep, k) = Append(ps, <<t[k]>>) BY <2>2 DEF Grown
    <3>2. Len(Append(ps, <<t[k]>>)) = Len(ps) + 1 BY <1>2
    <3>3. QED BY <1>2, <3>1, <3>2
  <2>3. CASE t[k] # sep /\ k # 1 /\ t[k - 1] # sep
    <3> DEFINE l == Len(ps)
               x == Append(ps[Len(ps)], t[k])
    <3>1. Grown(ps, t, sep, k) = [ps EXCEPT ![l] = x] BY <2>3 DEF Grown
    <3> HIDE DEF x
    <3>2. Len([ps EXCEPT ![l] = x]) = Len(ps) BY <1>2
    <3>3. QED BY <1>2, <3>1, <3>2
  <2>4. QED BY <2>1, <2>2, <2>3
<1>5. QED BY <1>3, <1>4 DEF ps

(* How a simple argument is split at "=": in two only if it is name=value  *)
(* or name=value=.                                                         *)
LEMMA SimpleSections ==
  ASSUME NEW f \in Texts, f # << >>, Simple(f)
  PROVE  LET s == ParseIntoArray(Widened(f), "=")
         IN  /\ s \in Seq(Seq(Elements)) /\ Len(s) \in Nat
             /\ Len(s) = 2 <=> Len(f) \in {3, 4}
             /\ Len(f) \in {3, 4} => s[1] = Widened(<<f[1]>>) /\ s[2] = Widened(<<f[3]>>)
<1> DEFINE w == Widened(f)
           n == Len(f)
           p == Parts(w, "=")
<1>1. /\ n \in Nat /\ n >= 1 /\ w \in Seq(Elements) /\ Len(w) = n
      /\ \A i \in 1..n : w[i] = Widen[f[i]]
      /\ \A i \in 1..n : w[i] = "=" <=> i % 2 = 0
  BY SimpleArgument
<1> HIDE DEF w, n
<1>2. p[0] = << >> /\ \A k \in 1..n : p[k] = Grown(p[k - 1], w, "=", k)
  BY <1>1, PartsEquations
<1>3. \A k \in 0..n : p[k] \in Seq(Seq(Elements))
  BY <1>1, PartsTypes
<1>4. \A k \in 1..n : Len(p[k]) >= Len(p[k - 1])
  BY <1>1, PartsKeep
<1> HIDE DEF p
<1> DEFINE X == Seq(Elements)
<1>5. \A k \in 1..n : k % 2 = 0 => p[k] = p[k - 1]
  BY <1>1, <1>2 DEF Grown
<1>6. ASSUME NEW k \in 1..n, k % 2 # 0, NEW l \in 0..n, l = k - 1
      PROVE  /\ Len(p[k]) = Len(p[l]) + 1 /\ p[k][Len(p[l]) + 1] = <<w[k]>>
             /\ \A i \in 1..Len(p[l]) : p[k][i] = p[l][i]
  <2>1. w[k] # "=" /\ (k = 1 \/ w[k - 1] = "=")
    <3>1. k # 1 => k - 1 \in 1..n /\ (k - 1) % 2 = 0 BY <1>1, <1>6
    <3>2. QED BY <1>1, <1>6, <3>1
  <2>2. p[k] = Append(p[l], <<w[k]>>) BY <1>2, <1>6, <2>1 DEF Grown
  <2>3. w[k] \in Elements BY <1>1, ElementOfSeq
  <2> DEFINE x == <<w[k]>>
             ps == p[l]
  <2>4. x \in X BY <2>3
  <2>6. ps \in Seq(X) BY <1>3
  <2>8. p[k] = Append(ps, x) BY <2>2
  <2> HIDE DEF x, X, ps
  <2>7. /\ Len(Append(ps, x)) = Len(ps) + 1 /\ Append(ps, x)[Len(ps) + 1] = x
        /\ \A i \in 1..Len(ps) : Append(ps, x)[i] = ps[i]
    BY <2>4, <2>6
  <2>9. QED BY <2>7, <2>8 DEF ps, x
<1> HIDE DEF X
<1>7. Len(p[0]) = 0 BY <1>2
<1>8. Len(p[1]) = 1 /\ p[1][1] = <<w[1]>>
  <2>1. 1 \in 1..n /\ 1 % 2 # 0 /\ 0 \in 0..n /\ 0 = 1 - 1 BY <1>1
  <2>2. Len(p[1]) = Len(p[0]) + 1 /\ p[1][Len(p[0]) + 1] = <<w[1]>> BY <1>6, <2>1
  <2>3. QED BY <1>7, <2>2
<1>9. n >= 2 => p[2] = p[1]
  <2>1. 2 % 2 = 0 /\ 2 - 1 = 1 OBVIOUS
  <2>2. n >= 2 => 2 \in 1..n BY <1>1
  <2>3. QED BY <1>5, <2>1, <2>2
<1>10. n >= 3 => Len(p[3]) = 2 /\ p[3][1] = <<w[1]>> /\ p[3][2] = <<w[3]>>
  <2>1. 3 % 2 # 0 /\ 2 = 3 - 1 OBVIOUS
  <2>2. SUFFICES ASSUME n >= 3 PROVE Len(p[3]) = 2 /\ p[3][1] = <<w[1]>> /\ p[3][2] = <<w[3]>>
    OBVIOUS
  <2>3. /\ 3 \in 1..n /\ 2 \in 0..n /\ Len(p[2]) = 1 /\ p[2][1] = <<w[1]>>
    BY <1>1, <1>8, <1>9, <2>2
  <2>4. /\ Len(p[3]) = Len(p[2]) + 1 /\ p[3][Len(p[2]) + 1] = <<w[3]>>
        /\ \A i \in 1..Len(p[2]) : p[3][i] = p[2][i]
    BY <1>6, <2>1, <2>3
  <2>5. 1 \in 1..Len(p[2]) BY <2>3
  <2>6. QED BY <2>3, <2>4, <2>5
<1>11. n >= 4 => p[4] = p[3]
  <2>1. 4 % 2 = 0 /\ 4 - 1 = 3 OBVIOUS
  <2>2. n >= 4 => 4 \in 1..n BY <1>1
  <2>3. QED BY <1>5, <2>1, <2>2
<1>12. n >= 5 => Len(p[n]) >= 3
  <2> SUFFICES ASSUME n >= 5 PROVE Len(p[n]) >= 3
    OBVIOUS
  <2> DEFINE S == {d \in Nat : 5 + d <= n => Len(p[5 + d]) >= 3}
  <2>1. Len(p[5]) = 3
    <3>1. 5 % 2 # 0 /\ 4 = 5 - 1 OBVIOUS
    <3>2. 5 \in 1..n /\ 4 \in 0..n /\ Len(p[4]) = 2 BY <1>1, <1>10, <1>11
    <3>3. Len(p[5]) = Len(p[4]) + 1 BY <1>6, <3>1, <3>2
    <3>4. QED BY <3>2, <3>3
  <2>2. 0 \in S BY <2>1
  <2>3. ASSUME NEW d \in S PROVE d + 1 \in S
    <3>1. SUFFICES ASSUME 5 + (d + 1) <= n PROVE Len(p[5 + (d + 1)]) >= 3
      OBVIOUS
    <3>2. /\ d \in Nat /\ 5 + (d + 1) \in 1..n /\ (5 + (d + 1)) - 1 = 5 + d
          /\ Len(p[5 + d]) >= 3 /\ 5 + d \in 0..n /\ 5 + (d + 1) \in 0..n
      BY <1>1, <3>1
    <3>3. Len(p[5 + (d + 1)]) >= Len(p[5 + d]) BY <1>4, <3>2
    <3>4. Len(p[5 + d]) \in Nat /\ Len(p[5 + (d + 1)]) \in Nat BY <1>3, <3>2
    <3>5. QED BY <3>2, <3>3, <3>4
  <2>4. \A d \in Nat : d \in S
    <3> HIDE DEF S
    <3>1. QED BY <2>2, <2>3, SetInduction
  <2>5. n - 5 \in Nat /\ 5 + (n - 5) = n BY <1>1
  <2>6. n - 5 \in S
    <3> HIDE DEF S
    <3>1. QED BY <2>4, <2>5
  <2>7. QED BY <1>1, <2>5, <2>6
<1>13. n \in 0..n /\ p[n] \in Seq(Seq(Elements)) /\ Len(p[n]) \in Nat
  BY <1>1, <1>3
<1>14. Len(p[n]) = 2 <=> n \in {3, 4}
  <2>1. n = 1 \/ n = 2 \/ n = 3 \/ n = 4 \/ n >= 5 BY <1>1
  <2>2. CASE n = 1
    <3>1. Len(p[n]) = 1 BY <1>8, <2>2
    <3>2. n # 3 /\ n # 4 BY <2>2
    <3>3. QED BY <3>1, <3>2
  <2>3. CASE n = 2
    <3>1. p[2] = p[1] BY <1>9, <2>3
    <3>2. Len(p[n]) = 1 BY <1>8, <2>3, <3>1
    <3>3. QED BY <2>3, <3>2
  <2>4. CASE n = 3
    <3>1. Len(p[3]) = 2 BY <1>10, <2>4
    <3>2. QED BY <2>4, <3>1
  <2>5. CASE n = 4
    <3>1. Len(p[3]) = 2 /\ p[4] = p[3] BY <1>10, <1>11, <2>5
    <3>2. QED BY <2>5, <3>1
  <2>6. CASE n >= 5
    <3> DEFINE l == Len(p[n])
    <3>1. n \notin {3, 4} BY <1>1, <2>6
    <3>2. l >= 3 /\ l \in Nat BY <1>12, <1>13, <2>6
    <3> HIDE DEF l
    <3>3. l # 2 BY <3>2
    <3>4. QED BY <3>1, <3>3 DEF l
  <2>7. QED BY <2>1, <2>2, <2>3, <2>4, <2>5, <2>6
<1>15. n \in {3, 4} => p[n][1] = <<w[1]>> /\ p[n][2] = <<w[3]>>
  BY <1>10, <1>11
<1>16. ASSUME NEW k \in 1..n PROVE Widened(<<f[k]>>) = <<w[k]>>
  <2> DEFINE x == f[k]
  <2>1. w[k] = Widen[x] BY <1>1
  <2> HIDE DEF x
  <2>2. Widened(<<x>>) = <<Widen[x]>>
    <3>1. DOMAIN <<x>> = 1..1 /\ <<x>>[1] = x OBVIOUS
    <3>2. Widened(<<x>>) = [i \in 1..1 |-> Widen[x]]
      <4>1. \A i \in 1..1 : <<x>>[i] = x OBVIOUS
      <4>2. QED BY <3>1, <4>1 DEF Widened
    <3>3. [i \in 1..1 |-> Widen[x]] = <<Widen[x]>> OBVIOUS
    <3>4. QED BY <3>2, <3>3
  <2>3. QED BY <2>1, <2>2 DEF x
<1>17. n \in {3, 4} => Widened(<<f[1]>>) = <<w[1]>> /\ Widened(<<f[3]>>) = <<w[3]>>
  BY <1>1, <1>16
<1>18. ParseIntoArray(w, "=") = p[n]
  BY <1>1 DEF ParseIntoArray, p
<1> DEFINE s == ParseIntoArray(w, "=")
<1>19. s = p[n] BY <1>18
<1> HIDE DEF s
<1>20. /\ s \in Seq(Seq(Elements)) /\ Len(s) \in Nat
       /\ Len(s) = 2 <=> n \in {3, 4}
       /\ n \in {3, 4} => s[1] = Widened(<<f[1]>>) /\ s[2] = Widened(<<f[3]>>)
  BY <1>13, <1>14, <1>15, <1>17, <1>19
<1>21. QED BY <1>20 DEF s, w, n

-----------------------------------------------------------------------------
(* The pairs a map is made of: those whose key does not come again.        *)
Stays(s, whole) ==
  {k \in whole : \A j \in whole : j > k => Folded(s[j][1]) # Folded(s[k][1])}

LEMMA AddedPairs ==
  ASSUME NEW s, NEW n \in Nat, NEW whole \in SUBSET (1..n)
  PROVE  /\ \A k \in whole : \E name \in DOMAIN Added(s, whole) :
                               Folded(name) = Folded(s[k][1])
         /\ {<<name, Added(s, whole)[name]>> : name \in DOMAIN Added(s, whole)} =
              {<<s[k][1], s[k][2]>> : k \in Stays(s, whole)}
<1> DEFINE St == Stays(s, whole)
           M == Added(s, whole)
           pick(key) == CHOOSE k \in St : s[k][1] = key
<1>1. M = [key \in {s[k][1] : k \in St} |-> s[pick(key)][2]]
  BY DEF Added, Stays
<1> HIDE DEF M
<1>2. DOMAIN M = {s[k][1] : k \in St} BY <1>1
<1>3. ASSUME NEW k \in whole
      PROVE  \E name \in DOMAIN M : Folded(name) = Folded(s[k][1])
  <2> DEFINE same == {j \in whole : Folded(s[j][1]) = Folded(s[k][1])}
             I == {n - j : j \in same}
  <2>1. I \in SUBSET Nat /\ I # {}
    <3>1. k \in same OBVIOUS
    <3>2. \A j \in same : n - j \in Nat OBVIOUS
    <3>3. QED BY <3>1, <3>2
  <2>2. Min(I) \in I /\ \A y \in I : Min(I) <= y BY <2>1, MinOf
  <2>3. PICK j \in same : Min(I) = n - j BY <2>2
  <2>4. ASSUME NEW h \in same PROVE h <= j
    <3>1. n - h \in I OBVIOUS
    <3>2. n - j <= n - h BY <2>2, <2>3, <3>1
    <3>3. h \in 1..n /\ j \in 1..n OBVIOUS
    <3>4. QED BY <3>2, <3>3
  <2>5. j \in St
    <3>1. ASSUME NEW h \in whole, h > j PROVE Folded(s[h][1]) # Folded(s[j][1])
      <4>1. ASSUME Folded(s[h][1]) = Folded(s[j][1]) PROVE FALSE
        <5>1. h \in same BY <4>1
        <5>2. h <= j BY <2>4, <5>1
        <5>3. h \in 1..n /\ j \in 1..n OBVIOUS
        <5>4. QED BY <3>1, <5>2, <5>3
      <4>2. QED BY <4>1
    <3>2. QED BY <3>1 DEF Stays
  <2>6. s[j][1] \in DOMAIN M BY <1>2, <2>5
  <2>7. QED BY <2>6
<1>4. ASSUME NEW k \in St PROVE M[s[k][1]] = s[k][2]
  <2> DEFINE key == s[k][1]
             h == pick(key)
  <2>1. h \in St /\ s[h][1] = key OBVIOUS
  <2> HIDE DEF h
  <2>2. h = k
    <3>1. h \in 1..n /\ k \in 1..n /\ h \in whole /\ k \in whole BY <2>1 DEF Stays
    <3>2. ~(h > k) BY <2>1, <3>1 DEF Stays
    <3>3. ~(k > h) BY <2>1, <3>1 DEF Stays
    <3>4. QED BY <3>1, <3>2, <3>3
  <2>3. M[key] = s[h][2] BY <1>1 DEF h
  <2>4. QED BY <2>2, <2>3
<1> DEFINE Left  == {<<name, M[name]>> : name \in DOMAIN M}
           Right == {<<s[k][1], s[k][2]>> : k \in St}
<1>5. ASSUME NEW x \in Left PROVE x \in Right
  <2>1. PICK name \in DOMAIN M : x = <<name, M[name]>> OBVIOUS
  <2>2. PICK k \in St : name = s[k][1] BY <1>2
  <2>3. x = <<s[k][1], s[k][2]>> BY <1>4, <2>1, <2>2
  <2>4. QED BY <2>3
<1>6. ASSUME NEW x \in Right PROVE x \in Left
  <2>1. PICK k \in St : x = <<s[k][1], s[k][2]>> OBVIOUS
  <2>2. s[k][1] \in DOMAIN M BY <1>2
  <2>3. x = <<s[k][1], M[s[k][1]]>> BY <1>4, <2>1
  <2>4. QED BY <2>2, <2>3
<1>7. Left = Right BY <1>5, <1>6
<1>8. QED BY <1>3, <1>7 DEF M

LEMMA CallGetter ==
  ASSUME NEW o, NEW getter, NEW key, NEW reasons, NEW answer, NEW st,
         Call(o, getter, key, reasons, answer, st)
  PROVE  ret'.getter = getter
  BY DEF Call, Return

(* The names GetAllUrlParameters answers: every name of a pair, but for    *)
(* its case, and of simple arguments nothing but the pairs.                *)
NamesOfPairs(value, r) ==
  \A k \in Pairs(r) : \E name \in DOMAIN value : Folded(name) = FoldedName(r.query[k])

PairsOnly(value, r) ==
  LET f       == r.query
      last(k) == \A j \in Pairs(r) : j > k => FoldedName(f[j]) # FoldedName(f[k])
  IN  {<<name, value[name]>> : name \in DOMAIN value} =
        {<<Widened(<<f[k][1]>>), Widened(<<f[k][3]>>)>> : k \in {k \in Pairs(r) : last(k)}}

LEMMA SplitPairs ==
  ASSUME NEW r \in Requests, r.query # << >>
  PROVE  LET value == PairMap(ParseIntoArray(Widened(QueryText(r)), "&"))
         IN  /\ NamesOfPairs(value, r)
             /\ (\A k \in DOMAIN r.query : Simple(r.query[k])) => PairsOnly(value, r)
<1> DEFINE q == r.query
           n == Len(q)
           L == SplitUpTo(q, n)
           s == Sections(L)
           N == Len(L)
           whole == {k \in DOMAIN L : Len(s[k]) = 2}
           value == Added(s, whole)
<1>1. q \in Seq(Texts \ {<< >>}) /\ n \in Nat /\ n # 0
  BY RequestsAssumption, EmptySeq DEF Texts
<1>2. /\ DOMAIN q = 1..n /\ \A k \in 1..n : q[k] \in Texts /\ q[k] # << >>
      /\ n \in 1..n
  BY <1>1
<1>3. L \in Seq(Seq(Elements)) BY <1>1, <1>2, SplitQuery
<1>4. N \in Nat /\ DOMAIN L = 1..N BY <1>3
<1>5. PairMap(ParseIntoArray(Widened(QueryText(r)), "&")) = value
  BY DEF PairMap, SplitUpTo, QueryText
<1>6. \A k \in 1..n : Simple(q[k]) => SplitOf(q, k) = <<Widened(q[k])>>
  BY <1>2, SimpleArgument DEF SplitOf
<1>7. \A k \in 1..n : Simple(q[k]) =>
        /\ Len(ParseIntoArray(Widened(q[k]), "=")) = 2 <=> Len(q[k]) \in {3, 4}
        /\ Len(q[k]) \in {3, 4} =>
             /\ ParseIntoArray(Widened(q[k]), "=")[1] = Widened(<<q[k][1]>>)
             /\ ParseIntoArray(Widened(q[k]), "=")[2] = Widened(<<q[k][3]>>)
  BY <1>2, SimpleSections
<1>8. \A k \in 1..N : s[k] = ParseIntoArray(L[k], "=")
  BY <1>4 DEF Sections
<1>9. Pairs(r) = {k \in 1..n : Simple(q[k]) /\ Len(q[k]) \in {3, 4}}
  BY <1>2 DEF Pairs
<1>10. ASSUME NEW k \in Pairs(r), NEW i \in 1..N, L[i] = Widened(q[k])
       PROVE  i \in whole /\ s[i][1] = Widened(<<q[k][1]>>) /\ s[i][2] = Widened(<<q[k][3]>>)
  <2>1. k \in 1..n /\ Simple(q[k]) /\ Len(q[k]) \in {3, 4} BY <1>9
  <2>2. s[i] = ParseIntoArray(Widened(q[k]), "=") BY <1>8, <1>10
  <2> HIDE DEF s, L
  <2>3. Len(s[i]) = 2 BY <1>7, <2>1, <2>2
  <2>4. s[i][1] = Widened(<<q[k][1]>>) /\ s[i][2] = Widened(<<q[k][3]>>)
    BY <1>7, <2>1, <2>2
  <2>5. QED BY <1>4, <2>3, <2>4
<1>11. /\ \A k \in whole : \E name \in DOMAIN value : Folded(name) = Folded(s[k][1])
       /\ {<<name, value[name]>> : name \in DOMAIN value} =
            {<<s[k][1], s[k][2]>> : k \in Stays(s, whole)}
  <2>1. whole \in SUBSET (1..N) BY <1>4
  <2> HIDE DEF s, whole, L
  <2>2. QED BY <1>4, <2>1, AddedPairs
<1>12. NamesOfPairs(value, r)
  <2>1. ASSUME NEW k \in Pairs(r)
        PROVE  \E name \in DOMAIN value : Folded(name) = FoldedName(q[k])
    <3>1. k \in 1..n /\ SplitOf(q, k) = <<Widened(q[k])>> BY <1>6, <1>9
    <3>2. PICK i \in 1..N : L[i] = Widened(q[k])
      <4> HIDE DEF q
      <4>1. QED BY <1>1, <3>1, OwnPart
    <3>3. i \in whole /\ s[i][1] = Widened(<<q[k][1]>>) BY <1>10, <3>2
    <3> HIDE DEF value, whole, s
    <3>4. \E name \in DOMAIN value : Folded(name) = Folded(s[i][1]) BY <1>11, <3>3
    <3>5. QED BY <3>3, <3>4 DEF FoldedName
  <2>2. QED BY <2>1 DEF NamesOfPairs
<1>13. ASSUME \A k \in 1..n : Simple(q[k]) PROVE PairsOnly(value, r)
  <2>1. N = n /\ \A i \in 1..n : L[i] = Widened(q[i])
    <3>1. \A k \in 1..n : SplitOf(q, k) = <<Widened(q[k])>> BY <1>6, <1>13
    <3> HIDE DEF q
    <3>2. QED BY <1>1, <3>1, OwnParts
  <2> HIDE DEF L, N, s
  <2>2. \A k \in Pairs(r) : /\ k \in whole
                            /\ s[k][1] = Widened(<<q[k][1]>>) /\ s[k][2] = Widened(<<q[k][3]>>)
    BY <1>9, <1>10, <2>1
  <2>3. \A k \in whole : k \in Pairs(r)
    <3>1. ASSUME NEW k \in whole PROVE k \in Pairs(r)
      <4>1. k \in 1..n /\ Len(s[k]) = 2 BY <1>4, <2>1
      <4>2. s[k] = ParseIntoArray(Widened(q[k]), "=") BY <1>8, <2>1, <4>1
      <4>3. Len(q[k]) \in {3, 4} BY <1>7, <1>13, <4>1, <4>2
      <4>4. QED BY <1>9, <1>13, <4>1, <4>3
    <3>2. QED BY <3>1
  <2>4. whole = Pairs(r) BY <2>2, <2>3
  <2> HIDE DEF whole, value
  <2> DEFINE last(k) == \A j \in Pairs(r) : j > k => FoldedName(q[j]) # FoldedName(q[k])
             T == {k \in Pairs(r) : last(k)}
  <2>5. \A k \in Pairs(r) : Folded(s[k][1]) = FoldedName(q[k])
    BY <2>2 DEF FoldedName
  <2>6. Stays(s, whole) = T
    BY <2>4, <2>5 DEF Stays
  <2>7. {<<s[k][1], s[k][2]>> : k \in T} =
          {<<Widened(<<q[k][1]>>), Widened(<<q[k][3]>>)>> : k \in T}
    <3>1. \A k \in T : /\ s[k][1] = Widened(<<q[k][1]>>)
                       /\ s[k][2] = Widened(<<q[k][3]>>)
      BY <2>2
    <3> HIDE DEF T
    <3>2. QED BY <3>1
  <2>8. {<<name, value[name]>> : name \in DOMAIN value} =
          {<<Widened(<<q[k][1]>>), Widened(<<q[k][3]>>)>> : k \in T}
    BY <1>11, <2>6, <2>7
  <2>9. QED BY <2>8 DEF PairsOnly
<1>14. QED BY <1>2, <1>5, <1>12, <1>13

LEMMA AllParametersAreSent ==
  ASSUME TypeInv, NEW o \in {Params, kept}, GetAllUrlParameters(o)
  PROVE  ParametersAreTheArguments'
<1> DEFINE value  == PairMap(ParseIntoArray(Widened(QueryText(request)), "&"))
           answer == IF lws_hdr_total_length(URI_ARGS) = 0 THEN No
                     ELSE Yes(PairMap(ParseIntoArray(Widened(Header(URI_ARGS)), "&")))
           st == FALSE
           AllSimple(r) == \A k \in DOMAIN r.query : Simple(r.query[k])
<1>1. Call(o, "GetAllUrlParameters", "none", HeaderReasons, answer, st) /\ st \in BOOLEAN
  BY DEF GetAllUrlParameters
<1>2. answer.status \in StatusSet
  BY DEF Yes, No, StatusSet
<1>3. ASSUME answer.status = "yes"
      PROVE  /\ answer.value = value /\ request \in Requests /\ request.query # << >>
  <2>1. /\ lws_hdr_total_length(URI_ARGS) # 0
        /\ answer.value = PairMap(ParseIntoArray(Widened(Header(URI_ARGS)), "&"))
    BY <1>3 DEF Yes, No
  <2>2. Header(URI_ARGS) # << >>
    <3>1. URI_ARGS \in Tokens BY DEF Tokens
    <3>2. QED BY <2>1, <3>1, HeaderOf
  <2>3. Header(URI_ARGS) = QueryText(request) /\ QueryText(request) # << >>
    BY <2>2, RequestTypes, StoredTypes DEF Header
  <2>4. request \in Requests /\ request.query # << >>
    BY <2>3, RequestTypes, QueryTextOf
  <2>5. QED BY <2>1, <2>3, <2>4
<1> HIDE DEF answer, st
<1>4. /\ UNCHANGED request /\ ret'.getter = "GetAllUrlParameters"
      /\ ~ret'.stale => \/ ret'.status = "no"
                        \/ ret'.status = answer.status /\ ret'.value = answer.value
  BY <1>1, <1>2, CallResult DEF Getters
<1>5. ASSUME ~ret'.stale, ret'.status = "yes"
      PROVE  /\ NamesOfPairs(ret'.value, request)
             /\ AllSimple(request) => PairsOnly(ret'.value, request)
  <2>1. answer.status = "yes" /\ ret'.value = answer.value
    BY <1>4, <1>5
  <2>2. ret'.value = value /\ request \in Requests /\ request.query # << >>
    BY <1>3, <2>1
  <2>3. /\ NamesOfPairs(value, request)
        /\ AllSimple(request) => PairsOnly(value, request)
    BY <2>2, SplitPairs
  <2> HIDE DEF value
  <2>4. QED BY <2>2, <2>3
<1>6. QED BY <1>4, <1>5 DEF ParametersAreTheArguments, Answered, NamesOfPairs, PairsOnly

LEMMA ParameterIsSent ==
  ASSUME TypeInv, NEW o \in {Params, kept}, NEW key \in Words, NEW size \in BufferSizes,
         GetUrlParam(o, key, size)
  PROVE  ParametersAreTheArguments'
<1> DEFINE k      == FirstArgument(request, key)
           found  == table /\ k # 0 /\ ArgumentFits(request, key, BufferSize(size))
           value  == SubSeq(request.query[k], 3, Len(request.query[k]))
           answer == IF ~found THEN Negative
                     ELSE IF value = << >> THEN No ELSE AppendChars(value, Length(value))
           question == <<key, BufferSize(size)>>
           st     == FALSE
           First(w, q, v) ==
             \E n \in DOMAIN q :
               /\ IsPrefix(<<w, "=">>, q[n])
               /\ \A j \in 1..(n - 1) : ~IsPrefix(<<w, "=">>, q[j])
               /\ Tells(v, SubSeq(q[n], 3, Len(q[n])))
<1>1. Call(o, "GetUrlParam", question, HeaderReasons, answer, st) /\ st \in BOOLEAN
  BY DEF GetUrlParam
<1>2. answer.status \in StatusSet
  BY DEF No, Yes, Negative, AppendChars, StatusSet
<1>3. ASSUME answer.status = "yes"
      PROVE  First(key, request.query, answer.value)
  <2>1. found /\ answer = AppendChars(value, Length(value))
    BY <1>3 DEF No, Negative
  <2>2. /\ k \in DOMAIN request.query /\ IsPrefix(<<key, "=">>, request.query[k])
        /\ \A j \in 1..(k - 1) : ~IsPrefix(<<key, "=">>, request.query[j])
        /\ value \in Texts
    BY <2>1, FirstArgumentOf
  <2>3. Tells(answer.value, value)
    <3> HIDE DEF value, answer
    <3>1. QED BY <2>1, <2>2, AppendText
  <2> HIDE DEF k, answer
  <2>4. QED BY <2>2, <2>3
<1>4. question[1] = key OBVIOUS
<1> HIDE DEF answer, st, question
<1>5. /\ UNCHANGED request /\ ret'.getter = "GetUrlParam" /\ ret'.key = question
      /\ ~ret'.stale => \/ ret'.status = "no"
                        \/ ret'.status = answer.status /\ ret'.value = answer.value
  BY <1>1, <1>2, CallResult DEF Getters
<1>6. ASSUME ~ret'.stale, ret'.status = "yes"
      PROVE  First(ret'.key[1], request.query, ret'.value)
  <2>1. answer.status = "yes" /\ ret'.value = answer.value /\ ret'.key[1] = key
    BY <1>4, <1>5, <1>6
  <2> HIDE DEF First
  <2>2. QED BY <1>3, <2>1
<1>7. QED BY <1>5, <1>6 DEF ParametersAreTheArguments, Answered

LEMMA ParametersNext ==
  TypeInv /\ ParametersAreTheArguments /\ [Next]_vars => ParametersAreTheArguments'
<1> SUFFICES ASSUME TypeInv, ParametersAreTheArguments, [Next]_vars
             PROVE  ParametersAreTheArguments'
  OBVIOUS
<1>1. ASSUME ret'.getter \notin {"GetAllUrlParameters", "GetUrlParam"}
      PROVE  ParametersAreTheArguments'
  BY <1>1 DEF ParametersAreTheArguments, Answered
<1>2. ASSUME NEW o \in {Params, kept}, Getter(o) PROVE ParametersAreTheArguments'
  <2>1. CASE GetAllUrlParameters(o) BY <2>1, AllParametersAreSent
  <2>2. ASSUME NEW key \in Words, NEW size \in BufferSizes, GetUrlParam(o, key, size)
        PROVE  ParametersAreTheArguments'
    BY <2>2, ParameterIsSent
  <2>3. CASE GetMethod(o) \/ GetUri(o) \/ GetAllKnownHeaders(o)
    <3>1. ret'.getter \in {"GetMethod", "GetUri", "GetAllKnownHeaders"}
      BY <2>3, CallGetter DEF GetMethod, GetUri, GetAllKnownHeaders
    <3>2. QED BY <1>1, <3>1
  <2>4. CASE GetBody(o)
    <3>1. ret'.getter = "GetBody" BY <2>4 DEF GetBody, Return
    <3>2. QED BY <1>1, <3>1
  <2>5. ASSUME NEW name, GetCustomHeader(o, name) \/ GetAllCustomHeaders(o, name)
        PROVE  ParametersAreTheArguments'
    <3>1. ret'.getter \in {"GetCustomHeader", "GetAllCustomHeaders"}
      BY <2>5, CallGetter DEF GetCustomHeader, GetAllCustomHeaders
    <3>2. QED BY <1>1, <3>1
  <2>6. ASSUME NEW key, GetKnownHeader_Enum(o, key) \/ GetKnownHeader_Int(o, key)
        PROVE  ParametersAreTheArguments'
    <3>1. ret'.getter \in {"GetKnownHeader_Enum", "GetKnownHeader_Int"}
      BY <2>6, CallGetter DEF GetKnownHeader_Enum, GetKnownHeader_Int
    <3>2. QED BY <1>1, <3>1
  <2>7. QED BY <1>2, <2>1, <2>2, <2>3, <2>4, <2>5, <2>6 DEF Getter
<1>3. CASE HttpCallback \/ BodyCallback \/ CallbackReturns \/ Closed \/ NextRequest
  <2>1. ret' = NoAnswer
    BY <1>3 DEF HttpCallback, BodyCallback, CallbackReturns, Closed, NextRequest
  <2>2. QED BY <1>1, <2>1 DEF NoAnswer
<1>4. CASE UNCHANGED vars
  <2>1. ret' = ret /\ request' = request
    BY <1>4 DEF vars, connection
  <2>2. ParametersAreTheArguments' <=> ParametersAreTheArguments
    BY <2>1 DEF ParametersAreTheArguments, Answered
  <2>3. QED BY <2>2
<1>5. QED BY <1>2, <1>3, <1>4 DEF Next

-----------------------------------------------------------------------------
LEMMA NothingAnswered ==
  /\ NoAnswer.getter = "none" /\ NoAnswer.status = "no" /\ NoAnswer.stale \in BOOLEAN
  BY DEF NoAnswer

(* The callbacks keep the types, and no answer is left from before them.   *)
LEMMA CallbackTypes ==
  ASSUME TypeInv, HttpCallback \/ BodyCallback \/ CallbackReturns \/ Closed \/ NextRequest
  PROVE  TypeInv' /\ ret' = NoAnswer
<1> USE NothingAnswered, RequestsAssumption DEF TypeInv, TypeOK
<1>1. CASE HttpCallback
  <2>1. Params' \in {o \in Object : o.serial = serial}
    BY <1>1 DEF HttpCallback, Object
  <2>2. QED BY <1>1, <2>1 DEF HttpCallback
<1>2. CASE BodyCallback
  <2>1. Params' \in {o \in Object : o.serial = serial}
    BY <1>2 DEF BodyCallback, BodyObject, Object
  <2>2. bodies' \in 0..MaxBody
    BY <1>2 DEF BodyCallback
  <2>3. QED BY <1>2, <2>1, <2>2 DEF BodyCallback
<1>3. CASE CallbackReturns
  <2>1. table' \in BOOLEAN /\ (gone' => ~table')
    <3>1. table' = table \/ table' = FALSE BY <1>3 DEF CallbackReturns
    <3>2. gone' = gone BY <1>3 DEF CallbackReturns
    <3>3. CASE table' = table BY <3>2, <3>3
    <3>4. CASE table' = FALSE BY <3>4
    <3>5. QED BY <3>1, <3>3, <3>4
  <2>2. kept' \in {NoObject} \cup Object
    BY <1>3 DEF CallbackReturns
  <2>3. QED BY <1>3, <2>1, <2>2 DEF CallbackReturns
<1>4. CASE Closed
  BY <1>4 DEF Closed
<1>5. CASE NextRequest
  <2>1. serial + 1 \in 1..MaxRequests
    BY <1>5 DEF NextRequest
  <2>2. Params' \in {NoObject} \cup {o \in Object : o.serial = serial}'
    BY <1>5 DEF NextRequest
  <2>3. kept' \in {NoObject} \cup Object /\ bodies' \in 0..MaxBody
    BY <1>5 DEF NextRequest
  <2>4. QED BY <1>5, <2>1, <2>2, <2>3 DEF NextRequest
<1>6. QED BY <1>1, <1>2, <1>3, <1>4, <1>5

(* No answer has been given at first.                                      *)
LEMMA AccessInit == Init => Inv
<1> SUFFICES ASSUME Init PROVE Inv OBVIOUS
<1>1. TypeInv
  <2>1. serial \in 1..MaxRequests /\ bodies \in 0..MaxBody
    BY RequestsAssumption DEF Init
  <2>2. QED BY <2>1, NothingAnswered DEF Init, TypeInv, TypeOK
<1>2. ret.getter = "none" /\ ret.status = "no" BY NothingAnswered DEF Init
<1>3. AnswersAreTheRequests BY <1>2 DEF AnswersAreTheRequests, Answered
<1>4. NothingSentIsMissed BY <1>2 DEF NothingSentIsMissed, Answered, Refused
<1>5. QED BY <1>1, <1>3, <1>4 DEF Inv

(* Every step keeps Inv: a getter by its lemma, lws by clearing the answer.*)
LEMMA AccessNext == Inv /\ [Next]_vars => Inv'
<1> SUFFICES ASSUME Inv, [Next]_vars PROVE Inv' OBVIOUS
<1>0. TypeInv BY DEF Inv
<1>1. ASSUME NEW o \in {Params, kept}, Getter(o) PROVE Inv'
  BY <1>0, <1>1, MethodAnswer, UriAnswer, BodyAnswer, CustomAnswer, AllCustomAnswer,
     KnownEnumAnswer, KnownIntAnswer, AllKnownAnswer, AllParametersAnswer,
     ParameterAnswer DEF Getter
<1>2. CASE HttpCallback \/ BodyCallback \/ CallbackReturns \/ Closed \/ NextRequest
  <2>1. TypeInv' /\ ret' = NoAnswer
    BY <1>0, <1>2, CallbackTypes
  <2>2. ret'.getter = "none" /\ ret'.status = "no"
    BY <2>1, NothingAnswered
  <2>3. AnswersAreTheRequests' BY <2>2 DEF AnswersAreTheRequests, Answered
  <2>4. NothingSentIsMissed' BY <2>2 DEF NothingSentIsMissed, Answered, Refused
  <2>5. QED BY <2>1, <2>3, <2>4 DEF Inv
<1>3. CASE UNCHANGED vars
  <2>1. TypeInv' BY <1>0, <1>3 DEF TypeInv, TypeOK, vars, connection
  <2>2. AnswersAreTheRequests'
    BY <1>3 DEF Inv, AnswersAreTheRequests, Answered, vars, connection
  <2>3. NothingSentIsMissed'
    BY <1>3 DEF Inv, NothingSentIsMissed, Answered, Refused, vars, connection
  <2>4. QED BY <2>1, <2>2, <2>3 DEF Inv
<1>4. QED BY <1>1, <1>2, <1>3 DEF Next

LEMMA AccessInv == Spec => []Inv
  BY AccessInit, AccessNext, PTL DEF Spec

(* Every object Blueprint can ask was made in a callback, with the reason  *)
(* and the pointer of that callback.                                       *)
THEOREM AccessTypeCorrect == Spec => []TypeOK
<1>1. Inv => TypeOK BY DEF Inv, TypeInv
<1>2. QED BY <1>1, AccessInv, PTL

(* A getter that answers "true" gives the bytes of what the client sent,   *)
(* each made a character: the text itself if it is ASCII and never it if   *)
(* it is not, whatever the request is and in whatever callback the object  *)
(* was made.                                                               *)
THEOREM GettersTellTheTruth == Spec => []AnswersAreTheRequests
<1>1. Inv => AnswersAreTheRequests BY DEF Inv
<1>2. QED BY <1>1, AccessInv, PTL

(* While lws has the headers, "false" and the negative counts have no      *)
(* other reasons than those the property names: an object of the other     *)
(* callback, something not sent or sent empty, and for GetUrlParam an      *)
(* argument that with its name, "=" and NUL is too long for the buffer.    *)
THEOREM GettersMissNothing == Spec => []NothingSentIsMissed
<1>1. Inv => NothingSentIsMissed BY DEF Inv
<1>2. QED BY <1>1, AccessInv, PTL

(* GetUrlParam gives the first argument of the very name, for every query. *)
(* GetAllUrlParameters, which splits the text lws joins the arguments into *)
(* and splits the parts again, has every name of a pair, and for simple    *)
(* arguments the last pair of each name when case is ignored and no other. *)
THEOREM ParametersAreRead == Spec => []ParametersAreTheArguments
<1>1. Init => ParametersAreTheArguments
  BY DEF Init, NoAnswer, ParametersAreTheArguments, Answered
<1>2. Inv => TypeInv BY DEF Inv
<1>3. QED BY <1>1, <1>2, AccessInv, ParametersNext, PTL DEF Spec
=============================================================================
