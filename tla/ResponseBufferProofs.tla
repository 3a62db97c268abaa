------------------------ MODULE ResponseBufferProofs ------------------------
(***************************************************************************)
(* SendResponse stays inside its buffer whatever it is asked to send.  The *)
(* reason is that lws never passes End, that End is LWS_PRE short of what  *)
(* malloc returned, and that the size counted is at least LWS_PRE, so that *)
(* End is not in front of the first byte to write.                         *)
(***************************************************************************)
EXTENDS ResponseBuffer, SequenceSumsProofs, FiniteSetTheorems, SequenceTheorems

BufferInv ==
  /\ TypeOK
  /\ Payload_Size >= LWS_PRE
  /\ LWS_PRE <= Position /\ Position <= End
  /\ LWS_PRE + wire.header <= End
  /\ LengthLine \in sent => announced = response.len
  /\ step = "done" => wire.body = response.len

LEMMA DigitsType == ASSUME NEW n \in Nat PROVE Digits(n) \in Nat \ {0}
<1>1. IsFiniteSet(1..9)
  <2>1. 1 \in Int /\ 9 \in Int
    OBVIOUS
  <2> QED BY <2>1, FS_Interval, Zenon
<1>2. IsFiniteSet({k \in 1..9 : n >= 10^k})
  BY <1>1, FS_Subset
<1>3. Cardinality({k \in 1..9 : n >= 10^k}) \in Nat
  BY <1>2, FS_CardinalityType
<1> QED BY <1>3 DEF Digits

LEMMA ResponseType ==
  ASSUME NEW r \in Responses
  PROVE  /\ r.len \in Nat /\ r.bytes \in Nat /\ r.len <= r.bytes /\ ContentTypeString(r.type) \in Nat
         /\ Len(r.headers) \in Nat
         /\ \A k \in 1..Len(r.headers) :
              /\ r.headers[k].name \in Nat /\ r.headers[k].bytes \in Nat
              /\ r.headers[k].value \in Nat
<1>1. r.len \in Nat /\ r.bytes \in Nat /\ r.len <= r.bytes /\ ContentTypeString(r.type) \in Nat
  BY ResponsesAssumption DEF ResponsesAssumption, ContentTypeString
<1>2. r.headers \in Seq([name : Nat, bytes : Nat, value : Nat])
  BY ResponsesAssumption DEF ResponsesAssumption
<1>3. ASSUME NEW k \in 1..Len(r.headers)
      PROVE  r.headers[k] \in [name : Nat, bytes : Nat, value : Nat]
  BY <1>2, ElementOfSeq, Zenon
<1>4. Len(r.headers) \in Nat
  BY <1>2
<1> QED BY <1>1, <1>3, <1>4

LEMMA BaseSizeLarge ==
  ASSUME NEW r \in Responses
  PROVE  BaseSize(r) \in Nat /\ BaseSize(r) >= LWS_PRE
<1>1. r.len \in Nat /\ ContentTypeString(r.type) \in Nat /\ Digits(r.len) \in Nat
  BY ResponseType, DigitsType
<1> QED
  BY <1>1 DEF BaseSize, LWS_PRE, Token_AO, Token_CT, Token_CL, TERMINATION

(* Appending a line keeps Position between LWS_PRE and End.                *)
LEMMA AddLineInside ==
  ASSUME BufferInv, NEW line \in Nat, NEW n \in Nat, AddLine(line, n)
  PROVE  /\ Position' \in Nat /\ LWS_PRE <= Position' /\ Position' <= End
         /\ sent' \subseteq Nat /\ cut' \in BOOLEAN
<1>1. CASE /\ Position + n <= End
           /\ Position' = Position + n
           /\ sent' = sent \cup {line}
           /\ UNCHANGED cut
  BY <1>1 DEF BufferInv, TypeOK, End, LWS_PRE
<1>2. CASE /\ \E q \in Position..End : q <= Position + n /\ Position' = q
           /\ cut' = TRUE
           /\ UNCHANGED sent
  BY <1>2 DEF BufferInv, TypeOK, End, LWS_PRE
<1> QED BY <1>1, <1>2 DEF AddLine

LEMMA BufferInit == Init => BufferInv
<1> SUFFICES ASSUME Init PROVE BufferInv
  OBVIOUS
<1>1. BaseSize(response) \in Nat /\ BaseSize(response) >= LWS_PRE
  BY BaseSizeLarge DEF Init
<1>2. TypeOK
  <2>1. wire \in [header : Nat, body : Nat] /\ wire.header = 0
    BY DEF Init
  <2>2. sent \subseteq Nat /\ cut \in BOOLEAN /\ stale \in BOOLEAN
    BY DEF Init
  <2> QED BY <1>1, <2>1, <2>2 DEF Init, TypeOK, LWS_PRE
<1>3. wire.header = 0
  BY DEF Init
<1> QED BY <1>1, <1>2, <1>3 DEF Init, BufferInv, End, LWS_PRE

LEMMA BufferNext == BufferInv /\ [Next]_vars => BufferInv'
<1> SUFFICES ASSUME BufferInv, [Next]_vars PROVE BufferInv'
  OBVIOUS
<1> USE DEF LWS_PRE, End
<1>0. /\ response.len \in Nat /\ ContentTypeString(response.type) \in Nat
      /\ Len(headers) \in Nat
      /\ \A k \in 1..Len(headers) :
           headers[k].name \in Nat /\ headers[k].bytes \in Nat /\ headers[k].value \in Nat
  BY ResponseType DEF BufferInv, TypeOK, headers
<1>1. CASE SizeHeader
  <2>1. headers[i].name \in Nat /\ headers[i].value \in Nat
    BY <1>0, <1>1 DEF SizeHeader, BufferInv, TypeOK
  <2>2. /\ Payload_Size' = Payload_Size + headers[i].name + headers[i].value + 2
        /\ i' = i + 1
        /\ UNCHANGED <<response, step, Position, sent, cut, stale, announced, wire>>
        /\ step = "size"
    BY <1>1 DEF SizeHeader, TERMINATION
  <2>3. Payload_Size' \in Nat /\ Payload_Size' >= Payload_Size /\ i' \in Nat \ {0}
    BY <2>1, <2>2 DEF BufferInv, TypeOK
  <2>4. wire.header \in Nat
    BY DEF BufferInv, TypeOK
  <2> QED BY <2>2, <2>3, <2>4 DEF BufferInv, TypeOK
<1>2. CASE Allocate \/ HeadersAdded
  <2>1. /\ UNCHANGED <<response, Payload_Size, Position, sent, cut, stale, announced, wire>>
        /\ step' \in {"fixed", "end"} /\ i' \in Nat \ {0}
        /\ step' = "fixed" => i' <= 4
    BY <1>2 DEF Allocate, HeadersAdded, BufferInv, TypeOK
  <2> QED BY <2>1 DEF BufferInv, TypeOK
<1>3. CASE AddFixed
  <2>0. i \in 1..4 BY <1>3 DEF AddFixed, BufferInv, TypeOK
  <2>1. FixedSize(i) \in Nat
    <3>1. Digits(response.len) \in Nat BY <1>0, DigitsType
    <3> QED BY <1>0, <2>0, <3>1 DEF FixedSize, StatusLine, OriginLine, TypeLine,
          LengthLine, Token_AO, Token_CT, Token_CL, CRLF, Server
  <2>2. /\ Position' \in Nat /\ LWS_PRE <= Position' /\ Position' <= End
        /\ sent' \subseteq Nat /\ cut' \in BOOLEAN
    BY <1>3, <2>1, AddLineInside DEF AddFixed, BufferInv, TypeOK
  <2>3. LengthLine \in sent' => announced' = response.len
    <3>1. announced' = IF i = LengthLine THEN response.len ELSE announced
      BY <1>3 DEF AddFixed
    <3>2. i # LengthLine /\ LengthLine \in sent' => LengthLine \in sent
      BY <1>3 DEF AddFixed, AddLine
    <3> QED BY <3>1, <3>2 DEF BufferInv
  <2>4. announced' \in Nat BY <1>0, <1>3 DEF AddFixed, BufferInv, TypeOK
  <2>5. /\ step' \in {"fixed", "headers"} /\ i' \in Nat \ {0}
        /\ step' = "fixed" => i' <= 4
        /\ UNCHANGED <<response, Payload_Size, stale, wire>>
    BY <1>3, <2>0 DEF AddFixed
  <2> QED BY <2>2, <2>3, <2>4, <2>5 DEF BufferInv, TypeOK
<1>4. CASE AddHeader
  <2>1. /\ Position' \in Nat /\ LWS_PRE <= Position' /\ Position' <= End
        /\ sent' \subseteq Nat /\ cut' \in BOOLEAN /\ stale' \in BOOLEAN
    <3> DEFINE n == headers[i].bytes + 1 + headers[i].value + CRLF
    <3>1. Line(i) \in Nat /\ n \in Nat
      <4>1. i \in 1..Len(headers)
        BY <1>0, <1>4 DEF AddHeader, BufferInv, TypeOK
      <4>2. headers[i].bytes \in Nat /\ headers[i].value \in Nat
        BY <1>0, <4>1
      <4> QED BY <4>1, <4>2 DEF Line, CRLF
    <3>2. CASE AddLine(Line(i), n) /\ UNCHANGED stale
      BY <3>1, <3>2, AddLineInside DEF BufferInv, TypeOK
    <3>3. CASE /\ \E q \in Position..End : Position' = q
               /\ stale' = TRUE
               /\ UNCHANGED <<sent, cut>>
      BY <3>3 DEF BufferInv, TypeOK
    <3>4. CASE UNCHANGED <<Position, sent, cut, stale>>
      BY <3>4 DEF BufferInv, TypeOK
    <3> QED BY <1>4, <3>2, <3>3, <3>4 DEF AddHeader
  <2>2. LengthLine \in sent' => LengthLine \in sent
    <3>1. Line(i) # LengthLine BY DEF Line, LengthLine, BufferInv, TypeOK
    <3> QED BY <1>4, <3>1 DEF AddHeader, AddLine
  <2> QED BY <1>4, <2>1, <2>2 DEF AddHeader, BufferInv, TypeOK
<1>5. CASE Finalize
  <2>1. /\ Position' \in Nat /\ LWS_PRE <= Position' /\ Position' <= End
        /\ sent' \subseteq Nat /\ cut' \in BOOLEAN
    BY <1>5, AddLineInside DEF Finalize, BlankLine, CRLF
  <2>2. LengthLine \in sent' => LengthLine \in sent
    BY <1>5 DEF Finalize, AddLine, BlankLine, LengthLine
  <2> QED BY <1>5, <2>1, <2>2 DEF Finalize, BufferInv, TypeOK
<1>6. CASE Write
  BY <1>0, <1>6 DEF Write, BufferInv, TypeOK
<1>7. CASE UNCHANGED vars
  BY <1>7 DEF vars, BufferInv, TypeOK
<1> QED BY <1>1, <1>2, <1>3, <1>4, <1>5, <1>6, <1>7 DEF Next

LEMMA BufferInvariance == Spec => []BufferInv
  BY BufferInit, BufferNext, PTL DEF Spec

-----------------------------------------------------------------------------
(* Whatever the body, the headers and the type, SendResponse writes inside *)
(* the block it allocated and hands lws_write nothing outside it.          *)
THEOREM ResponseStaysInBuffer == Spec => []WithinBuffer
<1>1. BufferInv => WithinBuffer
  BY DEF BufferInv, TypeOK, WithinBuffer, End, Allocated, LWS_PRE
<1> QED BY <1>1, BufferInvariance, PTL

(* Whatever the text, the client is sent the number of bytes it was told   *)
(* to expect and lws reads no more of the text than there is.              *)
THEOREM AnnouncedBytesAreSent == Spec => []AnnouncedIsSent
<1>1. BufferInv => AnnouncedIsSent
  BY ResponseType DEF BufferInv, TypeOK, AnnouncedIsSent
<1> QED BY <1>1, BufferInvariance, PTL

(* Every state of the call is well typed.                                  *)
THEOREM ResponseTypeCorrect == Spec => []TypeOK
  BY BufferInvariance, PTL DEF BufferInv

-----------------------------------------------------------------------------
(* From the length Uncounted on the buffer is large enough.  Header k is   *)
(* counted with Sizes[k], written with Lines[k], and what is written and   *)
(* not counted is Shorts[k].                                               *)

Sizes  == [k \in 1..Len(headers) |-> headers[k].name + headers[k].value + TERMINATION]
Lines  == [k \in 1..Len(headers) |->
             IF headers[k].value > 0
             THEN headers[k].bytes + 1 + headers[k].value + CRLF ELSE 0]
Shorts == [k \in 1..Len(headers) |-> Shortfall(headers[k])]

(* A function on 1..n is a sequence of length n.                           *)
LEMMA FunctionIsSequence ==
  ASSUME NEW S, NEW n \in Nat, NEW s \in [1..n -> S]
  PROVE  s \in Seq(S) /\ Len(s) = n
  OBVIOUS

LEMMA SizesTypes ==
  ASSUME response \in Responses
  PROVE  /\ Sizes \in Seq(Int) /\ Lines \in Seq(Nat) /\ Lines \in Seq(Int)
         /\ Shorts \in Seq(Int)
         /\ Len(headers) \in Nat
         /\ Len(Sizes) = Len(headers) /\ Len(Lines) = Len(headers)
         /\ Len(Shorts) = Len(headers)
         /\ \A k \in 1..Len(headers) : Lines[k] <= Sizes[k] + Shorts[k]
<1>1. /\ Len(headers) \in Nat
      /\ \A k \in 1..Len(headers) :
           headers[k].name \in Nat /\ headers[k].bytes \in Nat /\ headers[k].value \in Nat
  BY ResponseType DEF headers
<1>2. ASSUME NEW k \in 1..Len(headers)
      PROVE  /\ Sizes[k] \in Int /\ Lines[k] \in Nat /\ Shorts[k] \in Int
             /\ Lines[k] <= Sizes[k] + Shorts[k]
  <2>1. headers[k].name \in Nat /\ headers[k].bytes \in Nat /\ headers[k].value \in Nat
    BY <1>1
  <2>2. /\ Sizes[k] = headers[k].name + headers[k].value + 2
        /\ Lines[k] = IF headers[k].value > 0
                      THEN headers[k].bytes + 1 + headers[k].value + 2 ELSE 0
        /\ Shorts[k] = IF headers[k].value > 0
                       THEN 1 + (headers[k].bytes - headers[k].name) ELSE 0
    BY DEF Sizes, Lines, Shorts, Shortfall, TERMINATION, CRLF
  <2> DEFINE p == headers[k].name  q == headers[k].bytes  v == headers[k].value
  <2> HIDE DEF p, q, v
  <2>6. p \in Nat /\ q \in Nat /\ v \in Nat
    BY <2>1 DEF p, q, v
  <2>7. /\ Sizes[k] = p + v + 2
        /\ Lines[k] = IF v > 0 THEN q + 1 + v + 2 ELSE 0
        /\ Shorts[k] = IF v > 0 THEN 1 + (q - p) ELSE 0
    BY <2>2 DEF p, q, v
  <2>3. CASE v > 0
    BY <2>3, <2>6, <2>7
  <2>4. CASE ~(v > 0)
    BY <2>4, <2>6, <2>7
  <2>5. QED BY <2>3, <2>4
<1>3. /\ Sizes \in [1..Len(headers) -> Int] /\ Lines \in [1..Len(headers) -> Nat]
      /\ Shorts \in [1..Len(headers) -> Int] /\ Lines \in [1..Len(headers) -> Int]
  BY <1>2 DEF Sizes, Lines, Shorts
<1>4. Sizes \in Seq(Int) /\ Len(Sizes) = Len(headers)
  BY <1>1, <1>3, FunctionIsSequence
<1>5. Lines \in Seq(Nat) /\ Len(Lines) = Len(headers)
  BY <1>1, <1>3, FunctionIsSequence
<1>6. Shorts \in Seq(Int) /\ Len(Shorts) = Len(headers)
  BY <1>1, <1>3, FunctionIsSequence
<1>7. Lines \in Seq(Int)
  BY <1>1, <1>3, FunctionIsSequence
<1>8. QED BY <1>1, <1>2, <1>4, <1>5, <1>6, <1>7

(* What the fixed lines before line n take.                                *)
FixedBefore(n) ==
  CASE n = 1 -> 0
    [] n = 2 -> FixedSize(1)
    [] n = 3 -> FixedSize(1) + FixedSize(2)
    [] n = 4 -> FixedSize(1) + FixedSize(2) + FixedSize(3)
    [] n = 5 -> FixedSize(1) + FixedSize(2) + FixedSize(3) + FixedSize(4)

(* The size that CalculcatePayloadSize has counted, and will have.         *)
SizeInv ==
  /\ i - 1 \in Nat
  /\ step \in {"size", "headers"} => i - 1 <= Len(headers)
  /\ step = "size" => /\ Payload_Size = BaseSize(response) + PartialSums(Sizes)[i - 1]
                      /\ Position = LWS_PRE /\ sent = {} /\ ~cut
  /\ step # "size" => Payload_Size = BaseSize(response) + Total(Sizes)

(* With enough room and no stale reading nothing has been dropped so far.  *)
Ample == response.len >= Uncounted /\ ~stale

WrittenBefore(n) == {Line(k) : k \in {k \in Written : k < n}}

NothingDropped == Ample =>
  /\ ~cut
  /\ step = "fixed" =>
       Position = LWS_PRE + FixedBefore(i) /\ sent = {n \in 1..4 : n < i}
  /\ step = "headers" =>
       /\ Position = LWS_PRE + FixedBefore(5) + PartialSums(Lines)[i - 1]
       /\ sent = (1..4) \cup WrittenBefore(i)
  /\ step = "end" =>
       /\ Position = LWS_PRE + FixedBefore(5) + Total(Lines)
       /\ sent = (1..4) \cup {Line(k) : k \in Written}
  /\ step \in {"write", "done"} => sent = (0..4) \cup {Line(k) : k \in Written}

CompleteInv == BufferInv /\ SizeInv /\ NothingDropped

LEMMA FixedTypes ==
  ASSUME response \in Responses
  PROVE  /\ \A n \in 1..4 : FixedSize(n) \in Nat
         /\ \A n \in 1..5 : FixedBefore(n) \in Nat
         /\ \A n \in 1..4 : FixedBefore(n + 1) = FixedBefore(n) + FixedSize(n)
         /\ \A n \in 1..5 : FixedBefore(n) <= FixedBefore(5)
         /\ FixedBefore(1) = 0
         /\ FixedBefore(5) = BaseSize(response) - response.len + 44
         /\ BaseSize(response) \in Nat /\ response.len \in Nat
<1>1. /\ response.len \in Nat /\ ContentTypeString(response.type) \in Nat
      /\ Digits(response.len) \in Nat
  BY ResponseType, DigitsType
<1>2. /\ FixedSize(1) = 40 /\ FixedSize(2) = 32
      /\ FixedSize(3) = 16 + ContentTypeString(response.type)
      /\ FixedSize(4) = 18 + Digits(response.len)
  BY <1>1 DEF FixedSize, StatusLine, OriginLine, TypeLine, LengthLine,
       Token_AO, Token_CT, Token_CL, CRLF, Server
<1>3. BaseSize(response) =
        62 + Digits(response.len) + response.len + ContentTypeString(response.type)
  BY <1>1 DEF BaseSize, Token_AO, Token_CT, Token_CL, TERMINATION
<1>4. /\ FixedBefore(1) = 0
      /\ FixedBefore(2) = 40 /\ FixedBefore(3) = 72
      /\ FixedBefore(4) = 88 + ContentTypeString(response.type)
      /\ FixedBefore(5) = 106 + ContentTypeString(response.type) + Digits(response.len)
  BY <1>1, <1>2 DEF FixedBefore
<1>5. ASSUME NEW n \in 1..4
      PROVE  FixedSize(n) \in Nat /\ FixedBefore(n + 1) = FixedBefore(n) + FixedSize(n)
  <2>1. n = 1 \/ n = 2 \/ n = 3 \/ n = 4 OBVIOUS
  <2>2. 1 + 1 = 2 /\ 2 + 1 = 3 /\ 3 + 1 = 4 /\ 4 + 1 = 5 OBVIOUS
  <2>3. QED BY <1>1, <1>2, <1>4, <2>1, <2>2
<1>6. ASSUME NEW n \in 1..5
      PROVE  FixedBefore(n) \in Nat /\ FixedBefore(n) <= FixedBefore(5)
  <2>1. n = 1 \/ n = 2 \/ n = 3 \/ n = 4 \/ n = 5 OBVIOUS
  <2>2. QED BY <1>1, <1>4, <2>1
<1>7. QED BY <1>1, <1>3, <1>4, <1>5, <1>6

(* All that will be written fits, with Slack to spare.                     *)
LEMMA AllFits ==
  ASSUME CompleteInv, Ample, step # "size"
  PROVE  /\ Total(Lines) \in Nat
         /\ LWS_PRE + FixedBefore(5) + Total(Lines) + CRLF + Slack <= End
<1>0. response \in Responses BY DEF CompleteInv, BufferInv, TypeOK
<1>1. /\ Total(Lines) \in Nat /\ Total(Sizes) \in Int /\ Total(Shorts) \in Int
      /\ Total(Lines) <= Total(Sizes) + Total(Shorts)
  <2> DEFINE n == Len(headers)
  <2>1. n \in Nat /\ n \in 0..n /\ n \in n..n
    BY <1>0, SizesTypes
  <2>2. PartialSums(Lines)[n] \in Nat
    BY <1>0, <2>1, SizesTypes, PartialSumsGrow
  <2>3. PartialSums(Sizes)[n] \in Int /\ PartialSums(Shorts)[n] \in Int
    BY <1>0, <2>1, SizesTypes, PartialSumsType
  <2>4. PartialSums(Lines)[n] <= PartialSums(Sizes)[n] + PartialSums(Shorts)[n]
    BY <1>0, <2>1, SizesTypes, PartialSumsCompare
  <2>5. QED BY <1>0, <2>2, <2>3, <2>4, SizesTypes DEF Total
<1>2. Payload_Size = BaseSize(response) + Total(Sizes)
  BY DEF CompleteInv, SizeInv
<1>3. response.len >= 62 + Total(Shorts) + Slack
  <2>1. Uncounted = 62 + Total(Shorts) + Slack
    BY <1>1, ResponsesAssumption DEF Uncounted, Shorts, LWS_PRE, CRLF, Server, ResponsesAssumption
  <2>2. QED BY <2>1 DEF Ample
<1>4. Slack \in Nat BY ResponsesAssumption DEF ResponsesAssumption
<1>5. QED BY <1>0, <1>1, <1>2, <1>3, <1>4, FixedTypes DEF End, LWS_PRE, CRLF

LEMMA AddLineFits ==
  ASSUME BufferInv, NEW line, NEW n \in Nat, AddLine(line, n),
         Position + n + Slack <= End
  PROVE  Position' = Position + n /\ sent' = sent \cup {line} /\ cut' = cut
<1>1. Position + n + Slack \in Int /\ End \in Int
  BY ResponsesAssumption DEF ResponsesAssumption, BufferInv, TypeOK, End
<1>2. ~(Position + n + Slack > End)
  BY <1>1
<1>3. QED BY <1>2 DEF AddLine

(* What depends on the arguments of the call alone does not change.        *)
LEMMA Arguments ==
  ASSUME response' = response
  PROVE  /\ headers' = headers /\ Sizes' = Sizes /\ Lines' = Lines
         /\ Total(Sizes)' = Total(Sizes) /\ Total(Lines)' = Total(Lines)
         /\ BaseSize(response)' = BaseSize(response)
         /\ Written' = Written /\ Uncounted' = Uncounted
         /\ \A n : FixedBefore(n)' = FixedBefore(n)
<1>1. headers' = headers BY DEF headers
<1>2. Sizes' = Sizes /\ Lines' = Lines /\ Written' = Written /\ Uncounted' = Uncounted
  BY <1>1 DEF Sizes, Lines, Written, Uncounted
<1>3. \A n : FixedBefore(n)' = FixedBefore(n)
  BY DEF FixedBefore, FixedSize
<1>4. QED BY <1>1, <1>2, <1>3

LEMMA CompleteInit == Init => CompleteInv
<1> SUFFICES ASSUME Init PROVE CompleteInv
  OBVIOUS
<1>1. BufferInv BY BufferInit
<1>2. response \in Responses BY DEF Init
<1>3. Len(headers) \in Nat /\ Len(Sizes) = Len(headers)
  BY <1>2, SizesTypes
<1>4. PartialSums(Sizes)[0] = 0 /\ BaseSize(response) \in Nat
  BY <1>2, <1>3, PartialSumsEquations, BaseSizeLarge
<1>5. i = 1 /\ step = "size" /\ Payload_Size = BaseSize(response) /\ Position = LWS_PRE
      /\ sent = {} /\ ~cut
  BY DEF Init
<1>6. i - 1 = 0 BY <1>5
<1>7. SizeInv
  BY <1>3, <1>4, <1>5, <1>6 DEF SizeInv
<1>8. NothingDropped
  BY <1>5 DEF NothingDropped
<1>9. QED BY <1>1, <1>7, <1>8 DEF CompleteInv

LEMMA CompleteNext == CompleteInv /\ [Next]_vars => CompleteInv'
<1> SUFFICES ASSUME CompleteInv, [Next]_vars PROVE CompleteInv'
  OBVIOUS
<1>1. BufferInv /\ BufferInv' /\ SizeInv /\ NothingDropped
  BY BufferNext DEF CompleteInv
<1>2. response \in Responses /\ response' = response /\ i \in Nat \ {0}
  BY <1>1 DEF BufferInv, TypeOK, Next, SizeHeader, Allocate, AddFixed, AddHeader,
    HeadersAdded, Finalize, Write, vars
<1>3. /\ headers' = headers /\ Sizes' = Sizes /\ Lines' = Lines
      /\ Total(Sizes)' = Total(Sizes) /\ Total(Lines)' = Total(Lines)
      /\ BaseSize(response)' = BaseSize(response)
      /\ Written' = Written /\ Uncounted' = Uncounted
      /\ \A n : FixedBefore(n)' = FixedBefore(n)
  BY <1>2, Arguments
<1>4. Len(headers) \in Nat /\ Len(Sizes) = Len(headers) /\ Len(Lines) = Len(headers)
  BY <1>2, SizesTypes
<1>5. Ample' => Ample
  <2>1. stale \in BOOLEAN /\ stale' \in {stale, TRUE}
    BY <1>1 DEF BufferInv, TypeOK, Next, SizeHeader, Allocate, AddFixed, AddHeader,
      HeadersAdded, Finalize, Write, vars
  <2>2. QED BY <1>2, <1>3, <2>1 DEF Ample
<1>6. CASE SizeHeader
  <2>1. /\ step = "size" /\ step' = "size" /\ i <= Len(headers) /\ i' = i + 1
        /\ Payload_Size' = Payload_Size + headers[i].name + headers[i].value + TERMINATION
        /\ UNCHANGED <<Position, sent, cut>>
    BY <1>6 DEF SizeHeader
  <2>2. i \in 1..Len(headers) /\ i' - 1 = i /\ i' - 1 \in Nat /\ i' - 1 <= Len(headers)
    BY <1>2, <1>4, <2>1
  <2>3. PartialSums(Sizes)[i] = PartialSums(Sizes)[i - 1] + Sizes[i]
    BY <1>4, <2>2, PartialSumsEquations
  <2>4. Sizes[i] = headers[i].name + headers[i].value + TERMINATION
    BY <2>2 DEF Sizes
  <2>5. /\ BaseSize(response) \in Nat /\ PartialSums(Sizes)[i - 1] \in Int
        /\ headers[i].name \in Nat /\ headers[i].value \in Nat
    <3>1. i - 1 \in 0..Len(Sizes) BY <1>4, <2>2
    <3>2. Sizes \in Seq(Int) BY <1>2, SizesTypes
    <3>3. headers[i].name \in Nat /\ headers[i].value \in Nat
      BY <1>2, <2>2, ResponseType DEF headers
    <3>4. QED BY <1>2, <3>1, <3>2, <3>3, BaseSizeLarge, PartialSumsType
  <2>6. Payload_Size' = BaseSize(response) + PartialSums(Sizes)[i]
    <3> DEFINE n == headers[i].name  v == headers[i].value
    <3> HIDE DEF n, v
    <3>1. n \in Nat /\ v \in Nat /\ Sizes[i] = n + v + 2 /\ Payload_Size' = Payload_Size + n + v + 2
      BY <2>1, <2>4, <2>5 DEF n, v, TERMINATION
    <3>2. Payload_Size = BaseSize(response) + PartialSums(Sizes)[i - 1]
      BY <1>1, <2>1 DEF SizeInv
    <3>3. QED BY <2>3, <2>5, <3>1, <3>2
  <2>7. SizeInv'
    BY <1>1, <1>3, <2>1, <2>2, <2>6 DEF SizeInv
  <2>8. NothingDropped'
    BY <1>1, <2>1 DEF NothingDropped, SizeInv
  <2>9. QED BY <1>1, <2>7, <2>8 DEF CompleteInv
<1>7. CASE Allocate
  <2>1. /\ step = "size" /\ i > Len(headers) /\ step' = "fixed" /\ i' = 1
        /\ UNCHANGED <<Payload_Size, Position, sent, cut>>
    BY <1>7 DEF Allocate
  <2>2. i - 1 = Len(headers)
    BY <1>1, <1>2, <1>4, <2>1 DEF SizeInv
  <2>3. Payload_Size = BaseSize(response) + Total(Sizes)
    BY <1>1, <1>4, <2>1, <2>2 DEF SizeInv, Total
  <2>4. i' - 1 \in Nat
    BY <2>1
  <2>5. SizeInv'
    BY <1>3, <2>1, <2>3, <2>4 DEF SizeInv
  <2>6. Position = LWS_PRE /\ sent = {} /\ ~cut
    BY <1>1, <2>1 DEF SizeInv
  <2>7. FixedBefore(1) = 0 BY <1>2, FixedTypes
  <2>8. FixedBefore(i)' = 0
    BY <1>2, <2>1, <2>7 DEF FixedBefore
  <2>9. {n \in 1..4 : n < i}' = {}
    BY <2>1
  <2>10. NothingDropped'
    BY <2>1, <2>6, <2>8, <2>9 DEF NothingDropped, LWS_PRE
  <2>11. QED BY <1>1, <2>5, <2>10 DEF CompleteInv
<1>8. CASE AddFixed
  <2>1. /\ step = "fixed" /\ i \in 1..4 /\ AddLine(i, FixedSize(i))
        /\ UNCHANGED <<Payload_Size>>
        /\ \/ i < 4 /\ i' = i + 1 /\ step' = "fixed"
           \/ i = 4 /\ i' = 1 /\ step' = "headers"
    BY <1>1, <1>8 DEF AddFixed, BufferInv, TypeOK
  <2>2. SizeInv'
    <3>1. i' - 1 \in Nat /\ (i' - 1 <= Len(headers) \/ step' = "fixed")
      BY <1>4, <2>1
    <3>2. QED BY <1>1, <1>3, <2>1, <3>1 DEF SizeInv
  <2>3. ASSUME Ample
        PROVE  /\ Position' = LWS_PRE + FixedBefore(i + 1)
               /\ sent' = {n \in 1..4 : n < i + 1} /\ ~cut'
    <3>1. /\ Position = LWS_PRE + FixedBefore(i) /\ sent = {n \in 1..4 : n < i} /\ ~cut
      BY <1>1, <2>1, <2>3 DEF NothingDropped
    <3>2. /\ Total(Lines) \in Nat
          /\ LWS_PRE + FixedBefore(5) + Total(Lines) + CRLF + Slack <= End
      BY <2>1, <2>3, AllFits
    <3>3. /\ FixedSize(i) \in Nat /\ FixedBefore(i) \in Nat /\ FixedBefore(i + 1) \in Nat
          /\ FixedBefore(i + 1) = FixedBefore(i) + FixedSize(i)
          /\ FixedBefore(i + 1) <= FixedBefore(5) /\ FixedBefore(5) \in Nat
      <4>1. i + 1 \in 1..5 /\ i \in 1..5 /\ 5 \in 1..5 BY <2>1
      <4>2. QED BY <1>2, <2>1, <4>1, FixedTypes
    <3>4. Slack \in Nat /\ End \in Nat
      BY <1>1, ResponsesAssumption DEF ResponsesAssumption, BufferInv, TypeOK, End
    <3>5. Position + FixedSize(i) + Slack <= End
      BY <3>1, <3>2, <3>3, <3>4 DEF LWS_PRE, CRLF
    <3>6. Position' = Position + FixedSize(i) /\ sent' = sent \cup {i} /\ cut' = cut
      BY <1>1, <2>1, <3>3, <3>5, AddLineFits
    <3>7. {n \in 1..4 : n < i + 1} = {n \in 1..4 : n < i} \cup {i}
      BY <2>1
    <3>8. QED BY <3>1, <3>3, <3>6, <3>7 DEF LWS_PRE
  <2>4. NothingDropped'
    <3>1. CASE i < 4
      <4>1. i' = i + 1 /\ step' = "fixed" BY <2>1, <3>1
      <4>2. FixedBefore(i)' = FixedBefore(i + 1)
        BY <1>2, <4>1 DEF FixedBefore, FixedSize
      <4>3. QED BY <1>5, <2>3, <4>1, <4>2 DEF NothingDropped
    <3>2. CASE i = 4
      <4>1. PartialSums(Lines)[0] = 0 BY <1>4, PartialSumsEquations
      <4>2. i' = 1 /\ i' - 1 = 0 /\ step' = "headers" /\ i + 1 = 5
        BY <2>1, <3>2
      <4>3. WrittenBefore(i)' = {}
        BY <1>3, <4>2 DEF WrittenBefore, Written
      <4>4. {n \in 1..4 : n < 5} = 1..4 OBVIOUS
      <4>5. FixedBefore(5) \in Nat BY <1>2, FixedTypes
      <4>6. QED BY <1>3, <1>5, <2>3, <4>1, <4>2, <4>3, <4>4, <4>5 DEF NothingDropped, LWS_PRE
    <3>3. QED BY <2>1, <3>1, <3>2
  <2>5. QED BY <1>1, <2>2, <2>4 DEF CompleteInv
<1>9. CASE AddHeader
  <2>1. /\ step = "headers" /\ step' = "headers" /\ i \in 1..Len(headers) /\ i' = i + 1
        /\ UNCHANGED <<Payload_Size>>
    BY <1>2, <1>4, <1>9 DEF AddHeader
  <2>2. i' - 1 = i /\ i' - 1 \in Nat /\ i' - 1 <= Len(headers)
    BY <1>4, <2>1
  <2>3. SizeInv'
    BY <1>1, <1>3, <2>1, <2>2 DEF SizeInv
  <2>4. ASSUME Ample'
        PROVE  /\ Position' = LWS_PRE + FixedBefore(5) + PartialSums(Lines)[i]
               /\ sent' = (1..4) \cup WrittenBefore(i + 1) /\ ~cut'
    <3>0. Ample BY <1>5, <2>4
    <3>1. /\ Position = LWS_PRE + FixedBefore(5) + PartialSums(Lines)[i - 1]
          /\ sent = (1..4) \cup WrittenBefore(i) /\ ~cut
      BY <1>1, <2>1, <3>0 DEF NothingDropped
    <3>2. /\ Total(Lines) \in Nat
          /\ LWS_PRE + FixedBefore(5) + Total(Lines) + CRLF + Slack <= End
      BY <2>1, <3>0, AllFits
    <3>3. /\ PartialSums(Lines)[i] = PartialSums(Lines)[i - 1] + Lines[i]
          /\ PartialSums(Lines)[i - 1] \in Nat /\ PartialSums(Lines)[i] \in Nat
          /\ PartialSums(Lines)[i] <= Total(Lines) /\ Lines[i] \in Nat
      <4>1. Lines \in Seq(Nat) BY <1>2, SizesTypes
      <4>2. /\ i \in 0..Len(Lines) /\ i - 1 \in 0..Len(Lines) /\ i \in (i - 1)..Len(Lines)
            /\ Len(Lines) \in i..Len(Lines) /\ i \in 1..Len(Lines)
        BY <1>4, <2>1
      <4>3. Lines[i] \in Nat BY <4>1, <4>2
      <4>4. QED BY <4>1, <4>2, <4>3, PartialSumsEquations, PartialSumsGrow DEF Total
    <3>4. Slack \in Nat /\ End \in Nat
      BY <1>1, ResponsesAssumption DEF ResponsesAssumption, BufferInv, TypeOK, End
    <3>5. FixedBefore(5) \in Nat BY <1>2, FixedTypes
    <3>6. CASE headers[i].value > 0
      <4>1. Lines[i] = headers[i].bytes + 1 + headers[i].value + CRLF
        BY <2>1, <3>6 DEF Lines
      <4>2. AddLine(Line(i), Lines[i])
        <5>1. ~stale' BY <2>4 DEF Ample
        <5>2. QED BY <1>9, <3>6, <4>1, <5>1 DEF AddHeader
      <4>3. Position + Lines[i] + Slack <= End
        BY <3>1, <3>2, <3>3, <3>4, <3>5 DEF LWS_PRE, CRLF
      <4>4. Position' = Position + Lines[i] /\ sent' = sent \cup {Line(i)} /\ cut' = cut
        BY <1>1, <3>3, <4>2, <4>3, AddLineFits
      <4>5. WrittenBefore(i + 1) = WrittenBefore(i) \cup {Line(i)}
        <5>1. i \in Written BY <2>1, <3>6 DEF Written
        <5>2. {k \in Written : k < i + 1} = {k \in Written : k < i} \cup {i}
          BY <1>4, <2>1, <5>1 DEF Written
        <5>3. QED BY <5>2 DEF WrittenBefore
      <4>6. QED BY <3>1, <3>3, <3>5, <4>4, <4>5 DEF LWS_PRE
    <3>7. CASE ~(headers[i].value > 0)
      <4>1. Lines[i] = 0
        BY <2>1, <3>7 DEF Lines
      <4>2. UNCHANGED <<Position, sent, cut>>
        BY <1>9, <3>7 DEF AddHeader
      <4>3. WrittenBefore(i + 1) = WrittenBefore(i)
        <5>1. i \notin Written BY <3>7 DEF Written
        <5>2. {k \in Written : k < i + 1} = {k \in Written : k < i}
          BY <1>4, <2>1, <5>1 DEF Written
        <5>3. QED BY <5>2 DEF WrittenBefore
      <4>4. PartialSums(Lines)[i] = PartialSums(Lines)[i - 1]
        BY <3>3, <4>1
      <4>5. QED BY <3>1, <4>2, <4>3, <4>4
    <3>8. QED BY <3>6, <3>7
  <2>5. WrittenBefore(i)' = WrittenBefore(i + 1)
    BY <1>3, <2>1 DEF WrittenBefore, Line
  <2>6. NothingDropped'
    BY <1>3, <2>1, <2>2, <2>4, <2>5 DEF NothingDropped
  <2>7. QED BY <1>1, <2>3, <2>6 DEF CompleteInv
<1>10. CASE HeadersAdded
  <2>1. /\ step = "headers" /\ step' = "end" /\ i > Len(headers)
        /\ UNCHANGED <<i, Payload_Size, Position, sent, cut>>
    BY <1>10 DEF HeadersAdded
  <2>2. i - 1 = Len(headers)
    BY <1>1, <1>2, <1>4, <2>1 DEF SizeInv
  <2>3. SizeInv'
    BY <1>1, <1>3, <2>1 DEF SizeInv
  <2>4. {k \in Written : k < i} = Written
    BY <1>2, <1>4, <2>2 DEF Written
  <2>5. WrittenBefore(i) = {Line(k) : k \in Written}
    BY <2>4 DEF WrittenBefore
  <2>6. PartialSums(Lines)[i - 1] = Total(Lines)
    BY <1>4, <2>2 DEF Total
  <2>7. {Line(k) : k \in Written}' = {Line(k) : k \in Written}
    BY <1>3 DEF Line
  <2>8. NothingDropped'
    BY <1>1, <1>3, <1>5, <2>1, <2>5, <2>6, <2>7 DEF NothingDropped
  <2>9. QED BY <1>1, <2>3, <2>8 DEF CompleteInv
<1>11. CASE Finalize
  <2>1. /\ step = "end" /\ step' = "write" /\ AddLine(BlankLine, CRLF)
        /\ UNCHANGED <<i, Payload_Size>>
    BY <1>11 DEF Finalize
  <2>2. SizeInv'
    BY <1>1, <1>3, <2>1 DEF SizeInv
  <2>3. ASSUME Ample
        PROVE  sent' = (0..4) \cup {Line(k) : k \in Written} /\ ~cut'
    <3>1. /\ Position = LWS_PRE + FixedBefore(5) + Total(Lines)
          /\ sent = (1..4) \cup {Line(k) : k \in Written} /\ ~cut
      BY <1>1, <2>1, <2>3 DEF NothingDropped
    <3>2. LWS_PRE + FixedBefore(5) + Total(Lines) + CRLF + Slack <= End
      BY <2>1, <2>3, AllFits
    <3>3. sent' = sent \cup {BlankLine} /\ cut' = cut
      BY <1>1, <2>1, <3>1, <3>2, AddLineFits DEF CRLF
    <3>4. 0..4 = (1..4) \cup {0} OBVIOUS
    <3>5. QED BY <3>1, <3>3, <3>4 DEF BlankLine
  <2>4. {Line(k) : k \in Written}' = {Line(k) : k \in Written}
    BY <1>3 DEF Line
  <2>5. NothingDropped'
    BY <1>5, <2>1, <2>3, <2>4 DEF NothingDropped
  <2>6. QED BY <1>1, <2>2, <2>5 DEF CompleteInv
<1>12. CASE Write \/ UNCHANGED vars
  <2>1. /\ UNCHANGED <<i, Payload_Size, Position, sent, cut, stale>>
        /\ \/ step = "write" /\ step' = "done"
           \/ step' = step
    BY <1>12 DEF Write, vars
  <2>2. SizeInv'
    BY <1>1, <1>3, <2>1 DEF SizeInv
  <2>3. {Line(k) : k \in Written}' = {Line(k) : k \in Written} /\ WrittenBefore(i)' = WrittenBefore(i)
    BY <1>3, <2>1 DEF Line, WrittenBefore
  <2>4. NothingDropped'
    BY <1>1, <1>3, <1>5, <2>1, <2>3 DEF NothingDropped
  <2>5. QED BY <1>1, <2>2, <2>4 DEF CompleteInv
<1>13. QED BY <1>6, <1>7, <1>8, <1>9, <1>10, <1>11, <1>12 DEF Next

(* From a body length of Uncounted on, and as long as lws reads the texts  *)
(* it was meant to, every line of the response is in the block, whatever   *)
(* and however many the headers are.                                       *)
THEOREM LongBodiesAreComplete == Spec => []LongBodyIsComplete
<1>1. CompleteInv => LongBodyIsComplete
  BY DEF CompleteInv, NothingDropped, Ample, LongBodyIsComplete
<1>2. QED BY <1>1, CompleteInit, CompleteNext, PTL DEF Spec
=============================================================================
