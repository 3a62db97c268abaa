--------------------------- MODULE ResponseBuffer ---------------------------
(***************************************************************************)
(* ULwsRequest::SendResponse and CalculcatePayloadSize: how large a buffer *)
(* the header block gets and what of it reaches the wire.  A text is its   *)
(* length, in characters as FString::Len() counts it and, where that can   *)
(* show, in the bytes of its UTF-8 conversion; a header name counts its    *)
(* colon.  Custom headers and known ones are sized and written by the same *)
(* code, so they are one sequence.                                         *)
(*                                                                         *)
(* The lws_add_http_header_* functions append to [Position, End) or "run   *)
(* out of space and fail with nonzero return" (lws-http.h), which          *)
(* SendResponse ignores.                                                   *)
(***************************************************************************)
EXTENDS Integers, Sequences, FiniteSets, SequenceSums

CONSTANTS
  Responses,   \* what Blueprint passes to SendResponse
  Slack        \* lws may refuse a line that would leave less room than this

ASSUME ResponsesAssumption ==
  /\ Slack \in Nat
  /\ \A r \in Responses :
       /\ r.len \in Nat                 \* In_Response.Len(), in characters
       /\ r.bytes \in r.len .. 3 * r.len \* and in UTF-8
       /\ r.type \in {"Lws_Text_Plain", "Lws_Text_Html", "Lws_Application_Json"}
       /\ r.headers \in Seq([name : Nat, bytes : Nat, value : Nat])  \* bytes: of the name

LWS_PRE     == 16
Server      == 23   \* server: libwebsockets, which lws adds to the status line
Token_AO    == 28   \* access-control-allow-origin:
Token_CT    == 13   \* content-type:
Token_CL    == 15   \* content-length:
CRLF        == 2
TERMINATION == 2

(* The Lenght of "text/html", "application/json" and "text/plain".         *)
ContentTypeString(type) ==
  CASE type = "Lws_Text_Html" -> 9
    [] type = "Lws_Application_Json" -> 16
    [] OTHER -> 10

(* FString::FromInt(n).Len()                                               *)
Digits(n) == 1 + Cardinality({k \in 1..9 : n >= 10^k})

VARIABLES
  response,      \* the arguments of the call
  step, i,       \* where SendResponse is, and in which round of a loop
  Payload_Size,  \* CalculcatePayloadSize, as far as it has counted
  Position,      \* index in Response_Buffer of the next byte to write
  sent,          \* the lines complete in the buffer
  cut,           \* a line was refused, or broke off in its name
  stale,         \* a line was read from a conversion already destroyed
  announced,     \* the number on the content-length line
  wire           \* what the two calls of lws_write were given

vars == <<response, step, i, Payload_Size, Position, sent, cut, stale, announced, wire>>

headers   == response.headers
Allocated == Payload_Size + LWS_PRE

End_PreTwice == Payload_Size + 2 * LWS_PRE   \* LWS_PRE counted a second time
End          == Payload_Size

(* Lines are numbered: the four every response has, in the order they are  *)
(* written, then header k as 4 + k, and the blank line as 0.               *)
BlankLine  == 0
StatusLine == 1
OriginLine == 2
TypeLine   == 3
LengthLine == 4
Line(k)    == 4 + k

FixedSize(line) ==
  CASE line = StatusLine -> 15 + CRLF + Server
    [] line = OriginLine -> Token_AO + 1 + 1 + CRLF
    [] line = TypeLine   -> Token_CT + 1 + ContentTypeString(response.type) + CRLF
    [] line = LengthLine -> Token_CL + 1 + Digits(response.len) + CRLF

TypeOK ==
  /\ response \in Responses
  /\ step \in {"size", "fixed", "headers", "end", "write", "done"}
  /\ i \in Nat \ {0} /\ (step = "fixed" => i <= 4)
  /\ Payload_Size \in Nat
  /\ Position \in Nat
  /\ sent \subseteq Nat
  /\ cut \in BOOLEAN /\ stale \in BOOLEAN
  /\ announced \in Nat
  /\ wire \in [header : Nat, body : Nat]

-----------------------------------------------------------------------------
(* CalculcatePayloadSize.  It counts the body, though the body never goes  *)
(* into this buffer, and neither the status line nor the server line.      *)

BaseSize(r) ==
  LET Lenght_Response  == Token_CL + Digits(r.len) + r.len + TERMINATION
      Lenght_Header_AO == Token_AO + 1 + TERMINATION
      Lenght_Header_CT == Token_CT + ContentTypeString(r.type) + TERMINATION \div 2
  IN  Lenght_Response + Lenght_Header_AO + Lenght_Header_CT

Init ==
  /\ response \in Responses
  /\ step = "size" /\ i = 1
  /\ Payload_Size = BaseSize(response)
  /\ Position = LWS_PRE
  /\ sent = {} /\ cut = FALSE /\ stale = FALSE /\ announced = 0
  /\ wire = [header |-> 0, body |-> 0]

SizeHeader_NameOnly ==  \* the value of the header is not counted
  /\ step = "size" /\ i <= Len(headers)
  /\ Payload_Size' = Payload_Size + headers[i].name + TERMINATION
  /\ i' = i + 1
  /\ UNCHANGED <<response, step, Position, sent, cut, stale, announced, wire>>

SizeHeader ==
  /\ step = "size" /\ i <= Len(headers)
  /\ Payload_Size' = Payload_Size + headers[i].name + headers[i].value + TERMINATION
  /\ i' = i + 1
  /\ UNCHANGED <<response, step, Position, sent, cut, stale, announced, wire>>

Allocate ==
  /\ step = "size" /\ i > Len(headers)
  /\ step' = "fixed" /\ i' = 1
  /\ UNCHANGED <<response, Payload_Size, Position, sent, cut, stale, announced, wire>>

-----------------------------------------------------------------------------
(* Append a line of n bytes: all of it, or the part of its name that fits. *)

AddLine(line, n) ==
  \/ /\ Position + n <= End
     /\ Position' = Position + n
     /\ sent' = sent \cup {line}
     /\ UNCHANGED cut
  \/ /\ Position + n + Slack > End
     /\ \E q \in Position..End : q <= Position + n /\ Position' = q
     /\ cut' = TRUE
     /\ UNCHANGED sent

AddFixed_OneMore ==  \* the last fixed line does not end the four
  /\ step = "fixed"
  /\ AddLine(i, FixedSize(i))
  /\ announced' = IF i = LengthLine THEN response.len ELSE announced
  /\ IF i <= 4 THEN i' = i + 1 /\ UNCHANGED step ELSE i' = 1 /\ step' = "headers"
  /\ UNCHANGED <<response, Payload_Size, stale, wire>>

AddFixed ==
  /\ step = "fixed"
  /\ AddLine(i, FixedSize(i))
  /\ announced' = IF i = LengthLine THEN response.len ELSE announced
  /\ IF i < 4 THEN i' = i + 1 /\ UNCHANGED step ELSE i' = 1 /\ step' = "headers"
  /\ UNCHANGED <<response, Payload_Size, stale, wire>>

(* lws takes the bytes of the name up to its NUL, and of the value as many *)
(* as it has characters.  Header_Name and Header_Value point into          *)
(* TCHAR_TO_UTF8 conversions that are gone before lws reads them: the text *)
(* may still be there or not, and then lws appends whatever it finds, up   *)
(* to End.                                                                 *)
AddHeader ==
  /\ step = "headers" /\ i <= Len(headers)
  /\ IF headers[i].value > 0
     THEN \/ /\ AddLine(Line(i), headers[i].bytes + 1 + headers[i].value + CRLF)
             /\ UNCHANGED stale
          \/ /\ \E q \in Position..End : Position' = q
             /\ stale' = TRUE
             /\ UNCHANGED <<sent, cut>>
     ELSE UNCHANGED <<Position, sent, cut, stale>>
  /\ i' = i + 1
  /\ UNCHANGED <<response, step, Payload_Size, announced, wire>>

HeadersAdded ==
  /\ step = "headers" /\ i > Len(headers)
  /\ step' = "end"
  /\ UNCHANGED <<response, i, Payload_Size, Position, sent, cut, stale, announced, wire>>

Finalize ==
  /\ step = "end"
  /\ AddLine(BlankLine, CRLF)
  /\ step' = "write"
  /\ UNCHANGED <<response, i, Payload_Size, stale, announced, wire>>

Write_Bytes ==  \* the whole conversion, while content-length counts characters
  /\ step = "write"
  /\ wire' = [header |-> Position - LWS_PRE, body |-> response.bytes]
  /\ step' = "done"
  /\ UNCHANGED <<response, i, Payload_Size, Position, sent, cut, stale, announced>>

Write ==
  /\ step = "write"
  /\ wire' = [header |-> Position - LWS_PRE, body |-> response.len]
  /\ step' = "done"
  /\ UNCHANGED <<response, i, Payload_Size, Position, sent, cut, stale, announced>>

Next ==
  \/ SizeHeader \/ Allocate \/ AddFixed \/ AddHeader
  \/ HeadersAdded \/ Finalize \/ Write

Spec == Init /\ [][Next]_vars

-----------------------------------------------------------------------------
(* Headers that are written, as against sized.                             *)
Written == {k \in 1..Len(headers) : headers[k].value > 0}

(* SendResponse writes inside what it allocated, and the block it hands to *)
(* lws_write, LWS_PRE bytes in, is inside it too.                          *)
WithinBuffer ==
  step # "size" =>
    /\ LWS_PRE <= Position /\ Position <= End /\ End <= Allocated
    /\ LWS_PRE + wire.header <= End

(* The buffer is large enough once the body, which is counted and not      *)
(* stored, is as long as what is stored and not counted: LWS_PRE at the    *)
(* wrong end, the status and server lines, the blank after each colon, the *)
(* line break taken for one character, the blank line, and what a name is  *)
(* longer in UTF-8 than in characters.                                     *)
Shortfall(h) == IF h.value > 0 THEN 1 + (h.bytes - h.name) ELSE 0

Uncounted == LWS_PRE + (15 + CRLF + Server) + 1 + 2 + 1 + CRLF
               + Total([k \in 1..Len(headers) |-> Shortfall(headers[k])]) + Slack

LongBodyIsComplete ==
  response.len >= Uncounted /\ ~stale =>
    ~cut /\ (step = "done" =>
               sent = (0..4) \cup {Line(k) : k \in Written})

(* Of a text beyond ASCII fewer bytes are sent than it has, but never more *)
(* than the conversion holds, and as many as the client was told to expect.*)
AnnouncedIsSent ==
  step = "done" =>
    /\ wire.body <= response.bytes
    /\ LengthLine \in sent => wire.body = announced

(* The tooltip of SendResponse: "It automatically adds                     *)
(* access-control-allow-origin:* header".                                  *)
AllowOriginAdded == step = "done" => OriginLine \in sent
=============================================================================
