--------------------------- MODULE MCResponseBuffer -------------------------
(* Responses for TLC: bodies around the length at which the buffer becomes *)
(* large enough, plain and beyond ASCII, with no header, with headers,     *)
(* with an empty one and with one whose name is not ASCII.                 *)
EXTENDS ResponseBuffer

CONSTANT BodyLengths

HeaderLists ==
  { << >>,
    << [name |-> 5, bytes |-> 5, value |-> 3] >>,
    << [name |-> 4, bytes |-> 10, value |-> 2] >>,
    << [name |-> 40, bytes |-> 40, value |-> 0], [name |-> 2, bytes |-> 2, value |-> 1] >> }

MCResponses ==
  UNION { [len : {n}, bytes : {n, 3 * n},
           type : {"Lws_Text_Html", "Lws_Application_Json"}, headers : HeaderLists] :
            n \in BodyLengths }
=============================================================================
