--------------------------- MODULE MCHttpExchange ---------------------------
(* Instances of HttpExchange for TLC.                                      *)
EXTENDS HttpExchange, TLC

WsiSymmetry == Permutations(Wsis)
=============================================================================
