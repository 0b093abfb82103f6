------------------------------ MODULE MCGoGlue ------------------------------
(* Instances of GoGlue for TLC.                                            *)
EXTENDS GoGlue

CONSTANTS b1, b2, int, text

\* func(int, ...text) (value, error), func(int) error, and one that Bind refuses
MCSignatureOf == [f \in Bound |->
  CASE f = b1 -> [in |-> <<int, text>>, variadic |-> TRUE, out |-> <<"value", "error">>]
    [] f = b2 -> [in |-> <<int>>, variadic |-> FALSE, out |-> <<"error">>]
    [] OTHER -> [in |-> << >>, variadic |-> FALSE, out |-> <<"value", "value", "error">>]]

\* Up to three arguments, of either type
MCRequests == UNION {[1..len -> {{int}, {text}}] : len \in 0..3}
=============================================================================
