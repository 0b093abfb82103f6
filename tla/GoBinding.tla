------------------------------ MODULE GoBinding ------------------------------
(***************************************************************************)
(* What webview.Bind makes of a Go function (webview.go): a closure that   *)
(* decodes the JSON arguments of a request into the types of the           *)
(* function's parameters, calls it by reflection, and turns its results    *)
(* into the status of an answer.                                           *)
(*                                                                         *)
(* A signature f has the types of the parameters, f.in, the last being the *)
(* type of one element if f.variadic, and for each result in f.out whether *)
(* it is an error.  An argument of a request is the set of types that it   *)
(* can be decoded into.  A result is "nil", "set", or "odd": a value that  *)
(* has no JSON.                                                            *)
(***************************************************************************)
EXTENDS Integers, Sequences

Signature(Types) ==
  {f \in [in : Seq(Types), variadic : BOOLEAN, out : Seq({"value", "error"})] :
     f.variadic => f.in # << >>}

\* What a function may return: an error has JSON, a value is set
Results(f) ==
  {res \in [DOMAIN f.out -> {"nil", "set", "odd"}] :
     \A i \in DOMAIN res : res[i] # (IF f.out[i] = "error" THEN "odd" ELSE "nil")}

\* Bind refuses a function with more than two results
Bindable(f) == Len(f.out) <= 2

\* The request has too few arguments, or too many
Mismatch(f, raw) ==
  IF f.variadic THEN Len(raw) < Len(f.in) - 1 ELSE Len(raw) # Len(f.in)

\* Mutant: the last of the fixed parameters is taken for the variadic one
ElementEarly(f, i) ==
  IF f.variadic /\ i >= Len(f.in) - 1 THEN f.in[Len(f.in)] ELSE f.in[i]

\* The type the i-th argument is decoded into
ArgumentType(f, i) ==
  IF f.variadic /\ i >= Len(f.in) THEN f.in[Len(f.in)] ELSE f.in[i]

\* The function is called with these arguments, or the request is refused
Called(f, raw) ==
  ~Mismatch(f, raw) /\ \A i \in DOMAIN raw : ArgumentType(f, i) \in raw[i]
Arguments(f, raw) == [i \in DOMAIN raw |-> ArgumentType(f, i)]

\* Mutant: an error that is nil is reported, too
NilErrorReported(f, res) ==
  \/ Len(res) = 1 /\ f.out[1] = "error"
  \/ Len(res) = 2 /\ (f.out[2] # "error" \/ res[2] # "nil")

\* The results report an error.  The second of two has to be an error: that it
\* is none is noticed when the function has run.
ReportsError(f, res) ==
  \/ Len(res) = 1 /\ f.out[1] = "error" /\ res[1] # "nil"
  \/ Len(res) = 2 /\ (f.out[2] # "error" \/ res[2] # "nil")

\* The value for the page has JSON
HasJson(f, res) == res = << >> \/ f.out[1] = "error" \/ res[1] # "odd"

Status(f, res) == IF ~ReportsError(f, res) /\ HasJson(f, res) THEN 0 ELSE -1
-----------------------------------------------------------------------------
\* What reflect.Value.Call demands, or it panics: a value of its type for each
\* fixed parameter, then any number of elements if f is variadic, and no more
Fixed(f) == IF f.variadic THEN Len(f.in) - 1 ELSE Len(f.in)
Fits(f, args) ==
  /\ Len(args) >= Fixed(f)
  /\ \A i \in 1..Fixed(f) : args[i] = f.in[i]
  /\ \A i \in Fixed(f) + 1..Len(args) : f.variadic /\ args[i] = f.in[Len(f.in)]

\* As Bind's comments describe functions that can be bound (webview.go:110-111,
\* 281-293): they return nothing, a value, an error, or a value and an error
Documented(f) == Len(f.out) = 2 => f.out = <<"value", "error">>
=============================================================================
