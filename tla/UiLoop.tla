------------------------------- MODULE UiLoop -------------------------------
(***************************************************************************)
(* The main loop of a webview: functions dispatched to it run while it is  *)
(* up, each once and in the order they were dispatched; it returns only    *)
(* when asked to, and then it does.  While another loop takes its place    *)
(* functions may be dropped and nothing is run, and a request to return    *)
(* that came before the loop was up may be forgotten.                      *)
(***************************************************************************)
EXTENDS Sequences

CONSTANT Functions  \* what may be dispatched

VARIABLES
  up,       \* run() has been called and has not returned
  nested,   \* a loop that is not run()'s takes the messages
  asked,    \* the loop is to return
  pending,  \* functions dispatched and not run, oldest first
  ran       \* functions that were run, in order

vars == <<up, nested, asked, pending, ran>>

Init ==
  /\ up = FALSE /\ nested = FALSE /\ asked = FALSE
  /\ pending = << >> /\ ran = << >>

Post(f) ==
  /\ pending' = Append(pending, f)
  /\ UNCHANGED <<up, nested, asked, ran>>

Start ==
  /\ ~up /\ up' = TRUE
  /\ UNCHANGED <<nested, asked, pending, ran>>

Ask ==
  /\ asked' = TRUE
  /\ UNCHANGED <<up, nested, pending, ran>>

\* The function that is run may itself ask the loop to return
RunOne ==
  /\ up /\ ~nested /\ pending # << >>
  /\ ran' = Append(ran, Head(pending))
  /\ pending' = Tail(pending)
  /\ asked' \in {asked, TRUE}
  /\ UNCHANGED <<up, nested>>

Nest ==
  /\ nested' = ~nested
  /\ UNCHANGED <<up, asked, pending, ran>>

Drop ==
  /\ nested /\ pending # << >>
  /\ pending' = Tail(pending)
  /\ UNCHANGED <<up, nested, asked, ran>>

Forget ==
  /\ nested /\ ~up /\ asked' = FALSE
  /\ UNCHANGED <<up, nested, pending, ran>>

Return ==
  /\ up /\ ~nested /\ asked
  /\ up' = FALSE /\ asked' = FALSE
  /\ UNCHANGED <<nested, pending, ran>>

Next ==
  \/ \E f \in Functions : Post(f)
  \/ Start \/ Ask \/ RunOne \/ Nest \/ Drop \/ Forget \/ Return

Spec == Init /\ [][Next]_vars

\* A loop that stays runs what is dispatched, and returns when it was asked to
Fairness == WF_vars(RunOne) /\ WF_vars(Return)
=============================================================================
