------------------------- MODULE WebviewRpcPromises -------------------------
(***************************************************************************)
(* The RPC engine implements PromiseTable while the page stays.  A promise *)
(* counts as answered once the first answer to its request was given to    *)
(* resolve(), as settled when the page has run that answer's script, and   *)
(* its answer as lost when the posted function was dropped (on Win32).     *)
(***************************************************************************)
EXTENDS WebviewRpc

\* How the answers under way that were the first to call c will settle it; one
\* that was dropped is lost
FirstAnswers(c) ==
  {scripts[i].op : i \in {j \in DOMAIN scripts :
     /\ scripts[j].op \in {"resolve", "reject"}
     /\ scripts[j].by = c /\ scripts[j].nth = 1}}
  \cup
  {IF tasks[i].status = 0 THEN "resolve" ELSE "reject" :
     i \in {j \in DOMAIN tasks : tasks[j].by = c /\ tasks[j].nth = 1}}
  \cup
  {"lost" : answer \in dropped \cap {<<c, 1>>}}

\* How call c was settled
Settlements(c) == {o.op : o \in {p \in outcomes : p.call = c}}

\* The answers to call c that count: already run, or under way
Answers(c) == IF Settled(c) THEN Settlements(c) ELSE FirstAnswers(c)

AnswerTo(c) == IF Answers(c) = {} THEN "none" ELSE CHOOSE op \in Answers(c) : TRUE

Promises ==
  [c \in DOMAIN calls |->
     [name |-> calls[c].name, answer |-> AnswerTo(c), settled |-> Settled(c)]]

Table == INSTANCE PromiseTable WITH promises <- Promises

\* A page that stays sees a table of promises, each answered once and for all
\* by the first answer to its request and settled with it, whatever bindings
\* come and go in the meantime (webview.cpp:30-91).  On Win32 an answer may be
\* dropped (mswebview_engine.cpp:124-126, 215-219): its promise stays pending
\* or takes a later answer, and only then.
KeepsPromises == Table!Spec

\* Every promise whose request was answered is settled in the end, unless that
\* answer is dropped, as Win32 may (webview.cpp:67-91; mswebview_engine.cpp:
\* 124-126, 215-219).
SettlesPromises == Table!Fairness
=============================================================================
