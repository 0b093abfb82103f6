----------------------------- MODULE WebviewRpc -----------------------------
(***************************************************************************)
(* The RPC engine of class webview: native callbacks that a page calls as  *)
(* functions returning a promise.  Three actors interleave:                *)
(*   - the main thread: bind, unbind, on_message, and the functions that   *)
(*     dispatch() posted to its loop (src/src/common/webview.cpp);         *)
(*   - the page, in the browser's own process: it runs the scripts eval()  *)
(*     sends, one after another, and calls bound functions; a navigation   *)
(*     replaces it by a fresh page on which the init() scripts run;        *)
(*   - threads of the application that answer a request later through      *)
(*     resolve() (webview_return in the C API).                            *)
(* Application code that binds or unbinds runs on the main thread, as in   *)
(* the repository's tests and examples.                                    *)
(***************************************************************************)
EXTENDS Integers, Sequences

CONSTANTS
  Names,       \* names the application binds
  SyncNames,   \* the names it binds with the synchronous overload of bind
  MaxScripts,  \* bound: calls of bind and unbind that take effect
  MaxCalls,    \* bound: calls a page makes of bound functions
  MaxLoads,    \* bound: navigations
  Lossy,       \* posted functions may be dropped, as on Win32
  MaxDups      \* bound: superfluous second answers to a request

ASSUME ConstantsAssumption ==
  /\ SyncNames \subseteq Names
  /\ {MaxScripts, MaxCalls, MaxLoads, MaxDups} \subseteq Nat
  /\ Lossy \in BOOLEAN

VARIABLES
  bindings,     \* names in webview::bindings
  userScripts,  \* scripts registered with init(), oldest first
  scripts,      \* scripts sent with eval(), not yet run by the page
  tasks,        \* functions posted with dispatch(), not yet run
  inbox,        \* messages sent by a page, not yet given to on_message
  jobs,         \* requests an asynchronous callback has still to answer
  doc,          \* number of the current page
  fns,          \* names n with window[n] defined on the current page
  nextSeq,      \* RPC.nextSeq of the current page
  rpc,          \* the promises in window._rpc, by sequence number
  calls,        \* history: every call made, promise c is the c-th call
  outcomes,     \* history: how promises were settled, and by which answer
  dups,         \* superfluous answers given so far
  dropped       \* history: the answers dropped, as call and number of the answer

native == <<bindings, userScripts, tasks, jobs, dups, dropped>>
page == <<doc, fns, nextSeq, rpc, calls, outcomes>>
vars == <<native, page, scripts, inbox>>

Statuses == {0, 1}  \* zero, and any other value

\* An answer carries two fields of history: by, the call it answers, and nth, how
\* many answers that call has got with it; a job has given that many so far
BindingScript == [op : {"bind", "unbind"}, name : Names]
ReplyScript == [op : {"resolve", "reject"}, seq : Nat, by : Nat, nth : Nat \ {0}]
Script == BindingScript \cup ReplyScript
Posted == [seq : Nat, status : Statuses, by : Nat, nth : Nat \ {0}]
Message == [seq : Nat, name : Names, call : Nat]
Job == [seq : Nat, call : Nat, given : Nat]
CallRecord == [page : Nat, seq : Nat, name : Names, sent : BOOLEAN]
Outcome == [call : Nat, by : Nat, op : {"resolve", "reject"}, nth : Nat \ {0}]

TypeOK ==
  /\ bindings \in SUBSET Names
  /\ userScripts \in Seq(BindingScript)
  /\ scripts \in Seq(Script)
  /\ tasks \in Seq(Posted)
  /\ inbox \in Seq(Message)
  /\ jobs \in SUBSET Job
  /\ doc \in Nat
  /\ fns \in SUBSET Names
  /\ nextSeq \in Nat
  /\ DOMAIN rpc \in SUBSET Nat
  /\ \A s \in DOMAIN rpc : rpc[s] \in DOMAIN calls
  /\ calls \in Seq(CallRecord)
  /\ outcomes \in SUBSET Outcome
  /\ dups \in Nat
  /\ dropped \subseteq Nat \X Nat

Init ==
  /\ bindings = {} /\ userScripts = << >> /\ scripts = << >>
  /\ tasks = << >> /\ inbox = << >> /\ jobs = {}
  /\ doc = 0 /\ fns = {} /\ nextSeq = 1 /\ rpc = [s \in {} |-> 0]
  /\ calls = << >> /\ outcomes = {} /\ dups = 0 /\ dropped = {}
-----------------------------------------------------------------------------
\* Where a sequence of scripts defines or deletes window[n]
Mentions(q, n) ==
  {i \in DOMAIN q : q[i].op \in {"bind", "unbind"} /\ q[i].name = n}

\* window[n] is defined once the scripts q have run: the last word is bind's
Defines(q, n) ==
  \E i \in Mentions(q, n) : q[i].op = "bind" /\ \A j \in Mentions(q, n) : j <= i

\* init(js) and eval(js): now, and on every page to come
InitAndEval(js) ==
  /\ userScripts' = Append(userScripts, js)
  /\ scripts' = Append(scripts, js)

\* webview::bind; binding a bound name again returns early and changes nothing
Bind(n) ==
  /\ n \notin bindings
  /\ Len(userScripts) < MaxScripts
  /\ bindings' = bindings \cup {n}
  /\ InitAndEval([op |-> "bind", name |-> n])
  /\ UNCHANGED <<page, inbox, tasks, jobs, dups, dropped>>

\* Mutant: only the current page forgets the function
UnbindWithoutInit(n) ==
  /\ n \in bindings
  /\ Len(userScripts) < MaxScripts
  /\ bindings' = bindings \ {n}
  /\ scripts' = Append(scripts, [op |-> "unbind", name |-> n])
  /\ UNCHANGED <<page, inbox, userScripts, tasks, jobs, dups, dropped>>

\* webview::unbind; unbinding an unknown name changes nothing
Unbind(n) ==
  /\ n \in bindings
  /\ Len(userScripts) < MaxScripts
  /\ bindings' = bindings \ {n}
  /\ InitAndEval([op |-> "unbind", name |-> n])
  /\ UNCHANGED <<page, inbox, tasks, jobs, dups, dropped>>

\* webview::resolve: the script is built and sent later, on the main thread
Resolve(seq, status, by, nth) ==
  tasks' = Append(tasks, [seq |-> seq, status |-> status, by |-> by, nth |-> nth])

\* Mutant: only the latest asynchronous request is remembered
OnMessageKeepsLatest ==
  /\ inbox # << >>
  /\ inbox' = Tail(inbox)
  /\ LET msg == Head(inbox) IN
       \/ /\ msg.name \notin bindings
          /\ UNCHANGED <<tasks, jobs>>
       \/ /\ msg.name \in bindings \cap SyncNames
          /\ Resolve(msg.seq, 0, msg.call, 1)
          /\ UNCHANGED jobs
       \/ /\ msg.name \in bindings \ SyncNames
          /\ jobs' = {[seq |-> msg.seq, call |-> msg.call, given |-> 0]}
          /\ UNCHANGED tasks
  /\ UNCHANGED <<page, scripts, bindings, userScripts, dups, dropped>>

\* The synchronous overload of webview::bind wraps its callback in one that
\* answers before it returns, with status 0
AnswersAtOnce(msg) ==
  /\ Resolve(msg.seq, 0, msg.call, 1)
  /\ UNCHANGED jobs

\* An asynchronous callback, as those of the C API are, leaves the answer to a
\* thread of the application
HandsOver(msg) ==
  /\ jobs' = jobs \cup {[seq |-> msg.seq, call |-> msg.call, given |-> 0]}
  /\ UNCHANGED tasks

\* webview::on_message.  A message for a name that is not bound is dropped.
OnMessage ==
  /\ inbox # << >>
  /\ inbox' = Tail(inbox)
  /\ LET msg == Head(inbox) IN
       \/ msg.name \notin bindings /\ UNCHANGED <<tasks, jobs>>
       \/ msg.name \in bindings \cap SyncNames /\ AnswersAtOnce(msg)
       \/ msg.name \in bindings \ SyncNames /\ HandsOver(msg)
  /\ UNCHANGED <<page, scripts, bindings, userScripts, dups, dropped>>

\* A thread answers the request it was given
Answer(job) ==
  /\ \E status \in Statuses : Resolve(job.seq, status, job.call, job.given + 1)
  /\ jobs' = jobs \ {job}
  /\ UNCHANGED <<page, scripts, inbox, bindings, userScripts, dups, dropped>>

\* A thread answers a request it will answer again
AnswerTwice(job) ==
  /\ dups < MaxDups
  /\ dups' = dups + 1
  /\ \E status \in Statuses : Resolve(job.seq, status, job.call, job.given + 1)
  /\ jobs' = (jobs \ {job}) \cup {[job EXCEPT !.given = @ + 1]}
  /\ UNCHANGED <<page, scripts, inbox, bindings, userScripts, dropped>>

\* Mutant: the two kinds of answers are swapped
RunTaskSwapped ==
  /\ tasks # << >>
  /\ tasks' = Tail(tasks)
  /\ LET t == Head(tasks) IN
       scripts' = Append(scripts, [op |-> IF t.status = 0 THEN "reject" ELSE "resolve",
                                   seq |-> t.seq, by |-> t.by, nth |-> t.nth])
  /\ UNCHANGED <<page, inbox, bindings, userScripts, jobs, dups, dropped>>

\* Mutant: the main loop runs the function posted last
RunTaskNewest ==
  /\ tasks # << >>
  /\ tasks' = SubSeq(tasks, 1, Len(tasks) - 1)
  /\ LET t == tasks[Len(tasks)] IN
       scripts' = Append(scripts, [op |-> IF t.status = 0 THEN "resolve" ELSE "reject",
                                   seq |-> t.seq, by |-> t.by, nth |-> t.nth])
  /\ UNCHANGED <<page, inbox, bindings, userScripts, jobs, dups, dropped>>

\* The main loop runs the function posted first: it sends the answer's script
RunTask ==
  /\ tasks # << >>
  /\ tasks' = Tail(tasks)
  /\ LET t == Head(tasks) IN
       scripts' = Append(scripts, [op |-> IF t.status = 0 THEN "resolve" ELSE "reject",
                                   seq |-> t.seq, by |-> t.by, nth |-> t.nth])
  /\ UNCHANGED <<page, inbox, bindings, userScripts, jobs, dups, dropped>>

\* On Win32 a posted function is a thread message, which a loop other than run()'s
\* takes and dispatches to no window: that of a drag, of a dialog, or of embed().
\* A full queue refuses it as silently; such a function counts here as posted,
\* and as dropped when its turn comes.
DropTask ==
  /\ Lossy
  /\ tasks # << >>
  /\ tasks' = Tail(tasks)
  /\ dropped' = dropped \cup {<<Head(tasks).by, Head(tasks).nth>>}
  /\ UNCHANGED <<page, scripts, inbox, bindings, userScripts, jobs, dups>>
-----------------------------------------------------------------------------
\* Mutant: every binding starts with a fresh window._rpc
RunBindResets(js) ==
  /\ fns' = fns \cup {js.name}
  /\ nextSeq' = 1 /\ rpc' = [s \in {} |-> 0]
  /\ UNCHANGED outcomes

\* bind's script: window._rpc is kept if the page already has one
RunBind(js) ==
  /\ fns' = fns \cup {js.name}
  /\ UNCHANGED <<nextSeq, rpc, outcomes>>

RunUnbind(js) ==
  /\ fns' = fns \ {js.name}
  /\ UNCHANGED <<nextSeq, rpc, outcomes>>

\* Mutant: the promise stays in window._rpc
RunReplyKeeps(js) ==
  /\ UNCHANGED <<fns, nextSeq, rpc>>
  /\ outcomes' = outcomes \cup
       {[call |-> rpc[s], by |-> js.by, op |-> js.op, nth |-> js.nth] :
          s \in DOMAIN rpc \cap {js.seq}}

\* An answer's script settles the promise and deletes it from window._rpc;
\* it throws, and changes nothing, when window._rpc[seq] does not exist
RunReply(js) ==
  \/ /\ js.seq \in DOMAIN rpc
     /\ outcomes' = outcomes \cup
          {[call |-> rpc[js.seq], by |-> js.by, op |-> js.op, nth |-> js.nth]}
     /\ rpc' = [s \in DOMAIN rpc \ {js.seq} |-> rpc[s]]
     /\ UNCHANGED <<fns, nextSeq>>
  \/ /\ js.seq \notin DOMAIN rpc
     /\ UNCHANGED <<fns, nextSeq, rpc, outcomes>>

\* Mutant: a script is run only when another one has been sent behind it
RunScriptLate ==
  /\ Len(scripts) > 1
  /\ scripts' = Tail(scripts)
  /\ LET js == Head(scripts) IN
       \/ js.op = "bind" /\ RunBind(js)
       \/ js.op = "unbind" /\ RunUnbind(js)
       \/ js.op \in {"resolve", "reject"} /\ RunReply(js)
  /\ UNCHANGED <<native, inbox, doc, calls>>

\* The page runs the script eval() sent first
RunScript ==
  /\ scripts # << >>
  /\ scripts' = Tail(scripts)
  /\ LET js == Head(scripts) IN
       \/ js.op = "bind" /\ RunBind(js)
       \/ js.op = "unbind" /\ RunUnbind(js)
       \/ js.op \in {"resolve", "reject"} /\ RunReply(js)
  /\ UNCHANGED <<native, inbox, doc, calls>>

\* Mutant: the sequence number is not advanced
CallSameSeq(n, sent) ==
  /\ n \in fns
  /\ Len(calls) < MaxCalls
  /\ LET c == Len(calls) + 1 IN
       /\ calls' = Append(calls, [page |-> doc, seq |-> nextSeq, name |-> n, sent |-> sent])
       /\ rpc' = [s \in DOMAIN rpc \cup {nextSeq} |-> IF s = nextSeq THEN c ELSE rpc[s]]
       /\ inbox' = IF sent THEN Append(inbox, [seq |-> nextSeq, name |-> n, call |-> c])
                           ELSE inbox
  /\ UNCHANGED <<native, scripts, doc, fns, nextSeq, outcomes>>

\* Mutant: the promise is registered for the call after this one
CallRegistersNext(n, sent) ==
  /\ n \in fns
  /\ Len(calls) < MaxCalls
  /\ LET c == Len(calls) + 1 IN
       /\ calls' = Append(calls, [page |-> doc, seq |-> nextSeq, name |-> n, sent |-> sent])
       /\ rpc' = [s \in DOMAIN rpc \cup {nextSeq} |-> IF s = nextSeq THEN c + 1 ELSE rpc[s]]
       /\ inbox' = IF sent THEN Append(inbox, [seq |-> nextSeq, name |-> n, call |-> c])
                           ELSE inbox
  /\ nextSeq' = nextSeq + 1
  /\ UNCHANGED <<native, scripts, doc, fns, outcomes>>

\* The page calls window[n].  The promise is registered first; the message is
\* not sent when JSON.stringify throws on the arguments.
Call(n, sent) ==
  /\ n \in fns
  /\ Len(calls) < MaxCalls
  /\ LET c == Len(calls) + 1 IN
       /\ calls' = Append(calls, [page |-> doc, seq |-> nextSeq, name |-> n, sent |-> sent])
       /\ rpc' = [s \in DOMAIN rpc \cup {nextSeq} |-> IF s = nextSeq THEN c ELSE rpc[s]]
       /\ inbox' = IF sent THEN Append(inbox, [seq |-> nextSeq, name |-> n, call |-> c])
                           ELSE inbox
  /\ nextSeq' = nextSeq + 1
  /\ UNCHANGED <<native, scripts, doc, fns, outcomes>>

\* A fresh page: the init scripts run on it, in their order
FreshPage ==
  /\ fns' = {n \in Names : Defines(userScripts, n)}
  /\ nextSeq' = 1
  /\ rpc' = [s \in {} |-> 0]

\* A navigation, asked for by the application or by the page.  Scripts still
\* under way to the old page run on the new one or, when the browser changes
\* process, are lost; messages under way to the main thread are not.
Load ==
  /\ doc < MaxLoads
  /\ doc' = doc + 1
  /\ FreshPage
  /\ scripts' \in {scripts, << >>}
  /\ UNCHANGED <<native, inbox, calls, outcomes>>

Next ==
  \/ \E n \in Names : Bind(n) \/ Unbind(n)
  \/ OnMessage
  \/ \E job \in jobs : Answer(job) \/ AnswerTwice(job)
  \/ RunTask
  \/ DropTask
  \/ RunScript
  \/ \E n \in Names, sent \in BOOLEAN : Call(n, sent)
  \/ Load

Spec == Init /\ [][Next]_vars

\* The main loop and the page's event loop keep running, and every
\* asynchronous callback's thread answers in the end
Fairness ==
  /\ WF_vars(OnMessage)
  /\ WF_vars(RunTask)
  /\ WF_vars(RunScript)
  /\ \A c \in 1..MaxCalls : WF_vars(\E job \in jobs : job.call = c /\ Answer(job))

FairSpec == Spec /\ Fairness
-----------------------------------------------------------------------------
Settled(c) == \E o \in outcomes : o.call = c

\* An answer to a request of the page that receives it settles the promise of
\* that very request: rebinding must not reset window._rpc, and every hand-over
\* of the sequence number must keep it (webview.cpp:36-38, 67-91).
AnswerMatchesWithinPage ==
  \A o \in outcomes : calls[o.call].page = calls[o.by].page => o.call = o.by

\* No promise is settled twice, whatever number of answers its request gets and
\* whichever page the answers meet (webview.cpp:71-76).
SettledOnce ==
  \A o1, o2 \in outcomes : o1.call = o2.call => o1 = o2

\* Of several answers to a request, which threads give and the main loop and the
\* page run later, the one given first settles its promise, and none of those
\* that follow (webview.cpp:67-77).  Where a posted function can be dropped, on
\* Win32, it is the first one that is not: all before it were
\* (mswebview_engine.cpp:124-126, 215-219).
FirstAnswerWins ==
  \A o \in outcomes :
    calls[o.call].page = calls[o.by].page =>
      \A k \in 1..(o.nth - 1) : <<o.by, k>> \in dropped

\* window._rpc holds exactly the promises of the page's calls that are still
\* unsettled: none is leaked, lost or overwritten (webview.cpp:36-44, 71-76).
RegisteredIffPending ==
  \A c \in DOMAIN calls :
    calls[c].page = doc =>
      ((\E s \in DOMAIN rpc : rpc[s] = c) <=> ~Settled(c))

\* Once the page has run the scripts about n that were sent to it, it has
\* window[n] exactly if n is bound, also after navigations that lost scripts
\* or ran them twice (webview.cpp:31-64).
PageAgreesWithBindings ==
  \A n \in Names : Mentions(scripts, n) = {} => (n \in fns <=> n \in bindings)

\* A synchronous binding has no way to fail: its own answer never rejects
\* (webview.cpp:22-27).
SyncNeverRejects ==
  \A o \in outcomes :
    o.op = "reject" /\ calls[o.call].page = calls[o.by].page
      => calls[o.call].name \notin SyncNames

\* A message, a job, a posted function or a script is on its way for call c
UnderWay(c) ==
  \/ \E i \in DOMAIN inbox : inbox[i].call = c
  \/ \E job \in jobs : job.call = c
  \/ \E i \in DOMAIN tasks : tasks[i].by = c
  \/ \E i \in DOMAIN scripts :
       scripts[i].op \in {"resolve", "reject"} /\ scripts[i].by = c

\* This step drops the message of call c: its name is not bound
Drops(c) ==
  /\ inbox # << >> /\ Head(inbox).call = c /\ Head(inbox).name \notin bindings
  /\ inbox' = Tail(inbox)

\* This step drops an answer to call c, which the main loop was to run next
DropsAnswer(c) ==
  /\ Lossy /\ tasks # << >> /\ Head(tasks).by = c
  /\ dropped' = dropped \cup {<<c, Head(tasks).nth>>}

\* On a page that stays, an unsettled request is on its way, from queue to queue,
\* until it is settled.  There are two ways out: its name is not bound when the
\* message arrives (webview.cpp:67-91), and on Win32 a loop other than run()'s
\* drops its answer (mswebview_engine.cpp:124-126, 215-219).
NeverVanishes ==
  [][\A c \in DOMAIN calls :
       UnderWay(c) /\ ~Settled(c) /\ calls[c].page = doc =>
         \/ UnderWay(c)' \/ Settled(c)' \/ doc' # doc
         \/ Drops(c) \/ DropsAnswer(c)]_vars

\* A request that reaches the main thread while its name is bound gets its
\* promise settled, unless the page is left or the name unbound before: a
\* message that is dropped, as for a name that was not bound, stays unanswered
\* for ever (webview.cpp:67-91).  Nor is it settled when every answer it got was
\* dropped, which only Win32 does (mswebview_engine.cpp:124-126, 215-219): there
\* the promise stays pending although its binding has answered.
EventuallySettled ==
  \A c \in 1..MaxCalls :
    (\E i \in DOMAIN inbox : inbox[i].call = c /\ inbox[i].name \in bindings) ~>
      (\/ Settled(c)
       \/ c \in DOMAIN calls /\ (calls[c].page # doc \/ calls[c].name \notin bindings)
       \/ <<c, 1>> \in dropped /\ ~UnderWay(c))

\* webview.h:174-175: the request pointer serves to match requests with
\* responses.  The answer that settles a promise answers its request.
AnswerMatchesRequest ==
  \A o \in outcomes : o.call = o.by
=============================================================================
