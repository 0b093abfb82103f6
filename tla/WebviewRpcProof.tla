-------------------------- MODULE WebviewRpcProof --------------------------
(***************************************************************************)
(* Proofs about WebviewRpc, for every value of its constants: types, that  *)
(* answers meet their requests within a page, and that a page agrees with  *)
(* webview::bindings.                                                      *)
(***************************************************************************)
EXTENDS WebviewRpc, TLAPS

\* The first element of a queue, and the others once it is taken.
LEMMA HeadTail ==
  ASSUME NEW S, NEW q \in Seq(S), q # << >>
  PROVE  /\ Head(q) \in S /\ Head(q) = q[1] /\ 1 \in DOMAIN q
         /\ Tail(q) \in Seq(S)
         /\ \A i \in DOMAIN Tail(q) : i + 1 \in DOMAIN q /\ Tail(q)[i] = q[i + 1]
  OBVIOUS

\* Appending keeps the old elements in place and adds the new one behind them.
LEMMA Appended ==
  ASSUME NEW S, NEW q \in Seq(S), NEW e \in S
  PROVE  /\ Append(q, e) \in Seq(S)
         /\ \A i \in DOMAIN Append(q, e) :
              \/ i \in DOMAIN q /\ Append(q, e)[i] = q[i]
              \/ i = Len(q) + 1 /\ Append(q, e)[i] = e
         /\ \A i \in DOMAIN q : i \in DOMAIN Append(q, e) /\ Append(q, e)[i] = q[i]
         /\ Len(q) + 1 \in DOMAIN Append(q, e) /\ Append(q, e)[Len(q) + 1] = e
         /\ \A i \in DOMAIN q : i < Len(q) + 1
  OBVIOUS

\* Answering a job counts the answer and keeps which request it is for.
LEMMA AnswerCounted ==
  ASSUME NEW job \in Job
  PROVE  LET j == [job EXCEPT !.given = @ + 1] IN
         j \in Job /\ j.seq = job.seq /\ j.call = job.call /\ j.given = job.given + 1
BY DEF Job

\* Every step keeps the types of the variables.
LEMMA TypeStep ==
  ASSUME TypeOK, [Next]_vars
  PROVE  TypeOK'
<1> USE DEF TypeOK
<1>1. ASSUME NEW n \in Names, Bind(n) \/ Unbind(n) PROVE TypeOK'
  <2>1. PICK js \in BindingScript : InitAndEval(js)
    BY <1>1 DEF Bind, Unbind, BindingScript
  <2>2. js \in Script
    BY DEF Script
  <2>3. userScripts' \in Seq(BindingScript) /\ scripts' \in Seq(Script)
    BY <2>1, <2>2, Appended DEF InitAndEval
  <2>4. bindings' \in SUBSET Names
    BY <1>1 DEF Bind, Unbind
  <2>5. UNCHANGED <<tasks, inbox, jobs, doc, fns, nextSeq, rpc, calls, outcomes, dups, dropped>>
    BY <1>1 DEF Bind, Unbind, page
  <2>6. QED
    BY <2>3, <2>4, <2>5
<1>2. CASE OnMessage
  <2> DEFINE msg == Head(inbox)
  <2>1. msg \in Message /\ inbox' \in Seq(Message)
    BY <1>2, HeadTail DEF OnMessage, AnswersAtOnce, HandsOver
  <2>2. tasks' \in Seq(Posted)
    <3>1. [seq |-> msg.seq, status |-> 0, by |-> msg.call, nth |-> 1] \in Posted
      BY <2>1 DEF Message, Posted, Statuses
    <3>2. CASE tasks' = tasks
      BY <3>2
    <3>3. CASE Resolve(msg.seq, 0, msg.call, 1)
      BY <3>1, <3>3, Appended DEF Resolve
    <3>4. QED
      BY <1>2, <3>2, <3>3 DEF OnMessage, AnswersAtOnce, HandsOver
  <2>3. jobs' \in SUBSET Job
    BY <1>2, <2>1 DEF OnMessage, AnswersAtOnce, HandsOver, Message, Job
  <2>4. UNCHANGED <<bindings, userScripts, scripts, doc, fns, nextSeq, rpc, calls, outcomes, dups,
                    dropped>>
    BY <1>2 DEF OnMessage, AnswersAtOnce, HandsOver, page
  <2>5. QED
    BY <2>1, <2>2, <2>3, <2>4
<1>3. ASSUME NEW job \in jobs, Answer(job) \/ AnswerTwice(job) PROVE TypeOK'
  <2>1. PICK status \in Statuses : Resolve(job.seq, status, job.call, job.given + 1)
    BY <1>3 DEF Answer, AnswerTwice
  <2>2. [seq |-> job.seq, status |-> status, by |-> job.call, nth |-> job.given + 1] \in Posted
    BY DEF Job, Posted
  <2>3. tasks' \in Seq(Posted)
    BY <2>1, <2>2, Appended DEF Resolve
  <2>4. jobs' \in SUBSET Job /\ dups' \in Nat
    <3>1. job \in Job /\ [job EXCEPT !.given = @ + 1] \in Job
      BY AnswerCounted
    <3>2. \A j \in jobs' : j \in jobs \/ j = [job EXCEPT !.given = @ + 1]
      BY <1>3 DEF Answer, AnswerTwice
    <3>3. dups' \in Nat
      BY <1>3 DEF Answer, AnswerTwice
    <3>4. QED
      BY <3>1, <3>2, <3>3
  <2>5. UNCHANGED <<bindings, userScripts, scripts, inbox, doc, fns, nextSeq, rpc, calls, outcomes,
                    dropped>>
    BY <1>3 DEF Answer, AnswerTwice, page
  <2>6. QED
    BY <2>3, <2>4, <2>5
<1>4. CASE RunTask
  <2> DEFINE t == Head(tasks)
             js == [op |-> IF t.status = 0 THEN "resolve" ELSE "reject",
                    seq |-> t.seq, by |-> t.by, nth |-> t.nth]
  <2>1. t \in Posted /\ tasks' \in Seq(Posted)
    BY <1>4, HeadTail DEF RunTask
  <2>2. js \in Script
    BY <2>1 DEF Posted, Script, ReplyScript
  <2>3. scripts' \in Seq(Script)
    BY <1>4, <2>2, Appended DEF RunTask
  <2>4. UNCHANGED <<bindings, userScripts, inbox, jobs, doc, fns, nextSeq, rpc, calls, outcomes, dups,
                    dropped>>
    BY <1>4 DEF RunTask, page
  <2>5. QED
    BY <2>1, <2>3, <2>4
<1>5. CASE RunScript
  <2> DEFINE js == Head(scripts)
  <2>1. js \in Script /\ scripts' \in Seq(Script)
    BY <1>5, HeadTail DEF RunScript
  <2>2. UNCHANGED <<bindings, userScripts, tasks, inbox, jobs, doc, calls, dups, dropped>>
    BY <1>5 DEF RunScript, native
  <2>3. CASE \/ js.op = "bind" /\ RunBind(js)
             \/ js.op = "unbind" /\ RunUnbind(js)
    <3>1. js.name \in Names
      BY <2>1, <2>3 DEF Script, BindingScript, ReplyScript
    <3>2. fns' \in SUBSET Names /\ UNCHANGED <<nextSeq, rpc, outcomes>>
      BY <2>3, <3>1 DEF RunBind, RunUnbind
    <3>3. QED
      BY <2>1, <2>2, <3>2
  <2>4. CASE js.op \in {"resolve", "reject"} /\ RunReply(js)
    <3>1. js.by \in Nat /\ js.nth \in Nat \ {0}
      BY <2>1, <2>4 DEF Script, BindingScript, ReplyScript
    <3>2. \A s \in DOMAIN rpc : rpc[s] \in Nat
      OBVIOUS
    <3>3. outcomes' \in SUBSET Outcome
      BY <2>4, <3>1, <3>2 DEF RunReply, Outcome
    <3>4. DOMAIN rpc' \subseteq DOMAIN rpc /\ \A s \in DOMAIN rpc' : rpc'[s] = rpc[s]
      BY <2>4 DEF RunReply
    <3>5. UNCHANGED <<fns, nextSeq>>
      BY <2>4 DEF RunReply
    <3>6. QED
      BY <2>1, <2>2, <3>3, <3>4, <3>5
  <2>5. QED
    BY <1>5, <2>3, <2>4 DEF RunScript
<1>6. ASSUME NEW n \in Names, NEW sent \in BOOLEAN, Call(n, sent) PROVE TypeOK'
  <2> DEFINE c == Len(calls) + 1
             call == [page |-> doc, seq |-> nextSeq, name |-> n, sent |-> sent]
             msg == [seq |-> nextSeq, name |-> n, call |-> c]
  <2>1. call \in CallRecord /\ msg \in Message
    BY DEF CallRecord, Message
  <2>2. calls' \in Seq(CallRecord) /\ DOMAIN calls \subseteq DOMAIN calls' /\ c \in DOMAIN calls'
    BY <1>6, <2>1, Appended DEF Call
  <2>3. inbox' \in Seq(Message)
    BY <1>6, <2>1, Appended DEF Call
  <2>4. DOMAIN rpc' = DOMAIN rpc \cup {nextSeq}
        /\ \A s \in DOMAIN rpc' : rpc'[s] = IF s = nextSeq THEN c ELSE rpc[s]
    BY <1>6 DEF Call
  <2>5. nextSeq' = nextSeq + 1
        /\ UNCHANGED <<bindings, userScripts, scripts, tasks, jobs, doc, fns, outcomes, dups, dropped>>
    BY <1>6 DEF Call, native
  <2>6. QED
    BY <2>2, <2>3, <2>4, <2>5
<1>7. CASE Load
  <2>1. DOMAIN rpc' = {} /\ doc' \in Nat /\ nextSeq' \in Nat /\ fns' \in SUBSET Names
    BY <1>7 DEF Load, FreshPage
  <2>2. scripts' \in Seq(Script)
    <3>1. << >> \in Seq(Script)
      OBVIOUS
    <3>2. QED
      BY <1>7, <3>1, Zenon DEF Load, FreshPage
  <2>3. UNCHANGED <<bindings, userScripts, tasks, inbox, jobs, calls, outcomes, dups, dropped>>
    BY <1>7 DEF Load, FreshPage, native
  <2>4. QED
    BY <2>1, <2>2, <2>3
<1>8. CASE UNCHANGED vars
  BY <1>8 DEF vars, native, page
<1>9. CASE DropTask
  <2>1. Head(tasks) \in Posted /\ tasks' \in Seq(Posted)
    BY <1>9, HeadTail DEF DropTask
  <2>2. dropped' \subseteq Nat \X Nat
    BY <1>9, <2>1 DEF DropTask, Posted
  <2>3. UNCHANGED <<bindings, userScripts, scripts, inbox, jobs, doc, fns, nextSeq, rpc, calls,
                    outcomes, dups>>
    BY <1>9 DEF DropTask, page
  <2>4. QED
    BY <2>1, <2>2, <2>3
<1>10. QED
  BY <1>1, <1>2, <1>3, <1>4, <1>5, <1>6, <1>7, <1>8, <1>9 DEF Next

\* TypeOK: every variable keeps its type.
THEOREM TypeCorrect == Spec => []TypeOK
<1>1. Init => TypeOK
  BY DEF Init, TypeOK
<1>2. TypeOK /\ [Next]_vars => TypeOK'
  BY TypeStep
<1>3. QED
  BY <1>1, <1>2, PTL DEF Spec
-----------------------------------------------------------------------------
\* Calls of one page have different sequence numbers, below the page's next
CallsNumbered ==
  /\ \A c \in DOMAIN calls :
       /\ calls[c].page <= doc
       /\ calls[c].page = doc => calls[c].seq < nextSeq
  /\ \A c, d \in DOMAIN calls :
       calls[c].page = calls[d].page /\ calls[c].seq = calls[d].seq
         => c = d

\* window._rpc holds a promise under the number of its call, and only there
TableExact ==
  /\ \A s \in DOMAIN rpc :
       /\ calls[rpc[s]].page = doc
       /\ calls[rpc[s]].seq = s
       /\ ~Settled(rpc[s])
  /\ \A c \in DOMAIN calls :
       calls[c].page = doc /\ ~Settled(c) =>
         calls[c].seq \in DOMAIN rpc /\ rpc[calls[c].seq] = c

\* What travels with number seq on behalf of call c has that call's number
Carries(seq, c) == c \in DOMAIN calls /\ calls[c].seq = seq

\* The call may be answered by a rejection
MayReject(c) == calls[c].name \notin SyncNames

\* Every message, job, posted function, script and outcome keeps the number of
\* the call it stems from, and none turns a synchronous answer into a rejection
InboxExact ==
  \A i \in DOMAIN inbox :
    Carries(inbox[i].seq, inbox[i].call) /\ inbox[i].name = calls[inbox[i].call].name
JobsExact ==
  \A job \in jobs : Carries(job.seq, job.call) /\ MayReject(job.call)
TasksExact ==
  \A i \in DOMAIN tasks :
    /\ Carries(tasks[i].seq, tasks[i].by)
    /\ tasks[i].status # 0 => MayReject(tasks[i].by)
ScriptsExact ==
  \A i \in DOMAIN scripts :
    /\ scripts[i].op \in {"resolve", "reject"} => Carries(scripts[i].seq, scripts[i].by)
    /\ scripts[i].op = "reject" => MayReject(scripts[i].by)
OutcomesExact ==
  \A o \in outcomes :
    /\ o.call \in DOMAIN calls /\ Carries(calls[o.call].seq, o.by)
    /\ o.op = "reject" => MayReject(o.by)

CarriersExact ==
  InboxExact /\ JobsExact /\ TasksExact /\ ScriptsExact /\ OutcomesExact

MatchInv == TypeOK /\ CallsNumbered /\ TableExact /\ CarriersExact /\ SettledOnce

\* The inductive invariant holds at first and along every step.
LEMMA MatchInit == Init => MatchInv
BY DEF Init, MatchInv, TypeOK, CallsNumbered, TableExact, CarriersExact, InboxExact,
       JobsExact, TasksExact, ScriptsExact, OutcomesExact, SettledOnce

\* Every step keeps the inductive invariant.
LEMMA MatchStep ==
  ASSUME MatchInv, [Next]_vars
  PROVE  MatchInv'
<1> USE DEF MatchInv, CarriersExact
<1>t. TypeOK'
  BY TypeStep
<1>c. /\ doc \in Nat /\ nextSeq \in Nat
      /\ \A d \in DOMAIN calls : calls[d].page \in Nat /\ calls[d].seq \in Nat
  <2>1. \A d \in DOMAIN calls : calls[d] \in CallRecord
    BY DEF TypeOK
  <2>2. QED
    BY <2>1 DEF TypeOK, CallRecord
<1>p. ASSUME UNCHANGED page
      PROVE  CallsNumbered' /\ TableExact' /\ SettledOnce' /\ OutcomesExact'
  BY <1>p DEF page, CallsNumbered, TableExact, SettledOnce, Settled, OutcomesExact,
              Carries, MayReject
<1>1. ASSUME NEW n \in Names, Bind(n) \/ Unbind(n) PROVE MatchInv'
  <2>1. PICK js \in BindingScript : InitAndEval(js)
    BY <1>1 DEF Bind, Unbind, BindingScript
  <2>2. js \in Script /\ js.op \notin {"resolve", "reject"}
    BY DEF Script, BindingScript
  <2>3. UNCHANGED <<page, tasks, inbox, jobs>>
    BY <1>1 DEF Bind, Unbind
  <2>4. ScriptsExact'
    <3>1. \A i \in DOMAIN scripts' :
            \/ i \in DOMAIN scripts /\ scripts'[i] = scripts[i]
            \/ scripts'[i] = js
      BY <2>1, <2>2, Appended DEF InitAndEval, TypeOK
    <3>2. QED
      BY <2>2, <2>3, <3>1 DEF ScriptsExact, Carries, MayReject, page
  <2>5. InboxExact' /\ JobsExact' /\ TasksExact'
    BY <2>3 DEF InboxExact, JobsExact, TasksExact, Carries, MayReject, page
  <2>6. QED
    BY <1>t, <1>p, <2>3, <2>4, <2>5
<1>2. CASE OnMessage
  <2> DEFINE msg == Head(inbox)
             t == [seq |-> msg.seq, status |-> 0, by |-> msg.call, nth |-> 1]
             job == [seq |-> msg.seq, call |-> msg.call, given |-> 0]
  <2>1. /\ msg \in Message /\ 1 \in DOMAIN inbox /\ msg = inbox[1]
        /\ \A i \in DOMAIN inbox' : i + 1 \in DOMAIN inbox /\ inbox'[i] = inbox[i + 1]
    BY <1>2, HeadTail DEF OnMessage, AnswersAtOnce, HandsOver, TypeOK
  <2>2. UNCHANGED <<page, scripts>>
    BY <1>2 DEF OnMessage, AnswersAtOnce, HandsOver
  <2>3. Carries(msg.seq, msg.call) /\ msg.name = calls[msg.call].name
    BY <2>1 DEF InboxExact
  <2>4. InboxExact' /\ ScriptsExact'
    BY <2>1, <2>2 DEF InboxExact, ScriptsExact, Carries, MayReject, page
  <2>5. TasksExact'
    <3>1. CASE tasks' = tasks
      BY <2>2, <3>1 DEF TasksExact, Carries, MayReject, page
    <3>2. CASE Resolve(msg.seq, 0, msg.call, 1)
      <4>1. t \in Posted
        BY <2>1 DEF Message, Posted, Statuses
      <4>2. \A i \in DOMAIN tasks' :
              \/ i \in DOMAIN tasks /\ tasks'[i] = tasks[i]
              \/ tasks'[i] = t
        BY <3>2, <4>1, Appended DEF Resolve, TypeOK
      <4>3. QED
        BY <2>2, <2>3, <4>2 DEF TasksExact, Carries, MayReject, page
    <3>3. QED
      BY <1>2, <3>1, <3>2 DEF OnMessage, AnswersAtOnce, HandsOver
  <2>6. JobsExact'
    <3>1. \A j \in jobs' : j \in jobs \/ (j = job /\ msg.name \notin SyncNames)
      BY <1>2 DEF OnMessage, AnswersAtOnce, HandsOver
    <3>2. QED
      BY <2>2, <2>3, <3>1 DEF JobsExact, Carries, MayReject, page
  <2>7. QED
    BY <1>t, <1>p, <2>2, <2>4, <2>5, <2>6
<1>3. ASSUME NEW job \in jobs, Answer(job) \/ AnswerTwice(job) PROVE MatchInv'
  <2>1. PICK status \in Statuses : Resolve(job.seq, status, job.call, job.given + 1)
    BY <1>3 DEF Answer, AnswerTwice
  <2> DEFINE t == [seq |-> job.seq, status |-> status, by |-> job.call, nth |-> job.given + 1]
  <2>2. /\ UNCHANGED <<page, scripts, inbox>>
        /\ \A j \in jobs' : j \in jobs \/ j = [job EXCEPT !.given = @ + 1]
    BY <1>3 DEF Answer, AnswerTwice
  <2>0. job \in Job
    BY DEF TypeOK
  <2>3. t \in Posted
    BY DEF TypeOK, Job, Posted
  <2>4. \A i \in DOMAIN tasks' :
          \/ i \in DOMAIN tasks /\ tasks'[i] = tasks[i]
          \/ tasks'[i] = t
    BY <2>1, <2>3, Appended DEF Resolve, TypeOK
  <2>5. TasksExact'
    BY <2>2, <2>4 DEF TasksExact, JobsExact, Carries, MayReject, page
  <2>6. InboxExact' /\ JobsExact' /\ ScriptsExact'
    BY <2>0, <2>2, AnswerCounted DEF InboxExact, JobsExact, ScriptsExact, Carries, MayReject, page
  <2>7. QED
    BY <1>t, <1>p, <2>2, <2>5, <2>6
<1>4. CASE RunTask
  <2> DEFINE t == Head(tasks)
             js == [op |-> IF t.status = 0 THEN "resolve" ELSE "reject",
                    seq |-> t.seq, by |-> t.by, nth |-> t.nth]
  <2>1. /\ t \in Posted /\ 1 \in DOMAIN tasks /\ t = tasks[1]
        /\ \A i \in DOMAIN tasks' : i + 1 \in DOMAIN tasks /\ tasks'[i] = tasks[i + 1]
    BY <1>4, HeadTail DEF RunTask, TypeOK
  <2>2. UNCHANGED <<page, inbox, jobs>>
    BY <1>4 DEF RunTask
  <2>3. js \in Script
    BY <2>1 DEF Posted, Script, ReplyScript
  <2>4. \A i \in DOMAIN scripts' :
          \/ i \in DOMAIN scripts /\ scripts'[i] = scripts[i]
          \/ scripts'[i] = js
    BY <1>4, <2>3, Appended DEF RunTask, TypeOK
  <2>5. Carries(js.seq, js.by) /\ (js.op = "reject" => MayReject(js.by))
    BY <2>1 DEF TasksExact
  <2>6. ScriptsExact'
    BY <2>2, <2>4, <2>5 DEF ScriptsExact, Carries, MayReject, page
  <2>7. TasksExact'
    BY <2>1, <2>2 DEF TasksExact, Carries, MayReject, page
  <2>8. InboxExact' /\ JobsExact'
    BY <2>2 DEF InboxExact, JobsExact, Carries, MayReject, page
  <2>9. QED
    BY <1>t, <1>p, <2>2, <2>6, <2>7, <2>8
<1>5. CASE RunScript
  <2> DEFINE js == Head(scripts)
  <2>1. /\ js \in Script /\ 1 \in DOMAIN scripts /\ js = scripts[1]
        /\ \A i \in DOMAIN scripts' : i + 1 \in DOMAIN scripts /\ scripts'[i] = scripts[i + 1]
    BY <1>5, HeadTail DEF RunScript, TypeOK
  <2>2. UNCHANGED <<tasks, inbox, jobs, doc, calls>> /\ UNCHANGED nextSeq
    BY <1>5 DEF RunScript, RunBind, RunUnbind, RunReply, native
  <2>3. InboxExact' /\ JobsExact' /\ TasksExact'
    BY <2>2 DEF InboxExact, JobsExact, TasksExact, Carries, MayReject
  <2>4. ScriptsExact'
    BY <2>1, <2>2 DEF ScriptsExact, Carries, MayReject
  <2>5. CallsNumbered'
    BY <2>2 DEF CallsNumbered
  <2>6. CASE UNCHANGED <<rpc, outcomes>>
    <3>1. TableExact' /\ SettledOnce' /\ OutcomesExact'
      BY <2>2, <2>6 DEF TableExact, SettledOnce, Settled, OutcomesExact, Carries, MayReject
    <3>2. QED
      BY <1>t, <2>3, <2>4, <2>5, <3>1
  <2>7. CASE js.op \in {"resolve", "reject"} /\ js.seq \in DOMAIN rpc /\ RunReply(js)
    <3> DEFINE c == rpc[js.seq]
               o == [call |-> c, by |-> js.by, op |-> js.op, nth |-> js.nth]
    <3>1. /\ outcomes' = outcomes \cup {o}
          /\ DOMAIN rpc' = DOMAIN rpc \ {js.seq}
          /\ \A s \in DOMAIN rpc' : rpc'[s] = rpc[s]
      BY <2>7 DEF RunReply
    <3>2. c \in DOMAIN calls /\ calls[c].page = doc /\ calls[c].seq = js.seq /\ ~Settled(c)
      BY <2>7 DEF TableExact, TypeOK
    <3>3. Carries(js.seq, js.by) /\ (js.op = "reject" => MayReject(js.by))
      BY <2>1, <2>7 DEF ScriptsExact
    <3>0. o.call = c /\ o.by = js.by /\ o.op = js.op
      OBVIOUS
    <3> HIDE DEF o
    <3>4. \A d : Settled(d)' <=> (Settled(d) \/ d = c)
      BY <3>0, <3>1 DEF Settled
    <3>5. OutcomesExact'
      BY <2>2, <3>0, <3>1, <3>2, <3>3 DEF OutcomesExact, Carries, MayReject
    <3>6. SettledOnce'
      BY <3>0, <3>1, <3>2 DEF SettledOnce, Settled
    <3>7. TableExact'
      <4>1. \A s \in DOMAIN rpc' :
              calls'[rpc'[s]].page = doc' /\ calls'[rpc'[s]].seq = s /\ ~Settled(rpc[s])'
        BY <2>2, <3>1, <3>2, <3>4 DEF TableExact
      <4>2. \A d \in DOMAIN calls' :
              calls'[d].page = doc' /\ ~Settled(d)' =>
                calls'[d].seq \in DOMAIN rpc' /\ rpc'[calls'[d].seq] = d
        BY <2>2, <3>1, <3>2, <3>4 DEF TableExact
      <4>3. QED
        BY <3>1, <3>4, <4>1, <4>2 DEF TableExact
    <3>8. QED
      BY <1>t, <2>3, <2>4, <2>5, <3>5, <3>6, <3>7
  <2>8. QED
    BY <1>5, <2>6, <2>7 DEF RunScript, RunBind, RunUnbind, RunReply
<1>6. ASSUME NEW n \in Names, NEW sent \in BOOLEAN, Call(n, sent) PROVE MatchInv'
  <2> DEFINE c == Len(calls) + 1
             call == [page |-> doc, seq |-> nextSeq, name |-> n, sent |-> sent]
             msg == [seq |-> nextSeq, name |-> n, call |-> c]
  <2>1. call \in CallRecord /\ msg \in Message
    BY DEF CallRecord, Message, TypeOK
  <2>2. /\ \A d \in DOMAIN calls' :
             \/ d \in DOMAIN calls /\ calls'[d] = calls[d]
             \/ d = c /\ calls'[d] = call
        /\ \A d \in DOMAIN calls : d \in DOMAIN calls' /\ calls'[d] = calls[d] /\ d # c
        /\ c \in DOMAIN calls' /\ calls'[c] = call
    BY <1>6, <2>1, Appended DEF Call, TypeOK
  <2>3. /\ DOMAIN rpc' = DOMAIN rpc \cup {nextSeq} /\ rpc'[nextSeq] = c
        /\ \A s \in DOMAIN rpc : s # nextSeq => rpc'[s] = rpc[s]
        /\ nextSeq' = nextSeq + 1
        /\ UNCHANGED <<tasks, jobs, scripts, doc, outcomes>>
    BY <1>6 DEF Call, native
  <2>4. call.page = doc /\ call.seq = nextSeq /\ call.name = n
    OBVIOUS
  <2> HIDE DEF call
  <2>5. JobsExact' /\ TasksExact' /\ ScriptsExact' /\ OutcomesExact'
    BY <2>2, <2>3 DEF JobsExact, TasksExact, ScriptsExact, OutcomesExact, Carries, MayReject
  <2>6. InboxExact'
    <3>1. \A i \in DOMAIN inbox' :
            \/ i \in DOMAIN inbox /\ inbox'[i] = inbox[i]
            \/ inbox'[i] = msg
      BY <1>6, <2>1, Appended DEF Call, TypeOK
    <3>2. QED
      BY <2>2, <2>4, <3>1 DEF InboxExact, Carries
  <2>7. CallsNumbered'
    <3>1. \A d \in DOMAIN calls' :
            calls'[d].page <= doc' /\ (calls'[d].page = doc' => calls'[d].seq < nextSeq')
      BY <1>c, <2>2, <2>3, <2>4 DEF CallsNumbered
    <3>2. \A d \in DOMAIN calls : calls[d].page = call.page => calls[d].seq # call.seq
      BY <1>c, <2>4 DEF CallsNumbered
    <3>3. \A d, e \in DOMAIN calls' :
            (calls'[d].page = calls'[e].page /\ calls'[d].seq = calls'[e].seq) => d = e
      BY <2>2, <3>2 DEF CallsNumbered
    <3>4. QED
      BY <3>1, <3>3 DEF CallsNumbered
  <2>8. \A d : Settled(d)' <=> Settled(d)
    BY <2>3 DEF Settled
  <2>9. ~Settled(c)
    BY <2>2 DEF Settled, OutcomesExact
  <2>10. TableExact'
    <3>1. \A s \in DOMAIN rpc : s # nextSeq /\ rpc[s] \in DOMAIN calls
      BY <1>c DEF TableExact, CallsNumbered, TypeOK
    <3>2. \A s \in DOMAIN rpc' :
            calls'[rpc'[s]].page = doc' /\ calls'[rpc'[s]].seq = s /\ ~Settled(rpc[s])'
      BY <2>2, <2>3, <2>4, <2>8, <2>9, <3>1 DEF TableExact
    <3>3. \A d \in DOMAIN calls' :
            calls'[d].page = doc' /\ ~Settled(d)'
              => calls'[d].seq \in DOMAIN rpc' /\ rpc'[calls'[d].seq] = d
      <4> TAKE d \in DOMAIN calls'
      <4>1. CASE d = c
        BY <2>2, <2>3, <2>4, <4>1
      <4>2. CASE d # c
        <5>1. d \in DOMAIN calls /\ calls'[d] = calls[d]
          BY <2>2, <4>2
        <5>2. QED
          BY <2>3, <2>8, <3>1, <5>1 DEF TableExact
      <4>3. QED
        BY <4>1, <4>2
    <3>4. QED
      BY <3>2, <3>3 DEF TableExact
  <2>11. SettledOnce'
    BY <2>3 DEF SettledOnce
  <2>12. QED
    BY <1>t, <2>5, <2>6, <2>7, <2>10, <2>11
<1>7. CASE Load
  <2>1. /\ DOMAIN rpc' = {} /\ doc' = doc + 1
        /\ scripts' = scripts \/ scripts' = << >>
        /\ UNCHANGED <<tasks, jobs, inbox, calls, outcomes>>
    BY <1>7 DEF Load, FreshPage, native
  <2>2. CallsNumbered' /\ TableExact'
    BY <1>c, <2>1 DEF CallsNumbered, TableExact
  <2>3. InboxExact' /\ JobsExact' /\ TasksExact' /\ OutcomesExact' /\ SettledOnce'
    BY <2>1 DEF InboxExact, JobsExact, TasksExact, OutcomesExact, SettledOnce, Carries, MayReject
  <2>4. ScriptsExact'
    BY <2>1 DEF ScriptsExact, Carries, MayReject
  <2>5. QED
    BY <1>t, <2>2, <2>3, <2>4
<1>8. CASE UNCHANGED vars
  <2>1. UNCHANGED <<page, tasks, inbox, jobs, scripts>>
    BY <1>8 DEF vars, native
  <2>2. InboxExact' /\ JobsExact' /\ TasksExact' /\ ScriptsExact'
    BY <2>1 DEF InboxExact, JobsExact, TasksExact, ScriptsExact, Carries, MayReject, page
  <2>3. QED
    BY <1>t, <1>p, <2>1, <2>2
<1>9. CASE DropTask
  <2>1. \A i \in DOMAIN tasks' : i + 1 \in DOMAIN tasks /\ tasks'[i] = tasks[i + 1]
    BY <1>9, HeadTail DEF DropTask, TypeOK
  <2>2. UNCHANGED <<page, inbox, jobs, scripts>>
    BY <1>9 DEF DropTask
  <2>3. InboxExact' /\ JobsExact' /\ TasksExact' /\ ScriptsExact'
    BY <2>1, <2>2 DEF InboxExact, JobsExact, TasksExact, ScriptsExact, Carries, MayReject, page
  <2>4. QED
    BY <1>t, <1>p, <2>2, <2>3
<1>10. QED
  BY <1>1, <1>2, <1>3, <1>4, <1>5, <1>6, <1>7, <1>8, <1>9 DEF Next

\* The strengthened invariant is an invariant of the specification.
THEOREM MatchInvariant == Spec => []MatchInv
BY MatchInit, MatchStep, PTL DEF Spec

\* AnswerMatchesWithinPage: on one page, an answer settles its own request.
THEOREM AnswersMatch == Spec => []AnswerMatchesWithinPage
<1>1. MatchInv => AnswerMatchesWithinPage
  BY DEF MatchInv, CarriersExact, OutcomesExact, Carries, CallsNumbered, AnswerMatchesWithinPage
<1>2. QED
  BY <1>1, MatchInvariant, PTL

\* SettledOnce: no promise is settled twice, however many answers arrive.
THEOREM NeverSettledTwice == Spec => []SettledOnce
<1>1. MatchInv => SettledOnce
  BY DEF MatchInv
<1>2. QED
  BY <1>1, MatchInvariant, PTL

\* RegisteredIffPending: window._rpc holds exactly the unsettled promises.
THEOREM TableHoldsPending == Spec => []RegisteredIffPending
<1>1. MatchInv => RegisteredIffPending
  BY DEF MatchInv, TableExact, RegisteredIffPending
<1>2. QED
  BY <1>1, MatchInvariant, PTL

\* SyncNeverRejects: an answer of a synchronous callback never rejects.
THEOREM SyncResolves == Spec => []SyncNeverRejects
<1>1. MatchInv => SyncNeverRejects
  BY DEF MatchInv, CarriersExact, OutcomesExact, Carries, MayReject, CallsNumbered,
         SyncNeverRejects
<1>2. QED
  BY <1>1, MatchInvariant, PTL
-----------------------------------------------------------------------------
\* Taking the first element of a queue leaves each of the others in it.
LEMMA OthersStay ==
  ASSUME NEW S, NEW q \in Seq(S), NEW i \in DOMAIN q, i # 1
  PROVE  q # << >> /\ i - 1 \in DOMAIN Tail(q) /\ Tail(q)[i - 1] = q[i]
  OBVIOUS

\* An answer that the page runs settles the request it was given to.
LEMMA AnswerArrives ==
  ASSUME MatchInv, RunScript, NEW c \in DOMAIN calls, calls[c].page = doc,
         Head(scripts).op \in {"resolve", "reject"}, Head(scripts).by = c
  PROVE  Settled(c) \/ Settled(c)'
<1> DEFINE js == Head(scripts)
<1>1. js = scripts[1] /\ 1 \in DOMAIN scripts
  BY HeadTail DEF RunScript, MatchInv, TypeOK
<1>2. js.seq = calls[c].seq
  BY <1>1 DEF MatchInv, CarriersExact, ScriptsExact, Carries
<1>3. RunReply(js)
  BY DEF RunScript
<1>4. CASE Settled(c)
  BY <1>4
<1>5. CASE ~Settled(c)
  <2>1. js.seq \in DOMAIN rpc /\ rpc[js.seq] = c
    BY <1>2, <1>5 DEF MatchInv, TableExact
  <2>2. PICK o \in outcomes' : o = [call |-> c, by |-> js.by, op |-> js.op, nth |-> js.nth]
    BY <1>3, <2>1 DEF RunReply
  <2>3. o.call = c
    BY <2>2
  <2> QED BY <2>3 DEF Settled
<1> QED BY <1>4, <1>5

\* A message that the main thread takes is dropped, answered or handed to a thread.
LEMMA MessageGoesOn ==
  ASSUME MatchInv, OnMessage, NEW c, Head(inbox).call = c
  PROVE  UnderWay(c)' \/ Drops(c)
<1> DEFINE msg == Head(inbox)
           t == [seq |-> msg.seq, status |-> 0, by |-> msg.call, nth |-> 1]
<1>1. msg \in Message
  BY HeadTail DEF OnMessage, MatchInv, TypeOK
<1>2. CASE msg.name \notin bindings
  BY <1>2 DEF OnMessage, Drops
<1>3. CASE AnswersAtOnce(msg)
  <2>1. t \in Posted /\ t.by = c
    BY <1>1 DEF Message, Posted, Statuses
  <2>0. tasks' = Append(tasks, t) /\ tasks \in Seq(Posted)
    BY <1>3 DEF AnswersAtOnce, Resolve, MatchInv, TypeOK
  <2>2. PICK i \in DOMAIN tasks' : tasks'[i] = t
    BY <2>0, <2>1, Appended
  <2>3. tasks'[i].by = c
    BY <2>1, <2>2
  <2> QED BY <2>3 DEF UnderWay
<1>4. CASE HandsOver(msg)
  <2>1. PICK job \in jobs' : job = [seq |-> msg.seq, call |-> msg.call, given |-> 0]
    BY <1>4 DEF HandsOver
  <2>2. job.call = c
    BY <2>1
  <2> QED BY <2>2 DEF UnderWay
<1> QED BY <1>2, <1>3, <1>4 DEF OnMessage

\* No step but the two that drop it takes an unsettled request of the page off its
\* way.
LEMMA VanishStep ==
  ASSUME MatchInv, [Next]_vars, NEW c \in DOMAIN calls,
         UnderWay(c), ~Settled(c), calls[c].page = doc
  PROVE  \/ UnderWay(c)' \/ Settled(c)' \/ doc' # doc
         \/ Drops(c) \/ DropsAnswer(c)
<1>t. /\ inbox \in Seq(Message) /\ tasks \in Seq(Posted) /\ scripts \in Seq(Script)
      /\ jobs \subseteq Job
  BY DEF MatchInv, TypeOK
<1>1. ASSUME NEW n \in Names, Bind(n) \/ Unbind(n) PROVE UnderWay(c)'
  <2>1. PICK js \in BindingScript : InitAndEval(js)
    BY <1>1 DEF Bind, Unbind, BindingScript
  <2>2. \A i \in DOMAIN scripts : i \in DOMAIN scripts' /\ scripts'[i] = scripts[i]
    BY <1>t, <2>1, Appended DEF InitAndEval, Script
  <2>3. UNCHANGED <<inbox, tasks, jobs>>
    BY <1>1 DEF Bind, Unbind
  <2> QED BY <2>2, <2>3 DEF UnderWay
<1>2. CASE OnMessage
  <2>1. UNCHANGED scripts /\ inbox # << >> /\ inbox' = Tail(inbox)
    BY <1>2 DEF OnMessage
  <2>2. jobs \subseteq jobs'
    BY <1>2 DEF OnMessage, AnswersAtOnce, HandsOver
  <2>3. \A i \in DOMAIN tasks : i \in DOMAIN tasks' /\ tasks'[i] = tasks[i]
    <3>1. Head(inbox) \in Message
      BY <1>t, <2>1, HeadTail
    <3>2. CASE AnswersAtOnce(Head(inbox))
      <4>1. [seq |-> Head(inbox).seq, status |-> 0, by |-> Head(inbox).call, nth |-> 1]
              \in Posted
        BY <3>1 DEF Message, Posted, Statuses
      <4> QED BY <1>t, <3>2, <4>1, Appended DEF AnswersAtOnce, Resolve
    <3> QED BY <1>2, <3>2 DEF OnMessage, HandsOver
  <2>4. CASE \E i \in DOMAIN inbox : inbox[i].call = c
    <3>1. PICK i \in DOMAIN inbox : inbox[i].call = c
      BY <2>4
    <3>2. CASE i = 1
      <4>1. Head(inbox).call = c
        BY <1>t, <2>1, <3>1, <3>2, HeadTail
      <4> QED BY <1>2, <4>1, MessageGoesOn
    <3>3. CASE i # 1
      <4>1. i - 1 \in DOMAIN inbox' /\ inbox'[i - 1] = inbox[i]
        BY <1>t, <2>1, <3>3, OthersStay
      <4> QED BY <3>1, <4>1 DEF UnderWay
    <3> QED BY <3>2, <3>3
  <2> QED BY <2>1, <2>2, <2>3, <2>4 DEF UnderWay
<1>3. ASSUME NEW job \in jobs, Answer(job) \/ AnswerTwice(job) PROVE UnderWay(c)'
  <2>1. PICK status \in Statuses : Resolve(job.seq, status, job.call, job.given + 1)
    BY <1>3 DEF Answer, AnswerTwice
  <2> DEFINE t == [seq |-> job.seq, status |-> status, by |-> job.call, nth |-> job.given + 1]
  <2>2. t \in Posted
    BY <1>t DEF Job, Posted
  <2>3. /\ \A i \in DOMAIN tasks : i \in DOMAIN tasks' /\ tasks'[i] = tasks[i]
        /\ Len(tasks) + 1 \in DOMAIN tasks' /\ tasks'[Len(tasks) + 1] = t
    BY <1>t, <2>1, <2>2, Appended DEF Resolve
  <2>4. UNCHANGED <<scripts, inbox>> /\ \A j \in jobs : j # job => j \in jobs'
    BY <1>3 DEF Answer, AnswerTwice
  <2>5. job.call = c => UnderWay(c)'
    BY <2>3 DEF UnderWay
  <2> QED BY <2>3, <2>4, <2>5 DEF UnderWay
<1>4. CASE RunTask
  <2>1. UNCHANGED <<inbox, jobs>> /\ tasks # << >> /\ tasks' = Tail(tasks)
    BY <1>4 DEF RunTask
  <2> DEFINE t == Head(tasks)
             js == [op |-> IF t.status = 0 THEN "resolve" ELSE "reject",
                    seq |-> t.seq, by |-> t.by, nth |-> t.nth]
  <2>2. t \in Posted /\ t = tasks[1]
    BY <1>t, <2>1, HeadTail
  <2>3. js \in Script /\ js.op \in {"resolve", "reject"} /\ js.by = t.by
    BY <2>2 DEF Posted, Script, ReplyScript
  <2>4. /\ \A i \in DOMAIN scripts : i \in DOMAIN scripts' /\ scripts'[i] = scripts[i]
        /\ Len(scripts) + 1 \in DOMAIN scripts' /\ scripts'[Len(scripts) + 1] = js
    BY <1>t, <1>4, <2>3, Appended DEF RunTask
  <2>5. CASE \E i \in DOMAIN tasks : tasks[i].by = c
    <3>1. PICK i \in DOMAIN tasks : tasks[i].by = c
      BY <2>5
    <3>2. CASE i = 1
      <4>1. js.by = c
        BY <2>2, <3>1, <3>2
      <4> QED BY <2>3, <2>4, <4>1 DEF UnderWay
    <3>3. CASE i # 1
      <4>1. i - 1 \in DOMAIN tasks' /\ tasks'[i - 1] = tasks[i]
        BY <1>t, <2>1, <3>3, OthersStay
      <4> QED BY <3>1, <4>1 DEF UnderWay
    <3> QED BY <3>2, <3>3
  <2> QED BY <2>1, <2>4, <2>5 DEF UnderWay
<1>5. CASE RunScript
  <2>1. UNCHANGED <<inbox, jobs, tasks>> /\ scripts # << >> /\ scripts' = Tail(scripts)
    BY <1>5 DEF RunScript, native
  <2>2. CASE \E i \in DOMAIN scripts :
                scripts[i].op \in {"resolve", "reject"} /\ scripts[i].by = c
    <3>1. PICK i \in DOMAIN scripts :
                 scripts[i].op \in {"resolve", "reject"} /\ scripts[i].by = c
      BY <2>2
    <3>2. CASE i = 1
      <4>1. Head(scripts).op \in {"resolve", "reject"} /\ Head(scripts).by = c
        BY <1>t, <2>1, <3>1, <3>2, HeadTail
      <4> QED BY <1>5, <4>1, AnswerArrives
    <3>3. CASE i # 1
      <4>1. i - 1 \in DOMAIN scripts' /\ scripts'[i - 1] = scripts[i]
        BY <1>t, <2>1, <3>3, OthersStay
      <4> QED BY <3>1, <4>1 DEF UnderWay
    <3> QED BY <3>2, <3>3
  <2> QED BY <2>1, <2>2 DEF UnderWay
<1>6. ASSUME NEW n \in Names, NEW sent \in BOOLEAN, Call(n, sent) PROVE UnderWay(c)'
  <2> DEFINE msg == [seq |-> nextSeq, name |-> n, call |-> Len(calls) + 1]
  <2>1. msg \in Message
    BY DEF Message, MatchInv, TypeOK
  <2>2. \A i \in DOMAIN inbox : i \in DOMAIN inbox' /\ inbox'[i] = inbox[i]
    BY <1>t, <1>6, <2>1, Appended DEF Call
  <2>3. UNCHANGED <<scripts, tasks, jobs>>
    BY <1>6 DEF Call, native
  <2> QED BY <2>2, <2>3 DEF UnderWay
<1>7. CASE Load
  BY <1>7 DEF Load, MatchInv, TypeOK
<1>8. CASE UNCHANGED vars
  BY <1>8 DEF vars, native, UnderWay
<1>9. CASE DropTask
  <2>1. UNCHANGED <<inbox, jobs, scripts>> /\ tasks # << >> /\ tasks' = Tail(tasks)
    BY <1>9 DEF DropTask
  <2>2. CASE Head(tasks).by = c
    BY <1>9, <2>2 DEF DropTask, DropsAnswer
  <2>3. CASE Head(tasks).by # c
    <3>1. Head(tasks) = tasks[1]
      BY <1>t, <2>1, HeadTail
    <3>2. ASSUME NEW i \in DOMAIN tasks, tasks[i].by = c
          PROVE  i - 1 \in DOMAIN tasks' /\ tasks'[i - 1].by = c
      <4>1. i # 1
        BY <2>3, <3>1, <3>2
      <4> QED BY <1>t, <2>1, <3>2, <4>1, OthersStay
    <3> QED BY <2>1, <3>2 DEF UnderWay
  <2> QED BY <2>2, <2>3
<1> QED BY <1>1, <1>2, <1>3, <1>4, <1>5, <1>6, <1>7, <1>8, <1>9 DEF Next

\* NeverVanishes: on a page that stays, a request goes on from queue to queue
\* until it is settled, or is dropped in one of the two ways the property names.
THEOREM RequestsNeverVanish == Spec => NeverVanishes
<1>1. MatchInv /\ [Next]_vars =>
        [\A c \in DOMAIN calls :
           UnderWay(c) /\ ~Settled(c) /\ calls[c].page = doc =>
             \/ UnderWay(c)' \/ Settled(c)' \/ doc' # doc
             \/ Drops(c) \/ DropsAnswer(c)]_vars
  BY VanishStep
<1>2. QED
  BY <1>1, MatchInvariant, PTL DEF Spec, NeverVanishes
=============================================================================
