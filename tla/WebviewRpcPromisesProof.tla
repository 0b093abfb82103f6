----------------------- MODULE WebviewRpcPromisesProof -----------------------
(***************************************************************************)
(* The RPC engine implements PromiseTable on a page that is not left: each *)
(* of its steps makes, answers or settles one promise, or none.  This is   *)
(* the safety part of KeepsPromises, for every value of the constants but  *)
(* MaxLoads, which is 0.                                                   *)
(***************************************************************************)
EXTENDS WebviewRpcPromises, WebviewRpcOrderProof, SequenceTheorems

\* The posted function, or the script, at i carries the first answer to call c
FirstTask(i, c) == NthTask(i, c, 1)
FirstReply(i, c) == NthReply(i, c, 1)

\* The first answer to call c is under way, was dropped, or is not given
FirstUnderWay(c) == (\E i : FirstTask(i, c)) \/ (\E i : FirstReply(i, c))
FirstDropped(c) == <<c, 1>> \in dropped
Unanswered(c) == ~Settled(c) /\ ~FirstUnderWay(c) /\ ~FirstDropped(c)

\* Call c is on its way to on_message, or with a thread that has not answered yet
Requested(c) == \E i \in DOMAIN inbox : inbox[i].call = c
Handed(c) == \E job \in jobs : job.call = c /\ job.given = 0

\* A request is in one place until its first answer is given
RequestsOnce ==
  /\ \A i, j \in DOMAIN inbox : inbox[i].call = inbox[j].call => i = j
  /\ \A i \in DOMAIN inbox, job \in jobs : inbox[i].call # job.call
  /\ \A job1, job2 \in jobs : job1.call = job2.call => job1 = job2
  /\ \A c : Requested(c) \/ Handed(c) => Unanswered(c)

\* A call has at most one first answer, which is under way or was dropped
FirstUnique ==
  \A c : /\ \A i, j : FirstTask(i, c) /\ FirstTask(j, c) => i = j
         /\ \A i, j : FirstReply(i, c) /\ FirstReply(j, c) => i = j
         /\ \A i, j : ~(FirstTask(i, c) /\ FirstReply(j, c))
FirstOnce == FirstUnique /\ \A c : FirstUnderWay(c) => ~FirstDropped(c)

Stays == doc = 0

\* What was dropped answered a call
DroppedKnown == \A c : FirstDropped(c) => c \in DOMAIN calls

OnceInv == MatchInv /\ OrderInv /\ Stays /\ RequestsOnce /\ FirstOnce /\ DroppedKnown

\* How the posted function at i will settle its promise
TaskOp(i) == IF tasks[i].status = 0 THEN "resolve" ELSE "reject"

\* The first answers under way, in terms of their places.
LEMMA FirstAnswersAre ==
  \A c, op : op \in FirstAnswers(c) <=>
    \/ \E i : FirstReply(i, c) /\ op = scripts[i].op
    \/ \E i : FirstTask(i, c) /\ op = TaskOp(i)
    \/ FirstDropped(c) /\ op = "lost"
BY DEF FirstAnswers, FirstReply, NthReply, ReplyTo, FirstTask, NthTask, FirstDropped, TaskOp

\* The same in the next state.
LEMMA FirstAnswersAreNext ==
  \A c, op : op \in FirstAnswers(c)' <=>
    \/ \E i : FirstReply(i, c)' /\ op = scripts'[i].op
    \/ \E i : FirstTask(i, c)' /\ op = TaskOp(i)'
    \/ FirstDropped(c)' /\ op = "lost"
BY DEF FirstAnswers, FirstReply, NthReply, ReplyTo, FirstTask, NthTask, FirstDropped, TaskOp
-----------------------------------------------------------------------------
\* What appending to the queues, and taking from them, does to first answers.
LEMMA TaskPosted ==
  ASSUME tasks \in Seq(Posted), NEW t \in Posted, tasks' = Append(tasks, t)
  PROVE  /\ \A i, c : FirstTask(i, c)' <=>
                        FirstTask(i, c) \/ (i = Len(tasks) + 1 /\ c = t.by /\ t.nth = 1)
         /\ \A i, c : FirstTask(i, c) => i # Len(tasks) + 1 /\ TaskOp(i)' = TaskOp(i)
         /\ \A i : i = Len(tasks) + 1 =>
                   TaskOp(i)' = IF t.status = 0 THEN "resolve" ELSE "reject"
<1>1. /\ \A i \in DOMAIN tasks' :
           \/ i \in DOMAIN tasks /\ tasks'[i] = tasks[i]
           \/ i = Len(tasks) + 1 /\ tasks'[i] = t
      /\ \A i \in DOMAIN tasks : i \in DOMAIN tasks' /\ tasks'[i] = tasks[i] /\ i < Len(tasks) + 1
      /\ Len(tasks) + 1 \in DOMAIN tasks' /\ tasks'[Len(tasks) + 1] = t
  BY Appended
<1> DEFINE last == Len(tasks) + 1
<1> HIDE DEF last
<1>2. \A i \in DOMAIN tasks : i # last
  BY <1>1 DEF last
<1>3. \A i, c : FirstTask(i, c)' <=> FirstTask(i, c) \/ (i = last /\ c = t.by /\ t.nth = 1)
  BY <1>1, <1>2 DEF FirstTask, NthTask, last
<1>4. \A i, c : FirstTask(i, c) => i # last /\ TaskOp(i)' = TaskOp(i)
  BY <1>1, <1>2 DEF FirstTask, NthTask, TaskOp
<1>5. \A i : i = last => TaskOp(i)' = IF t.status = 0 THEN "resolve" ELSE "reject"
  BY <1>1 DEF TaskOp, last
<1>6. QED
  BY <1>3, <1>4, <1>5 DEF last

\* The same for a script that is sent.
LEMMA ScriptSent ==
  ASSUME scripts \in Seq(Script), NEW js \in Script, scripts' = Append(scripts, js)
  PROVE  /\ \A i, c : FirstReply(i, c)' <=>
                        \/ FirstReply(i, c)
                        \/ /\ i = Len(scripts) + 1 /\ js.op \in {"resolve", "reject"}
                           /\ c = js.by /\ js.nth = 1
         /\ \A i, c : FirstReply(i, c) => i # Len(scripts) + 1 /\ scripts'[i] = scripts[i]
         /\ scripts'[Len(scripts) + 1] = js
<1>1. /\ \A i \in DOMAIN scripts' :
           \/ i \in DOMAIN scripts /\ scripts'[i] = scripts[i]
           \/ i = Len(scripts) + 1 /\ scripts'[i] = js
      /\ \A i \in DOMAIN scripts :
           i \in DOMAIN scripts' /\ scripts'[i] = scripts[i] /\ i < Len(scripts) + 1
      /\ Len(scripts) + 1 \in DOMAIN scripts' /\ scripts'[Len(scripts) + 1] = js
  BY Appended
<1>2. \A i \in DOMAIN scripts : i # Len(scripts) + 1
  BY <1>1
<1>3. QED
  BY <1>1, <1>2 DEF FirstReply, NthReply, ReplyTo

\* Taking the first posted function moves the others forward.
LEMMA TaskTaken ==
  ASSUME tasks \in Seq(Posted), tasks # << >>, tasks' = Tail(tasks)
  PROVE  /\ \A i, c : FirstTask(i, c)' => /\ i \in Nat /\ i >= 1 /\ FirstTask(i + 1, c)
                                          /\ TaskOp(i)' = TaskOp(i + 1)
         /\ \A i, c : FirstTask(i, c) => i = 1 \/ (FirstTask(i - 1, c)' /\ TaskOp(i - 1)' = TaskOp(i))
         /\ \A c : FirstTask(1, c) <=> c = Head(tasks).by /\ Head(tasks).nth = 1
<1>1. Head(tasks) = tasks[1] /\ 1 \in DOMAIN tasks
  BY HeadTail
<1>2. /\ \A i \in DOMAIN tasks' : i \in Nat /\ i >= 1 /\ i + 1 \in DOMAIN tasks /\ tasks'[i] = tasks[i + 1]
      /\ \A i \in DOMAIN tasks : i # 1 => i - 1 \in DOMAIN tasks' /\ tasks'[i - 1] = tasks[i]
  BY TailShift
<1>3. QED
  BY <1>1, <1>2 DEF FirstTask, NthTask, TaskOp

\* The same for the script the page runs.
LEMMA ScriptTaken ==
  ASSUME scripts \in Seq(Script), scripts # << >>, scripts' = Tail(scripts)
  PROVE  /\ \A i, c : FirstReply(i, c)' => /\ i \in Nat /\ i >= 1 /\ FirstReply(i + 1, c)
                                           /\ scripts'[i] = scripts[i + 1]
         /\ \A i, c : FirstReply(i, c) =>
              i = 1 \/ (FirstReply(i - 1, c)' /\ scripts'[i - 1] = scripts[i])
         /\ \A c : FirstReply(1, c) <=> /\ Head(scripts).op \in {"resolve", "reject"}
                                        /\ c = Head(scripts).by /\ Head(scripts).nth = 1
<1>1. Head(scripts) = scripts[1] /\ 1 \in DOMAIN scripts
  BY HeadTail
<1>2. /\ \A i \in DOMAIN scripts' :
           i \in Nat /\ i >= 1 /\ i + 1 \in DOMAIN scripts /\ scripts'[i] = scripts[i + 1]
      /\ \A i \in DOMAIN scripts : i # 1 => i - 1 \in DOMAIN scripts' /\ scripts'[i - 1] = scripts[i]
  BY TailShift
<1>3. QED
  BY <1>1, <1>2 DEF FirstReply, NthReply, ReplyTo
-----------------------------------------------------------------------------
\* A request is in one place, and its first answer in one, at first and along
\* every step of a page that stays.
LEMMA OnceInit == Init => Stays /\ RequestsOnce /\ FirstOnce /\ DroppedKnown
BY DEF Init, Stays, RequestsOnce, Requested, Handed, FirstOnce, FirstUnique, FirstTask, NthTask, FirstReply,
   NthReply, ReplyTo, FirstUnderWay, FirstDropped, DroppedKnown

\* Nothing that carries a number carries one of a call that is still to come.
LEMMA CarriersKnown ==
  ASSUME MatchInv
  PROVE  /\ \A i \in DOMAIN inbox : inbox[i].call \in DOMAIN calls
         /\ \A job \in jobs : job.call \in DOMAIN calls
         /\ \A i, c : FirstTask(i, c) \/ FirstReply(i, c) => c \in DOMAIN calls
         /\ \A o \in outcomes : o.call \in DOMAIN calls
BY DEF MatchInv, CarriersExact, InboxExact, JobsExact, TasksExact, ScriptsExact, OutcomesExact,
   Carries, FirstTask, NthTask, FirstReply, NthReply, ReplyTo

\* On a page that stays, the answer that settles a promise is one to its own call,
\* the first unless that was dropped, and the promise was not settled before.
LEMMA SettlesOwn ==
  ASSUME MatchInv, OrderInv, Stays, scripts # << >>,
         Head(scripts).op \in {"resolve", "reject"}, Head(scripts).seq \in DOMAIN rpc
  PROVE  LET js == Head(scripts) IN
         /\ rpc[js.seq] = js.by /\ js.by \in DOMAIN calls /\ ~Settled(js.by)
         /\ FirstReply(1, js.by) \/ FirstDropped(js.by)
<1> DEFINE js == Head(scripts)
<1>1. js = scripts[1] /\ 1 \in DOMAIN scripts
  BY HeadTail DEF MatchInv, TypeOK
<1>2. js.by \in DOMAIN calls /\ calls[js.by].seq = js.seq
  BY <1>1 DEF MatchInv, CarriersExact, ScriptsExact, Carries
<1>3. /\ rpc[js.seq] \in DOMAIN calls /\ calls[rpc[js.seq]].seq = js.seq
      /\ ~Settled(rpc[js.seq])
  BY DEF MatchInv, TableExact, TypeOK
<1>4. \A c \in DOMAIN calls : calls[c].page = doc
  <2>1. \A c \in DOMAIN calls : calls[c] \in CallRecord /\ calls[c].page <= doc
    BY DEF MatchInv, TypeOK, CallsNumbered
  <2>2. \A c \in DOMAIN calls : calls[c].page \in Nat
    BY <2>1 DEF CallRecord
  <2>3. QED
    BY <2>1, <2>2 DEF Stays
<1>5. rpc[js.seq] = js.by
  BY <1>2, <1>3, <1>4 DEF MatchInv, CallsNumbered
<1>6. js.nth = 1 \/ FirstDropped(js.by)
  <2> SUFFICES ASSUME js.nth # 1, ~FirstDropped(js.by) PROVE FALSE
    OBVIOUS
  <2>0. js.nth \in Nat \ {0}
    <3>1. js \in Script
      BY <1>1 DEF MatchInv, TypeOK
    <3>2. QED
      BY <3>1 DEF Script, BindingScript, ReplyScript
  <2>1. LaterReply(1, js.by, 1)
    BY <1>1, <2>0 DEF LaterReply, ReplyTo
  <2>2. Awaits(js.by, 1)
    BY <1>2, <1>3, <1>4, <1>5 DEF Awaits, Waiting, FirstDropped
  <2>3. PICK j : j < 1 /\ NthReply(j, js.by, 1)
    BY <2>1, <2>2 DEF OrderInv, ScriptsInOrder
  <2>4. j \in DOMAIN scripts
    BY <2>3 DEF NthReply, ReplyTo
  <2>5. j \in Nat /\ j >= 1
    BY <2>4 DEF MatchInv, TypeOK
  <2>6. QED
    BY <2>3, <2>5
<1>7. FirstReply(1, js.by) \/ FirstDropped(js.by)
  BY <1>1, <1>6 DEF FirstReply, NthReply, ReplyTo
<1>8. QED
  BY <1>2, <1>3, <1>5, <1>7

\* Every step keeps requests and first answers unique, as long as the page stays.
LEMMA OnceStep ==
  ASSUME MaxLoads = 0, OnceInv, [Next]_vars
  PROVE  (Stays /\ RequestsOnce /\ FirstOnce)'
<1>t. /\ tasks \in Seq(Posted) /\ scripts \in Seq(Script) /\ inbox \in Seq(Message)
      /\ calls \in Seq(CallRecord) /\ jobs \in SUBSET Job
  BY DEF OnceInv, MatchInv, TypeOK
<1>o. MatchInv /\ OrderInv /\ Stays /\ RequestsOnce /\ FirstOnce /\ DroppedKnown
  BY DEF OnceInv
<1>s. ASSUME UNCHANGED scripts
      PROVE  \A i, c : FirstReply(i, c)' <=> FirstReply(i, c)
  BY <1>s DEF FirstReply, NthReply, ReplyTo
<1>k. ASSUME UNCHANGED tasks
      PROVE  \A i, c : FirstTask(i, c)' <=> FirstTask(i, c)
  BY <1>k DEF FirstTask, NthTask
<1>q. ASSUME UNCHANGED outcomes
      PROVE  \A c : Settled(c)' <=> Settled(c)
  BY <1>q DEF Settled
<1>r. ASSUME UNCHANGED <<inbox, jobs>>, \A c : Unanswered(c) => Unanswered(c)'
      PROVE  RequestsOnce'
  BY <1>o, <1>r DEF RequestsOnce, Requested, Handed
<1>1. ASSUME NEW n \in Names, Bind(n) \/ Unbind(n) PROVE (Stays /\ RequestsOnce /\ FirstOnce)'
  <2>1. PICK js \in BindingScript : InitAndEval(js)
    BY <1>1 DEF Bind, Unbind, BindingScript
  <2>2. js \in Script /\ js.op \notin {"resolve", "reject"} /\ scripts' = Append(scripts, js)
    BY <2>1 DEF Script, BindingScript, InitAndEval
  <2>3. UNCHANGED <<doc, outcomes, inbox, tasks, jobs, dropped>>
    BY <1>1 DEF Bind, Unbind, page
  <2>4. \A i, c : FirstReply(i, c)' <=> FirstReply(i, c)
    BY <1>t, <2>2, ScriptSent
  <2>5. \A c : Unanswered(c) => Unanswered(c)'
    BY <1>k, <1>q, <2>3, <2>4 DEF Unanswered, FirstUnderWay, FirstDropped
  <2>6. FirstOnce'
    BY <1>o, <1>k, <2>3, <2>4 DEF FirstOnce, FirstUnique, FirstUnderWay, FirstDropped
  <2>7. QED
    BY <1>o, <1>r, <2>3, <2>5, <2>6 DEF Stays
<1>2. CASE OnMessage
  <2> DEFINE msg == Head(inbox)
  <2>1. msg \in Message /\ msg = inbox[1] /\ 1 \in DOMAIN inbox
    BY <1>t, <1>2, HeadTail DEF OnMessage, AnswersAtOnce, HandsOver
  <2>2. UNCHANGED <<doc, outcomes, scripts, dropped>>
    BY <1>2 DEF OnMessage, AnswersAtOnce, HandsOver, page
  <2>3. \A i \in DOMAIN inbox' : i \in Nat /\ i >= 1 /\ i + 1 \in DOMAIN inbox /\ inbox'[i] = inbox[i + 1]
    BY <1>t, <1>2, TailShift DEF OnMessage, AnswersAtOnce, HandsOver
  <2>4. /\ \A i \in DOMAIN inbox' : inbox'[i].call # msg.call
        /\ \A i, j \in DOMAIN inbox' : inbox'[i].call = inbox'[j].call => i = j
        /\ \A i \in DOMAIN inbox', job \in jobs : inbox'[i].call # job.call
        /\ \A c : Requested(c)' => Requested(c) /\ c # msg.call
    <3>1. \A i \in DOMAIN inbox' : i + 1 # 1
      BY <2>3
    <3>2. \A i, j \in DOMAIN inbox' : i + 1 = j + 1 => i = j
      BY <2>3
    <3>3. QED
      BY <1>o, <2>1, <2>3, <3>1, <3>2 DEF RequestsOnce, Requested
  <2>5. Unanswered(msg.call) /\ Requested(msg.call) /\ \A job \in jobs : job.call # msg.call
    <3>1. \E c : c = msg.call /\ Requested(c)
      BY <2>1 DEF Requested
    <3>2. QED
      BY <1>o, <2>1, <3>1 DEF RequestsOnce
  <2>6. CASE UNCHANGED <<tasks, jobs>>
    <3>1. \A c : Unanswered(c)' <=> Unanswered(c)
      BY <1>s, <1>k, <1>q, <2>2, <2>6 DEF Unanswered, FirstUnderWay, FirstDropped
    <3>2. RequestsOnce'
      BY <1>o, <2>4, <2>6, <3>1 DEF RequestsOnce, Handed
    <3>3. FirstOnce'
      BY <1>o, <1>s, <1>k, <2>2, <2>6 DEF FirstOnce, FirstUnique, FirstUnderWay, FirstDropped
    <3>4. QED
      BY <1>o, <2>2, <3>2, <3>3 DEF Stays
  <2>7. CASE Resolve(msg.seq, 0, msg.call, 1) /\ UNCHANGED jobs
    <3>1. PICK t \in Posted : t.by = msg.call /\ t.nth = 1 /\ tasks' = Append(tasks, t)
      <4>1. [seq |-> msg.seq, status |-> 0, by |-> msg.call, nth |-> 1] \in Posted
        BY <2>1 DEF Message, Posted, Statuses
      <4>2. QED
        BY <2>7, <4>1 DEF Resolve
    <3>2. \A i, c : FirstTask(i, c)' <=> FirstTask(i, c) \/ (i = Len(tasks) + 1 /\ c = msg.call)
      BY <1>t, <3>1, TaskPosted
    <3>3. \A c : Unanswered(c) /\ c # msg.call => Unanswered(c)'
      BY <1>s, <1>q, <2>2, <3>2 DEF Unanswered, FirstUnderWay, FirstDropped
    <3>4. RequestsOnce'
      BY <1>o, <2>4, <2>5, <2>7, <3>3 DEF RequestsOnce, Handed
    <3>5. FirstOnce'
      BY <1>o, <1>s, <2>2, <2>5, <3>2 DEF FirstOnce, FirstUnique, Unanswered, FirstUnderWay,
         FirstDropped
    <3>6. QED
      BY <1>o, <2>2, <3>4, <3>5 DEF Stays
  <2>8. CASE /\ jobs' = jobs \cup {[seq |-> msg.seq, call |-> msg.call, given |-> 0]}
             /\ UNCHANGED tasks
    <3>1. \A c : Unanswered(c)' <=> Unanswered(c)
      BY <1>s, <1>k, <1>q, <2>2, <2>8 DEF Unanswered, FirstUnderWay, FirstDropped
    <3>2. \A job \in jobs' : job \in jobs \/ job = [seq |-> msg.seq, call |-> msg.call, given |-> 0]
      BY <2>8
    <3>3. /\ \A i \in DOMAIN inbox', job \in jobs' : inbox'[i].call # job.call
          /\ \A job1, job2 \in jobs' : job1.call = job2.call => job1 = job2
      BY <1>o, <2>4, <2>5, <3>2 DEF RequestsOnce
    <3>4. \A c : Handed(c)' => Handed(c) \/ c = msg.call
      BY <3>2 DEF Handed
    <3>5. RequestsOnce'
      BY <1>o, <2>4, <2>5, <3>1, <3>3, <3>4 DEF RequestsOnce
    <3>6. FirstOnce'
      BY <1>o, <1>s, <1>k, <2>2, <2>8 DEF FirstOnce, FirstUnique, FirstUnderWay, FirstDropped
    <3>7. QED
      BY <1>o, <2>2, <3>5, <3>6 DEF Stays
  <2>9. QED
    BY <1>2, <2>6, <2>7, <2>8 DEF OnMessage, AnswersAtOnce, HandsOver
<1>3. ASSUME NEW job \in jobs, Answer(job) \/ AnswerTwice(job)
      PROVE  (Stays /\ RequestsOnce /\ FirstOnce)'
  <2> DEFINE again == [job EXCEPT !.given = @ + 1]
  <2>1. PICK t \in Posted :
          t.by = job.call /\ (t.nth = 1 <=> job.given = 0) /\ tasks' = Append(tasks, t)
    <3>1. PICK status \in Statuses : Resolve(job.seq, status, job.call, job.given + 1)
      BY <1>3 DEF Answer, AnswerTwice
    <3>2. job \in Job
      BY <1>t
    <3>3. /\ [seq |-> job.seq, status |-> status, by |-> job.call, nth |-> job.given + 1] \in Posted
          /\ job.given + 1 = 1 <=> job.given = 0
      BY <3>2 DEF Job, Posted
    <3>4. QED
      BY <3>1, <3>3 DEF Resolve
  <2>2. /\ UNCHANGED <<doc, outcomes, scripts, inbox, dropped>>
        /\ \A j \in jobs' : (j \in jobs /\ j # job) \/ j = again
    BY <1>3 DEF Answer, AnswerTwice, page
  <2>3. /\ again.call = job.call
        /\ again.given # 0
    <3>1. job \in Job
      BY <1>t
    <3>2. QED
      BY <3>1, AnswerCounted DEF Job
  <2> HIDE DEF again
  <2>4. \A j \in jobs' : \/ j \in jobs /\ j.call # job.call
                         \/ j = again
    BY <1>o, <2>2 DEF RequestsOnce
  <2>5. /\ \A i, c : FirstTask(i, c)' <=>
             FirstTask(i, c) \/ (i = Len(tasks) + 1 /\ c = job.call /\ job.given = 0)
    BY <1>t, <2>1, TaskPosted
  <2>6. job.given = 0 => Unanswered(job.call)
    <3>1. job.given = 0 => \E c : c = job.call /\ Handed(c)
      BY DEF Handed
    <3>2. QED
      BY <1>o, <3>1 DEF RequestsOnce
  <2>7. \A c : Unanswered(c) /\ c # job.call => Unanswered(c)'
    BY <1>s, <1>q, <2>2, <2>5 DEF Unanswered, FirstUnderWay, FirstDropped
  <2>8. \A c : Handed(c)' => Handed(c) /\ c # job.call
    BY <2>3, <2>4 DEF Handed
  <2>9. \A c : Requested(c)' => Requested(c) /\ c # job.call
    BY <1>o, <2>2 DEF Requested, RequestsOnce
  <2>10. /\ \A i \in DOMAIN inbox', j \in jobs' : inbox'[i].call # j.call
         /\ \A job1, job2 \in jobs' : job1.call = job2.call => job1 = job2
    <3>1. \A i \in DOMAIN inbox' : /\ inbox'[i].call # job.call
                                  /\ \A j \in jobs : inbox'[i].call # j.call
      BY <1>o, <2>2 DEF RequestsOnce
    <3>2. \A job1, job2 \in jobs : job1.call = job2.call => job1 = job2
      BY <1>o DEF RequestsOnce
    <3>3. QED
      BY <2>3, <2>4, <3>1, <3>2
  <2>11. RequestsOnce'
    BY <1>o, <2>2, <2>7, <2>8, <2>9, <2>10 DEF RequestsOnce
  <2>12. FirstOnce'
    <3>1. \A c : FirstUnderWay(c)' => FirstUnderWay(c) \/ (c = job.call /\ job.given = 0)
      BY <1>s, <2>2, <2>5 DEF FirstUnderWay
    <3>2. \A c : FirstUnderWay(c)' => ~FirstDropped(c)'
      BY <1>o, <2>2, <2>6, <3>1 DEF FirstOnce, FirstUnique, Unanswered, FirstDropped
    <3>3. job.given = 0 => \A i : ~FirstTask(i, job.call) /\ ~FirstReply(i, job.call)
      BY <2>6 DEF Unanswered, FirstUnderWay
    <3>4. QED
      BY <1>o, <1>s, <2>2, <2>5, <3>2, <3>3 DEF FirstOnce, FirstUnique
  <2>13. QED
    BY <1>o, <2>2, <2>11, <2>12 DEF Stays
<1>4. CASE RunTask
  <2>1. PICK js \in Script : /\ js.op \in {"resolve", "reject"} /\ js.by = Head(tasks).by
                             /\ js.nth = Head(tasks).nth
                             /\ scripts' = Append(scripts, js)
    <3>1. Head(tasks) \in Posted
      BY <1>t, <1>4, HeadTail DEF RunTask
    <3>2. [op |-> IF Head(tasks).status = 0 THEN "resolve" ELSE "reject",
           seq |-> Head(tasks).seq, by |-> Head(tasks).by, nth |-> Head(tasks).nth] \in Script
      BY <3>1 DEF Posted, Script, ReplyScript
    <3>3. QED
      BY <1>4, <3>2 DEF RunTask
  <2>2. UNCHANGED <<doc, outcomes, inbox, jobs, dropped>> /\ tasks # << >> /\ tasks' = Tail(tasks)
    BY <1>4 DEF RunTask, page
  <2>3. \A i, c : FirstTask(i, c)' => i \in Nat /\ i >= 1 /\ FirstTask(i + 1, c)
    BY <1>t, <2>2, TaskTaken
  <2>4. \A i, c : FirstReply(i, c)' <=>
          FirstReply(i, c) \/ (i = Len(scripts) + 1 /\ FirstTask(1, c))
    BY <1>t, <2>1, <2>2, TaskTaken, ScriptSent
  <2>5. \A c : Unanswered(c) => Unanswered(c)'
    BY <1>q, <2>2, <2>3, <2>4 DEF Unanswered, FirstUnderWay, FirstDropped
  <2>6. \A i, j, c : FirstTask(i, c)' /\ FirstTask(j, c)' => i = j
    <3>1. \A i, j : i \in Nat /\ j \in Nat /\ i + 1 = j + 1 => i = j
      OBVIOUS
    <3>2. QED
      BY <1>o, <2>3, <3>1 DEF FirstOnce, FirstUnique
  <2>7. \A i, c : ~(FirstTask(i, c)' /\ FirstTask(1, c))
    <3>1. \A i : i \in Nat /\ i >= 1 => i + 1 # 1
      OBVIOUS
    <3>2. QED
      BY <1>o, <2>3, <3>1 DEF FirstOnce, FirstUnique
  <2>8. FirstOnce'
    <3>1. \A c : FirstUnderWay(c)' => FirstUnderWay(c)
      BY <2>3, <2>4 DEF FirstUnderWay
    <3>2. \A c : FirstUnderWay(c)' => ~FirstDropped(c)'
      BY <1>o, <2>2, <3>1 DEF FirstOnce, FirstUnique, FirstDropped
    <3>3. QED
      BY <1>o, <2>3, <2>4, <2>6, <2>7, <3>2 DEF FirstOnce, FirstUnique
  <2>9. QED
    BY <1>o, <1>r, <2>2, <2>5, <2>8 DEF Stays
<1>5. CASE RunScript
  <2> DEFINE js == Head(scripts)
  <2>1. UNCHANGED <<doc, inbox, tasks, jobs, dropped>> /\ scripts # << >> /\ scripts' = Tail(scripts)
    BY <1>5 DEF RunScript, native
  <2>2. \A i, c : FirstReply(i, c)' => i \in Nat /\ i >= 1 /\ FirstReply(i + 1, c)
    BY <1>t, <2>1, ScriptTaken
  <2>3. \A c : Settled(c)' => Settled(c) \/ FirstReply(1, c) \/ FirstDropped(c)
    <3>1. CASE UNCHANGED outcomes
      BY <1>q, <3>1
    <3>2. CASE js.op \in {"resolve", "reject"} /\ js.seq \in DOMAIN rpc
      <4>1. rpc[js.seq] = js.by /\ (FirstReply(1, js.by) \/ FirstDropped(js.by))
        BY <1>o, <2>1, <3>2, SettlesOwn
      <4>2. \A o \in outcomes' : o \in outcomes \/ o.call = js.by
        BY <1>5, <3>2, <4>1 DEF RunScript, RunReply
      <4>3. QED
        BY <4>1, <4>2 DEF Settled
    <3>3. QED
      BY <1>5, <3>1, <3>2 DEF RunScript, RunBind, RunUnbind, RunReply
  <2>4. \A c : Unanswered(c) => Unanswered(c)'
    BY <1>k, <2>1, <2>2, <2>3 DEF Unanswered, FirstUnderWay, FirstDropped
  <2>5. \A i, j, c : FirstReply(i, c)' /\ FirstReply(j, c)' => i = j
    <3>1. \A i, j : i \in Nat /\ j \in Nat /\ i + 1 = j + 1 => i = j
      OBVIOUS
    <3>2. QED
      BY <1>o, <2>2, <3>1 DEF FirstOnce, FirstUnique
  <2>6. FirstOnce'
    <3>1. \A c : FirstUnderWay(c)' => FirstUnderWay(c)
      BY <1>k, <2>1, <2>2 DEF FirstUnderWay
    <3>2. \A c : FirstUnderWay(c)' => ~FirstDropped(c)'
      BY <1>o, <2>1, <3>1 DEF FirstOnce, FirstUnique, FirstDropped
    <3>3. QED
      BY <1>o, <1>k, <2>1, <2>2, <2>5, <3>2 DEF FirstOnce, FirstUnique
  <2>7. QED
    BY <1>o, <1>r, <2>1, <2>4, <2>6 DEF Stays
<1>6. ASSUME NEW n \in Names, NEW sent \in BOOLEAN, Call(n, sent)
      PROVE  (Stays /\ RequestsOnce /\ FirstOnce)'
  <2> DEFINE new == Len(calls) + 1
             msg == [seq |-> nextSeq, name |-> n, call |-> new]
  <2>1. UNCHANGED <<doc, outcomes, scripts, tasks, jobs, dropped>>
    BY <1>6 DEF Call, native
  <2>2. \A c : Unanswered(c)' <=> Unanswered(c)
    BY <1>s, <1>k, <1>q, <2>1 DEF Unanswered, FirstUnderWay, FirstDropped
  <2>3. new \notin DOMAIN calls
    BY <1>t
  <2>4. /\ \A i \in DOMAIN inbox : inbox[i].call # new
        /\ \A job \in jobs : job.call # new
        /\ Unanswered(new)
    BY <1>o, <2>3, CarriersKnown DEF Unanswered, FirstUnderWay, FirstDropped, DroppedKnown, Settled
  <2>5. /\ \A i \in DOMAIN inbox' : \/ i \in DOMAIN inbox /\ inbox'[i] = inbox[i]
                                    \/ i = Len(inbox) + 1 /\ inbox'[i] = msg
    <3>1. msg \in Message
      BY <1>t, <1>o DEF Message, MatchInv, TypeOK
    <3>2. inbox' = inbox \/ inbox' = Append(inbox, msg)
      BY <1>6 DEF Call
    <3>3. QED
      BY <1>t, <3>1, <3>2, Appended
  <2>6. msg.call = new
    OBVIOUS
  <2> HIDE DEF new, msg
  <2>7. \A c : Requested(c)' => Requested(c) \/ c = new
    BY <2>5, <2>6 DEF Requested
  <2>8. /\ \A i, j \in DOMAIN inbox' : inbox'[i].call = inbox'[j].call => i = j
        /\ \A i \in DOMAIN inbox', job \in jobs' : inbox'[i].call # job.call
    BY <1>o, <2>1, <2>4, <2>5, <2>6 DEF RequestsOnce
  <2>9. \A c : Handed(c)' => Handed(c)
    BY <2>1 DEF Handed
  <2>10. RequestsOnce'
    BY <1>o, <2>1, <2>2, <2>4, <2>7, <2>8, <2>9 DEF RequestsOnce
  <2>11. FirstOnce'
    BY <1>o, <1>s, <1>k, <2>1 DEF FirstOnce, FirstUnique, FirstUnderWay, FirstDropped
  <2>12. QED
    BY <1>o, <2>1, <2>10, <2>11 DEF Stays
<1>7. ~Load
  BY <1>o DEF Load, FreshPage, Stays
<1>8. CASE UNCHANGED vars
  <2>1. UNCHANGED <<doc, outcomes, scripts, tasks, jobs, inbox, dropped>>
    BY <1>8 DEF vars, native, page
  <2>2. \A c : Unanswered(c)' <=> Unanswered(c)
    BY <1>s, <1>k, <1>q, <2>1 DEF Unanswered, FirstUnderWay, FirstDropped
  <2>3. FirstOnce'
    BY <1>o, <1>s, <1>k, <2>1 DEF FirstOnce, FirstUnique, FirstUnderWay, FirstDropped
  <2>4. QED
    BY <1>o, <1>r, <2>1, <2>2, <2>3 DEF Stays
<1>9. CASE DropTask
  <2>1. /\ UNCHANGED <<doc, outcomes, inbox, jobs, scripts>> /\ tasks # << >> /\ tasks' = Tail(tasks)
        /\ dropped' = dropped \cup {<<Head(tasks).by, Head(tasks).nth>>}
    BY <1>9 DEF DropTask, page
  <2>2. \A i, c : FirstTask(i, c)' => i \in Nat /\ i >= 1 /\ FirstTask(i + 1, c)
    BY <1>t, <2>1, TaskTaken
  <2>3. \A c : FirstDropped(c)' => FirstDropped(c) \/ FirstTask(1, c)
    BY <1>t, <2>1, TaskTaken DEF FirstDropped
  <2>4. \A c : Unanswered(c) => Unanswered(c)'
    BY <1>s, <1>q, <2>1, <2>2, <2>3 DEF Unanswered, FirstUnderWay
  <2>5. \A i, j, c : FirstTask(i, c)' /\ FirstTask(j, c)' => i = j
    <3>1. \A i, j : i \in Nat /\ j \in Nat /\ i + 1 = j + 1 => i = j
      OBVIOUS
    <3>2. QED
      BY <1>o, <2>2, <3>1 DEF FirstOnce, FirstUnique
  <2>6. \A i, c : ~(FirstTask(i, c)' /\ FirstTask(1, c))
    <3>1. \A i : i \in Nat /\ i >= 1 => i + 1 # 1
      OBVIOUS
    <3>2. QED
      BY <1>o, <2>2, <3>1 DEF FirstOnce, FirstUnique
  <2>7. FirstOnce'
    BY <1>o, <1>s, <2>1, <2>2, <2>3, <2>5, <2>6 DEF FirstOnce, FirstUnique, FirstUnderWay
  <2>8. QED
    BY <1>o, <1>r, <2>1, <2>4, <2>7 DEF Stays
<1>10. QED
  BY <1>1, <1>2, <1>3, <1>4, <1>5, <1>6, <1>7, <1>8, <1>9 DEF Next

\* Only answers to calls are dropped.
LEMMA DroppedStep ==
  ASSUME MatchInv, DroppedKnown, [Next]_vars
  PROVE  DroppedKnown'
<1>1. \A c : c \in DOMAIN calls => c \in DOMAIN calls'
  <2>1. CASE UNCHANGED calls
    BY <2>1
  <2>2. ASSUME NEW n \in Names, NEW sent \in BOOLEAN, Call(n, sent)
        PROVE  \A c : c \in DOMAIN calls => c \in DOMAIN calls'
    <3>1. [page |-> doc, seq |-> nextSeq, name |-> n, sent |-> sent] \in CallRecord
      BY DEF MatchInv, TypeOK, CallRecord
    <3>2. QED
      BY <2>2, <3>1, Appended DEF Call, MatchInv, TypeOK
  <2>3. QED
    BY <2>1, <2>2 DEF Next, vars, Bind, Unbind, OnMessage, AnswersAtOnce, HandsOver, Answer,
       AnswerTwice, RunTask, DropTask, RunScript, Load, FreshPage, page
<1>2. CASE DropTask
  <2>1. Head(tasks) = tasks[1] /\ 1 \in DOMAIN tasks
    BY <1>2, HeadTail DEF DropTask, MatchInv, TypeOK
  <2>2. Head(tasks).by \in DOMAIN calls
    BY <2>1 DEF MatchInv, CarriersExact, TasksExact, Carries
  <2>3. QED
    BY <1>1, <1>2, <2>2 DEF DropTask, DroppedKnown, FirstDropped
<1>3. CASE UNCHANGED dropped
  BY <1>1, <1>3 DEF DroppedKnown, FirstDropped
<1>4. QED
  BY <1>2, <1>3 DEF Next, vars, native, Bind, Unbind, OnMessage, AnswersAtOnce, HandsOver, Answer,
     AnswerTwice, RunTask, RunScript, Call, Load, FreshPage
-----------------------------------------------------------------------------
\* The records of the table, and the answer a promise has got.
LEMMA TableRecords ==
  /\ DOMAIN Promises = DOMAIN calls /\ Promises = [c \in DOMAIN calls |-> Promises[c]]
  /\ \A c \in DOMAIN calls :
       Promises[c] = [name |-> calls[c].name, answer |-> AnswerTo(c), settled |-> Settled(c)]
BY DEF Promises

\* The same in the next state.
LEMMA TableRecordsNext ==
  /\ DOMAIN Promises' = DOMAIN calls' /\ Promises' = [c \in DOMAIN calls' |-> Promises'[c]]
  /\ \A c \in DOMAIN calls' :
       Promises'[c] = [name |-> calls'[c].name, answer |-> AnswerTo(c)', settled |-> Settled(c)']
BY DEF Promises

\* A promise without an answer that counts has none.
LEMMA AnswerNone ==
  ASSUME NEW c, Answers(c) = {}
  PROVE  AnswerTo(c) = "none"
BY DEF AnswerTo

\* A promise with one answer that counts has that one.
LEMMA AnswerOne ==
  ASSUME NEW c, NEW op, Answers(c) = {op}
  PROVE  AnswerTo(c) = op
<1>1. (CHOOSE x \in {op} : TRUE) = op
  OBVIOUS
<1>2. QED
  BY <1>1 DEF AnswerTo

\* The same about the next state.
LEMMA AnswerNext ==
  ASSUME NEW c, NEW op, Answers(c)' = {op}
  PROVE  AnswerTo(c)' = op
<1>1. (CHOOSE x \in {op} : TRUE) = op
  OBVIOUS
<1>2. QED
  BY <1>1 DEF AnswerTo

\* A call keeps its answer as long as neither the first answers under way nor the
\* outcomes change for it, and once it is settled.
LEMMA AnswerKept ==
  ASSUME NEW c, Settled(c)' <=> Settled(c), Settlements(c)' = Settlements(c),
         ~Settled(c) => FirstAnswers(c)' = FirstAnswers(c)
  PROVE  AnswerTo(c)' = AnswerTo(c)
<1>1. Answers(c)' = Answers(c)
  BY DEF Answers
<1>2. QED
  BY <1>1 DEF AnswerTo

\* Outcomes that stay keep what is settled.
LEMMA SameOutcomes ==
  ASSUME UNCHANGED outcomes
  PROVE  \A c : (Settled(c)' <=> Settled(c)) /\ Settlements(c)' = Settlements(c)
BY DEF Settled, Settlements

\* The table stays as it is.
LEMMA TableKept ==
  ASSUME UNCHANGED calls, \A c \in DOMAIN calls : AnswerTo(c)' = AnswerTo(c) /\ (Settled(c)' <=> Settled(c))
  PROVE  UNCHANGED Promises
<1>1. \A c \in DOMAIN calls : Settled(c)' = Settled(c)
  BY Zenon DEF Settled
<1>2. \A c \in DOMAIN calls : Promises'[c] = Promises[c]
  BY <1>1, TableRecords, TableRecordsNext
<1>3. QED
  BY <1>2, TableRecords, TableRecordsNext

\* The table stays if outcomes and first answers do.
LEMMA SameFirstAnswers ==
  ASSUME UNCHANGED <<calls, outcomes, dropped>>, \A c : FirstAnswers(c)' = FirstAnswers(c)
  PROVE  UNCHANGED Promises
BY AnswerKept, SameOutcomes, TableKept

\* The first answer to a request is given.
LEMMA FirstGiven ==
  ASSUME OnceInv, UNCHANGED <<calls, outcomes, scripts, dropped>>,
         NEW t \in Posted, tasks' = Append(tasks, t), t.nth = 1,
         t.by \in DOMAIN calls, Unanswered(t.by),
         t.status # 0 => calls[t.by].name \notin SyncNames
  PROVE  Table!Next
<1> DEFINE op == IF t.status = 0 THEN "resolve" ELSE "reject"
           d == t.by
<1>0. tasks \in Seq(Posted)
  BY DEF OnceInv, MatchInv, TypeOK
<1>1. \A i, c : FirstReply(i, c)' <=> FirstReply(i, c)
  BY DEF FirstReply, NthReply, ReplyTo
<1>2. /\ \A i, c : FirstTask(i, c)' <=> FirstTask(i, c) \/ (i = Len(tasks) + 1 /\ c = d)
      /\ \A i, c : FirstTask(i, c) => i # Len(tasks) + 1 /\ TaskOp(i)' = TaskOp(i)
      /\ \A i : i = Len(tasks) + 1 => TaskOp(i)' = op
  BY <1>0, TaskPosted
<1> HIDE DEF op, d
<1>3. \A c : c # d => FirstAnswers(c)' = FirstAnswers(c)
  <2> SUFFICES ASSUME NEW c, c # d PROVE FirstAnswers(c)' = FirstAnswers(c)
    OBVIOUS
  <2>1. FirstDropped(c)' <=> FirstDropped(c)
    BY DEF FirstDropped
  <2>2. \A x : x \in FirstAnswers(c)' <=> x \in FirstAnswers(c)
    BY <1>1, <1>2, <2>1, FirstAnswersAre, FirstAnswersAreNext
  <2>3. QED
    BY <2>2
<1>4. /\ d \in DOMAIN calls /\ ~Settled(d)
      /\ \A i : ~FirstTask(i, d) /\ ~FirstReply(i, d)
      /\ ~FirstDropped(d) /\ ~FirstDropped(d)'
  BY DEF Unanswered, FirstUnderWay, FirstDropped, d
<1>5. FirstAnswers(d) = {}
  BY <1>4, FirstAnswersAre
<1>6. FirstAnswers(d)' = {op}
  <2>1. \E i : i = Len(tasks) + 1 /\ FirstTask(i, d)' /\ TaskOp(i)' = op
    BY <1>2
  <2>2. \A i : FirstTask(i, d)' => TaskOp(i)' = op
    BY <1>2, <1>4
  <2>3. \A i : ~FirstReply(i, d)'
    BY <1>1, <1>4
  <2>4. \A x : x \in FirstAnswers(d)' <=> x = op
    BY <1>4, <2>1, <2>2, <2>3, FirstAnswersAreNext
  <2>5. QED
    BY <2>4
<1>7. AnswerTo(d) = "none" /\ AnswerTo(d)' = op
  <2>1. Answers(d) = {} /\ Answers(d)' = {op}
    BY <1>4, <1>5, <1>6, SameOutcomes DEF Answers
  <2>2. QED
    BY <2>1, AnswerNone, AnswerNext
<1>8. \A c \in DOMAIN calls : /\ c # d => AnswerTo(c)' = AnswerTo(c)
                              /\ Settled(c)' = Settled(c)
  <2>1. \A c : Settled(c)' = Settled(c)
    BY Zenon, SameOutcomes DEF Settled
  <2>2. QED
    BY <1>3, <2>1, SameOutcomes, AnswerKept
<1>9. Promises' = [Promises EXCEPT ![d].answer = op]
  <2>1. \A c \in DOMAIN calls : c # d => Promises'[c] = Promises[c]
    BY <1>8, TableRecords, TableRecordsNext
  <2>2. Promises'[d] = [Promises[d] EXCEPT !.answer = op]
    BY <1>4, <1>7, <1>8, TableRecords, TableRecordsNext
  <2>3. QED
    BY <1>4, <2>1, <2>2, TableRecords, TableRecordsNext
<1>10. Promises[d].answer = "none" /\ Promises[d].name = calls[d].name /\ d \in DOMAIN Promises
  BY <1>4, <1>7, TableRecords
<1>11. op \in {"resolve", "reject"} /\ (op = "reject" => calls[d].name \notin SyncNames)
  BY DEF op, d
<1>12. Table!Give(d, op)
  BY <1>9, <1>10, <1>11 DEF Table!Give
<1>13. QED
  BY <1>10, <1>11, <1>12 DEF Table!Next

\* What the page takes from the queue is the first answer to no other call.
LEMMA ScriptGone ==
  ASSUME scripts \in Seq(Script), scripts # << >>, scripts' = Tail(scripts),
         UNCHANGED <<tasks, dropped>>,
         NEW c, ~FirstReply(1, c)
  PROVE  FirstAnswers(c)' = FirstAnswers(c)
<1>1. \A i : FirstReply(i, c)' => FirstReply(i + 1, c) /\ scripts'[i] = scripts[i + 1]
  BY ScriptTaken
<1>2. \A i : FirstReply(i, c) => FirstReply(i - 1, c)' /\ scripts'[i - 1] = scripts[i]
  BY ScriptTaken
<1>3. \A i : (FirstTask(i, c)' <=> FirstTask(i, c)) /\ TaskOp(i)' = TaskOp(i)
  BY DEF FirstTask, NthTask, TaskOp
<1>4. ASSUME NEW x PROVE x \in FirstAnswers(c)' <=> x \in FirstAnswers(c)
  <2>1. (\E i : FirstReply(i, c)' /\ x = scripts'[i].op)
           <=> (\E i : FirstReply(i, c) /\ x = scripts[i].op)
    BY <1>1, <1>2
  <2>2. (\E i : FirstTask(i, c)' /\ x = TaskOp(i)') <=> (\E i : FirstTask(i, c) /\ x = TaskOp(i))
    BY <1>3
  <2>3. x \in FirstAnswers(c)' <=>
          \/ \E i : FirstReply(i, c)' /\ x = scripts'[i].op
          \/ \E i : FirstTask(i, c)' /\ x = TaskOp(i)'
          \/ FirstDropped(c)' /\ x = "lost"
    BY FirstAnswersAreNext
  <2>4. x \in FirstAnswers(c) <=>
          \/ \E i : FirstReply(i, c) /\ x = scripts[i].op
          \/ \E i : FirstTask(i, c) /\ x = TaskOp(i)
          \/ FirstDropped(c) /\ x = "lost"
    BY FirstAnswersAre
  <2>5. FirstDropped(c)' <=> FirstDropped(c)
    BY DEF FirstDropped
  <2>6. QED
    BY <2>1, <2>2, <2>3, <2>4, <2>5
<1>5. QED
  BY <1>4

\* The page settles a promise with its first answer, or with a later one if the
\* first was dropped.
LEMMA FirstSettles ==
  ASSUME OnceInv, RunScript, Head(scripts).op \in {"resolve", "reject"},
         Head(scripts).seq \in DOMAIN rpc
  PROVE  Table!Next
<1>0. PICK js, d, was : /\ js = Head(scripts) /\ d = js.by
                       /\ was = IF FirstDropped(d) THEN "lost" ELSE js.op
  OBVIOUS
<1>t. scripts \in Seq(Script) /\ scripts # << >> /\ scripts' = Tail(scripts)
      /\ UNCHANGED <<tasks, calls, dropped>>
  BY DEF OnceInv, MatchInv, TypeOK, RunScript, native
<1>1. /\ rpc[js.seq] = d /\ d \in DOMAIN calls /\ ~Settled(d)
      /\ FirstReply(1, d) \/ FirstDropped(d)
  BY <1>0, <1>t, SettlesOwn DEF OnceInv
<1>2. outcomes' = outcomes \cup {[call |-> d, by |-> d, op |-> js.op, nth |-> js.nth]}
  BY <1>0, <1>1 DEF RunScript, RunReply
<1>3. scripts[1].op = js.op /\ \A c : FirstReply(1, c) => c = d
  BY <1>0, <1>t, HeadTail, ScriptTaken
<1>4. FirstAnswers(d) = {was}
  <2>1. CASE ~FirstDropped(d)
    <3>1. /\ FirstReply(1, d) /\ \A i : FirstReply(i, d) => i = 1
          /\ \A i : ~FirstTask(i, d)
      BY <1>1, <2>1 DEF OnceInv, FirstOnce, FirstUnique
    <3>2. \A x : x \in FirstAnswers(d) <=> x = was
      BY <1>0, <1>3, <2>1, <3>1, FirstAnswersAre
    <3>3. QED
      BY <3>2
  <2>2. CASE FirstDropped(d)
    <3>1. \A i : ~FirstReply(i, d) /\ ~FirstTask(i, d)
      BY <2>2 DEF OnceInv, FirstOnce, FirstUnique, FirstUnderWay
    <3>2. \A x : x \in FirstAnswers(d) <=> x = was
      BY <1>0, <2>2, <3>1, FirstAnswersAre
    <3>3. QED
      BY <3>2
  <2>3. QED
    BY <2>1, <2>2
<1>5. Settled(d)' /\ Settlements(d)' = {js.op}
  <2>1. \A o \in outcomes : o.call # d
    BY <1>1 DEF Settled
  <2>2. \A o : o \in outcomes' /\ o.call = d <=>
               o = [call |-> d, by |-> d, op |-> js.op, nth |-> js.nth]
    BY <1>2, <2>1
  <2>3. PICK o \in outcomes' : o.call = d /\ o.op = js.op
    <3>1. \E o : o = [call |-> d, by |-> d, op |-> js.op, nth |-> js.nth]
      OBVIOUS
    <3>2. QED
      BY <1>2, <3>1
  <2>4. Settled(d)'
    BY <2>3 DEF Settled
  <2>5. ASSUME NEW x PROVE x \in Settlements(d)' <=> x = js.op
    <3>1. x \in Settlements(d)' <=> \E p \in outcomes' : p.call = d /\ x = p.op
      BY DEF Settlements
    <3>2. \A p : p \in outcomes' /\ p.call = d => p.op = js.op
      BY <2>2
    <3>3. QED
      BY <2>3, <3>1, <3>2
  <2>6. QED
    BY <2>4, <2>5
<1>6. ASSUME NEW c, c # d
      PROVE  AnswerTo(c)' = AnswerTo(c) /\ (Settled(c)' <=> Settled(c))
  <2>1. \A o : o \in outcomes' /\ o.call = c <=> o \in outcomes /\ o.call = c
    BY <1>2, <1>6
  <2>2. Settled(c)' <=> Settled(c)
    BY <2>1 DEF Settled
  <2>3. Settlements(c)' = Settlements(c)
    BY <2>1 DEF Settlements
  <2>4. FirstAnswers(c)' = FirstAnswers(c)
    BY <1>t, <1>3, <1>6, ScriptGone
  <2>5. QED
    BY <2>2, <2>3, <2>4, AnswerKept
<1>7. AnswerTo(d) = was /\ AnswerTo(d)' = js.op
  <2>1. Answers(d) = {was}
    BY <1>1, <1>4 DEF Answers
  <2>2. Answers(d)' = {js.op}
    BY <1>5 DEF Answers
  <2>3. QED
    BY <2>1, <2>2, AnswerOne, AnswerNext
<1>8. \A c \in DOMAIN calls : c # d => Promises'[c] = Promises[c]
  <2> SUFFICES ASSUME NEW c \in DOMAIN calls, c # d PROVE Promises'[c] = Promises[c]
    OBVIOUS
  <2>1. AnswerTo(c)' = AnswerTo(c) /\ (Settled(c)' <=> Settled(c))
    BY <1>6
  <2>2. Settled(c)' = Settled(c)
    BY <2>1, Zenon DEF Settled
  <2>3. QED
    BY <1>t, <2>1, <2>2, TableRecords, TableRecordsNext
<1>9. Promises[d] = [name |-> calls[d].name, answer |-> was, settled |-> FALSE]
  <2>1. Settled(d) = FALSE
    BY <1>1
  <2>2. QED
    BY <1>1, <1>7, <2>1, TableRecords
<1>10. Promises'[d] = [name |-> calls[d].name, answer |-> js.op, settled |-> TRUE]
  <2>1. Settled(d)' = TRUE
    BY <1>5, Zenon DEF Settled
  <2>2. QED
    BY <1>t, <1>1, <1>7, <2>1, TableRecordsNext
<1>11. d \in DOMAIN Promises /\ js.op \in {"resolve", "reject"}
  BY <1>0, <1>1, TableRecords
<1>12. CASE ~FirstDropped(d)
  <2>1. was = js.op
    BY <1>0, <1>12
  <2>2. Promises' = [Promises EXCEPT ![d].settled = TRUE]
    BY <1>t, <1>1, <1>8, <1>9, <1>10, <2>1, TableRecords, TableRecordsNext
  <2>3. Table!Answered(d)
    BY <1>9, <1>11, <2>1 DEF Table!Answered
  <2>4. Table!Settle(d)
    BY <1>11, <2>2, <2>3 DEF Table!Settle
  <2>5. QED
    BY <1>11, <2>4 DEF Table!Next
<1>13. CASE FirstDropped(d)
  <2>1. was = "lost"
    BY <1>0, <1>13
  <2>2. Promises' = [Promises EXCEPT ![d] =
                       [name |-> Promises[d].name, answer |-> js.op, settled |-> TRUE]]
    <3>1. Promises[d].name = calls[d].name
      BY <1>9
    <3>2. QED
      BY <1>t, <1>1, <1>8, <1>10, <3>1, TableRecords, TableRecordsNext
  <2>3. js.op = "reject" => calls[d].name \notin SyncNames
    <3>1. js = scripts[1] /\ 1 \in DOMAIN scripts
      BY <1>0, <1>t, HeadTail
    <3>2. QED
      BY <1>0, <3>1 DEF OnceInv, MatchInv, CarriersExact, ScriptsExact, MayReject
  <2>4. Table!SettleLate(d, js.op)
    BY <1>9, <2>1, <2>2, <2>3 DEF Table!SettleLate
  <2>5. QED
    BY <1>11, <2>4 DEF Table!Next
<1>14. QED
  BY <1>12, <1>13

\* A loop drops an answer: the table loses the one that counts, or nothing.
LEMMA AnswerLost ==
  ASSUME OnceInv, DropTask
  PROVE  [Table!Next]_Promises
<1>0. PICK t, d : t = Head(tasks) /\ d = t.by
  OBVIOUS
<1>t. /\ tasks \in Seq(Posted) /\ tasks # << >> /\ tasks' = Tail(tasks)
      /\ dropped' = dropped \cup {<<t.by, t.nth>>} /\ UNCHANGED <<calls, outcomes, scripts>>
  BY <1>0 DEF OnceInv, MatchInv, TypeOK, DropTask, page
<1>1. /\ \A i, c : FirstTask(i, c)' => /\ i \in Nat /\ i >= 1 /\ FirstTask(i + 1, c)
                                       /\ TaskOp(i)' = TaskOp(i + 1)
      /\ \A i, c : FirstTask(i, c) => i = 1 \/ (FirstTask(i - 1, c)' /\ TaskOp(i - 1)' = TaskOp(i))
      /\ \A c : FirstTask(1, c) <=> c = d /\ t.nth = 1
  BY <1>0, <1>t, TaskTaken
<1>2. \A i, c : (FirstReply(i, c)' <=> FirstReply(i, c)) /\ scripts'[i].op = scripts[i].op
  BY <1>t DEF FirstReply, NthReply, ReplyTo
<1>3. \A c : FirstDropped(c)' <=> FirstDropped(c) \/ FirstTask(1, c)
  BY <1>0, <1>t, <1>1 DEF FirstDropped
<1>4. ASSUME NEW c, ~FirstTask(1, c) PROVE FirstAnswers(c)' = FirstAnswers(c)
  <2>1. ASSUME NEW x PROVE x \in FirstAnswers(c)' <=> x \in FirstAnswers(c)
    <3>1. (\E i : FirstTask(i, c)' /\ x = TaskOp(i)') <=> (\E i : FirstTask(i, c) /\ x = TaskOp(i))
      BY <1>1, <1>4
    <3>2. (\E i : FirstReply(i, c)' /\ x = scripts'[i].op)
             <=> (\E i : FirstReply(i, c) /\ x = scripts[i].op)
      BY <1>2
    <3>3. FirstDropped(c)' <=> FirstDropped(c)
      BY <1>3, <1>4
    <3>4. x \in FirstAnswers(c)' <=>
            \/ \E i : FirstReply(i, c)' /\ x = scripts'[i].op
            \/ \E i : FirstTask(i, c)' /\ x = TaskOp(i)'
            \/ FirstDropped(c)' /\ x = "lost"
      BY FirstAnswersAreNext
    <3>5. x \in FirstAnswers(c) <=>
            \/ \E i : FirstReply(i, c) /\ x = scripts[i].op
            \/ \E i : FirstTask(i, c) /\ x = TaskOp(i)
            \/ FirstDropped(c) /\ x = "lost"
      BY FirstAnswersAre
    <3>6. QED
      BY <3>1, <3>2, <3>3, <3>4, <3>5
  <2>2. QED
    BY <2>1
<1>5. \A c : Settled(c)' = Settled(c)
  BY <1>t, Zenon DEF Settled
<1>6. \A c : Settled(c) \/ ~FirstTask(1, c) => AnswerTo(c)' = AnswerTo(c)
  BY <1>t, <1>4, SameOutcomes, AnswerKept
<1>7. CASE \A c : Settled(c) \/ ~FirstTask(1, c)
  <2>1. UNCHANGED Promises
    BY <1>t, <1>5, <1>6, <1>7, TableKept
  <2>2. QED
    BY <2>1
<1>8. CASE ~Settled(d) /\ FirstTask(1, d)
  <2>0. PICK op : op = TaskOp(1)
    OBVIOUS
  <2>1. d \in DOMAIN calls /\ op \in {"resolve", "reject"}
    BY <1>8, <2>0, CarriersKnown DEF OnceInv, TaskOp
  <2>2. FirstAnswers(d) = {op}
    <3>1. /\ \A i : FirstTask(i, d) => i = 1
          /\ \A i : ~FirstReply(i, d)
          /\ ~FirstDropped(d)
      BY <1>8 DEF OnceInv, FirstOnce, FirstUnique, FirstUnderWay
    <3>2. \A x : x \in FirstAnswers(d) <=> x = op
      BY <1>8, <2>0, <3>1, FirstAnswersAre
    <3>3. QED
      BY <3>2
  <2>3. FirstAnswers(d)' = {"lost"}
    <3>1. /\ \A i : FirstTask(i, d) => i = 1
          /\ \A i : ~FirstReply(i, d)
      BY <1>8 DEF OnceInv, FirstOnce, FirstUnique
    <3>2. \A i : i \in Nat /\ i >= 1 => i + 1 # 1
      OBVIOUS
    <3>3. \A i : ~FirstTask(i, d)' /\ ~FirstReply(i, d)'
      BY <1>1, <1>2, <3>1, <3>2
    <3>4. \A x : x \in FirstAnswers(d)' <=> x = "lost"
      BY <1>3, <1>8, <3>3, FirstAnswersAreNext
    <3>5. QED
      BY <3>4
  <2>4. AnswerTo(d) = op /\ AnswerTo(d)' = "lost"
    <3>1. Answers(d) = {op} /\ Answers(d)' = {"lost"}
      BY <1>5, <1>8, <2>2, <2>3 DEF Answers
    <3>2. QED
      BY <3>1, AnswerOne, AnswerNext
  <2>5. \A c \in DOMAIN calls : c # d => Promises'[c] = Promises[c]
    BY <1>t, <1>1, <1>5, <1>6, TableRecords, TableRecordsNext
  <2>6. /\ Promises[d] = [name |-> calls[d].name, answer |-> op, settled |-> FALSE]
        /\ Promises'[d] = [name |-> calls[d].name, answer |-> "lost", settled |-> FALSE]
    <3>1. Settled(d) = FALSE /\ Settled(d)' = FALSE
      BY <1>5, <1>8
    <3>2. QED
      BY <1>t, <2>1, <2>4, <3>1, TableRecords, TableRecordsNext
  <2>7. Promises' = [Promises EXCEPT ![d].answer = "lost"]
    <3>1. Promises'[d] = [Promises[d] EXCEPT !.answer = "lost"]
      BY <1>t, <1>5, <2>1, <2>4, TableRecords, TableRecordsNext
    <3>2. QED
      BY <1>t, <2>1, <2>5, <3>1, TableRecords, TableRecordsNext
  <2>8. d \in DOMAIN Promises /\ Table!Answered(d) /\ Lossy
    BY <2>1, <2>6, TableRecords DEF Table!Answered, DropTask
  <2>9. Table!Lose(d)
    BY <2>7, <2>8 DEF Table!Lose
  <2>10. QED
    BY <2>8, <2>9 DEF Table!Next
<1>9. QED
  BY <1>1, <1>7, <1>8
-----------------------------------------------------------------------------
\* Every step of the engine is one of the table, or leaves the table as it is.
LEMMA TableStep ==
  ASSUME MaxLoads = 0, OnceInv, [Next]_vars
  PROVE  [Table!Next]_Promises
<1>t. /\ tasks \in Seq(Posted) /\ scripts \in Seq(Script) /\ inbox \in Seq(Message)
      /\ calls \in Seq(CallRecord) /\ jobs \in SUBSET Job
  BY DEF OnceInv, MatchInv, TypeOK
<1>o. MatchInv /\ OrderInv /\ Stays /\ RequestsOnce /\ FirstOnce /\ DroppedKnown
  BY DEF OnceInv
<1>s. ASSUME UNCHANGED scripts
      PROVE  \A i, c : (FirstReply(i, c)' <=> FirstReply(i, c)) /\ scripts'[i].op = scripts[i].op
  BY <1>s DEF FirstReply, NthReply, ReplyTo
<1>k. ASSUME UNCHANGED tasks
      PROVE  \A i, c : (FirstTask(i, c)' <=> FirstTask(i, c)) /\ TaskOp(i)' = TaskOp(i)
  BY <1>k DEF FirstTask, NthTask, TaskOp
<1>d. ASSUME UNCHANGED dropped
      PROVE  \A c : FirstDropped(c)' <=> FirstDropped(c)
  BY <1>d DEF FirstDropped
<1>u. ASSUME UNCHANGED <<calls, outcomes, tasks, scripts, dropped>>
      PROVE  UNCHANGED Promises
  <2>1. \A c : FirstAnswers(c)' = FirstAnswers(c)
    BY <1>u DEF FirstAnswers
  <2>2. QED
    BY <1>u, <2>1, SameFirstAnswers
<1>1. ASSUME NEW n \in Names, Bind(n) \/ Unbind(n) PROVE UNCHANGED Promises
  <2>1. PICK js \in BindingScript : InitAndEval(js)
    BY <1>1 DEF Bind, Unbind, BindingScript
  <2>2. js \in Script /\ js.op \notin {"resolve", "reject"} /\ scripts' = Append(scripts, js)
    BY <2>1 DEF Script, BindingScript, InitAndEval
  <2>3. UNCHANGED <<calls, outcomes, tasks, dropped>>
    BY <1>1 DEF Bind, Unbind, page
  <2>4. \A i, c : (FirstReply(i, c)' <=> FirstReply(i, c))
                  /\ (FirstReply(i, c) => scripts'[i] = scripts[i])
    BY <1>t, <2>2, ScriptSent
  <2>5. ASSUME NEW c PROVE FirstAnswers(c)' = FirstAnswers(c)
    <3>1. \A x : x \in FirstAnswers(c)' <=> x \in FirstAnswers(c)
      BY <1>d, <1>k, <2>3, <2>4, FirstAnswersAre, FirstAnswersAreNext
    <3>2. QED
      BY <3>1
  <2>6. QED
    BY <2>3, <2>5, SameFirstAnswers
<1>2. CASE OnMessage
  <2>0. PICK msg : msg = Head(inbox)
    OBVIOUS
  <2>1. /\ msg \in Message /\ msg = inbox[1] /\ 1 \in DOMAIN inbox
        /\ UNCHANGED <<calls, outcomes, scripts, dropped>>
    BY <1>t, <1>2, <2>0, HeadTail DEF OnMessage, AnswersAtOnce, HandsOver, page
  <2>2. Unanswered(msg.call) /\ msg.call \in DOMAIN calls
    <3>1. Requested(msg.call)
      BY <2>1 DEF Requested
    <3>2. QED
      BY <1>o, <2>1, <3>1, CarriersKnown DEF RequestsOnce
  <2>3. CASE UNCHANGED tasks
    BY <1>u, <2>1, <2>3
  <2>4. CASE Resolve(msg.seq, 0, msg.call, 1)
    <3>1. PICK t \in Posted :
            t.by = msg.call /\ t.nth = 1 /\ t.status = 0 /\ tasks' = Append(tasks, t)
      <4>1. [seq |-> msg.seq, status |-> 0, by |-> msg.call, nth |-> 1] \in Posted
        BY <2>1 DEF Message, Posted, Statuses
      <4>2. QED
        BY <2>4, <4>1 DEF Resolve
    <3>2. QED
      BY <2>1, <2>2, <3>1, FirstGiven
  <2>5. QED
    BY <1>2, <2>0, <2>3, <2>4 DEF OnMessage, AnswersAtOnce, HandsOver
<1>3. ASSUME NEW job \in jobs, Answer(job) \/ AnswerTwice(job)
      PROVE  [Table!Next]_Promises
  <2>1. PICK t \in Posted :
          t.by = job.call /\ (t.nth = 1 <=> job.given = 0) /\ tasks' = Append(tasks, t)
    <3>1. PICK status \in Statuses : Resolve(job.seq, status, job.call, job.given + 1)
      BY <1>3 DEF Answer, AnswerTwice
    <3>2. job \in Job
      BY <1>t
    <3>3. /\ [seq |-> job.seq, status |-> status, by |-> job.call, nth |-> job.given + 1] \in Posted
          /\ job.given + 1 = 1 <=> job.given = 0
      BY <3>2 DEF Job, Posted
    <3>4. QED
      BY <3>1, <3>3 DEF Resolve
  <2>2. UNCHANGED <<calls, outcomes, scripts, dropped>>
    BY <1>3 DEF Answer, AnswerTwice, page
  <2>3. job.call \in DOMAIN calls /\ calls[job.call].name \notin SyncNames
    BY <1>o DEF MatchInv, CarriersExact, JobsExact, Carries, MayReject
  <2>4. CASE t.nth = 1
    <3>1. Handed(job.call)
      BY <2>1, <2>4 DEF Handed
    <3>2. Unanswered(job.call)
      BY <1>o, <3>1 DEF RequestsOnce
    <3>3. QED
      BY <2>1, <2>2, <2>3, <2>4, <3>2, FirstGiven
  <2>5. CASE t.nth # 1
    <3>1. \A i, c : (FirstTask(i, c)' <=> FirstTask(i, c))
                    /\ (FirstTask(i, c) => TaskOp(i)' = TaskOp(i))
      BY <1>t, <2>1, <2>5, TaskPosted
    <3>2. ASSUME NEW c PROVE FirstAnswers(c)' = FirstAnswers(c)
      <4>1. \A x : x \in FirstAnswers(c)' <=> x \in FirstAnswers(c)
        BY <1>d, <1>s, <2>2, <3>1, FirstAnswersAre, FirstAnswersAreNext
      <4>2. QED
        BY <4>1
    <3>3. QED
      BY <2>2, <3>2, SameFirstAnswers
  <2>6. QED
    BY <2>4, <2>5
<1>4. CASE RunTask
  <2>0. PICK t : t = Head(tasks)
    OBVIOUS
  <2>1. PICK js \in Script :
          /\ js.op = IF t.status = 0 THEN "resolve" ELSE "reject"
          /\ js.by = t.by /\ js.nth = t.nth /\ scripts' = Append(scripts, js)
    <3>1. t \in Posted
      BY <1>t, <1>4, <2>0, HeadTail DEF RunTask
    <3>2. [op |-> IF t.status = 0 THEN "resolve" ELSE "reject",
           seq |-> t.seq, by |-> t.by, nth |-> t.nth] \in Script
      BY <3>1 DEF Posted, Script, ReplyScript
    <3>3. QED
      BY <1>4, <2>0, <3>2 DEF RunTask
  <2>2. UNCHANGED <<calls, outcomes, dropped>> /\ tasks # << >> /\ tasks' = Tail(tasks)
    BY <1>4 DEF RunTask, page
  <2>3. t = tasks[1] /\ TaskOp(1) = js.op
    BY <1>t, <2>0, <2>1, <2>2, HeadTail DEF TaskOp
  <2>4. \A i, c : FirstReply(i, c)' <=>
          FirstReply(i, c) \/ (i = Len(scripts) + 1 /\ FirstTask(1, c))
    BY <1>t, <2>0, <2>1, <2>2, TaskTaken, ScriptSent
  <2>5. /\ \A i, c : FirstReply(i, c) => i # Len(scripts) + 1 /\ scripts'[i] = scripts[i]
        /\ scripts'[Len(scripts) + 1] = js
    BY <1>t, <2>1, ScriptSent
  <2>6. /\ \A i, c : FirstTask(i, c)' => i # 0 /\ FirstTask(i + 1, c) /\ TaskOp(i)' = TaskOp(i + 1)
        /\ \A i, c : FirstTask(i, c) => i = 1 \/ (FirstTask(i - 1, c)' /\ TaskOp(i - 1)' = TaskOp(i))
    BY <1>t, <2>2, TaskTaken
  <2>7. ASSUME NEW c PROVE FirstAnswers(c)' = FirstAnswers(c)
    <3>1. ASSUME NEW x, x \in FirstAnswers(c)' PROVE x \in FirstAnswers(c)
      <4>1. CASE \E i : FirstReply(i, c)' /\ x = scripts'[i].op
        BY <2>3, <2>4, <2>5, <4>1, FirstAnswersAre
      <4>2. CASE \E i : FirstTask(i, c)' /\ x = TaskOp(i)'
        <5>1. \E i : FirstTask(i + 1, c) /\ x = TaskOp(i + 1)
          BY <2>6, <4>2
        <5>2. QED
          BY <5>1, FirstAnswersAre
      <4>3. CASE FirstDropped(c)' /\ x = "lost"
        BY <1>d, <2>2, <4>3, FirstAnswersAre
      <4>4. QED
        BY <3>1, <4>1, <4>2, <4>3, FirstAnswersAreNext
    <3>2. ASSUME NEW x, x \in FirstAnswers(c) PROVE x \in FirstAnswers(c)'
      <4>1. CASE \E i : FirstReply(i, c) /\ x = scripts[i].op
        BY <2>4, <2>5, <4>1, FirstAnswersAreNext
      <4>2. CASE \E i : FirstTask(i, c) /\ x = TaskOp(i)
        <5>1. PICK i : FirstTask(i, c) /\ x = TaskOp(i)
          BY <4>2
        <5>2. CASE i = 1
          <6>1. \E j : FirstReply(j, c)' /\ x = scripts'[j].op
            BY <2>3, <2>4, <2>5, <5>1, <5>2
          <6>2. QED
            BY <6>1, FirstAnswersAreNext
        <5>3. CASE i # 1
          <6>1. \E j : FirstTask(j, c)' /\ x = TaskOp(j)'
            BY <2>6, <5>1, <5>3
          <6>2. QED
            BY <6>1, FirstAnswersAreNext
        <5>4. QED
          BY <5>2, <5>3
      <4>3. CASE FirstDropped(c) /\ x = "lost"
        BY <1>d, <2>2, <4>3, FirstAnswersAreNext
      <4>4. QED
        BY <3>2, <4>1, <4>2, <4>3, FirstAnswersAre
    <3>3. QED
      BY <3>1, <3>2
  <2>8. QED
    BY <2>2, <2>7, SameFirstAnswers
<1>5. CASE RunScript
  <2>0. PICK js : js = Head(scripts)
    OBVIOUS
  <2>1. /\ scripts # << >> /\ scripts' = Tail(scripts) /\ UNCHANGED <<tasks, calls, dropped>>
        /\ js = scripts[1] /\ 1 \in DOMAIN scripts
    BY <1>t, <1>5, <2>0, HeadTail DEF RunScript, native
  <2>2. CASE js.op \in {"resolve", "reject"} /\ js.seq \in DOMAIN rpc
    BY <1>5, <2>0, <2>2, FirstSettles
  <2>3. CASE ~(js.op \in {"resolve", "reject"} /\ js.seq \in DOMAIN rpc)
    <3>1. UNCHANGED outcomes
      BY <1>5, <2>0, <2>3 DEF RunScript, RunBind, RunUnbind, RunReply
    <3>2. ASSUME NEW c, FirstReply(1, c) PROVE Settled(c)
      <4>1. /\ js.op \in {"resolve", "reject"} /\ js.by = c
            /\ c \in DOMAIN calls /\ calls[c].seq = js.seq
        BY <1>o, <2>1, <3>2 DEF FirstReply, NthReply, ReplyTo, MatchInv, CarriersExact, ScriptsExact, Carries
      <4>2. calls[c].page = doc
        <5>1. calls[c] \in CallRecord /\ calls[c].page <= doc
          BY <1>t, <1>o, <4>1 DEF MatchInv, CallsNumbered
        <5>2. calls[c].page \in Nat
          BY <5>1 DEF CallRecord
        <5>3. QED
          BY <1>o, <5>1, <5>2 DEF Stays
      <4>3. QED
        BY <1>o, <2>3, <4>1, <4>2 DEF MatchInv, TableExact
    <3>3. \A c : AnswerTo(c)' = AnswerTo(c) /\ (Settled(c)' <=> Settled(c))
      BY <1>t, <2>1, <3>1, <3>2, SameOutcomes, ScriptGone, AnswerKept
    <3>4. QED
      BY <2>1, <3>3, TableKept
  <2>4. QED
    BY <2>2, <2>3
<1>6. ASSUME NEW n \in Names, NEW sent \in BOOLEAN, Call(n, sent) PROVE Table!Next
  <2>0. PICK new, rec : new = Len(calls) + 1 /\ rec = [page |-> doc, seq |-> nextSeq, name |-> n, sent |-> sent]
    OBVIOUS
  <2>1. /\ UNCHANGED <<outcomes, scripts, tasks, dropped>> /\ calls' = Append(calls, rec)
    BY <1>6, <2>0 DEF Call, native
  <2>2. rec \in CallRecord
    BY <1>o, <2>0 DEF MatchInv, TypeOK, CallRecord
  <2>3. /\ new \notin DOMAIN calls /\ DOMAIN calls' = DOMAIN calls \cup {new}
        /\ \A c \in DOMAIN calls : calls'[c] = calls[c]
        /\ calls'[new] = rec
    BY <1>t, <2>0, <2>1, <2>2
  <2>4. \A c : FirstAnswers(c)' = FirstAnswers(c)
    BY <2>1 DEF FirstAnswers
  <2>5. \A c : AnswerTo(c)' = AnswerTo(c) /\ (Settled(c)' <=> Settled(c))
    BY <2>1, <2>4, SameOutcomes, AnswerKept
  <2>6. \A c : Settled(c)' = Settled(c)
    BY <2>1, Zenon DEF Settled
  <2>7. ~Settled(new) /\ FirstAnswers(new) = {}
    BY <1>o, <2>3, CarriersKnown, FirstAnswersAre DEF Settled, DroppedKnown
  <2>8. Answers(new) = {}
    BY <2>7 DEF Answers
  <2>9. AnswerTo(new)' = "none" /\ Settled(new)' = FALSE
    BY <2>5, <2>6, <2>7, <2>8, AnswerNone
  <2>10. Promises'[new] = Table!Fresh(n)
    <3>1. new \in DOMAIN calls' /\ calls'[new].name = n
      BY <2>0, <2>3
    <3>2. Promises'[new] = [name |-> calls'[new].name, answer |-> AnswerTo(new)', settled |-> Settled(new)']
      BY <3>1, TableRecordsNext
    <3>3. QED
      BY <2>9, <3>1, <3>2 DEF Table!Fresh
  <2>11. \A c \in DOMAIN calls : Promises'[c] = Promises[c]
    BY <2>3, <2>5, <2>6, TableRecords, TableRecordsNext
  <2>12. Promises' = Append(Promises, Table!Fresh(n))
    <3>1. DOMAIN Promises = 1..Len(calls) /\ Len(calls) \in Nat
      BY <1>t, TableRecords
    <3>2. Len(Promises) = Len(calls)
      BY <3>1, TableRecords
    <3>3. DOMAIN Promises' = 1..(Len(Promises) + 1)
      BY <2>0, <2>3, <3>1, <3>2, TableRecordsNext
    <3>4. \A c \in 1..Len(Promises) : Promises'[c] = Promises[c]
      BY <2>11, <3>1, <3>2
    <3>5. Promises'[Len(Promises) + 1] = Table!Fresh(n)
      BY <2>0, <2>10, <3>2
    <3>6. PICK S : Table!Fresh(n) \in S /\ \A c \in DOMAIN Promises : Promises[c] \in S
      <4>1. \A c \in DOMAIN Promises :
              Promises[c] \in {Promises[d] : d \in DOMAIN Promises} \cup {Table!Fresh(n)}
        OBVIOUS
      <4>2. QED
        BY <4>1
    <3>7. Promises \in Seq(S)
      BY <3>1, <3>6, TableRecords
    <3>8. Promises' \in Seq(S) /\ Len(Promises') = Len(Promises) + 1
      <4>1. \A c \in DOMAIN Promises' : Promises'[c] \in S
        BY <2>3, <2>10, <2>11, <3>6, TableRecords, TableRecordsNext
      <4>2. Promises' = [c \in DOMAIN Promises' |-> Promises'[c]]
        BY TableRecordsNext
      <4>3. QED
        BY <3>1, <3>2, <3>3, <4>1, <4>2
    <3>9. /\ Append(Promises, Table!Fresh(n)) \in Seq(S)
          /\ Len(Append(Promises, Table!Fresh(n))) = Len(Promises) + 1
          /\ \A c \in 1..Len(Promises) : Append(Promises, Table!Fresh(n))[c] = Promises[c]
          /\ Append(Promises, Table!Fresh(n))[Len(Promises) + 1] = Table!Fresh(n)
      BY <3>6, <3>7, AppendProperties
    <3>10. \A c \in 1..(Len(Promises) + 1) : Promises'[c] = Append(Promises, Table!Fresh(n))[c]
      BY <3>1, <3>2, <3>4, <3>5, <3>9
    <3>11. QED
      BY <3>8, <3>9, <3>10, SeqEqual
  <2>13. QED
    BY <2>12 DEF Table!Next, Table!Make
<1>7. ~Load
  BY <1>o DEF Load, FreshPage, Stays
<1>8. CASE UNCHANGED vars
  BY <1>u, <1>8 DEF vars, native, page
<1>9. CASE DropTask
  BY <1>9, AnswerLost
<1>10. QED
  BY <1>1, <1>2, <1>3, <1>4, <1>5, <1>6, <1>7, <1>8, <1>9 DEF Next

\* While the page stays, whatever the engine does is what the table of promises
\* allows: no promise gets a second answer, or is settled otherwise than with
\* the first, but for one whose first answer was dropped on Win32
\* (webview.cpp:30-91; mswebview_engine.cpp:124-126, 215-219).
THEOREM PromisesKept ==
  ASSUME MaxLoads = 0
  PROVE  Spec => KeepsPromises
<1>1. Init => OnceInv /\ Table!Init
  <2>1. Init => Promises = << >>
    BY DEF Init, Promises
  <2>2. QED
    BY <2>1, MatchInit, OrderInit, OnceInit DEF OnceInv, Table!Init
<1>2. OnceInv /\ [Next]_vars => OnceInv'
  BY MatchStep, OrderStep, OnceStep, DroppedStep DEF OnceInv
<1>3. OnceInv /\ [Next]_vars => [Table!Next]_Promises
  BY TableStep
<1>4. QED
  BY <1>1, <1>2, <1>3, PTL DEF Spec, KeepsPromises, Table!Spec
=============================================================================
