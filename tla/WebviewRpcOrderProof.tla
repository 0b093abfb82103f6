------------------------ MODULE WebviewRpcOrderProof ------------------------
(***************************************************************************)
(* Of several answers to a request the first one that is not dropped       *)
(* settles its promise: the invariant on the order of the answers under    *)
(* way, and its proof for every value of the constants.                    *)
(***************************************************************************)
EXTENDS WebviewRpcProof

\* Call c is one of the current page and has not been settled
Waiting(c) == c \in DOMAIN calls /\ calls[c].page = doc /\ ~Settled(c)

\* It waits for answer number k, which no loop has dropped
Awaits(c, k) == Waiting(c) /\ k \in Nat \ {0} /\ <<c, k>> \notin dropped

\* The posted function, or the script, at i carries answer number k, or a later
\* one, to call c
NthTask(i, c, k) == i \in DOMAIN tasks /\ tasks[i].by = c /\ tasks[i].nth = k
LaterTask(i, c, k) == i \in DOMAIN tasks /\ tasks[i].by = c /\ tasks[i].nth > k
ReplyTo(i, c) ==
  i \in DOMAIN scripts /\ scripts[i].op \in {"resolve", "reject"} /\ scripts[i].by = c
NthReply(i, c, k) == ReplyTo(i, c) /\ scripts[i].nth = k
LaterReply(i, c, k) == ReplyTo(i, c) /\ scripts[i].nth > k

\* Once it has been given, an answer is ahead of all later ones to its request
ScriptsInOrder(c, k) ==
  \A i : LaterReply(i, c, k) => \E j : j < i /\ NthReply(j, c, k)
TasksInOrder(c, k) ==
  \A i : LaterTask(i, c, k) =>
    (\E j : j < i /\ NthTask(j, c, k)) \/ (\E j : NthReply(j, c, k))
JobsInOrder(c, k) ==
  \A job \in jobs :
    job.call = c /\ job.given >= k =>
      (\E j : NthTask(j, c, k)) \/ (\E j : NthReply(j, c, k))

OrderInv ==
  /\ \A c, k : Awaits(c, k) =>
       ScriptsInOrder(c, k) /\ TasksInOrder(c, k) /\ JobsInOrder(c, k)
  /\ FirstAnswerWins

\* Taking the first element away moves every other one forward by one place.
LEMMA TailShift ==
  ASSUME NEW S, NEW q \in Seq(S), q # << >>
  PROVE  /\ \A i \in DOMAIN Tail(q) : i \in Nat /\ i + 1 \in DOMAIN q /\ Tail(q)[i] = q[i + 1]
         /\ \A i \in DOMAIN q :
              /\ i \in Nat /\ i >= 1
              /\ i # 1 => i - 1 \in DOMAIN Tail(q) /\ Tail(q)[i - 1] = q[i]
  OBVIOUS

\* The order of the answers holds at first and along every step.
LEMMA OrderInit == Init => OrderInv
BY DEF Init, OrderInv, Awaits, Waiting, FirstAnswerWins

\* Every step keeps the order of the answers.
LEMMA OrderStep ==
  ASSUME MatchInv, OrderInv, [Next]_vars
  PROVE  OrderInv'
<1>t. TypeOK /\ tasks \in Seq(Posted) /\ scripts \in Seq(Script) /\ inbox \in Seq(Message)
  BY DEF MatchInv, TypeOK
<1>w. ASSUME UNCHANGED <<page, dropped>>
      PROVE  /\ \A c, k : Awaits(c, k)' <=> Awaits(c, k)
             /\ FirstAnswerWins'
  BY <1>w DEF page, Awaits, Waiting, Settled, OrderInv, FirstAnswerWins
<1>s. ASSUME UNCHANGED scripts
      PROVE  \A i, c, k : /\ NthReply(i, c, k)' <=> NthReply(i, c, k)
                          /\ LaterReply(i, c, k)' <=> LaterReply(i, c, k)
  BY <1>s DEF NthReply, LaterReply, ReplyTo
<1>a. ASSUME NEW js \in Script, js.op \notin {"resolve", "reject"},
             scripts' = Append(scripts, js)
      PROVE  \A i, c, k : /\ NthReply(i, c, k)' <=> NthReply(i, c, k)
                          /\ LaterReply(i, c, k)' <=> LaterReply(i, c, k)
  <2>1. /\ \A i \in DOMAIN scripts' :
             \/ i \in DOMAIN scripts /\ scripts'[i] = scripts[i]
             \/ scripts'[i] = js
        /\ \A i \in DOMAIN scripts : i \in DOMAIN scripts' /\ scripts'[i] = scripts[i]
    BY <1>t, <1>a, Appended
  <2>2. \A i, c : ReplyTo(i, c)' <=> ReplyTo(i, c)
    BY <1>a, <2>1 DEF ReplyTo
  <2>3. \A i, c : ReplyTo(i, c) => scripts'[i] = scripts[i]
    BY <2>1 DEF ReplyTo
  <2>4. QED
    BY <2>2, <2>3 DEF NthReply, LaterReply
<1>1. ASSUME NEW n \in Names, Bind(n) \/ Unbind(n) PROVE OrderInv'
  <2>1. PICK js \in BindingScript : InitAndEval(js)
    BY <1>1 DEF Bind, Unbind, BindingScript
  <2>2. js \in Script /\ js.op \notin {"resolve", "reject"} /\ scripts' = Append(scripts, js)
    BY <2>1 DEF Script, BindingScript, InitAndEval
  <2>3. UNCHANGED <<page, tasks, jobs, dropped>>
    BY <1>1 DEF Bind, Unbind
  <2>4. QED
    BY <1>w, <1>a, <2>2, <2>3 DEF OrderInv, ScriptsInOrder, TasksInOrder, JobsInOrder,
       NthTask, LaterTask
<1>2. CASE OnMessage
  <2> DEFINE msg == Head(inbox)
             t == [seq |-> msg.seq, status |-> 0, by |-> msg.call, nth |-> 1]
  <2>1. msg \in Message /\ UNCHANGED <<page, scripts, dropped>>
    BY <1>t, <1>2, HeadTail DEF OnMessage, AnswersAtOnce, HandsOver
  <2>2. \A job \in jobs' : job \in jobs \/ job.given = 0
    BY <1>2 DEF OnMessage, AnswersAtOnce, HandsOver
  <2>3. \A i, c : \A k \in Nat \ {0} :
          /\ NthTask(i, c, k) => NthTask(i, c, k)'
          /\ LaterTask(i, c, k)' => LaterTask(i, c, k)
    <3>1. CASE tasks' = tasks
      BY <3>1 DEF NthTask, LaterTask
    <3>2. CASE Resolve(msg.seq, 0, msg.call, 1)
      <4>1. t \in Posted
        BY <2>1 DEF Message, Posted, Statuses
      <4>2. /\ \A i \in DOMAIN tasks' :
                 (i \in DOMAIN tasks /\ tasks'[i] = tasks[i]) \/ tasks'[i] = t
            /\ \A i \in DOMAIN tasks : i \in DOMAIN tasks' /\ tasks'[i] = tasks[i]
        BY <1>t, <3>2, <4>1, Appended DEF Resolve
      <4>3. QED
        BY <4>2 DEF NthTask, LaterTask
    <3>3. QED
      BY <1>2, <3>1, <3>2 DEF OnMessage, AnswersAtOnce, HandsOver
  <2>4. SUFFICES ASSUME NEW c, NEW k, Awaits(c, k)
                 PROVE  ScriptsInOrder(c, k)' /\ TasksInOrder(c, k)' /\ JobsInOrder(c, k)'
    BY <1>w, <2>1 DEF OrderInv
  <2>5. ScriptsInOrder(c, k) /\ TasksInOrder(c, k) /\ JobsInOrder(c, k) /\ k \in Nat \ {0}
    BY <2>4 DEF OrderInv, Awaits
  <2>6. \A job \in jobs' : job.given >= k => job \in jobs
    BY <2>2, <2>4 DEF Awaits
  <2>7. ScriptsInOrder(c, k)' /\ TasksInOrder(c, k)'
    BY <1>s, <2>1, <2>3, <2>5 DEF ScriptsInOrder, TasksInOrder
  <2>8. JobsInOrder(c, k)'
    BY <1>s, <2>1, <2>3, <2>5, <2>6 DEF JobsInOrder
  <2>9. QED
    BY <2>7, <2>8
<1>3. ASSUME NEW job \in jobs, Answer(job) \/ AnswerTwice(job) PROVE OrderInv'
  <2>1. PICK status \in Statuses : Resolve(job.seq, status, job.call, job.given + 1)
    BY <1>3 DEF Answer, AnswerTwice
  <2> DEFINE t == [seq |-> job.seq, status |-> status, by |-> job.call,
                   nth |-> job.given + 1]
             last == Len(tasks) + 1
  <2>2. /\ UNCHANGED <<page, scripts, dropped>>
        /\ \A j \in jobs' : j \in jobs \/ j = [job EXCEPT !.given = @ + 1]
    BY <1>3 DEF Answer, AnswerTwice
  <2>3. /\ job \in Job /\ job.given \in Nat
        /\ t \in Posted /\ t.by = job.call /\ t.nth = job.given + 1
    BY <1>t DEF TypeOK, Job, Posted
  <2>4. /\ \A i \in DOMAIN tasks' :
             \/ i \in DOMAIN tasks /\ tasks'[i] = tasks[i]
             \/ i = last /\ tasks'[i] = t
        /\ \A i \in DOMAIN tasks : i \in DOMAIN tasks' /\ tasks'[i] = tasks[i] /\ i < last
        /\ last \in DOMAIN tasks' /\ tasks'[last] = t
    BY <1>t, <2>1, <2>3, Appended DEF Resolve
  <2> HIDE DEF t, last
  <2>5. SUFFICES ASSUME NEW c, NEW k, Awaits(c, k)
                 PROVE  ScriptsInOrder(c, k)' /\ TasksInOrder(c, k)' /\ JobsInOrder(c, k)'
    BY <1>w, <2>2 DEF OrderInv
  <2>6. /\ \A i : NthTask(i, c, k) => NthTask(i, c, k)' /\ i < last
        /\ \A i : LaterTask(i, c, k)' => \/ LaterTask(i, c, k)
                                         \/ i = last /\ c = job.call /\ t.nth > k
    BY <2>3, <2>4 DEF NthTask, LaterTask
  <2>7. t.nth = k /\ c = job.call => \E i : NthTask(i, c, k)'
    BY <2>3, <2>4 DEF NthTask
  <2>8. k \in Nat /\ (t.nth > k <=> job.given >= k) /\ (t.nth >= k => t.nth = k \/ job.given >= k)
    BY <2>3, <2>5 DEF Awaits
  <2>9. ScriptsInOrder(c, k) /\ TasksInOrder(c, k) /\ JobsInOrder(c, k)
    BY <2>5 DEF OrderInv
  <2>10. ScriptsInOrder(c, k)'
    BY <1>s, <2>2, <2>9 DEF ScriptsInOrder
  <2>11. TasksInOrder(c, k)'
    <3> SUFFICES ASSUME NEW i, LaterTask(i, c, k)'
                 PROVE  (\E j : j < i /\ NthTask(j, c, k)') \/ (\E j : NthReply(j, c, k)')
      BY DEF TasksInOrder
    <3>1. CASE LaterTask(i, c, k)
      BY <1>s, <2>2, <2>6, <2>9, <3>1 DEF TasksInOrder
    <3>2. CASE i = last /\ c = job.call /\ t.nth > k
      BY <1>s, <2>2, <2>6, <2>8, <2>9, <3>2 DEF JobsInOrder
    <3>3. QED
      BY <2>6, <3>1, <3>2
  <2>12. JobsInOrder(c, k)'
    <3> SUFFICES ASSUME NEW j \in jobs', j.call = c, j.given >= k
                 PROVE  (\E i : NthTask(i, c, k)') \/ (\E i : NthReply(i, c, k)')
      BY DEF JobsInOrder
    <3>1. CASE j \in jobs
      BY <1>s, <2>2, <2>6, <2>9, <3>1 DEF JobsInOrder
    <3>2. CASE j = [job EXCEPT !.given = @ + 1]
      <4>1. job.call = c /\ j.given = t.nth
        BY <2>3, <3>2, AnswerCounted
      <4>2. CASE t.nth = k
        BY <2>7, <4>1, <4>2
      <4>3. CASE job.given >= k
        BY <1>s, <2>2, <2>6, <2>9, <4>1, <4>3 DEF JobsInOrder
      <4>4. QED
        BY <2>8, <4>1, <4>2, <4>3
    <3>3. QED
      BY <2>2, <3>1, <3>2
  <2>13. QED
    BY <2>10, <2>11, <2>12
<1>4. CASE RunTask
  <2> DEFINE t == Head(tasks)
             js == [op |-> IF t.status = 0 THEN "resolve" ELSE "reject",
                    seq |-> t.seq, by |-> t.by, nth |-> t.nth]
             last == Len(scripts) + 1
  <2>1. /\ t \in Posted /\ t = tasks[1] /\ 1 \in DOMAIN tasks
        /\ tasks # << >> /\ tasks' = Tail(tasks)
        /\ UNCHANGED <<page, jobs, dropped>>
    BY <1>t, <1>4, HeadTail DEF RunTask
  <2>2. /\ js \in Script /\ js.op \in {"resolve", "reject"}
        /\ js.by = t.by /\ js.nth = t.nth
    BY <2>1 DEF Posted, Script, ReplyScript
  <2>3. /\ \A i \in DOMAIN scripts' :
             \/ i \in DOMAIN scripts /\ scripts'[i] = scripts[i]
             \/ i = last /\ scripts'[i] = js
        /\ \A i \in DOMAIN scripts : i \in DOMAIN scripts' /\ scripts'[i] = scripts[i] /\ i < last
        /\ last \in DOMAIN scripts' /\ scripts'[last] = js
    BY <1>t, <1>4, <2>2, Appended DEF RunTask
  <2> HIDE DEF js, last
  <2>4. \A i, c, k : /\ NthReply(i, c, k) => NthReply(i, c, k)' /\ i < last
                     /\ LaterReply(i, c, k)' => LaterReply(i, c, k) \/ (i = last /\ LaterTask(1, c, k))
    BY <2>1, <2>2, <2>3 DEF NthReply, LaterReply, ReplyTo, LaterTask
  <2>5. \A c, k : NthTask(1, c, k) => \E i : NthReply(i, c, k)'
    BY <2>1, <2>2, <2>3 DEF NthTask, NthReply, ReplyTo
  <2>6. \A i, c, k : /\ NthTask(i, c, k) => i \in Nat /\ i >= 1
                     /\ NthTask(i, c, k) /\ i # 1 => NthTask(i - 1, c, k)'
                     /\ LaterTask(i, c, k)' => i \in Nat /\ LaterTask(i + 1, c, k)
    BY <1>t, <2>1, TailShift DEF NthTask, LaterTask
  <2>7. SUFFICES ASSUME NEW c, NEW k, ScriptsInOrder(c, k), TasksInOrder(c, k), JobsInOrder(c, k)
                 PROVE  ScriptsInOrder(c, k)' /\ TasksInOrder(c, k)' /\ JobsInOrder(c, k)'
    BY <1>w, <2>1 DEF OrderInv
  <2>8. \A j : NthTask(j, c, k) => \/ \E i : NthReply(i, c, k)'
                                 \/ NthTask(j - 1, c, k)'
    BY <2>5, <2>6
  <2>9. ScriptsInOrder(c, k)'
    <3> SUFFICES ASSUME NEW i, LaterReply(i, c, k)'
                 PROVE  \E j : j < i /\ NthReply(j, c, k)'
      BY DEF ScriptsInOrder
    <3>1. CASE LaterReply(i, c, k)
      BY <2>4, <2>7, <3>1 DEF ScriptsInOrder
    <3>2. CASE i = last /\ LaterTask(1, c, k)
      <4>1. ~\E j : j < 1 /\ NthTask(j, c, k)
        BY <2>6
      <4>2. PICK j : NthReply(j, c, k)
        BY <2>7, <3>2, <4>1 DEF TasksInOrder
      <4>3. QED
        BY <2>4, <3>2, <4>2
    <3>3. QED
      BY <2>4, <3>1, <3>2
  <2>10. TasksInOrder(c, k)'
    <3> SUFFICES ASSUME NEW i, LaterTask(i, c, k)'
                 PROVE  (\E j : j < i /\ NthTask(j, c, k)') \/ (\E j : NthReply(j, c, k)')
      BY DEF TasksInOrder
    <3>1. i \in Nat /\ LaterTask(i + 1, c, k)
      BY <2>6
    <3>2. CASE \E j : NthReply(j, c, k)
      BY <2>4, <3>2
    <3>3. CASE \E j : j < i + 1 /\ NthTask(j, c, k)
      <4>1. PICK j : j < i + 1 /\ NthTask(j, c, k)
        BY <3>3
      <4>2. j \in Nat /\ (j # 1 => NthTask(j - 1, c, k)' /\ j - 1 < i)
        BY <2>6, <3>1, <4>1
      <4>3. CASE j = 1
        BY <2>5, <4>1, <4>3
      <4>4. QED
        BY <4>2, <4>3
    <3>4. QED
      BY <2>7, <3>1, <3>2, <3>3 DEF TasksInOrder
  <2>11. JobsInOrder(c, k)'
    BY <2>1, <2>4, <2>7, <2>8 DEF JobsInOrder
  <2>12. QED
    BY <2>9, <2>10, <2>11
<1>5. CASE RunScript
  <2> DEFINE js == Head(scripts)
  <2>1. /\ js = scripts[1] /\ 1 \in DOMAIN scripts
        /\ scripts # << >> /\ scripts' = Tail(scripts)
        /\ UNCHANGED <<tasks, jobs, doc, calls, dropped>>
    BY <1>t, <1>5, HeadTail DEF RunScript, native
  <2>2. \A c : ReplyTo(1, c) /\ Waiting(c) => js.seq \in DOMAIN rpc /\ rpc[js.seq] = c
    BY <2>1 DEF ReplyTo, Waiting, MatchInv, CarriersExact, ScriptsExact, Carries, TableExact
  <2>4. ASSUME js.op \in {"resolve", "reject"}, js.seq \in DOMAIN rpc, RunReply(js)
        PROVE  /\ FirstAnswerWins'
               /\ \A c : Waiting(c)' => Waiting(c) /\ ~ReplyTo(1, c)
    <3> DEFINE d == rpc[js.seq]
               o == [call |-> d, by |-> js.by, op |-> js.op, nth |-> js.nth]
    <3>1. outcomes' = outcomes \cup {o}
      BY <2>4 DEF RunReply
    <3>2. d \in DOMAIN calls /\ calls[d].page = doc /\ calls[d].seq = js.seq /\ Waiting(d)
      BY <1>t, <2>4 DEF MatchInv, TableExact, TypeOK, Waiting
    <3>3. js.by \in DOMAIN calls /\ calls[js.by].seq = js.seq
      BY <2>1, <2>4 DEF MatchInv, CarriersExact, ScriptsExact, Carries
    <3>4. o.call = d /\ o.by = js.by /\ o.nth = js.nth
      OBVIOUS
    <3> HIDE DEF o
    <3>5. \A c : Waiting(c)' => Waiting(c) /\ c # d
      BY <2>1, <3>1, <3>4 DEF Waiting, Settled
    <3>6. calls[d].page = calls[js.by].page =>
            \A k \in 1..(js.nth - 1) : <<js.by, k>> \in dropped
      <4> SUFFICES ASSUME calls[d].page = calls[js.by].page,
                          NEW k \in 1..(js.nth - 1), <<js.by, k>> \notin dropped
                   PROVE  FALSE
        OBVIOUS
      <4>0. js.nth \in Nat /\ k \in Nat \ {0} /\ js.nth > k
        <5>1. js \in Script /\ js.nth \in Nat
          BY <1>t, <2>1, <2>4, HeadTail DEF Script, BindingScript, ReplyScript
        <5>2. QED
          BY <5>1
      <4>1. js.by = d
        BY <3>2, <3>3 DEF MatchInv, CallsNumbered
      <4>2. LaterReply(1, d, k) /\ Awaits(d, k)
        BY <2>1, <2>4, <3>2, <4>0, <4>1 DEF LaterReply, ReplyTo, Awaits
      <4>3. PICK j : j < 1 /\ NthReply(j, d, k)
        BY <4>2 DEF OrderInv, ScriptsInOrder
      <4>4. QED
        BY <1>t, <4>3, TailShift, <2>1 DEF NthReply, ReplyTo
    <3>7. FirstAnswerWins'
      BY <2>1, <3>1, <3>4, <3>6 DEF OrderInv, FirstAnswerWins
    <3>8. QED
      BY <2>2, <3>5, <3>7
  <2>5. /\ FirstAnswerWins'
        /\ \A c : Waiting(c)' => Waiting(c) /\ ~ReplyTo(1, c)
    <3>1. CASE js.op \notin {"resolve", "reject"}
      <4>1. UNCHANGED outcomes
        BY <1>5, <3>1 DEF RunScript, RunBind, RunUnbind
      <4>2. \A c : ~ReplyTo(1, c)
        BY <2>1, <3>1 DEF ReplyTo
      <4>3. QED
        BY <2>1, <4>1, <4>2 DEF OrderInv, FirstAnswerWins, Waiting, Settled
    <3>2. CASE js.op \in {"resolve", "reject"}
      <4>1. RunReply(js)
        BY <1>5, <3>2 DEF RunScript
      <4>2. CASE js.seq \in DOMAIN rpc
        BY <2>4, <3>2, <4>1, <4>2
      <4>3. CASE js.seq \notin DOMAIN rpc
        <5>1. UNCHANGED outcomes
          BY <4>1, <4>3 DEF RunReply
        <5>2. QED
          BY <2>1, <2>2, <4>3, <5>1 DEF OrderInv, FirstAnswerWins, Waiting, Settled
      <4>4. QED
        BY <4>2, <4>3
    <3>3. QED
      BY <3>1, <3>2
  <2>6. \A i, c, k : /\ NthReply(i, c, k) => i \in Nat
                     /\ NthReply(i, c, k) /\ i # 1 => NthReply(i - 1, c, k)'
                     /\ LaterReply(i, c, k)' => i \in Nat /\ LaterReply(i + 1, c, k)
    BY <1>t, <2>1, TailShift DEF NthReply, LaterReply, ReplyTo
  <2>7. \A i, c, k : /\ NthTask(i, c, k)' <=> NthTask(i, c, k)
                     /\ LaterTask(i, c, k)' <=> LaterTask(i, c, k)
    BY <2>1 DEF NthTask, LaterTask
  <2>8. SUFFICES ASSUME NEW c, NEW k, ~ReplyTo(1, c),
                        ScriptsInOrder(c, k), TasksInOrder(c, k), JobsInOrder(c, k)
                 PROVE  ScriptsInOrder(c, k)' /\ TasksInOrder(c, k)' /\ JobsInOrder(c, k)'
    BY <2>1, <2>5 DEF OrderInv, Awaits
  <2>9. \A j : NthReply(j, c, k) => NthReply(j - 1, c, k)'
    BY <2>6, <2>8 DEF NthReply
  <2>10. ScriptsInOrder(c, k)'
    <3> SUFFICES ASSUME NEW i, LaterReply(i, c, k)'
                 PROVE  \E j : j < i /\ NthReply(j, c, k)'
      BY DEF ScriptsInOrder
    <3>1. PICK j : j < i + 1 /\ NthReply(j, c, k)
      BY <2>6, <2>8 DEF ScriptsInOrder
    <3>2. j - 1 < i /\ NthReply(j - 1, c, k)'
      BY <2>6, <2>9, <3>1
    <3>3. QED
      BY <3>2
  <2>11. TasksInOrder(c, k)' /\ JobsInOrder(c, k)'
    BY <2>1, <2>7, <2>8, <2>9 DEF TasksInOrder, JobsInOrder
  <2>12. QED
    BY <2>10, <2>11
<1>6. ASSUME NEW n \in Names, NEW sent \in BOOLEAN, Call(n, sent) PROVE OrderInv'
  <2> DEFINE new == Len(calls) + 1
             call == [page |-> doc, seq |-> nextSeq, name |-> n, sent |-> sent]
  <2>1. call \in CallRecord /\ calls \in Seq(CallRecord)
    BY <1>t DEF CallRecord, TypeOK
  <2>2. /\ \A d \in DOMAIN calls' : (d \in DOMAIN calls /\ calls'[d] = calls[d]) \/ d = new
        /\ \A d \in DOMAIN calls : d \in DOMAIN calls' /\ calls'[d] = calls[d] /\ d # new
    BY <1>6, <2>1, Appended DEF Call
  <2>3. UNCHANGED <<tasks, jobs, scripts, doc, outcomes, dropped>>
    BY <1>6 DEF Call, native
  <2>4. \A i, c, k : /\ NthTask(i, c, k)' <=> NthTask(i, c, k)
                     /\ LaterTask(i, c, k)' <=> LaterTask(i, c, k)
    BY <2>3 DEF NthTask, LaterTask
  <2>5. \A c : Waiting(c)' => Waiting(c) \/ c = new
    BY <2>2, <2>3 DEF Waiting, Settled
  <2>6. FirstAnswerWins'
    BY <2>2, <2>3 DEF OrderInv, FirstAnswerWins, MatchInv, CarriersExact, OutcomesExact, Carries
  <2>7. /\ \A i, k : ~LaterReply(i, new, k) /\ ~LaterTask(i, new, k)
        /\ \A job \in jobs : job.call # new
    BY <2>2 DEF LaterReply, LaterTask, ReplyTo, MatchInv, CarriersExact, ScriptsExact,
       TasksExact, JobsExact, Carries
  <2>8. QED
    BY <1>s, <2>3, <2>4, <2>5, <2>6, <2>7
    DEF OrderInv, Awaits, ScriptsInOrder, TasksInOrder, JobsInOrder
<1>7. CASE Load
  <2>1. doc' = doc + 1 /\ UNCHANGED <<calls, outcomes, dropped>> /\ doc \in Nat
    BY <1>t, <1>7 DEF Load, FreshPage, TypeOK, native
  <2>2. \A c \in DOMAIN calls : calls[c] \in CallRecord /\ calls[c].page <= doc
    BY <1>t DEF TypeOK, MatchInv, CallsNumbered
  <2>3. \A c : ~Waiting(c)'
    BY <2>1, <2>2 DEF Waiting, CallRecord
  <2>4. QED
    BY <2>1, <2>3 DEF OrderInv, Awaits, FirstAnswerWins
<1>8. CASE UNCHANGED vars
  BY <1>w, <1>s, <1>8 DEF vars, native, OrderInv, ScriptsInOrder, TasksInOrder, JobsInOrder,
     NthTask, LaterTask
<1>9. CASE DropTask
  <2> DEFINE t == Head(tasks)
  <2>1. /\ t = tasks[1] /\ 1 \in DOMAIN tasks /\ tasks # << >> /\ tasks' = Tail(tasks)
        /\ dropped' = dropped \cup {<<t.by, t.nth>>}
        /\ UNCHANGED <<page, jobs, scripts>>
    BY <1>t, <1>9, HeadTail DEF DropTask
  <2>2. FirstAnswerWins'
    BY <2>1 DEF page, OrderInv, FirstAnswerWins
  <2>3. \A c, k : Awaits(c, k)' => Awaits(c, k) /\ ~NthTask(1, c, k)
    BY <2>1 DEF page, Awaits, Waiting, Settled, NthTask
  <2>4. \A i, c, k : /\ NthTask(i, c, k) => i \in Nat
                     /\ NthTask(i, c, k) /\ i # 1 => NthTask(i - 1, c, k)'
                     /\ LaterTask(i, c, k)' => i \in Nat /\ LaterTask(i + 1, c, k)
    BY <1>t, <2>1, TailShift DEF NthTask, LaterTask
  <2>5. SUFFICES ASSUME NEW c, NEW k, ~NthTask(1, c, k), ScriptsInOrder(c, k),
                        TasksInOrder(c, k), JobsInOrder(c, k)
                 PROVE  ScriptsInOrder(c, k)' /\ TasksInOrder(c, k)' /\ JobsInOrder(c, k)'
    BY <2>2, <2>3 DEF OrderInv
  <2>6. \A j : NthTask(j, c, k) => NthTask(j - 1, c, k)'
    BY <2>4, <2>5
  <2>7. ScriptsInOrder(c, k)' /\ JobsInOrder(c, k)'
    BY <1>s, <2>1, <2>5, <2>6 DEF ScriptsInOrder, JobsInOrder
  <2>8. TasksInOrder(c, k)'
    <3> SUFFICES ASSUME NEW i, LaterTask(i, c, k)'
                 PROVE  (\E j : j < i /\ NthTask(j, c, k)') \/ (\E j : NthReply(j, c, k)')
      BY DEF TasksInOrder
    <3>1. i \in Nat /\ LaterTask(i + 1, c, k)
      BY <2>4
    <3>2. CASE \E j : NthReply(j, c, k)
      BY <1>s, <2>1, <3>2
    <3>3. CASE \E j : j < i + 1 /\ NthTask(j, c, k)
      <4>1. PICK j : j < i + 1 /\ NthTask(j, c, k)
        BY <3>3
      <4>2. j \in Nat /\ j - 1 < i /\ NthTask(j - 1, c, k)'
        BY <2>4, <2>6, <3>1, <4>1
      <4>3. QED
        BY <4>2
    <3>4. QED
      BY <2>5, <3>1, <3>2, <3>3 DEF TasksInOrder
  <2>9. QED
    BY <2>7, <2>8
<1>10. QED
  BY <1>1, <1>2, <1>3, <1>4, <1>5, <1>6, <1>7, <1>8, <1>9 DEF Next

\* FirstAnswerWins: of several answers to a request, the first that is not dropped
\* settles its promise, for any number of calls, answers and navigations.
THEOREM FirstWins == Spec => []FirstAnswerWins
<1>1. OrderInv => FirstAnswerWins
  BY DEF OrderInv
<1>2. Init => MatchInv /\ OrderInv
  BY MatchInit, OrderInit
<1>3. MatchInv /\ OrderInv /\ [Next]_vars => (MatchInv /\ OrderInv)'
  BY MatchStep, OrderStep
<1>4. QED
  BY <1>1, <1>2, <1>3, PTL DEF Spec
=============================================================================
