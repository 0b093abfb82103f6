------------------------ MODULE WebviewRpcViewProof ------------------------
(***************************************************************************)
(* The page's window agrees with webview::bindings: the invariant that     *)
(* relates the init scripts, the scripts under way and the defined         *)
(* functions, and its proof for every value of the constants.              *)
(***************************************************************************)
EXTENDS WebviewRpcProof

\* The script speaks of name n
About(js, n) == js.op \in {"bind", "unbind"} /\ js.name = n

\* The scripts about n, after one is appended.
LEMMA MentionsAppend ==
  ASSUME NEW S, NEW q \in Seq(S), NEW js \in S, NEW n
  PROVE  /\ About(js, n) => Mentions(Append(q, js), n) = Mentions(q, n) \cup {Len(q) + 1}
         /\ ~About(js, n) => Mentions(Append(q, js), n) = Mentions(q, n)
BY Appended DEF Mentions, About

\* The last script about n decides whether n is defined.
LEMMA DefinesAppend ==
  ASSUME NEW S, NEW q \in Seq(S), NEW js \in S, NEW n
  PROVE  /\ About(js, n) => (Defines(Append(q, js), n) <=> js.op = "bind")
         /\ ~About(js, n) => (Defines(Append(q, js), n) <=> Defines(q, n))
<1>1. CASE About(js, n)
  <2>1. Mentions(Append(q, js), n) = Mentions(q, n) \cup {Len(q) + 1}
    BY <1>1, MentionsAppend
  <2>2. \A i \in Mentions(q, n) : i \in Nat /\ i < Len(q) + 1
    BY Appended DEF Mentions
  <2>3. Append(q, js)[Len(q) + 1] = js /\ Len(q) \in Nat
    BY Appended
  <2>4. QED
    BY <1>1, <2>1, <2>2, <2>3 DEF Defines
<1>2. CASE ~About(js, n)
  <2>1. Mentions(Append(q, js), n) = Mentions(q, n)
    BY <1>2, MentionsAppend
  <2>2. \A i \in Mentions(q, n) : Append(q, js)[i] = q[i]
    BY Appended DEF Mentions
  <2>3. QED
    BY <1>2, <2>1, <2>2 DEF Defines
<1>3. QED
  BY <1>1, <1>2

\* Taking the first script away shifts the others.
LEMMA MentionsTail ==
  ASSUME NEW S, NEW q \in Seq(S), q # << >>, NEW n
  PROVE  /\ \A i \in Nat : i \in Mentions(Tail(q), n) <=> (i # 0 /\ i + 1 \in Mentions(q, n))
         /\ 1 \in Mentions(q, n) <=> About(Head(q), n)
         /\ Mentions(q, n) \subseteq Nat \ {0}
         /\ Mentions(Tail(q), n) \subseteq Nat \ {0}
BY HeadTail DEF Mentions, About

\* The first script decides only when no other one speaks of n.
LEMMA DefinesTail ==
  ASSUME NEW S, NEW q \in Seq(S), q # << >>, NEW n
  PROVE  /\ Mentions(Tail(q), n) # {} => (Defines(Tail(q), n) <=> Defines(q, n))
         /\ Mentions(Tail(q), n) = {} /\ About(Head(q), n)
              => (Defines(q, n) <=> Head(q).op = "bind")
         /\ Mentions(Tail(q), n) = {} /\ ~About(Head(q), n) => Mentions(q, n) = {}
<1> DEFINE M == Mentions(q, n)
           T == Mentions(Tail(q), n)
<1>1. /\ \A i \in Nat : i \in T <=> (i # 0 /\ i + 1 \in M)
      /\ 1 \in M <=> About(Head(q), n)
      /\ M \subseteq Nat \ {0} /\ T \subseteq Nat \ {0}
  BY MentionsTail
<1>2. \A i \in T : Tail(q)[i] = q[i + 1]
  BY HeadTail DEF Mentions
<1>3. \A i \in M : i = 1 \/ i - 1 \in T
  BY <1>1
<1> HIDE DEF M, T
<1>4. ASSUME T # {} PROVE Defines(Tail(q), n) <=> Defines(q, n)
  <2>1. PICK k \in T : TRUE
    BY <1>4
  <2>2. ASSUME Defines(Tail(q), n) PROVE Defines(q, n)
    <3>1. PICK i \in T : Tail(q)[i].op = "bind" /\ \A j \in T : j <= i
      BY <2>2 DEF Defines, T
    <3>2. i + 1 \in M /\ q[i + 1].op = "bind" /\ \A j \in M : j <= i + 1
      <4>1. i \in Nat /\ i + 1 \in M /\ q[i + 1].op = "bind"
        BY <1>1, <1>2, <3>1
      <4>2. ASSUME NEW j \in M PROVE j <= i + 1
        <5>1. j \in Nat /\ (j = 1 \/ (j - 1 \in T /\ j - 1 <= i))
          BY <1>1, <1>3, <3>1
        <5>2. QED
          BY <4>1, <5>1
      <4>3. QED
        BY <4>1, <4>2
    <3>3. QED
      BY <3>2 DEF Defines, M
  <2>3. ASSUME Defines(q, n) PROVE Defines(Tail(q), n)
    <3>1. PICK i \in M : q[i].op = "bind" /\ \A j \in M : j <= i
      BY <2>3 DEF Defines, M
    <3>2. k + 1 \in M /\ i # 1
      BY <1>1, <2>1, <3>1
    <3>3. i - 1 \in T /\ Tail(q)[i - 1].op = "bind" /\ \A j \in T : j <= i - 1
      <4>1. i \in Nat /\ i - 1 \in T /\ q[i - 1 + 1] = q[i]
        BY <1>1, <1>3, <3>1, <3>2
      <4>2. Tail(q)[i - 1].op = "bind"
        BY <1>2, <3>1, <4>1
      <4>3. ASSUME NEW j \in T PROVE j <= i - 1
        <5>1. j \in Nat /\ j + 1 \in M
          BY <1>1
        <5>2. j + 1 <= i
          BY <3>1, <5>1
        <5>3. QED
          BY <4>1, <5>1, <5>2
      <4>4. QED
        BY <4>1, <4>2, <4>3
    <3>4. QED
      BY <3>3 DEF Defines, T
  <2>4. QED
    BY <2>2, <2>3
<1>5. ASSUME T = {}, About(Head(q), n) PROVE Defines(q, n) <=> Head(q).op = "bind"
  <2>1. M = {1}
    BY <1>1, <1>3, <1>5
  <2>2. q[1] = Head(q)
    BY HeadTail
  <2>3. QED
    BY <2>1, <2>2 DEF Defines, M
<1>6. ASSUME T = {}, ~About(Head(q), n) PROVE M = {}
  BY <1>1, <1>3, <1>6
<1>7. QED
  BY <1>4, <1>5, <1>6 DEF M, T
-----------------------------------------------------------------------------
\* The init scripts define what is bound, and so does the last script under way
ViewExact(n) ==
  /\ n \in bindings <=> Defines(userScripts, n)
  /\ Mentions(scripts, n) = {} => (n \in fns <=> n \in bindings)
  /\ Mentions(scripts, n) # {} => (Defines(scripts, n) <=> n \in bindings)

ViewInv == TypeOK /\ \A n \in Names : ViewExact(n)

\* The invariant holds at first.
LEMMA ViewInit == Init => ViewInv
BY DEF Init, ViewInv, TypeOK, ViewExact, Defines, Mentions

\* Every step keeps it.
LEMMA ViewStep ==
  ASSUME ViewInv, [Next]_vars
  PROVE  ViewInv'
<1>t. TypeOK /\ TypeOK'
  BY TypeStep DEF ViewInv
<1>s. userScripts \in Seq(BindingScript) /\ scripts \in Seq(Script)
  BY <1>t DEF TypeOK
<1> SUFFICES ASSUME NEW m \in Names, ViewExact(m) PROVE ViewExact(m)'
  BY <1>t DEF ViewInv
<1>1. ASSUME UNCHANGED <<bindings, userScripts, scripts, fns>> PROVE ViewExact(m)'
  BY <1>1 DEF ViewExact, Defines, Mentions
<1>2. ASSUME NEW js \in BindingScript, InitAndEval(js), UNCHANGED fns,
             m \in bindings' <=> IF js.name = m THEN js.op = "bind" ELSE m \in bindings
      PROVE  ViewExact(m)'
  <2>1. js \in Script /\ (About(js, m) <=> js.name = m)
    BY DEF Script, BindingScript, About
  <2>2. userScripts' = Append(userScripts, js) /\ scripts' = Append(scripts, js)
    BY <1>2 DEF InitAndEval
  <2>3. CASE js.name = m
    <3>1. Defines(userScripts', m) <=> js.op = "bind"
      BY <1>s, <2>1, <2>2, <2>3, DefinesAppend
    <3>2. Defines(scripts', m) <=> js.op = "bind"
      BY <1>s, <2>1, <2>2, <2>3, DefinesAppend
    <3>3. Mentions(scripts', m) = Mentions(scripts, m) \cup {Len(scripts) + 1}
      BY <1>s, <2>1, <2>2, <2>3, MentionsAppend
    <3>4. QED
      BY <1>2, <2>3, <3>1, <3>2, <3>3 DEF ViewExact
  <2>4. CASE js.name # m
    <3>1. Defines(userScripts', m) <=> Defines(userScripts, m)
      BY <1>s, <2>1, <2>2, <2>4, DefinesAppend
    <3>2. /\ Defines(scripts', m) <=> Defines(scripts, m)
          /\ Mentions(scripts', m) = Mentions(scripts, m)
      BY <1>s, <2>1, <2>2, <2>4, DefinesAppend, MentionsAppend
    <3>3. QED
      BY <1>2, <2>4, <3>1, <3>2 DEF ViewExact
  <2>5. QED
    BY <2>3, <2>4
<1>3. ASSUME NEW n \in Names, Bind(n) PROVE ViewExact(m)'
  <2> DEFINE js == [op |-> "bind", name |-> n]
  <2>1. js \in BindingScript /\ js.op = "bind" /\ js.name = n
    BY DEF BindingScript
  <2>2. InitAndEval(js) /\ UNCHANGED fns /\ bindings' = bindings \cup {n}
    BY <1>3 DEF Bind, page
  <2>3. QED
    BY <1>2, <2>1, <2>2
<1>4. ASSUME NEW n \in Names, Unbind(n) PROVE ViewExact(m)'
  <2> DEFINE js == [op |-> "unbind", name |-> n]
  <2>1. js \in BindingScript /\ js.op = "unbind" /\ js.name = n
    BY DEF BindingScript
  <2>2. InitAndEval(js) /\ UNCHANGED fns /\ bindings' = bindings \ {n}
    BY <1>4 DEF Unbind, page
  <2>3. QED
    BY <1>2, <2>1, <2>2
<1>5. CASE RunTask
  <2> DEFINE t == Head(tasks)
             js == [op |-> IF t.status = 0 THEN "resolve" ELSE "reject",
                    seq |-> t.seq, by |-> t.by, nth |-> t.nth]
  <2>1. t \in Posted
    BY <1>t, <1>5, HeadTail DEF RunTask, TypeOK
  <2>2. js \in Script /\ ~About(js, m)
    BY <2>1 DEF Posted, Script, ReplyScript, About
  <2>3. scripts' = Append(scripts, js) /\ UNCHANGED <<bindings, userScripts, fns>>
    BY <1>5 DEF RunTask, page
  <2>4. /\ Defines(scripts', m) <=> Defines(scripts, m)
        /\ Mentions(scripts', m) = Mentions(scripts, m)
    BY <1>s, <2>2, <2>3, DefinesAppend, MentionsAppend
  <2>5. QED
    BY <2>3, <2>4 DEF ViewExact
<1>6. CASE RunScript
  <2> DEFINE js == Head(scripts)
  <2>1. scripts # << >> /\ scripts' = Tail(scripts) /\ UNCHANGED <<bindings, userScripts>>
    BY <1>6 DEF RunScript, native
  <2>2. m \in fns' <=> IF About(js, m) THEN js.op = "bind" ELSE m \in fns
    BY <1>6 DEF RunScript, RunBind, RunUnbind, RunReply, About
  <2>3. CASE Mentions(Tail(scripts), m) # {}
    <3>1. Defines(scripts', m) <=> Defines(scripts, m)
      BY <1>s, <2>1, <2>3, DefinesTail
    <3>2. Mentions(scripts, m) # {}
      BY <1>s, <2>1, <2>3, MentionsTail
    <3>3. QED
      BY <2>1, <2>3, <3>1, <3>2 DEF ViewExact
  <2>4. CASE Mentions(Tail(scripts), m) = {} /\ About(js, m)
    <3>1. Defines(scripts, m) <=> js.op = "bind"
      BY <1>s, <2>1, <2>4, DefinesTail
    <3>2. Mentions(scripts, m) # {}
      BY <1>s, <2>1, <2>4, MentionsTail
    <3>3. QED
      BY <2>1, <2>2, <2>4, <3>1, <3>2 DEF ViewExact
  <2>5. CASE Mentions(Tail(scripts), m) = {} /\ ~About(js, m)
    <3>1. Mentions(scripts, m) = {}
      BY <1>s, <2>1, <2>5, DefinesTail
    <3>2. QED
      BY <2>1, <2>2, <2>5, <3>1 DEF ViewExact
  <2>6. QED
    BY <2>3, <2>4, <2>5
<1>7. CASE Load
  <2>1. /\ m \in fns' <=> Defines(userScripts, m)
        /\ scripts' = scripts \/ scripts' = << >>
        /\ UNCHANGED <<bindings, userScripts>>
    BY <1>7 DEF Load, FreshPage, native
  <2>2. Mentions(<< >>, m) = {}
    BY DEF Mentions
  <2>3. QED
    BY <2>1, <2>2 DEF ViewExact
<1>8. CASE OnMessage
  BY <1>1, <1>8 DEF OnMessage, AnswersAtOnce, HandsOver, page
<1>9. ASSUME NEW job \in jobs, Answer(job) \/ AnswerTwice(job) PROVE ViewExact(m)'
  BY <1>1, <1>9 DEF Answer, AnswerTwice, page
<1>10. ASSUME NEW n \in Names, NEW sent \in BOOLEAN, Call(n, sent) PROVE ViewExact(m)'
  BY <1>1, <1>10 DEF Call, native
<1>11. CASE UNCHANGED vars
  BY <1>1, <1>11 DEF vars, native, page
<1>12. CASE DropTask
  BY <1>1, <1>12 DEF DropTask, page
<1>13. QED
  BY <1>3, <1>4, <1>5, <1>6, <1>7, <1>8, <1>9, <1>10, <1>11, <1>12 DEF Next

\* PageAgreesWithBindings: once the scripts about a name have run, the page has
\* the function exactly if the name is bound.
THEOREM PageAgrees == Spec => []PageAgreesWithBindings
<1>1. ViewInv => PageAgreesWithBindings
  BY DEF ViewInv, ViewExact, PageAgreesWithBindings
<1>2. QED
  BY <1>1, ViewInit, ViewStep, PTL DEF Spec
=============================================================================
