------------------------------- MODULE GoGlue -------------------------------
(***************************************************************************)
(* The Go binding (webview.go, webview_go_glue.c).  C cannot hold a Go     *)
(* function, so Dispatch and Bind store it in a map of the package under a *)
(* slot and pass the slot to C; the callbacks coming back from C look the  *)
(* function up again.  Both maps are guarded by one mutex and share one    *)
(* variable, index, that says where to look for a free slot.  The slot     *)
(* passed to C is read from index after the mutex has been released.       *)
(*                                                                         *)
(* Each function is dispatched or bound once, by a goroutine of its own;   *)
(* Bind is called on the main thread only, which runs the callbacks too.   *)
(***************************************************************************)
EXTENDS GoBinding, FiniteSets

CONSTANTS
  Dispatched,  \* functions given to Dispatch
  Bound,       \* functions given to Bind
  Types,       \* types of their parameters
  SignatureOf, \* the signature of each of them
  Requests,    \* arguments a page calls them with
  Serial,      \* the application makes these calls one at a time
  Lossy,       \* messages to the main loop may be lost, as on Win32
  None         \* no function: the zero value of a map's element

ASSUME FunctionsAssumption ==
  /\ IsFiniteSet(Dispatched) /\ IsFiniteSet(Bound)
  /\ Serial \in BOOLEAN /\ Lossy \in BOOLEAN
  /\ Dispatched \cap Bound = {} /\ None \notin Dispatched \cup Bound

ASSUME RequestsAssumption ==
  /\ SignatureOf \in [Bound -> Signature(Types)]
  /\ Requests \subseteq Seq(SUBSET Types)

Functions == Dispatched \cup Bound
Slots == 0..Cardinality(Functions)  \* no call needs a higher slot

VARIABLES
  index,     \* where the search for a free slot starts
  dispatch,  \* the map of dispatched functions
  bindings,  \* the map of bound functions
  pc,        \* progress of the call that passes a function to C
  posted,    \* slots posted to the main loop, oldest first
  context,   \* the slot in the binding_context of a bound function
  ran,       \* history: dispatched functions that were run, in order
  lost,      \* history: those whose message was lost: they stay in the map
  reply      \* history: what the last request for a bound function led to

vars == <<index, dispatch, bindings, pc, posted, context, ran, lost, reply>>

\* The function that was asked for, the one found in its slot, whether that was
\* called and with which arguments, its results and the status of the answer
Reply == [asked : Bound \cup {None}, found : Bound \cup {None}, called : BOOLEAN,
          args : Seq(Types), res : Seq({"nil", "set", "odd"}), status : {0, -1}]
NoReply == [asked |-> None, found |-> None, called |-> FALSE,
            args |-> << >>, res |-> << >>, status |-> -1]

TypeOK ==
  /\ index \in Slots
  /\ dispatch \in [Slots -> Dispatched \cup {None}]
  /\ bindings \in [Slots -> Bound \cup {None}]
  /\ pc \in [Functions -> {"before", "stored", "passed"}]
  /\ posted \in Seq(Slots)
  /\ context \in [Bound -> Slots \cup {-1}]
  /\ ran \in Seq(Dispatched \cup {None}) /\ lost \subseteq Dispatched \cup {None}
  /\ reply \in Reply

Init ==
  /\ index = 0
  /\ dispatch = [s \in Slots |-> None]
  /\ bindings = [s \in Slots |-> None]
  /\ pc = [f \in Functions |-> "before"]
  /\ posted = << >> /\ context = [f \in Bound |-> -1]
  /\ ran = << >> /\ lost = {} /\ reply = NoReply
-----------------------------------------------------------------------------
\* Mutant: takes the next slot without looking whether it is free
FreeSlotUnchecked(map) == index

\* The first slot from index on that holds no function
FreeSlot(map) ==
  CHOOSE s \in Slots :
    /\ s >= index /\ map[s] = None
    /\ \A r \in index..(s - 1) : map[r] # None

\* The main thread is between the two halves of Bind
Binding == \E f \in Bound : pc[f] = "stored"

\* A nil function was called: the panic has ended the process
Panicked ==
  \/ \E i \in DOMAIN ran : ran[i] = None
  \/ reply.asked # None /\ reply.found = None

\* The application lets a call of Dispatch or Bind begin
MayBegin(f) ==
  /\ pc[f] = "before"
  /\ Serial => \A g \in Functions : pc[g] # "stored"

\* The part of Dispatch that holds the mutex: find a free slot, fill it
DispatchStore(f) ==
  /\ MayBegin(f)
  /\ index' = FreeSlot(dispatch)
  /\ dispatch' = [dispatch EXCEPT ![index'] = f]
  /\ pc' = [pc EXCEPT ![f] = "stored"]
  /\ UNCHANGED <<bindings, posted, context, ran, lost, reply>>

\* Its last line, after the mutex is released, reads index again
DispatchPost(f) ==
  /\ pc[f] = "stored"
  /\ posted' = Append(posted, index)
  /\ pc' = [pc EXCEPT ![f] = "passed"]
  /\ UNCHANGED <<index, dispatch, bindings, context, ran, lost, reply>>

\* Mutant: Bind searches the map of dispatched functions for a free slot
BindStoreOtherMap(f) ==
  /\ MayBegin(f)
  /\ ~Binding /\ Bindable(SignatureOf[f])
  /\ index' = FreeSlot(dispatch)
  /\ bindings' = [bindings EXCEPT ![index'] = f]
  /\ pc' = [pc EXCEPT ![f] = "stored"]
  /\ UNCHANGED <<dispatch, posted, context, ran, lost, reply>>

\* Mutant: Bind stores its function in the map of dispatched functions
BindStoreInDispatch(f) ==
  /\ MayBegin(f)
  /\ ~Binding /\ Bindable(SignatureOf[f])
  /\ index' = FreeSlot(bindings)
  /\ dispatch' = [dispatch EXCEPT ![index'] = f]
  /\ pc' = [pc EXCEPT ![f] = "stored"]
  /\ UNCHANGED <<bindings, posted, context, ran, lost, reply>>

\* The same two halves in Bind; the slot is kept in a binding_context
BindStore(f) ==
  /\ MayBegin(f)
  /\ ~Binding /\ Bindable(SignatureOf[f])
  /\ index' = FreeSlot(bindings)
  /\ bindings' = [bindings EXCEPT ![index'] = f]
  /\ pc' = [pc EXCEPT ![f] = "stored"]
  /\ UNCHANGED <<dispatch, posted, context, ran, lost, reply>>

BindPass(f) ==
  /\ pc[f] = "stored"
  /\ context' = [context EXCEPT ![f] = index]
  /\ pc' = [pc EXCEPT ![f] = "passed"]
  /\ UNCHANGED <<index, dispatch, bindings, posted, ran, lost, reply>>

\* Mutant: the function stays in the map
DispatchCallbackKeeps ==
  /\ posted # << >> /\ ~Binding
  /\ posted' = Tail(posted)
  /\ ran' = Append(ran, dispatch[Head(posted)])
  /\ UNCHANGED <<index, dispatch, bindings, pc, context, lost, reply>>

\* Mutant: the whole map is cleared
DispatchCallbackClears ==
  /\ posted # << >> /\ ~Binding
  /\ posted' = Tail(posted)
  /\ ran' = Append(ran, dispatch[Head(posted)])
  /\ dispatch' = [s \in Slots |-> None]
  /\ UNCHANGED <<index, bindings, pc, context, lost, reply>>

\* The main loop takes a slot, deletes its function from the map and calls it:
\* calling None is a panic
DispatchCallback ==
  /\ posted # << >> /\ ~Binding
  /\ posted' = Tail(posted)
  /\ ran' = Append(ran, dispatch[Head(posted)])
  /\ dispatch' = [dispatch EXCEPT ![Head(posted)] = None]
  /\ UNCHANGED <<index, bindings, pc, context, lost, reply>>

\* On Win32 a loop that is not run()'s drops the message with the slot, or the
\* thread's queue is full: the message then counts as dropped when its turn comes
MessageLost ==
  /\ Lossy /\ posted # << >> /\ ~Binding
  /\ posted' = Tail(posted)
  /\ lost' = lost \cup {dispatch[Head(posted)]}
  /\ UNCHANGED <<index, dispatch, bindings, pc, context, ran, reply>>

\* A page calls a bound function with arguments raw.  The one in its slot is
\* called with them, or refuses them; None is a panic.
BindingCallback(f) ==
  /\ pc[f] = "passed" /\ ~Binding
  /\ LET g == bindings[context[f]]
         to_f == [NoReply EXCEPT !.asked = f, !.found = g]
         h == SignatureOf[g] IN
       \/ g = None /\ reply' = to_f
       \/ g # None /\ \E raw \in Requests :
            \/ ~Called(h, raw) /\ reply' = to_f
            \/ Called(h, raw) /\ \E res \in Results(h) :
                 reply' = [to_f EXCEPT !.called = TRUE, !.args = Arguments(h, raw),
                                       !.res = res, !.status = Status(h, res)]
  /\ UNCHANGED <<index, dispatch, bindings, pc, posted, context, ran, lost>>

Next ==
  /\ ~Panicked
  /\ \/ \E f \in Dispatched : DispatchStore(f) \/ DispatchPost(f)
     \/ \E f \in Bound : BindStore(f) \/ BindPass(f) \/ BindingCallback(f)
     \/ DispatchCallback \/ MessageLost

Spec == Init /\ [][Next]_vars

\* A call of Dispatch that has begun ends; the main loop runs what is posted
\* and a call of Bind on the main thread ends
Fairness ==
  /\ \A f \in Dispatched : WF_vars(~Panicked /\ DispatchPost(f))
  /\ \A f \in Bound : WF_vars(~Panicked /\ BindPass(f))
  /\ WF_vars(~Panicked /\ DispatchCallback)

FairSpec == Spec /\ Fairness
-----------------------------------------------------------------------------
TimesRun(f) == Cardinality({i \in DOMAIN ran : ran[i] = f})

\* No slot comes back from C empty or twice: every dispatched function is run at
\* most once, and None never, although slots are reused (webview.go:202-218).
RunsEachOnce ==
  /\ TimesRun(None) = 0
  /\ \A f \in Dispatched : TimesRun(f) <= 1

\* A function in the map whose Dispatch has returned has its slot on the way to
\* the main loop, unless Win32 has lost the message (mswebview_engine.cpp:125,
\* 215-219), and nothing on the way has lost its function (webview.go:202-218).
PostedIffStored ==
  \A s \in Slots :
    (\E i \in DOMAIN posted : posted[i] = s)
      <=> (dispatch[s] # None /\ pc[dispatch[s]] = "passed" /\ dispatch[s] \notin lost)

\* A function whose Dispatch has returned has been run, or its slot is on the way
\* to the main loop and leads to it: no other call and no callback that reuses a
\* slot can take it away before it runs (webview.go:202-218).  Only the loss of
\* its message can, on Win32 (mswebview_engine.cpp:125, 215-219).
NoneForgotten ==
  \A f \in Dispatched :
    pc[f] = "passed" =>
      \/ \E i \in DOMAIN posted : dispatch[posted[i]] = f
      \/ \E i \in DOMAIN ran : ran[i] = f
      \/ f \in lost

\* A call of a bound function reaches that very function, although Dispatch
\* moves the index Bind shares with it (webview.go:221-223, 307-314).
CallsOwnFunction == reply.found = reply.asked

\* Reflection never panics: whatever the page sends, a function is called with a
\* value of its type for each of its parameters, those of a variadic one
\* included (webview.go:259-278).
CallsFit == reply.called => Fits(SignatureOf[reply.asked], reply.args)

\* A page's promise is resolved exactly if the function it named was called and
\* its results, as Bind describes them, report no error and have JSON
\* (webview.go:225-239, 277-303).
ResolvedIffReturned ==
  reply.asked # None /\ Documented(SignatureOf[reply.asked]) =>
    (reply.status = 0 <=>
       /\ reply.called
       /\ \A i \in DOMAIN reply.res :
            reply.res[i] # (IF SignatureOf[reply.asked].out[i] = "error" THEN "set" ELSE "odd"))

\* webview.go:63: a function given to Dispatch is executed on the main thread.
\* Win32 keeps that only as far as it delivers the message with its slot
\* (mswebview_engine.cpp:125, 215-219): a lost message excuses its own function,
\* and no other.
EventuallyRun ==
  \A f \in Dispatched :
    pc[f] = "stored" ~> ((\E i \in DOMAIN ran : ran[i] = f) \/ f \in lost)
=============================================================================
