--------------------------- MODULE MainLoopProof ---------------------------
(* Theorems about MainLoop, for any webviews, functions and engines.       *)
EXTENDS MainLoop, TLAPS

\* The first element of a queue, and what is left without it.
LEMMA HeadTail == ASSUME NEW S, NEW s \in Seq(S), s # << >>
                  PROVE  Head(s) \in S /\ Tail(s) \in Seq(S)
  OBVIOUS

\* What terminate() leaves: a request to quit is never taken back
LEMMA TerminatesTypes ==
  ASSUME TypeOK, NEW thread \in {"main", "background"}, Terminates(thread)
  PROVE  /\ quit' \in {quit, TRUE} /\ quit' \in BOOLEAN
         /\ told' \subseteq {"main", "background"} \X BOOLEAN
<1>1. quit' \in {quit, TRUE} /\ quit' \in BOOLEAN
  <2>1. Heeds(thread) \in BOOLEAN
    BY ConstantsAssumption DEF TypeOK, Heeds, GtkHeeds, CocoaHeeds, Win32Heeds
  <2> QED BY <2>1 DEF Terminates, TypeOK
<1>2. <<thread, running # None>> \in {"main", "background"} \X BOOLEAN
  OBVIOUS
<1> QED BY <1>1, <1>2 DEF Terminates, TypeOK

\* The types and what they say of the loop: it belongs to a live webview, and
\* at most one webview is being created.
LEMMA TypeStep == TypeOK /\ [Next]_vars => TypeOK'
<1> SUFFICES ASSUME TypeOK, [Next]_vars PROVE TypeOK'
  OBVIOUS
<1> USE ConstantsAssumption DEF TypeOK, Outside, Looping, Use
<1>1. CASE UNCHANGED vars
  BY <1>1 DEF vars
<1>2. ASSUME NEW w \in Webviews, CreateGtk(w) \/ CreateCocoa(w) PROVE TypeOK'
  BY <1>2 DEF CreateGtk, CreateCocoa, FinishesLaunching
<1>3. ASSUME NEW w \in Webviews, CreateWin32(w) PROVE TypeOK'
  BY <1>3 DEF CreateWin32
<1>4. ASSUME NEW w \in Webviews, EmbedEnds(w) PROVE TypeOK'
  BY <1>4 DEF EmbedEnds
<1>5. ASSUME NEW w \in Webviews, NEW f \in Functions, Dispatch(f, w) PROVE TypeOK'
  BY <1>5 DEF Dispatch, Entry, Entries
<1>6. ASSUME NEW w \in Webviews, EmbedMeetsQuit(w) PROVE TypeOK'
  BY <1>6 DEF EmbedMeetsQuit
<1>7. ASSUME NEW w \in Webviews, PageMessage(w) PROVE TypeOK'
  <2>1. CASE Terminates("main") /\ UNCHANGED <<engine, stage, window, running, foreign, queue,
                                                exited, ran, lost, misused>>
    <3>1. quit' \in BOOLEAN /\ told' \subseteq {"main", "background"} \X BOOLEAN
      BY <2>1, TerminatesTypes
    <3> QED BY <2>1, <3>1
  <2>2. CASE \E f \in Functions : Dispatch(f, w)
    BY <2>2, <1>5
  <2> QED BY <1>7, <2>1, <2>2 DEF PageMessage
<1>8. ASSUME NEW w \in Webviews, Run(w) PROVE TypeOK'
  BY <1>8 DEF Run
<1>9. ASSUME NEW w \in Webviews, CloseWindow(w) PROVE TypeOK'
  <2>1. quit' \in BOOLEAN /\ told' \subseteq {"main", "background"} \X BOOLEAN
    BY <1>9, TerminatesTypes DEF CloseWindow
  <2> QED BY <1>9, <2>1 DEF CloseWindow, ClosingUses
<1>10. ASSUME NEW w \in Webviews, WindowEvent(w) \/ Destroy(w) PROVE TypeOK'
  BY <1>10 DEF WindowEvent, Destroy
<1>11. CASE Drag \/ DragEnds
  BY <1>11 DEF Drag, DragEnds
<1>12. CASE ForeignDrops
  <2>1. Head(queue) \in Entries /\ Tail(queue) \in Seq(Entries)
    BY <1>12, HeadTail DEF ForeignDrops
  <2>2. Head(queue).fn \in Functions
    BY <2>1 DEF Entries
  <2> QED BY <1>12, <2>1, <2>2 DEF ForeignDrops
<1>13. CASE RunFunction
  <2>1. Head(queue) \in Entries /\ Tail(queue) \in Seq(Entries)
    BY <1>13, HeadTail DEF RunFunction
  <2>2. Append(ran, Head(queue)) \in Seq(Entries)
    BY <2>1
  <2>3. misused' \subseteq Webviews
    <3>1. Head(queue).of \in Webviews
      BY <2>1 DEF Entries
    <3> QED BY <1>13, <3>1 DEF RunFunction
  <2>4. quit' \in BOOLEAN /\ told' \subseteq {"main", "background"} \X BOOLEAN
    BY <1>13, TerminatesTypes DEF RunFunction
  <2> QED BY <1>13, <2>1, <2>2, <2>3, <2>4 DEF RunFunction
<1>14. CASE LoopEnds \/ Exit
  BY <1>14 DEF LoopEnds, Exit
<1>15. ASSUME NEW thread \in {"main", "background"}, Terminate(thread) PROVE TypeOK'
  <2>1. quit' \in BOOLEAN /\ told' \subseteq {"main", "background"} \X BOOLEAN
    BY <1>15, TerminatesTypes DEF Terminate
  <2> QED BY <1>15, <2>1 DEF Terminate
<1> QED
  BY <1>1, <1>2, <1>3, <1>4, <1>8, <1>9, <1>10, <1>5, <1>11, <1>12, <1>13, <1>14, <1>15,
     <1>6, <1>7 DEF Next

\* run() never goes on for a webview that is not live (c_api.cpp:13-19), on any
\* engine and for any number of webviews and functions.
THEOREM LoopTypes == Spec => []TypeOK
<1>1. Init => TypeOK
  <2> SUFFICES ASSUME Init PROVE TypeOK
    OBVIOUS
  <2>1. queue \in Seq(Entries) /\ ran \in Seq(Entries)
    BY DEF Init
  <2>2. \A w \in Webviews : stage[w] = "new"
    BY DEF Init
  <2> QED BY <2>1, <2>2, ConstantsAssumption DEF Init, TypeOK
<1> QED BY <1>1, TypeStep, PTL DEF Spec
-----------------------------------------------------------------------------
\* Nothing of a destroyed webview is used as long as it was the only one: some
\* other webview is live, or being created, whenever a loop delivers something.
THEOREM AliveHolds == Spec => []AliveWhileAlone
<1>1. Init => AliveWhileAlone
  BY DEF Init, AliveWhileAlone
<1>2. TypeOK /\ AliveWhileAlone /\ [Next]_vars => AliveWhileAlone'
  <2> SUFFICES ASSUME TypeOK, AliveWhileAlone, [Next]_vars PROVE AliveWhileAlone'
    OBVIOUS
  <2> DEFINE Two == \E v, w \in Webviews : v # w /\ stage[v] # "new" /\ stage[w] # "new"
  <2>1. Two => Two'
    <3> SUFFICES ASSUME NEW v \in Webviews, stage[v] # "new" PROVE stage'[v] # "new"
      OBVIOUS
    <3> QED
      BY DEF TypeOK, Next, vars, CreateGtk, CreateCocoa, FinishesLaunching, CreateWin32, EmbedEnds,
             EmbedMeetsQuit, Run, CloseWindow, WindowEvent, PageMessage, Destroy, Dispatch, Drag, DragEnds, ForeignDrops,
             RunFunction, LoopEnds, Exit, Terminate
  <2>2. ASSUME NEW w \in Webviews, Use(w), ~Outside, stage' = stage PROVE AliveWhileAlone'
    <3>1. CASE stage[w] # "destroyed"
      BY <2>1, <2>2, <3>1 DEF AliveWhileAlone, Use
    <3>2. CASE stage[w] = "destroyed" /\ running # None
      BY <2>2, <3>2 DEF AliveWhileAlone, TypeOK
    <3>3. CASE stage[w] = "destroyed" /\ running = None
      BY <2>2, <3>3 DEF AliveWhileAlone, TypeOK, Outside
    <3> QED BY <3>1, <3>2, <3>3
  <2>3. CASE UNCHANGED misused
    BY <2>1, <2>3 DEF AliveWhileAlone
  <2>4. ASSUME NEW w \in Webviews, CloseWindow(w) \/ WindowEvent(w) PROVE AliveWhileAlone'
    <3>1. CASE CloseWindow(w) /\ engine = "cocoa"
      BY <2>3, <3>1 DEF CloseWindow, ClosingUses
    <3>2. CASE CloseWindow(w) /\ engine # "cocoa"
      BY <2>2, <3>2 DEF CloseWindow, ClosingUses
    <3>3. CASE WindowEvent(w)
      BY <2>2, <3>3 DEF WindowEvent
    <3> QED BY <2>4, <3>1, <3>2, <3>3
  <2>5. CASE RunFunction
    <3>1. Head(queue) \in Entries
      BY <2>5, HeadTail DEF RunFunction, TypeOK
    <3>2. Head(queue).of \in Webviews
      BY <3>1 DEF Entries
    <3> QED BY <2>2, <2>5, <3>2 DEF RunFunction, Looping, Outside
  <2>6. CASE LoopEnds \/ Exit \/ Drag \/ DragEnds \/ ForeignDrops
    BY <2>3, <2>6 DEF LoopEnds, Exit, Drag, DragEnds, ForeignDrops
  <2>7. ASSUME NEW w \in Webviews,
               \/ CreateGtk(w) \/ CreateCocoa(w) \/ CreateWin32(w) \/ EmbedEnds(w)
               \/ EmbedMeetsQuit(w) \/ Run(w) \/ Destroy(w) \/ PageMessage(w)
               \/ \E f \in Functions : Dispatch(f, w)
        PROVE AliveWhileAlone'
    BY <2>3, <2>7 DEF CreateGtk, CreateCocoa, FinishesLaunching, CreateWin32, EmbedEnds,
       EmbedMeetsQuit, Run, Destroy, PageMessage, Dispatch
  <2>8. ASSUME NEW thread \in {"main", "background"}, Terminate(thread) PROVE AliveWhileAlone'
    BY <2>3, <2>8 DEF Terminate
  <2> QED BY <2>3, <2>4, <2>5, <2>6, <2>7, <2>8 DEF Next, vars
<1> QED BY <1>1, <1>2, LoopTypes, PTL DEF Spec
-----------------------------------------------------------------------------
\* Every step of an engine is one UiLoop may take, or is invisible in it.
LEMMA StepRefines == TypeOK /\ [Next]_vars => [Loop!Next]_(Loop!vars)
<1> SUFFICES ASSUME TypeOK, [Next]_vars PROVE Loop!Next \/ UNCHANGED Loop!vars
  OBVIOUS
<1>0. Next => ~exited
  BY DEF Next
<1> USE ConstantsAssumption DEF Loop!vars, Outside, Looping
<1>1. CASE UNCHANGED vars
  BY <1>1 DEF vars
<1>2. ASSUME NEW w \in Webviews, CreateGtk(w) \/ CreateCocoa(w) \/ WindowEvent(w) \/ Destroy(w)
      PROVE UNCHANGED Loop!vars
  BY <1>2 DEF CreateGtk, CreateCocoa, FinishesLaunching, WindowEvent, Destroy
<1>3. ASSUME NEW w \in Webviews, CreateWin32(w) \/ EmbedEnds(w) PROVE Loop!Nest
  BY <1>3 DEF CreateWin32, EmbedEnds, Loop!Nest, TypeOK
<1>4. ASSUME Drag \/ DragEnds PROVE Loop!Nest
  BY <1>4 DEF Drag, DragEnds, Loop!Nest
<1>5. ASSUME Next, NEW w \in Webviews, Run(w) PROVE Loop!Start
  BY <1>0, <1>5 DEF Run, Loop!Start
<1>6. ASSUME NEW w \in Webviews, CloseWindow(w) PROVE Loop!Ask \/ UNCHANGED Loop!vars
  <2>1. quit' \in {quit, TRUE}
    BY <1>6, TerminatesTypes DEF CloseWindow
  <2> QED BY <1>6, <2>1 DEF CloseWindow, Loop!Ask
<1>7. ASSUME NEW w \in Webviews, NEW f \in Functions, Dispatch(f, w)
      PROVE \E e \in Entries : Loop!Post(e)
  BY <1>7 DEF Dispatch, Entry, Loop!Post, Entries
<1>8. ASSUME NEW w \in Webviews, EmbedMeetsQuit(w) PROVE Loop!Forget
  BY <1>8 DEF EmbedMeetsQuit, Loop!Forget, TypeOK
<1>9. ASSUME NEW w \in Webviews, PageMessage(w)
       PROVE  Loop!Ask \/ UNCHANGED Loop!vars \/ \E e \in Entries : Loop!Post(e)
  <2>1. CASE Terminates("main") /\ UNCHANGED <<engine, stage, window, running, foreign, queue,
                                                exited, ran, lost, misused>>
    <3>1. quit' \in {quit, TRUE}
      BY <2>1, TerminatesTypes
    <3> QED BY <2>1, <3>1 DEF Loop!Ask
  <2> QED BY <1>7, <1>9, <2>1 DEF PageMessage
<1>10. ASSUME ForeignDrops PROVE Loop!Drop
  BY <1>10 DEF ForeignDrops, Loop!Drop
<1>11. ASSUME Next, RunFunction PROVE Loop!RunOne
  <2>1. quit' \in {quit, TRUE}
    BY <1>11, TerminatesTypes DEF RunFunction
  <2> QED BY <1>0, <1>11, <2>1 DEF RunFunction, Loop!RunOne
<1>12. ASSUME Next, LoopEnds PROVE Loop!Return
  BY <1>0, <1>12 DEF LoopEnds, Loop!Return
<1>13. CASE Exit
  BY <1>13 DEF Exit
<1>14. ASSUME NEW thread \in {"main", "background"}, Terminate(thread)
       PROVE Loop!Ask \/ UNCHANGED Loop!vars
  <2>1. quit' \in {quit, TRUE}
    BY <1>14, TerminatesTypes DEF Terminate
  <2> QED BY <1>14, <2>1 DEF Terminate, Loop!Ask
<1> QED
  BY <1>1, <1>2, <1>3, <1>4, <1>5, <1>6, <1>7, <1>10, <1>11, <1>12, <1>13, <1>14,
     <1>8, <1>9 DEF Next, Loop!Next

\* The engines run functions once and in the order they were dispatched, drop
\* them, and forget to return, in the loops that take the place of run() only,
\* and leave run() only when terminate was heeded (webview.h:109-119).
THEOREM EnginesAreLoops == Spec => IsUiLoop
<1>1. Init => Loop!Init
  BY DEF Init, Loop!Init
<1> QED BY <1>1, LoopTypes, StepRefines, PTL DEF Spec, IsUiLoop, Loop!Spec
=============================================================================
