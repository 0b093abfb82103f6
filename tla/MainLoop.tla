------------------------------ MODULE MainLoop ------------------------------
(***************************************************************************)
(* Running and ending webviews: the C API's create, run, dispatch,         *)
(* terminate and destroy on each of the three engines.  All webviews of a  *)
(* process share its main thread and what is queued for it: GTK's idle     *)
(* sources, Cocoa's main dispatch queue, the thread messages of Win32.     *)
(* The application creates, runs and destroys webviews on the main thread, *)
(* outside of the loop; any thread dispatches and terminates, and so does  *)
(* a bound function, which any loop that shows the page may call.          *)
(***************************************************************************)
EXTENDS Integers, Sequences

CONSTANTS
  Engines,    \* engines to look at: a subset of {"gtk", "cocoa", "win32"}
  Webviews,   \* webviews the application creates
  Functions,  \* functions it dispatches, each once
  Quitters,   \* those of them that call terminate()
  None        \* no webview

ASSUME ConstantsAssumption ==
  /\ Engines \subseteq {"gtk", "cocoa", "win32"}
  /\ Quitters \subseteq Functions /\ None \notin Webviews

VARIABLES
  engine,   \* the engine of this build: never changes
  stage,    \* of each webview: "new", "creating", "live" or "destroyed"
  window,   \* its native window: "none", "open" or "closed"
  running,  \* the webview whose run() is under way
  foreign,  \* a loop that takes the messages in its place: "none", "embed", "drag"
  queue,    \* functions dispatched and not run yet, each with its webview
  quit,     \* gtk_main_quit was heeded, WM_QUIT is pending, terminate: was sent
  exited,   \* the process has ended, by terminate: or by a crash
  ran,      \* history: the functions that were run, in order
  lost,     \* history: functions that will never run
  told,     \* history: who called terminate for this loop, and if it was running
  misused   \* history: webviews that were used after they were destroyed

vars == <<engine, stage, window, running, foreign, queue, quit, exited,
          ran, lost, told, misused>>

Entries == [fn : Functions, of : Webviews]

TypeOK ==
  /\ engine \in Engines
  /\ stage \in [Webviews -> {"new", "creating", "live", "destroyed"}]
  /\ window \in [Webviews -> {"none", "open", "closed"}]
  /\ running \in Webviews \cup {None}
  /\ foreign \in {"none", "embed", "drag"}
  /\ queue \in Seq(Entries) /\ ran \in Seq(Entries)
  /\ quit \in BOOLEAN /\ exited \in BOOLEAN
  /\ lost \subseteq Functions /\ misused \subseteq Webviews
  /\ told \subseteq {"main", "background"} \X BOOLEAN
  /\ running # None => stage[running] = "live" /\ foreign # "embed"
  /\ foreign = "drag" => running # None
  /\ foreign = "embed" => \E w \in Webviews : stage[w] = "creating"
  /\ \A w \in Webviews : stage[w] = "creating" =>
        foreign = "embed" /\ \A v \in Webviews \ {w} : stage[v] # "creating"

Init ==
  /\ engine \in Engines
  /\ stage = [w \in Webviews |-> "new"] /\ window = [w \in Webviews |-> "none"]
  /\ running = None /\ foreign = "none"
  /\ queue = << >> /\ quit = FALSE /\ exited = FALSE
  /\ ran = << >> /\ lost = {} /\ told = {} /\ misused = {}
-----------------------------------------------------------------------------
\* The main thread runs application code, neither run() nor a constructor
Outside == running = None /\ foreign = "none"

\* The loop of run() takes the messages
Looping == running # None /\ foreign = "none"

\* w is used: noted if it is destroyed
Use(w) == misused' = IF stage[w] = "destroyed" THEN misused \cup {w} ELSE misused

\* Whether terminate() by this thread has an effect: gtk_main_quit only ends a
\* loop that is running, terminate: always ends the process, PostQuitMessage
\* posts WM_QUIT to the thread that calls it
GtkHeeds == running # None
CocoaHeeds == TRUE
Win32Heeds(thread) == thread = "main"

Heeds(thread) ==
  CASE engine = "gtk" -> GtkHeeds
    [] engine = "cocoa" -> CocoaHeeds
    [] engine = "win32" -> Win32Heeds(thread)

Terminates(thread) ==
  /\ quit' = (quit \/ Heeds(thread))
  /\ told' = told \cup {<<thread, running # None>>}

\* The application's delegate hears that it has launched: the window is opened,
\* with a web view, and the temporary loop of the constructor stops
FinishesLaunching(w) == window' = [window EXCEPT ![w] = "open"]

\* The constructors of GTK and Cocoa.  Cocoa's runs the application's loop until
\* it has launched; only a process's first webview is modelled, see README.
CreateGtk(w) ==
  /\ engine = "gtk" /\ Outside /\ stage[w] = "new"
  /\ stage' = [stage EXCEPT ![w] = "live"]
  /\ window' = [window EXCEPT ![w] = "open"]
  /\ UNCHANGED <<engine, running, foreign, queue, quit, exited, ran, lost, told, misused>>

CreateCocoa(w) ==
  /\ engine = "cocoa" /\ Outside /\ \A v \in Webviews : stage[v] = "new"
  /\ stage' = [stage EXCEPT ![w] = "live"]
  /\ FinishesLaunching(w)
  /\ UNCHANGED <<engine, running, foreign, queue, quit, exited, ran, lost, told, misused>>

\* On Win32 the constructor pumps messages in embed(): see EdgeEmbed, also for
\* creations that fail
CreateWin32(w) ==
  /\ engine = "win32" /\ Outside /\ stage[w] = "new"
  /\ stage' = [stage EXCEPT ![w] = "creating"]
  /\ window' = [window EXCEPT ![w] = "open"]
  /\ foreign' = "embed"
  /\ UNCHANGED <<engine, running, queue, quit, exited, ran, lost, told, misused>>

EmbedEnds(w) ==
  /\ stage[w] = "creating"
  /\ stage' = [stage EXCEPT ![w] = "live"]
  /\ foreign' = "none"
  /\ UNCHANGED <<engine, window, running, queue, quit, exited, ran, lost, told, misused>>

\* GetMessage takes a pending WM_QUIT away, whoever it was meant for: embed()
\* leaves without a controller, which the constructor then uses
EmbedMeetsQuit(w) ==
  /\ stage[w] = "creating" /\ quit /\ queue = << >>
  /\ quit' = FALSE /\ told' = {}
  /\ exited' = TRUE
  /\ UNCHANGED <<engine, stage, window, running, foreign, queue, ran, lost, misused>>

\* The user drags a border of a window.  The system's own loop takes over on
\* Win32, once nothing that is posted is left: input comes last.
Drag ==
  /\ engine = "win32" /\ Looping /\ queue = << >> /\ ~quit
  /\ \E w \in Webviews : window[w] = "open"
  /\ foreign' = "drag"
  /\ UNCHANGED <<engine, stage, window, running, queue, quit, exited, ran, lost, told, misused>>

DragEnds ==
  /\ foreign = "drag"
  /\ foreign' = "none"
  /\ UNCHANGED <<engine, stage, window, running, queue, quit, exited, ran, lost, told, misused>>

\* A foreign loop passes what is posted to the thread to DispatchMessage, which
\* ignores messages without a window
ForeignDrops ==
  /\ foreign # "none" /\ queue # << >>
  /\ lost' = lost \cup {Head(queue).fn}
  /\ queue' = Tail(queue)
  /\ UNCHANGED <<engine, stage, window, running, foreign, quit, exited, ran, told, misused>>

Run(w) ==
  /\ Outside /\ stage[w] = "live" /\ ~(engine = "cocoa" /\ quit)
  /\ running' = w
  /\ UNCHANGED <<engine, stage, window, foreign, queue, quit, exited, ran, lost, told, misused>>

\* What webview_dispatch posts: the function and the handle it is called with
Entry(f, w) == [fn |-> f, of |-> w]

\* A thread, or a function on the main thread, dispatches f, with the handle of a
\* webview that exists
Dispatch(f, w) ==
  /\ stage[w] = "live"
  /\ f \notin lost /\ \A s \in {queue, ran} : \A i \in DOMAIN s : s[i].fn # f
  /\ queue' = Append(queue, Entry(f, w))
  /\ UNCHANGED <<engine, stage, window, running, foreign, quit, exited, ran, lost, told, misused>>

\* Mutant: the function dispatched last runs first
RunFunctionNewest ==
  /\ Looping /\ queue # << >> /\ ~(engine = "cocoa" /\ quit)
  /\ LET e == queue[Len(queue)] IN
       /\ ran' = Append(ran, e)
       /\ Use(e.of)
       /\ IF e.fn \in Quitters THEN Terminates("main") ELSE UNCHANGED <<quit, told>>
  /\ queue' = SubSeq(queue, 1, Len(queue) - 1)
  /\ UNCHANGED <<engine, stage, window, running, foreign, exited, lost>>

\* Mutant: what terminate() left is forgotten with the next function
RunFunctionForgets ==
  /\ Looping /\ queue # << >> /\ ~(engine = "cocoa" /\ quit)
  /\ LET e == Head(queue) IN
       /\ ran' = Append(ran, e)
       /\ Use(e.of)
       /\ IF e.fn \in Quitters THEN Terminates("main") ELSE quit' = FALSE /\ UNCHANGED told
  /\ queue' = Tail(queue)
  /\ UNCHANGED <<engine, stage, window, running, foreign, exited, lost>>

\* Mutant: a function runs only when another one has been dispatched behind it
RunFunctionLate ==
  /\ Looping /\ Len(queue) > 1 /\ ~(engine = "cocoa" /\ quit)
  /\ LET e == Head(queue) IN
       /\ ran' = Append(ran, e)
       /\ Use(e.of)
       /\ IF e.fn \in Quitters THEN Terminates("main") ELSE UNCHANGED <<quit, told>>
  /\ queue' = Tail(queue)
  /\ UNCHANGED <<engine, stage, window, running, foreign, exited, lost>>

\* The loop runs the function dispatched first.  GTK and Win32 may do so although
\* they have been told to quit.
RunFunction ==
  /\ Looping /\ queue # << >> /\ ~(engine = "cocoa" /\ quit)
  /\ LET e == Head(queue) IN
       /\ ran' = Append(ran, e)
       /\ Use(e.of)
       /\ IF e.fn \in Quitters THEN Terminates("main") ELSE UNCHANGED <<quit, told>>
  /\ queue' = Tail(queue)
  /\ UNCHANGED <<engine, stage, window, running, foreign, exited, lost>>

\* terminate() of a live webview, outside of the loop or from another thread
Terminate(thread) ==
  /\ thread = "main" => Outside
  /\ \E w \in Webviews : stage[w] = "live"
  /\ Terminates(thread)
  /\ UNCHANGED <<engine, stage, window, running, foreign, queue, exited, ran, lost, misused>>

\* Mutant: a window that is closed deletes its webview
CloseWindowDeletes(w) ==
  /\ ~Outside /\ window[w] = "open"
  /\ window' = [window EXCEPT ![w] = "closed"]
  /\ stage' = [stage EXCEPT ![w] = "destroyed"]
  /\ Use(w)
  /\ Terminates("main")
  /\ UNCHANGED <<engine, running, foreign, queue, exited, ran, lost>>

\* GTK's "destroy" handler and WM_DESTROY call terminate() of w; on Cocoa the
\* application's delegate is asked instead, which refers to no webview there
ClosingUses(w) == IF engine = "cocoa" THEN UNCHANGED misused ELSE Use(w)

\* The window of w is closed, in a loop of any kind, which terminates the
\* application's loop.  A drag's loop passes a WM_QUIT on to the loop outside of it.
CloseWindow(w) ==
  /\ ~Outside /\ window[w] = "open"
  /\ window' = [window EXCEPT ![w] = "closed"]
  /\ ClosingUses(w)
  /\ Terminates("main")
  /\ UNCHANGED <<engine, stage, running, foreign, queue, exited, ran, lost>>

\* Another event of the window: its size changes, or its page sends a message.
\* A loop of any kind delivers it.
WindowEvent(w) ==
  /\ ~Outside /\ window[w] = "open"
  /\ Use(w)
  /\ UNCHANGED <<engine, stage, window, running, foreign, queue, quit, exited, ran, lost, told>>

\* The function that is bound to such a message terminates or dispatches; one that
\* does both is two of these steps
PageMessage(w) ==
  /\ ~Outside /\ window[w] = "open"
  /\ \/ /\ stage[w] = "live" /\ Terminates("main")
        /\ UNCHANGED <<engine, stage, window, running, foreign, queue, exited, ran, lost, misused>>
     \/ \E f \in Functions : Dispatch(f, w)

\* run() returns; on Cocoa the process ends instead.  GetMessage retrieves
\* WM_QUIT when nothing else is posted any more.
LoopEnds ==
  /\ quit /\ Looping
  /\ engine = "win32" => queue = << >>
  /\ quit' = FALSE /\ told' = {}
  /\ IF engine = "cocoa" THEN exited' = TRUE /\ UNCHANGED running
                         ELSE running' = None /\ UNCHANGED exited
  /\ UNCHANGED <<engine, stage, window, foreign, queue, ran, lost, misused>>

\* terminate: ends the process outside of the loop, too
Exit ==
  /\ engine = "cocoa" /\ quit /\ Outside
  /\ exited' = TRUE
  /\ UNCHANGED <<engine, stage, window, running, foreign, queue, quit, ran, lost, told, misused>>

\* webview_destroy: the window stays, with the handlers that refer to w
Destroy(w) ==
  /\ Outside /\ stage[w] = "live"
  /\ stage' = [stage EXCEPT ![w] = "destroyed"]
  /\ UNCHANGED <<engine, window, running, foreign, queue, quit, exited, ran, lost, told, misused>>

Next ==
  /\ ~exited
  /\ \/ \E w \in Webviews :
          \/ CreateGtk(w) \/ CreateCocoa(w) \/ CreateWin32(w) \/ EmbedEnds(w) \/ EmbedMeetsQuit(w)
          \/ Run(w) \/ CloseWindow(w) \/ WindowEvent(w) \/ PageMessage(w) \/ Destroy(w)
          \/ \E f \in Functions : Dispatch(f, w)
     \/ Drag \/ DragEnds \/ ForeignDrops
     \/ RunFunction \/ LoopEnds \/ Exit
     \/ \E thread \in {"main", "background"} : Terminate(thread)

Spec == Init /\ [][Next]_vars

\* The main thread handles its messages; embed() returns, and the user lets go
\* of the window
Fairness ==
  /\ WF_vars(~exited /\ (RunFunction \/ LoopEnds)) /\ WF_vars(ForeignDrops) /\ WF_vars(DragEnds)
  /\ \A w \in Webviews : WF_vars(EmbedEnds(w))

FairSpec == Spec /\ Fairness
-----------------------------------------------------------------------------
Loop == INSTANCE UiLoop WITH
  Functions <- Entries, up <- running # None /\ ~exited, nested <- foreign # "none",
  asked <- quit, pending <- queue

\* Whatever the engine, run() is the loop UiLoop describes: functions run while it
\* is up, each once and in the order they were dispatched, and it returns only when
\* a termination was heeded (webview.h:109-119).  That Win32 drops functions in
\* other loops, and the request to return in embed(), is in UiLoop as well:
\* webview.h:118 does not allow the one, see DispatchRuns
\* (mswebview_engine.cpp:60-61, 215-219).
IsUiLoop == Loop!Spec

\* A loop that stays runs the functions it is given, up to the last one that no
\* drag and no embed() has dropped on Win32, and it returns in the end when a
\* termination was heeded (webkit2gtk_engine.cpp:70-81, cocoa_engine.mm:44-55,
\* mswebview_engine.cpp:104-127).
LoopGoesOn == Loop!Fairness

\* As long as the application has created one webview only, it may destroy it
\* and let threads, functions and windows be: nothing of a destroyed webview is
\* used, although functions and handlers keep referring to it
\* (webview.h:106-111, webkit2gtk_engine.cpp:36-50, webview.cpp:69).
AliveWhileAlone ==
  misused # {} => \E v, w \in Webviews : v # w /\ stage[v] # "new" /\ stage[w] # "new"

\* run() returns, or the process ends, when terminate was called while it runs, by
\* the main thread or on GTK and Cocoa by any, and also when it was called on the
\* main thread before on Win32 and Cocoa (webkit2gtk_engine.cpp:71,
\* cocoa_engine.mm:45-48, mswebview_engine.cpp:104-123).
HeededEnds ==
  (/\ running # None
   /\ \/ <<"main", TRUE>> \in told
      \/ <<"background", TRUE>> \in told /\ engine # "win32"
      \/ <<"main", FALSE>> \in told /\ engine # "gtk") ~> (running = None \/ exited)

\* webview.h:114-115: terminate stops the main loop, from a background thread too.
TerminateEnds == (running # None /\ \E who \in told : who[2]) ~> (running = None \/ exited)

\* webview.h:118: a function that is dispatched is executed on the main thread, at
\* least if its loop takes messages again and again.
DispatchRuns ==
  []<>Looping => \A f \in Functions :
    (\E i \in DOMAIN queue : queue[i].fn = f) ~> (\E i \in DOMAIN ran : ran[i].fn = f)
=============================================================================
