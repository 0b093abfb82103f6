------------------------------ MODULE EdgeEmbed ------------------------------
(***************************************************************************)
(* Creating a webview on Windows: win32_edge_engine's constructor, embed() *)
(* and the com_event_handler that WebView2 calls back.  The constructor    *)
(* checks that there is a runtime.  embed() asks the loader for an         *)
(* environment, pumps the thread's messages until the handler has cleared  *)
(* a flag, and leaves; the handler asks for a controller when it gets the  *)
(* environment, and starts again, at most MaxAttempts times in all, when   *)
(* something fails.  Meanwhile Edge may be installed, updated or removed.  *)
(***************************************************************************)
EXTENDS RuntimeLoader

CONSTANTS
  Machines,     \* the states of the machine the loader may meet
  MaxAttempts,  \* com_event_handler::m_max_attempts
  Results,      \* how a call of WebView2 may end
  MaxPosts,     \* bound: functions another webview of the thread dispatches
  MaxUpdates    \* bound: changes of the machine

\* "ok" the call succeeded and its completion will be reported, "failed" it or
\* its completion reports an error, "invalid_state" that error is
\* ERROR_INVALID_STATE
ASSUME ResultsAssumption ==
  /\ MaxAttempts \in Nat \ {0} /\ MaxPosts \in Nat /\ MaxUpdates \in Nat
  /\ "ok" \in Results /\ Results \subseteq {"ok", "failed", "invalid_state"}

ASSUME MachinesAssumption ==
  \A m \in Machines :
    m.loader \subseteq Symbols /\ m.system \subseteq Clients /\ m.user \subseteq Clients

VARIABLES
  pc,          \* the main thread: before the constructor, in it, in embed(), after it
  own,         \* the constructor creates the window, none was passed to it
  window,      \* the native window: "none", "open" or "destroyed"
  flag,        \* embed's flag: set until the handler's callback clears it
  attempts,    \* com_event_handler::m_attempts
  trying,      \* the thread is in try_create_environment
  pending,     \* operations of each kind whose completion is still to come
  controller,  \* controllers given to m_controller so far
  quit,        \* WM_QUIT awaits the thread
  posts,       \* functions posted to the thread so far
  queue,       \* those still in the thread's message queue
  machine,     \* the loader library and the registry
  updates,     \* changes of the machine so far
  asked,       \* the client library the latest attempt asked, if any
  missed       \* an attempt has found no runtime

handler == <<flag, attempts, trying, pending, controller>>
thread == <<quit, posts, queue>>
runtime == <<machine, updates, asked, missed>>
vars == <<pc, own, window, handler, thread, runtime>>

Kinds == {"environment", "controller"}

TypeOK ==
  /\ pc \in {"create", "available", "embed", "null", "created", "crashed"}
  /\ {own, flag, trying, quit, missed} \subseteq BOOLEAN
  /\ window \in {"none", "open", "destroyed"}
  /\ attempts \in 0..MaxAttempts
  /\ pending \in [Kinds -> Nat]
  /\ controller \in Nat
  /\ posts \in 0..MaxPosts /\ queue \in 0..posts
  /\ machine \in Machines /\ updates \in 0..MaxUpdates
  /\ asked \subseteq Clients

Init ==
  /\ pc = "create" /\ own \in BOOLEAN
  /\ window = IF own THEN "none" ELSE "open"
  /\ flag = TRUE /\ attempts = 0 /\ trying = FALSE
  /\ pending = [k \in Kinds |-> 0] /\ controller = 0
  /\ quit = FALSE /\ posts = 0 /\ queue = 0
  /\ machine \in Machines /\ updates = 0 /\ asked = {} /\ missed = FALSE
-----------------------------------------------------------------------------
\* An operation was started, or its completion has come
Started(p, kind) == [p EXCEPT ![kind] = @ + 1]
Completed(kind) == [pending EXCEPT ![kind] = @ - 1]

\* The thread is in embed(), at its message loop or in a call it makes, and has
\* messages to handle; once the webview has been created, run() handles them
Pumping == ~trying /\ ((pc = "embed" /\ flag) \/ pc = "created")

\* Edge is installed, updated or removed; a loader library stays as it is
Update ==
  /\ pc \in {"create", "available", "embed"} /\ updates < MaxUpdates
  /\ machine' \in {m \in Machines \ {machine} : m.loader = machine.loader}
  /\ updates' = updates + 1
  /\ UNCHANGED <<pc, own, window, handler, thread, asked, missed>>

\* Mutant: the constructor does not ask whether there is a runtime
SkipCheck ==
  /\ pc = "create"
  /\ pc' = "available"
  /\ UNCHANGED <<own, window, handler, thread, runtime>>

\* The constructor asks whether there is a runtime, and goes on or returns
Check ==
  /\ pc = "create"
  /\ \E available \in get_available_browser_version_string(machine) :
       pc' = IF available THEN "available" ELSE "null"
  /\ UNCHANGED <<own, window, handler, thread, runtime>>

\* webview_create returns null: COM or the window is not available
CreateFails ==
  /\ pc = "available"
  /\ pc' = "null"
  /\ UNCHANGED <<own, window, handler, thread, runtime>>

\* The constructor opens its window, unless one was passed to it
OpensWindow == window' = "open"

\* embed() makes the handler, gives it the loader to call, and lets it try
EmbedTries == pc' = "embed" /\ trying' = TRUE

\* The constructor opens the window and enters embed()
CreateEmbeds ==
  /\ pc = "available"
  /\ OpensWindow
  /\ EmbedTries
  /\ UNCHANGED <<own, flag, attempts, pending, controller, thread, runtime>>

\* The same, but embed() returns at once for want of the user's data folder, and
\* the constructor uses the controller it has not got
CreateCrashes ==
  /\ pc = "available"
  /\ OpensWindow
  /\ pc' = "crashed"
  /\ UNCHANGED <<own, handler, thread, runtime>>

\* Mutant: one attempt too many
TryCreateOnceMore ==
  /\ trying
  /\ IF attempts <= MaxAttempts
     THEN /\ attempts' = attempts + 1
          /\ \E r \in create_environment_with_options(machine, Results) :
               /\ trying' = (r = "failed")
               /\ pending' = IF r = "ok" THEN Started(pending, "environment") ELSE pending
          /\ asked' = Asked(machine) /\ missed' = (missed \/ Misses(machine))
          /\ UNCHANGED flag
     ELSE /\ trying' = FALSE /\ flag' = FALSE
          /\ UNCHANGED <<attempts, pending, asked, missed>>
  /\ UNCHANGED <<pc, own, window, controller, thread, machine, updates>>

\* Mutant: nobody is told that the attempts are used up
TryCreateSilently ==
  /\ trying
  /\ IF attempts < MaxAttempts
     THEN /\ attempts' = attempts + 1
          /\ \E r \in create_environment_with_options(machine, Results) :
               /\ trying' = (r = "failed")
               /\ pending' = IF r = "ok" THEN Started(pending, "environment") ELSE pending
          /\ asked' = Asked(machine) /\ missed' = (missed \/ Misses(machine))
     ELSE trying' = FALSE /\ UNCHANGED <<attempts, pending, asked, missed>>
  /\ UNCHANGED <<pc, own, window, flag, controller, thread, machine, updates>>

\* com_event_handler::try_create_environment, one call of it.  It calls itself
\* after an attempt that fails at once, unless with ERROR_INVALID_STATE.
\* Without attempts left it calls back with null pointers: the flag is cleared.
TryCreateEnvironment ==
  /\ trying
  /\ IF attempts < MaxAttempts
     THEN /\ attempts' = attempts + 1
          /\ \E r \in create_environment_with_options(machine, Results) :
               /\ trying' = (r = "failed")
               /\ pending' = IF r = "ok" THEN Started(pending, "environment") ELSE pending
          /\ asked' = Asked(machine) /\ missed' = (missed \/ Misses(machine))
          /\ UNCHANGED flag
     ELSE /\ trying' = FALSE /\ flag' = FALSE
          /\ UNCHANGED <<attempts, pending, asked, missed>>
  /\ UNCHANGED <<pc, own, window, controller, thread, machine, updates>>

\* Mutant: asks for a controller and tries again all the same
EnvironmentFallsThrough ==
  /\ Pumping /\ pending["environment"] > 0
  /\ pending' = Started(Completed("environment"), "controller")
  /\ trying' \in BOOLEAN
  /\ UNCHANGED <<pc, own, window, flag, attempts, controller, thread, runtime>>

\* Invoke(HRESULT, ICoreWebView2Environment *)
EnvironmentCompleted ==
  /\ Pumping /\ pending["environment"] > 0
  /\ \/ pending' = Started(Completed("environment"), "controller") /\ UNCHANGED trying
     \/ /\ window = "destroyed" \/ Results \cap {"failed", "invalid_state"} # {}
        /\ pending' = Completed("environment")
        /\ trying' = TRUE
  /\ UNCHANGED <<pc, own, window, flag, attempts, controller, thread, runtime>>

\* Mutant: gives up at the first failure
ControllerGivesUp ==
  /\ Pumping /\ pending["controller"] > 0
  /\ pending' = Completed("controller")
  /\ flag' = FALSE
  /\ controller' \in {controller, controller + 1}
  /\ UNCHANGED <<pc, own, window, attempts, trying, thread, runtime>>

\* Invoke(HRESULT, ICoreWebView2Controller *).  ERROR_INVALID_STATE and the
\* E_ABORT of a destroyed window end the handler's work without a callback.
ControllerCompleted ==
  /\ Pumping /\ pending["controller"] > 0
  /\ pending' = Completed("controller")
  /\ \/ /\ window = "open"
        /\ controller' = controller + 1
        /\ flag' = FALSE
        /\ UNCHANGED trying
     \/ /\ window = "destroyed" \/ "invalid_state" \in Results
        /\ UNCHANGED <<controller, flag, trying>>
     \/ /\ "failed" \in Results
        /\ trying' = TRUE
        /\ UNCHANGED <<controller, flag>>
  /\ UNCHANGED <<pc, own, window, attempts, thread, runtime>>

\* The user closes the window, or the host destroys the one it passed.  Only
\* the constructor's own window class reacts, with PostQuitMessage.
WindowDestroyed ==
  /\ pc = "embed" /\ Pumping /\ window = "open"
  /\ window' = "destroyed"
  /\ quit' = (quit \/ own)
  /\ UNCHANGED <<pc, own, handler, posts, queue, runtime>>

\* Another webview of this thread dispatches a function to it
Post ==
  /\ pc \in {"create", "available", "embed", "created"} /\ posts < MaxPosts
  /\ posts' = posts + 1 /\ queue' = queue + 1
  /\ UNCHANGED <<pc, own, window, handler, quit, runtime>>

\* A page or a window of that webview terminates, which posts WM_QUIT to the thread
OtherTerminates ==
  /\ pc = "create" \/ (pc = "embed" /\ Pumping)
  /\ quit' = TRUE
  /\ UNCHANGED <<pc, own, window, handler, posts, queue, runtime>>

\* embed's loop hands the message to DispatchMessage, which ignores messages
\* without a window; the loop in run() calls the function: see MainLoop
PumpFunction ==
  /\ Pumping /\ queue > 0
  /\ queue' = queue - 1
  /\ UNCHANGED <<pc, own, window, handler, quit, posts, runtime>>

\* The constructor goes on whatever embed() returns: it uses m_controller
Concludes == pc' = IF controller > 0 THEN "created" ELSE "crashed"

\* embed() leaves its loop.  WM_QUIT is only retrieved from an empty queue.
EmbedLeaves ==
  /\ pc = "embed" /\ ~trying
  /\ \/ ~flag /\ UNCHANGED quit
     \/ flag /\ quit /\ queue = 0 /\ quit' = FALSE
  /\ Concludes
  /\ UNCHANGED <<own, window, handler, posts, queue, runtime>>

Next ==
  \/ Update \/ Check \/ CreateFails \/ CreateEmbeds \/ CreateCrashes
  \/ TryCreateEnvironment \/ EnvironmentCompleted \/ ControllerCompleted
  \/ WindowDestroyed \/ Post \/ OtherTerminates \/ PumpFunction
  \/ EmbedLeaves

Spec == Init /\ [][Next]_vars

\* WebView2 reports every completion, and the main thread pumps its messages and
\* returns from the calls it makes
Fairness ==
  /\ WF_vars(TryCreateEnvironment)
  /\ WF_vars(EnvironmentCompleted) /\ WF_vars(ControllerCompleted)
  /\ WF_vars(PumpFunction) /\ WF_vars(EmbedLeaves)

FairSpec == Spec /\ Fairness
-----------------------------------------------------------------------------
\* One call of try_create_environment, environment or controller is under way at
\* most, and none once a controller was obtained: no completion comes in when
\* embed() has left, whose local variables the callback refers to, and
\* m_controller is never overwritten (com_event_handler.cpp:49-84, 112-133;
\* mswebview_engine.cpp:196-214).
UnderWay == pending["environment"] + pending["controller"] + (IF trying THEN 1 ELSE 0)
OneCreation == UnderWay + controller <= 1

\* embed() gives up only after all attempts were made, and not while one is
\* under way (com_event_handler.cpp:112-133).
GivesUpLast ==
  ~flag /\ controller = 0 => attempts = MaxAttempts /\ UnderWay = 0

\* The runtime that is_webview2_available() found is there when embed() asks for
\* it, unless the machine has changed in between, or WebView2Loader.dll answered
\* the first question and has no function for the second one
\* (mswebview_engine.cpp:15, 210; msedge_runtime_loader.cpp:46-52, 68-74).
CheckedThenFound ==
  missed => updates > 0 \/ machine.loader = {"version"}

\* A client that was asked is in a directory named after its version, and the
\* third number of that is at least the API version: paths without directories,
\* short versions, text and numbers beyond a long are refused
\* (msedge_runtime_loader.cpp:178-190, msedge_runtime_loader.hpp:86-116).
SupportedOnly ==
  \A c \in asked :
    /\ Len(c.path) > 1
    /\ LET version == c.path[Len(c.path)]
       IN  Len(version) > 2 /\ version[3] \in api_version..MaxLong

\* embed() never waits for nothing: as long as its flag is set something is
\* under way that will clear it or be tried again, or the thread is to quit.
\* Excepted are a window the host itself has destroyed, a client library without
\* its entry point, and ERROR_INVALID_STATE (com_event_handler.cpp:49-84,
\* 112-133; mswebview_engine.cpp:215-219).
EmbedWaits ==
  pc = "embed" /\ flag =>
    \/ UnderWay = 1
    \/ IF own THEN quit ELSE window = "destroyed"
    \/ \E c \in asked : ~c.entry
    \/ "invalid_state" \in Results

\* What the handler may still do at most: three steps for each attempt it has
\* left, and those of the one that is under way
StepsLeft ==
  3 * (MaxAttempts - attempts) + (IF trying THEN 1 ELSE 0)
    + 3 * pending["environment"] + 2 * pending["controller"]

\* Retries end: whatever is reported, at once or later, each step of the handler
\* leaves it fewer steps, once embed() has let it begin
\* (com_event_handler.cpp:49-84, 112-133).
RetriesEnd ==
  [][pc # "available" /\ handler' # handler => StepsLeft' \in 0..StepsLeft - 1]_vars

\* The constructor always gets out of embed(), but for a window that the host
\* has destroyed in the meantime, and a client library that lacks its entry
\* point (mswebview_engine.cpp:215-219, msedge_runtime_loader.cpp:96-106).
EmbedEnds ==
  pc = "embed" ~> \/ pc # "embed"
                  \/ ~own /\ window = "destroyed"
                  \/ \E c \in asked : ~c.entry

\* webview.h:103-104: creation that fails returns null, it does not crash.
NoCrash == pc # "crashed"

\* webview.h:103-104: creation that fails returns null, it returns at any rate,
\* all the more so with a window of its own.
CreationReturns == (pc = "embed" /\ own) ~> pc # "embed"
==============================================================================
