# Formal model of webview

webview is a small library that shows a web page in a native window and lets
the page call functions of the application. It is one C++ class, `webview`, on
top of one of three engines (GTK/WebKit, Cocoa/WKWebView, Win32/WebView2), with
a C API, a Go binding and a SWIG interface around it. Paths below are relative
to the root of the repository.

The modules here model the parts of it in which several actors share state, or
in which a long sequence of small steps has to come out right: the RPC engine,
the main loops of the three engines, the creation of a webview on Windows with
the search for its runtime, the Go binding, and the JSON scanner. TLC checks
them on small instances; TLAPS proves their main invariants for every value of
the constants.

## Inventory

| Component | State | Operations | Hard behaviour | What makes it correct |
|---|---|---|---|---|
| RPC engine, `src/common/webview.cpp` | `bindings`; on the page `window[name]` and `window._rpc` (`nextSeq`, promises by number) | `bind` (two overloads), `unbind`, `resolve`, `on_message`, the scripts they send, `navigate` | page and main thread run concurrently, answers come from threads, navigations replace the page | an answer settles its own request, once; no promise is lost; page and `bindings` agree |
| C API, `src/common/c_api.cpp` | the handle | create, destroy, run, terminate, dispatch, bind, return | calls from other threads, use after destroy | a handle exists exactly if creation succeeded |
| GTK engine, `src/linux/` | `m_window`, `m_webview`, GTK's main loop and idle sources | constructor, run, terminate, dispatch, navigate, init, eval, set_size | terminate outside the loop, signal handlers that outlive the object | what is dispatched runs once and in order; terminate ends run |
| Cocoa engine, `src/macOS/` | window, manager, delegate; the application's run loop | the same, with a temporary run loop in the constructor | second webview, delegate callbacks | creation returns; terminate ends run |
| Win32 engine, `src/windows/mswebview_engine.cpp` | `m_window`, `m_controller`, `m_webview`, thread messages | constructor, `embed`, window procedure, run, terminate, dispatch, destructor | nested message loop, callbacks into a stack frame, thread messages | creation returns, with a handle that works or null; dispatched functions run |
| WebView2 event handler, `com_event_handler.cpp` | `m_attempts`, `m_ref_count` | `Invoke` (four overloads), `try_create_environment`, `AddRef`, `Release`, `QueryInterface` | failures at once or later, retries | one creation at a time, gives up last, is deleted once |
| WebView2 runtime loader, `msedge_runtime_loader.cpp` | `m_lib` | search for a client, version check, creation of an environment | fallbacks, library lifetime | finds a client if there is one; never reports success without starting anything |
| JSON helpers, `json_utils.hpp` | none | `json_parse_c`, `json_parse`, `json_escape`, `json_unescape` | truncated and nested input | returns the value of the key |
| Go binding, `webview.go`, `webview_go_glue.c` | `index`, `dispatch`, `bindings`, a mutex | `Dispatch`, `Bind` and the function it makes, two callbacks from C | goroutines, shared slot counter, calls by reflection with what a page sends | each function dispatched runs once; a name calls its own function, with arguments that fit; a promise is resolved exactly if it succeeded |
| Windows utilities, SWIG interface, examples, tests, build scripts | | | | |

How they interact: the application calls `webview` directly, through the C API
or through Go. `webview` calls its engine's `init` (a script for every page to
come), `eval` (a script for the current page) and `dispatch` (a function for the
main loop). The engine calls back `on_message` on the main thread when the page
calls `window.external.invoke`. On Windows the engine's constructor creates the
event handler, which calls the runtime loader through a function the engine
gives it, is called back by WebView2 from the message loop, and calls the engine
back when it has a controller or gives up. The Go binding stores functions in
its maps and passes slot numbers through `webview_dispatch` and `webview_bind`.

`PROJECT.json` lists the components with what is modelled of each, the hazards
with the properties that cover them, and for every definition the lines of code
it stands for.

## Modules

`WebviewRpc` — the RPC engine. The main thread's state is `bindings`,
`userScripts` (what `init` registered) and `tasks` (what `dispatch` posted); the
page's is `fns`, `nextSeq` and `rpc`. `scripts` and `inbox` are the two
channels between them. `jobs` are requests that an asynchronous callback has
handed to a thread. `Bind`, `Unbind`, `OnMessage` are the methods of that name;
`Resolve` is the method that posts, `RunTask` the function posted, `RunScript`
the page that runs one script, `Call` the function that `bind`'s script
defines, `Load` a navigation. `calls` and `outcomes` are history: a promise is
named by the number of its call, so that a sequence number can be told from the
request it stands for. Scripts and messages are records with the fields the
code puts into them; the JSON text in between is left out, as is the text of
the result. An answer whose result is no valid JSON breaks the contract in
`include/webview.h:176-177` and is not modelled. Application code binds and
unbinds on the main thread only, as all examples and tests do.

The numbers `given` and `nth` are history too: an answer to a request is its
first, its second, and so on. `AnswerTwice` is a thread that answers and keeps
the request, which the API allows at any time.

`DropTask` is the loss of a posted answer, which `Lossy` allows for Win32. There
`dispatch` is `PostThreadMessage`, its result ignored (`mswebview_engine.cpp:124-126`), and
a loop that is not `run`'s takes the message and delivers it to no window: see `MainLoop`
for when that happens. A message that did not fit into the queue counts as posted
and dropped. `dropped` is history. The properties say what such a loss does: it takes
away one answer, with which a promise may stay pending, and nothing else.

`PromiseTable` — what the RPC engine promises a page that is not left, without
numbers, queues or scripts: a call makes a promise, the first answer is final, a
synchronous binding's is a value, and the promise is settled with it in the end. Where
answers can be lost, `Lose` takes one away, and a later one may still settle the
promise (`SettleLate`).

`WebviewRpcPromises` — the refinement mapping from `WebviewRpc` to `PromiseTable`:
a promise is answered once the first answer to its request has been given to
`resolve`, and settled when the page has run that answer's script; the answer is lost
when `DropTask` drops it.
`KeepsPromises` is `PromiseTable`'s specification under this mapping, and
`SettlesPromises` its fairness.

`GoGlue` — `Dispatch` and `Bind` in two steps each: what the mutex protects, and
the second reading of `index` after it. The callbacks look functions up by
slot. Calling a function that is not there panics, which stops the model.
`Serial` says whether the application makes these calls one at a time. `Lossy` and
`MessageLost` are as in `WebviewRpc`: the function of a lost message stays in the map,
with its slot, for ever. `Bind`
and the callbacks run on the main thread; `Dispatch` runs anywhere. `reply` is
history: what the last request for a bound function led to.

`GoBinding` — the function that `Bind` makes of the application's, without variables:
the part of `GoGlue` that looks at signatures. `Bindable` is the check of `Bind`,
`Mismatch` that of the number of arguments, `ArgumentType` the parameter an argument is
decoded for, `Called` whether all of them can be decoded, `ReportsError`, `HasJson`
and `Status` what becomes of the results. `Fits` is what `reflect.Value.Call` demands,
`Documented` the functions that the comments of `Bind` describe (lines 110-111, 281-293); both are only used to
state properties. Types are model values, an argument is the set of types it can be
decoded into, a result is nil, set, or a value that has no JSON. Parameters of
type `error` or interface types are types like any other.

`RuntimeLoader` — how the WebView2 runtime is found: `WebView2Loader.dll` if it is
there, otherwise the client named in the registry of the system or else of the
user, whose version is the last part of its path. A machine is a record of what
is installed; the operators are the functions of that name and say which results
they may return. `parse_version` maps text, numbers that `stol` refuses and
components that are missing to 0, as the code does. The module has no variables:
it is the part of `EdgeEmbed` that looks at the machine.

`EdgeEmbed` — the constructor of `win32_edge_engine` from `is_webview2_available` on,
`embed()` and `com_event_handler`. `Check` is the question whether there is a
runtime, `CreateEmbeds` and `CreateCrashes` are the two ways into `embed()`.
`TryCreateEnvironment` is one call of the recursive method: while `trying` the
thread is in it, makes one attempt and calls itself again if that failed at once.
`pending` counts the operations WebView2 has been asked for, and the two
`...Completed` actions are its callbacks. `Update` is Edge being installed or
removed in the meantime. `Results` says how calls of WebView2 may end, so that a
run can exclude `ERROR_INVALID_STATE`. Another webview of the same thread dispatches
functions (`queue` counts them) and terminates (`OtherTerminates`), and `embed()` leaves
with the `WM_QUIT` it meets. All WebView2 operations are
external: they are modelled by what the code does with their results.

`UiLoop` — the abstract main loop: functions that are posted run once and in
order while the loop is up, it returns only when asked to and then does, and
while another loop takes its place functions may be dropped but none is
run, and a request to return that came before the loop was up may be forgotten.
It describes what holds of all engines; what `webview.h:118` promises is more
(`DispatchRuns`).

`MainLoop` — `webview_create`, `run`, `dispatch`, `terminate` and `destroy` on the three
engines. `engine` is chosen in the first state and never changes. `queue` is what
is dispatched and not run: GTK's idle sources, Cocoa's main queue or the thread
messages of Win32. `quit` is what `terminate` leaves behind, which differs: GTK
forgets a `gtk_main_quit` outside of a loop, Cocoa ends the process even there,
and Win32's `WM_QUIT` goes to the thread that calls (`Heeds`). `foreign` is a loop
that is not `run`'s: that of `embed()` in another webview's constructor, or the
one of the system while a border is dragged. It drops functions (`ForeignDrops`), but
closes windows and delivers the messages of pages, whose bound functions may
terminate or dispatch (`PageMessage`). A `WM_QUIT` that is pending when a webview is
created, or comes in meanwhile, is taken by `embed()`, and the constructor crashes
(`EmbedMeetsQuit`); the loop of a drag is taken to pass it on, as loops of the system do.
On Cocoa the process ends where `run` would return. `Destroy` deletes the object and
leaves the window with its handlers, and whatever is posted with a pointer to
it, behind; `misused` notes when one of them is used after that. `Loop` is the
refinement mapping to `UiLoop`: `IsUiLoop` is its specification under it, and
`LoopGoesOn` its fairness.

`JsonScan` — `json_parse`, one step for each turn of the loops of `json_parse_c` and
`json_unescape`. Positions are numbers, 0 is the null pointer, and characters are
classes that the code does not tell apart. `Lex` is the switch over the scanner's
state, `StartsAt` and `EndsAt` are the two blocks that follow it when the
structure is the outermost one, `Parse` is `json_parse` after the scanner has
returned. What `json_parse` decides from the scanner's return value is only
whether `value` was set.

`JsonText` — what `json_parse` shall return, told from the text as a whole and without
a scanner. A quote or a character is escaped if an odd number of backslashes
precedes it, a position lies in a string if an odd number of quotes does, and as
deep as the difference of the brackets before it. `Legal` is the part of the text
before the first character that its surroundings do not allow. In it `Starts` and `Stops`
are where the items of the outermost structure start and stop, `Rank` is how many start
before, `IsKey` and `IsValue` say which item is looked for, and `Means` what is
returned for it. `FindsItem` states that the result is the meaning of that item, or
nothing if there is no such item. It is about texts in which a quote, a backslash or an
opening bracket never follows directly on a number or word (`Separated`); JSON has a
separator there, and the scanner takes the former for a part of the literal. Whatever
the texts, `InBounds` and `Advances` hold.

`WebviewRpcProof`, `WebviewRpcViewProof`, `WebviewRpcOrderProof`,
`WebviewRpcPromisesProof`, `GoGlueProof`, `EdgeEmbedProof`, `MainLoopProof`,
`JsonScanProof` — the proofs. `MC...` — the modules TLC is run on. Definitions
whose comment says "Mutant" are deliberately wrong variants of the definition
that follows; putting one in its place must violate the property it is listed
with in `PROJECT.json`. Operators that stand for a stretch of code of their own
inside of an action (`AnswersAtOnce`, `HandsOver`, `FreshPage`, `OpensWindow`,
`EmbedTries`, `Concludes`, `FinishesLaunching`, `ClosingUses`, `Entry`) are steps of the
actions that use them.

## Runs

| Run | Instance | Shows |
|---|---|---|
| `rpc` | a synchronous and an asynchronous name, 3 binds or unbinds, 2 calls, 1 navigation, 1 superfluous answer, any answer may be lost | the safety properties, `NeverVanishes` and `EventuallySettled` hold |
| `rpc_navigate` | 2 binds, 2 calls, 1 navigation | `AnswerMatchesRequest` fails |
| `rpc_promises` | the same names, 3 binds or unbinds, 2 calls, 2 superfluous answers, no navigation, any answer may be lost | the RPC engine implements `PromiseTable`, liveness included |
| `go` | 3 dispatched and 3 bound functions, one of which `Bind` refuses, requests with up to 3 arguments of 2 types, one call at a time, any message may be lost | slots are reused correctly, every function whose message arrives runs once and none is forgotten; calls by reflection fit, promises are resolved exactly for values |
| `go_race` | 2 dispatched functions, 1 bound, at the same time | `EventuallyRun` fails |
| `edge` | 51 machines, 1 update, 5 attempts as in the code, calls that succeed or fail, 2 functions of another webview | what the check found is found again, only supported clients are asked, at most one creation, gives up last, the retries end, `embed()` waits only for something and ends |
| `edge_crash` | a machine with a runtime, the same results | `NoCrash` fails |
| `edge_hang` | the same machine, calls that succeed or end in `ERROR_INVALID_STATE` | `CreationReturns` fails |
| `loop` | each engine, 2 webviews, 3 functions, one of which terminates | each engine implements `UiLoop`, liveness included; terminations that are heeded end `run`; nothing is used after destruction while there was one webview |
| `loop_terminate` | Win32, 1 webview, 1 function | `TerminateEnds` fails |
| `loop_dispatch` | the same | `DispatchRuns` fails |
| `json` | objects, lists, texts cut off at every place, all short texts | the item that the text says is found, which is what the text was written from, reading stays in the text, each turn brings the end closer, the scan ends |

Bounds. `rpc`: three scripts allow bind, unbind and bind of one name, or two
names with one rebinding. `Lossy` is off where a finding does not depend on Win32
(`rpc_navigate`, `go_race`). Two calls are the fewest with which answers can be
mixed up, on one page or on two. One navigation suffices for everything that
relates an old page to a new one. One superfluous answer suffices for what an
answer to a settled promise may do, and for an answer that follows a lost one; `rpc_promises` allows two, so that the second
and the third answer of a request, or a second answer of two requests, are under
way together. It excludes navigations because they break the promise (finding 1,
and a page that is left settles nothing). All safety properties of `rpc` and the
steps of `rpc_promises` are also proved without these bounds.

`go`: three dispatched functions let a slot be freed and reused below and above one in use,
while two bound functions hold slots of their own. The signatures are a variadic
function of one fixed parameter that returns a value and an error, a function of
one parameter that returns an error, and one with three results; requests of up to
three arguments reach the fixed parameter, none, one and two elements, and one too
few. `edge`: five attempts are the
code's own number, 1150 its `api_version`. `MCMachines` combines the loader library
with none, one or both of its functions with a system's and a user's client that
is recent, recent without the entry point, or missing, and adds the clients that
are refused, each for another reason. `MaxLong` is 2^31 - 1, the largest `long` on Windows. One update suffices to make the answer of the check stale.
`loop`: two webviews are the fewest for `embed()` to take messages and the `WM_QUIT` of another one
and for windows of a destroyed webview to meet a loop that runs; three functions
are needed for one to be lost between two others, or to terminate between them.
`json`: 26456 texts. `Keyed` has every kind of value before and after another one
under a key, `Indexed` the same in lists, at an index in or beyond them; values are
structures up to three deep and strings of up to two units, each a plain character, an
escape or a UTF-8 sequence. A list is also cut off after any character, if what
follows its first item is closed. `Wild` are all texts of up to four characters, of the
eight classes that matter most to the scanner, after a bracket. `FindsValue` expects of a
written text what it was written from; it is the check that `JsonText` means what JSON
means, which no proof could give.

`CHECK_DEADLOCK FALSE` is set everywhere because all these systems really stop:
when the bounds are used up, when the process has panicked or ended, when
creation or the scan has ended.

Fairness. `WebviewRpc`: the main loop and the page's event loop go on (weak
fairness of `OnMessage`, `RunTask`, `RunScript`), and every thread answers the
request it was given, as the asynchronous binding's contract asks. Calls, binds
and navigations are never forced, nor is the loss of an answer. `GoGlue`: a call that has taken the mutex
ends, and the main loop runs what is posted; no call is forced to begin.
`EdgeEmbed`: the thread returns from the calls it makes, WebView2 reports each
completion, and `GetMessage` delivers what is queued. `EmbedEnds` excepts a window
that the host itself passed in and then destroyed, of which nothing tells
`embed()`, and a client library without its entry point, for which the loader
reports success although nothing was started. `MainLoop`: the main thread handles
its messages and leaves the loop when it has nothing else to do, `embed()` returns,
and the user lets go of a window's border. `HeededEnds` names the terminations that
each engine heeds; nobody is forced to terminate. `JsonScan`: the function runs to
its end.

## What the runs found

1. `rpc_navigate`: the request given to `webview_return` is the sequence number
   only, and every page starts at 1 (`webview.cpp:36`). A late answer to a
   request of the page that was left settles a promise of the new page.
   `AnswerMatchesWithinPage` is what remains true.
2. `edge_crash`: the constructor ignores the result of `embed()` and uses
   `m_controller`, which may be null (`mswebview_engine.cpp:84-86`). One way there is
   another webview: a `terminate` before the creation, or one that its page or its
   closed window makes during it, leaves a `WM_QUIT` that ends the loop of `embed()`.
3. `edge_hang`: on `ERROR_INVALID_STATE` the handler returns without a callback
   (`com_event_handler.cpp:68-70`), and `embed()` waits for ever.
4. `loop_dispatch`: functions are posted as thread messages
   (`mswebview_engine.cpp:125`), although `webview.h:118` says that they are executed. The loop
   of `DefWindowProc`, while the user drags a window (60-61), and the one in `embed()`
   (215-219) drop them; the run shows the drag. With them go answers to pages, whose
   promises stay pending, and functions given to Go's `Dispatch`. `LoopGoesOn`,
   `EventuallySettled` and `EventuallyRun` say what remains true.
5. `go_race`: `Dispatch` reads `index` after it has released the mutex
   (`webview.go:208`). Two dispatches at the same time lose a function and panic.
6. `loop_terminate`: `terminate` is `PostQuitMessage` (`mswebview_engine.cpp:123`), which
   posts `WM_QUIT` to the calling thread. From a background thread, from which
   `webview.h:114-115` calls it safe, it leaves the main loop running. `HeededEnds` is
   what remains true.

Met on the way, and part of what the passing runs state: `terminate` before `run`
is forgotten on GTK, ends the next loop on Win32 and the process on Cocoa; `webview_destroy`
leaves the native window open, although `webview.h:107` says it closes it too, and
with a second webview the handlers of a destroyed one can still be called
(`AliveWhileAlone` says until when they cannot). `json_parse` returns nothing for a
string with a `\u` escape, for texts with character 127 before the end of the
value, and for texts with a newline or a tab right after a literal; `FindsValue`
expects just that. Of these, character 127 can reach a binding: `JSON.stringify` leaves
it as it is, so a call with it in an argument is passed on with an empty request,
although `webview.h:163-165` says "Request string is a JSON array of all the arguments
passed to the JavaScript function".

## Proofs

All theorems are about `Spec`, for every value of the constants, with and without `Lossy`. The only
assumptions are the named ones of the modules: `ConstantsAssumption` (bounds are
natural numbers, synchronous names are names, engines are three), `ResultsAssumption`,
`MachinesAssumption` and `VersionsAssumption` (what WebView2 may report and a machine
may be), `InputsAssumption` (texts are sequences of characters). Some have a
hypothesis of their own: `PromisesKept` is about a page that is not left
(`MaxLoads = 0`), `FindsTheItem` about texts that are `Separated`, and the theorems of `GoGlue` except `TypesHold` and `KeptHolds` are about an
application that calls one at a time (`Serial`); findings 1
and 5 are what happens otherwise.

`WebviewRpcProof`. None of the properties is inductive by itself: that an
answer's script settles the right promise depends on the number having been
handed on correctly through `inbox`, `jobs`, `tasks` and `scripts`. `MatchInv`
adds
  - `CallsNumbered`: the calls of the current page have the numbers below `nextSeq`, each its own;
  - `TableExact`: `rpc` is exactly the map from number to call for the unsettled calls of the page;
  - `CarriersExact`: whatever carries a number, a message, a job, a task or a script, carries the number of the call it names, and only carriers for asynchronous names can reject.

`MatchStep` proves it action by action. `AnswersMatch`, `NeverSettledTwice`,
`TableHoldsPending` and `SyncResolves` are consequences. The list of outcomes
only relates to pages because history names the call on both sides of an answer.

`RequestsNeverVanish` proves the step behind `EventuallySettled`: `NeverVanishes`, that a
request goes from the inbox to a job or a task, from there to a script and from
there into the outcomes, and that no action of any actor takes it away elsewhere
(`OthersStay`, `MessageGoesOn`, `AnswerArrives`). It names two ways out: a message that
meets an unbound name, and `DropTask` with an answer to that very request. It needs `MatchInv` for the last
step: the script with the call's answer finds the call in `rpc` because it carries its
number. What is left to TLC is that the fair actions are then taken.

`WebviewRpcViewProof` proves `PageAgreesWithBindings`. The invariant `ViewExact`
says, for each name, that `userScripts` ends up defining it exactly if it is bound,
and that running the scripts still under way on the current page does, too. A
navigation keeps it for both cases, scripts lost and scripts run a second time,
because the last script about a name decides. The lemmas say what appending
and removing a script does to `Mentions` and `Defines`.

`WebviewRpcOrderProof` proves `FirstAnswerWins`. For each unsettled call of the page
`OrderInv` says that each answer which was not dropped is ahead of all later ones on every
part of their way: a later answer's script has the earlier one's before it, a later task has
the earlier task before it or the earlier script sent, and a thread that has
answered already has its earlier answers under way. It rests on `MatchInv`, by which a
script settles only the call whose number it carries.

`WebviewRpcPromisesProof` proves `KeepsPromises`: every step of the
engine makes, answers or settles one promise of `PromiseTable`, or loses the answer of one, or
none of this. Beside
`MatchInv` and `OrderInv` it needs `RequestsOnce`, that an unanswered request is in one
place, a message or a job, and that no answer to it is under way, and
`FirstOnce`, that a call has at most one first answer under way. So the first call of
`resolve` for a request answers a promise that has no answer, and the script that
finds a promise in `rpc` carries the answer it got then (`SettlesOwn`), unless that was
lost: then the first answers left settle it (`FirstSettles`).

`EdgeEmbedProof` proves `EmbedInv`: types, `OneCreation`, `GivesUpLast`, that the
constructor has nothing under way before `embed()`, that the thread is in
`try_create_environment` only inside `embed()`, and that a machine which passed the check
and has not changed since offers something to ask (`Trusting`). For
`SupportedOnly` the lemmas go from the answer back to the registry: a client that is
found has a third component that `parse_version` has kept, and `parse_version` turns
everything that is no number in range into 0, which is below the API version.

Two theorems are about the handler coming to an end. `EmbedWaitsHolds` shows what
`embed()` waits for. It is not inductive: that a window which is destroyed leaves a
`WM_QUIT` behind if the constructor opened it (`DestroyedQuits`) has to be added, and
`EmbedInv` excludes that the flag is set with all attempts used. `RetriesEndHolds`
proves that each step of the handler lowers `StepsLeft`, in which an attempt that is
left counts three, a try one, an environment under way three and a controller two:
an attempt gives way to at most an environment, that to a controller or a further
try, and a controller to a try. It follows that all its retries together take at most
3 `MaxAttempts` + 1 steps. These are the safety halves of `EmbedEnds`.

`GoGlueProof` proves the types for any interleaving and the other invariants under
`Serial`. That `Dispatch` finds a free slot at all is a counting argument: `Room` says
that the index, plus the slots above it that are taken in each map, is at most
the number of calls begun, since a call either fills a slot or moves the index over
filled ones; so a slot within the bound is free, and the least one is what the
loop stops at. That sets of numbers have least elements is proved from the
library's fact that strict inclusion of finite sets is well-founded. `GlueInv` then
relates the two maps to the calls under way: a call that has stored is the only
one, so the second reading of `index` is the slot it stored at.

`KeptHolds` needs neither `Serial` nor `GlueInv`: a function that was stored stays in the
map until its callback takes it out and runs it, however calls race. So what
finding 5 and Win32 lose is only the message that names the slot. With `PostedIffStored`
it gives `NoneForgottenHolds`, the safety half of `EventuallyRun`. `CallsFitHolds` and
`ResolvedHolds` are about functions of any signature and any requests. Two lemmas
about `GoBinding` do the work: `ArgumentsFit`, that each argument is decoded into the type
of its parameter or, from the last one of a variadic function on, of its elements,
and `StatusTells`, that the status of a function `Bind` takes says what its results are.
`ReplyInv` adds that only such functions are bound, and `GlueInv` that the function found
is the one asked for.

`MainLoopProof` proves that each engine's steps are steps of `UiLoop`, that a loop
belongs to a live webview, and `AliveWhileAlone`: with one webview the loop is
either not running or running for a webview that has not been destroyed, so
nothing that refers to a destroyed one is called.

`JsonScanProof` proves `InBounds` for every text, and what is found in it. For `InBounds`: while the scanner runs the key and
the value start before its position; `json_unescape`'s pointer and its count move
together and their sum stays within the value. `AlwaysAdvances` proves that each turn
of either loop lowers `TurnsLeft`: the one turn of the scanner that does not advance,
at the end of a literal, leaves the literal, and a value that ends starts within
the text, so that `json_unescape` has at most its length to go. `Ends` is left with
nothing but the fairness of a function that runs.

`FindsTheItem` proves `FindsItem`: that a scanner with five states, a counter of bytes, a
depth, an index and two pointers finds what counting over the whole text defines. No
induction over the text is needed, because the invariant `FindInv` carries it along
the turns, and because counting up to a position differs from counting up to the
one before by one or nothing (`CountStep`, `EscapedNext`). The argument has four layers:
  - `Lexed` says what the state means for the text: it is `"escape"` exactly behind a backslash that counts, one of three states exactly inside of a string, `utf8_bytes` is what the sequence still lacks, and all that was read is legal. `LexTable` compares the switch with what is allowed, `LexedNext` keeps `Lexed` over a character.
  - `StartsHere`, `StopsHere`, `StopsBefore`: the scanner's actions happen exactly where items start and stop. The stop of a literal is noticed one character late, when the literal is left (`Noticed`), and never at the end of the text (`NoStopAtEnd`).
  - `Looked` says what `index`, `k` and `value` know. Without a key `index` counts down from the wanted rank; with one (`Keys`) it is 1 before a key, with `k` at the key while one is read, 2 behind a key that is another, and 0 behind the first key that matches. Nothing has stopped since the start of what is being read, so the next stop is its own.
  - `Fetched` and `Decoding`: the size that is returned reaches to that stop; the text ended, or was refused, before it only if there is no such item (`LookedNone`), and then the size is 0, even if `value` is set. `json_unescape` is at a character that is not escaped and has decoded what lies before it (`DecodesNext`); as the item is legal it can only fail at a `\u`.

Only model-checked: the liveness properties, which are beyond the prover
(`EventuallySettled`, `EventuallyRun`, `EmbedEnds`, `HeededEnds`, `Ends`, and
`SettlesPromises` and `LoopGoesOn`, the fairness of `PromiseTable` and `UiLoop`). For each of
these but `HeededEnds` the step argument is proved: nothing is lost on its way, other
than by the loss of a message on Win32 (`NeverVanishes`,
`NoneForgotten`, `KeepsPromises`, `IsUiLoop`), or a measure falls
(`RetriesEnd`, `Advances`) and waiting is for something (`EmbedWaits`). `FindsValue` is about the
texts of the run, which were written from known values; what it says of them
is a consequence of `FindsItem` for each, but that a text written from items has these
items would take induction over the way it is written.

## Not modelled

  - A second webview on Cocoa: its constructor registers a class a second time and
    starts an application that has launched; what then happens is decided by the
    Objective-C runtime, not by this code.
  - The count of messages in a Win32 thread's queue, which holds 10000. With `Lossy` a
    message may be lost however many there are; `MainLoop` loses functions in the other
    loops only.
  - Failures of `get_Settings` and of `gtk_init_check` with a parent window. The code
    goes on with a webview whose calls then fail inside WebView2 or WebKit.
  - `find_embedded_client`: the engine passes no browser directory, so it is not
    reached. The lifetime of the loaded libraries, the path of the client library
    and the text of the version, which nobody reads.
  - Reference counting, `QueryInterface` and the permission event of
    `com_event_handler`: the engine holds one reference until its destructor, and
    WebView2 releases what it has taken.
  - A callback that unbinds its own name destroys the function that is running.
    Whether that does harm depends on what its code touches afterwards, which
    belongs to the application.
  - In `webview.go`, the text of results and errors, a function that is nil or is
    none, and a request that is no JSON list, which the page's own function cannot
    send.
  - `json_escape`, which the program does not call.
  - Window titles, sizes and DPI, file panels, conversion between UTF-8 and UTF-16,
    COM initialisation: calls of the system that keep no state which interacts
    with the rest.
  - The SWIG interface, examples, tests and build scripts, which are not part of
    the library; the tests and examples were read for how it is used.
