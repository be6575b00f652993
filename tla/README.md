# Pinrail: a TLA+ verification project

Pinrail is a standalone workspace of GPUI, the UI framework of the Zed editor, with a
small series of downstream patches (`PATCHES.md`), most of them to the Wayland backend.
This project models the parts of it whose correctness depends on the order in which
threads, event sources and callbacks happen to run, checks them with TLC on small
instances, and proves the main safety properties of its core with TLAPS for every value
of the constants.

Contents: [inventory](#inventory), [plan](#plan), [modules](#modules), [runs](#runs),
[fairness](#fairness), [proofs](#proofs), [disagreements with the documentation](#disagreements-with-the-documentation),
[what is not modelled](#what-is-not-modelled).

Paths below are relative to `src/`; `wayland/` and `x11/` stand for the directories of that
name in `crates/gpui_linux/src/linux/`, `gpui/` for `crates/gpui/src/`.

## Inventory

| Component | State it keeps | What is hard | What makes it correct | Module |
|---|---|---|---|---|
| Wayland frame loop: `wayland/frame_loop.rs`, `geometry.rs`, frames in `window.rs`, `client.rs` | per window a `FrameLoop` and a `PresentationState`, redraw latch, pending `wl_callback`, retry timer, presented geometry; one ping for all windows | the application runs inside a tick and may schedule, close, commit; draws fail; three wake sources race | a waiting window has a wake that will come; a parked one owes nothing; a commit applies the geometry the buffer was drawn with; demand reaches the screen | `FrameLoop`, `FrameDemand` |
| Wayland windows: `wayland/window.rs` | parent, children, surfaces, configures, sizes, viewport | callbacks while a tree is closed; configures dropped by throttling | children close with their parents; the window settles on the size configured | `WindowTree`, `Configure` |
| Wayland client: `wayland/client.rs`, `pointer.rs`, `serial.rs`, `clipboard.rs` | seat focus, repeat timer, composition, serials, offers, drag | events for windows that are gone, timers and reads that end late | input and late answers reach the window they are for, or none | `Seat`, `Serials`, `DataDevice` |
| X11 clipboard: `x11/clipboard.rs` | text, owner, handover state, chunks | two threads, other clients, timeouts | readers get a whole and current text; the drop ends | `X11Clipboard`, `X11Read` |
| macOS display link: `gpui_macos/src/display_link.rs` | registry of links, subscriptions, frame sources | CoreVideo is called outside the lock | a visible window is paced by its screen | `DisplayLink` |
| Priority queue: `gpui/queue.rs` | three deques, two counts | counts read outside the mutex; one notify per push | no lost wakeup, order, final answers | `PriorityQueue` |
| Threaded dispatcher: `gpui/platform/threaded_dispatcher.rs` | in-flight count, queues, timer heap | quiescence over three locks, panics | `run_until_idle` returns exactly when nothing counted is left | `ThreadedDispatcher` |
| Linux dispatcher: `linux/dispatcher.rs` | queue with an eventfd, workers, timer thread | ping and push are two steps | whatever is dispatched runs | `LinuxDispatcher` |
| Scheduler: `crates/scheduler/` | test queue, clock, blocked calls; rendezvous | blocking nests; the caller drops while the thread delivers | sessions in order; a task is cancelled, run or delivered | `TestScheduler`, `Rendezvous` |
| Application: `gpui/app.rs`, `app/entity_map.rs`, `subscription.rs` | effect queue, handles, subscribers | effects, subscriptions and releases raised inside callbacks | each effect reaches those subscribed, once, in order | `Effects` |
| Keys: `gpui/keymap.rs`, `key_dispatch.rs`, `window.rs` | bindings, pending keystrokes, timeout | precedence evaluated in three places; replay moves the focus | input waits exactly if it can complete | `Keymap`, `PendingInput` |
| Cached views: `gpui/view.rs`, `window.rs` | two frames, ranges, dirty views | indices kept over frames | reuse is invisible | `FrameReuse` |
| Scene: `gpui/scene.rs`, `bounds_tree.rs` | primitives, draw orders, a tree | pruning by stale maxima; merging sorted lists | later is above | `Scene`, `BoundsTree` |
| Lists: `gpui/elements/list.rs` | items, scroll position, pending adjustment, follow mode | splices and measurements between event and layout | a layout shows the position scrolled to, or moved by a splice, unless an outdated adjustment is pending | `ListState` |
| Touch: `gpui/gestures.rs`, `window.rs`, `gpui_web/src/events.rs` | recognizer, fling, timers | overlapping fingers, prediction | content travels as far as the finger | `TouchGestures` |
| Profiler: `gpui/profiler.rs`, `profiler/journal.rs` | ring of slots, journal, sealer, trace buffers | lock-free ring, clearing while recording | entries are copied whole, once; intervals hold the work that ended in them | `JournalRing`, `Journal`, `Trace` |
| CI gate, layout, text, sum tree, renderers, utilities | | sequential, or bindings | | none |

How they interact. Application code runs inside `App::update`; at the end of the outermost
update `flush_effects` delivers effects and calls `schedule_frame` on every window with GPUI
demand. The Wayland window turns that into a ping (if parked) or a note in its state (if a
tick is on the stack). The event loop serves the ping, frame callbacks, retry timers and input,
each of which may start a tick or an update; the tick calls GPUI's request-frame callback, which
reuses or rebuilds views into a scene and calls back into the platform window to draw.
Background tasks reach workers, and their results the main thread, through priority queues.

## Plan

Modelled so far, in this order: the frame loop, the priority queue and the threaded dispatcher
with their proofs; then the Linux dispatcher, effects, drags, the window tree, the seat,
configures, serials, the X11 clipboard, keys, the profiler, touch, lists, the test scheduler and
the rendezvous, the display link, cached views, draw orders and scenes.

Next, most important first:

1. Proofs: `TravelExact`, `ScrollKept` and `WorkEndsInInterval`, in an MC module of their own without
   the recursive definitions of the scene and the view tree.
2. `ThreadedDispatcher`: `run_ready_main_tasks` and `run_until_with_frames`.
3. Mouse and action dispatch through the element tree (capture and bubble phases), the hang
   monitor, the Windows and web frame loops.

## Modules

### FrameLoop and FrameDemand

`FrameLoop.tla` models one client with a set of windows on the one thread that runs the
event loop. Its variables are those of `WaylandWindowState` and of the GPUI `Window` that
decide about frames; the comment at each declaration names the field.

*A tick is several steps*, cut at the points where application code can run: `begin`
(`WaylandWindowStatePtr::frame` up to the first update), `callbacks` (next-frame
callbacks), `draw` (rendering), `complete` (`complete_frame`). Event sources fire only when
no tick and no ping dispatch is on the stack (`AtRest`). The application may invalidate,
ask for a frame, redraw, commit or close from events, or from the phases that run its
code. Each of those actions includes the flush that ends an update.

| Actions | Code |
|---|---|
| `AppInvalidate`, `AppOnNextFrame`, `AppDrawWithoutPresent` | invalidation, `on_next_frame`, key dispatch drawing a dirty window |
| `RequestRedraw`, `StateOnlyCommit`, `Resize`, `FirstConfigure`, `ThrottledConfigure`, `Close` | decoration, scale and background changes; `set_input_region`, `set_exclusive_zone`; configure handling; close and drop |
| `Throttle`, `Proceed` | the closure given to `on_request_frame` |
| `DrawSkipped`, `DrawDeviceLost`, `DrawPresented`, `DrawFailed` | `Window::draw`, `Window::present`, `WaylandWindow::draw`, `draw_with_geometry` |
| `CompleteAwaiting`, `CompletePaced`, `CompleteRetry`, `CompletePark`, `CompleteClosed` | `complete_frame` |
| `FrameCallback`, `RetryTimer`, `DispatchPing`, `DispatchWindow` | the three event sources |

Abstractions. A geometry is a model value: `xdg_geometry` is a function of size, insets and
tiling, and only whether it changed matters. Popups and layer surfaces are the windows
outside `Toplevels`. A close that cascades to children is a sequence of `Close` steps.
Branches that cannot be reached on Wayland are left out: `frame` finding its callback slot
empty (it is empty only inside the tick itself), the deferral of a draw within a draw
(Windows only). `Close` also clears the GPUI state, because the GPUI window goes with it.

`FrameDemand.tla` is what such a loop promises whatever its wakes are: one tick at a time,
sleep only when nothing is owed, demand arms a sleeper, an armed window is ticked.
`ImplementsFrameDemand` and `RefinesFrameDemand` state that `FrameLoop` implements it under
the mapping `WakeState`, `Owes`.

### PriorityQueue

`PriorityQueue.tla` models `PriorityQueueState` with any number of sending threads and
receivers. What happens under the mutex is one step. `send` reads `receiver_count` before
it locks, so it is `SendCheck` then `SendPush`; `recv` that finds nothing is `RecvWait`, a
wake (`NotifyOne` or `SpuriousWake`) and then `Pop` or `WaitAgain`. The loaded die of
`pop_inner` is `Faces`: the set of deques the coins can choose, computed from the weights
and the shrinking mass as the code does, with `"none"` if every coin could miss. Items are
numbered by their push, which is what the order properties need. `try_pop` on an empty
queue with a live sender changes nothing and is a stuttering step. The blocking and
spinning variants lock differently and do the same.

### ThreadedDispatcher

`ThreadedDispatcher.tla` models the worker threads, the timer thread and the main thread.
Runnables are anonymous, so queues and the timer heap are counts; `due` and `future` split
the heap by whether the time has come. A lock held over more than one step is visible as
the `pc` of its holder: the in-flight lock from `run_until_idle`'s re-check to its return or
wait, the timer-state lock from the pop of a due timer to the increment. `dispatch` is two
steps (count, queue), `dispatch_on_main_thread` is two steps (queue, notify under the
lock), and `is_idle` is three reads. Running code may dispatch anything at any time, and
may panic. It uses `PriorityQueue` through two of its results: a worker's pop proceeds
whenever something is queued (`NoLostWakeup`), and main-thread pops cannot fail while the
dispatcher lives. parking_lot's condvars, used here, have no spurious wakes.

Not in this module yet: `run_ready_main_tasks` and `run_until_with_frames`; threads of
`spawn_realtime`, panics of main-thread runnables (they unwind out of `run_until_idle`), and
the panic of the last worker.

### WindowTree, Configure, Seat, Serials and DataDevice: Wayland beside the frame loop

`WindowTree.tla`: opening (also failing half way), removal by the application, closing by the
compositor, the drop task. `close()` is a recursion with application callbacks in it and is modelled
by its stack; `Reentrant` lets those callbacks open and remove windows.

`Configure.tla`: one axis of a toplevel's size. `ToplevelConfigure` fills the in-progress
configure, `SurfaceConfigure` applies it or throttles it, `AppResize` and its task, `Frame` and
`FrameFails` commit. `committed` is what is on the screen: destination and buffer, and whether
the last commit attached one; `SetInputRegion` commits without a buffer whatever is staged.

`Seat.tla`: keyboard enter and leave, presses, releases and repeats, dead keys, the input method's
batches, pointer enter, leave, motion and buttons, the hidden cursor, and windows that close or
get a dialog at any time. A composed text is the window it was begun in.

`Serials.tla`: `SerialTracker` with `Rollover` serials, the selection and the grab of a popup that cite them; the
number of rollovers before an event is kept beside its serial, which is all the client sees.

`DataDevice.tla`: offers, the drag session, the asynchronous read of paths with its generation, the
selection, and the drag GPUI keeps for its elements, own or of files. A window that is closed or has a dialog
(`Blockable`) refuses every event (`Hears`); the fields `missed` record an end that was refused.

### X11Clipboard and X11Read

`X11Clipboard.tla` has the application thread (write, drop with its handover to the clipboard manager) and
the serving thread, each lock section a step; the server, the manager and other clients are
external and may ask at any time. `X11Read.tla` is `Inner::read` against an owner that may be late: all
conversions share one window and one property, large contents come in chunks.

### DisplayLink

The main thread's calls are programs of small steps (`main`), because CoreVideo is called outside
the registry's lock; the output callback is one step. Links may fail to start and may call back once
after they stop; windows are occluded, moved, dropped and freed, and frames drawn synchronously.

### LinuxDispatcher and Rendezvous

`LinuxDispatcher.tla`: push and ping, ping and count are separate steps; the source takes readiness
before it drains; the timer thread arms and fires. It uses `PriorityQueue` through `NoLostWakeup`.
`Rendezvous.tla`: caller, dedicated thread, the shared slot and the wakers of `spawn_dedicated_thread`.

### Effects

`Effects.tla` runs one callback at a time on a stack of an update and its flush. Every effect that
calls back is there: notify, emit, release, creation, deferred calls, windows. `iter` is the iteration of
`SubscriberSet::retain` over the set taken out; subscribers subscribe, drop, emit and notify from inside
callbacks; another thread may drop handles. `Starts(existing, open)` is an initial state for any entities that
exist already: none in a fresh application, or some that own one another.

### Keymap and PendingInput

`Keymap.tla` is `bindings_for_input` and the display of bindings as operators, checked against what a
sequence of keystrokes runs, for every keymap of up to three bindings (`AddBinding` is its one action).
`PendingInput.tla` takes those operators and adds `dispatch_key_event`: pending input, timeouts and their pauses, replays, focus
changes and modifier taps. The calls that `dispatch_key` and `flush_dispatch` make of themselves are recursive functions of
how many keystrokes have been replayed; a call ends (`Settled`, `Settle`) or replays a prefix and goes on with the
rest (`Replaying`).

### TestScheduler

A stack of frames: a task that polls, a call that blocks for a session, `advance_clock`. A blocked call runs
other tasks on the same stack; the choice of position and task is nondeterministic as under
`Randomize`.

### Journal, JournalRing and Trace

`JournalRing.tla` has a step per atomic operation on a slot; `Torn` is what a slot holds while it is
written. `Journal.tla` is the writer above it (turns, nested up to `MaxDepth`, idle boundaries, waiting frames, sleep,
visibility, windows that close) and the sealer; entries may be lost on the way. `Trace.tla` has tracing switched on and
off by several users while threads record, exit and collect; the registry's lock has an owner and the last `Arc` of
a thread's timings locks it again in its drop.

### FrameReuse, BoundsTree, Scene, ListState and TouchGestures

`FrameReuse.tla` draws a window in one step by the recursion of the code over its views, with
the two frames, their ranges and element states as data; `Scratch` is the frame drawn without any reuse, and
what is shown must equal it. `BoundsTree.tla` and `Scene.tla` are algorithms with a reference: the
order of a rectangle is one more than the highest it meets, and of two overlapping primitives the
later is drawn later. `ListState.tla` has splices, remeasurements, scrolls, drags of the scrollbar, tail following and
layout. `TouchGestures.tla` has fingers, the recognizer, the long-press timer, flings driven by frame
callbacks; positions are integers, curves a distance per tick.

### MCPlatform, MCFrame, MCApplication, MCThreads

These four modules instantiate the components above for TLC. A component is INSTANCEd once
for each case worth its own constants, called a part; the variable `part` says which part a
behaviour is of, the others rest in their initial state, and `Parts` is the set of those that run. So one
run covers components that share no state without multiplying their state spaces, and a part can
be run alone by giving `Parts` one element. Each property is the conjunction of what its component
promises in that part, its type invariant included, by the names of the component's own
definitions. The profiler's journal is in `MCFrame`, with the window whose frames it measures. In `MCApplication` parts
of one component share an instance where they can (one of `Effects`, one of `PendingInput`, one of `Keymap` for each
alphabet) and differ in conjuncts of `Init` and `Next`: the entities a part may create (`Created`), its bound on
calls (`OwnersCalls`), its bindings (`AreBound`) and its keystrokes (`TappedMax`, `modifiers' = {}`). `MCFrameReuse` holds the one instance that violates its property.

## Runs

| Run | Instance | Size | Question |
|---|---|---|---|
| `frame_loop_geometry` | one toplevel, two geometries | 6 180 states | Does every way a tick can end keep a wake for what is owed, does geometry follow the buffer, and does demand reach the screen? |
| `frame_loop_two_windows` | two windows without geometry, symmetric | 845 417 states | Is any window's wake swallowed by the other's dispatch, tick or close? |
| `priority_queue` | 2 senders, 3 receivers, 3 items | 58 335 states | Are wakeups, order and answers right under clones, drops and spurious wakes? |
| `threaded_dispatcher` | 2 workers, 3 runnables, both delays | 5 749 states | Does `run_until_idle` return, and only when all is done? |
| `platform` | 10 parts of 6 components | 1.3 million states | Do windows, input, drags, sizes, serials and display links stay consistent in every order of events? |
| `frame` | 14 parts of 6 components | 646 000 states | Is reuse invisible, is later above, does scrolling go where it was asked to, and do intervals measure their own work? |
| `application` | 10 parts of 4 components | 1.1 million states | Are effects, keys and test tasks in order? |
| `threads` | 10 parts of 8 components, with fairness | 121 000 states | Does each thread get what it is owed by the others, and does every wait end? |
| `priority_queue_sender_drop` | 1 sender, 2 receivers | violation | Does a blocked pop return when the sender is dropped, as documented? |
| `threaded_dispatcher_due_timer` | 1 worker, 2 runnables | violation | Can it return with a due timer, against its documentation? |
| `threaded_dispatcher_is_idle` | 1 worker, 2 runnables | violation | Does `is_idle` mean idle, as documented? |
| `frame_reuse_reading` | a view that reads a cached sibling's entity | violation | Is a cached view rendered again when its entity is notified? |

Why the bounds are enough. The frame loop has no counters: its state space is finite and the
runs explore all of it. Two geometries tell "wanted" from "on screen"; a third would play the
role of one of them. Two windows are needed for one to be on the stack while the other is
scheduled; a third would again be one of the two. In the queue, a wakeup can only be wasted
when one receiver overtakes another while a third sleeps, and a lost one needs an item more
than wakeups: three receivers, three items. In the dispatcher a runnable must be able to
dispatch another that reaches the main thread while a second worker runs: three runnables
(four give the same result, 19 723 states, and take longer than they add).

The parts of the other runs, with what their bounds let happen:

| Run | Part | Instance | What happens in it |
|---|---|---|---|
| `platform` | `tree`, `reentrant` | 3 windows; 2 with callbacks that open and remove | a dialog or popup on a dialog, closed along both paths at once |
| | `keys`, `text`, `pointer` | 2 windows, one of which closes (`keys`, `pointer`) or gets a dialog (`pointer`), 2 keys, 1 button | a repeat, a composition or a press while the focus moves; the ids of repeats are bounded by `MaxId` |
| | `drag` | 2 windows, one of which closes and one gets a dialog, 3 offers | a read that ends after its drag left and another entered, beside the selection; a drag that ends while its window refuses to hear of it |
| | `size` | 2 sizes and "as you like", 3 configures | a throttled configure between two others; resizes by the application; draws that fail, and commits without a buffer, between a resize and its frame |
| | `serials` | 4 serials, 4 events, from any first serial | a rollover between two presses or before both, and the serial 0 |
| | `link`, `screens` | 2 windows on a display; 1 window and 2 displays | sharing a link that fails to start; moving while frames are drawn |
| `frame` | `panels`, `popovers` | 4 views, 2 updates between draws | nested cached panels that move, appear, vanish; deferred draws |
| | `top`, `bottom`, `dragged` | up to 2 items of height up to 2, overdraw 1 | splices, remeasurements and scrolls between layouts, from both ends; the scrollbar |
| | `wide`, `deep` | 3 children and 6 inserts; 2 children and 4 inserts | leaves fill and split; a node above a node above leaves |
| | `sprites`, `replay` | 4 operations; 3 in each of 2 frames | batches broken by textures and by other kinds; ranges painted again among new primitives |
| | `touch` | 2 fingers, positions -2 to 2 | overlapping touches, prediction, flings caught half way |
| | `intervals`, `polls`, `lossy`, `samples` | 1 window, 2 units of time, a floor of 1 and a deadline of 2 | turns below and above the floor, a draw within a poll (`polls`, where `MaxDepth` is 2; it is 1 elsewhere), sleep, hiding and closing, frames shown again, lost boundaries |
| `application` | `entity`, `owners` | 1 entity from its creation, with a window; 2 that own one another | 2 subscribers, 4 or 2 callbacks that raise, subscribe, drop |
| | `nulls`, `sequences` | every keymap of up to 3 bindings, of 1 key and every kind, or 2 keys and 3 strokes | nulls and unbinds of other sources and depths, in order and out of order; prefixes of prefixes |
| | `ambiguous`, `focusing`, `modifiers` | 2 bindings, nulls of both contexts among them (`ambiguous`), 3 keystrokes; 1 binding and 2 modifiers | input that matches and could go on; replays that move the focus; taps |
| | `sessions`, `background`, `timers` | 3 tasks in 2 sessions or without one, 3 nested calls, 2 units of time | blocking inside a blocked call |
| `threads` | `linux` | 2 workers, 4 runnables | a send during a drain, timers armed by timers |
| | `dedicated` | 2 polls of the root, one child | drop, detach and await at every point of the delivery |
| | `clipboard`, `handover` | 2 writes, a peer and losses; 3 writes, 1 loss, one format for the manager to ask for | requests during a write and during the handover; a loss told before and after the next write |
| | `read` | 2 formats in 3 chunks | answers to conversions that timed out |
| | `ring`, `readers` | 2 slots, 1 pending; 1 or 2 collectors | wrapping onto a slot that is read; a suspended reader |
| | `trace` | 1 thread, 2 users, 2 periods | a thread that exits or records while it is cleared, so that either drops the last `Arc`; a clear between two collections |
| | `dialogs`, `flush` | as in `reentrant` and `entity` | that closing and flushing end |

The properties, by the question they answer:

- `WakeOwned`: a window in a waiting state has exactly the wake that state waits for.
  `ParkedOwesNothing`: the one state without a wake is only entered when nothing is owed.
  `GeometryMatchesBuffer`: draws that fail roll staged geometry back before anybody else's commit
  can apply it. `ClosedIsFinal`: nothing on the stack or queued ticks or draws a closed window, or waits for
  a callback or timer of it (its surface can still be committed, see below).
  `DemandIsPresented`: liveness of the whole loop. `ImplementsFrameDemand`, `RefinesFrameDemand`: refinement.
- `NoLostWakeup`, `QueuedIsTaken`: one `notify_one` per push is enough. `InOrder`: each deque is first
  in, first out across receivers. `AnswersAreFinal`: the die lands on a non-empty deque, and neither error is
  contradicted later.
- `InflightCounts`: the count is exact, through panics. `NoLostNotify`: nothing slips between
  `run_until_idle`'s re-check and its wait. `ReturnsQuiescent`: its return means what the code's
  comment argues. `RunUntilIdleReturns`, `DueTimerFires`: no deadlock between the two locks, and no timer sleeps on.
- `NoDanglingWindow`, `InputStaysInItsWindow`, `PressIsAdmitted`: what refers to a window, or is typed or pressed in
  it, never reaches one that is gone, blocked or another. `DragIsCurrent`: a late answer brings back no drag, and files
  or an own drag outlive their drag only where a closed or blocked window refused to hear its end.
  `SettlesOnConfigured`: what throttling drops is made up for, and each buffer is committed with its own
  destination. `GrabCitesLatestPress`: of two kinds of presses, except across a rollover; the selection across it too.
  `PacedByItsScreen`: a link runs for whom it has subscribers, on the right display, and never for a view that is freed.
- `CacheInvisible`, `OrderIsLeast`, `LaterIsAbove`: against a reference that uses neither cache nor tree. `TravelExact`:
  neither prediction nor a catch takes back what a finger scrolled. `ScrollKept`: no layout takes back a scroll, or leaves
  the item to which a splice or a pause of tail following has moved the position; an adjustment that was pending before
  the splice or the pause and names the item at the top is excused (see below).
- `NoneMissed`, `ReleasedOnce`: effects and entities under callbacks. `ReachableIsPending`: keys wait exactly if
  longer ones would run something, where nulls and unbinds are in order (`DisabledInOrder`, see below), and matching, pending
  and display agree otherwise. `StillCompletes`: none is lost or used twice, and what waits can complete something
  under the same proviso and unless a replayed binding has moved the focus.
  `SessionOrder`: for tasks of a session, nested blocking included.
  `WorkEndsInInterval`: the journal's intervals hold what ended in them and no sleep.
- `HandoffIsSound`, `CopiesItsEntry`: nothing is lost, torn or given twice between threads. `ClipboardIsWhole`: who asks
  gets the current text or a later one, and none only where a loss of the selection was told late; a read returns one
  content. `CollectedOnce`: a collection repeats no frame, and passes over none unless the buffer was cleared, which loses
  at most as many as the cursor counts; what survives the end of tracing is one frame at most.
  `EverythingRuns`, `CallEnds`: and every wait ends.

Deadlock checking is off in two runs: in `priority_queue` threads may stop sending, and a receiver that
sleeps with no sender left sleeps for ever (the subject of `priority_queue_sender_drop`); in `frame` a
scene is finished after its last frame. Every property of a passing run has a mutant in
`PROJECT.json`: an operator, defined in the module before the one it would replace, that contains a plausible
mistake (a dropped re-check, a missing reset, a notification outside the lock) and makes TLC report
that property.

## Fairness

*FrameLoop.* The event loop polls every source after each dispatch, so a ready ping, timer or
answered callback is served although ticks of other windows come between (strong fairness);
code on the stack runs on (weak fairness of draw and complete). The environment: the
compositor answers the frame callback of a surface that has a buffer (a visible window), the
throttle interval passes so that a tick is not throttled for ever (strong fairness of
`Proceed`), and the GPU does not refuse every frame for ever (strong fairness of
`DrawPresented`). No fairness is assumed for what the application or user may do.

*PriorityQueue.* A send under way ends, and a receiver is popped from in a loop, as the worker
loops of both dispatchers do. Spurious wakes are possible and never owed. The number of items
is bounded, so starvation of a low-priority item by an endless stream is outside the run: in the code
it is excluded only with probability one.

*ThreadedDispatcher.* Each thread that can step does; every runnable returns or panics; a thread
waiting for a lock that is released again and again gets it (strong fairness where a lock
holder can come between).

*MCThreads.* `LinuxFairness`: every thread that can step does; the poll of a loop sees a source that is
ready again and again (strong fairness), as an eventfd that stays readable does. `DedicatedFairness`: the dedicated
thread runs what is in its channel; a child that is polled again and again finishes. `CallFairness`: both
threads of the clipboard, the publisher, and whoever clears traces run on; a reader of another
client's selection looks at its clock, so it needs no fairness of the owner; in `readers` collectors are given
none, since the publisher must end its call without them. Other clients, the compositor and the application owe nothing.

## Proofs

All proofs are for every value of the constants (any number of windows, threads, entries and
items), from the assumptions named `ConstantsAssumption` in each module: the special values differ
from the ordinary ones, counted sets are finite, bounds are naturals, no key is a button, there is
a size to configure, the names of timeouts' states are not owners. TLC evaluates them in the runs, in `MCPlatform`,
`MCThreads` and `MCApplication` through `PartsAssumption`. Every inductive invariant was checked with TLC on the runs' instances before it was
proved.

*`FrameLoopProofs`.* `WakeOwned` alone is not inductive: whether a tick may park depends on what
was noted during the tick. `IInv` adds which states the window on the stack can be in at each
phase (`TickInv`), and per window: within a tick, demand has been turned into
`RescheduleRequested`, so a window still `Ticking` owes GPUI nothing (`QuietInv`); a window
that was never presented owes a draw (`FirstFrameInv`); staged and applied geometry follow the last
presented one, and one that moved since is owed a draw (`GeometryInv`). One lemma per group
of actions (`AppStep`, `EventStep`, `BeginStep`, `DrawStep`, `CompleteStep`) shows it kept. It yields
`TypeCorrect`, `WakesAreOwned`, `ParkedWindowsOweNothing`, `GeometryFollowsBuffer` and
`TimersAreAwaited`; `ClosingIsFinal` is an action property proved from types.

The same module proves the refinement: `FrameDemandRefined` says that `FrameLoop` implements the
safety part of `FrameDemand` under the mapping `WakeState`, `Owes`. `InitMaps` is the initial states; one lemma per
group of actions (`AppMaps`, `EventMaps`, `BeginMaps`, `DrawMaps`, `CompleteMaps`) shows that a step of the loop is
a step of the abstract loop or leaves its view alone; `FlushKeeps` is about the flush that ends an
update: it arms a sleeper that owes and changes no window otherwise. Two facts were missing from the
invariant for this, and are in it now: a tick begins on an open window only (`TickInv`), and a
window not yet configured has not been presented (`FirstFrameInv`).

*`PriorityQueueProofs`.* `IInv` adds that `receiver_count` counts the live receivers
(`CountInv`), that a checked send keeps the sender alive and a refused one has no receivers
(`SenderInv`), and that deques are sorted between `taken` and `sent` (`OrderInv`). `DieLands` shows that the
last non-empty deque's coin cannot miss, which is what makes `pop`'s unwrap safe. It yields
`TypeCorrect`, `WakeupsSuffice`, `PopsDeliver`, `DequesKeepOrder`, `DisconnectsAreDrained`,
`RefusalsAreFinal` and, of the last two and `PopsDeliver` together, `AnswersStand`.

*`ThreadedDispatcherProofs`.* `IInv` adds that only a running thread, or the main thread while
it is away, is inside a dispatch (`CallInv`), and that from `decide` on main-thread work has a
notification pending, by a thread that is still counted (`NotifyInv`): the argument in the comment of
`run_until_idle_with` made precise. It yields `TypeCorrect`, `InflightIsExact`,
`NotificationsAreKept`, `TimersAreWatched` and `ReturnIsQuiescent`.

*`PlatformPartsProofs` and `PlatformProofs`.* The first has an inductive invariant for each component of
`MCPlatform`, with its own constants and a lemma `...Inductive`: it holds initially, is kept by
every step, and implies the component's properties.

- `TreeInv`: the children of a window are exactly the dialogs and popups with a surface opened for it
  (`Links`); a drop task waits for a window that is dropped and registered, once (`TasksOK`), and
  only the outermost `close()` can be a task's (`TaskFrameOK`); a closed window that has a surface is on the
  stack (`ClosedOnStack`). Without reentrant callbacks a child that a `close()` has not visited is in its copy of the
  children or being closed (`KidsLeft`), so that the parent's registration outlives the child's surface
  in the middle of a cascade too (`ParentRegistered`).
- `InputInv`: each repeat timer belongs to one press, and the current repeat to a held key in the focused window
  (`RepeatsOK`); the pointer's window, location and hidden cursor agree (`PointerOK`); a composition, its
  pre-edit text and the marked windows are of one window (`TextOK`).
- `DragInv`: a read that is running is of this generation only if its drag is the session's
  (`ReadsOK`, `SessionOK`), and the offers whose paths were read are destroyed or current (`ReadOffersOK`).
- `SizeInv`: what an in-progress configure carries leads from what is on the screen to the last configure
  (`InProgressOK`), and what is staged is the destination of the next buffer (`DestinationOK`).
- `SerialInv`: the tracker has the serial of the last press of each kind, the presses are ordered by
  rollover and serial, and what was cited was right when it was cited.
- `LinkInv`: the calls in progress on the main thread are one of a few programs (`MainOK`), and what each still
  has to do accounts for every difference between registry, subscribers, running links and windows
  (`RegistryOK`, `CallsOK`, `QuietOK`, `PacedOK`); between two calls there is no difference left.

`PlatformProofs` instantiates that module for the parts of `MCPlatform` and shows that a part and its
instance are the same formulas (`TreePart`, `SeatKeysPart` and so on), and that a part that does not run
stutters: so `PlatformInv`, the conjunction over the parts, is inductive for the specification that TLC runs. It
yields `NothingDangles`, `TypedInputStays`, `PressesAreAdmitted`, `DragsAreCurrent`, `SizeSettles`,
`RequestsCiteLatestPress` and `WindowsArePaced`: every invariant of the run `platform`.

*`ThreadPartsProofs` and `ThreadsProofs`* do the same for six components of `MCThreads`.

- `LinuxInv`: outside the drain, work in the main queue has a ping or a sender about to ping (`PingOrSender`), and
  nobody is in the middle of a send once the dispatcher is dropped (`DropIsExclusive`).
- `DedicatedInv`: the channel holds each task at most once and only if it is queued (`Channel`), and what the
  thread (`ThreadOK`) and the caller (`CallerOK`) can be doing for each state of the shared slot.
- `ClipInv`: the events that can be queued (`QueuedEvents`), the application's drop against the serving
  thread (`DropOK`, `FlagsOK`), which text is stored, served and saved (`DataOK`, `SavedOK`), and that no unread loss
  precedes a request for a text that must be served (`SafeOK`).
- `ReadInv`: while a read of another client's selection runs, it is in one of four situations (`ReadMode`): its
  conversion is the last request the owner has to answer (`Asking`), its notification is the last event and
  the property holds its answer (`Answered`), or, in chunks, either the owner knows of the deletion
  (`AwaitsChunk`) or the reader of the chunk (`ChunkThere`), and what was read, what is in the property and what is
  to come make up the content. Everything before is late and belongs to a conversion that was given up
  (`Past`), and no target is converted twice (`TargetIsNew`): that is why no late answer passes for the current one.
- `RingInv`: a slot that is not being written holds the entry of its sequence (`SlotsOK`), a collector reads
  final entries and the slot it copies from keeps its sequence (`CollectorOK`), pending entries come before
  dropped ones (`PublisherOK`). `Exclusion` counts the readers of a slot, hence the lemmas on finite
  sets; `SlotApart` is the arithmetic of the ring.
- `TraceInv`: exactly the buffers that somebody holds are registered, or about to be removed (`HeldIsRegistered`,
  `RegisteredIsHeld`), or clearing would pass one by; a timing of a period that ended is left only until whoever
  turned tracing off has cleared it (`TimingsEnd`); the frames a collector would return were recorded since it last
  ran, and all of them unless the buffer was cleared since, although the count starts again
  (`UnseenCount`); a frame of a period that ended was pushed by a call that had looked before (`FramesEnd`, `FramesOK`).

They yield `NothingLost` (`HandoffIsSound`), `RingIsSound` (`CopiesItsEntry`), `ClipboardIsServedAndRead`
(`ClipboardIsWhole`) and `TracesEnd` (`CollectedOnce`): every safety property of the run `threads`.

*`ApplicationProofs`* is about the specification of `MCApplication` itself; `ApplicationInv` is the conjunction over its
parts, and `EachPart` says which part a step can be of.

- `EffectsInv`, for effects and entities. `NoneMissed` and `ReleasedOnce` depend on what is still in the queue and on
  the stack: a subscription that is not yet active has its activation queued, after everything raised before it
  subscribed and before everything raised since (`ActivationOK`, `StampOK`), so a subscriber has heard exactly what it
  should (`GotOK`, `AppliedOK`), while the set taken out by an iteration is put together again at its end (`IterOK`,
  `SubsOK`); an emitter has one queued notification at most (`NotifyOK`); and an entity has at least the handles
  that the stack and the queue hold, and is live exactly while it has any (`HandlesOK`); from its last handle on it waits
  for its release, once (`DroppedOK`). One lemma per action (`RaiseStep`, `ActivateStep`, `RetainNextStep`, `ReleaseEntityStep` and so on)
  shows it kept; `Pushed...` and `Popped...` are what adding and taking an effect does to each part.
- For keymaps the properties compare operators on a whole keymap. `SequencesAreReachable` compares pending input with what
  runs, for keymaps of any kinds, where disabled bindings are in order; for nulls of other sources one more
  fact is needed, that sources are added from the weakest to the strongest (`StrongerLater` in `NullInv`), and then
  `FirstIsFound`, `FoundIsShown` and `DisablingPrecedes` compare the two orders of precedence.
- `InputInv`, for pending input: the counts of typed, used, replayed, dropped and pending keystrokes agree, what is
  pending is for the focus and, where no binding moves the focus and disabled bindings are in order, can complete a
  binding (`HeldOK`, `CompletesOK`);
  which modifiers were pressed alone (`TapOK`). What `dispatch_key` and `flush_dispatch` return is shown by
  `DispatchAccounts` and `FlushAccounts`: every keystroke is pending, used or replayed, once. The induction is done
  by hand: `LeastExists` and `GreatestExists` follow from the well-foundedness of the naturals, `RecursionExists`
  shows that the recursive functions exist, and each lemma takes a least or greatest counterexample.

It yields `SubscribersHear` (`NoneMissed`), `EntitiesReleased` (`ReleasedOnce`), `KeymapAgrees` (`ReachableIsPending`) and
`KeystrokesKept` (`StillCompletes`): every property of the run `application` but `SessionOrder`.

Proved and in no run of its own: the `TypeOK` of the queue and the dispatcher, `NoForgottenTimer`, and the
conjuncts of `AnswersAreFinal`.

Only model-checked: everything under fairness (`DemandIsPresented`, `QueuedIsTaken`,
`RunUntilIdleReturns`, `DueTimerFires`, `ImplementsFrameDemand`, `EverythingRuns`, `CallEnds`), which is out of
the prover's reach; `SessionOrder`, because `TestScheduler` filters its queues with `SelectSeq`, whose operator argument
the provers cannot instantiate; and the run `frame`. There `CacheInvisible`, `OrderIsLeast` and `LaterIsAbove` are about
what recursive operators compute on trees and sequences, which would need induction over data. `TravelExact`,
`ScrollKept` and `WorkEndsInInterval` are of ordinary state machines, but `MCFrame` has them in one specification with
those recursive operators, and no module that reaches one can be proved about.

## Disagreements with the documentation

Each of these is a run whose property states the documentation and is violated:

- `gpui/queue.rs:297-305`: `pop` is documented to fail "If the sender was dropped". A
  pop that is already blocked does not: the sender's drop notifies nobody and the wait loop
  does not look at the count again (`priority_queue_sender_drop`).
- `gpui/platform/threaded_dispatcher.rs:211-212`: `run_until_idle` "waits until no
  background or timer work is queued, running, or already due". A timer armed already due
  between `has_due_timer` and the in-flight lock is missed (`threaded_dispatcher_due_timer`).
- `gpui/platform/threaded_dispatcher.rs:397-399`: `is_idle` can answer true although
  main-thread work is queued, because it reads the main queue before the count (`threaded_dispatcher_is_idle`).
- `gpui/view.rs:236`: "The rendered subtree is reused until the entity is notified". A view whose entity an
  earlier view of the frame reads does not count as having accessed it (`gpui/app.rs:1204`); once the earlier view
  stops reading it, its notifications reach no window (`frame_reuse_reading`; in the parts of the run `frame` no view
  reads another's entity).

The passing runs leave out, or their properties excuse, the cases in which TLC shows the following; each can be seen
by giving a component's instance the constants named, or by taking the condition named out of the property.

- `WindowTree` with `Reentrant`, `NoOrphans`: `close()` walks a copy of the children
  (`wayland/window.rs:1541`), so a dialog that a close callback opens on the closing window stays open, against
  "Children are closed before this window closes." (`:104`).
- `Configure`, without `committed.attached` in `DestinationFitsBuffer`: the destination is staged at the resize
  (`wayland/window.rs:1521`), so a commit without a buffer, of `set_input_region` (`:2143`) or after a failed draw, scales the
  old buffer until the next frame, against the intent of `geometry.rs:19` for geometry.
- `FrameLoop`, with `shown` in `ClosedIsFinal`: `set_exclusive_zone`, `set_exclusive_edge` and `set_input_region`
  (`wayland/window.rs:2093-2144`) do not ask whether the window is closed, and commit its surface until it is dropped.
- `DataDevice`, without `missed` in its properties: `handle_input` refuses every event of a closed window or one with a
  dialog (`wayland/window.rs:1559`), the leave, drop and end of a drag among them. The files, or the own drag, stay until a
  button is released or a later drag ends where it is heard; a drag that enters before gives its drop the earlier files.
- `Serials`, without `SameEpoch` in `GrabCitesLatestPress`: the grab takes the larger of two serials
  (`wayland/client.rs:1149-1155`), which is the older press if the serials have rolled over between the two, against
  "use the most recent press serial"; a press with the serial 0 counts as none.
- `Seat` with `Closable` windows and `TextInput`, `TextStaysInItsWindow`: leave resets a composition only if
  the window it leaves is open, and Done without a focus keeps its text (`wayland/client.rs:1909`, `:2131`), so
  the text of a closed window shows up in the next.
- `X11Clipboard` with a `"peer"` and `FinishedMeansSaved`: any request but TARGETS counts as the manager's
  (`x11/clipboard.rs:899`), so that a paste of another client, or a request for a format that is not stored, can end the
  handover early.
- `X11Clipboard`, without `safe`: a SelectionClear that is read after the write that took the selection back
  deletes the new text (`x11/clipboard.rs:861-879`), and the owner of the selection has nothing to give.
- `Keymap`, without `DisabledInOrder`: for pending input a disabled binding removes its keystrokes by position
  alone (`gpui/keymap.rs:228-242`), against "the same precedence rules" of `:161-164`. A null of a shallower context that
  comes later makes a sequence that would match impossible to type; one of a deeper context that comes earlier
  leaves input pending that completes nothing (`PendingInput`, `StillCompletes`).
- `Trace`, without `cleared` in `CollectedOnce`: clearing restarts the count of frames and not the collectors' cursors
  (`gpui/profiler.rs:781`, `:1251-1256`), so a collector passes over the next frames, against "Returns frame events
  recorded since the previous call" (`:1245`). Without the one frame of `OffIsEmpty`: `record_frame_event` looks at the
  setting before it locks the buffer (`:1208-1219`), and can leave a frame there after the clear, against `:704-705`.
- `ListState`, without `Outdated` in `ScrollKept`: `splice_focusable` moves the scroll position and not the pending
  adjustment (`gpui/elements/list.rs:536-548`), which the next layout applies if its index is that of the item now at the top
  (`:1085-1090`); so does a pause of tail following after `set_follow_mode`.
- `PendingInput` with `"Focus"` and `StillCompletes`: what is pending after a replay was matched for the focus
  before it (`gpui/window.rs:5892`).
- `ListState` with an overdraw of 0 and taller items, `ResumesAtEnd`: items never measured count as nothing
  (`gpui/elements/list.rs:1215`), so following resumes above the end.
- `FrameReuse` with a cached view in a deferred draw, or one view in two cached ones, `CacheInvisible`: stale ranges are
  reused (`gpui/view.rs:491`), and only the last parent is marked (`gpui/key_dispatch.rs:589`).

## What is not modelled

`PROJECT.json` lists every component with its status. Left out for good: bindings to operating systems and
to the GPU (behaviour outside the repository), layout (the taffy library) and text shaping, styling and
geometry arithmetic (`styled.rs`, `style.rs`, `geometry.rs`, `color.rs`), the element builders of `elements/` other
than lists, `sum_tree` and other sequential data structures with randomised tests of their own, path
utilities, parsing of key bindings and predicates, logging, HTTP glue, macros, examples and scripts. They are
most of the repository's lines: declarations, conversions and calls into libraries, without state that is
shared, ordered or retried, so that a model of them would repeat the code and check nothing.
The modelled code is the part with concurrency, callbacks, failure or ordering.

Within the modelled parts: decorations, layer-shell margins and the contents of input regions; outputs, tablets
and keymaps of the Wayland client; window input of X11; a display link that fails to stop (`display_link.rs:224` logs it);
the web platform's keyboard for a tap; the hitboxes of window controls, which a reused view does not get back
(`gpui/window.rs:987`, `:5130`); the cap on the events of a journal interval (`journal.rs:1193-1214`); visibility of
Wayland windows; globals, leases and the nested flushes of a
shutdown in the application; mouse and action dispatch through the element tree; realtime threads, and the test scheduler's
parking and activity of other threads; the hang monitor and histograms of the profiler.
