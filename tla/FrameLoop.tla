------------------------------ MODULE FrameLoop ------------------------------
(***************************************************************************)
(* The per-window frame loop of the Wayland backend: the state machine of  *)
(* gpui_linux/src/linux/wayland/{frame_loop,window,geometry}.rs, the       *)
(* GPUI request-frame callback it drives (gpui/src/window.rs), the flush   *)
(* that turns GPUI demand into platform wakes (gpui/src/app.rs), and the   *)
(* three event sources that wake it (gpui_linux/.../wayland/client.rs):    *)
(* the compositor's wl_callback, the shared calloop ping and one retry     *)
(* timer per window.                                                       *)
(*                                                                         *)
(* Everything runs on one thread.  A tick (WaylandWindowStatePtr::frame)   *)
(* is split into the points at which application code can run: begin,      *)
(* callbacks, draw, complete.  Event sources fire only between ticks.      *)
(***************************************************************************)
EXTENDS Naturals

CONSTANTS
    Windows,      \* the windows of the client
    Toplevels,    \* those with an xdg_toplevel role: they carry xdg geometry
    Geometries,   \* the xdg window geometries a toplevel can want
    NoGeometry,   \* last_presented_geometry == None
    NoWindow      \* no tick is on the stack

ASSUME ConstantsAssumption ==
    /\ Toplevels \subseteq Windows
    /\ Geometries # {}
    /\ NoGeometry \notin Geometries
    /\ NoWindow \notin Windows

VARIABLES
    \* WaylandWindowStatePtr and WaylandWindowState, per window
    frame_loop,         \* Cell<FrameLoop>
    presentation,       \* PresentationState
    redraw_requested,   \* platform state changed since the last draw
    resize_throttle,    \* an interactive resize was applied since the last tick
    frame_callback,     \* pending_frame_callback: none, requested, committed
    retry_timer,        \* a calloop Timer is registered for the window
    \* xdg window geometry, per window
    geometry,           \* xdg_geometry(): what the window wants now
    staged,             \* pending (uncommitted) set_window_geometry request
    shown,              \* geometry the compositor applied at the last commit
    last_presented,     \* last_presented_geometry
    \* the GPUI Window, per window
    dirty,              \* WindowInvalidator::is_dirty
    needs_present,      \* a scene was drawn and not presented
    next_frame,         \* next_frame_callbacks is not empty
    deferred_force,     \* deferred_force_render of the request-frame callback
    last_frame,         \* last_frame_time.is_some()
    \* the event loop
    ping,               \* the shared frame ping is readable
    dispatching,        \* windows dispatch_scheduled_frames still has to visit
    ticking,            \* window whose frame() is on the stack, or NoWindow
    phase,              \* how far that tick has got
    force_render,       \* RequestFrameOptions of that tick
    require_presentation

platformVars == <<frame_loop, presentation, redraw_requested, resize_throttle,
                  frame_callback, retry_timer>>
geometryVars == <<geometry, staged, shown, last_presented>>
gpuiVars     == <<dirty, needs_present, next_frame, deferred_force, last_frame>>
tickVars     == <<ticking, phase, force_render, require_presentation>>
vars == <<platformVars, geometryVars, gpuiVars, ping, dispatching, tickVars>>

-----------------------------------------------------------------------------
(* frame_loop.rs *)

FrameLoopState ==
    {"Unconfigured", "Ticking", "RescheduleRequested", "PresentationFailed",
     "AwaitingCallback", "Scheduled", "RetryScheduled", "Parked", "Closed"}

PresentationState ==
    {"Unpresented", "Presented", "RetryBeforeFirstPresent", "RetryAfterPresent"}

requires_presentation(p) == p \in {"RetryBeforeFirstPresent", "RetryAfterPresent"}

failed(p) ==
    IF p \in {"Unpresented", "RetryBeforeFirstPresent"}
    THEN "RetryBeforeFirstPresent"
    ELSE "RetryAfterPresent"

admit_draw(s) == s \notin {"Unconfigured", "Closed"}

\* Mutant: a wake requested during a tick is dropped.
schedule_frame_ignoring_ticks(s) == IF s = "Parked" THEN "Scheduled" ELSE s

\* The state schedule_frame leaves; it pings exactly when the window was Parked.
schedule_frame(s) ==
    CASE s = "Parked"  -> "Scheduled"
      [] s = "Ticking" -> "RescheduleRequested"
      [] OTHER         -> s

-----------------------------------------------------------------------------
(* Wakes *)

\* PlatformWindow::schedule_frame for every window in S, from frame-loop states fl.
ScheduleFrames(fl, S) ==
    /\ frame_loop' = [w \in Windows |-> IF w \in S THEN schedule_frame(fl[w]) ELSE fl[w]]
    /\ ping' = (ping \/ \E w \in S : fl[w] = "Parked")

\* The windows whose frame App::flush_effects schedules at the end of every
\* App::update, for the GPUI state that update leaves.
Demanding(d, np, nf) == {w \in Windows : d[w] \/ np[w] \/ nf[w]}

\* Between two dispatches of the event loop.
AtRest == ticking = NoWindow /\ dispatching = {}

\* Application code runs from events and tasks between ticks, and inside a tick
\* from next-frame callbacks, from rendering, and from the input handler that
\* update_ime_enabled queries.
AppMayRun ==
    \/ AtRest
    \/ phase \in {"callbacks", "complete"}
    \/ phase = "draw" /\ (dirty[ticking] \/ force_render)

Open(w) == frame_loop[w] # "Closed"

-----------------------------------------------------------------------------
(* The initial state: App::open_window has drawn the first scene without     *)
(* presenting it, the surface is committed without a buffer, and no          *)
(* configure has arrived.                                                    *)

Init ==
    /\ frame_loop = [w \in Windows |-> "Unconfigured"]
    /\ presentation = [w \in Windows |-> "Unpresented"]
    /\ redraw_requested = [w \in Windows |-> FALSE]
    /\ resize_throttle = [w \in Windows |-> FALSE]
    /\ frame_callback = [w \in Windows |-> "none"]
    /\ retry_timer = [w \in Windows |-> FALSE]
    /\ geometry \in [Windows -> Geometries]
    /\ staged = [w \in Windows |-> NoGeometry]
    /\ shown = [w \in Windows |-> NoGeometry]
    /\ last_presented = [w \in Windows |-> NoGeometry]
    /\ dirty = [w \in Windows |-> FALSE]
    /\ needs_present = [w \in Windows |-> TRUE]
    /\ next_frame = [w \in Windows |-> FALSE]
    /\ deferred_force = [w \in Windows |-> FALSE]
    /\ last_frame = [w \in Windows |-> FALSE]
    /\ ping = FALSE
    /\ dispatching = {}
    /\ ticking = NoWindow
    /\ phase = "idle"
    /\ force_render = FALSE
    /\ require_presentation = FALSE

-----------------------------------------------------------------------------
(* Application and compositor requests that create demand *)

\* A view or entity of w is notified, or Window::refresh is called.
AppInvalidate(w) ==
    /\ AppMayRun
    /\ Open(w)
    /\ dirty' = [dirty EXCEPT ![w] = TRUE]
    /\ ScheduleFrames(frame_loop, Demanding(dirty', needs_present, next_frame))
    /\ UNCHANGED <<presentation, redraw_requested, resize_throttle,
                   frame_callback, retry_timer, geometryVars, needs_present,
                   next_frame, deferred_force, last_frame, dispatching, tickVars>>

\* Window::on_next_frame (and request_animation_frame).
AppOnNextFrame(w) ==
    /\ AppMayRun
    /\ Open(w)
    /\ next_frame' = [next_frame EXCEPT ![w] = TRUE]
    /\ ScheduleFrames(frame_loop, Demanding(dirty, needs_present, next_frame'))
    /\ UNCHANGED <<presentation, redraw_requested, resize_throttle,
                   frame_callback, retry_timer, geometryVars, dirty,
                   needs_present, deferred_force, last_frame, dispatching, tickVars>>

\* Input dispatch draws a dirty window before it hit-tests, and does not
\* present: the scene waits for the next tick.
AppDrawWithoutPresent(w) ==
    /\ AtRest
    /\ Open(w)
    /\ dirty[w]
    /\ \E redirty \in BOOLEAN : dirty' = [dirty EXCEPT ![w] = redirty]
    /\ needs_present' = [needs_present EXCEPT ![w] = TRUE]
    /\ ScheduleFrames(frame_loop, Demanding(dirty', needs_present', next_frame))
    /\ UNCHANGED <<presentation, redraw_requested, resize_throttle,
                   frame_callback, retry_timer, geometryVars, next_frame,
                   deferred_force, last_frame, dispatching, tickVars>>

\* request_redraw after a change of decorations, insets, scale or background.
\* The change may move the xdg geometry.
RequestRedraw(w, g) ==
    /\ AppMayRun
    /\ Open(w)
    /\ geometry' = [geometry EXCEPT ![w] = g]
    /\ redraw_requested' = [redraw_requested EXCEPT ![w] = TRUE]
    /\ ScheduleFrames(frame_loop, {w})
    /\ UNCHANGED <<presentation, resize_throttle, frame_callback, retry_timer,
                   staged, shown, last_presented, gpuiVars, dispatching, tickVars>>

\* A commit without a buffer (set_input_region, set_exclusive_zone): it carries
\* the pending geometry and a pending frame callback with it.  Nothing stops one on a
\* window that close() has marked and whose surface is still there.
StateOnlyCommit(w) ==
    /\ AppMayRun
    /\ shown' = [shown EXCEPT ![w] = staged[w]]
    /\ frame_callback' = [frame_callback EXCEPT
            ![w] = IF @ = "requested" THEN "committed" ELSE @]
    /\ UNCHANGED <<frame_loop, presentation, redraw_requested, resize_throttle,
                   retry_timer, geometry, staged, last_presented, gpuiVars,
                   ping, dispatching, tickVars>>

\* close() by the compositor or a parent, whose close callback removes the GPUI
\* window, and Drop when the application removes it: the GPUI state goes with it.
Close(w) ==
    /\ AppMayRun
    /\ Open(w)
    /\ frame_loop' = [frame_loop EXCEPT ![w] = "Closed"]
    /\ dirty' = [dirty EXCEPT ![w] = FALSE]
    /\ needs_present' = [needs_present EXCEPT ![w] = FALSE]
    /\ next_frame' = [next_frame EXCEPT ![w] = FALSE]
    /\ deferred_force' = [deferred_force EXCEPT ![w] = FALSE]
    /\ redraw_requested' = [redraw_requested EXCEPT ![w] = FALSE]
    /\ resize_throttle' = [resize_throttle EXCEPT ![w] = FALSE]
    /\ UNCHANGED <<presentation, frame_callback, retry_timer, geometryVars,
                   last_frame, ping, dispatching, tickVars>>

-----------------------------------------------------------------------------
(* The tick *)

\* WaylandWindowStatePtr::frame up to the request-frame callback's first App
\* update (the thermal-state query) and its flush.
\* The callback slot is only empty while a tick of this window runs.
Frame(w) ==
    /\ ticking' = w
    /\ phase' = "begin"
    /\ resize_throttle' = [resize_throttle EXCEPT ![w] = FALSE]
    /\ force_render' = redraw_requested[w]
    /\ require_presentation' = requires_presentation(presentation[w])
    /\ ScheduleFrames([frame_loop EXCEPT ![w] = "Ticking"],
                      Demanding(dirty', needs_present, next_frame))

\* An event that ticks w if its frame loop is in state s and is ignored if not.
FrameIf(w, s) ==
    IF frame_loop[w] = s
    THEN Frame(w)
    ELSE UNCHANGED <<frame_loop, resize_throttle, ping, tickVars>>

\* The frame-rate throttle: an inactive or thermally limited window was drawn
\* too recently.  A frame the renderer owes is never throttled.
Throttle(w) ==
    /\ ticking = w /\ phase = "begin"
    /\ ~require_presentation
    /\ force_render \/ next_frame[w]
    /\ last_frame[w]
    /\ deferred_force' = [deferred_force EXCEPT ![w] = @ \/ force_render]
    /\ ScheduleFrames(frame_loop, {w} \cup Demanding(dirty, needs_present, next_frame))
    /\ phase' = "complete"
    /\ UNCHANGED <<presentation, redraw_requested, resize_throttle,
                   frame_callback, retry_timer, geometryVars, dirty,
                   needs_present, next_frame, last_frame, dispatching, ticking,
                   force_render, require_presentation>>

\* Not throttled: the deferred force and the next-frame callbacks are taken.
Proceed(w) ==
    /\ ticking = w /\ phase = "begin"
    /\ force_render' = (force_render \/ deferred_force[w])
    /\ deferred_force' = [deferred_force EXCEPT ![w] = FALSE]
    /\ last_frame' = [last_frame EXCEPT ![w] = TRUE]
    /\ next_frame' = [next_frame EXCEPT ![w] = FALSE]
    /\ phase' = IF next_frame[w] THEN "callbacks" ELSE "draw"
    /\ UNCHANGED <<platformVars, geometryVars, dirty, needs_present, ping,
                   dispatching, ticking, require_presentation>>

Drawing(w) == ticking = w /\ phase \in {"callbacks", "draw"} /\ Open(w)

\* Window::draw rebuilds the scene of a dirty or forced window and clears
\* dirty; focus listeners may dirty it again.
Rebuild(w) ==
    IF dirty[w] \/ force_render
    THEN \E redirty \in BOOLEAN : dirty' = [dirty EXCEPT ![w] = redirty]
    ELSE UNCHANGED dirty

\* Window::present has drawn, whatever the platform made of it; fl is the
\* frame-loop state the platform draw leaves.  Then the flush, and the final
\* update of the callback, which schedules a frame for what is still dirty.
EndDraw(fl) ==
    /\ needs_present' = [needs_present EXCEPT ![ticking] = FALSE]
    /\ ScheduleFrames(fl, Demanding(dirty', needs_present', next_frame))
    /\ phase' = "complete"
    /\ UNCHANGED <<resize_throttle, retry_timer, geometry, next_frame,
                   deferred_force, last_frame, dispatching, ticking,
                   force_render, require_presentation>>

\* Nothing to draw and nothing to present.
DrawSkipped(w) ==
    /\ Drawing(w)
    /\ ~(dirty[w] \/ force_render \/ require_presentation \/ needs_present[w])
    /\ phase' = "complete"
    /\ UNCHANGED <<platformVars, geometryVars, gpuiVars, ping, dispatching,
                   ticking, force_render, require_presentation>>

\* Mutant: a lost device drops the frame instead of latching a redraw.
DrawDeviceLostUnlatched(w) ==
    /\ Drawing(w)
    /\ admit_draw(frame_loop[w])
    /\ Rebuild(w)
    /\ EndDraw(frame_loop)
    /\ UNCHANGED <<presentation, redraw_requested, frame_callback, staged, shown,
                   last_presented>>

\* WaylandWindow::draw with the GPU device lost: recovered, and drawn later.
DrawDeviceLost(w) ==
    /\ Drawing(w)
    /\ admit_draw(frame_loop[w])
    /\ Rebuild(w)
    /\ redraw_requested' = [redraw_requested EXCEPT ![w] = TRUE]
    /\ EndDraw(frame_loop)
    /\ UNCHANGED <<presentation, frame_callback, staged, shown, last_presented>>

\* WaylandWindow::draw, presented: the buffer, the staged geometry and the
\* frame callback are committed together.  The renderer may ask for a redraw.
DrawPresented(w) ==
    /\ Drawing(w)
    /\ admit_draw(frame_loop[w])
    /\ Rebuild(w)
    /\ \E needs_redraw \in BOOLEAN :
           redraw_requested' = [redraw_requested EXCEPT ![w] = needs_redraw]
    /\ frame_callback' = [frame_callback EXCEPT ![w] = "committed"]
    /\ IF w \in Toplevels
       THEN /\ staged' = [staged EXCEPT ![w] = geometry[w]]
            /\ last_presented' = [last_presented EXCEPT ![w] = geometry[w]]
       ELSE UNCHANGED <<staged, last_presented>>
    /\ shown' = [shown EXCEPT ![w] = staged'[w]]
    /\ presentation' = [presentation EXCEPT ![w] = "Presented"]
    /\ EndDraw([frame_loop EXCEPT ![w] = "AwaitingCallback"])

\* Mutant: the new geometry of a failed draw stays pending.
NotRolledBack(w) == geometry[w]

\* The geometry a failed draw leaves pending (draw_with_geometry's rollback).
RolledBack(w) ==
    IF last_presented[w] = NoGeometry THEN geometry[w] ELSE last_presented[w]

\* WaylandWindow::draw, not presented: nothing is committed.
DrawFailed(w) ==
    /\ Drawing(w)
    /\ admit_draw(frame_loop[w])
    /\ Rebuild(w)
    /\ \E needs_redraw \in BOOLEAN :
           redraw_requested' = [redraw_requested EXCEPT ![w] = needs_redraw]
    /\ frame_callback' = [frame_callback EXCEPT
            ![w] = IF @ = "none" THEN "requested" ELSE @]
    /\ staged' = [staged EXCEPT ![w] = IF w \in Toplevels THEN RolledBack(w) ELSE @]
    /\ presentation' = [presentation EXCEPT ![w] = failed(@)]
    /\ EndDraw([frame_loop EXCEPT ![w] = "PresentationFailed"])
    /\ UNCHANGED <<shown, last_presented>>

-----------------------------------------------------------------------------
(* complete_frame *)

EndTick ==
    /\ ticking' = NoWindow
    /\ phase' = "idle"
    /\ force_render' = FALSE
    /\ require_presentation' = FALSE
    /\ UNCHANGED <<presentation, redraw_requested, resize_throttle, geometry,
                   staged, last_presented, gpuiVars, dispatching>>

\* Mutant: complete_frame does not look whether the window closed meanwhile.
CompletingAnyway(w) == ticking = w /\ phase = "complete"

Completing(w) == ticking = w /\ phase = "complete" /\ Open(w)

\* The compositor paces the retry of a draw that failed after the surface was
\* mapped: the frame callback is committed without a buffer.
PacedRetry(w) ==
    /\ frame_loop[w] = "PresentationFailed"
    /\ presentation[w] = "RetryAfterPresent"

\* Mutant: only GPUI's reschedule keeps the loop awake, not a platform redraw.
WantsRetryForGpui(w) ==
    \/ requires_presentation(presentation[w])
    \/ frame_loop[w] = "RescheduleRequested"

WantsRetry(w) ==
    \/ requires_presentation(presentation[w])
    \/ frame_loop[w] = "RescheduleRequested"
    \/ redraw_requested[w]

CompleteAwaiting(w) ==
    /\ Completing(w)
    /\ frame_loop[w] = "AwaitingCallback"
    /\ EndTick
    /\ UNCHANGED <<frame_loop, frame_callback, retry_timer, shown, ping>>

CompletePaced(w) ==
    /\ Completing(w)
    /\ PacedRetry(w)
    /\ frame_callback' = [frame_callback EXCEPT ![w] = "committed"]
    /\ shown' = [shown EXCEPT ![w] = staged[w]]
    /\ frame_loop' = [frame_loop EXCEPT ![w] = "AwaitingCallback"]
    /\ EndTick
    /\ UNCHANGED <<retry_timer, ping>>

\* Mutant: a refused timer leaves the window RetryScheduled without a wake.
CompleteRetryUnregistered(w) ==
    /\ Completing(w)
    /\ frame_loop[w] # "AwaitingCallback"
    /\ ~PacedRetry(w)
    /\ WantsRetry(w)
    /\ frame_loop' = [frame_loop EXCEPT ![w] = "RetryScheduled"]
    /\ \E registered \in BOOLEAN :
           retry_timer' = [retry_timer EXCEPT ![w] = @ \/ registered]
    /\ EndTick
    /\ UNCHANGED <<frame_callback, shown, ping>>

\* schedule_retry: the timer owns the wake, or, if calloop refuses the timer,
\* the shared ping does.
CompleteRetry(w) ==
    /\ Completing(w)
    /\ frame_loop[w] # "AwaitingCallback"
    /\ ~PacedRetry(w)
    /\ WantsRetry(w)
    /\ \/ /\ frame_loop' = [frame_loop EXCEPT ![w] = "RetryScheduled"]
          /\ retry_timer' = [retry_timer EXCEPT ![w] = TRUE]
          /\ UNCHANGED ping
       \/ /\ frame_loop' = [frame_loop EXCEPT ![w] = "Scheduled"]
          /\ ping' = TRUE
          /\ UNCHANGED retry_timer
    /\ EndTick
    /\ UNCHANGED <<frame_callback, shown>>

CompletePark(w) ==
    /\ Completing(w)
    /\ frame_loop[w] # "AwaitingCallback"
    /\ ~WantsRetry(w)
    /\ frame_loop' = [frame_loop EXCEPT ![w] = "Parked"]
    /\ EndTick
    /\ UNCHANGED <<frame_callback, retry_timer, shown, ping>>

\* frame() returns early when the callback closed the window.
CompleteClosed(w) ==
    /\ ticking = w
    /\ ~Open(w)
    /\ EndTick
    /\ UNCHANGED <<frame_loop, frame_callback, retry_timer, shown, ping>>

-----------------------------------------------------------------------------
(* Event sources *)

\* The bounds change of a resize dirties the GPUI window.
Resized(w, g) == [dirty EXCEPT ![w] = @ \/ g # geometry[w]]

\* The first configure resizes, acknowledges and ticks at once.
FirstConfigure(w, g) ==
    /\ AtRest
    /\ frame_loop[w] = "Unconfigured"
    /\ geometry' = [geometry EXCEPT ![w] = g]
    /\ dirty' = Resized(w, g)
    /\ Frame(w)
    /\ UNCHANGED <<presentation, redraw_requested, frame_callback, retry_timer,
                   staged, shown, last_presented, needs_present, next_frame,
                   deferred_force, last_frame, dispatching>>

\* A later configure, or the task PlatformWindow::resize spawns: the resize
\* reaches the renderer and GPUI, and a redraw is requested.  Of the configures
\* of an interactive resize only the first since the last tick is applied.
Resize(w, g, resizing) ==
    /\ AtRest
    /\ Open(w)
    /\ resizing => frame_loop[w] # "Unconfigured" /\ ~resize_throttle[w]
    /\ geometry' = [geometry EXCEPT ![w] = g]
    /\ dirty' = Resized(w, g)
    /\ resize_throttle' = [resize_throttle EXCEPT ![w] = @ \/ resizing]
    /\ redraw_requested' = [redraw_requested EXCEPT ![w] = TRUE]
    /\ ScheduleFrames(frame_loop, {w} \cup Demanding(dirty', needs_present, next_frame))
    /\ UNCHANGED <<presentation, frame_callback, retry_timer, staged, shown,
                   last_presented, needs_present, next_frame, deferred_force,
                   last_frame, dispatching, tickVars>>

\* A throttled configure is acknowledged and its size dropped, but its tiling,
\* and with it the xdg geometry, is taken over.  No redraw is requested.
ThrottledConfigure(w, g) ==
    /\ AtRest
    /\ Open(w)
    /\ resize_throttle[w]
    /\ geometry' = [geometry EXCEPT ![w] = g]
    /\ UNCHANGED <<platformVars, staged, shown, last_presented, gpuiVars, ping,
                   dispatching, tickVars>>

\* wl_callback done: the compositor answers only a committed callback.
FrameCallback(w) ==
    /\ AtRest
    /\ frame_callback[w] = "committed"
    /\ frame_callback' = [frame_callback EXCEPT ![w] = "none"]
    /\ UNCHANGED <<presentation, redraw_requested, retry_timer, geometryVars,
                   gpuiVars, dispatching>>
    /\ FrameIf(w, "AwaitingCallback")

\* The retry timer fires once; get_window filters a closed window.
RetryTimer(w) ==
    /\ AtRest
    /\ retry_timer[w]
    /\ retry_timer' = [retry_timer EXCEPT ![w] = FALSE]
    /\ UNCHANGED <<presentation, redraw_requested, frame_callback, geometryVars,
                   gpuiVars, dispatching>>
    /\ FrameIf(w, "RetryScheduled")

\* The ping source: dispatch_scheduled_frames takes a snapshot of the windows...
DispatchPing ==
    /\ AtRest
    /\ ping
    /\ ping' = FALSE
    /\ dispatching' = Windows
    /\ UNCHANGED <<platformVars, geometryVars, gpuiVars, tickVars>>

\* Mutant: a dispatch nested in another window's tick.
DispatchWindowNested(w) ==
    /\ w \in dispatching
    /\ dispatching' = dispatching \ {w}
    /\ UNCHANGED <<presentation, redraw_requested, frame_callback, retry_timer,
                   geometryVars, gpuiVars>>
    /\ FrameIf(w, "Scheduled")

\* ... and ticks, in the order of a hash map, those it finds Scheduled.
DispatchWindow(w) ==
    /\ ticking = NoWindow
    /\ w \in dispatching
    /\ dispatching' = dispatching \ {w}
    /\ UNCHANGED <<presentation, redraw_requested, frame_callback, retry_timer,
                   geometryVars, gpuiVars>>
    /\ FrameIf(w, "Scheduled")

-----------------------------------------------------------------------------
Complete(w) ==
    \/ CompleteAwaiting(w)
    \/ CompletePaced(w)
    \/ CompleteRetry(w)
    \/ CompletePark(w)
    \/ CompleteClosed(w)

Draw(w) ==
    \/ DrawSkipped(w)
    \/ DrawDeviceLost(w)
    \/ DrawPresented(w)
    \/ DrawFailed(w)

App(w) ==
    \/ AppInvalidate(w)
    \/ AppOnNextFrame(w)
    \/ AppDrawWithoutPresent(w)
    \/ \E g \in Geometries : RequestRedraw(w, g)
    \/ StateOnlyCommit(w)
    \/ Close(w)

Event(w) ==
    \/ \E g \in Geometries : FirstConfigure(w, g)
    \/ \E g \in Geometries, resizing \in BOOLEAN : Resize(w, g, resizing)
    \/ \E g \in Geometries : ThrottledConfigure(w, g)
    \/ FrameCallback(w)
    \/ RetryTimer(w)
    \/ DispatchWindow(w)

\* Every window is closed and nothing is queued for them: the client is idle.
AllClosed ==
    /\ AtRest
    /\ \A w \in Windows : ~Open(w)
    /\ UNCHANGED vars

Next ==
    \/ DispatchPing
    \/ AllClosed
    \/ \E w \in Windows :
           App(w) \/ Event(w) \/ Throttle(w) \/ Proceed(w) \/ Draw(w) \/ Complete(w)

\* The event loop polls every source again after each dispatch, so a source that
\* stays ready is served (strong fairness: ticks of other windows come between).
\* Code on the stack runs on.  The compositor answers the frame callback of a
\* surface that has a buffer, the throttle interval elapses, and the GPU does
\* not refuse every frame forever.
Fairness ==
    /\ SF_vars(DispatchPing)
    /\ \A w \in Windows :
        /\ WF_vars(DispatchWindow(w))
        /\ WF_vars(Draw(w))
        /\ WF_vars(Complete(w))
        /\ SF_vars(RetryTimer(w))
        /\ SF_vars(presentation[w] \notin {"Unpresented", "RetryBeforeFirstPresent"}
                   /\ FrameCallback(w))
        /\ SF_vars(Proceed(w))
        /\ SF_vars(DrawPresented(w))

Spec == Init /\ [][Next]_vars

FairSpec == Spec /\ Fairness

-----------------------------------------------------------------------------
(* Properties *)

\* The type of every variable.
TypeOK ==
    /\ frame_loop \in [Windows -> FrameLoopState]
    /\ presentation \in [Windows -> PresentationState]
    /\ redraw_requested \in [Windows -> BOOLEAN]
    /\ resize_throttle \in [Windows -> BOOLEAN]
    /\ frame_callback \in [Windows -> {"none", "requested", "committed"}]
    /\ retry_timer \in [Windows -> BOOLEAN]
    /\ geometry \in [Windows -> Geometries]
    /\ staged \in [Windows -> Geometries \cup {NoGeometry}]
    /\ shown \in [Windows -> Geometries \cup {NoGeometry}]
    /\ last_presented \in [Windows -> Geometries \cup {NoGeometry}]
    /\ dirty \in [Windows -> BOOLEAN]
    /\ needs_present \in [Windows -> BOOLEAN]
    /\ next_frame \in [Windows -> BOOLEAN]
    /\ deferred_force \in [Windows -> BOOLEAN]
    /\ last_frame \in [Windows -> BOOLEAN]
    /\ ping \in BOOLEAN
    /\ dispatching \in SUBSET Windows
    /\ ticking \in Windows \cup {NoWindow}
    /\ phase \in {"idle", "begin", "callbacks", "draw", "complete"}
    /\ force_render \in BOOLEAN
    /\ require_presentation \in BOOLEAN

\* The wake a waiting window will really get: a Scheduled window is in the ping
\* or in the dispatch under way, a RetryScheduled one has its timer, an
\* AwaitingCallback one has a callback committed on a surface that has a buffer,
\* and the in-tick states exist only while that tick is on the stack.
OwnsWake(w) ==
    /\ frame_loop[w] = "Scheduled" => ping \/ w \in dispatching
    /\ frame_loop[w] = "RetryScheduled" => retry_timer[w]
    /\ frame_loop[w] = "AwaitingCallback" =>
           /\ frame_callback[w] = "committed"
           /\ presentation[w] \in {"Presented", "RetryAfterPresent"}
    /\ frame_loop[w] \in {"Ticking", "RescheduleRequested", "PresentationFailed"}
           => ticking = w

\* Every waiting state of every window's frame loop owns its wake: no refused
\* timer, failed draw, reentrant request or commit by somebody else leaves a
\* window waiting for something that will not come.
WakeOwned == \A w \in Windows : OwnsWake(w)

\* No GPUI demand, no platform redraw, no throttled force, no interactive resize,
\* a first frame on screen, and the wanted geometry applied by the compositor.
OwesNothing(w) ==
    /\ ~(dirty[w] \/ needs_present[w] \/ next_frame[w])
    /\ ~redraw_requested[w]
    /\ ~deferred_force[w]
    /\ ~resize_throttle[w]
    /\ presentation[w] = "Presented"
    /\ w \in Toplevels => shown[w] = geometry[w]

\* A Parked window has no wake of its own, so it may owe nothing.
ParkedOwesNothing ==
    \A w \in Windows : frame_loop[w] = "Parked" => OwesNothing(w)

\* Once a toplevel has a buffer on screen, no commit, whoever issues it, applies
\* a window geometry other than the one that buffer was drawn with
\* (draw_with_geometry's rollback before a state-only commit).
GeometryMatchesBuffer ==
    \A w \in Toplevels : last_presented[w] # NoGeometry => shown[w] = last_presented[w]

\* A window never has a timer left over from a retry that something else served:
\* retries cannot pile up one timer per tick.
NoStrayTimer ==
    \A w \in Windows : retry_timer[w] => frame_loop[w] \in {"RetryScheduled", "Closed"}

\* Closing is final: whatever is still on the stack or queued, a closed window is never
\* ticked or drawn again, and neither a frame callback nor a timer is asked for in its
\* name.  (A commit without a buffer may still be made on it: set_input_region.)
ClosedIsFinal ==
    [][\A w \in Windows : frame_loop[w] = "Closed" =>
           /\ frame_loop'[w] = "Closed"
           /\ UNCHANGED <<presentation[w], staged[w], last_presented[w]>>
           /\ frame_callback'[w] = "requested" => frame_callback[w] = "requested"
           /\ retry_timer'[w] => retry_timer[w]
           /\ ticking' = w => ticking = w]_vars

\* What the window still has to put on screen.
Unserved(w) ==
    \/ dirty[w] \/ needs_present[w] \/ redraw_requested[w]
    \/ requires_presentation(presentation[w])

\* The state a successful draw leaves.
JustPresented(w) ==
    ticking = w /\ phase = "complete" /\ frame_loop[w] = "AwaitingCallback"

\* Demand of a configured window leads to a frame on screen, or the window
\* closes: neither throttling, failed draws, lost devices, refused timers nor
\* other windows' ticks lose it.
DemandIsPresented ==
    \A w \in Windows :
        Unserved(w) /\ frame_loop[w] # "Unconfigured"
            ~> JustPresented(w) \/ ~Open(w)

-----------------------------------------------------------------------------
(* The frame loop implements FrameDemand *)

\* A window still owes a frame: GPUI demand, a platform redraw, a failed
\* presentation, or a force a throttled tick put off.
Owes(w) == Unserved(w) \/ next_frame[w] \/ deferred_force[w]

WakeState(w) ==
    IF frame_loop[w] = "Closed" THEN "closed"
    ELSE IF ticking = w THEN "ticking"
    ELSE IF frame_loop[w] = "Unconfigured" THEN "new"
    ELSE IF frame_loop[w] = "Parked" THEN "asleep"
    ELSE "armed"

FD == INSTANCE FrameDemand WITH
          state <- [w \in Windows |-> WakeState(w)],
          owes  <- [w \in Windows |-> Owes(w)]

\* Every behaviour of the frame loop is one of FrameDemand: a window never sleeps
\* on demand, and the wake it waits for really ticks it.
ImplementsFrameDemand == FD!FairSpec

\* The safety part alone.
RefinesFrameDemand == FD!Spec
=============================================================================
