--------------------------- MODULE FrameLoopProofs ---------------------------
(***************************************************************************)
(* Machine-checked proofs about FrameLoop, for any set of windows and      *)
(* geometries: type correctness, the ownership of wakes, what a parked     *)
(* window may owe, the agreement of geometry and buffer, the finality of   *)
(* closing, and that FrameLoop implements FrameDemand.                     *)
(***************************************************************************)
EXTENDS FrameLoop, TLAPS

-----------------------------------------------------------------------------
(* The inductive invariant *)

\* Which frame-loop states the window on the stack can be in, by phase: it can
\* close only once application code has run.
TickInv ==
    /\ phase = "idle" <=> ticking = NoWindow
    /\ \A w \in Windows : ticking = w /\ phase = "begin" => Open(w)
    /\ \A w \in Windows : ticking = w /\ Open(w) =>
           \/ frame_loop[w] \in {"Ticking", "RescheduleRequested"}
           \/ /\ phase = "complete"
              /\ frame_loop[w] \in {"AwaitingCallback", "PresentationFailed"}

\* Within a tick, demand has always been turned into RescheduleRequested: a
\* window still Ticking owes GPUI nothing, and after the throttle decision no
\* deferred force is left either.
QuietInv(w) ==
    /\ frame_loop[w] = "Ticking" =>
           /\ w \notin Demanding(dirty, needs_present, next_frame)
           /\ phase # "begin" => ~deferred_force[w]
    /\ frame_loop[w] = "PresentationFailed" => requires_presentation(presentation[w])
    /\ ticking = w => ~resize_throttle[w]
    /\ resize_throttle[w] => redraw_requested[w]

\* Until its first frame is on screen a window owes one, and nothing is put on
\* screen before the first configure.
FirstFrameInv(w) ==
    /\ Open(w) /\ presentation[w] = "Unpresented" => needs_present[w] \/ redraw_requested[w]
    /\ frame_loop[w] = "Unconfigured" => presentation[w] = "Unpresented"

\* The geometry pending and the geometry applied follow the last presented one,
\* and a geometry that moved since then is owed a draw.
GeometryInv(w) ==
    /\ frame_loop[w] = "Unconfigured" => last_presented[w] = NoGeometry
    /\ w \in Toplevels =>
        /\ presentation[w] \in {"Presented", "RetryAfterPresent"}
               => last_presented[w] # NoGeometry
        /\ last_presented[w] # NoGeometry =>
               /\ staged[w] = last_presented[w]
               /\ shown[w] = last_presented[w]
               /\ Open(w) /\ geometry[w] # last_presented[w] =>
                      redraw_requested[w] \/ requires_presentation(presentation[w])

\* Everything about one window.
WindowInv(w) ==
    /\ OwnsWake(w)
    /\ retry_timer[w] => frame_loop[w] \in {"RetryScheduled", "Closed"}
    /\ frame_loop[w] = "Parked" => OwesNothing(w)
    /\ QuietInv(w)
    /\ FirstFrameInv(w)
    /\ GeometryInv(w)

IInv == TypeOK /\ TickInv /\ \A w \in Windows : WindowInv(w)

-----------------------------------------------------------------------------
(* Type correctness *)

\* schedule_frame maps frame-loop states to frame-loop states, and arming the
\* ping keeps it a boolean.
LEMMA ScheduleFramesType ==
    ASSUME NEW fl, fl \in [Windows -> FrameLoopState], NEW S, ScheduleFrames(fl, S)
    PROVE  frame_loop' \in [Windows -> FrameLoopState] /\ ping' \in BOOLEAN
  BY DEF ScheduleFrames, schedule_frame, FrameLoopState

\* The tick options and the phase of a window that starts its tick.
LEMMA FrameType ==
    ASSUME TypeOK, NEW w \in Windows, Frame(w)
    PROVE  /\ frame_loop' \in [Windows -> FrameLoopState]
           /\ ping' \in BOOLEAN
           /\ resize_throttle' \in [Windows -> BOOLEAN]
           /\ ticking' \in Windows
           /\ phase' = "begin"
           /\ force_render' \in BOOLEAN
           /\ require_presentation' \in BOOLEAN
<1>1. [frame_loop EXCEPT ![w] = "Ticking"] \in [Windows -> FrameLoopState]
  BY DEF TypeOK, FrameLoopState
<1>2. frame_loop' \in [Windows -> FrameLoopState] /\ ping' \in BOOLEAN
  BY <1>1, ScheduleFramesType DEF Frame
<1>3. requires_presentation(presentation[w]) \in BOOLEAN
  BY DEF requires_presentation
<1> QED
  BY <1>2, <1>3 DEF Frame, TypeOK

\* The initial state has the right types.
LEMMA InitType == Init => TypeOK
<1> SUFFICES ASSUME Init PROVE TypeOK
  OBVIOUS
<1>1. /\ frame_loop \in [Windows -> FrameLoopState]
      /\ presentation \in [Windows -> PresentationState]
  BY DEF Init, FrameLoopState, PresentationState
<1>2. /\ redraw_requested \in [Windows -> BOOLEAN]
      /\ resize_throttle \in [Windows -> BOOLEAN]
      /\ retry_timer \in [Windows -> BOOLEAN]
      /\ dirty \in [Windows -> BOOLEAN]
      /\ needs_present \in [Windows -> BOOLEAN]
      /\ next_frame \in [Windows -> BOOLEAN]
      /\ deferred_force \in [Windows -> BOOLEAN]
      /\ last_frame \in [Windows -> BOOLEAN]
  BY DEF Init
<1>3. /\ frame_callback \in [Windows -> {"none", "requested", "committed"}]
      /\ staged \in [Windows -> Geometries \cup {NoGeometry}]
      /\ shown \in [Windows -> Geometries \cup {NoGeometry}]
      /\ last_presented \in [Windows -> Geometries \cup {NoGeometry}]
  BY DEF Init
<1> QED
  BY <1>1, <1>2, <1>3 DEF Init, TypeOK

\* Every step of the frame loop keeps the variables in their types.
LEMMA TypeStep == TypeOK /\ [Next]_vars => TypeOK'
<1> SUFFICES ASSUME TypeOK, [Next]_vars
             PROVE  TypeOK'
  OBVIOUS
<1> USE ConstantsAssumption
    DEF TypeOK, FrameLoopState, PresentationState, platformVars, geometryVars,
        gpuiVars, tickVars
<1>1. CASE DispatchPing
  BY <1>1 DEF DispatchPing
<1>2. CASE UNCHANGED vars
  BY <1>2 DEF vars
<1>3. ASSUME NEW w \in Windows, App(w)
      PROVE  TypeOK'
  <2>1. CASE AppInvalidate(w)
    BY <2>1 DEF AppInvalidate, ScheduleFrames, schedule_frame
  <2>2. CASE AppOnNextFrame(w)
    BY <2>2 DEF AppOnNextFrame, ScheduleFrames, schedule_frame
  <2>3. CASE AppDrawWithoutPresent(w)
    BY <2>3 DEF AppDrawWithoutPresent, ScheduleFrames, schedule_frame
  <2>4. ASSUME NEW g \in Geometries, RequestRedraw(w, g)
        PROVE  TypeOK'
    BY <2>4 DEF RequestRedraw, ScheduleFrames, schedule_frame
  <2>5. CASE StateOnlyCommit(w)
    BY <2>5 DEF StateOnlyCommit
  <2>6. CASE Close(w)
    BY <2>6 DEF Close
  <2> QED
    BY <1>3, <2>1, <2>2, <2>3, <2>4, <2>5, <2>6 DEF App
<1>4. ASSUME NEW w \in Windows, Event(w)
      PROVE  TypeOK'
  <2>1. ASSUME NEW g \in Geometries, FirstConfigure(w, g)
        PROVE  TypeOK'
    BY <2>1, FrameType DEF FirstConfigure, Resized
  <2>2. ASSUME NEW g \in Geometries, NEW resizing \in BOOLEAN, Resize(w, g, resizing)
        PROVE  TypeOK'
    BY <2>2 DEF Resize, Resized, ScheduleFrames, schedule_frame
  <2>3. ASSUME NEW g \in Geometries, ThrottledConfigure(w, g)
        PROVE  TypeOK'
    BY <2>3 DEF ThrottledConfigure
  <2>4. CASE FrameCallback(w)
    BY <2>4, FrameType DEF FrameCallback, FrameIf
  <2>5. CASE RetryTimer(w)
    BY <2>5, FrameType DEF RetryTimer, FrameIf
  <2>6. CASE DispatchWindow(w)
    BY <2>6, FrameType DEF DispatchWindow, FrameIf
  <2> QED
    BY <1>4, <2>1, <2>2, <2>3, <2>4, <2>5, <2>6 DEF Event
<1>5. ASSUME NEW w \in Windows, Throttle(w) \/ Proceed(w)
      PROVE  TypeOK'
  <2>1. CASE Throttle(w)
    <3>1. frame_loop' \in [Windows -> FrameLoopState] /\ ping' \in BOOLEAN
      BY <2>1, ScheduleFramesType DEF Throttle
    <3> QED
      BY <2>1, <3>1 DEF Throttle
  <2>2. CASE Proceed(w)
    BY <2>2 DEF Proceed
  <2> QED
    BY <1>5, <2>1, <2>2
<1>6. ASSUME NEW w \in Windows, Draw(w)
      PROVE  TypeOK'
  <2>r. ASSUME Rebuild(w)
        PROVE  dirty' \in [Windows -> BOOLEAN]
    BY <2>r DEF Rebuild
  <2>e. ASSUME NEW fl, fl \in [Windows -> FrameLoopState], EndDraw(fl)
        PROVE  /\ frame_loop' \in [Windows -> FrameLoopState] /\ ping' \in BOOLEAN
               /\ needs_present' \in [Windows -> BOOLEAN]
               /\ phase' = "complete"
    BY <2>e, ScheduleFramesType DEF EndDraw
  <2>1. CASE DrawSkipped(w)
    BY <2>1 DEF DrawSkipped
  <2>2. CASE DrawDeviceLost(w)
    BY <2>2, <2>r, <2>e DEF DrawDeviceLost, EndDraw
  <2>3. CASE DrawPresented(w)
    <3>1. [frame_loop EXCEPT ![w] = "AwaitingCallback"] \in [Windows -> FrameLoopState]
      OBVIOUS
    <3>2. /\ dirty' \in [Windows -> BOOLEAN]
          /\ frame_loop' \in [Windows -> FrameLoopState]
          /\ ping' \in BOOLEAN
          /\ needs_present' \in [Windows -> BOOLEAN]
          /\ phase' = "complete"
      BY <2>3, <2>r, <2>e, <3>1 DEF DrawPresented
    <3>3. /\ staged' \in [Windows -> Geometries \cup {NoGeometry}]
          /\ last_presented' \in [Windows -> Geometries \cup {NoGeometry}]
      BY <2>3 DEF DrawPresented
    <3>4. shown' \in [Windows -> Geometries \cup {NoGeometry}]
      BY <2>3, <3>3 DEF DrawPresented
    <3>5. /\ presentation' \in [Windows -> PresentationState]
          /\ redraw_requested' \in [Windows -> BOOLEAN]
          /\ frame_callback' \in [Windows -> {"none", "requested", "committed"}]
      BY <2>3 DEF DrawPresented
    <3> QED
      BY <2>3, <3>2, <3>3, <3>4, <3>5 DEF DrawPresented, EndDraw
  <2>4. CASE DrawFailed(w)
    <3>1. [frame_loop EXCEPT ![w] = "PresentationFailed"] \in [Windows -> FrameLoopState]
      OBVIOUS
    <3>2. /\ dirty' \in [Windows -> BOOLEAN]
          /\ frame_loop' \in [Windows -> FrameLoopState]
          /\ ping' \in BOOLEAN
          /\ needs_present' \in [Windows -> BOOLEAN]
          /\ phase' = "complete"
      BY <2>4, <2>r, <2>e, <3>1 DEF DrawFailed
    <3>3. /\ staged' \in [Windows -> Geometries \cup {NoGeometry}]
          /\ presentation' \in [Windows -> PresentationState]
          /\ redraw_requested' \in [Windows -> BOOLEAN]
          /\ frame_callback' \in [Windows -> {"none", "requested", "committed"}]
      BY <2>4 DEF DrawFailed, RolledBack, failed
    <3> QED
      BY <2>4, <3>2, <3>3 DEF DrawFailed, EndDraw
  <2> QED
    BY <1>6, <2>1, <2>2, <2>3, <2>4 DEF Draw
<1>7. ASSUME NEW w \in Windows, Complete(w)
      PROVE  TypeOK'
  <2> USE DEF EndTick
  <2>1. CASE CompleteAwaiting(w)
    BY <2>1 DEF CompleteAwaiting
  <2>2. CASE CompletePaced(w)
    BY <2>2 DEF CompletePaced
  <2>3. CASE CompleteRetry(w)
    BY <2>3 DEF CompleteRetry
  <2>4. CASE CompletePark(w)
    BY <2>4 DEF CompletePark
  <2>5. CASE CompleteClosed(w)
    BY <2>5 DEF CompleteClosed
  <2> QED
    BY <1>7, <2>1, <2>2, <2>3, <2>4, <2>5 DEF Complete
<1> QED
  BY <1>1, <1>2, <1>3, <1>4, <1>5, <1>6, <1>7 DEF Next, AllClosed

\* The type invariant holds in every reachable state.
THEOREM TypeCorrect == Spec => []TypeOK
<1>1. Init => TypeOK
  BY InitType
<1> QED
  BY <1>1, TypeStep, PTL DEF Spec

-----------------------------------------------------------------------------
(* The inductive step *)

\* What the start of a tick of w does to w and, through the flush, to the others.
LEMMA FrameEffect ==
    ASSUME TypeOK, NEW w \in Windows, Frame(w)
    PROVE  /\ ticking' = w
           /\ phase' = "begin"
           /\ resize_throttle' = [resize_throttle EXCEPT ![w] = FALSE]
           /\ frame_loop'[w] = IF dirty'[w] \/ needs_present[w] \/ next_frame[w]
                               THEN "RescheduleRequested" ELSE "Ticking"
           /\ \A v \in Windows : v # w =>
                  /\ frame_loop'[v] = IF dirty'[v] \/ needs_present[v] \/ next_frame[v]
                                      THEN schedule_frame(frame_loop[v])
                                      ELSE frame_loop[v]
                  /\ frame_loop[v] = "Parked" /\ frame_loop'[v] # "Parked" => ping'
           /\ ping => ping'
<1>1. ScheduleFrames([frame_loop EXCEPT ![w] = "Ticking"],
                     Demanding(dirty', needs_present, next_frame))
  BY DEF Frame
<1>2. \A v \in Windows : v # w =>
          [frame_loop EXCEPT ![w] = "Ticking"][v] = frame_loop[v]
  BY DEF TypeOK
<1>3. [frame_loop EXCEPT ![w] = "Ticking"][w] = "Ticking"
  BY DEF TypeOK
<1>4. \A v \in Windows : v \in Demanding(dirty', needs_present, next_frame) <=>
                             dirty'[v] \/ needs_present[v] \/ next_frame[v]
  BY DEF Demanding
<1> HIDE DEF Demanding
<1> QED
  BY <1>1, <1>2, <1>3, <1>4 DEF Frame, ScheduleFrames, schedule_frame

\* The invariant is preserved by the application's calls.
LEMMA AppStep ==
    ASSUME IInv, TypeOK', NEW w \in Windows, App(w)
    PROVE  IInv'
<1> USE ConstantsAssumption
    DEF TypeOK, platformVars, geometryVars, gpuiVars, tickVars, AppMayRun,
        AtRest, Open, ScheduleFrames, schedule_frame, requires_presentation
<1>0. TypeOK /\ TickInv /\ \A v \in Windows : WindowInv(v)
  BY DEF IInv
<1>1. CASE AppInvalidate(w)
  <2>1. TickInv'
    BY <1>0, <1>1 DEF AppInvalidate, TickInv, WindowInv, OwnsWake
  <2>2. ASSUME NEW v \in Windows
        PROVE  WindowInv(v)'
    <3>1. OwnsWake(v)' /\ (retry_timer[v] => frame_loop[v] \in {"RetryScheduled", "Closed"})'
      BY <1>0, <1>1 DEF AppInvalidate, TickInv, WindowInv, OwnsWake
    <3>2. (frame_loop[v] = "Parked" => OwesNothing(v))'
      BY <1>0, <1>1 DEF AppInvalidate, WindowInv, OwesNothing, Demanding
    <3>3. QuietInv(v)'
      BY <1>0, <1>1 DEF AppInvalidate, TickInv, WindowInv, QuietInv, OwnsWake, Demanding
    <3>4. FirstFrameInv(v)' /\ GeometryInv(v)'
      BY <1>0, <1>1 DEF AppInvalidate, WindowInv, FirstFrameInv, GeometryInv
    <3> QED
      BY <3>1, <3>2, <3>3, <3>4 DEF WindowInv
  <2> QED
    BY <2>1, <2>2 DEF IInv
<1>2. CASE AppOnNextFrame(w)
  <2>1. TickInv'
    BY <1>0, <1>2 DEF AppOnNextFrame, TickInv, WindowInv, OwnsWake
  <2>2. ASSUME NEW v \in Windows
        PROVE  WindowInv(v)'
    <3>1. OwnsWake(v)' /\ (retry_timer[v] => frame_loop[v] \in {"RetryScheduled", "Closed"})'
      BY <1>0, <1>2 DEF AppOnNextFrame, TickInv, WindowInv, OwnsWake
    <3>2. (frame_loop[v] = "Parked" => OwesNothing(v))'
      BY <1>0, <1>2 DEF AppOnNextFrame, WindowInv, OwesNothing, Demanding
    <3>3. QuietInv(v)'
      BY <1>0, <1>2 DEF AppOnNextFrame, TickInv, WindowInv, QuietInv, OwnsWake, Demanding
    <3>4. FirstFrameInv(v)' /\ GeometryInv(v)'
      BY <1>0, <1>2 DEF AppOnNextFrame, WindowInv, FirstFrameInv, GeometryInv
    <3> QED
      BY <3>1, <3>2, <3>3, <3>4 DEF WindowInv
  <2> QED
    BY <2>1, <2>2 DEF IInv
<1>3. CASE AppDrawWithoutPresent(w)
  <2>1. TickInv'
    BY <1>0, <1>3 DEF AppDrawWithoutPresent, TickInv, WindowInv, OwnsWake
  <2>2. ASSUME NEW v \in Windows
        PROVE  WindowInv(v)'
    BY <1>0, <1>3 DEF AppDrawWithoutPresent, TickInv, WindowInv, OwnsWake,
       OwesNothing, QuietInv, FirstFrameInv, GeometryInv, Demanding
  <2> QED
    BY <2>1, <2>2 DEF IInv
<1>4. ASSUME NEW g \in Geometries, RequestRedraw(w, g)
      PROVE  IInv'
  <2>1. TickInv'
    BY <1>0, <1>4 DEF RequestRedraw, TickInv, WindowInv, OwnsWake
  <2>2. ASSUME NEW v \in Windows
        PROVE  WindowInv(v)'
    <3>1. OwnsWake(v)' /\ (retry_timer[v] => frame_loop[v] \in {"RetryScheduled", "Closed"})'
      BY <1>0, <1>4 DEF RequestRedraw, TickInv, WindowInv, OwnsWake
    <3>2. (frame_loop[v] = "Parked" => OwesNothing(v))'
      BY <1>0, <1>4 DEF RequestRedraw, WindowInv, OwesNothing, Demanding
    <3>3. QuietInv(v)'
      BY <1>0, <1>4 DEF RequestRedraw, TickInv, WindowInv, QuietInv, OwnsWake, Demanding
    <3>4. FirstFrameInv(v)' /\ GeometryInv(v)'
      BY <1>0, <1>4 DEF RequestRedraw, WindowInv, FirstFrameInv, GeometryInv
    <3> QED
      BY <3>1, <3>2, <3>3, <3>4 DEF WindowInv
  <2> QED
    BY <2>1, <2>2 DEF IInv
<1>5. CASE StateOnlyCommit(w)
  <2>1. TickInv'
    BY <1>0, <1>5 DEF StateOnlyCommit, TickInv, WindowInv, OwnsWake
  <2>2. ASSUME NEW v \in Windows
        PROVE  WindowInv(v)'
    BY <1>0, <1>5 DEF StateOnlyCommit, TickInv, WindowInv, OwnsWake,
       OwesNothing, QuietInv, FirstFrameInv, GeometryInv, Demanding
  <2> QED
    BY <2>1, <2>2 DEF IInv
<1>6. CASE Close(w)
  <2>1. TickInv'
    BY <1>0, <1>6 DEF Close, TickInv, WindowInv, OwnsWake
  <2>2. ASSUME NEW v \in Windows
        PROVE  WindowInv(v)'
    BY <1>0, <1>6 DEF Close, TickInv, WindowInv, OwnsWake,
       OwesNothing, QuietInv, FirstFrameInv, GeometryInv, Demanding
  <2> QED
    BY <2>1, <2>2 DEF IInv
<1> QED
  BY <1>1, <1>2, <1>3, <1>4, <1>5, <1>6 DEF App

\* The invariant is preserved by the event sources.
LEMMA EventStep ==
    ASSUME IInv, TypeOK', NEW w \in Windows, Event(w)
    PROVE  IInv'
<1> USE ConstantsAssumption
    DEF TypeOK, platformVars, geometryVars, gpuiVars, tickVars, AppMayRun,
        AtRest, Open, ScheduleFrames, schedule_frame, requires_presentation
<1>0. TypeOK /\ TickInv /\ \A v \in Windows : WindowInv(v)
  BY DEF IInv
<1>1. ASSUME NEW g \in Geometries, FirstConfigure(w, g)
      PROVE  IInv'
  <2>1. TickInv'
    BY <1>0, <1>1, FrameEffect DEF FirstConfigure, Resized, TickInv, WindowInv, OwnsWake
  <2>2. ASSUME NEW v \in Windows
        PROVE  WindowInv(v)'
    BY <1>0, <1>1, FrameEffect DEF FirstConfigure, Resized, TickInv, WindowInv, OwnsWake,
       OwesNothing, QuietInv, FirstFrameInv, GeometryInv, Demanding
  <2> QED
    BY <2>1, <2>2 DEF IInv
<1>2. ASSUME NEW g \in Geometries, NEW resizing \in BOOLEAN, Resize(w, g, resizing)
      PROVE  IInv'
  <2>1. TickInv'
    BY <1>0, <1>2 DEF Resize, Resized, TickInv, WindowInv, OwnsWake
  <2>2. ASSUME NEW v \in Windows
        PROVE  WindowInv(v)'
    <3>1. OwnsWake(v)' /\ (retry_timer[v] => frame_loop[v] \in {"RetryScheduled", "Closed"})'
      BY <1>0, <1>2 DEF Resize, Resized, TickInv, WindowInv, OwnsWake
    <3>2. (frame_loop[v] = "Parked" => OwesNothing(v))'
      BY <1>0, <1>2 DEF Resize, Resized, WindowInv, OwesNothing, Demanding
    <3>3. QuietInv(v)'
      BY <1>0, <1>2 DEF Resize, Resized, TickInv, WindowInv, QuietInv, OwnsWake, Demanding
    <3>4. FirstFrameInv(v)' /\ GeometryInv(v)'
      BY <1>0, <1>2 DEF Resize, Resized, WindowInv, FirstFrameInv, GeometryInv
    <3> QED
      BY <3>1, <3>2, <3>3, <3>4 DEF WindowInv
  <2> QED
    BY <2>1, <2>2 DEF IInv
<1>3. ASSUME NEW g \in Geometries, ThrottledConfigure(w, g)
      PROVE  IInv'
  <2>1. TickInv'
    BY <1>0, <1>3 DEF ThrottledConfigure, TickInv, WindowInv, OwnsWake
  <2>2. ASSUME NEW v \in Windows
        PROVE  WindowInv(v)'
    BY <1>0, <1>3 DEF ThrottledConfigure, TickInv, WindowInv, OwnsWake,
       OwesNothing, QuietInv, FirstFrameInv, GeometryInv, Demanding
  <2> QED
    BY <2>1, <2>2 DEF IInv
<1>4. CASE FrameCallback(w)
  <2>1. CASE frame_loop[w] = "AwaitingCallback"
    <3>1. Frame(w)
      BY <1>4, <2>1 DEF FrameCallback, FrameIf
    <3>2. TickInv'
      BY <1>0, <3>1, FrameEffect DEF TickInv
    <3>3. ASSUME NEW v \in Windows
          PROVE  WindowInv(v)'
      BY <1>0, <1>4, <2>1, <3>1, FrameEffect DEF FrameCallback, TickInv, WindowInv, OwnsWake,
         OwesNothing, QuietInv, FirstFrameInv, GeometryInv, Demanding
    <3> QED
      BY <3>2, <3>3 DEF IInv
  <2>2. CASE frame_loop[w] # "AwaitingCallback"
    <3>1. UNCHANGED <<frame_loop, resize_throttle, ping, tickVars>>
      BY <1>4, <2>2 DEF FrameCallback, FrameIf
    <3>2. TickInv'
      BY <1>0, <3>1 DEF TickInv
    <3>3. ASSUME NEW v \in Windows
          PROVE  WindowInv(v)'
      BY <1>0, <1>4, <2>2, <3>1 DEF FrameCallback, TickInv, WindowInv, OwnsWake,
         OwesNothing, QuietInv, FirstFrameInv, GeometryInv, Demanding
    <3> QED
      BY <3>2, <3>3 DEF IInv
  <2> QED
    BY <2>1, <2>2
<1>5. CASE RetryTimer(w)
  <2>1. CASE frame_loop[w] = "RetryScheduled"
    <3>1. Frame(w)
      BY <1>5, <2>1 DEF RetryTimer, FrameIf
    <3>2. TickInv'
      BY <1>0, <3>1, FrameEffect DEF TickInv
    <3>3. ASSUME NEW v \in Windows
          PROVE  WindowInv(v)'
      BY <1>0, <1>5, <2>1, <3>1, FrameEffect DEF RetryTimer, TickInv, WindowInv, OwnsWake,
         OwesNothing, QuietInv, FirstFrameInv, GeometryInv, Demanding
    <3> QED
      BY <3>2, <3>3 DEF IInv
  <2>2. CASE frame_loop[w] # "RetryScheduled"
    <3>1. UNCHANGED <<frame_loop, resize_throttle, ping, tickVars>>
      BY <1>5, <2>2 DEF RetryTimer, FrameIf
    <3>2. TickInv'
      BY <1>0, <3>1 DEF TickInv
    <3>3. ASSUME NEW v \in Windows
          PROVE  WindowInv(v)'
      BY <1>0, <1>5, <2>2, <3>1 DEF RetryTimer, TickInv, WindowInv, OwnsWake,
         OwesNothing, QuietInv, FirstFrameInv, GeometryInv, Demanding
    <3> QED
      BY <3>2, <3>3 DEF IInv
  <2> QED
    BY <2>1, <2>2
<1>6. CASE DispatchWindow(w)
  <2>1. CASE frame_loop[w] = "Scheduled"
    <3>1. Frame(w)
      BY <1>6, <2>1 DEF DispatchWindow, FrameIf
    <3>2. TickInv'
      BY <1>0, <3>1, FrameEffect DEF TickInv
    <3>3. ASSUME NEW v \in Windows
          PROVE  WindowInv(v)'
      BY <1>0, <1>6, <2>1, <3>1, FrameEffect DEF DispatchWindow, TickInv, WindowInv, OwnsWake,
         OwesNothing, QuietInv, FirstFrameInv, GeometryInv, Demanding
    <3> QED
      BY <3>2, <3>3 DEF IInv
  <2>2. CASE frame_loop[w] # "Scheduled"
    <3>1. UNCHANGED <<frame_loop, resize_throttle, ping, tickVars>>
      BY <1>6, <2>2 DEF DispatchWindow, FrameIf
    <3>2. TickInv'
      BY <1>0, <3>1 DEF TickInv
    <3>3. ASSUME NEW v \in Windows
          PROVE  WindowInv(v)'
      BY <1>0, <1>6, <2>2, <3>1 DEF DispatchWindow, TickInv, WindowInv, OwnsWake,
         OwesNothing, QuietInv, FirstFrameInv, GeometryInv, Demanding
    <3> QED
      BY <3>2, <3>3 DEF IInv
  <2> QED
    BY <2>1, <2>2
<1> QED
  BY <1>1, <1>2, <1>3, <1>4, <1>5, <1>6 DEF Event

\* The invariant is preserved by the throttle decision.
LEMMA BeginStep ==
    ASSUME IInv, TypeOK', NEW w \in Windows, Throttle(w) \/ Proceed(w)
    PROVE  IInv'
<1> USE ConstantsAssumption
    DEF TypeOK, platformVars, geometryVars, gpuiVars, tickVars, AppMayRun,
        AtRest, Open, ScheduleFrames, schedule_frame, requires_presentation
<1>0. TypeOK /\ TickInv /\ \A v \in Windows : WindowInv(v)
  BY DEF IInv
<1>1. CASE Throttle(w)
  <2>1. TickInv'
    BY <1>0, <1>1 DEF Throttle, TickInv, WindowInv, OwnsWake
  <2>2. ASSUME NEW v \in Windows
        PROVE  WindowInv(v)'
    BY <1>0, <1>1 DEF Throttle, TickInv, WindowInv, OwnsWake,
       OwesNothing, QuietInv, FirstFrameInv, GeometryInv, Demanding
  <2> QED
    BY <2>1, <2>2 DEF IInv
<1>2. CASE Proceed(w)
  <2>1. TickInv'
    BY <1>0, <1>2 DEF Proceed, TickInv, WindowInv, OwnsWake
  <2>2. ASSUME NEW v \in Windows
        PROVE  WindowInv(v)'
    BY <1>0, <1>2 DEF Proceed, TickInv, WindowInv, OwnsWake,
       OwesNothing, QuietInv, FirstFrameInv, GeometryInv, Demanding
  <2> QED
    BY <2>1, <2>2 DEF IInv
<1> QED
  BY <1>1, <1>2

\* The invariant is preserved by the draw and present step.
LEMMA DrawStep ==
    ASSUME IInv, TypeOK', NEW w \in Windows, Draw(w)
    PROVE  IInv'
<1> USE ConstantsAssumption
    DEF TypeOK, platformVars, geometryVars, gpuiVars, tickVars, AppMayRun,
        AtRest, Open, ScheduleFrames, schedule_frame, requires_presentation
<1>0. TypeOK /\ TickInv /\ \A v \in Windows : WindowInv(v)
  BY DEF IInv
<1>1. CASE DrawSkipped(w)
  <2>1. TickInv'
    BY <1>0, <1>1 DEF DrawSkipped, Drawing, TickInv, WindowInv, OwnsWake
  <2>2. ASSUME NEW v \in Windows
        PROVE  WindowInv(v)'
    BY <1>0, <1>1 DEF DrawSkipped, Drawing, TickInv, WindowInv, OwnsWake,
       OwesNothing, QuietInv, FirstFrameInv, GeometryInv, Demanding
  <2> QED
    BY <2>1, <2>2 DEF IInv
<1>2. CASE DrawDeviceLost(w)
  <2>1. TickInv'
    BY <1>0, <1>2 DEF DrawDeviceLost, Drawing, Rebuild, EndDraw, TickInv, WindowInv, OwnsWake
  <2>2. ASSUME NEW v \in Windows
        PROVE  WindowInv(v)'
    BY <1>0, <1>2 DEF DrawDeviceLost, Drawing, Rebuild, EndDraw, TickInv, WindowInv, OwnsWake,
       OwesNothing, QuietInv, FirstFrameInv, GeometryInv, Demanding
  <2> QED
    BY <2>1, <2>2 DEF IInv
<1>3. CASE DrawPresented(w)
  <2>1. TickInv'
    BY <1>0, <1>3 DEF DrawPresented, Drawing, Rebuild, EndDraw, TickInv, WindowInv, OwnsWake
  <2>2. ASSUME NEW v \in Windows
        PROVE  WindowInv(v)'
    BY <1>0, <1>3 DEF DrawPresented, Drawing, Rebuild, EndDraw, TickInv, WindowInv, OwnsWake,
       OwesNothing, QuietInv, FirstFrameInv, GeometryInv, Demanding
  <2> QED
    BY <2>1, <2>2 DEF IInv
<1>4. CASE DrawFailed(w)
  <2>1. TickInv'
    BY <1>0, <1>4 DEF DrawFailed, Drawing, Rebuild, EndDraw, RolledBack, failed, TickInv, WindowInv, OwnsWake
  <2>2. /\ frame_loop'[w] = "PresentationFailed"
        /\ requires_presentation(presentation'[w])
        /\ presentation'[w] # "Unpresented"
    BY <1>0, <1>4 DEF DrawFailed, EndDraw, failed, PresentationState
  <2>3. WindowInv(w)'
    <3>1. OwnsWake(w)' /\ QuietInv(w)' /\ FirstFrameInv(w)'
      BY <1>0, <1>4, <2>2 DEF DrawFailed, Drawing, EndDraw, OwnsWake, QuietInv,
         FirstFrameInv, TickInv, WindowInv
    <3>2. GeometryInv(w)'
      <4>1. /\ last_presented' = last_presented
            /\ shown' = shown
            /\ w \in Toplevels => staged'[w] = RolledBack(w)
        BY <1>0, <1>4 DEF DrawFailed
      <4>2. presentation'[w] \in {"Presented", "RetryAfterPresent"} =>
                presentation[w] \in {"Presented", "RetryAfterPresent"}
        BY <1>0, <1>4 DEF DrawFailed, failed, PresentationState
      <4> QED
        BY <1>0, <2>2, <4>1, <4>2 DEF GeometryInv, RolledBack, WindowInv
    <3>3. ~retry_timer'[w]
      BY <1>0, <1>4 DEF DrawFailed, Drawing, EndDraw, TickInv, WindowInv
    <3> QED
      BY <2>2, <3>1, <3>2, <3>3 DEF WindowInv
  <2>4. ASSUME NEW v \in Windows, v # w
        PROVE  WindowInv(v)'
    BY <1>0, <1>4, <2>4 DEF DrawFailed, Drawing, Rebuild, EndDraw, TickInv,
       WindowInv, OwnsWake, OwesNothing, QuietInv, FirstFrameInv, GeometryInv,
       Demanding
  <2> QED
    BY <2>1, <2>3, <2>4 DEF IInv
<1> QED
  BY <1>1, <1>2, <1>3, <1>4 DEF Draw

\* The invariant is preserved by complete_frame.
LEMMA CompleteStep ==
    ASSUME IInv, TypeOK', NEW w \in Windows, Complete(w)
    PROVE  IInv'
<1> USE ConstantsAssumption
    DEF TypeOK, platformVars, geometryVars, gpuiVars, tickVars, AppMayRun,
        AtRest, Open, ScheduleFrames, schedule_frame, requires_presentation
<1>0. TypeOK /\ TickInv /\ \A v \in Windows : WindowInv(v)
  BY DEF IInv
<1>1. CASE CompleteAwaiting(w)
  <2>1. TickInv'
    BY <1>0, <1>1 DEF CompleteAwaiting, Completing, EndTick, TickInv, WindowInv, OwnsWake
  <2>2. ASSUME NEW v \in Windows
        PROVE  WindowInv(v)'
    BY <1>0, <1>1 DEF CompleteAwaiting, Completing, EndTick, TickInv, WindowInv, OwnsWake,
       OwesNothing, QuietInv, FirstFrameInv, GeometryInv, Demanding
  <2> QED
    BY <2>1, <2>2 DEF IInv
<1>2. CASE CompletePaced(w)
  <2>1. TickInv'
    BY <1>0, <1>2 DEF CompletePaced, Completing, PacedRetry, EndTick, TickInv, WindowInv, OwnsWake
  <2>2. ASSUME NEW v \in Windows
        PROVE  WindowInv(v)'
    BY <1>0, <1>2 DEF CompletePaced, Completing, PacedRetry, EndTick, TickInv, WindowInv, OwnsWake,
       OwesNothing, QuietInv, FirstFrameInv, GeometryInv, Demanding
  <2> QED
    BY <2>1, <2>2 DEF IInv
<1>3. CASE CompleteRetry(w)
  <2>1. TickInv'
    BY <1>0, <1>3 DEF CompleteRetry, Completing, PacedRetry, WantsRetry, EndTick, TickInv, WindowInv, OwnsWake
  <2>2. ASSUME NEW v \in Windows
        PROVE  WindowInv(v)'
    BY <1>0, <1>3 DEF CompleteRetry, Completing, PacedRetry, WantsRetry, EndTick, TickInv, WindowInv, OwnsWake,
       OwesNothing, QuietInv, FirstFrameInv, GeometryInv, Demanding
  <2> QED
    BY <2>1, <2>2 DEF IInv
<1>4. CASE CompletePark(w)
  <2>1. TickInv'
    BY <1>0, <1>4 DEF CompletePark, Completing, WantsRetry, EndTick, TickInv, WindowInv, OwnsWake
  <2>2. frame_loop[w] = "Ticking"
    BY <1>0, <1>4 DEF CompletePark, Completing, WantsRetry, TickInv, WindowInv, QuietInv
  <2>3. OwesNothing(w)
    BY <1>0, <1>4, <2>2 DEF CompletePark, Completing, WantsRetry, WindowInv,
       OwesNothing, QuietInv, FirstFrameInv, GeometryInv, Demanding, PresentationState
  <2>4. ASSUME NEW v \in Windows
        PROVE  WindowInv(v)'
    BY <1>0, <1>4, <2>2, <2>3, <2>4 DEF CompletePark, Completing, EndTick, TickInv,
       WindowInv, OwnsWake, OwesNothing, QuietInv, FirstFrameInv, GeometryInv, Demanding
  <2> QED
    BY <2>1, <2>4 DEF IInv
<1>5. CASE CompleteClosed(w)
  <2>1. TickInv'
    BY <1>0, <1>5 DEF CompleteClosed, EndTick, TickInv, WindowInv, OwnsWake
  <2>2. ASSUME NEW v \in Windows
        PROVE  WindowInv(v)'
    BY <1>0, <1>5 DEF CompleteClosed, EndTick, TickInv, WindowInv, OwnsWake,
       OwesNothing, QuietInv, FirstFrameInv, GeometryInv, Demanding
  <2> QED
    BY <2>1, <2>2 DEF IInv
<1> QED
  BY <1>1, <1>2, <1>3, <1>4, <1>5 DEF Complete

\* IInv holds initially and every step preserves it.
LEMMA IInvInductive == Spec => []IInv
<1>1. Init => IInv
  <2> SUFFICES ASSUME Init PROVE IInv
    OBVIOUS
  <2>1. TypeOK
    BY InitType
  <2>2. TickInv
    BY ConstantsAssumption DEF Init, TickInv
  <2>3. ASSUME NEW w \in Windows
        PROVE  WindowInv(w)
    BY ConstantsAssumption DEF Init, WindowInv, OwnsWake, OwesNothing, QuietInv,
       FirstFrameInv, GeometryInv
  <2> QED
    BY <2>1, <2>2, <2>3 DEF IInv
<1>2. IInv /\ [Next]_vars => IInv'
  <2> SUFFICES ASSUME IInv, [Next]_vars
               PROVE  IInv'
    OBVIOUS
  <2>1. TypeOK'
    BY TypeStep DEF IInv
  <2>2. CASE DispatchPing
    <3>1. /\ dispatching' = Windows
          /\ ~ping'
          /\ UNCHANGED <<platformVars, geometryVars, gpuiVars, tickVars>>
      BY <2>2 DEF DispatchPing
    <3>2. TickInv'
      BY <3>1 DEF IInv, TickInv, Open, platformVars, tickVars
    <3>3. ASSUME NEW w \in Windows
          PROVE  WindowInv(w)'
      BY <3>1 DEF IInv, WindowInv, OwnsWake, OwesNothing, QuietInv, FirstFrameInv,
         GeometryInv, Demanding, Open, platformVars, geometryVars, gpuiVars, tickVars
    <3> QED
      BY <2>1, <3>2, <3>3 DEF IInv
  <2>3. CASE UNCHANGED vars
    <3>1. TickInv'
      BY <2>3 DEF vars, IInv, TickInv, Open, platformVars, tickVars
    <3>2. ASSUME NEW w \in Windows
          PROVE  WindowInv(w)'
      BY <2>3 DEF vars, IInv, WindowInv, OwnsWake, OwesNothing, QuietInv,
         FirstFrameInv, GeometryInv, Demanding, Open, platformVars,
         geometryVars, gpuiVars, tickVars
    <3> QED
      BY <2>1, <3>1, <3>2 DEF IInv
  <2>4. ASSUME NEW w \in Windows,
               App(w) \/ Event(w) \/ Throttle(w) \/ Proceed(w) \/ Draw(w) \/ Complete(w)
        PROVE  IInv'
    BY <2>1, <2>4, AppStep, EventStep, BeginStep, DrawStep, CompleteStep
  <2> QED
    BY <2>2, <2>3, <2>4 DEF Next, AllClosed
<1> QED
  BY <1>1, <1>2, PTL DEF Spec

-----------------------------------------------------------------------------
(* The theorems *)

\* Every waiting window owns a wake that will come (frame_loop.rs, complete_frame).
THEOREM WakesAreOwned == Spec => []WakeOwned
<1>1. IInv => WakeOwned
  BY DEF IInv, WindowInv, WakeOwned
<1> QED
  BY <1>1, IInvInductive, PTL

\* A parked window owes no frame, no first present and no geometry.
THEOREM ParkedWindowsOweNothing == Spec => []ParkedOwesNothing
<1>1. IInv => ParkedOwesNothing
  BY DEF IInv, WindowInv, ParkedOwesNothing
<1> QED
  BY <1>1, IInvInductive, PTL

\* No commit applies a geometry the buffer on screen was not drawn with.
THEOREM GeometryFollowsBuffer == Spec => []GeometryMatchesBuffer
<1>1. IInv => GeometryMatchesBuffer
  BY ConstantsAssumption DEF IInv, WindowInv, GeometryInv, GeometryMatchesBuffer
<1> QED
  BY <1>1, IInvInductive, PTL

\* A retry timer is only ever registered for a window that waits for it.
THEOREM TimersAreAwaited == Spec => []NoStrayTimer
<1>1. IInv => NoStrayTimer
  BY DEF IInv, WindowInv, NoStrayTimer
<1> QED
  BY <1>1, IInvInductive, PTL

-----------------------------------------------------------------------------
(* Closing is final *)

\* schedule_frame leaves a closed window closed.
LEMMA ScheduleKeepsClosed ==
    ASSUME NEW fl, NEW S, ScheduleFrames(fl, S), NEW v \in Windows, fl[v] = "Closed"
    PROVE  frame_loop'[v] = "Closed"
  BY DEF ScheduleFrames, schedule_frame

\* What ClosedIsFinal says of one step and one window.
StaysClosed(v) ==
    /\ frame_loop'[v] = "Closed"
    /\ UNCHANGED <<presentation[v], staged[v], last_presented[v]>>
    /\ frame_callback'[v] = "requested" => frame_callback[v] = "requested"
    /\ retry_timer'[v] => retry_timer[v]
    /\ ticking' = v => ticking = v

\* No step reopens, ticks or draws a closed window, or asks for a frame callback or a timer in its
\* name (close, frame, complete_frame).
THEOREM ClosingIsFinal == Spec => ClosedIsFinal
<1>1. ASSUME TypeOK, [Next]_vars, NEW v \in Windows, frame_loop[v] = "Closed"
      PROVE  StaysClosed(v)
  <2> USE ConstantsAssumption, ScheduleKeepsClosed
      DEF StaysClosed, TypeOK, platformVars, geometryVars, gpuiVars, tickVars, Open
  <2>1. ASSUME NEW w \in Windows, App(w)
        PROVE  StaysClosed(v)
    BY <1>1, <2>1 DEF App, AppInvalidate, AppOnNextFrame, AppDrawWithoutPresent,
       RequestRedraw, StateOnlyCommit, Close
  <2>2. ASSUME NEW w \in Windows, Event(w)
        PROVE  StaysClosed(v)
    <3>1. ASSUME Frame(w), w # v
          PROVE  frame_loop'[v] = "Closed" /\ ticking' # v
      BY <1>1, <3>1, FrameEffect DEF schedule_frame
    <3> QED
      BY <1>1, <2>2, <3>1 DEF Event, FirstConfigure, Resize, ThrottledConfigure,
         FrameCallback, RetryTimer, DispatchWindow, FrameIf
  <2>3. ASSUME NEW w \in Windows, Throttle(w) \/ Proceed(w)
        PROVE  StaysClosed(v)
    BY <1>1, <2>3 DEF Throttle, Proceed
  <2>4. ASSUME NEW w \in Windows, Draw(w)
        PROVE  StaysClosed(v)
    <3>1. w # v \/ DrawSkipped(w)
      BY <1>1, <2>4 DEF Draw, DrawDeviceLost, DrawPresented, DrawFailed, Drawing
    <3>2. CASE DrawSkipped(w)
      BY <1>1, <3>2 DEF DrawSkipped
    <3>3. CASE w # v /\ DrawDeviceLost(w)
      BY <1>1, <3>3 DEF DrawDeviceLost, EndDraw
    <3>4. CASE w # v /\ DrawPresented(w)
      <4>1. [frame_loop EXCEPT ![w] = "AwaitingCallback"][v] = "Closed"
        BY <1>1, <3>4
      <4>2. frame_loop'[v] = "Closed"
        BY <3>4, <4>1 DEF DrawPresented, EndDraw
      <4> QED
        BY <1>1, <3>4, <4>2 DEF DrawPresented, EndDraw
    <3>5. CASE w # v /\ DrawFailed(w)
      <4>1. [frame_loop EXCEPT ![w] = "PresentationFailed"][v] = "Closed"
        BY <1>1, <3>5
      <4>2. frame_loop'[v] = "Closed"
        BY <3>5, <4>1 DEF DrawFailed, EndDraw
      <4> QED
        BY <1>1, <3>5, <4>2 DEF DrawFailed, EndDraw
    <3> QED
      BY <2>4, <3>1, <3>2, <3>3, <3>4, <3>5 DEF Draw
  <2>5. ASSUME NEW w \in Windows, Complete(w)
        PROVE  StaysClosed(v)
    BY <1>1, <2>5 DEF Complete, CompleteAwaiting, CompletePaced, CompleteRetry,
       CompletePark, CompleteClosed, Completing, EndTick
  <2>6. CASE DispatchPing \/ UNCHANGED vars
    BY <1>1, <2>6 DEF DispatchPing, vars
  <2> QED
    BY <1>1, <2>1, <2>2, <2>3, <2>4, <2>5, <2>6 DEF Next, AllClosed
<1>2. TypeOK /\ [Next]_vars =>
          [\A w \in Windows : frame_loop[w] = "Closed" =>
               /\ frame_loop'[w] = "Closed"
               /\ UNCHANGED <<presentation[w], staged[w], last_presented[w]>>
               /\ frame_callback'[w] = "requested" => frame_callback[w] = "requested"
               /\ retry_timer'[w] => retry_timer[w]
               /\ ticking' = w => ticking = w]_vars
  BY <1>1 DEF StaysClosed
<1> QED
  BY <1>2, TypeCorrect, PTL DEF Spec, ClosedIsFinal
-----------------------------------------------------------------------------
(* The frame loop implements FrameDemand *)

\* The abstract state as two functions, the one FD is instantiated with.
States == [w \in Windows |-> WakeState(w)]
Debts == [w \in Windows |-> Owes(w)]

\* A step that leaves the abstract state of every window but w alone.
OthersKeep(w) ==
    \A v \in Windows \ {w} : WakeState(v)' = WakeState(v) /\ Owes(v)' = Owes(v)

\* A window with its abstract state and debt as they were.
Keeps(w) == WakeState(w)' = WakeState(w) /\ Owes(w)' = Owes(w)

\* The steps FrameDemand allows one window.
Raised(w) ==
    /\ WakeState(w) # "closed"
    /\ WakeState(w)' = IF WakeState(w) = "asleep" THEN "armed" ELSE WakeState(w)
    /\ Owes(w)' = TRUE

Woken(w) ==
    /\ WakeState(w) \in {"new", "armed"}
    /\ \A v \in Windows : WakeState(v) # "ticking"
    /\ WakeState(w)' = "ticking"
    /\ Owes(w)' = Owes(w)

Served(w) ==
    /\ WakeState(w) = "ticking" /\ WakeState(w)' = "ticking"
    /\ Owes(w)' = FALSE

Rested(w) ==
    /\ WakeState(w) = "ticking"
    /\ WakeState(w)' = "armed" \/ (Owes(w) = FALSE /\ WakeState(w)' = "asleep")
    /\ Owes(w)' = Owes(w)

Ended(w) == WakeState(w) # "closed" /\ WakeState(w)' = "closed"

Allowed(w) == Raised(w) \/ Woken(w) \/ Served(w) \/ Rested(w) \/ Ended(w) \/ Keeps(w)

\* What a window owes is a truth value, before a step and after it.
LEMMA OwesBoolean ==
    ASSUME NEW w \in Windows
    PROVE  Owes(w) \in BOOLEAN /\ Owes(w)' \in BOOLEAN
  BY Zenon DEF Owes, Unserved

\* A step that is allowed for one window and keeps the others is a step of
\* FrameDemand or a stutter.
LEMMA AllowedIsAbstract ==
    ASSUME NEW w \in Windows, OthersKeep(w), Allowed(w)
    PROVE  [FD!Next]_(FD!vars)
<1> DEFINE S == States
           D == Debts
<1>1. /\ S' = [v \in Windows |-> WakeState(v)']
      /\ D' = [v \in Windows |-> Owes(v)']
      /\ S = [v \in Windows |-> WakeState(v)]
      /\ D = [v \in Windows |-> Owes(v)]
  BY DEF States, Debts
<1>2. \A v \in Windows \ {w} : S'[v] = S[v] /\ D'[v] = D[v]
  BY <1>1 DEF OthersKeep
<1>3. CASE Raised(w)
  <2>1. FD!Raise(w)
    BY <1>1, <1>2, <1>3 DEF FD!Raise, Raised, States, Debts
  <2> QED
    BY <2>1 DEF FD!Next
<1>4. CASE Woken(w)
  <2>1. FD!Wake(w)
    BY <1>1, <1>2, <1>4 DEF FD!Wake, Woken, States, Debts
  <2> QED
    BY <2>1 DEF FD!Next
<1>5. CASE Served(w)
  <2>1. FD!Serve(w)
    BY <1>1, <1>2, <1>5 DEF FD!Serve, Served, States, Debts
  <2> QED
    BY <2>1 DEF FD!Next
<1>6. CASE Rested(w)
  <2>1. FD!Rest(w)
    BY <1>1, <1>2, <1>6 DEF FD!Rest, Rested, States, Debts
  <2> QED
    BY <2>1 DEF FD!Next
<1>7. CASE Ended(w)
  <2>1. FD!Close(w)
    BY <1>1, <1>2, <1>7, OwesBoolean DEF FD!Close, Ended, States, Debts
  <2> QED
    BY <2>1 DEF FD!Next
<1>8. CASE Keeps(w)
  BY <1>1, <1>2, <1>8 DEF FD!vars, Keeps, States, Debts
<1> QED
  BY <1>3, <1>4, <1>5, <1>6, <1>7, <1>8 DEF Allowed

\* The variables a debt is made of, for one window.
DebtKept(v) ==
    /\ dirty'[v] = dirty[v] /\ needs_present'[v] = needs_present[v]
    /\ redraw_requested'[v] = redraw_requested[v]
    /\ presentation'[v] = presentation[v]
    /\ next_frame'[v] = next_frame[v] /\ deferred_force'[v] = deferred_force[v]

LEMMA DebtIsKept ==
    ASSUME NEW v, DebtKept(v)
    PROVE  Owes(v)' = Owes(v)
  BY DEF DebtKept, Owes, Unserved

\* A flush schedules windows that already are awake: a parked one owes nothing,
\* so its abstract state stays what it was.
LEMMA FlushKeeps ==
    ASSUME IInv, NEW v \in Windows, NEW fl, NEW S, ScheduleFrames(fl, S),
           fl[v] = frame_loop[v], DebtKept(v),
           v \in S => v \in Demanding(dirty', needs_present', next_frame'),
           ticking' = v <=> ticking = v
    PROVE  WakeState(v)' = WakeState(v) /\ Owes(v)' = Owes(v)
<1>1. Owes(v)' = Owes(v)
  BY DebtIsKept
<1>2. v \in S => frame_loop[v] # "Parked"
  BY DEF IInv, WindowInv, OwesNothing, DebtKept, Demanding
<1>3. frame_loop[v] = "Ticking" => ticking = v
  BY DEF IInv, WindowInv, OwnsWake
<1>4. frame_loop'[v] = IF v \in S THEN schedule_frame(frame_loop[v]) ELSE frame_loop[v]
  BY DEF ScheduleFrames
<1>5. WakeState(v)' = WakeState(v)
  BY <1>2, <1>3, <1>4 DEF WakeState, schedule_frame
<1> QED
  BY <1>1, <1>5

\* The window an action schedules: it is armed if it slept.
LEMMA ScheduledIsArmed ==
    ASSUME IInv, NEW w \in Windows, NEW S, ScheduleFrames(frame_loop, S), w \in S,
           Open(w), ticking' = ticking
    PROVE  /\ WakeState(w) # "closed"
           /\ WakeState(w)' = IF WakeState(w) = "asleep" THEN "armed" ELSE WakeState(w)
<1>1. frame_loop[w] = "Ticking" => ticking = w
  BY DEF IInv, WindowInv, OwnsWake
<1>2. frame_loop'[w] = schedule_frame(frame_loop[w])
  BY DEF ScheduleFrames
<1>3. ticking = w => frame_loop[w] # "Parked"
  BY DEF IInv, TickInv, Open
<1> QED
  BY <1>1, <1>2, <1>3 DEF WakeState, schedule_frame, Open

\* What the application does maps to Raise, Close or a stutter.
LEMMA AppMaps ==
    ASSUME IInv, NEW w \in Windows, App(w)
    PROVE  OthersKeep(w) /\ Allowed(w)
<1> USE DEF IInv, TypeOK, platformVars, geometryVars, gpuiVars, tickVars
<1>1. CASE AppInvalidate(w)
  <2>1. \A v \in Windows \ {w} : DebtKept(v)
    BY <1>1 DEF AppInvalidate, DebtKept
  <2>2. OthersKeep(w)
    BY <1>1, <2>1, FlushKeeps DEF AppInvalidate, OthersKeep
  <2>3. w \in Demanding(dirty', needs_present, next_frame) /\ Owes(w)'
    BY <1>1 DEF AppInvalidate, Demanding, Owes, Unserved
  <2>4. Raised(w)
    BY <1>1, <2>3, ScheduledIsArmed, OwesBoolean DEF AppInvalidate, Raised
  <2> QED
    BY <2>2, <2>4 DEF Allowed
<1>2. CASE AppOnNextFrame(w)
  <2>1. \A v \in Windows \ {w} : DebtKept(v)
    BY <1>2 DEF AppOnNextFrame, DebtKept
  <2>2. OthersKeep(w)
    BY <1>2, <2>1, FlushKeeps DEF AppOnNextFrame, OthersKeep
  <2>3. w \in Demanding(dirty, needs_present, next_frame') /\ Owes(w)'
    BY <1>2 DEF AppOnNextFrame, Demanding, Owes, Unserved
  <2>4. Raised(w)
    BY <1>2, <2>3, ScheduledIsArmed, OwesBoolean DEF AppOnNextFrame, Raised
  <2> QED
    BY <2>2, <2>4 DEF Allowed
<1>3. CASE AppDrawWithoutPresent(w)
  <2>1. \A v \in Windows \ {w} : DebtKept(v)
    BY <1>3 DEF AppDrawWithoutPresent, DebtKept
  <2>2. OthersKeep(w)
    BY <1>3, <2>1, FlushKeeps DEF AppDrawWithoutPresent, OthersKeep
  <2>3. w \in Demanding(dirty', needs_present', next_frame) /\ Owes(w)'
    BY <1>3 DEF AppDrawWithoutPresent, Demanding, Owes, Unserved
  <2>4. Raised(w)
    BY <1>3, <2>3, ScheduledIsArmed, OwesBoolean DEF AppDrawWithoutPresent, Raised
  <2> QED
    BY <2>2, <2>4 DEF Allowed
<1>4. ASSUME NEW g \in Geometries, RequestRedraw(w, g)
      PROVE  OthersKeep(w) /\ Allowed(w)
  <2>1. \A v \in Windows \ {w} : DebtKept(v)
    BY <1>4 DEF RequestRedraw, DebtKept
  <2>2. OthersKeep(w)
    BY <1>4, <2>1, FlushKeeps DEF RequestRedraw, OthersKeep
  <2>3. Owes(w)'
    BY <1>4 DEF RequestRedraw, Owes, Unserved
  <2>4. Raised(w)
    BY <1>4, <2>3, ScheduledIsArmed, OwesBoolean DEF RequestRedraw, Raised
  <2> QED
    BY <2>2, <2>4 DEF Allowed
<1>5. CASE StateOnlyCommit(w)
  <2>1. \A v \in Windows : WakeState(v)' = WakeState(v) /\ DebtKept(v)
    BY <1>5 DEF StateOnlyCommit, WakeState, DebtKept
  <2> QED
    BY <2>1, DebtIsKept DEF OthersKeep, Allowed, Keeps
<1>6. CASE Close(w)
  <2>1. \A v \in Windows \ {w} : WakeState(v)' = WakeState(v) /\ DebtKept(v)
    BY <1>6 DEF Close, WakeState, DebtKept
  <2>2. frame_loop[w] # "Closed" /\ frame_loop'[w] = "Closed"
    BY <1>6 DEF Close, Open
  <2>3. Ended(w)
    BY <2>2 DEF Ended, WakeState
  <2> QED
    BY <2>1, <2>3, DebtIsKept DEF OthersKeep, Allowed
<1> QED
  BY <1>1, <1>2, <1>3, <1>4, <1>5, <1>6 DEF App

\* A tick begins: the window wakes, whatever the flush finds to schedule.
LEMMA FrameMaps ==
    ASSUME IInv, NEW w \in Windows, Frame(w), ticking = NoWindow,
           frame_loop[w] \notin {"Closed", "Parked"},
           \A v \in Windows \ {w} : DebtKept(v),
           needs_present' = needs_present, next_frame' = next_frame,
           Owes(w)' = Owes(w)
    PROVE  OthersKeep(w) /\ Allowed(w)
<1>1. ASSUME NEW v \in Windows, v # w
      PROVE  WakeState(v)' = WakeState(v) /\ Owes(v)' = Owes(v)
  <2> DEFINE fl == [frame_loop EXCEPT ![w] = "Ticking"]
             S == Demanding(dirty', needs_present, next_frame)
  <2>1. fl[v] = frame_loop[v] /\ ScheduleFrames(fl, S)
    BY <1>1 DEF Frame, IInv, TypeOK
  <2>2. ticking' # v /\ ticking # v
    BY <1>1, ConstantsAssumption DEF Frame
  <2>3. v \in S => v \in Demanding(dirty', needs_present', next_frame')
    OBVIOUS
  <2>4. DebtKept(v)
    BY <1>1
  <2> HIDE DEF fl, S
  <2> QED
    BY <2>1, <2>2, <2>3, <2>4, FlushKeeps
<1>2. frame_loop'[w] # "Closed" /\ ticking' = w
  BY DEF Frame, ScheduleFrames, schedule_frame, IInv, TypeOK
<1>3. WakeState(w)' = "ticking" /\ WakeState(w) \in {"new", "armed"}
  <2>1. WakeState(w)' = "ticking"
    BY <1>2 DEF WakeState
  <2>2. ticking # w /\ frame_loop[w] # "Closed" /\ frame_loop[w] # "Parked"
    BY ConstantsAssumption
  <2>3. WakeState(w) \in {"new", "armed"}
    BY <2>2 DEF WakeState
  <2> QED
    BY <2>1, <2>3
<1>4. \A v \in Windows : WakeState(v) # "ticking"
  BY ConstantsAssumption DEF WakeState
<1> QED
  BY <1>1, <1>3, <1>4 DEF OthersKeep, Allowed, Woken

\* An event ticks its window, asks it for a redraw, or passes it by.
LEMMA EventMaps ==
    ASSUME IInv, NEW w \in Windows, Event(w)
    PROVE  OthersKeep(w) /\ Allowed(w)
<1> USE DEF IInv, TypeOK, platformVars, geometryVars, gpuiVars, tickVars
<1>1. ASSUME NEW g \in Geometries, FirstConfigure(w, g)
      PROVE  OthersKeep(w) /\ Allowed(w)
  <2>1. \A v \in Windows \ {w} : DebtKept(v)
    BY <1>1 DEF FirstConfigure, Resized, DebtKept
  <2>2. Owes(w) /\ Owes(w)'
    <3>1. needs_present[w] \/ redraw_requested[w]
      BY <1>1 DEF WindowInv, FirstFrameInv, FirstConfigure, Open
    <3> QED
      BY <1>1, <3>1 DEF FirstConfigure, Owes, Unserved
  <2>3. ticking = NoWindow /\ frame_loop[w] \notin {"Closed", "Parked"} /\ Frame(w)
    BY <1>1 DEF FirstConfigure, AtRest
  <2>4. Owes(w)' = Owes(w)
    BY <2>2, OwesBoolean
  <2>5. needs_present' = needs_present /\ next_frame' = next_frame
    BY <1>1 DEF FirstConfigure
  <2> QED
    BY <2>1, <2>3, <2>4, <2>5, FrameMaps
<1>2. ASSUME NEW g \in Geometries, NEW resizing \in BOOLEAN, Resize(w, g, resizing)
      PROVE  OthersKeep(w) /\ Allowed(w)
  <2>1. \A v \in Windows \ {w} : DebtKept(v)
    BY <1>2 DEF Resize, Resized, DebtKept
  <2>2. OthersKeep(w)
    BY <1>2, <2>1, FlushKeeps DEF Resize, OthersKeep
  <2>3. Owes(w)'
    BY <1>2 DEF Resize, Owes, Unserved
  <2>4. Raised(w)
    BY <1>2, <2>3, ScheduledIsArmed, OwesBoolean DEF Resize, Raised
  <2> QED
    BY <2>2, <2>4 DEF Allowed
<1>3. ASSUME NEW g \in Geometries, ThrottledConfigure(w, g)
      PROVE  OthersKeep(w) /\ Allowed(w)
  <2>1. \A v \in Windows : WakeState(v)' = WakeState(v) /\ DebtKept(v)
    BY <1>3 DEF ThrottledConfigure, WakeState, DebtKept
  <2> QED
    BY <2>1, DebtIsKept DEF OthersKeep, Allowed, Keeps
<1>4. ASSUME NEW s \in {"AwaitingCallback", "RetryScheduled", "Scheduled"},
             FrameIf(w, s), ticking = NoWindow,
             UNCHANGED <<presentation, redraw_requested, dirty, needs_present,
                         next_frame, deferred_force>>
      PROVE  OthersKeep(w) /\ Allowed(w)
  <2>1. \A v \in Windows : DebtKept(v) /\ Owes(v)' = Owes(v)
    BY <1>4, DebtIsKept DEF DebtKept
  <2>2. CASE frame_loop[w] = s
    BY <1>4, <2>1, <2>2, FrameMaps DEF FrameIf
  <2>3. CASE frame_loop[w] # s
    <3>1. \A v \in Windows : WakeState(v)' = WakeState(v)
      BY <1>4, <2>3 DEF FrameIf, WakeState
    <3> QED
      BY <2>1, <3>1 DEF OthersKeep, Allowed, Keeps
  <2> QED
    BY <2>2, <2>3
<1>5. CASE FrameCallback(w)
  BY <1>4, <1>5 DEF FrameCallback, AtRest
<1>6. CASE RetryTimer(w)
  BY <1>4, <1>6 DEF RetryTimer, AtRest
<1>7. CASE DispatchWindow(w)
  BY <1>4, <1>7 DEF DispatchWindow
<1> QED
  BY <1>1, <1>2, <1>3, <1>5, <1>6, <1>7 DEF Event

\* Putting a tick off keeps the debt; taking callbacks and forces may serve it.
LEMMA BeginMaps ==
    ASSUME IInv, NEW w \in Windows, Throttle(w) \/ Proceed(w)
    PROVE  OthersKeep(w) /\ Allowed(w)
<1> USE DEF IInv, TypeOK, platformVars, geometryVars, gpuiVars, tickVars
<1>1. CASE Throttle(w)
  <2>1. \A v \in Windows \ {w} : DebtKept(v)
    BY <1>1 DEF Throttle, DebtKept
  <2>2. OthersKeep(w)
    BY <1>1, <2>1, FlushKeeps DEF Throttle, OthersKeep
  <2>3. Owes(w)'
    <3>1. deferred_force'[w] \/ next_frame'[w]
      BY <1>1 DEF Throttle
    <3> QED
      BY <3>1 DEF Owes
  <2>4. CASE Open(w)
    <3>1. Raised(w)
      BY <1>1, <2>3, <2>4, ScheduledIsArmed, OwesBoolean DEF Throttle, Raised
    <3> QED
      BY <2>2, <3>1 DEF Allowed
  <2>5. Open(w)
    BY <1>1 DEF Throttle, TickInv
  <2> QED
    BY <2>4, <2>5
<1>2. CASE Proceed(w)
  <2>1. \A v \in Windows \ {w} : DebtKept(v) /\ WakeState(v)' = WakeState(v)
    BY <1>2 DEF Proceed, DebtKept, WakeState
  <2>2. WakeState(w)' = WakeState(w)
    BY <1>2 DEF Proceed, WakeState
  <2>3. OthersKeep(w)
    BY <2>1, DebtIsKept DEF OthersKeep
  <2> QED
    <3>1. WakeState(w) = "ticking"
      BY <1>2 DEF Proceed, WakeState, TickInv, Open
    <3>2. Keeps(w) \/ Served(w) \/ Raised(w)
      BY <2>2, <3>1, OwesBoolean DEF Keeps, Served, Raised
    <3> QED
      BY <2>3, <3>2 DEF Allowed
<1> QED
  BY <1>1, <1>2

\* A draw serves the debt or leaves some of it; the window stays in its tick.
LEMMA DrawMaps ==
    ASSUME IInv, NEW w \in Windows, Draw(w)
    PROVE  OthersKeep(w) /\ Allowed(w)
<1> USE DEF IInv, TypeOK, platformVars, geometryVars, gpuiVars, tickVars
<1>1. ticking = w /\ Open(w) /\ ticking' = w
  BY DEF Draw, DrawSkipped, DrawDeviceLost, DrawPresented, DrawFailed, Drawing, EndDraw
<1>2. CASE DrawSkipped(w)
  <2>1. \A v \in Windows : WakeState(v)' = WakeState(v) /\ DebtKept(v)
    BY <1>2 DEF DrawSkipped, WakeState, DebtKept
  <2> QED
    BY <2>1, DebtIsKept DEF OthersKeep, Allowed, Keeps
<1>3. ASSUME NEW fl \in [Windows -> FrameLoopState], EndDraw(fl), Rebuild(w),
             fl[w] # "Closed",
             \A v \in Windows \ {w} : /\ fl[v] = frame_loop[v]
                                      /\ redraw_requested'[v] = redraw_requested[v]
                                      /\ presentation'[v] = presentation[v]
      PROVE  OthersKeep(w) /\ Allowed(w)
  <2>1. ASSUME NEW v \in Windows, v # w
        PROVE  DebtKept(v)
    <3>1. dirty'[v] = dirty[v]
      BY <2>1, <1>3 DEF Rebuild
    <3> QED
      BY <1>1, <1>3, <2>1, <3>1 DEF DebtKept, EndDraw
  <2>2. next_frame' = next_frame
    BY <1>3 DEF EndDraw
  <2>3. OthersKeep(w)
    BY <1>1, <1>3, <2>1, <2>2, FlushKeeps DEF EndDraw, OthersKeep
  <2>4. frame_loop'[w] # "Closed"
    BY <1>3 DEF EndDraw, ScheduleFrames, schedule_frame
  <2>5. WakeState(w) = "ticking" /\ WakeState(w)' = "ticking"
    BY <1>1, <2>4 DEF WakeState, Open
  <2>6. Served(w) \/ Raised(w)
    BY <2>5, OwesBoolean DEF Served, Raised
  <2> QED
    BY <2>3, <2>6 DEF Allowed
<1>4. CASE DrawDeviceLost(w)
  BY <1>1, <1>3, <1>4 DEF DrawDeviceLost, Open
<1>5. CASE DrawPresented(w)
  <2> DEFINE fl == [frame_loop EXCEPT ![w] = "AwaitingCallback"]
  <2>1. fl \in [Windows -> FrameLoopState] /\ fl[w] # "Closed"
    BY DEF FrameLoopState
  <2>2. EndDraw(fl) /\ Rebuild(w)
    BY <1>5 DEF DrawPresented
  <2>3. \A v \in Windows \ {w} : /\ fl[v] = frame_loop[v]
                                 /\ redraw_requested'[v] = redraw_requested[v]
                                 /\ presentation'[v] = presentation[v]
    BY <1>5 DEF DrawPresented
  <2> HIDE DEF fl
  <2> QED
    BY <1>3, <2>1, <2>2, <2>3
<1>6. CASE DrawFailed(w)
  <2> DEFINE fl == [frame_loop EXCEPT ![w] = "PresentationFailed"]
  <2>1. fl \in [Windows -> FrameLoopState] /\ fl[w] # "Closed"
    BY DEF FrameLoopState
  <2>2. EndDraw(fl) /\ Rebuild(w)
    BY <1>6 DEF DrawFailed
  <2>3. \A v \in Windows \ {w} : /\ fl[v] = frame_loop[v]
                                 /\ redraw_requested'[v] = redraw_requested[v]
                                 /\ presentation'[v] = presentation[v]
    BY <1>6 DEF DrawFailed
  <2> HIDE DEF fl
  <2> QED
    BY <1>3, <2>1, <2>2, <2>3
<1> QED
  BY <1>2, <1>4, <1>5, <1>6 DEF Draw

\* The end of a tick: asleep only if nothing is owed, which the invariant of the
\* state it leaves says of a parked window.
LEMMA CompleteMaps ==
    ASSUME IInv, IInv', NEW w \in Windows, Complete(w)
    PROVE  OthersKeep(w) /\ Allowed(w)
<1> USE ConstantsAssumption DEF IInv, TypeOK, gpuiVars
<1>1. ticking = w /\ ticking' = NoWindow /\ ticking' # w /\ EndTick
  BY DEF Complete, CompleteAwaiting, CompletePaced, CompleteRetry, CompletePark,
     CompleteClosed, Completing, EndTick
<1>2. \A v \in Windows : DebtKept(v) /\ Owes(v)' = Owes(v)
  BY <1>1, DebtIsKept DEF EndTick, DebtKept
<1>3. \A v \in Windows \ {w} : frame_loop'[v] = frame_loop[v]
  BY DEF Complete, CompleteAwaiting, CompletePaced, CompleteRetry, CompletePark,
     CompleteClosed
<1>4. OthersKeep(w)
  BY <1>1, <1>2, <1>3 DEF OthersKeep, WakeState
<1>5. CASE CompleteClosed(w)
  <2>1. frame_loop[w] = "Closed" /\ frame_loop'[w] = "Closed"
    BY <1>5 DEF CompleteClosed, Open
  <2> QED
    BY <1>2, <1>4, <2>1 DEF Allowed, Keeps, WakeState
<1>6. CASE ~CompleteClosed(w)
  <2>1. Open(w)
    BY <1>6 DEF Complete, CompleteAwaiting, CompletePaced, CompleteRetry, CompletePark,
       Completing
  <2>2. WakeState(w) = "ticking"
    BY <1>1, <2>1 DEF WakeState, Open
  <2>3. frame_loop'[w] \in {"AwaitingCallback", "RetryScheduled", "Scheduled", "Parked"}
    BY <1>6 DEF Complete, CompleteAwaiting, CompletePaced, CompleteRetry, CompletePark
  <2>4. CASE frame_loop'[w] = "Parked"
    <3>1. WakeState(w)' = "asleep"
      BY <1>1, <2>4 DEF WakeState
    <3>2. OwesNothing(w)'
      BY <2>4 DEF WindowInv
    <3>3. ~Owes(w)'
      BY <3>2 DEF OwesNothing, Owes, Unserved, requires_presentation
    <3> QED
      BY <1>2, <1>4, <2>2, <3>1, <3>3, OwesBoolean DEF Allowed, Rested
  <2>5. CASE frame_loop'[w] # "Parked"
    <3>1. WakeState(w)' = "armed"
      BY <1>1, <2>3, <2>5 DEF WakeState
    <3> QED
      BY <1>2, <1>4, <2>2, <3>1 DEF Allowed, Rested
  <2> QED
    BY <2>4, <2>5
<1> QED
  BY <1>5, <1>6

\* The initial states are those of FrameDemand: a new window owes its first frame.
LEMMA InitMaps == Init => FD!Init
<1> SUFFICES ASSUME Init PROVE FD!Init
  OBVIOUS
<1>1. \A w \in Windows : WakeState(w) = "new" /\ Owes(w) = TRUE
  <2> SUFFICES ASSUME NEW w \in Windows PROVE WakeState(w) = "new" /\ Owes(w) = TRUE
    OBVIOUS
  <2>1. WakeState(w) = "new"
    BY ConstantsAssumption DEF Init, WakeState
  <2>2. Owes(w)
    BY DEF Init, Owes, Unserved
  <2> QED
    BY <2>1, <2>2, OwesBoolean
<1> QED
  BY <1>1 DEF FD!Init

\* The frame loop implements FrameDemand: ticks of one window at a time, no sleep
\* on demand, and no wake or debt of one window touched by what another does
\* (frame_loop.rs, wayland/window.rs, App::flush_effects).
THEOREM FrameDemandRefined == Spec => RefinesFrameDemand
<1>1. Init => FD!Init
  BY InitMaps
<1>2. ASSUME IInv, IInv', [Next]_vars
      PROVE  [FD!Next]_(FD!vars)
  <2>1. ASSUME NEW w \in Windows,
               App(w) \/ Event(w) \/ Throttle(w) \/ Proceed(w) \/ Draw(w) \/ Complete(w)
        PROVE  [FD!Next]_(FD!vars)
    <3>1. OthersKeep(w) /\ Allowed(w)
      BY <1>2, <2>1, AppMaps, EventMaps, BeginMaps, DrawMaps, CompleteMaps
    <3> QED
      BY <3>1, AllowedIsAbstract
  <2>2. CASE DispatchPing \/ UNCHANGED vars
    <3>1. \A v \in Windows : WakeState(v)' = WakeState(v) /\ DebtKept(v)
      BY <2>2 DEF DispatchPing, vars, platformVars, gpuiVars, tickVars, WakeState, DebtKept
    <3>2. \A v \in Windows : WakeState(v)' = WakeState(v) /\ Owes(v)' = Owes(v)
      BY <3>1, DebtIsKept
    <3> QED
      BY <3>2 DEF FD!vars
  <2> QED
    BY <1>2, <2>1, <2>2 DEF Next, AllClosed
<1>3. IInv /\ IInv' /\ [Next]_vars => [FD!Next]_(FD!vars)
  BY <1>2
<1> QED
  BY <1>1, <1>3, IInvInductive, PTL DEF Spec, RefinesFrameDemand, FD!Spec

=============================================================================
