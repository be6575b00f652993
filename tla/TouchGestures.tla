--------------------------- MODULE TouchGestures ---------------------------
(***************************************************************************)
(* The portable touch recognizer (gpui/src/gestures.rs), the window that   *)
(* drives it (dispatch_touch_event, the long press timer and the frame     *)
(* callbacks of a fling in gpui/src/window.rs) and the web platform that   *)
(* feeds it (the pointer events of gpui_web/src/events.rs; that it shows   *)
(* its keyboard for a touch that it takes for a tap is left out).          *)
(*                                                                         *)
(* Positions are offsets from where the touch started, along the axis to   *)
(* which its pan is locked. What listeners decide (to claim a touch, to    *)
(* capture a long press), the predicted positions and the sign of the      *)
(* release velocity are chosen freely; the number of consecutive taps is   *)
(* left out. Time is what has passed since something, up to the limit that *)
(* the code compares it with.                                              *)
(***************************************************************************)
EXTENDS Integers, Sequences, FiniteSets

CONSTANTS
    Pointers,        \* the fingers
    MaxTouches,      \* bound on the touches begun
    MaxPosition,     \* bound on the offset of a finger
    Slop,            \* touch_slop
    LongPress,       \* long_press_duration
    StopGap,         \* VELOCITY_ASSUME_STOPPED_GAP
    FlingDuration,   \* fling_duration
    FlingSpeed       \* what a fling travels in a unit of time

NoTouch == [id |-> 0]
None == [id |-> 0]

VARIABLES
    down,        \* TouchIds::active, 0 if the pointer is up
    nextId,      \* TouchIds::next
    position,    \* where each finger is
    state,       \* the variant of TouchGestureState
    touch,       \* the ActiveTouch in it
    momentum,    \* Option<Momentum>
    timer,       \* long_press_timer
    capture,     \* long_press_capture
    ticks,       \* momentum ticks among the next frame's callbacks: 0, 1 or more
    out,         \* the gestures dispatched in the step
    scrolled,    \* sum of the deltas of the last pan and its fling
    expected,    \* where the pan should take the content
    settled      \* the pan ended, and neither it nor its fling was cut short

webVars == <<down, nextId, position>>
gestureVars == <<state, touch, momentum>>
windowVars == <<timer, capture, ticks>>
history == <<scrolled, expected, settled>>
vars == <<webVars, gestureVars, windowVars, out, history>>

Gesture(kind, phase, delta) == [kind |-> kind, phase |-> phase, delta |-> delta]
Scroll(phase, delta) == Gesture("Scroll", phase, delta)

Abs(n) == IF n < 0 THEN -n ELSE n
Sign(n) == IF n < 0 THEN -1 ELSE IF n > 0 THEN 1 ELSE 0
Least(a, b) == IF a < b THEN a ELSE b
Greatest(a, b) == IF a < b THEN b ELSE a

\* fling_distance: a curve that grows until fling_duration.
fling_distance(elapsed) == Least(elapsed, FlingDuration) * FlingSpeed
FlingTotal == fling_distance(FlingDuration)

Init ==
    /\ down = [p \in Pointers |-> 0]
    /\ nextId = 1
    /\ position = [p \in Pointers |-> 0]
    /\ state = "Idle"
    /\ touch = NoTouch
    /\ momentum = None
    /\ timer = None
    /\ capture = FALSE
    /\ ticks = 0
    /\ out = <<>>
    /\ scrolled = 0
    /\ expected = 0
    /\ settled = FALSE

-----------------------------------------------------------------------------
(* The end of dispatch_touch_event.                                        *)

pending_long_press(s, t) == s = "Pending" /\ ~t.longPressOffered

\* schedule_long_press_timer: a new timer, for what is left.
schedule_long_press_timer(s, t) ==
    IF pending_long_press(s, t) THEN [id |-> t.id, left |-> LongPress - t.held] ELSE None

\* A timer is dropped as soon as the touch is resolved.
Timer(started, s, t) ==
    timer' = IF started THEN schedule_long_press_timer(s, t)
             ELSE IF pending_long_press(s, t) THEN timer ELSE None

\* schedule_touch_momentum_tick, which does not know of the ticks already scheduled.
ScheduleTick == ticks' = IF momentum' = None THEN ticks ELSE Least(ticks + 1, 2)

-----------------------------------------------------------------------------
(* TouchPhase::Started.                                                    *)

NewTouch(id) ==
    [id |-> id, at |-> 0, emitted |-> 0, moved |-> 0, samples |-> 1, age |-> 0, held |-> 0,
     longPressOffered |-> FALSE]

\* A touch is being recognized: this one is ignored.
StartIgnored(id) ==
    /\ state # "Idle"
    /\ out' = <<>>
    /\ UNCHANGED <<state, touch, history>>

\* The touch catches a fling and is a pan at once.
StartCatches(id) ==
    /\ state = "Idle"
    /\ momentum # None
    /\ state' = "Panning"
    /\ touch' = NewTouch(id)
    /\ out' = <<Scroll("Ended", 0), Scroll("Started", 0)>>
    /\ scrolled' = 0
    /\ expected' = 0
    /\ settled' = FALSE

\* It may become anything; a touch drag is offered, which a listener may claim.
StartPending(id) ==
    /\ state = "Idle"
    /\ momentum = None
    /\ \E claimed \in BOOLEAN : state' = IF claimed THEN "TouchDragging" ELSE "Pending"
    /\ touch' = NewTouch(id)
    /\ out' = <<Gesture("TouchDrag", "Started", 0)>>
    /\ scrolled' = 0
    /\ expected' = 0
    /\ settled' = FALSE

Started(p) ==
    /\ down[p] = 0
    /\ nextId <= MaxTouches
    /\ nextId' = nextId + 1
    /\ down' = [down EXCEPT ![p] = nextId]
    /\ position' = [position EXCEPT ![p] = 0]
    /\ StartIgnored(nextId) \/ StartCatches(nextId) \/ StartPending(nextId)
    /\ momentum' = None
    /\ capture' = IF pending_long_press(state', touch') THEN FALSE ELSE capture
    /\ Timer(TRUE, state', touch')
    /\ ScheduleTick

-----------------------------------------------------------------------------
(* TouchPhase::Moved.                                                      *)

\* VelocityTracker::push: samples since the finger last stopped, two are enough for a velocity.
Sampled(t, to) ==
    [t EXCEPT !.at = to, !.age = 0, !.samples = IF t.age > StopGap THEN 1 ELSE 2]

movements_oppose(left, right) == left * right < 0

\* The touch leaves the slop: a pan begins, with all of the movement so far.
PanBegins(to, predicted) ==
    LET target == IF movements_oppose(predicted, to) THEN to ELSE predicted
    IN /\ state = "Pending"
       /\ Abs(to) > Slop
       /\ state' = "Panning"
       /\ touch' = [Sampled(touch, to) EXCEPT !.moved = Sign(to), !.emitted = target]
       /\ out' = <<Scroll("Started", target)>>
       /\ scrolled' = target
       /\ settled' = FALSE
       /\ UNCHANGED expected

StaysPending(to) ==
    /\ state = "Pending"
    /\ Abs(to) <= Slop
    /\ touch' = Sampled(touch, to)
    /\ out' = <<>>
    /\ UNCHANGED <<state, history>>

\* The pan follows the prediction, or the finger if the prediction is behind, or waits for it.
Pans(to, predicted) ==
    LET moved == IF to = touch.at THEN touch.moved ELSE Sign(to - touch.at)
        target == IF ~movements_oppose(predicted - touch.emitted, moved) THEN predicted
                  ELSE IF ~movements_oppose(to - touch.emitted, moved) THEN to
                  ELSE touch.emitted
    IN /\ state = "Panning"
       /\ touch' = [Sampled(touch, to) EXCEPT !.moved = moved, !.emitted = target]
       /\ out' = <<Scroll("Moved", target - touch.emitted)>>
       /\ scrolled' = scrolled + target - touch.emitted
       /\ UNCHANGED <<state, expected, settled>>

Stream == [LongPressing |-> "LongPress", TouchDragging |-> "TouchDrag"]

\* A claimed touch.
Drags(to) ==
    /\ state \in DOMAIN Stream
    /\ touch' = [touch EXCEPT !.at = to]
    /\ out' = <<Gesture(Stream[state], "Moved", 0)>>
    /\ UNCHANGED <<state, history>>

\* An event of a touch that is not the one being recognized.
NotRecognized(p) ==
    /\ state = "Idle" \/ down[p] # touch.id
    /\ out' = <<>>
    /\ UNCHANGED <<state, touch, history>>

Recognized(p) == state # "Idle" /\ down[p] = touch.id

Moved(p, to, predicted) ==
    /\ down[p] # 0
    /\ position' = [position EXCEPT ![p] = to]
    /\ \/ NotRecognized(p)
       \/ /\ Recognized(p)
          /\ \/ PanBegins(to, predicted)
             \/ StaysPending(to)
             \/ Pans(to, predicted)
             \/ Drags(to)
    /\ UNCHANGED <<down, nextId, momentum, capture>>
    /\ Timer(FALSE, state', touch')
    /\ ScheduleTick

-----------------------------------------------------------------------------
(* TouchPhase::Ended and TouchPhase::Cancelled.                            *)

Taps ==
    /\ state = "Pending"
    /\ out' = <<Gesture("Tap", "Ended", 0)>>
    /\ UNCHANGED <<momentum, history>>

\* Mutant: a fling starts at the beginning of its curve all the same.
PanEndsTwice(at, velocity) ==
    LET release == at - touch.emitted
        overshoot == -(release * velocity)
        folds == velocity # 0 /\ overshoot > 0 /\ overshoot < FlingTotal
        delta == IF folds THEN 0 ELSE release
    IN /\ state = "Panning"
       /\ touch.age > StopGap \/ touch.samples < 2 => velocity = 0
       /\ momentum' = IF velocity = 0 THEN momentum
                      ELSE [id |-> touch.id, direction |-> velocity, elapsed |-> 0,
                            emitted |-> 0]
       /\ out' = <<Scroll("Ended", delta)>>
       /\ scrolled' = scrolled + delta
       /\ expected' = at + velocity * FlingTotal
       /\ settled' = TRUE

\* The release goes to where the finger is; what a prediction was ahead goes into the fling if
\* there is one that goes further. Nothing flings if the finger had stopped.
PanEnds(at, velocity) ==
    LET release == at - touch.emitted
        overshoot == -(release * velocity)
        folds == velocity # 0 /\ overshoot > 0 /\ overshoot < FlingTotal
        delta == IF folds THEN 0 ELSE release
    IN /\ state = "Panning"
       /\ touch.age > StopGap \/ touch.samples < 2 => velocity = 0
       /\ momentum' = IF velocity = 0 THEN momentum
                      ELSE [id |-> touch.id, direction |-> velocity, elapsed |-> 0,
                            emitted |-> IF folds THEN overshoot ELSE 0]
       /\ out' = <<Scroll("Ended", delta)>>
       /\ scrolled' = scrolled + delta
       /\ expected' = at + velocity * FlingTotal
       /\ settled' = TRUE

DragEnds(phase) ==
    /\ state \in DOMAIN Stream
    /\ out' = <<Gesture(Stream[state], phase, 0)>>
    /\ UNCHANGED <<momentum, history>>

EndCapture == capture' = IF state = "LongPressing" /\ state' = "Idle" THEN FALSE ELSE capture

Lift(p) ==
    /\ down[p] # 0
    /\ down' = [down EXCEPT ![p] = 0]
    /\ position' = [position EXCEPT ![p] = 0]
    /\ UNCHANGED nextId

Resolved == state' = "Idle" /\ touch' = NoTouch

Ended(p, at, velocity) ==
    /\ Lift(p)
    /\ \/ NotRecognized(p) /\ UNCHANGED momentum
       \/ /\ Recognized(p)
          /\ Taps \/ PanEnds(at, velocity) \/ DragEnds("Ended")
          /\ Resolved
    /\ EndCapture
    /\ Timer(FALSE, state', touch')
    /\ ScheduleTick

CancelPending ==
    /\ state = "Pending"
    /\ out' = <<>>
    /\ UNCHANGED <<momentum, history>>

CancelPan ==
    /\ state = "Panning"
    /\ out' = <<Scroll("Cancelled", 0)>>
    /\ scrolled' = 0
    /\ settled' = FALSE
    /\ UNCHANGED <<momentum, expected>>

Cancelled(p) ==
    /\ Lift(p)
    /\ \/ NotRecognized(p) /\ UNCHANGED momentum
       \/ /\ Recognized(p)
          /\ CancelPending \/ CancelPan \/ DragEnds("Cancelled")
          /\ Resolved
    /\ EndCapture
    /\ Timer(FALSE, state', touch')
    /\ ScheduleTick

-----------------------------------------------------------------------------
(* The timer of the long press and the frames of the fling.                *)

\* The timer fires: a long press is offered, which a listener may claim and capture.
LongPressTimer ==
    /\ timer # None
    /\ timer.left = 0
    /\ timer' = None
    /\ \/ /\ pending_long_press(state, touch)
          /\ touch.id = timer.id
          /\ touch' = [touch EXCEPT !.longPressOffered = TRUE]
          /\ out' = <<Gesture("LongPress", "Started", 0)>>
          /\ \E claimed \in BOOLEAN, captured \in BOOLEAN :
                /\ state' = IF claimed THEN "LongPressing" ELSE "Pending"
                /\ capture' = (claimed /\ captured)
       \/ /\ ~(pending_long_press(state, touch) /\ touch.id = timer.id)
          /\ out' = <<>>
          /\ UNCHANGED <<state, touch, capture>>
    /\ UNCHANGED <<down, nextId, position, momentum, ticks, history>>

\* The callbacks of a frame: the first one moves the fling on, the others find nothing to add.
Frame ==
    LET distance == fling_distance(momentum.elapsed)
        step == Greatest(distance - momentum.emitted, 0)
        over == momentum.elapsed >= FlingDuration
    IN /\ ticks > 0
       /\ \/ /\ momentum = None
             /\ ticks' = 0
             /\ out' = <<>>
             /\ UNCHANGED <<momentum, history>>
          \/ /\ momentum # None
             /\ momentum' = IF over THEN None
                            ELSE [momentum EXCEPT !.emitted = Greatest(@, distance)]
             /\ ticks' = IF over THEN 0 ELSE ticks
             /\ out' = <<Scroll(IF over THEN "Ended" ELSE "Moved", momentum.direction * step)>>
             /\ scrolled' = scrolled + momentum.direction * step
             /\ UNCHANGED <<expected, settled>>
       /\ UNCHANGED <<down, nextId, position, state, touch, timer, capture>>

Tick ==
    /\ touch' = IF state = "Idle" THEN touch
                ELSE [touch EXCEPT !.age = Least(@ + 1, StopGap + 1),
                                   !.held = Least(@ + 1, LongPress)]
    /\ timer' = IF timer = None THEN None ELSE [timer EXCEPT !.left = Greatest(@ - 1, 0)]
    /\ momentum' = IF momentum = None THEN None
                   ELSE [momentum EXCEPT !.elapsed = Least(@ + 1, FlingDuration)]
    /\ out' = <<>>
    /\ UNCHANGED <<down, nextId, position, state, capture, ticks, history>>

Near(n) == {n - 1, n, n + 1}

Next ==
    \/ \E p \in Pointers :
        \/ Started(p)
        \/ \E to \in -MaxPosition..MaxPosition : \E predicted \in Near(to) : Moved(p, to, predicted)
        \/ \E at \in Near(position[p]), velocity \in {-1, 0, 1} : Ended(p, at, velocity)
        \/ Cancelled(p)
    \/ LongPressTimer
    \/ Frame
    \/ Tick

Spec == Init /\ [][Next]_vars

-----------------------------------------------------------------------------
(* Properties; those of a step are stated of the step.                     *)

TypeOK ==
    /\ state \in {"Idle", "Pending", "Panning"} \cup DOMAIN Stream
    /\ (state = "Idle") = (touch = NoTouch)
    /\ ticks \in 0..2
    /\ Len(out) <= 2

\* The recognizer follows a finger that is on the screen: whatever the order in which touches
\* begin, end and are cancelled, it is never left with one that is gone and deaf to the next
\* ("additional touches are ignored while one is being recognized").
RecognizedIsDown == state # "Idle" => \E p \in Pointers : down[p] = touch.id

\* A fling has a callback among those of the next frame, and no touch is recognized meanwhile
\* (schedule_touch_momentum_tick).
FlingIsDriven == momentum # None => ticks > 0 /\ state = "Idle"

\* A touch that can still become a long press has its timer, which fires no later than the
\* touch's own deadline, also when other touches have come and gone (schedule_long_press_timer).
PendingIsTimed ==
    pending_long_press(state, touch) => timer.id = touch.id /\ timer.left <= LongPress - touch.held

\* The window has a long press capture only while the long press goes on (long_press_capture).
CaptureIsPressed == capture => state = "LongPressing"

\* A pan takes the content exactly where the finger was lifted, and its fling as far again as the
\* curve goes, however wrong the predictions were (emitted_position: "the total scrolled distance
\* always converges to the finger's actual travel").
TravelExact == settled /\ momentum = None => scrolled = expected

\* While a finger pans, the content never moves against its last movement (handle_event_at:
\* "Prediction error must not reverse content while the raw touch still advances"); and a fling
\* never moves back.
NeverReverses ==
    \A i \in DOMAIN out' :
        out'[i].kind = "Scroll" /\ out'[i].phase \in {"Started", "Moved"} =>
            out'[i].delta * (IF state' = "Panning" THEN touch'.moved ELSE momentum.direction) >= 0
=============================================================================
