------------------------------- MODULE MCFrame ------------------------------
(***************************************************************************)
(* What a frame is made of and how long it takes: reuse of the frame       *)
(* before, the order of what is painted, the list, the touches that scroll *)
(* it, and the journal of the foreground thread. Each behaviour is of one  *)
(* part, and the others rest in their initial state.                       *)
(***************************************************************************)
EXTENDS Integers

CONSTANTS Nobody, p1, p2, w1  \* model values

CONSTANT Parts   \* the parts that run, of "panels", "popovers", "top" and so on

VARIABLES
    part,   \* the component that runs
    shape, rev, focus, reuse_rendered, handler, tracked, notified, dirty, refreshing, panic,
    updates,
    items, top, pending, follow, dropping, dragged, viewport, painted, list_scrolled, asked,
    rebased,
    revealed, layout,
    nodes, root, max_leaf, inserted,
    paint_operations, tree, layer_stack, prims, scene_rendered, drawn, frame,
    down, nextId, position, state, touch, momentum, timer, capture, ticks,
    out, touch_scrolled, expected, settled,
    now, runnables, dispatching, ready, turns, writer, sealer, snapshot, journal_dirty, visible,
    closed, profiler, samples, interrupted

reuseVars == <<shape, rev, focus, reuse_rendered, handler, tracked, notified, dirty, refreshing,
               panic, updates>>
listVars == <<items, top, pending, follow, dropping, dragged, viewport, painted, list_scrolled,
              asked, rebased, revealed, layout>>
boundsVars == <<nodes, root, max_leaf, inserted>>
sceneVars == <<paint_operations, tree, layer_stack, prims, scene_rendered, drawn, frame>>
touchVars == <<down, nextId, position, state, touch, momentum, timer,
               capture, ticks, out, touch_scrolled, expected, settled>>
journalVars == <<now, runnables, dispatching, ready, turns, writer, sealer, snapshot,
                 journal_dirty, visible, closed, profiler, samples, interrupted>>

Kid(v, cached, deferred) == [view |-> v, cached |-> cached, deferred |-> deferred, place |-> 0]
Moved(v) == [Kid(v, TRUE, FALSE) EXCEPT !.place = 1]
Shape(kids) == [kids |-> kids, reads |-> {}]
KidA == Kid("a", TRUE, FALSE)
KidB == Kid("b", TRUE, FALSE)

\* The root holds cached panels "a" and "b", or one of them, or moves one; "a" holds "c", cached.
PanelViews == {"root", "a", "b", "c"}
Panels == [v \in PanelViews |->
    CASE v = "root" -> {Shape(<<KidA, KidB>>), Shape(<<KidB>>), Shape(<<Moved("a"), KidB>>)}
      [] v = "a" -> {Shape(<<>>), Shape(<<Kid("c", TRUE, FALSE)>>)}
      [] OTHER -> {Shape(<<>>)}]

\* Panel "a" opens the popover "c", which opens the popover "d"; both are deferred.
PopoverViews == {"root", "a", "b", "c", "d"}
Popovers == [v \in PopoverViews |->
    CASE v = "root" -> {Shape(<<KidB, KidA>>), Shape(<<KidA>>)}
      [] v = "a" -> {Shape(<<>>), Shape(<<Kid("c", FALSE, TRUE)>>)}
      [] v = "c" -> {Shape(<<>>), Shape(<<Kid("d", FALSE, TRUE)>>)}
      [] OTHER -> {Shape(<<>>)}]


Panel == INSTANCE FrameReuse WITH Views <- PanelViews, Root <- "root", Shapes <- Panels,
        Inputs <- {"a", "c"}, MaxUpdates <- 2, rendered <- reuse_rendered

Popover == INSTANCE FrameReuse WITH Views <- PopoverViews, Root <- "root", Shapes <- Popovers,
        Inputs <- {"d"}, MaxUpdates <- 2, rendered <- reuse_rendered

Downward == INSTANCE ListState WITH MaxItems <- 2, Heights <- {1, 2}, Viewports <- {3},
        Overdraw <- 1, MaxScroll <- 1, Scrollbar <- {}, Bottom <- FALSE, scrolled <- list_scrolled

Upward == INSTANCE ListState WITH MaxItems <- 2, Heights <- {2}, Viewports <- {3}, Overdraw <- 1,
        MaxScroll <- 1, Scrollbar <- {}, Bottom <- TRUE, scrolled <- list_scrolled

Dragged == INSTANCE ListState WITH MaxItems <- 1, Heights <- {2}, Viewports <- {1}, Overdraw <- 1,
        MaxScroll <- 1, Scrollbar <- {0, 1}, Bottom <- FALSE, scrolled <- list_scrolled

Wide == INSTANCE BoundsTree WITH MaxChildren <- 3, XCoords <- 0..3, YCoords <- 0..1,
        MaxInserts <- 6

Deep == INSTANCE BoundsTree WITH MaxChildren <- 2, XCoords <- 0..2, YCoords <- 0..2,
        MaxInserts <- 4

Sprite == INSTANCE Scene WITH Plain <- {1}, Sprites <- {2}, Textures <- {1, 2}, TileIds <- {1, 2},
        Coords <- 0..2, MaxOps <- 4, MaxFrames <- 1, rendered <- scene_rendered

Again == INSTANCE Scene WITH Plain <- {1, 2}, Sprites <- {}, Textures <- {}, TileIds <- {},
        Coords <- 0..2, MaxOps <- 3, MaxFrames <- 2, rendered <- scene_rendered

Touch == INSTANCE TouchGestures WITH Pointers <- {p1, p2}, MaxTouches <- 2, MaxPosition <- 2,
        Slop <- 1, LongPress <- 2, StopGap <- 1, FlingDuration <- 2, FlingSpeed <- 1,
        scrolled <- touch_scrolled

Interval == INSTANCE Journal WITH Windows <- {w1}, Floor <- 1, Deadline <- 2, Kinds <- {"draw"},
        Visible <- {TRUE}, Animating <- {FALSE}, Consumer <- TRUE, Lossy <- FALSE, MaxTime <- 2,
        MaxDepth <- 1, MaxReady <- 1, dirty <- journal_dirty

Polls == INSTANCE Journal WITH Windows <- {w1}, Floor <- 1, Deadline <- 1,
        Kinds <- {"poll", "draw"}, Visible <- {TRUE}, Animating <- {FALSE}, Consumer <- TRUE,
        Lossy <- FALSE, MaxTime <- 1, MaxDepth <- 2, MaxReady <- 1, dirty <- journal_dirty

LossyJournal == INSTANCE Journal WITH Windows <- {w1}, Floor <- 1, Deadline <- 2,
        Kinds <- {"action"}, Visible <- {TRUE}, Animating <- {FALSE}, Consumer <- TRUE,
        Lossy <- TRUE, MaxTime <- 2, MaxDepth <- 1, MaxReady <- 0, dirty <- journal_dirty

Sample == INSTANCE Journal WITH Windows <- {w1}, Floor <- 1, Deadline <- 2,
        Kinds <- {"input", "draw"}, Visible <- BOOLEAN, Animating <- BOOLEAN, Consumer <- FALSE,
        Lossy <- FALSE, MaxTime <- 2, MaxDepth <- 1, MaxReady <- 0, dirty <- journal_dirty

ASSUME PartsAssumption ==
    /\ Wide!ConstantsAssumption
    /\ Deep!ConstantsAssumption

vars == <<part, reuseVars, listVars, boundsVars, sceneVars, touchVars, journalVars>>

Init ==
    /\ part \in Parts
    /\ \/ part = "popovers" /\ Popover!Init
       \/ part # "popovers" /\ Panel!Init
    /\ part \notin {"panels", "popovers"} =>
        shape["root"] = Shape(<<KidB>>) /\ shape["a"] = Shape(<<>>)
    /\ \/ part = "bottom" /\ Upward!Init
       \/ part = "dragged" /\ Dragged!Init
       \/ part \notin {"bottom", "dragged"} /\ Downward!Init
    /\ part \notin {"top", "bottom", "dragged"} => items = <<>>
    /\ \/ part = "deep" /\ Deep!Init
       \/ part # "deep" /\ Wide!Init
    /\ \/ part = "replay" /\ Again!Init
       \/ part # "replay" /\ Sprite!Init
    /\ Touch!Init
    /\ \/ part = "polls" /\ Polls!Init
       \/ part = "lossy" /\ LossyJournal!Init
       \/ part = "samples" /\ Sample!Init
       \/ part \notin {"polls", "lossy", "samples"} /\ Interval!Init

Next ==
    \/ part = "panels"   /\ Panel!Next
                         /\ UNCHANGED <<part, listVars, boundsVars, sceneVars, touchVars, journalVars>>
    \/ part = "popovers" /\ Popover!Next
                         /\ UNCHANGED <<part, listVars, boundsVars, sceneVars, touchVars, journalVars>>
    \/ part = "top"      /\ Downward!Next
                         /\ UNCHANGED <<part, reuseVars, boundsVars, sceneVars, touchVars, journalVars>>
    \/ part = "bottom"   /\ Upward!Next
                         /\ UNCHANGED <<part, reuseVars, boundsVars, sceneVars, touchVars, journalVars>>
    \/ part = "dragged"  /\ Dragged!Next
                         /\ UNCHANGED <<part, reuseVars, boundsVars, sceneVars, touchVars, journalVars>>
    \/ part = "wide"     /\ Wide!Next
                         /\ UNCHANGED <<part, reuseVars, listVars, sceneVars, touchVars, journalVars>>
    \/ part = "deep"     /\ Deep!Next
                         /\ UNCHANGED <<part, reuseVars, listVars, sceneVars, touchVars, journalVars>>
    \/ part = "sprites"  /\ Sprite!Next
                         /\ UNCHANGED <<part, reuseVars, listVars, boundsVars, touchVars, journalVars>>
    \/ part = "replay"   /\ Again!Next
                         /\ UNCHANGED <<part, reuseVars, listVars, boundsVars, touchVars, journalVars>>
    \/ part = "touch"    /\ Touch!Next
                         /\ UNCHANGED <<part, reuseVars, listVars, boundsVars, sceneVars, journalVars>>
    \/ part = "intervals"/\ Interval!Next
                         /\ UNCHANGED <<part, reuseVars, listVars, boundsVars, sceneVars, touchVars>>
    \/ part = "polls"    /\ Polls!Next
                         /\ UNCHANGED <<part, reuseVars, listVars, boundsVars, sceneVars, touchVars>>
    \/ part = "lossy"    /\ LossyJournal!Next
                         /\ UNCHANGED <<part, reuseVars, listVars, boundsVars, sceneVars, touchVars>>
    \/ part = "samples"  /\ Sample!Next
                         /\ UNCHANGED <<part, reuseVars, listVars, boundsVars, sceneVars, touchVars>>

Spec == Init /\ [][Next]_vars

-----------------------------------------------------------------------------
(* Properties, each of the part it is about and with its type invariant.   *)

\* Nobody can tell that views were reused: a window with nothing left to draw shows what it would
\* show without caching, keeps the element states of what it shows and gives the platform the
\* input handler of the focus, and every view shown can ask for the next frame.
CacheInvisible ==
    /\ part = "panels" => /\ Panel!CacheInvisible /\ Panel!StatesMatch
                          /\ Panel!HandlerOfFocus /\ Panel!ShownIsTracked
    /\ part = "popovers" => Popover!CacheInvisible

\* Every rectangle gets the order that its definition gives it, one more than the highest it meets,
\* and the nodes of the tree cover what is below them, whatever was split and pruned.
OrderIsLeast ==
    /\ part = "wide" => Wide!OrderIsLeast /\ Wide!Sound
    /\ part = "deep" => Deep!OrderIsLeast /\ Deep!Sound

\* Of two primitives that overlap the later one painted is drawn later, replayed or not; each is
\* drawn once; and what is drawn in one call has one texture.
LaterIsAbove ==
    /\ part = "sprites" => Sprite!LaterIsAbove /\ Sprite!DrawnOnce /\ Sprite!OneCall
    /\ part = "replay" => Again!LaterIsAbove /\ Again!DrawnOnce

\* A pan takes the content where the finger was lifted and its fling as far as the curve goes, never
\* back against the finger; and the recognizer follows a finger that is down, with its timer, its
\* frame callback and its capture.
TravelExact ==
    [][part = "touch" => /\ Touch!TypeOK' /\ Touch!TravelExact' /\ Touch!RecognizedIsDown'
                         /\ Touch!FlingIsDriven' /\ Touch!PendingIsTimed' /\ Touch!CaptureIsPressed'
                         /\ Touch!NeverReverses]_touchVars

\* A layout does not revert the scroll before it; a list that follows its tail shows it, resumes
\* only there, reveals what asks for it, and leaves no blank while items could fill it.
ScrollKept ==
    [][/\ part = "top" => /\ Downward!TypeOK' /\ Downward!ScrollKept /\ Downward!TailShown
                          /\ Downward!ResumesAtEnd /\ Downward!Revealed /\ Downward!NoBlank'
       /\ part = "bottom" => /\ Upward!TypeOK' /\ Upward!ScrollKept /\ Upward!TailShown
                             /\ Upward!ResumesAtEnd /\ Upward!Revealed /\ Upward!NoBlank'
       /\ part = "dragged" => /\ Dragged!TypeOK' /\ Dragged!ScrollKept /\ Dragged!TailShown
                              /\ Dragged!ResumesAtEnd /\ Dragged!Revealed
                              /\ Dragged!NoBlank']_listVars

\* An interval holds the work that ended in it and no sleep, intervals follow one another, the
\* count of runnables is exact, and no latency is measured across a sleep or a hidden window.
WorkEndsInInterval ==
    [][/\ part = "intervals" => /\ Interval!TypeOK' /\ Interval!WorkEndsInInterval'
                                /\ Interval!SleepNotMeasured' /\ Interval!CounterExact'
                                /\ Interval!IntervalsInOrder
       /\ part = "polls" => /\ Polls!TypeOK' /\ Polls!WorkEndsInInterval'
                            /\ Polls!SleepNotMeasured' /\ Polls!CounterExact'
                            /\ Polls!IntervalsInOrder
       /\ part = "lossy" => /\ LossyJournal!TypeOK' /\ LossyJournal!WorkEndsInInterval'
                            /\ LossyJournal!SleepNotMeasured' /\ LossyJournal!IntervalsInOrder
       /\ part = "samples" => Sample!TypeOK' /\ Sample!SamplesUninterrupted]_journalVars
=============================================================================
