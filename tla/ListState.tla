----------------------------- MODULE ListState -----------------------------
(***************************************************************************)
(* The list element (gpui/src/elements/list.rs): items of heights that are *)
(* known only once they were rendered, a logical scroll position that      *)
(* splices and remeasurements move or annotate between two layouts, tail   *)
(* following, and a layout that measures what it needs and corrects the    *)
(* position.                                                               *)
(*                                                                         *)
(* The sum tree is the sequence of its items. The list has no padding, its *)
(* size comes from outside and only what is visible is measured. Heights   *)
(* are whole numbers of a unit larger than a pixel, so the tolerance of a  *)
(* pixel at the end of the list is none; indices are those of the code.    *)
(***************************************************************************)
EXTENDS Integers, Sequences, FiniteSets

CONSTANTS
    MaxItems,    \* bound on the number of items
    Heights,     \* heights of an item
    Viewports,   \* heights of the list
    Overdraw,    \* overdraw
    MaxScroll,   \* bound on the distance scrolled before a layout
    Scrollbar,   \* offsets a scrollbar sets, empty if there is none
    Bottom       \* whether alignment is ListAlignment::Bottom

None == [ix |-> -1, offset |-> 0]
NoRequest == [ix |-> -1, margin |-> 0]

VARIABLES
    items,      \* each with its height when rendered, and what is known of it
    top,        \* logical_scroll_top
    pending,    \* pending_scroll
    follow,     \* follow_state: "Normal", "Following" or "Stopped"
    dropping,   \* reset
    dragged,    \* scrollbar_drag_start_height, -1 if there is none
    viewport,   \* height of last_layout_bounds, 0 if there is none
    painted,    \* scroll_top of the last layout, which the scroll listener has
    scrolled,   \* accumulated_scroll_delta of that listener
    asked,      \* the position that was set or moved last and that no layout has shown yet
    rebased,    \* whether the pending adjustment was moved to it
    revealed,   \* the item that asked for autoscroll in the last step, and the margin above it
    layout      \* whether the last step was a layout

vars == <<items, top, pending, follow, dropping, dragged, viewport, painted, scrolled, asked, rebased,
          revealed, layout>>

-----------------------------------------------------------------------------
(* Items.                                                                  *)

NewItem(h) == [height |-> h, known |-> "no", hint |-> 0]
Measured(item) == [item EXCEPT !.known = "measured", !.hint = 0]

\* ListItem::size_hint, 0 if there is none; the height in an item's summary.
size_hint(item) == IF item.known = "measured" THEN item.height ELSE item.hint

Unmeasured(item) == [item EXCEPT !.known = "no", !.hint = size_hint(item)]

\* Sum of a height over the first n items.
Sum(F(_), its, n) ==
    LET s[i \in 0..n] == IF i = 0 THEN 0 ELSE s[i - 1] + F(its[i]) IN s[n]

Above(its, n) == Sum(size_hint, its, n)
Total(its) == Above(its, Len(its))

\* The rendered heights, which only the layout can see.
Height(item) == item.height
Rendered(its, n) == Sum(Height, its, n)

\* The item at a height, Bias::Right and Bias::Left.
SeekRight(its, y) == Cardinality({i \in 1..Len(its) : Above(its, i) <= y})
SeekLeft(its, y) == Cardinality({i \in 1..Len(its) : Above(its, i) < y})

At(ix, offset) == [ix |-> ix, offset |-> offset]
Least(a, b) == IF a < b THEN a ELSE b
Greatest(a, b) == IF a < b THEN b ELSE a
Maximum(S) == CHOOSE m \in S : \A n \in S : n <= m

\* StateInner::logical_scroll_top
logical_scroll_top(t, its) ==
    IF t # None THEN t ELSE IF Bottom THEN At(Len(its), 0) ELSE At(0, 0)

\* StateInner::scroll_top
scroll_top(t, its) == Above(its, t.ix) + t.offset

Init ==
    /\ items \in UNION {[1..n -> {NewItem(h) : h \in Heights}] : n \in 0..MaxItems}
    /\ top = None
    /\ pending = [kind |-> "none"]
    /\ follow = "Normal"
    /\ dropping = FALSE
    /\ dragged = -1
    /\ viewport = 0
    /\ painted = None
    /\ scrolled = 0
    /\ asked = None
    /\ rebased = FALSE
    /\ revealed = NoRequest
    /\ layout = FALSE

NoPending == [kind |-> "none"]
Absolute(t) == [kind |-> "absolute", ix |-> t.ix, offset |-> t.offset]
Proportional(t, height) == [kind |-> "fraction", ix |-> t.ix, offset |-> Least(t.offset, height), of |-> height]

stop_following == follow' = IF follow = "Following" THEN "Stopped" ELSE follow

Step == layout' = FALSE /\ revealed' = NoRequest
NotAsked == asked' = None /\ rebased' = FALSE

-----------------------------------------------------------------------------
(* What the view does with its list.                                       *)

\* Where a splice moves a position: with its item, or to the start of what replaces it.
Moved(t, start, end, new) ==
    IF t = None THEN None
    ELSE IF start <= t.ix /\ t.ix < end THEN At(start, 0)
    ELSE IF end <= t.ix THEN At(t.ix - (end - start) + Len(new), t.offset)
    ELSE t

\* splice_focusable with at most one new item. What is pending keeps its index.
Splice(start, end, new) ==
    LET count == Len(items) - (end - start) + Len(new)
    IN /\ count <= MaxItems
       /\ items' = SubSeq(items, 1, start) \o new \o SubSeq(items, end + 1, Len(items))
       /\ top' = Moved(top, start, end, new)
       /\ asked' = Moved(top, start, end, new)
       /\ rebased' = FALSE
       /\ Step
       /\ UNCHANGED <<pending, follow, dropping, dragged, viewport, painted, scrolled>>

\* reset: also splices everything.
Reset(new) ==
    /\ items' = new
    /\ top' = None
    /\ pending' = NoPending
    /\ dropping' = TRUE
    /\ dragged' = -1
    /\ NotAsked
    /\ Step
    /\ UNCHANGED <<follow, viewport, painted, scrolled>>

\* remeasure_items of an item that has a new height.
RemeasureItem(i, height) ==
    /\ items' = [items EXCEPT ![i] = [Unmeasured(@) EXCEPT !.height = height]]
    /\ pending' = IF top # None /\ top.ix = i - 1 THEN Absolute(top) ELSE pending
    /\ Step
    /\ UNCHANGED <<top, follow, dropping, dragged, viewport, painted, scrolled, asked, rebased>>

\* remeasure of all, when one of them has a new height.
Remeasure(i, height) ==
    LET first == IF top # None /\ top.ix < Len(items) THEN items[top.ix + 1] ELSE NewItem(0)
    IN /\ items' = [[j \in DOMAIN items |-> Unmeasured(items[j])] EXCEPT ![i].height = height]
       /\ pending' = IF first.known = "measured"
                     THEN IF first.height > 0 THEN Proportional(top, first.height) ELSE Proportional(At(top.ix, 0), 1)
                     ELSE pending
       /\ NotAsked
       /\ Step
       /\ UNCHANGED <<top, follow, dropping, dragged, viewport, painted, scrolled>>

\* Mutant: a scroll leaves the adjustment where it was.
rebase_nothing(t) == UNCHANGED pending

\* rebase_pending_scroll: a new position takes the adjustment with it.
rebase_pending_scroll(t) ==
    pending' = IF pending = NoPending \/ t.ix >= Len(items) THEN NoPending
               ELSE IF pending.kind = "absolute" THEN Absolute(t)
               ELSE IF size_hint(items[t.ix + 1]) > 0
                    THEN Proportional(t, size_hint(items[t.ix + 1]))
               ELSE NoPending

\* A position is set, and the pending adjustment moved to it.
SetTop(t) ==
    /\ rebase_pending_scroll(t)
    /\ top' = t
    /\ asked' = IF pending'.kind = "fraction" THEN None ELSE t
    /\ rebased' = TRUE

\* scroll_by
ScrollBy(distance) ==
    LET from == scroll_top(logical_scroll_top(top, items), items)
        y == Greatest(from + distance, 0)
        ix == SeekRight(items, y)
    IN /\ y - Total(items) <= MaxScroll
       /\ IF distance < 0 THEN stop_following ELSE UNCHANGED follow
       /\ SetTop(At(ix, y - Above(items, ix)))
       /\ Step
       /\ UNCHANGED <<items, dropping, dragged, viewport, painted, scrolled>>

\* scroll_to_end
ScrollToEnd ==
    /\ pending' = NoPending
    /\ top' = At(Len(items), 0)
    /\ NotAsked
    /\ Step
    /\ UNCHANGED <<items, follow, dropping, dragged, viewport, painted, scrolled>>

\* set_follow_mode
SetFollowMode(mode) ==
    /\ follow' = mode
    /\ top' = IF mode = "Normal" THEN top ELSE At(Len(items), 0)
    /\ NotAsked
    /\ Step
    /\ UNCHANGED <<items, pending, dropping, dragged, viewport, painted, scrolled>>

\* pause_following_tail: the list freezes at the position that the last layout gave it.
PauseFollowingTail ==
    /\ stop_following
    /\ asked' = IF follow = "Following" /\ top = painted THEN top ELSE asked
    /\ rebased' = IF follow = "Following" /\ top = painted THEN FALSE ELSE rebased
    /\ Step
    /\ UNCHANGED <<items, top, pending, dropping, dragged, viewport, painted, scrolled>>

\* scroll_to
ScrollTo(t) ==
    LET to == IF t.ix >= Len(items) THEN At(Len(items), 0) ELSE t
    IN /\ IF to.ix < Len(items) THEN stop_following ELSE UNCHANGED follow
       /\ SetTop(to)
       /\ Step
       /\ UNCHANGED <<items, dropping, dragged, viewport, painted, scrolled>>

\* scroll_to_reveal_item
ScrollToRevealItem(ix) ==
    LET now == logical_scroll_top(top, items)
        goal == Greatest(Above(items, ix + 1) - viewport, 0)
        start == SeekLeft(items, goal)
        to == IF ix <= now.ix THEN At(ix, 0)
              ELSE IF start >= now.ix THEN At(start, goal - Above(items, start))
              ELSE now
    IN /\ SetTop(to)
       /\ Step
       /\ UNCHANGED <<items, follow, dropping, dragged, viewport, painted, scrolled>>

ScrollbarDragStarted ==
    /\ Scrollbar # {}
    /\ dragged' = Total(items)
    /\ Step
    /\ UNCHANGED <<items, top, pending, follow, dropping, viewport, painted, scrolled, asked, rebased>>

ScrollbarDragEnded ==
    /\ dragged # -1
    /\ dragged' = -1
    /\ Step
    /\ UNCHANGED <<items, top, pending, follow, dropping, viewport, painted, scrolled, asked, rebased>>

\* set_offset_from_scrollbar
SetOffsetFromScrollbar(y) ==
    LET content == IF dragged = -1 THEN Total(items) ELSE dragged
        max == Greatest(content - viewport, 0)
        new == Least(y, max)
        ix == SeekRight(items, new)
    IN /\ viewport # 0
       /\ \/ /\ max > 0 /\ new >= max /\ follow # "Normal"
             /\ follow' = "Following"
             /\ pending' = NoPending
             /\ top' = At(Len(items), 0)
             /\ NotAsked
          \/ /\ ~(max > 0 /\ new >= max /\ follow # "Normal")
             /\ stop_following
             /\ IF Bottom /\ new = max
                THEN pending' = NoPending /\ top' = None /\ NotAsked
                ELSE SetTop(At(ix, new - Above(items, ix)))
       /\ Step
       /\ UNCHANGED <<items, dropping, dragged, viewport, painted, scrolled>>

-----------------------------------------------------------------------------
(* Scroll events and layout.                                               *)

\* ScrollDelta::coalesce
coalesce(a, b) == IF (a >= 0) = (b >= 0) THEN a + b ELSE b

\* The scroll listener of the last paint: it scrolls from the position painted then, by all that
\* was scrolled since. A positive delta scrolls up.
Scroll(delta) ==
    LET by_ == coalesce(scrolled, delta)
        max == Greatest(Total(items) - viewport, 0)
        new == Least(Greatest(scroll_top(At(Least(painted.ix, Len(items)), painted.offset), items) - by_, 0), max)
        ix == SeekRight(items, new)
    IN /\ viewport # 0
       /\ by_ \in -MaxScroll..MaxScroll
       /\ scrolled' = by_
       /\ \/ /\ dropping
             /\ UNCHANGED <<pending, top, follow, asked, rebased>>
          \/ /\ ~dropping
             /\ IF Bottom /\ new = max
                THEN pending' = NoPending /\ top' = None /\ NotAsked
                ELSE SetTop(At(ix, new - Above(items, ix)))
             /\ IF by_ > 0 THEN stop_following ELSE UNCHANGED follow
       /\ Step
       /\ UNCHANGED <<items, dropping, dragged, viewport, painted>>

\* Where the layout begins: at the end if it follows the tail.
LayoutFrom(t, f) == IF f = "Following" THEN At(Len(items), 0) ELSE logical_scroll_top(t, items)

\* The pending adjustment, applied to the item at the top.
Adjusted(its, from, p) ==
    IF from.ix >= Len(its) \/ p = NoPending THEN from
    ELSE IF p.ix # from.ix THEN from
    ELSE At(from.ix, IF p.kind = "absolute" THEN Least(p.offset, its[from.ix + 1].height)
                     ELSE (p.offset * its[from.ix + 1].height) \div p.of)

\* The end of what is rendered from a position on: down to the trailing overdraw.
TrailingEnd(its, at, available) ==
    at.ix + Cardinality({j \in at.ix..(Len(its) - 1) :
                \/ j = at.ix
                \/ Rendered(its, j) - Rendered(its, at.ix) - at.offset < available + Overdraw})

\* Whether the items from a position to the last one rendered do not fill the list.
Short(its, at, last, available) ==
    Rendered(its, last) - Rendered(its, at.ix) - at.offset < available

\* The first item shown when they do not: as many above them as it takes.
FillUpward(its, at, last, available) ==
    IF Rendered(its, last) - Rendered(its, at.ix) >= available THEN at.ix
    ELSE Maximum({0} \cup {m \in 0..at.ix : Rendered(its, last) - Rendered(its, m) >= available})

\* The scroll position of which the items fill the list, if it has as many.
Shown(its, at, last, available) ==
    LET first == FillUpward(its, at, last, available)
        excess == Rendered(its, last) - Rendered(its, first) - available
    IN IF Short(its, at, last, available)
       THEN At(first, IF Bottom THEN excess ELSE Greatest(excess, 0))
       ELSE at

\* The first item rendered: up to the leading overdraw.
LeadingStart(its, shown) ==
    IF shown.offset >= Overdraw THEN shown.ix
    ELSE Maximum({0} \cup {m \in 0..shown.ix :
                 shown.offset + Rendered(its, shown.ix) - Rendered(its, m) >= Overdraw})

\* Whether the list has returned to its end, as far as its items are measured.
AtEnd(its, shown, available) == scroll_top(shown, its) + available >= Total(its)

\* The layout at an adjusted position.
layout_at(its, t, p, f, available, at) ==
    LET last == TrailingEnd(its, at, available)
        shown == Shown(its, at, last, available)
        lo == LeadingStart(its, shown)
        new == [j \in DOMAIN its |-> IF lo < j /\ j <= last THEN Measured(its[j]) ELSE its[j]]
    IN [items |-> new, shown |-> shown,
        kept |-> IF Short(its, at, last, available) THEN IF Bottom THEN None ELSE shown
                 ELSE IF f = "Following" \/ at # LayoutFrom(t, f) \/ t # None THEN shown
                 ELSE None,
        pending |-> IF at.ix < Len(its) THEN NoPending ELSE p,
        follow |-> IF f = "Stopped" /\ AtEnd(new, shown, available) THEN "Following" ELSE f]

\* layout_items: the items that are measured, the scroll position that is shown and the one kept.
layout_items(its, t, p, f, available) ==
    layout_at(its, t, p, f, available, Adjusted(its, LayoutFrom(t, f), p))

\* Where an item is in the viewport.
Place(its, shown, i) == Rendered(its, i) - Rendered(its, shown.ix) - shown.offset

\* prepaint_items: an item that is visible asks to be shown from a to b of it, which lies outside.
Autoscroll(its, shown, i, a, b, available) ==
    LET y == Place(its, shown, i)
        wanted == Rendered(its, i) + a
        room == available - b
        m == Maximum({0} \cup {n \in 0..i : Rendered(its, i) - Rendered(its, n) >= room})
    IN IF y + a < 0
       THEN IF a >= 0 THEN At(i, a)
            ELSE IF wanted < 0 THEN At(0, 0)
            ELSE LET n == Maximum({k \in 0..i : Rendered(its, k) <= wanted})
                 IN At(n, wanted - Rendered(its, n))
       ELSE IF room <= 0 THEN At(i, -room)
       ELSE At(m, Greatest(Rendered(its, i) - Rendered(its, m) - room, 0))

\* What a layout leaves behind.
Painted(l, available, request) ==
    /\ items' = l.items
    /\ top' = l.kept
    /\ pending' = l.pending
    /\ follow' = l.follow
    /\ painted' = l.shown
    /\ dropping' = FALSE
    /\ viewport' = available
    /\ scrolled' = 0
    /\ revealed' = request
    /\ layout' = TRUE
    /\ NotAsked
    /\ UNCHANGED dragged

\* A width that is new leaves nothing measured.
AtWidth(resized) ==
    IF resized \/ viewport = 0 THEN [j \in DOMAIN items |-> NewItem(items[j].height)] ELSE items

\* The list is laid out and painted, with a new width or not.
Paint(available, resized) ==
    Painted(layout_items(AtWidth(resized), top, pending, follow, available), available, NoRequest)

\* An item of a layout asks for more room above it than it has, or for what is below: the list is
\* laid out again from there.
Autoscrolled(l, available, i, margin) ==
    LET y == Place(l.items, l.shown, i)
        a == -margin
        b == l.items[i + 1].height
    IN /\ i >= l.shown.ix /\ y < available
       /\ y + a < 0 \/ y + b > available
       /\ Painted(layout_items(l.items, Autoscroll(l.items, l.shown, i, a, b, available), l.pending,
                               l.follow, available),
                  available, [ix |-> i, margin |-> margin])

\* The same as Paint when an item asks for autoscroll.
PaintAutoscrolled(available, i, margin) ==
    /\ i < Len(items)
    /\ Autoscrolled(layout_items(AtWidth(FALSE), top, pending, follow, available),
                    available, i, margin)

News == {<<>>} \cup {<<NewItem(h)>> : h \in Heights}

Edit ==
    \/ \E start \in 0..Len(items), new \in News :
        \E end \in {start, start + 1} : end <= Len(items) /\ Splice(start, end, new)
    \/ \E new \in News : Reset(new)
    \/ \E i \in DOMAIN items, h \in Heights : RemeasureItem(i, h) \/ Remeasure(i, h)

Position ==
    \/ \E d \in {-1, 1} : ScrollBy(d)
    \/ ScrollToEnd
    \/ \E ix \in 0..Len(items) : \E o \in 0..1 : ScrollTo(At(ix, o))
    \/ \E ix \in 0..(Len(items) - 1) : ScrollToRevealItem(ix)
    \/ \E y \in Scrollbar : SetOffsetFromScrollbar(y)

Following ==
    \/ \E mode \in {"Normal", "Following"} : SetFollowMode(mode)
    \/ PauseFollowingTail

Next ==
    \/ Edit
    \/ Position
    \/ Following
    \/ ScrollbarDragStarted \/ ScrollbarDragEnded
    \/ \E d \in {-1, 1} : Scroll(d)
    \/ \E available \in Viewports, resized \in BOOLEAN : Paint(available, resized)
    \/ \E available \in Viewports, i \in 0..(MaxItems - 1), margin \in 0..1 :
        PaintAutoscrolled(available, i, margin)

Spec == Init /\ [][Next]_vars

-----------------------------------------------------------------------------
(* Properties; those of a step are stated of the step.                     *)

TypeOK ==
    /\ Len(items) <= MaxItems
    /\ top = None \/ (top.ix \in 0..Len(items) /\ top.offset >= 0)
    /\ follow \in {"Normal", "Following", "Stopped"}

Below(t) == Rendered(items, Len(items)) - Rendered(items, t.ix) - t.offset

\* A layout leaves no blank space while there are items that could fill it (layout_items: "If
\* the rendered items do not fill the visible region, then adjust the scroll top upward").
NoBlank ==
    layout => \/ Below(painted) >= viewport /\ painted.offset >= 0
              \/ painted.ix = 0 /\ painted.offset <= 0

\* A list that follows its tail shows the end of the last item after every layout, whatever was
\* inserted or remeasured (is_following_tail: "snapping to the end on each layout").
TailShown == layout' /\ follow = "Following" => (Below(painted) <= viewport)'

\* Following resumes only at the true end of the list: items that were not measured yet do not
\* make the end seem near (layout_items).
ResumesAtEnd ==
    layout' /\ follow = "Stopped" /\ follow' = "Following" => (Below(painted) <= viewport)'

Clamped(t) == At(t.ix, Least(t.offset, items[t.ix + 1].height))

\* An adjustment from before the splice or the pause which names, by its index, the item at the top,
\* and another position in it: splice_focusable and set_follow_mode do not move what is pending.
Outdated ==
    ~rebased /\ pending # NoPending /\ pending.ix = asked.ix /\ pending # Absolute(asked)

\* A layout shows the position that a scroll set, also if items were remeasured before (scroll:
\* "re-anchor the pending adjustment so it doesn't revert this scroll on the next layout"), and the
\* one that a splice moved with its item or that a pause of tail following froze, unless an outdated
\* adjustment is pending.
ScrollKept ==
    layout' /\ asked # None /\ ~Outdated /\ follow # "Following" /\ revealed' = NoRequest =>
        (asked.ix < Len(items) /\ Below(asked) >= viewport' => painted' \in {asked, Clamped(asked)})

\* An adjustment that set_follow_mode left behind when it moved the list to its end.
Leftover == pending # NoPending /\ logical_scroll_top(top, items).ix >= Len(items)

\* An item that asks for autoscroll is visible afterwards with what it wants above it, unless the list follows its tail
\* or applies an adjustment left from before (prepaint_items).
Revealed ==
    revealed' # NoRequest /\ ~Leftover /\ "Following" \notin {follow, follow'} =>
        LET y == Place(items', painted', revealed'.ix)
            h == items'[revealed'.ix + 1].height
            above == Least(revealed'.margin, Rendered(items', revealed'.ix))
        IN h + above <= viewport' => y >= above /\ y + h <= viewport'
=============================================================================
