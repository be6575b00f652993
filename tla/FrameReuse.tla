----------------------------- MODULE FrameReuse -----------------------------
(***************************************************************************)
(* Cached views (gpui/src/view.rs) and the two frames of a window they are *)
(* reused between (gpui/src/window.rs): a view that was neither notified   *)
(* nor moved is not rendered again, and what it left in the lists of the   *)
(* last frame is copied into the next one by the ranges of indices that    *)
(* were noted when it was drawn.                                           *)
(*                                                                         *)
(* The lists of a frame that are sliced alike are one here: "pre" for      *)
(* hitboxes and tooltips, "paint" for scene, mouse listeners, cursor       *)
(* styles and tab stops, whose entries move and leave an empty slot        *)
(* behind. Deferred draws have equal priority. What a view renders is its  *)
(* shape: the entities it reads and the views it holds, each cached or     *)
(* not, deferred or not; "rev" is the rest of its content. A range that    *)
(* does not fit is a panic. The hitboxes of window controls, which reuse   *)
(* does not copy (window_control_hitboxes), are left out.                  *)
(***************************************************************************)
EXTENDS Integers, FiniteSets, SequencesExt

CONSTANTS Views, Root, Nobody,
          Shapes,     \* the shapes a view can take
          Inputs,     \* the views with a text input
          MaxUpdates  \* bound on the changes between two frames

VARIABLES
    shape, rev,   \* what each view would render
    focus,        \* the view whose text input has the focus
    rendered,     \* rendered_frame
    handler,      \* the input handler the platform window holds
    tracked,      \* the entities accessed in the last frame: tracked_entities
    notified,     \* WindowInvalidator.dirty_views
    dirty,        \* WindowInvalidator.dirty
    refreshing,   \* Window.refreshing
    panic,
    updates       \* changes since the last frame, if there is to be another

app == <<shape, rev, focus>>
vars == <<app, rendered, handler, tracked, notified, dirty, refreshing, panic, updates>>

EmptyFrame == [pre |-> <<>>, defs |-> <<>>, nodes |-> <<>>, acc |-> <<>>, paint |-> <<>>,
               handlers |-> <<>>, states |-> [k \in {} |-> Nobody]]

Token(v) == <<v, rev[v]>>
Kids(v) == shape[v].kids

\* The entities that rendering a view accesses: its own, those it reads, and those of the views in
\* it that are not cached, which are rendered with it for its layout.
RECURSIVE RenderReads(_)
RenderReads(v) ==
    {v} \cup shape[v].reads
        \cup UNION {RenderReads(k.view) : k \in {k \in ToSet(Kids(v)) : ~k.cached}}

-----------------------------------------------------------------------------
(* The frame under construction. "w" is the window while it draws: the     *)
(* next frame, the rendered one, the dirty views, the views rendered       *)
(* afresh in this frame, the entities accessed, the node that is active.   *)

prepaint_index(w) == [pre |-> Len(w.new.pre), defs |-> Len(w.new.defs),
                      nodes |-> Len(w.new.nodes), acc |-> Len(w.new.acc)]

paint_index(w) == [paint |-> Len(w.new.paint), handlers |-> Len(w.new.handlers),
                   acc |-> Len(w.new.acc)]

NoRange == [from |-> [paint |-> 0, handlers |-> 0, acc |-> 0],
            to |-> [paint |-> 0, handlers |-> 0, acc |-> 0]]

Slice(s, from, to) == SubSeq(s, from + 1, to)

\* What is moved out of a list of the rendered frame leaves nothing behind.
Emptied(s, from, to) == [i \in DOMAIN s |-> IF i \in from + 1 .. to THEN [s[i] EXCEPT !.has = FALSE]
                                            ELSE s[i]]

Fits(range, lens) ==
    \A x \in DOMAIN lens : range.from[x] <= range.to[x] /\ range.to[x] <= lens[x]

\* Every element has a node: DispatchTree::push_node and, for a view, set_view_id.
PushNode(w, v) ==
    [w EXCEPT !.new.nodes = Append(@, [view |-> v, parent |-> w.active, has |-> TRUE]),
              !.active = Len(w.new.nodes) + 1]

\* DispatchTree::reuse_subtree: the nodes are moved and keep their place among each other; those at
\* the top hang on the node that is active.
reuse_subtree(w, from, to) ==
    [i \in 1 .. to - from |->
        LET n == w.old.nodes[from + i]
        IN [n EXCEPT !.parent = IF @ \in from + 1 .. to THEN @ - from + Len(w.new.nodes) ELSE w.active]]

\* A deferred draw that is reused: ReusedSubtree::refresh_node_id
Refreshed(range, w, d) ==
    [d EXCEPT !.fresh = FALSE, !.parent = @ - range.from.nodes + Len(w.new.nodes)]

reuse_prepaint(w, range) ==
    LET f == range.from
        t == range.to
        defs == Slice(w.old.defs, f.defs, t.defs)
    IN IF /\ Fits(range, [pre |-> Len(w.old.pre), defs |-> Len(w.old.defs),
                          nodes |-> Len(w.old.nodes), acc |-> Len(w.old.acc)])
          /\ \A i \in DOMAIN defs : defs[i].parent \in f.nodes + 1 .. t.nodes
       THEN [w EXCEPT !.new.pre = @ \o Slice(w.old.pre, f.pre, t.pre),
                      !.new.acc = @ \o Slice(w.old.acc, f.acc, t.acc),
                      !.new.nodes = @ \o reuse_subtree(w, f.nodes, t.nodes),
                      !.old.nodes = Emptied(@, f.nodes, t.nodes),
                      !.new.defs = @ \o [i \in DOMAIN defs |-> Refreshed(range, w, defs[i])]]
       ELSE [w EXCEPT !.panic = TRUE]

reuse_paint(w, range) ==
    LET f == range.from
        t == range.to
    IN IF Fits(range, [paint |-> Len(w.old.paint), handlers |-> Len(w.old.handlers),
                       acc |-> Len(w.old.acc)])
       THEN [w EXCEPT !.new.paint = @ \o Slice(w.old.paint, f.paint, t.paint),
                      !.old.paint = Emptied(@, f.paint, t.paint),
                      !.new.handlers = @ \o Slice(w.old.handlers, f.handlers, t.handlers),
                      !.old.handlers = [i \in DOMAIN @ |-> IF i \in f.handlers + 1 .. t.handlers
                                                           THEN Nobody ELSE @[i]],
                      !.new.acc = @ \o Slice(w.old.acc, f.acc, t.acc)]
       ELSE [w EXCEPT !.panic = TRUE]

\* take_element_state: the state is that of this frame, or else that of the last one.
StateOf(w, key) ==
    IF key \in DOMAIN w.new.states THEN w.new.states[key]
    ELSE IF key \in DOMAIN w.old.states THEN w.old.states[key] ELSE Nobody

Without(f, key) == [k \in DOMAIN f \ {key} |-> f[k]]
With(f, key, x) == [k \in DOMAIN f \cup {key} |-> IF k = key THEN x ELSE f[k]]

TakeState(w, key) ==
    [w EXCEPT !.new.acc = Append(@, key),
              !.new.states = Without(@, key),
              !.old.states = IF key \in DOMAIN w.new.states THEN @ ELSE Without(@, key)]

-----------------------------------------------------------------------------
(* Prepaint.                                                               *)

\* Window::defer_draw
defer_draw(w, kid, path) ==
    [w EXCEPT !.new.defs = Append(@, [kid |-> kid, path |-> path, parent |-> w.active, fresh |-> TRUE,
                                      pre |-> [from |-> prepaint_index(w), to |-> prepaint_index(w)],
                                      paint |-> NoRange])]

\* The condition on which prepaint_view reuses what the last frame has.
Unchanged(w, st, kid) ==
    /\ st # Nobody
    /\ st.place = kid.place
    /\ kid.view \notin w.dirty
    /\ ~w.refreshing

Reused(st, from, to) == [st EXCEPT !.pre = [from |-> from, to |-> to]]

AccessedOnReuse(w, st) == w.accessed \cup st.accessed

\* A view that is reused: the ranges of this frame are noted.
Hit(w, st, key, x) ==
    [x EXCEPT !.accessed = AccessedOnReuse(w, st),
              !.new.states = With(@, key, Reused(st, prepaint_index(w), prepaint_index(x)))]

\* A view that was rendered: what was accessed meanwhile is what it accesses.
Miss(w, kid, key, x) ==
    [x EXCEPT !.refreshing = w.refreshing,
              !.fresh = @ \cup {key},
              !.new.states = With(@, key,
                  [pre |-> [from |-> prepaint_index(w), to |-> prepaint_index(x)],
                   paint |-> NoRange, place |-> kid.place,
                   accessed |-> x.accessed \ w.accessed])]

RECURSIVE prepaint_view(_, _, _)

\* The element a view rendered and what is in it.
PrepaintElement(w, v, key) ==
    FoldLeft(LAMBDA x, k : IF k.deferred THEN defer_draw(x, k, key) ELSE prepaint_view(x, k, key),
             [PushNode(w, Nobody) EXCEPT !.new.pre = Append(@, Token(v))], Kids(v))

PrepaintCached(w, st, kid, key) ==
    IF Unchanged(w, st, kid) THEN Hit(w, st, key, reuse_prepaint(w, st.pre))
    ELSE Miss(w, kid, key, PrepaintElement([w EXCEPT !.refreshing = TRUE,
                                                     !.accessed = @ \cup RenderReads(kid.view)],
                                           kid.view, key))

PrepaintAt(w, kid, key) ==
    IF kid.cached THEN PrepaintCached(TakeState(w, key), StateOf(w, key), kid, key)
    ELSE PrepaintElement(w, kid.view, key)

prepaint_view(w, kid, path) ==
    [PrepaintAt(PushNode(w, kid.view), kid, Append(path, kid.view)) EXCEPT !.active = w.active]

\* prepaint_deferred_draws: in place, with those that are pushed meanwhile.
NotePrepaint(w, i, x) ==
    [x EXCEPT !.new.defs[i].pre = [from |-> prepaint_index(w), to |-> prepaint_index(x)]]

PrepaintDeferred(w, d, i) ==
    NotePrepaint(w, i, IF d.fresh THEN prepaint_view(w, d.kid, d.path) ELSE reuse_prepaint(w, d.pre))

RECURSIVE prepaint_deferred_draws(_, _)
prepaint_deferred_draws(w, i) ==
    IF i > Len(w.new.defs) \/ w.panic THEN w
    ELSE LET d == w.new.defs[i]
         IN prepaint_deferred_draws(PrepaintDeferred([w EXCEPT !.active = d.parent], d, i), i + 1)

-----------------------------------------------------------------------------
(* Paint.                                                                  *)

\* The ranges of a cached view that was painted are noted.
NotePaint(w, st, key, x) ==
    [x EXCEPT !.new.states = With(@, key,
        [st EXCEPT !.paint = [from |-> paint_index(w), to |-> paint_index(x)]])]

RECURSIVE paint_view(_, _, _)

PaintElement(w, v, key) ==
    FoldLeft(LAMBDA x, k : IF k.deferred THEN x ELSE paint_view(x, k, key),
             [w EXCEPT !.new.paint = Append(@, [tok |-> Token(v), has |-> TRUE]),
                       !.new.handlers = IF focus = v THEN Append(@, v) ELSE @], Kids(v))

PaintCached(w, st, v, key) ==
    NotePaint(w, st, key, IF key \in w.fresh THEN PaintElement(w, v, key) ELSE reuse_paint(w, st.paint))

PaintAt(w, kid, key) ==
    IF kid.cached THEN PaintCached(TakeState(w, key), StateOf(w, key), kid.view, key)
    ELSE PaintElement(w, kid.view, key)

paint_view(w, kid, path) == PaintAt(w, kid, Append(path, kid.view))

NoteDeferred(w, i, x) ==
    [x EXCEPT !.new.defs[i].paint = [from |-> paint_index(w), to |-> paint_index(x)]]

PaintDeferred(w, d, i) ==
    NoteDeferred(w, i, IF d.fresh THEN paint_view(w, d.kid, d.path) ELSE reuse_paint(w, d.paint))

RECURSIVE paint_deferred_draws(_, _)
paint_deferred_draws(w, i) ==
    IF i > Len(w.new.defs) \/ w.panic THEN w
    ELSE paint_deferred_draws(PaintDeferred(w, w.new.defs[i], i), i + 1)

-----------------------------------------------------------------------------
(* The frame.                                                              *)

\* Mutant: only the view that was notified is rendered, not the views it is in.
MarkOnlyItself(nodes, marked, i) == IF i = 0 THEN marked ELSE marked \cup {nodes[i].view}

\* mark_view_dirty, from the node of the view up, until a view that is marked already.
RECURSIVE MarkUp(_, _, _)
MarkUp(nodes, marked, i) ==
    IF i = 0 \/ nodes[i].view \in marked THEN marked
    ELSE MarkUp(nodes, marked \cup ({nodes[i].view} \ {Nobody}), nodes[i].parent)

\* view_node_ids: the node in which the view was drawn last.
NodeOf(nodes, v) == SelectLastInSeq(nodes, LAMBDA n : n.view = v)

invalidate_entities(nodes, views) ==
    FoldLeft(LAMBDA marked, v : MarkUp(nodes, marked, NodeOf(nodes, v)), {}, SetToSeq(views))

\* The input handler goes back into the last slot that is empty.
Restored(handlers, h) ==
    LET i == SelectLastInSeq(handlers, LAMBDA x : x = Nobody)
    IN IF h = Nobody THEN handlers
       ELSE IF i = 0 THEN Append(handlers, h) ELSE [handlers EXCEPT ![i] = h]

\* Frame::finish: the states that were accessed are taken over.
finish(new, old) ==
    LET kept == ToSet(new.acc) \cap DOMAIN old.states
    IN [new EXCEPT !.states = [k \in DOMAIN @ \cup kept |-> IF k \in kept THEN old.states[k] ELSE @[k]]]

\* draw_roots. The root is not cached and is rendered before anything is prepainted.
RootView == [view |-> Root, cached |-> FALSE, deferred |-> FALSE, place |-> 0]

paint_roots(w) == IF w.panic THEN w ELSE paint_deferred_draws(paint_view(w, RootView, <<>>), 1)

draw_roots(old, marked, refresh) ==
    LET w == [new |-> EmptyFrame, old |-> old, dirty |-> marked, refreshing |-> refresh,
              accessed |-> RenderReads(Root), fresh |-> {}, active |-> 0, panic |-> FALSE]
    IN paint_roots(prepaint_deferred_draws(prepaint_view(w, RootView, <<>>), 1))

LastHandler(handlers) == SelectLastInSeq(handlers, LAMBDA x : x # Nobody)
TakeHandler(handlers, i) == IF i = 0 THEN Nobody ELSE handlers[i]

\* The end of a draw: the frames are swapped and the platform takes the input handler.
Drawn(w, i) ==
    /\ panic' = w.panic
    /\ rendered' = [finish(w.new, w.old) EXCEPT !.handlers = IF i = 0 THEN @ ELSE [@ EXCEPT ![i] = Nobody]]
    /\ handler' = TakeHandler(w.new.handlers, i)
    /\ tracked' = w.accessed

EndDraw(w) == Drawn(w, LastHandler(w.new.handlers))

\* Window::draw
draw ==
    /\ dirty /\ ~panic
    /\ EndDraw(draw_roots([rendered EXCEPT !.handlers = Restored(@, handler)],
                          invalidate_entities(rendered.nodes, notified), refreshing))
    /\ notified' = {} /\ dirty' = FALSE /\ refreshing' = FALSE /\ updates' = 0
    /\ UNCHANGED app

-----------------------------------------------------------------------------
(* The application.                                                        *)

\* App::notify: only an entity that the last frame accessed concerns the window.
notify(v) ==
    /\ notified' = IF v \in tracked THEN notified \cup {v} ELSE notified
    /\ dirty' = (dirty \/ v \in tracked)

\* A view changes and says so.
Update(v, s) ==
    /\ ~panic
    /\ updates < MaxUpdates
    /\ shape' = [shape EXCEPT ![v] = s]
    /\ rev' = [rev EXCEPT ![v] = 1 - @]
    /\ notify(v)
    /\ updates' = IF dirty' THEN updates + 1 ELSE 0
    /\ UNCHANGED <<focus, rendered, handler, tracked, refreshing, panic>>

\* Window::focus moves the focus and refreshes.
Focus(v) ==
    /\ ~panic /\ focus # v
    /\ updates < MaxUpdates /\ updates' = updates + 1
    /\ focus' = v
    /\ refreshing' = TRUE /\ dirty' = TRUE
    /\ UNCHANGED <<shape, rev, rendered, handler, tracked, notified, panic>>

Init ==
    /\ shape \in [Views -> UNION {Shapes[v] : v \in Views}] /\ \A v \in Views : shape[v] \in Shapes[v]
    /\ rev = [v \in Views |-> 0]
    /\ focus = Nobody
    /\ rendered = EmptyFrame /\ handler = Nobody /\ tracked = {}
    /\ notified = {} /\ dirty = TRUE /\ refreshing = FALSE
    /\ panic = FALSE /\ updates = 0

Next ==
    \/ draw
    \/ \E v \in Views : \E s \in Shapes[v] : Update(v, s)
    \/ \E v \in Inputs \cup {Nobody} : Focus(v)

Spec == Init /\ [][Next]_vars

-----------------------------------------------------------------------------
(* Properties.                                                             *)

\* What the window shows if nothing is reused.
Scratch == draw_roots(EmptyFrame, {}, TRUE).new

SameShown(frame, scratch) ==
    /\ frame.pre = scratch.pre
    /\ frame.paint = scratch.paint
    /\ frame.nodes = scratch.nodes

\* A window with nothing left to draw shows what it would show without any caching: every view's
\* present content, once, in its place and in its order, with listeners that are there.
CacheInvisible == ~dirty => ~panic /\ SameShown(rendered, Scratch)

\* The element states the window keeps are those of what it shows: none is lost under a view that
\* is reused, none outlives what it belongs to.
StatesMatch == ~dirty => DOMAIN rendered.states = DOMAIN Scratch.states

LastOf(handlers) == TakeHandler(handlers, LastHandler(handlers))

\* The platform holds the input handler of the view that has the focus if that view is shown.
HandlerOfFocus == ~dirty => handler = LastOf(Scratch.handlers)

\* Every view on the screen can ask for the next frame: its notification reaches the window.
ShownIsTracked == ~dirty => \A i \in DOMAIN rendered.nodes : rendered.nodes[i].view \in tracked \cup {Nobody}
=============================================================================
