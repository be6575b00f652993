------------------------------- MODULE Scene -------------------------------
(***************************************************************************)
(* What a frame paints and in which order it is drawn (gpui/src/scene.rs). *)
(* A primitive is given a draw order when it is painted: that of the layer *)
(* it is in, or the one the bounds tree gives its rectangle. The frame is  *)
(* finished by sorting each kind of primitive by order; the renderer then  *)
(* takes batches, each of one kind (and of one texture for sprites), until *)
(* every list is used up. A view that has not changed is painted by        *)
(* replaying a range of the operations of the frame before.                *)
(*                                                                         *)
(* Rectangles are intervals; that suffices for which of them meet. The     *)
(* bounds tree is taken by what it promises (BoundsTree!OrderIsLeast).     *)
(***************************************************************************)
EXTENDS Integers, SequencesExt, FiniteSetsExt

CONSTANTS Plain,        \* kinds of primitives without a texture, as ranks: the order of PrimitiveKind
          Sprites,      \* kinds with one
          Textures, TileIds, \* a sprite's tile: its texture, and its id within that texture
          Coords,       \* the ends of intervals
          MaxOps,       \* bound on the operations of a frame
          MaxFrames     \* bound on frames

Kinds == Plain \cup Sprites
None == -1              \* the texture and the tile of a plain primitive

Rects == {r \in [lo : Coords, hi : Coords] : r.lo < r.hi}
Meets(a, b) == a.lo < b.hi /\ b.lo < a.hi
Within(a, b) == b.lo <= a.lo /\ a.hi <= b.hi

VARIABLES paint_operations, \* of the frame being painted
          tree,             \* what went into the bounds tree, with the order it got
          layer_stack,
          prims,            \* kind -> the list of primitives, each with its order and the
                            \* operation that painted it
          rendered,         \* the operations of the frame before
          drawn,            \* the batches the renderer took of it
          frame

vars == <<paint_operations, tree, layer_stack, prims, rendered, drawn, frame>>

Primitives == [kind : Plain, texture : {None}, tile : {None}, bounds : Rects]
                  \cup [kind : Sprites, texture : Textures, tile : TileIds, bounds : Rects]

-----------------------------------------------------------------------------
(* Painting. A frame in the making is a record, so that a replay can run   *)
(* its operations one after the other.                                     *)

Making == [ops |-> paint_operations, tree |-> tree, layers |-> layer_stack, prims |-> prims]

\* BoundsTree::insert, by what it promises.
OrderOf(f, r) == 1 + Max({0} \cup {t.order : t \in {t \in f.tree : Meets(t.bounds, r)}})

\* Scene::push_layer
push_layer(f, r) ==
    LET order == OrderOf(f, r)
    IN [f EXCEPT !.tree = @ \cup {[bounds |-> r, order |-> order]},
                 !.layers = Append(@, order),
                 !.ops = Append(@, [op |-> "start", bounds |-> r])]

\* Scene::pop_layer
pop_layer(f) ==
    [f EXCEPT !.layers = Front(@), !.ops = Append(@, [op |-> "end"])]

\* Mutant: a primitive outside layers goes into the first order.
OrderWithoutTree(f, p) == IF f.layers # <<>> THEN Last(f.layers) ELSE 1

\* The order of a primitive
PrimitiveOrder(f, p) == IF f.layers # <<>> THEN Last(f.layers) ELSE OrderOf(f, p.bounds)

\* Scene::insert_primitive
insert_primitive(f, p) ==
    LET order == PrimitiveOrder(f, p)
    IN [f EXCEPT !.tree = IF f.layers # <<>> THEN @ ELSE @ \cup {[bounds |-> p.bounds, order |-> order]},
                 !.prims[p.kind] = Append(@, [p |-> p, order |-> order, at |-> Len(f.ops) + 1]),
                 !.ops = Append(@, [op |-> "primitive", p |-> p])]

Operate(f, o) ==
    CASE o.op = "primitive" -> insert_primitive(f, o.p)
      [] o.op = "start" -> push_layer(f, o.bounds)
      [] o.op = "end" -> pop_layer(f)

\* Scene::replay
replay(f, ops) == FoldLeft(Operate, f, ops)

-----------------------------------------------------------------------------
(* Drawing.                                                                *)

\* Scene::finish: a stable sort, of sprites by tile as well.
SortKey(e) == <<e.order, e.p.tile>>
Precedes(a, b) == a[1] < b[1] \/ (a[1] = b[1] /\ a[2] < b[2])

Sorted(list) ==
    SortSeq(list, LAMBDA a, b : \/ Precedes(SortKey(a), SortKey(b))
                                \/ SortKey(a) = SortKey(b) /\ a.at < b.at)

\* One turn of BatchIterator::next: `rest` holds what is left of each list, `batches` what was taken.
FirstKind(rest) ==
    CHOOSE k \in Kinds : /\ rest[k] # <<>>
                         /\ \A l \in Kinds \ {k} : rest[l] # <<>> =>
                                Precedes(<<rest[k][1].order, k>>, <<rest[l][1].order, l>>)

\* What may follow in the batch that rest[k][1] begins.
MayJoin(rest, k, e) ==
    /\ \A l \in Kinds \ {k} : rest[l] # <<>> => Precedes(<<e.order, k>>, <<rest[l][1].order, l>>)
    /\ k \in Sprites => e.p.texture = rest[k][1].p.texture

BatchLength(rest, k) ==
    Max({n \in 1 .. Len(rest[k]) : \A i \in 2 .. n : MayJoin(rest, k, rest[k][i])})

RECURSIVE Batches(_)
Batches(rest) ==
    IF \A k \in Kinds : rest[k] = <<>> THEN <<>>
    ELSE LET k == FirstKind(rest)
             n == BatchLength(rest, k)
         IN <<SubSeq(rest[k], 1, n)>>
            \o Batches([rest EXCEPT ![k] = SubSeq(@, n + 1, Len(@))])

-----------------------------------------------------------------------------
Become(f) ==
    /\ paint_operations' = f.ops /\ tree' = f.tree /\ layer_stack' = f.layers /\ prims' = f.prims
    /\ UNCHANGED <<rendered, drawn, frame>>

\* Within the bounds: a layer that was entered can be left.
Room(n) == frame < MaxFrames /\ Len(paint_operations) + n + Len(layer_stack) <= MaxOps

\* Window::paint_layer, entered and left
StartLayer == Room(2) /\ \E r \in Rects : Become(push_layer(Making, r))
EndLayer == layer_stack # <<>> /\ Become(pop_layer(Making))

\* Window::paint_quad and its like
Paint == Room(1) /\ \E p \in Primitives : Become(insert_primitive(Making, p))

Balance(ops) == Cardinality({i \in DOMAIN ops : ops[i].op = "start"})
                    - Cardinality({i \in DOMAIN ops : ops[i].op = "end"})

\* Window::reuse_paint: the range of a view, which leaves every layer it enters.
Replay ==
    \E from \in DOMAIN rendered : \E to \in from .. Len(rendered) :
        LET ops == SubSeq(rendered, from, to)
        IN /\ Room(Len(ops))
           /\ \A n \in DOMAIN ops : Balance(SubSeq(ops, 1, n)) >= 0
           /\ Balance(ops) = 0
           /\ Become(replay(Making, ops))

Empty == [k \in Kinds |-> <<>>]

\* The frame is finished and drawn; the next begins with what clear leaves.
Finish ==
    /\ layer_stack = <<>> /\ paint_operations # <<>> /\ frame < MaxFrames
    /\ rendered' = paint_operations
    /\ drawn' = Batches([k \in Kinds |-> Sorted(prims[k])])
    /\ frame' = frame + 1
    /\ paint_operations' = <<>> /\ tree' = {} /\ layer_stack' = <<>> /\ prims' = Empty

Init ==
    /\ paint_operations = <<>> /\ tree = {} /\ layer_stack = <<>> /\ prims = Empty
    /\ rendered = <<>> /\ drawn = <<>> /\ frame = 0

Next == StartLayer \/ EndLayer \/ Paint \/ Replay \/ Finish

Spec == Init /\ [][Next]_vars

-----------------------------------------------------------------------------
(* Properties.                                                             *)

Flat == FlattenSeq(drawn)

\* Each primitive painted is drawn once, and nothing else is.
DrawnOnce ==
    /\ Len(Flat) = Cardinality({i \in DOMAIN rendered : rendered[i].op = "primitive"})
    /\ \A i \in DOMAIN rendered : rendered[i].op = "primitive" =>
        \E n \in DOMAIN Flat : Flat[n].at = i /\ Flat[n].p = rendered[i].p

\* A batch can be drawn by one call: one kind, and one texture for sprites.
OneCall ==
    \A b \in DOMAIN drawn : \A i \in DOMAIN drawn[b] :
        drawn[b][i].p.kind = drawn[b][1].p.kind /\ drawn[b][i].p.texture = drawn[b][1].p.texture

\* The layer an operation is in, by the operation that starts it; 0 outside layers.
Innermost(i) ==
    Max({0} \cup {s \in 1 .. i : /\ rendered[s].op = "start"
                                 /\ \A e \in s .. i : Balance(SubSeq(rendered, s, e)) > 0})

\* A primitive keeps to its layer when it stays within its bounds.
Kept(i) == Innermost(i) = 0 \/ Within(rendered[i].p.bounds, rendered[Innermost(i)].bounds)

\* What is painted later is drawn over what it meets: the order of painting is the order of the
\* picture. It need not be within a layer, which is for "geometry that are non-overlapping": the
\* later of the two is in no layer or in one that began after the earlier was painted, and both
\* keep to the bounds of theirs.
LaterIsAbove ==
    \A m, n \in DOMAIN Flat :
        LET i == Flat[m].at
            j == Flat[n].at
        IN /\ i < j /\ Meets(Flat[m].p.bounds, Flat[n].p.bounds)
           /\ Innermost(j) = 0 \/ Innermost(j) > i
           /\ Kept(i) /\ Kept(j)
           => m < n
=============================================================================
