----------------------------- MODULE BoundsTree -----------------------------
(***************************************************************************)
(* The tree that gives every rectangle painted its draw order              *)
(* (gpui/src/bounds_tree.rs): one more than the highest order among the    *)
(* rectangles before it that it meets. The tree keeps, for every node, the *)
(* union of the rectangles below and their highest order, the child with   *)
(* the highest order last, and the leaf with the highest order of all, and *)
(* looks for the answer with the help of these only.                       *)
(*                                                                         *)
(* The nodes are a sequence and name each other by index; a leaf has no    *)
(* children. A rectangle is given by its corners.                          *)
(***************************************************************************)
EXTENDS Integers, SequencesExt

CONSTANTS MaxChildren,  \* MAX_CHILDREN
          XCoords, YCoords, \* the coordinates of corners
          MaxInserts    \* bound on the rectangles of a frame

\* What the constants have to be; the runs check it.
ConstantsAssumption == MaxChildren \in Nat \ {0, 1}

VARIABLES nodes, root, max_leaf,
          inserted      \* what was inserted and the order it was given

vars == <<nodes, root, max_leaf, inserted>>

\* Rectangles that are not empty: nothing else is painted.
Rects == {r \in [x1 : XCoords, y1 : YCoords, x2 : XCoords, y2 : YCoords] : r.x1 < r.x2 /\ r.y1 < r.y2}

Lower(a, b) == IF a < b THEN a ELSE b
Higher(a, b) == IF a > b THEN a ELSE b

\* Bounds::intersects, Bounds::union, Bounds::half_perimeter
Intersects(a, b) == a.x1 < b.x2 /\ a.x2 > b.x1 /\ a.y1 < b.y2 /\ a.y2 > b.y1
Cover(a, b) == [x1 |-> Lower(a.x1, b.x1), y1 |-> Lower(a.y1, b.y1),
                 x2 |-> Higher(a.x2, b.x2), y2 |-> Higher(a.y2, b.y2)]
HalfPerimeter(r) == (r.x2 - r.x1) + (r.y2 - r.y1)

Leaf(r, order) == [bounds |-> r, max_order |-> order, children |-> <<>>]
IsLeaf(n) == n.children = <<>>

\* Two children, the one with the higher order last; the new one only if it is higher.
Pair(ns, old, new, order) ==
    [bounds |-> Cover(ns[old].bounds, ns[new].bounds),
     max_order |-> Higher(ns[old].max_order, order),
     children |-> IF order > ns[old].max_order THEN <<old, new>> ELSE <<new, old>>]

Swapped(s, i, j) == [s EXCEPT ![i] = s[j], ![j] = s[i]]

-----------------------------------------------------------------------------
(* find_max_ordering                                                       *)

\* The search proper: a stack of nodes, and the highest order found.
RECURSIVE Search(_, _, _)
Search(query, stack, found) ==
    IF stack = <<>> THEN found
    ELSE LET n == nodes[Last(stack)]
             rest == Front(stack)
         IN IF n.max_order <= found \/ ~Intersects(query, n.bounds) THEN Search(query, rest, found)
            ELSE IF IsLeaf(n) THEN Search(query, rest, Higher(found, n.max_order))
            ELSE Search(query, rest \o SelectSeq(n.children, LAMBDA c : nodes[c].max_order > found), found)

\* Mutant: the leaf with the highest order answers though it is elsewhere.
FastPathAlways(query) ==
    IF root = 0 THEN 0 ELSE nodes[max_leaf].max_order

find_max_ordering(query) ==
    IF root = 0 THEN 0
    ELSE IF Intersects(query, nodes[max_leaf].bounds) THEN nodes[max_leaf].max_order
    ELSE Search(query, <<root>>, 0)

-----------------------------------------------------------------------------
(* insert_leaf                                                             *)

\* The child that the new rectangle enlarges to the least perimeter, the first of them.
BestPos(ns, children, r) ==
    LET Cost(p) == HalfPerimeter(Cover(r, ns[children[p]].bounds))
    IN CHOOSE p \in DOMAIN children :
        \A q \in DOMAIN children : Cost(p) < Cost(q) \/ (Cost(p) = Cost(q) /\ p <= q)

\* The internal nodes from the root to the one that takes the leaf.
RECURSIVE InsertPath(_, _, _)
InsertPath(ns, i, r) ==
    LET best == ns[i].children[BestPos(ns, ns[i].children, r)]
    IN <<i>> \o IF IsLeaf(ns[best]) THEN <<>> ELSE InsertPath(ns, best, r)

\* The node has room: the leaf goes to the end if its order is the highest, else before the last.
AddChild(ns, i, leaf, r, order) ==
    LET cs == Append(ns[i].children, leaf)
    IN [ns EXCEPT ![i].children = IF order <= ns[i].max_order THEN Swapped(cs, Len(cs) - 1, Len(cs)) ELSE cs,
                  ![i].bounds = Cover(@, r), ![i].max_order = Higher(@, order)]

\* The node is full: the best child, a leaf, becomes a node of the two.
SplitChild(ns, i, leaf, r, order) ==
    LET pos == BestPos(ns, ns[i].children, r)
        pair == Pair(ns, ns[i].children[pos], leaf, order)
        cs == [ns[i].children EXCEPT ![pos] = Len(ns) + 1]
    IN [Append(ns, pair) EXCEPT ![i].children =
            IF pair.max_order > ns[i].max_order THEN Swapped(cs, pos, Len(cs)) ELSE cs]

\* The nodes on the path, from the last up: each takes the bounds in; one whose highest order rises
\* has the child it came by put last.
Propagate(ns, path, r, order) ==
    LET Up(k, acc) ==
            LET i == path[k]
                cs == acc[i].children
                rises == acc[i].max_order < order
            IN [acc EXCEPT ![i].bounds = Cover(@, r),
                           ![i].max_order = Higher(@, order),
                           ![i].children = IF rises /\ k < Len(path)
                                           THEN Swapped(cs, SelectInSeq(cs, LAMBDA c : c = path[k + 1]), Len(cs))
                                           ELSE cs]
    IN FoldRight(Up, [k \in DOMAIN path |-> k], ns)

insert_leaf(r, order) ==
    LET leaf == Len(nodes) + 1
        ns == Append(nodes, Leaf(r, order))
        path == InsertPath(ns, root, r)
        i == Last(path)
    IN IF root = 0 THEN nodes' = ns /\ root' = leaf
       ELSE IF IsLeaf(nodes[root]) THEN nodes' = Append(ns, Pair(ns, root, leaf, order)) /\ root' = leaf + 1
       ELSE /\ nodes' = Propagate(IF Len(ns[i].children) < MaxChildren THEN AddChild(ns, i, leaf, r, order)
                                  ELSE SplitChild(ns, i, leaf, r, order), path, r, order)
            /\ UNCHANGED root

\* BoundsTree::insert
insert(r) ==
    /\ Len(inserted) < MaxInserts
    /\ LET order == find_max_ordering(r) + 1
       IN /\ insert_leaf(r, order)
          /\ max_leaf' = IF max_leaf = 0 \/ nodes[max_leaf].max_order < order THEN Len(nodes) + 1 ELSE max_leaf
          /\ inserted' = Append(inserted, [bounds |-> r, order |-> order])

clear ==
    /\ inserted # <<>>
    /\ nodes' = <<>> /\ root' = 0 /\ max_leaf' = 0 /\ inserted' = <<>>

Init == nodes = <<>> /\ root = 0 /\ max_leaf = 0 /\ inserted = <<>>

Next == clear \/ \E r \in Rects : insert(r)

Spec == Init /\ [][Next]_vars

-----------------------------------------------------------------------------
(* Properties.                                                             *)

\* Every rectangle has the order that its definition gives it: one more than the highest of those
\* before it that it meets. A wrong prune or a wrong fast path gives another.
OrderIsLeast ==
    \A i \in DOMAIN inserted :
        inserted[i].order = 1 + Max({0} \cup {inserted[j].order :
            j \in {j \in 1 .. i - 1 : Intersects(inserted[j].bounds, inserted[i].bounds)}})

\* The leaves below a node.
RECURSIVE Below(_)
Below(i) == IF IsLeaf(nodes[i]) THEN {i} ELSE UNION {Below(c) : c \in ToSet(nodes[i].children)}

\* What the search prunes by: a node covers the leaves below it and knows their highest order, and
\* "the max order child is always at the end". Every leaf is below the root.
Sound ==
    /\ root # 0 => Below(root) = {i \in DOMAIN nodes : IsLeaf(nodes[i])}
    /\ \A i \in DOMAIN nodes :
        /\ Len(nodes[i].children) <= MaxChildren
        /\ \A l \in Below(i) : Cover(nodes[i].bounds, nodes[l].bounds) = nodes[i].bounds
        /\ nodes[i].max_order = Max({nodes[l].max_order : l \in Below(i)})
        /\ IsLeaf(nodes[i]) \/ nodes[Last(nodes[i].children)].max_order = nodes[i].max_order
=============================================================================
