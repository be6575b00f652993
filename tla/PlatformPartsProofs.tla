------------------------- MODULE PlatformPartsProofs -------------------------
(***************************************************************************)
(* Inductive invariants of the parts of MCPlatform, each with the proofs   *)
(* that it holds initially, that every step preserves it and that it       *)
(* implies the properties of the part, for any number of windows, keys,    *)
(* buttons, offers, sizes, serials and displays: the tree of Wayland       *)
(* windows (WindowTree), the serials that requests cite (Serials), the     *)
(* size of a window (Configure), drags (DataDevice), the keyboard, the     *)
(* input method and the pointer (Seat), and the display links of macOS     *)
(* (DisplayLink).  PlatformProofs draws the conclusions.                   *)
(***************************************************************************)
EXTENDS Naturals, Sequences, FiniteSets, SequenceTheorems, TLAPS

CONSTANTS
    None,
    TreeWindows, AppRemoves, Reentrant,
    Rollover, MaxEvents,
    Sizes, Inset, MaxConfigures,
    Windows, Closable, MaxOffers,
    Blockable, Keys, DeadKeys, Buttons, TextInput, MaxId,
    LinkWindows, Displays, NoDisplay, StartFails, LinkReentrant

VARIABLES
    kind, parent, children, tree_closed, tree_windows, surfaces, tree_callback, focus, tasks,
    stack, app,
    seat_windows, seat_closed, dialogs, surface, held, batch, keyboard_focused_window,
    mouse_focused_window, cursor_hidden_window, mouse_location, button_pressed, repeat, timers,
    compose, pre_edit_text, composing, ime_pre_edit, marked, stray, sent,
    introduced, data_offers, destroyed, current_offer, session, drag, reads, read_offers,
    external_drag, open, blocked, active_drag, platform_drag,
    in_progress_configure, maximized, fullscreen, tiling, resize_throttle,
    window_bounds, bounds, destination, committed, requests, configures, last, windowed,
    issued, serials, selection_serial, events, pressed, selection, grab,
    entries, running, subs, link, straggler, source, reg, pending, link_callback, window, visible,
    screen, notes, failed, main

Tree == INSTANCE WindowTree WITH Windows <- TreeWindows, closed <- tree_closed,
        windows <- tree_windows, callback <- tree_callback

Serial == INSTANCE Serials

Size == INSTANCE Configure

Drag == INSTANCE DataDevice

Input == INSTANCE Seat WITH windows <- seat_windows, closed <- seat_closed

Link == INSTANCE DisplayLink WITH Windows <- LinkWindows, Reentrant <- LinkReentrant,
        callback <- link_callback

-----------------------------------------------------------------------------
(* The tree of Wayland windows                                             *)

CloseFrame == [win : TreeWindows, kids : SUBSET TreeWindows, task : BOOLEAN]

\* A window that is registered or closed was opened, and one with a surface has its close callback:
\* close() takes the callback and the window in one go.
Opened ==
    /\ \A w \in tree_windows \cup tree_closed : kind[w] # "unused"
    /\ surfaces \subseteq tree_callback

\* The children of a window are the dialogs and popups with a surface that were opened for it.
Links ==
    \A p, c \in TreeWindows :
        c \in children[p] <=> /\ c \in surfaces
                              /\ kind[c] \in {"dialog", "popup"}
                              /\ parent[c] = p

\* A drop task waits for a window that is dropped and registered, and for no other.
TasksOK ==
    \A i \in 1..Len(tasks) :
        /\ tasks[i] \in tree_windows \ surfaces
        /\ \A j \in 1..Len(tasks) : tasks[i] = tasks[j] => i = j

\* Only the outermost close() can be a drop task's, and its window is dropped and registered.
TaskFrameOK ==
    \A i \in 1..Len(stack) :
        stack[i].task => /\ i = 1
                         /\ stack[i].win \in tree_windows \ surfaces
                         /\ \A j \in 1..Len(tasks) : tasks[j] # stack[i].win

\* A closed window that has its surface is being closed.
ClosedOnStack ==
    \A c \in tree_closed \cap surfaces : \E i \in 1..Len(stack) : stack[i].win = c

\* The children that a close() has not passed over are yet to be visited, or being closed.
KidsLeft ==
    \A i \in 1..Len(stack) : \A c \in children[stack[i].win] :
        c \in stack[i].kids \/ \E j \in 1..Len(stack) : stack[j].win = c

\* NoOrphans, in the middle of a close() as well.
ParentRegistered ==
    \A c \in surfaces :
        kind[c] \in {"dialog", "popup"} /\ parent[c] # None => parent[c] \in tree_windows

\* The inductive invariant.
TreeInv ==
    /\ Tree!TypeOK /\ Opened /\ Links /\ Tree!FocusIsRegistered /\ TasksOK /\ TaskFrameOK /\ ClosedOnStack
    /\ ~Reentrant => KidsLeft /\ ParentRegistered

LEMMA TreeInit == ASSUME Tree!ConstantsAssumption PROVE Tree!Init => TreeInv
<1> SUFFICES ASSUME Tree!Init PROVE TreeInv
  OBVIOUS
<1>1. Tree!TypeOK
  <2>1. \A S : <<>> \in Seq(S)
    OBVIOUS
  <2>2. children \in [TreeWindows -> SUBSET TreeWindows]
    BY DEF Tree!Init
  <2> QED
    BY <2>1, <2>2 DEF Tree!Init, Tree!TypeOK
<1>2. Opened /\ Links /\ Tree!FocusIsRegistered
  BY DEF Tree!Init, Opened, Links, Tree!FocusIsRegistered
<1>3. TasksOK /\ TaskFrameOK /\ ClosedOnStack /\ KidsLeft /\ ParentRegistered
  BY DEF Tree!Init, TasksOK, TaskFrameOK, ClosedOnStack, KidsLeft, ParentRegistered
<1> QED
  BY <1>1, <1>2, <1>3 DEF TreeInv

\* The calls below the innermost.
LEMMA BelowCalls ==
    ASSUME stack \in Seq(CloseFrame), ~Tree!Idle
    PROVE  /\ Tree!Below \in Seq(CloseFrame) /\ Len(Tree!Below) = Len(stack) - 1
           /\ \A i \in 1..Len(Tree!Below) : Tree!Below[i] = stack[i]
           /\ Len(stack) \in Nat \ {0} /\ Tree!Top \in CloseFrame
<1>1. Len(stack) \in Nat \ {0} /\ \A i \in 1..Len(stack) : stack[i] \in CloseFrame
  BY DEF Tree!Idle
<1>2. /\ Tree!Below \in Seq(CloseFrame)
      /\ Len(Tree!Below) = IF 1 <= Len(stack) - 1 THEN Len(stack) - 1 - 1 + 1 ELSE 0
      /\ \A i \in 1..(Len(stack) - 1 - 1 + 1) : Tree!Below[i] = stack[1 + i - 1]
  BY <1>1, SubSeqProperties DEF Tree!Below
<1>3. Len(Tree!Below) = Len(stack) - 1
  <2>1. CASE Len(stack) = 1
    BY <1>2, <2>1
  <2>2. CASE Len(stack) > 1
    BY <1>1, <1>2, <2>2
  <2>3. Len(stack) = 1 \/ Len(stack) > 1
    <3>1. \A n \in Nat \ {0} : n = 1 \/ n > 1
      OBVIOUS
    <3> QED
      BY <1>1, <3>1, Zenon
  <2> QED
    BY <2>1, <2>2, <2>3, Zenon
<1>4. \A i \in 1..Len(Tree!Below) : Tree!Below[i] = stack[i]
  BY <1>1, <1>2, <1>3
<1> QED
  BY <1>1, <1>2, <1>3, <1>4 DEF Tree!Top

LEMMA CallTypes ==
    ASSUME Tree!TypeOK
    PROVE  /\ Len(stack) \in Nat /\ Len(tasks) \in Nat
           /\ \A i \in 1..Len(stack) : /\ stack[i].win \in TreeWindows
                                        /\ stack[i].kids \subseteq TreeWindows
                                        /\ stack[i].task \in BOOLEAN
           /\ \A i \in 1..Len(tasks) : tasks[i] \in TreeWindows
<1>1. stack \in Seq(CloseFrame) /\ tasks \in Seq(TreeWindows)
  BY DEF Tree!TypeOK, CloseFrame
<1>2. /\ Len(stack) \in Nat /\ Len(tasks) \in Nat
      /\ \A i \in 1..Len(stack) : stack[i] \in CloseFrame
      /\ \A i \in 1..Len(tasks) : tasks[i] \in TreeWindows
  BY <1>1
<1> QED
  BY <1>2 DEF CloseFrame

LEMMA OpenStep ==
    ASSUME Tree!ConstantsAssumption, TreeInv, NEW w \in TreeWindows, NEW k \in {"normal", "dialog", "popup"},
           NEW p \in TreeWindows \cup {None}, Tree!OpenWindow(w, k, p)
    PROVE  TreeInv'
<1> USE DEF TreeInv, Tree!Unused, Tree!OpenWindow, Tree!ConstantsAssumption
<1>0. p \in tree_windows \cup {None}
  BY DEF Tree!Parents, Tree!FocusIsRegistered, Tree!TypeOK
<1>1. w \notin tree_windows
  BY DEF Opened
<1>2. Tree!TypeOK'
  BY <1>0 DEF Tree!TypeOK
<1>3. Opened'
  BY <1>1 DEF Opened, Tree!TypeOK
<1>4. Links'
  BY <1>0, <1>1 DEF Links, Tree!TypeOK
<1>5. Tree!FocusIsRegistered'
  BY DEF Tree!FocusIsRegistered
<1>6. TasksOK' /\ TaskFrameOK'
  BY <1>1 DEF TasksOK, TaskFrameOK, Tree!TypeOK
<1>7. ClosedOnStack'
  BY <1>1 DEF ClosedOnStack, Opened, Tree!TypeOK
<1>8. ASSUME ~Reentrant
      PROVE  KidsLeft' /\ ParentRegistered'
  BY <1>0, <1>1, <1>8 DEF KidsLeft, ParentRegistered, Tree!AppRuns, Tree!Idle, Tree!TypeOK
<1> QED
  BY <1>2, <1>3, <1>4, <1>5, <1>6, <1>7, <1>8
LEMMA FailStep ==
    ASSUME Tree!ConstantsAssumption, TreeInv, NEW w \in TreeWindows, NEW k \in {"normal", "dialog", "popup"},
           NEW p \in TreeWindows \cup {None}, Tree!OpenFails(w, k, p)
    PROVE  TreeInv'
<1> USE DEF TreeInv, Tree!Unused, Tree!OpenFails
<1>1. w \notin tree_windows
  BY DEF Opened
<1>2. Tree!TypeOK'
  BY DEF Tree!TypeOK
<1>3. Opened' /\ Links' /\ Tree!FocusIsRegistered'
  BY <1>1 DEF Opened, Links, Tree!FocusIsRegistered, Tree!TypeOK
<1>4. TasksOK' /\ TaskFrameOK' /\ ClosedOnStack'
  BY DEF TasksOK, TaskFrameOK, ClosedOnStack
<1>5. (~Reentrant => KidsLeft /\ ParentRegistered)'
  BY <1>1 DEF KidsLeft, ParentRegistered, Tree!TypeOK
<1> QED
  BY <1>2, <1>3, <1>4, <1>5

\* What dropping a window with a surface does, in RemoveWindow and at the end of close().
LEMMA DropEffect ==
    ASSUME Tree!ConstantsAssumption, TreeInv, NEW w \in surfaces, Tree!DropWindow(w), UNCHANGED <<kind, parent>>
    PROVE  /\ tree_closed' \in SUBSET TreeWindows
           /\ children' \in [TreeWindows -> SUBSET TreeWindows]
           /\ surfaces' = surfaces \ {w}
           /\ tasks' \in Seq(TreeWindows) /\ Len(tasks') = Len(tasks) + 1
           /\ tasks'[Len(tasks) + 1] = w /\ \A i \in 1..Len(tasks) : tasks'[i] = tasks[i]
           /\ Links'
           /\ \A p \in TreeWindows : children'[p] = children[p] \ {w}
<1> USE DEF TreeInv, Tree!TypeOK, Tree!DropWindow, Tree!ConstantsAssumption
<1>1. tasks' \in Seq(TreeWindows) /\ Len(tasks') = Len(tasks) + 1
  OBVIOUS
<1>2. tasks'[Len(tasks) + 1] = w /\ \A i \in 1..Len(tasks) : tasks'[i] = tasks[i]
  OBVIOUS
<1>3. ASSUME NEW p \in TreeWindows
      PROVE  children'[p] = children[p] \ {w}
  <2>1. CASE parent[w] = p
    BY <2>1
  <2>2. CASE parent[w] # p
    <3>1. w \notin children[p]
      BY <2>2 DEF Links
    <3>2. children'[p] = children[p]
      BY <2>2
    <3> QED
      BY <3>1, <3>2
  <2> QED
    BY <2>1, <2>2
<1>4. children' \in [TreeWindows -> SUBSET TreeWindows]
  OBVIOUS
<1>5. Links'
  BY <1>3 DEF Links
<1> QED
  BY <1>1, <1>2, <1>3, <1>4, <1>5

LEMMA RemoveStep ==
    ASSUME Tree!ConstantsAssumption, TreeInv, NEW w \in TreeWindows, Tree!RemoveWindow(w)
    PROVE  TreeInv'
<1> USE DEF TreeInv, Tree!RemoveWindow
<1>1. w \in surfaces
  OBVIOUS
<1>2. /\ surfaces' = surfaces \ {w}
      /\ tasks' \in Seq(TreeWindows) /\ Len(tasks') = Len(tasks) + 1
      /\ tasks'[Len(tasks) + 1] = w /\ \A i \in 1..Len(tasks) : tasks'[i] = tasks[i]
      /\ \A p \in TreeWindows : children'[p] = children[p] \ {w}
  BY <1>1, DropEffect
<1>3. Tree!TypeOK' /\ Links'
  BY <1>1, <1>2, DropEffect DEF Tree!TypeOK
<1>4. Opened' /\ Tree!FocusIsRegistered'
  BY <1>1, <1>2 DEF Opened, Tree!FocusIsRegistered, Tree!DropWindow, Tree!TypeOK
<1>5. TasksOK'
  <2> SUFFICES ASSUME NEW i \in 1..Len(tasks')
               PROVE  /\ tasks'[i] \in tree_windows' \ surfaces'
                      /\ \A j \in 1..Len(tasks') : tasks'[i] = tasks'[j] => i = j
    BY DEF TasksOK
  <2>1. Len(tasks) \in Nat /\ tree_windows' = tree_windows /\ w \in tree_windows
    BY <1>1, CallTypes DEF Tree!TypeOK, Tree!DropWindow
  <2>2. \A k \in 1..Len(tasks') : k \in 1..Len(tasks) \/ k = Len(tasks) + 1
    BY <1>2, <2>1
  <2>3. \A k \in 1..Len(tasks) : tasks[k] # w /\ tasks[k] \in tree_windows \ surfaces
    BY <1>1 DEF TasksOK
  <2> QED
    BY <1>2, <2>1, <2>2, <2>3 DEF TasksOK
<1>6. TaskFrameOK'
  <2> SUFFICES ASSUME NEW i \in 1..Len(stack), stack[i].task
               PROVE  /\ i = 1 /\ stack[i].win \in tree_windows \ surfaces'
                      /\ \A j \in 1..Len(tasks') : tasks'[j] # stack[i].win
    BY DEF TaskFrameOK
  <2>1. /\ i = 1 /\ stack[i].win \in tree_windows \ surfaces
        /\ \A j \in 1..Len(tasks) : tasks[j] # stack[i].win
    BY DEF TaskFrameOK
  <2> QED
    BY <2>1, <1>1, <1>2, CallTypes
<1>7. ClosedOnStack'
  BY <1>1, <1>2 DEF ClosedOnStack, Tree!DropWindow
<1>8. (~Reentrant => KidsLeft /\ ParentRegistered)'
  BY <1>1, <1>2, CallTypes DEF KidsLeft, ParentRegistered, Tree!TypeOK
<1> QED
  BY <1>3, <1>4, <1>5, <1>6, <1>7, <1>8

\* A call of close() on top of the others.
LEMMA PushedCall ==
    ASSUME NEW s \in Seq(CloseFrame), NEW f \in CloseFrame
    PROVE  /\ Append(s, f) \in Seq(CloseFrame) /\ Len(Append(s, f)) = Len(s) + 1 /\ Len(s) \in Nat
           /\ \A i \in 1..Len(s) : Append(s, f)[i] = s[i]
           /\ Append(s, f)[Len(s) + 1] = f
  OBVIOUS

LEMMA FrameType ==
    ASSUME Tree!TypeOK, NEW w \in TreeWindows
    PROVE  Tree!Frame(w, TRUE) \in CloseFrame /\ Tree!Frame(w, FALSE) \in CloseFrame
  BY DEF Tree!Frame, CloseFrame, Tree!TypeOK

LEMMA FirstCall ==
    ASSUME Tree!TypeOK, Tree!Idle, NEW f \in CloseFrame, stack' = Append(stack, f)
    PROVE  /\ stack' \in Seq(CloseFrame) /\ Len(stack') = 1 /\ stack'[1] = f
           /\ 1 \in 1..Len(stack') /\ \A i \in 1..Len(stack') : i = 1
<1>1. stack = <<>> /\ stack \in Seq(CloseFrame) /\ Len(stack) = 0
  BY DEF Tree!TypeOK, CloseFrame, Tree!Idle
<1>2. /\ stack' \in Seq(CloseFrame) /\ Len(stack') = Len(stack) + 1
      /\ stack'[Len(stack) + 1] = f
  BY <1>1, PushedCall
<1> QED
  BY <1>1, <1>2

LEMMA CompositorCloseStep ==
    ASSUME Tree!ConstantsAssumption, TreeInv, NEW w \in TreeWindows, Tree!CompositorClose(w)
    PROVE  TreeInv'
<1> USE DEF TreeInv, Tree!CompositorClose, Tree!Enter, Tree!get_window, Tree!Idle
<1>1. /\ stack' \in Seq(CloseFrame) /\ stack'[1] = Tree!Frame(w, FALSE)
      /\ 1 \in 1..Len(stack') /\ \A i \in 1..Len(stack') : i = 1
  BY FirstCall, FrameType
<1>2. Tree!TypeOK'
  BY <1>1 DEF Tree!TypeOK, CloseFrame
<1>3. Opened' /\ Links' /\ Tree!FocusIsRegistered' /\ TasksOK'
  BY DEF Opened, Links, Tree!FocusIsRegistered, TasksOK
<1>4. TaskFrameOK'
  BY <1>1 DEF TaskFrameOK, Tree!Frame
<1>5. ClosedOnStack'
  BY <1>1 DEF ClosedOnStack, Tree!Frame
<1>6. (~Reentrant => KidsLeft /\ ParentRegistered)'
  BY <1>1 DEF KidsLeft, ParentRegistered, Tree!Frame
<1> QED
  BY <1>2, <1>3, <1>4, <1>5, <1>6

LEMMA DropTaskStep ==
    ASSUME Tree!ConstantsAssumption, TreeInv, Tree!RunDropTask
    PROVE  TreeInv'
<1> USE DEF TreeInv, Tree!RunDropTask, Tree!Enter, Tree!Idle
<1>0. /\ tasks \in Seq(TreeWindows) /\ Len(tasks) \in Nat \ {0} /\ Head(tasks) = tasks[1]
      /\ tasks[1] \in TreeWindows
  BY DEF Tree!TypeOK
<1>1. /\ tasks' \in Seq(TreeWindows) /\ Len(tasks') = Len(tasks) - 1
      /\ \A i \in 1..Len(tasks') : tasks'[i] = tasks[i + 1] /\ i + 1 \in 1..Len(tasks)
  BY <1>0
<1>2. /\ stack' \in Seq(CloseFrame) /\ stack'[1] = Tree!Frame(tasks[1], TRUE)
      /\ 1 \in 1..Len(stack') /\ \A i \in 1..Len(stack') : i = 1
  BY <1>0, FirstCall, FrameType
<1>3. Tree!TypeOK'
  BY <1>0, <1>1, <1>2 DEF Tree!TypeOK, CloseFrame
<1>4. Opened' /\ Links' /\ Tree!FocusIsRegistered'
  BY <1>0 DEF Opened, Links, Tree!FocusIsRegistered, TasksOK
<1>5. TasksOK'
  BY <1>0, <1>1 DEF TasksOK
<1>6. TaskFrameOK'
  BY <1>0, <1>1, <1>2 DEF TaskFrameOK, TasksOK, Tree!Frame
<1>7. ClosedOnStack'
  BY <1>0, <1>2 DEF ClosedOnStack, Tree!Frame
<1>8. (~Reentrant => KidsLeft /\ ParentRegistered)'
  BY <1>0, <1>2 DEF KidsLeft, ParentRegistered, Tree!Frame
<1> QED
  BY <1>3, <1>4, <1>5, <1>6, <1>7, <1>8

\* The stack after the innermost close() passes over a child: the calls are the same, but for the
\* children that the innermost has left.
LEMMA PassedCalls ==
    ASSUME Tree!TypeOK, ~Tree!Idle, NEW c \in TreeWindows,
           NEW rest, rest = Append(Tree!Below, [Tree!Top EXCEPT !.kids = @ \ {c}])
    PROVE  /\ rest \in Seq(CloseFrame) /\ Len(rest) = Len(stack)
           /\ \A i \in 1..Len(stack) : rest[i].win = stack[i].win /\ rest[i].task = stack[i].task
           /\ \A i \in 1..Len(stack) : stack[i].kids \subseteq rest[i].kids \cup {c}
<1>1. stack \in Seq(CloseFrame)
  BY DEF Tree!TypeOK, CloseFrame
<1>2. /\ Tree!Below \in Seq(CloseFrame) /\ Len(Tree!Below) = Len(stack) - 1
      /\ \A i \in 1..Len(Tree!Below) : Tree!Below[i] = stack[i]
      /\ Len(stack) \in Nat \ {0} /\ Tree!Top \in CloseFrame
  BY <1>1, BelowCalls
<1> DEFINE f == [Tree!Top EXCEPT !.kids = @ \ {c}]
<1>3. /\ f \in CloseFrame /\ f.win = Tree!Top.win /\ f.task = Tree!Top.task
      /\ f.kids = Tree!Top.kids \ {c}
  BY <1>2 DEF CloseFrame
<1> HIDE DEF f
<1>4. /\ rest \in Seq(CloseFrame) /\ Len(rest) = Len(Tree!Below) + 1
      /\ \A i \in 1..Len(Tree!Below) : rest[i] = Tree!Below[i]
      /\ rest[Len(Tree!Below) + 1] = f
  BY <1>2, <1>3, PushedCall DEF f
<1>5. ASSUME NEW i \in 1..Len(stack)
      PROVE  /\ rest[i].win = stack[i].win /\ rest[i].task = stack[i].task
             /\ stack[i].kids \subseteq rest[i].kids \cup {c}
  <2>1. CASE i = Len(stack)
    BY <1>2, <1>3, <1>4, <2>1 DEF Tree!Top
  <2>2. CASE i # Len(stack)
    <3>1. i \in 1..Len(Tree!Below)
      BY <1>2, <2>2
    <3> QED
      BY <1>2, <1>4, <3>1
  <2> QED
    BY <2>1, <2>2
<1>6. Len(rest) = Len(stack)
  <2>1. \A n \in Nat : n - 1 + 1 = n
    OBVIOUS
  <2> QED
    BY <1>2, <1>4, <2>1, Zenon
<1> QED
  BY <1>4, <1>5, <1>6, Zenon

\* What a step that visits a child leaves of the calls, whether it enters the child or not.
LEMMA CloseChildEffect ==
    ASSUME TreeInv, NEW c \in TreeWindows, Tree!CloseChild(c)
    PROVE  /\ stack' \in Seq(CloseFrame) /\ Len(stack) \in Nat /\ Len(stack') \in Nat
           /\ Len(stack) <= Len(stack')
           /\ \A i \in 1..Len(stack) : /\ stack'[i].win = stack[i].win
                                        /\ stack'[i].task = stack[i].task
                                        /\ stack[i].kids \subseteq stack'[i].kids \cup {c}
           /\ \A i \in 1..Len(stack') :
                 \/ i \in 1..Len(stack)
                 \/ stack'[i] = Tree!Frame(c, FALSE)
           /\ Tree!get_window(c) => /\ Len(stack') \in 1..Len(stack')
                               /\ stack'[Len(stack')].win = c
           /\ tree_closed' = IF Tree!get_window(c) THEN tree_closed \cup {c} ELSE tree_closed
<1> DEFINE rest == Append(Tree!Below, [Tree!Top EXCEPT !.kids = @ \ {c}])
<1>0. Tree!TypeOK /\ ~Tree!Idle
  BY DEF TreeInv, Tree!CloseChild
<1>1. /\ rest \in Seq(CloseFrame) /\ Len(rest) = Len(stack)
      /\ \A i \in 1..Len(stack) : rest[i].win = stack[i].win /\ rest[i].task = stack[i].task
      /\ \A i \in 1..Len(stack) : stack[i].kids \subseteq rest[i].kids \cup {c}
  BY <1>0, PassedCalls
<1>2. Len(stack) \in Nat
  BY <1>0, CallTypes
<1>3. /\ Tree!get_window(c) => stack' = Append(rest, Tree!Frame(c, FALSE)) /\ tree_closed' = tree_closed \cup {c}
      /\ ~Tree!get_window(c) => stack' = rest /\ tree_closed' = tree_closed
  BY DEF Tree!CloseChild
<1>4. Tree!Frame(c, FALSE) \in CloseFrame /\ Tree!Frame(c, FALSE).win = c
  BY <1>0, FrameType DEF Tree!Frame
<1> HIDE DEF rest
<1>5. CASE ~Tree!get_window(c)
  <2>1. stack' = rest /\ tree_closed' = tree_closed
    BY <1>3, <1>5
  <2>2. tree_closed' = IF Tree!get_window(c) THEN tree_closed \cup {c} ELSE tree_closed
    BY <2>1, <1>5
  <2>3. /\ stack' \in Seq(CloseFrame) /\ Len(stack') = Len(stack)
        /\ \A i \in 1..Len(stack) : stack'[i] = rest[i]
    BY <1>1, <2>1
  <2>4. Len(stack') \in Nat /\ Len(stack) <= Len(stack')
    BY <1>2, <2>3
  <2>5. \A i \in 1..Len(stack') : i \in 1..Len(stack)
    BY <2>3
  <2> QED
    BY <1>1, <1>2, <1>5, <2>2, <2>3, <2>4, <2>5
<1>6. CASE Tree!get_window(c)
  <2>1. /\ stack' \in Seq(CloseFrame) /\ Len(stack') = Len(stack) + 1
        /\ \A i \in 1..Len(stack) : stack'[i] = rest[i]
        /\ stack'[Len(stack) + 1] = Tree!Frame(c, FALSE)
    <3>1. /\ Append(rest, Tree!Frame(c, FALSE)) \in Seq(CloseFrame)
          /\ Len(Append(rest, Tree!Frame(c, FALSE))) = Len(rest) + 1
          /\ \A i \in 1..Len(rest) : Append(rest, Tree!Frame(c, FALSE))[i] = rest[i]
          /\ Append(rest, Tree!Frame(c, FALSE))[Len(rest) + 1] = Tree!Frame(c, FALSE)
      BY <1>1, <1>4, PushedCall
    <3> QED
      BY <1>1, <1>3, <1>6, <3>1
  <2>2. \A i \in 1..Len(stack') : i \in 1..Len(stack) \/ i = Len(stack) + 1
    BY <1>2, <2>1
  <2>3. Len(stack') \in Nat /\ Len(stack) <= Len(stack') /\ Len(stack') \in 1..Len(stack')
    BY <1>2, <2>1
  <2> QED
    BY <1>1, <1>2, <1>3, <1>4, <1>6, <2>1, <2>2, <2>3
<1> QED
  BY <1>5, <1>6

LEMMA CloseChildStep ==
    ASSUME Tree!ConstantsAssumption, TreeInv, NEW c \in TreeWindows, Tree!CloseChild(c)
    PROVE  TreeInv'
<1> USE DEF TreeInv
<1>1. /\ stack' \in Seq(CloseFrame) /\ Len(stack) \in Nat /\ Len(stack') \in Nat
      /\ Len(stack) <= Len(stack')
      /\ \A i \in 1..Len(stack) : /\ stack'[i].win = stack[i].win
                                   /\ stack'[i].task = stack[i].task
                                   /\ stack[i].kids \subseteq stack'[i].kids \cup {c}
      /\ \A i \in 1..Len(stack') :
            \/ i \in 1..Len(stack)
            \/ stack'[i] = Tree!Frame(c, FALSE)
      /\ Tree!get_window(c) => Len(stack') \in 1..Len(stack') /\ stack'[Len(stack')].win = c
      /\ tree_closed' = IF Tree!get_window(c) THEN tree_closed \cup {c} ELSE tree_closed
  BY CloseChildEffect
<1>2. /\ app' = FALSE
      /\ UNCHANGED <<kind, parent, children, tree_windows, surfaces, tree_callback, focus, tasks>>
  BY DEF Tree!CloseChild
<1>3. \A i \in 1..Len(stack) : i \in 1..Len(stack')
  BY <1>1
<1>4. Tree!TypeOK'
  BY <1>1, <1>2 DEF Tree!TypeOK, CloseFrame
<1>5. Opened' /\ Links' /\ Tree!FocusIsRegistered' /\ TasksOK'
  BY <1>1, <1>2 DEF Opened, Links, Tree!FocusIsRegistered, TasksOK, Tree!get_window
<1>6. TaskFrameOK'
  BY <1>1, <1>2 DEF TaskFrameOK, Tree!Frame
<1>7. ClosedOnStack'
  BY <1>1, <1>2, <1>3 DEF ClosedOnStack
<1>8. c \in surfaces => \E j \in 1..Len(stack') : stack'[j].win = c
  BY <1>1, <1>3 DEF ClosedOnStack, Tree!get_window, Tree!TypeOK
<1>9. ASSUME ~Reentrant
      PROVE  KidsLeft'
  <2> SUFFICES ASSUME NEW i \in 1..Len(stack'), NEW d \in children[stack'[i].win]
               PROVE  d \in stack'[i].kids \/ \E j \in 1..Len(stack') : stack'[j].win = d
    BY <1>2 DEF KidsLeft
  <2>1. CASE stack'[i] = Tree!Frame(c, FALSE)
    BY <2>1 DEF Tree!Frame
  <2>2. CASE i \in 1..Len(stack)
    <3>1. /\ stack[i].win \in TreeWindows
          /\ d \in children[stack[i].win]
      BY <1>1, <2>2, CallTypes
    <3>2. d \in stack[i].kids \/ \E j \in 1..Len(stack) : stack[j].win = d
      BY <1>9, <2>2, <3>1 DEF KidsLeft
    <3>3. d \in surfaces
      BY <3>1 DEF Links, Tree!TypeOK
    <3> QED
      BY <1>1, <1>3, <1>8, <2>2, <3>2, <3>3
  <2> QED
    BY <1>1, <2>1, <2>2
<1>10. (~Reentrant => ParentRegistered)'
  BY <1>2 DEF ParentRegistered
<1> QED
  BY <1>2, <1>4, <1>5, <1>6, <1>7, <1>9, <1>10

\* What the end of a close() does: its call goes, its window has no surface afterwards, and the task
\* of a window dropped here is a new one.
LEMMA CloseReturnsEffect ==
    ASSUME Tree!ConstantsAssumption, TreeInv, Tree!CloseReturns, NEW w, w = Tree!Top.win
    PROVE  /\ w \in TreeWindows /\ stack' \in Seq(CloseFrame)
           /\ surfaces' = surfaces \ {w} /\ tree_callback' = tree_callback \ {w}
           /\ children' \in [TreeWindows -> SUBSET TreeWindows] /\ tree_closed' \subseteq TreeWindows
           /\ \A p \in TreeWindows : children'[p] = children[p] \ {w}
           /\ tasks' \in Seq(TreeWindows) /\ Links'
<1>1. Tree!TypeOK /\ ~Tree!Idle
  BY DEF TreeInv, Tree!CloseReturns
<1>2. stack \in Seq(CloseFrame)
  BY <1>1 DEF Tree!TypeOK, CloseFrame
<1>3. Tree!Below \in Seq(CloseFrame) /\ Tree!Top \in CloseFrame
  BY <1>1, <1>2, BelowCalls
<1>4. w \in TreeWindows /\ stack' \in Seq(CloseFrame) /\ tree_callback' = tree_callback \ {w}
  BY <1>3 DEF Tree!CloseReturns, CloseFrame
<1>5. CASE w \in surfaces
  <2>1. Tree!DropWindow(w) /\ UNCHANGED <<kind, parent>>
    BY <1>5 DEF Tree!CloseReturns, TreeInv, Opened
  <2> QED
    BY <1>4, <1>5, <2>1, DropEffect
<1>6. CASE w \notin surfaces
  <2>1. UNCHANGED <<tree_closed, children, surfaces, tasks, kind, parent>>
    BY <1>6 DEF Tree!CloseReturns
  <2>2. \A p \in TreeWindows : w \notin children[p]
    BY <1>4, <1>6 DEF TreeInv, Links
  <2>3. \A p \in TreeWindows : children'[p] = children[p] \ {w}
    BY <2>1, <2>2
  <2>4. surfaces' = surfaces \ {w}
    BY <1>6, <2>1
  <2>5. Links'
    BY <2>1 DEF TreeInv, Links
  <2> QED
    BY <1>1, <1>4, <2>1, <2>3, <2>4, <2>5 DEF Tree!TypeOK
<1> QED
  BY <1>5, <1>6

\* The calls that are left are the ones below, and the call that returned was the innermost.
LEMMA PoppedCalls ==
    ASSUME TreeInv, Tree!CloseReturns, NEW w, w = Tree!Top.win
    PROVE  /\ Len(stack) \in Nat \ {0} /\ Len(stack') = Len(stack) - 1
           /\ \A i \in 1..Len(stack') : stack'[i] = stack[i] /\ i \in 1..Len(stack)
           /\ \A i \in 1..Len(stack) : stack[i].win # w => i \in 1..Len(stack')
<1>1. stack \in Seq(CloseFrame) /\ ~Tree!Idle /\ stack' = Tree!Below
  BY DEF TreeInv, Tree!TypeOK, CloseFrame, Tree!CloseReturns
<1>2. /\ Len(stack) \in Nat \ {0} /\ Len(stack') = Len(stack) - 1
      /\ \A i \in 1..Len(stack') : stack'[i] = stack[i]
  BY <1>1, BelowCalls
<1>3. \A i \in 1..Len(stack') : i \in 1..Len(stack)
  BY <1>2
<1>4. stack[Len(stack)].win = w
  BY DEF Tree!Top
<1>5. \A i \in 1..Len(stack) : i # Len(stack) => i \in 1..Len(stack')
  BY <1>2
<1> QED
  BY <1>2, <1>3, <1>4, <1>5

\* The drop task of a window takes it out of the registry when nothing refers to it any more.
LEMMA ForgottenWindow ==
    ASSUME TreeInv, Tree!CloseReturns, Tree!Top.task
    PROVE  /\ Len(stack) = 1 /\ Tree!Top.win \notin surfaces
           /\ \A j \in 1..Len(tasks) : tasks[j] # Tree!Top.win
           /\ ~Reentrant => children[Tree!Top.win] = {}
<1>1. Tree!TypeOK /\ ~Tree!Idle /\ Tree!Top.kids = {}
  BY DEF TreeInv, Tree!CloseReturns
<1>2. stack \in Seq(CloseFrame)
  BY <1>1 DEF Tree!TypeOK, CloseFrame
<1>3. Len(stack) \in Nat \ {0} /\ Tree!Top \in CloseFrame
  BY <1>1, <1>2, BelowCalls
<1>4. Len(stack) \in 1..Len(stack)
  BY <1>3
<1>5. /\ Len(stack) = 1 /\ Tree!Top.win \notin surfaces
      /\ \A j \in 1..Len(tasks) : tasks[j] # Tree!Top.win
  BY <1>4 DEF Tree!Top, TreeInv, TaskFrameOK
<1>6. ASSUME ~Reentrant, NEW c \in children[Tree!Top.win]
      PROVE  FALSE
  <2>1. Tree!Top.win \in TreeWindows
    BY <1>3 DEF CloseFrame
  <2>2. c \in surfaces
    BY <1>1, <1>6, <2>1 DEF TreeInv, Links, Tree!TypeOK
  <2>3. \E j \in 1..Len(stack) : stack[j].win = c
    BY <1>1, <1>4, <1>6 DEF TreeInv, KidsLeft, Tree!Top
  <2>4. \A j \in 1..Len(stack) : j = Len(stack)
    BY <1>5
  <2> QED
    BY <1>5, <2>2, <2>3, <2>4 DEF Tree!Top
<1> QED
  BY <1>5, <1>6

LEMMA CloseReturnsStep ==
    ASSUME Tree!ConstantsAssumption, TreeInv, Tree!CloseReturns
    PROVE  TreeInv'
<1> DEFINE w == Tree!Top.win
<1>1. /\ w \in TreeWindows /\ stack' \in Seq(CloseFrame)
      /\ surfaces' = surfaces \ {w} /\ tree_callback' = tree_callback \ {w}
      /\ children' \in [TreeWindows -> SUBSET TreeWindows] /\ tree_closed' \subseteq TreeWindows
      /\ \A p \in TreeWindows : children'[p] = children[p] \ {w}
      /\ tasks' \in Seq(TreeWindows) /\ Links'
  BY CloseReturnsEffect
<1>2. /\ Len(stack) \in Nat \ {0} /\ Len(stack') = Len(stack) - 1
      /\ \A i \in 1..Len(stack') : stack'[i] = stack[i] /\ i \in 1..Len(stack)
      /\ \A i \in 1..Len(stack) : stack[i].win # w => i \in 1..Len(stack')
  BY PoppedCalls
<1>3. UNCHANGED <<kind, parent>> /\ app' \in BOOLEAN
  BY DEF Tree!CloseReturns
<1>4. tree_closed' = tree_closed \/ (tree_closed' = tree_closed \cup {w} /\ w \in surfaces)
  BY DEF Tree!CloseReturns, Tree!DropWindow
<1>5. \/ tasks' = tasks
      \/ /\ w \in surfaces /\ Len(tasks') = Len(tasks) + 1 /\ tasks'[Len(tasks) + 1] = w
         /\ \A i \in 1..Len(tasks) : tasks'[i] = tasks[i]
  <2>1. CASE w \in tree_callback \cap surfaces
    <3>1. Tree!DropWindow(w) /\ UNCHANGED <<kind, parent>>
      BY <2>1 DEF Tree!CloseReturns
    <3> QED
      BY <2>1, <3>1, DropEffect
  <2>2. CASE w \notin tree_callback \cap surfaces
    BY <2>2 DEF Tree!CloseReturns
  <2> QED
    BY <2>1, <2>2
<1>6. \/ UNCHANGED <<tree_windows, focus>>
      \/ /\ Tree!Top.task /\ tree_windows' = tree_windows \ {w} /\ focus' = IF focus = w THEN None ELSE focus
         /\ w \notin surfaces /\ Len(stack) = 1 /\ \A j \in 1..Len(tasks) : tasks[j] # w
         /\ ~Reentrant => children[w] = {}
  BY ForgottenWindow DEF Tree!CloseReturns, Tree!drop_window
<1>7. Tree!TypeOK /\ Opened /\ Tree!FocusIsRegistered /\ TasksOK /\ TaskFrameOK /\ ClosedOnStack /\ Links
  BY DEF TreeInv
<1> HIDE DEF w
<1>8. Tree!TypeOK'
  <2>1. tree_windows' \subseteq TreeWindows /\ surfaces' \subseteq tree_windows' /\ tree_callback' \subseteq tree_windows'
    BY <1>1, <1>6, <1>7 DEF Tree!TypeOK
  <2>2. focus' \in TreeWindows \cup {None}
    BY <1>6, <1>7 DEF Tree!TypeOK
  <2> QED
    BY <1>1, <1>3, <1>7, <2>1, <2>2 DEF Tree!TypeOK, CloseFrame
<1>9. Opened'
  BY <1>1, <1>3, <1>4, <1>6, <1>7 DEF Opened, Tree!TypeOK
<1>10. Tree!FocusIsRegistered'
  BY <1>6, <1>7 DEF Tree!FocusIsRegistered
<1>11. Len(tasks) \in Nat
  BY <1>7, CallTypes
<1>12. TasksOK'
  <2>1. CASE tasks' = tasks
    BY <1>1, <1>6, <1>7, <2>1 DEF TasksOK
  <2>2. CASE tasks' # tasks
    <3>1. /\ w \in surfaces /\ Len(tasks') = Len(tasks) + 1 /\ tasks'[Len(tasks) + 1] = w
          /\ \A i \in 1..Len(tasks) : tasks'[i] = tasks[i]
          /\ tree_windows' = tree_windows
      BY <1>5, <1>6, <2>2
    <3>2. \A i \in 1..Len(tasks') : i \in 1..Len(tasks) \/ i = Len(tasks) + 1
      BY <3>1, <1>11
    <3> QED
      BY <1>1, <1>7, <3>1, <3>2 DEF TasksOK, Tree!TypeOK
  <2> QED
    BY <2>1, <2>2
<1>13. TaskFrameOK'
  <2> SUFFICES ASSUME NEW i \in 1..Len(stack'), stack'[i].task
               PROVE  /\ i = 1 /\ stack'[i].win \in tree_windows' \ surfaces'
                      /\ \A j \in 1..Len(tasks') : tasks'[j] # stack'[i].win
    BY DEF TaskFrameOK
  <2>1. /\ i = 1 /\ stack'[i].win \in tree_windows \ surfaces
        /\ \A j \in 1..Len(tasks) : tasks[j] # stack'[i].win
    BY <1>2, <1>7 DEF TaskFrameOK
  <2>2. tree_windows' = tree_windows
    <3>1. Len(stack) # 1
      <4>1. \A n \in Nat \ {0} : \A k : k \in 1..(n - 1) => n # 1
        OBVIOUS
      <4> QED
        BY <1>2, <4>1, Zenon
    <3> QED
      BY <1>6, <3>1
  <2>3. \A j \in 1..Len(tasks') : tasks'[j] # stack'[i].win
    <3>1. CASE tasks' = tasks
      BY <2>1, <3>1
    <3>2. CASE tasks' # tasks
      <4>1. /\ w \in surfaces /\ Len(tasks') = Len(tasks) + 1 /\ tasks'[Len(tasks) + 1] = w
            /\ \A j \in 1..Len(tasks) : tasks'[j] = tasks[j]
        BY <1>5, <3>2
      <4>2. \A j \in 1..Len(tasks') : j \in 1..Len(tasks) \/ j = Len(tasks) + 1
        BY <4>1, <1>11
      <4> QED
        BY <2>1, <4>1, <4>2
    <3> QED
      BY <3>1, <3>2
  <2> QED
    BY <1>1, <2>1, <2>2, <2>3
<1>14. ClosedOnStack'
  <2> SUFFICES ASSUME NEW c \in tree_closed' \cap surfaces'
               PROVE  \E i \in 1..Len(stack') : stack'[i].win = c
    BY DEF ClosedOnStack
  <2>1. c # w /\ c \in tree_closed \cap surfaces
    BY <1>1, <1>4
  <2> QED
    BY <1>2, <1>7, <2>1 DEF ClosedOnStack
<1>15. ASSUME ~Reentrant
       PROVE  KidsLeft'
  <2> SUFFICES ASSUME NEW i \in 1..Len(stack'), NEW d \in children'[stack'[i].win]
               PROVE  d \in stack'[i].kids \/ \E j \in 1..Len(stack') : stack'[j].win = d
    BY DEF KidsLeft
  <2>1. stack'[i] = stack[i] /\ i \in 1..Len(stack) /\ stack[i].win \in TreeWindows
    BY <1>2, <1>7, CallTypes
  <2>2. d # w /\ d \in children[stack[i].win]
    BY <1>1, <2>1
  <2>3. d \in stack[i].kids \/ \E j \in 1..Len(stack) : stack[j].win = d
    BY <1>15, <2>1, <2>2 DEF TreeInv, KidsLeft
  <2> QED
    BY <1>2, <2>1, <2>2, <2>3
<1>16. ASSUME ~Reentrant
       PROVE  ParentRegistered'
  <2> SUFFICES ASSUME NEW c \in surfaces', kind[c] \in {"dialog", "popup"}, parent[c] # None
               PROVE  parent[c] \in tree_windows'
    BY <1>3 DEF ParentRegistered
  <2>1. c \in surfaces /\ c \in TreeWindows
    BY <1>1, <1>7 DEF Tree!TypeOK
  <2>2. parent[c] \in tree_windows
    BY <1>16, <2>1 DEF TreeInv, ParentRegistered
  <2>3. c \in children[parent[c]]
    BY <1>7, <2>1, <2>2 DEF Links, Tree!TypeOK
  <2> QED
    BY <1>6, <1>16, <2>2, <2>3
<1> QED
  BY <1>1, <1>8, <1>9, <1>10, <1>12, <1>13, <1>14, <1>15, <1>16 DEF TreeInv

LEMMA KeyboardStep ==
    ASSUME Tree!ConstantsAssumption, TreeInv, (\E w \in TreeWindows : Tree!KeyboardEnter(w)) \/ Tree!KeyboardLeave
    PROVE  TreeInv'
<1>1. /\ UNCHANGED <<kind, parent, children, tree_closed, tree_windows, surfaces, tree_callback, tasks, stack, app>>
      /\ focus' \in tree_windows \cup {None}
  BY DEF Tree!KeyboardEnter, Tree!KeyboardLeave, Tree!get_window
<1>2. Tree!TypeOK'
  BY <1>1 DEF TreeInv, Tree!TypeOK
<1>3. Opened' /\ Links' /\ Tree!FocusIsRegistered'
  BY <1>1 DEF TreeInv, Opened, Links, Tree!FocusIsRegistered
<1>4. TasksOK' /\ TaskFrameOK' /\ ClosedOnStack' /\ (~Reentrant => KidsLeft' /\ ParentRegistered')
  BY <1>1 DEF TreeInv, TasksOK, TaskFrameOK, ClosedOnStack, KidsLeft, ParentRegistered
<1> QED
  BY <1>2, <1>3, <1>4 DEF TreeInv

LEMMA TreeStep == ASSUME Tree!ConstantsAssumption PROVE TreeInv /\ [Tree!Next]_Tree!vars => TreeInv'
<1> SUFFICES ASSUME TreeInv, [Tree!Next]_Tree!vars PROVE TreeInv'
  OBVIOUS
<1>1. CASE UNCHANGED Tree!vars
  <2>1. Tree!TypeOK' /\ Opened' /\ Links' /\ Tree!FocusIsRegistered'
    BY <1>1 DEF TreeInv, Tree!vars, Tree!TypeOK, Opened, Links, Tree!FocusIsRegistered
  <2>2. TasksOK' /\ TaskFrameOK' /\ ClosedOnStack' /\ (~Reentrant => KidsLeft' /\ ParentRegistered')
    BY <1>1 DEF TreeInv, Tree!vars, TasksOK, TaskFrameOK, ClosedOnStack, KidsLeft, ParentRegistered
  <2> QED
    BY <2>1, <2>2 DEF TreeInv
<1>2. ASSUME NEW w \in TreeWindows, NEW k \in {"normal", "dialog", "popup"}, NEW p \in TreeWindows \cup {None},
             Tree!OpenWindow(w, k, p) \/ Tree!OpenFails(w, k, p)
      PROVE  TreeInv'
  BY <1>2, OpenStep, FailStep
<1>3. ASSUME NEW w \in TreeWindows, Tree!RemoveWindow(w) \/ Tree!CompositorClose(w) \/ Tree!KeyboardEnter(w)
      PROVE  TreeInv'
  BY <1>3, RemoveStep, CompositorCloseStep, KeyboardStep
<1>4. CASE Tree!KeyboardLeave
  BY <1>4, KeyboardStep
<1>5. CASE Tree!Close
  BY <1>5, DropTaskStep, CloseReturnsStep, CloseChildStep DEF Tree!Close
<1>6. CASE Tree!Done
  BY <1>6, <1>1 DEF Tree!Done
<1> QED
  BY <1>1, <1>2, <1>3, <1>4, <1>5, <1>6 DEF Tree!Next

\* The property of the runs, from the invariant.
LEMMA TreeImplies == ASSUME Tree!ConstantsAssumption PROVE TreeInv => Tree!TypeOK /\ Tree!NoDanglingWindow
<1> SUFFICES ASSUME TreeInv PROVE Tree!NoDanglingWindow
  BY DEF TreeInv
<1>1. ~Reentrant => Tree!NoOrphans
  BY DEF TreeInv, ParentRegistered, Tree!NoOrphans
<1>2. Tree!ChildrenExist
  BY DEF TreeInv, Links, Tree!ChildrenExist, Tree!TypeOK
<1>3. Tree!FocusIsRegistered /\ Tree!DropTaskFindsWindow
  BY DEF TreeInv, TasksOK, Tree!DropTaskFindsWindow
<1> QED
  BY <1>1, <1>2, <1>3 DEF Tree!NoDanglingWindow

LEMMA TreeInductive ==
    ASSUME Tree!ConstantsAssumption
    PROVE  /\ Tree!Init => TreeInv
           /\ TreeInv /\ [Tree!Next]_Tree!vars => TreeInv'
           /\ TreeInv => Tree!TypeOK /\ Tree!NoDanglingWindow
  BY TreeInit, TreeStep, TreeImplies

-----------------------------
(* The serials                                                             *)

\* What the tracker has of each kind of press is the serial of the last one, no press is later than
\* what was issued, and the selection serial is that of the latest.
Tracked ==
    /\ \A k \in Serial!Presses :
          /\ pressed[k] = None => serials[k] = None
          /\ pressed[k] # None => /\ serials[k] = pressed[k].serial
                                 /\ ~Serial!After(pressed[k], issued)
    /\ \A k \in Serial!Presses :
          Serial!IsLatest(pressed, k) => selection_serial = pressed[k].serial

SerialInv ==
    Serial!TypeOK /\ Tracked /\ Serial!GrabCitesLatestPress /\ Serial!SelectionCitesLatestPress

LEMMA SerialInit == ASSUME Serial!ConstantsAssumption PROVE Serial!Init => SerialInv
<1> SUFFICES ASSUME Serial!Init PROVE SerialInv
  OBVIOUS
<1>1. Serial!TypeOK
  BY DEF Serial!Init, Serial!ConstantsAssumption, Serial!TypeOK, Serial!Stamp, Serial!Serial
<1>2. Serial!Presses \subseteq Serial!SerialKind
  BY DEF Serial!Presses, Serial!SerialKind
<1>3. \A k \in Serial!Presses : /\ pressed[k] = None /\ serials[k] = None
                               /\ grab.presses[k] = None /\ selection.presses[k] = None
  BY <1>2 DEF Serial!Init
<1>4. Tracked /\ Serial!GrabCitesLatestPress /\ Serial!SelectionCitesLatestPress
  BY <1>3 DEF Tracked, Serial!GrabCitesLatestPress, Serial!SelectionCitesLatestPress,
     Serial!IsLatest, Serial!Init
<1> QED
  BY <1>1, <1>4 DEF SerialInv

\* The stamp of the next event is later than the last one.
LEMMA LaterIsAfter ==
    ASSUME Serial!ConstantsAssumption, issued \in Serial!Stamp, NEW n \in 1..2
    PROVE  /\ Serial!Later(n) \in Serial!Stamp /\ Serial!Later(n) # None
           /\ \A s \in Serial!Stamp :
                 ~Serial!After(s, issued) => /\ Serial!After(Serial!Later(n), s)
                                             /\ ~Serial!After(s, Serial!Later(n))
           /\ ~Serial!After(Serial!Later(n), Serial!Later(n))
<1>1. /\ issued.epoch \in Nat /\ issued.serial \in Nat /\ issued.serial < Rollover
      /\ Rollover \in Nat /\ Rollover >= 2 /\ n \in {1, 2}
  BY DEF Serial!ConstantsAssumption, Serial!Stamp, Serial!Serial
<1>2. /\ Serial!Later(n).epoch \in Nat /\ Serial!Later(n).serial \in Nat
      /\ Serial!Later(n).serial < Rollover
      /\ Serial!Later(n) = [epoch |-> Serial!Later(n).epoch, serial |-> Serial!Later(n).serial]
      /\ \/ Serial!Later(n).epoch > issued.epoch
         \/ Serial!Later(n).epoch = issued.epoch /\ Serial!Later(n).serial > issued.serial
  BY <1>1 DEF Serial!Later
<1>3. Serial!Later(n) \in Serial!Stamp
  BY <1>1, <1>2 DEF Serial!Stamp, Serial!Serial
<1>4. \A s \in Serial!Stamp : s.epoch \in Nat /\ s.serial \in Nat
  BY <1>1 DEF Serial!Stamp, Serial!Serial
<1> QED
  BY <1>1, <1>2, <1>3, <1>4 DEF Serial!After, Serial!ConstantsAssumption

LEMMA SerialEventStep ==
    ASSUME Serial!ConstantsAssumption, SerialInv, NEW k \in Serial!SerialKind, NEW n \in 1..2,
           Serial!Event(k, n)
    PROVE  SerialInv'
<1> USE DEF SerialInv
<1> DEFINE l == Serial!Later(n)
<1>1. /\ l \in Serial!Stamp /\ l # None /\ ~Serial!After(l, l) /\ l.serial \in Serial!Serial
      /\ \A s \in Serial!Stamp :
            ~Serial!After(s, issued) => Serial!After(l, s) /\ ~Serial!After(s, l)
  BY LaterIsAfter DEF Serial!TypeOK, Serial!Stamp
<1>2. /\ issued' = l /\ serials' = [serials EXCEPT ![k] = l.serial] /\ events' = events + 1
      /\ selection_serial' = IF k \in Serial!Presses THEN l.serial ELSE selection_serial
      /\ pressed' = IF k \in Serial!Presses THEN [pressed EXCEPT ![k] = l] ELSE pressed
      /\ UNCHANGED <<selection, grab>> /\ events < MaxEvents
  BY DEF Serial!Event, Serial!update
<1> HIDE DEF l
<1>3. Serial!TypeOK'
  BY <1>1, <1>2 DEF Serial!TypeOK, Serial!ConstantsAssumption
<1>4. Serial!GrabCitesLatestPress' /\ Serial!SelectionCitesLatestPress'
  BY <1>2 DEF Serial!GrabCitesLatestPress, Serial!SelectionCitesLatestPress, Serial!IsLatest,
     Serial!After, Serial!SameEpoch
<1>5. Serial!Presses \subseteq Serial!SerialKind
  BY DEF Serial!Presses, Serial!SerialKind
<1>6. \A j \in Serial!Presses : pressed[j] # None => pressed[j] \in Serial!Stamp
  BY DEF Serial!TypeOK
<1>7. ASSUME NEW j \in Serial!Presses
      PROVE  /\ pressed'[j] = None => serials'[j] = None
             /\ pressed'[j] # None => /\ serials'[j] = pressed'[j].serial
                                     /\ ~Serial!After(pressed'[j], l)
  <2>1. CASE j = k
    BY <1>1, <1>2, <1>5, <2>1 DEF Serial!TypeOK
  <2>2. CASE j # k
    <3>1. pressed'[j] = pressed[j] /\ serials'[j] = serials[j]
      BY <1>2, <1>5, <2>2 DEF Serial!TypeOK
    <3> QED
      BY <1>1, <1>6, <3>1 DEF Tracked
  <2> QED
    BY <2>1, <2>2
<1>8. ASSUME NEW j \in Serial!Presses, Serial!IsLatest(pressed', j)
      PROVE  selection_serial' = pressed'[j].serial
  <2>1. CASE k \notin Serial!Presses
    BY <1>2, <1>8, <2>1 DEF Tracked
  <2>2. CASE k \in Serial!Presses /\ j = k
    BY <1>2, <2>2 DEF Serial!TypeOK
  <2>3. CASE k \in Serial!Presses /\ j # k
    <3>1. pressed'[j] = pressed[j] /\ pressed'[k] = l
      BY <1>2, <2>3 DEF Serial!TypeOK
    <3>2. pressed[j] # None /\ Serial!After(pressed[j], l)
      BY <1>1, <1>8, <2>3, <3>1 DEF Serial!IsLatest
    <3>3. ~Serial!After(pressed[j], issued) /\ pressed[j] \in Serial!Stamp
      BY <1>6, <3>2 DEF Tracked
    <3> QED
      BY <1>1, <3>2, <3>3
  <2> QED
    BY <2>1, <2>2, <2>3
<1>9. Tracked'
  BY <1>2, <1>7, <1>8 DEF Tracked, Serial!After, Serial!IsLatest
<1> QED
  BY <1>3, <1>4, <1>9

\* In one epoch the later press has the larger serial.
LEMMA GrabStep ==
    ASSUME Serial!ConstantsAssumption, SerialInv, Serial!OpenPopup
    PROVE  SerialInv'
<1> USE DEF SerialInv
<1> DEFINE m == pressed["MousePress"]
           y == pressed["KeyPress"]
           g == Serial!popup_grab
<1>1. /\ grab' = [cites |-> g, presses |-> pressed]
      /\ UNCHANGED <<issued, serials, selection_serial, events, pressed, selection>>
  BY DEF Serial!OpenPopup
<1>2. Serial!Presses = {"MousePress", "KeyPress"} /\ Serial!Presses \subseteq Serial!SerialKind
  BY DEF Serial!Presses, Serial!SerialKind
<1>3. /\ m = None => Serial!get("MousePress") = 0
      /\ m # None => Serial!get("MousePress") = m.serial /\ m.serial \in Serial!Serial
      /\ y = None => Serial!get("KeyPress") = 0
      /\ y # None => Serial!get("KeyPress") = y.serial /\ y.serial \in Serial!Serial
  <2>1. \A k \in Serial!Presses :
           /\ pressed[k] = None => Serial!get(k) = 0
           /\ pressed[k] # None => Serial!get(k) = pressed[k].serial /\ pressed[k].serial \in Serial!Serial
    <3> TAKE k \in Serial!Presses
    <3>1. pressed[k] # None => pressed[k].serial \in Serial!Serial
      BY DEF Serial!TypeOK, Serial!Stamp
    <3>2. None \notin Serial!Serial
      BY DEF Serial!ConstantsAssumption, Serial!Serial
    <3> QED
      BY <3>1, <3>2 DEF Tracked, Serial!get
  <2> QED
    BY <1>2, <2>1
<1>4. Serial!get("MousePress") \in Serial!Serial /\ Serial!get("KeyPress") \in Serial!Serial
  BY <1>3 DEF Serial!Serial, Serial!ConstantsAssumption
<1>5. g = LET s == IF Serial!get("MousePress") > Serial!get("KeyPress")
                   THEN Serial!get("MousePress") ELSE Serial!get("KeyPress")
          IN IF s # 0 THEN s ELSE None
  BY DEF Serial!popup_grab, Serial!Max
<1>6. g \in Serial!Serial \cup {None}
  BY <1>4, <1>5
<1> HIDE DEF g
<1>7. Serial!TypeOK'
  BY <1>1, <1>6 DEF Serial!TypeOK
<1>8. Tracked' /\ Serial!SelectionCitesLatestPress'
  BY <1>1 DEF Tracked, Serial!SelectionCitesLatestPress, Serial!IsLatest, Serial!After
<1>9. Serial!GrabCitesLatestPress'
  <2>1. grab'.cites = g /\ grab'.presses = pressed
    BY <1>1
  <2>2. ASSUME \A k \in Serial!Presses : pressed[k] = None PROVE g = None
    BY <1>2, <1>3, <1>5, <2>2
  <2>3. ASSUME NEW k \in Serial!Presses, Serial!IsLatest(pressed, k), Serial!SameEpoch(pressed)
        PROVE  g = IF pressed[k].serial = 0 THEN None ELSE pressed[k].serial
    <3>1. \A j \in Serial!Presses : pressed[j] # None =>
             pressed[j].epoch \in Nat /\ pressed[j].serial \in Nat
      BY DEF Serial!TypeOK, Serial!Stamp, Serial!Serial, Serial!ConstantsAssumption
    <3>2. pressed[k] # None /\ \A j \in Serial!Presses \ {k} :
             pressed[j] = None \/ pressed[k].serial > pressed[j].serial
      BY <2>3, <3>1 DEF Serial!IsLatest, Serial!SameEpoch, Serial!After
    <3>3. CASE k = "MousePress"
      BY <1>2, <1>3, <1>5, <3>1, <3>2, <3>3
    <3>4. CASE k = "KeyPress"
      BY <1>2, <1>3, <1>5, <3>1, <3>2, <3>4
    <3> QED
      BY <1>2, <3>3, <3>4
  <2> QED
    BY <2>1, <2>2, <2>3 DEF Serial!GrabCitesLatestPress, Serial!IsLatest, Serial!SameEpoch,
       Serial!After
<1> QED
  BY <1>7, <1>8, <1>9

LEMMA SerialStep ==
    ASSUME Serial!ConstantsAssumption, SerialInv, [Serial!Next]_Serial!vars
    PROVE  SerialInv'
<1>1. CASE Serial!SetSelection
  <2> USE DEF SerialInv
  <2>1. /\ selection' = [cites |-> selection_serial, presses |-> pressed]
        /\ UNCHANGED <<issued, serials, selection_serial, events, pressed, grab>>
    BY <1>1 DEF Serial!SetSelection
  <2>2. Serial!TypeOK'
    BY <2>1 DEF Serial!TypeOK
  <2>3. Tracked' /\ Serial!GrabCitesLatestPress'
    BY <2>1 DEF Tracked, Serial!GrabCitesLatestPress, Serial!IsLatest, Serial!SameEpoch,
       Serial!After
  <2>4. Serial!SelectionCitesLatestPress'
    BY <2>1 DEF Tracked, Serial!SelectionCitesLatestPress, Serial!IsLatest, Serial!After
  <2> QED
    BY <2>2, <2>3, <2>4
<1>2. CASE UNCHANGED Serial!vars
  <2>1. Serial!TypeOK'
    BY <1>2 DEF SerialInv, Serial!vars, Serial!TypeOK
  <2>2. Tracked' /\ Serial!GrabCitesLatestPress' /\ Serial!SelectionCitesLatestPress'
    BY <1>2 DEF SerialInv, Serial!vars, Tracked, Serial!GrabCitesLatestPress,
       Serial!SelectionCitesLatestPress, Serial!IsLatest, Serial!SameEpoch, Serial!After
  <2> QED
    BY <2>1, <2>2 DEF SerialInv
<1> QED
  BY <1>1, <1>2, SerialEventStep, GrabStep DEF Serial!Next

LEMMA SerialInductive ==
    ASSUME Serial!ConstantsAssumption
    PROVE  /\ Serial!Init => SerialInv
           /\ SerialInv /\ [Serial!Next]_Serial!vars => SerialInv'
           /\ SerialInv => /\ Serial!TypeOK /\ Serial!GrabCitesLatestPress
                           /\ Serial!SelectionCitesLatestPress
  BY SerialInit, SerialStep DEF SerialInv

-----------------------------------------------------------------------------
(* The size of a window                                                    *)

\* A configure that xdg_toplevel has sent and xdg_surface has not completed.
Configures ==
    [size : Sizes \cup {0}, maximized : BOOLEAN, fullscreen : BOOLEAN, resizing : BOOLEAN,
     restored : BOOLEAN]

\* It gives a size to a maximized or fullscreen window, and it restores a window that is maximized now.
InProgressOK ==
    in_progress_configure # <<>> =>
        /\ in_progress_configure[1] \in Configures
        /\ in_progress_configure[1].restored = maximized
        /\ (in_progress_configure[1].maximized \/ in_progress_configure[1].fullscreen)
              => in_progress_configure[1].size # 0

\* A destination that was ever set is the size of the window.
DestinationOK ==
    /\ destination \in {0, bounds}
    /\ Size!DestinationFitsBuffer

SizeInv ==
    /\ Size!TypeOK /\ last \in Configures /\ InProgressOK /\ DestinationOK
    /\ Size!SettlesOnConfigured

LEMMA SizeInit == ASSUME Size!ConstantsAssumption PROVE Size!Init => SizeInv
<1> SUFFICES ASSUME Size!Init PROVE SizeInv
  OBVIOUS
<1>1. Size!InitialSize \in Sizes
  BY DEF Size!InitialSize, Size!ConstantsAssumption
<1>2. Size!InitialSize \in Nat \ {0}
  BY <1>1 DEF Size!ConstantsAssumption
<1>3. Size!NoConfigure \in Configures /\ Size!NoConfigure.size = 0
  BY DEF Size!NoConfigure, Configures
<1>4. Size!TypeOK
  <2>1. Len(in_progress_configure) <= 1 /\ requests \in Seq(Nat \ {0}) /\ Len(requests) <= 1
    BY DEF Size!Init
  <2>2. /\ maximized \in BOOLEAN /\ fullscreen \in BOOLEAN /\ tiling \in BOOLEAN
        /\ resize_throttle \in BOOLEAN
    BY DEF Size!Init
  <2>3. configures \in 0..MaxConfigures
    BY DEF Size!Init, Size!ConstantsAssumption
  <2>4. {window_bounds, bounds, windowed} \subseteq Nat \ {0}
    BY <1>2 DEF Size!Init
  <2>5. destination \in Nat /\ committed \in [destination : Nat, buffer : Nat, attached : BOOLEAN]
    BY DEF Size!Init
  <2> QED
    BY <2>1, <2>2, <2>3, <2>4, <2>5 DEF Size!TypeOK
<1> QED
  BY <1>3, <1>4 DEF Size!Init, SizeInv, InProgressOK, DestinationOK, Size!SettlesOnConfigured,
     Size!DestinationFitsBuffer

LEMMA SizeStep ==
    ASSUME Size!ConstantsAssumption, SizeInv, [Size!Next]_Size!vars
    PROVE  SizeInv'
<1>0. /\ Size!TypeOK /\ last \in Configures /\ InProgressOK /\ DestinationOK
      /\ Size!SettlesOnConfigured
      /\ Inset \in Nat /\ Sizes \subseteq Nat \ {0} /\ MaxConfigures \in Nat
  BY DEF SizeInv, Size!ConstantsAssumption
<1>1. ASSUME NEW size \in Sizes \cup {0}, NEW max \in BOOLEAN, NEW full \in BOOLEAN,
             NEW resizing \in BOOLEAN,
             Size!ToplevelConfigure(size, max, full, resizing)
      PROVE  SizeInv'
  <2> DEFINE c == [size |-> size, maximized |-> max, fullscreen |-> full,
                   resizing |-> resizing, restored |-> maximized]
  <2>1. c \in Configures
    BY <1>0 DEF Configures, Size!TypeOK
  <2>2. in_progress_configure' = <<c>>
    BY <1>1 DEF Size!ToplevelConfigure
  <2>3. max \/ full => size # 0
    BY <1>1 DEF Size!ToplevelConfigure
  <2>4. InProgressOK'
    BY <1>1, <2>1, <2>2, <2>3 DEF InProgressOK, Size!ToplevelConfigure, Size!stateVars
  <2>5. Size!TypeOK'
    BY <1>0, <1>1, <2>2 DEF Size!TypeOK, Size!ToplevelConfigure, Size!stateVars
  <2>6. (last \in Configures /\ DestinationOK /\ Size!SettlesOnConfigured)'
    BY <1>0, <1>1 DEF DestinationOK, Size!SettlesOnConfigured,
       Size!DestinationFitsBuffer, Size!ToplevelConfigure, Size!stateVars, Size!compute_outer_size
  <2> QED
    BY <2>4, <2>5, <2>6 DEF SizeInv
<1>2. CASE Size!SurfaceConfigure
  <2> DEFINE c == in_progress_configure[1]
             tiled == c.maximized \/ c.fullscreen
             n == Size!NewSize(c)
  <2>1. /\ in_progress_configure # <<>> /\ Head(in_progress_configure) = c /\ c \in Configures
        /\ c.restored = maximized /\ (tiled => c.size # 0)
    BY <1>0, <1>2 DEF Size!SurfaceConfigure, InProgressOK
  <2>2. /\ c.size \in Nat /\ c.maximized \in BOOLEAN /\ c.fullscreen \in BOOLEAN
        /\ c.resizing \in BOOLEAN
    <3>1. \A f \in Configures :
             /\ f.size \in Sizes \cup {0} /\ f.maximized \in BOOLEAN /\ f.fullscreen \in BOOLEAN
             /\ f.resizing \in BOOLEAN
      BY DEF Configures
    <3>2. c \in Configures
      BY <2>1
    <3> HIDE DEF c
    <3>3. c.size \in Sizes \cup {0}
      BY <3>1, <3>2, Zenon
    <3>4. Sizes \cup {0} \subseteq Nat
      BY DEF Size!ConstantsAssumption
    <3> QED
      BY <3>1, <3>2, <3>3, <3>4, Zenon
  <2>3. n \in Nat \ {0}
    BY <1>0, <2>1, <2>2 DEF Size!NewSize, Size!compute_outer_size, Size!TypeOK
  <2>4. ~tiled /\ ~maximized /\ c.size # 0 => n = Size!compute_outer_size(c.size, FALSE)
    BY DEF Size!NewSize
  <2>5. /\ in_progress_configure' = <<>> /\ last' = c
        /\ maximized' = c.maximized /\ fullscreen' = c.fullscreen /\ tiling' = tiled
        /\ UNCHANGED <<committed, requests, configures>>
    BY <1>2, <2>1 DEF Size!SurfaceConfigure
  <2>6. \/ /\ c.resizing
           /\ UNCHANGED <<resize_throttle, window_bounds, bounds, destination, windowed>>
        \/ /\ resize_throttle' \in BOOLEAN /\ bounds' = n
           /\ destination' \in {destination, n} /\ (n # bounds => destination' = n)
           /\ window_bounds' \in {window_bounds, n} /\ windowed' \in {windowed, n}
    BY <1>2, <2>1 DEF Size!SurfaceConfigure, Size!Throttled, Size!Resize
  <2> HIDE DEF n, c
  <2>8. Size!TypeOK'
    <3>1. maximized' \in BOOLEAN /\ fullscreen' \in BOOLEAN /\ tiling' \in BOOLEAN
      BY <2>2, <2>5, Zenon
    <3>2. /\ resize_throttle' \in BOOLEAN /\ window_bounds' \in Nat \ {0} /\ bounds' \in Nat \ {0}
          /\ windowed' \in Nat \ {0} /\ destination' \in Nat
      BY <1>0, <2>3, <2>6 DEF Size!TypeOK
    <3> QED
      BY <1>0, <2>5, <3>1, <3>2 DEF Size!TypeOK
  <2>9. InProgressOK' /\ last' \in Configures
    BY <2>1, <2>5 DEF InProgressOK
  <2>10. DestinationOK'
    <3>1. destination' \in {0, bounds'}
      BY <1>0, <2>6 DEF DestinationOK
    <3> QED
      BY <1>0, <2>5, <3>1 DEF DestinationOK, Size!DestinationFitsBuffer
  <2>11. Size!SettlesOnConfigured'
    <3> SUFFICES ASSUME c.size # 0, ~c.resizing, ~c.restored, ~c.maximized, ~c.fullscreen
                 PROVE  bounds' = Size!compute_outer_size(c.size, FALSE)
      BY <2>5 DEF Size!SettlesOnConfigured, Size!compute_outer_size
    <3> QED
      BY <2>1, <2>4, <2>6
  <2> QED
    BY <2>8, <2>9, <2>10, <2>11 DEF SizeInv
<1>3. ASSUME NEW size \in Sizes, Size!AppResize(size)
      PROVE  SizeInv'
  <2>1. Size!compute_outer_size(size, tiling) \in Nat \ {0}
    BY <1>0 DEF Size!compute_outer_size
  <2>2. Size!TypeOK'
    BY <1>0, <1>3, <2>1 DEF Size!TypeOK, Size!AppResize, Size!stateVars
  <2>3. (InProgressOK /\ last \in Configures /\ DestinationOK /\ Size!SettlesOnConfigured
           )'
    BY <1>0, <1>3 DEF InProgressOK, DestinationOK, Size!SettlesOnConfigured,
       Size!DestinationFitsBuffer, Size!AppResize, Size!stateVars, Size!compute_outer_size
  <2> QED
    BY <2>2, <2>3 DEF SizeInv
<1>4. CASE Size!AppResizeTask
  <2> DEFINE n == requests[1]
  <2>1. requests # <<>> /\ n \in Nat \ {0} /\ Head(requests) = n
    BY <1>0, <1>4 DEF Size!AppResizeTask, Size!TypeOK
  <2>2. /\ bounds' = n /\ destination' \in {destination, n} /\ (n # bounds => destination' = n)
        /\ windowed' \in {windowed, n} /\ last' = Size!NoConfigure
        /\ UNCHANGED <<in_progress_configure, maximized, fullscreen, tiling,
                       resize_throttle, window_bounds, committed, configures>>
    BY <1>4, <2>1 DEF Size!AppResizeTask, Size!Resize, Size!stateVars
  <2>3. requests' \in Seq(Nat \ {0}) /\ Len(requests') <= 1
    BY <1>0, <1>4, <2>1 DEF Size!AppResizeTask, Size!TypeOK
  <2> HIDE DEF n
  <2>4. Size!TypeOK'
    BY <1>0, <2>1, <2>2, <2>3 DEF Size!TypeOK
  <2>5. last' \in Configures /\ last'.size = 0
    BY <2>2 DEF Size!NoConfigure, Configures
  <2>6. (InProgressOK /\ DestinationOK /\ Size!SettlesOnConfigured)'
    BY <1>0, <2>2, <2>5 DEF InProgressOK, DestinationOK, Size!SettlesOnConfigured,
       Size!DestinationFitsBuffer
  <2> QED
    BY <2>4, <2>5, <2>6 DEF SizeInv
<1>5. CASE Size!Frame \/ Size!FrameFails \/ Size!SetInputRegion
  <2>1. /\ resize_throttle' \in {FALSE, resize_throttle}
        /\ UNCHANGED <<in_progress_configure, maximized, fullscreen, tiling,
                       window_bounds, bounds, destination, requests, configures, last,
                       windowed>>
    BY <1>5 DEF Size!Frame, Size!FrameFails, Size!SetInputRegion, Size!stateVars
  <2>2. \/ committed' = [destination |-> destination, buffer |-> bounds, attached |-> TRUE]
        \/ committed' = [committed EXCEPT !.destination = destination, !.attached = FALSE]
        \/ committed' = committed
    BY <1>5 DEF Size!Frame, Size!FrameFails, Size!SetInputRegion, Size!CommitState
  <2>3. /\ committed' \in [destination : Nat, buffer : Nat, attached : BOOLEAN]
        /\ Size!DestinationFitsBuffer'
    <3>0. /\ destination \in Nat /\ bounds \in Nat /\ destination \in {0, bounds}
          /\ committed \in [destination : Nat, buffer : Nat, attached : BOOLEAN]
      BY <1>0 DEF Size!TypeOK, DestinationOK
    <3>1. CASE committed' = [destination |-> destination, buffer |-> bounds, attached |-> TRUE]
      BY <3>0, <3>1 DEF Size!DestinationFitsBuffer
    <3>2. CASE committed' = [committed EXCEPT !.destination = destination, !.attached = FALSE]
      BY <3>0, <3>2 DEF Size!DestinationFitsBuffer
    <3>3. CASE committed' = committed
      BY <1>0, <3>0, <3>3 DEF DestinationOK, Size!DestinationFitsBuffer
    <3> QED
      BY <2>2, <3>1, <3>2, <3>3
  <2>4. Size!TypeOK'
    BY <1>0, <2>1, <2>3 DEF Size!TypeOK
  <2>5. DestinationOK'
    BY <1>0, <2>1, <2>3 DEF DestinationOK
  <2>6. (InProgressOK /\ last \in Configures /\ Size!SettlesOnConfigured)'
    BY <1>0, <2>1 DEF InProgressOK, Size!SettlesOnConfigured, Size!compute_outer_size
  <2> QED
    BY <2>4, <2>5, <2>6 DEF SizeInv
<1>6. CASE UNCHANGED Size!vars
  <2>1. Size!TypeOK'
    BY <1>0, <1>6 DEF Size!vars, Size!TypeOK
  <2>2. (InProgressOK /\ last \in Configures /\ DestinationOK /\ Size!SettlesOnConfigured
           )'
    BY <1>0, <1>6 DEF Size!vars, InProgressOK, DestinationOK, Size!SettlesOnConfigured,
       Size!DestinationFitsBuffer, Size!compute_outer_size
  <2> QED
    BY <2>1, <2>2 DEF SizeInv
<1> QED
  BY <1>1, <1>2, <1>3, <1>4, <1>5, <1>6 DEF Size!Next

LEMMA SizeInductive ==
    ASSUME Size!ConstantsAssumption
    PROVE  /\ Size!Init => SizeInv
           /\ SizeInv /\ [Size!Next]_Size!vars => SizeInv'
           /\ SizeInv => /\ Size!TypeOK /\ Size!SettlesOnConfigured
                         /\ Size!DestinationFitsBuffer
<1>1. SizeInv => /\ Size!TypeOK /\ Size!SettlesOnConfigured
                 /\ Size!DestinationFitsBuffer
  BY DEF SizeInv, DestinationOK
<1> QED
  BY <1>1, SizeInit, SizeStep

-----------------------------------------------------------------------------
(* Drags                                                                   *)

ReadRecords == [generation : Nat, offer : Drag!Offers, window : Windows]
ActiveDrags == [kind : Drag!DragKinds, paths : Drag!Offers \cup {None}, missed : BOOLEAN]
PlatformDrags == [source_window : Windows \cup {None}, suspended : BOOLEAN, missed : BOOLEAN]

DragTypes ==
    /\ introduced \in 0..MaxOffers
    /\ data_offers \in Seq(Drag!Offers)
    /\ destroyed \subseteq Drag!Offers
    /\ current_offer \in Drag!Offers \cup {None}
    /\ session \in [over : Windows \cup {None}, offer : Drag!Offers \cup {None}, dropped : BOOLEAN]
    /\ drag \in [data_offer : Drag!Offers \cup {None}, window : Windows \cup {None}, generation : Nat]
    /\ reads \subseteq ReadRecords
    /\ read_offers \subseteq Drag!Offers
    /\ external_drag \in Windows \cup {None}
    /\ open \subseteq Windows /\ blocked \subseteq open
    /\ active_drag \in ActiveDrags
    /\ platform_drag \in PlatformDrags

\* A read is of its own generation, and the one of the current generation is of the drag that the
\* compositor has over its window now, of which the window has not been told yet.
ReadsOK ==
    \A r \in reads :
        /\ r.generation <= drag.generation
        /\ \A q \in reads : q.generation = r.generation => q = r
        /\ r.generation = drag.generation => /\ session.over = r.window
                                             /\ session.offer = r.offer
                                             /\ ~session.dropped
                                             /\ drag.window = None

SessionOK ==
    /\ session.over = None => session.offer = None
    /\ drag.window # None => drag.data_offer # None

\* Of a drag that is still there, the paths of which were read, the window was told or the offer is destroyed.
ReadOffersOK ==
    \A o \in read_offers :
        o \in destroyed \/ (session.offer = o /\ ~session.dropped /\ drag.window # None)

DragInv ==
    /\ DragTypes /\ ReadsOK /\ SessionOK /\ ReadOffersOK
    /\ Drag!DragIsCurrent /\ Drag!OneOwnDrag

LEMMA DragInit == ASSUME Drag!ConstantsAssumption PROVE Drag!Init => DragInv
<1> SUFFICES ASSUME Drag!Init PROVE DragInv
  OBVIOUS
<1>1. DragTypes
  BY DEF Drag!Init, DragTypes, Drag!NoSession, Drag!NoDrag, Drag!NoPlatformDrag, Drag!DragKinds,
         ActiveDrags, PlatformDrags, Drag!ConstantsAssumption
<1>2. ReadsOK /\ SessionOK /\ ReadOffersOK
  BY DEF Drag!Init, ReadsOK, SessionOK, ReadOffersOK, Drag!NoSession
<1>3. Drag!DragIsCurrent /\ Drag!OneOwnDrag
  BY DEF Drag!Init, Drag!DragIsCurrent, Drag!OneOwnDrag, Drag!NoDrag
<1> QED
  BY <1>1, <1>2, <1>3 DEF DragInv

\* What a new offer does to the list of offers.
LEMMA IntroduceTypes ==
    ASSUME Drag!ConstantsAssumption, DragTypes, NEW o \in Drag!Offers, Drag!Introduce(o)
    PROVE  /\ introduced' \in 0..MaxOffers /\ data_offers' \in Seq(Drag!Offers)
           /\ destroyed' \subseteq Drag!Offers /\ destroyed \subseteq destroyed'
<1>1. introduced' \in 0..MaxOffers
  BY DEF Drag!Introduce, Drag!Offers
<1>2. CASE Len(data_offers) = 2
  <2>1. data_offers[1] \in Drag!Offers /\ data_offers[2] \in Drag!Offers
    <3>1. 1 \in 1..Len(data_offers) /\ 2 \in 1..Len(data_offers)
      BY <1>2
    <3> QED
      BY <3>1, ElementOfSeq DEF DragTypes
  <2>2. data_offers' = <<data_offers[2], o>> /\ destroyed' = destroyed \cup {data_offers[1]}
    BY <1>2 DEF Drag!Introduce
  <2>3. <<data_offers[2], o>> \in Seq(Drag!Offers)
    BY <2>1
  <2> QED
    BY <1>1, <2>1, <2>2, <2>3 DEF DragTypes
<1>3. CASE Len(data_offers) # 2
  <2>1. data_offers' = Append(data_offers, o) /\ destroyed' = destroyed
    BY <1>3 DEF Drag!Introduce
  <2>2. Append(data_offers, o) \in Seq(Drag!Offers)
    BY AppendProperties DEF DragTypes
  <2> QED
    BY <1>1, <2>1, <2>2 DEF DragTypes
<1> QED
  BY <1>2, <1>3

LEMMA SelectionStep ==
    ASSUME Drag!ConstantsAssumption, DragInv,
           (\E o \in Drag!Offers : Drag!SelectionChanged(o)) \/ Drag!SelectionCleared
    PROVE  DragInv'
<1> USE DEF DragInv
<1>1. /\ introduced' \in 0..MaxOffers /\ data_offers' \in Seq(Drag!Offers)
      /\ destroyed' \subseteq Drag!Offers /\ destroyed \subseteq destroyed'
      /\ current_offer' \in Drag!Offers \cup {None}
  BY IntroduceTypes DEF Drag!SelectionChanged, Drag!SelectionCleared, DragTypes
<1>2. UNCHANGED <<session, drag, reads, read_offers, external_drag, platform_drag, open, blocked,
                  active_drag>>
  BY DEF Drag!SelectionChanged, Drag!SelectionCleared, Drag!ownVars, Drag!windowVars
<1>3. DragTypes' /\ ReadsOK' /\ SessionOK'
  BY <1>1, <1>2 DEF DragTypes, ReadsOK, SessionOK
<1>4. ReadOffersOK'
  BY <1>1, <1>2 DEF ReadOffersOK
<1>5. Drag!DragIsCurrent' /\ Drag!OneOwnDrag'
  BY <1>2 DEF Drag!DragIsCurrent, Drag!OneOwnDrag, Drag!NoPlatformDrag
<1> QED
  BY <1>3, <1>4, <1>5

LEMMA EnterStep ==
    ASSUME Drag!ConstantsAssumption, DragInv, NEW w \in Windows, NEW o \in Drag!Offers, Drag!Enter(w, o)
    PROVE  DragInv'
<1> USE DEF DragInv
<1>0. None \notin Windows /\ None \notin Drag!Offers
  BY DEF Drag!ConstantsAssumption, Drag!Offers
<1>1. /\ introduced' \in 0..MaxOffers /\ data_offers' \in Seq(Drag!Offers)
      /\ destroyed' \subseteq Drag!Offers /\ destroyed \subseteq destroyed'
  BY IntroduceTypes DEF Drag!Enter
<1>2. /\ session.over = None /\ session' = [over |-> w, offer |-> o, dropped |-> FALSE]
      /\ UNCHANGED <<current_offer, read_offers, external_drag, platform_drag, open, blocked,
                     active_drag>>
  BY DEF Drag!Enter, Drag!ownVars, Drag!windowVars
<1>3. /\ drag.window = None
      /\ active_drag.kind = "files" => active_drag.missed
      /\ active_drag.kind = "restored" => active_drag.missed
  <2>1. drag.window = None
    BY <1>0, <1>2 DEF Drag!DragIsCurrent, DragTypes
  <2>2. platform_drag # Drag!NoPlatformDrag => platform_drag.source_window # None
    BY <1>0 DEF Drag!OneOwnDrag, DragTypes
  <2> QED
    BY <2>1, <2>2 DEF Drag!DragIsCurrent, Drag!OneOwnDrag
<1>4. \A r \in reads : r \in ReadRecords /\ r.generation \in Nat /\ r.generation < drag.generation
  <2>1. \A r \in reads : r.window \in Windows /\ r.generation \in Nat /\ r \in ReadRecords
    BY DEF DragTypes, ReadRecords
  <2>2. drag.generation \in Nat
    BY DEF DragTypes
  <2> QED
    BY <1>0, <1>2, <2>1, <2>2 DEF ReadsOK
<1>5. \A p \in read_offers : p \in destroyed
  BY <1>3 DEF ReadOffersOK
<1>6. CASE w \in open
  <2> DEFINE r == [generation |-> drag.generation + 1, offer |-> o, window |-> w]
  <2>1. /\ drag' = [drag EXCEPT !.generation = drag.generation + 1] /\ reads' = reads \cup {r}
    BY <1>6 DEF Drag!Enter, Drag!begin_uri_read
  <2>2. /\ drag'.generation = drag.generation + 1 /\ drag'.window = None /\ drag.generation \in Nat
        /\ drag' \in [data_offer : Drag!Offers \cup {None}, window : Windows \cup {None}, generation : Nat]
    BY <1>3, <2>1 DEF DragTypes
  <2>3. r \in ReadRecords /\ r.generation = drag.generation + 1 /\ r.offer = o /\ r.window = w
    BY <2>2 DEF ReadRecords
  <2> HIDE DEF r
  <2>4. DragTypes'
    BY <1>1, <1>2, <2>1, <2>2, <2>3 DEF DragTypes
  <2>5. ReadsOK'
    BY <1>2, <1>4, <2>1, <2>2, <2>3 DEF ReadsOK
  <2>6. SessionOK' /\ ReadOffersOK' /\ Drag!DragIsCurrent'
    BY <1>0, <1>1, <1>2, <1>3, <1>5, <2>2 DEF SessionOK, ReadOffersOK, Drag!DragIsCurrent
  <2> QED
    BY <1>2, <1>3, <2>4, <2>5, <2>6 DEF Drag!OneOwnDrag, Drag!NoPlatformDrag
<1>7. CASE w \notin open
  <2>1. UNCHANGED <<drag, reads>>
    BY <1>7 DEF Drag!Enter
  <2>2. DragTypes'
    BY <1>1, <1>2, <2>1 DEF DragTypes
  <2>3. ReadsOK'
    BY <1>4, <2>1 DEF ReadsOK, DragTypes
  <2>4. SessionOK' /\ ReadOffersOK' /\ Drag!DragIsCurrent'
    BY <1>0, <1>1, <1>2, <1>3, <1>5, <2>1 DEF SessionOK, ReadOffersOK, Drag!DragIsCurrent
  <2> QED
    BY <1>2, <1>3, <2>1, <2>2, <2>3, <2>4 DEF Drag!OneOwnDrag, Drag!NoPlatformDrag
<1> QED
  BY <1>6, <1>7

\* What GPUI makes of a drag that enters a window keeps the drag of our own in one place.
LEMMA EnteredEvent ==
    ASSUME Drag!ConstantsAssumption, DragTypes, Drag!OneOwnDrag, Drag!DragIsCurrent,
           NEW w \in Windows, NEW o \in Drag!Offers, Drag!Entered(w, o),
           drag.window = None, drag'.window = w, drag'.data_offer = o,
           UNCHANGED <<open, external_drag>>
    PROVE  /\ active_drag' \in ActiveDrags /\ platform_drag' \in PlatformDrags
           /\ Drag!OneOwnDrag'
           /\ active_drag'.kind = "files" /\ ~active_drag'.missed => active_drag'.paths = o
<1>0. /\ platform_drag \in PlatformDrags /\ active_drag \in ActiveDrags /\ None \notin Windows
      /\ open \subseteq Windows
  BY DEF DragTypes, Drag!ConstantsAssumption
<1>1. platform_drag # Drag!NoPlatformDrag =>
         platform_drag.source_window \in Windows /\ platform_drag.source_window \in open
  BY <1>0 DEF Drag!OneOwnDrag
<1>2. /\ active_drag.kind = "files" => active_drag.missed
      /\ active_drag.kind = "restored" => active_drag.missed /\ platform_drag # Drag!NoPlatformDrag
                                          /\ ~platform_drag.suspended
  BY <1>0, <1>1 DEF Drag!OneOwnDrag, Drag!DragIsCurrent
<1>3. CASE platform_drag.source_window = w /\ Drag!Hears(w)
  <2>1. /\ platform_drag' = [platform_drag EXCEPT !.suspended = FALSE]
        /\ platform_drag'.source_window = w /\ platform_drag'.suspended = FALSE
        /\ platform_drag'.missed = platform_drag.missed /\ platform_drag' \in PlatformDrags
    BY <1>0, <1>3 DEF Drag!Entered, PlatformDrags
  <2>2. platform_drag # Drag!NoPlatformDrag /\ platform_drag' # Drag!NoPlatformDrag
    BY <1>0, <1>3, <2>1 DEF Drag!NoPlatformDrag
  <2>3. \/ active_drag' = [kind |-> "restored", paths |-> None, missed |-> FALSE]
        \/ active_drag' = [kind |-> "files", paths |-> o, missed |-> FALSE]
        \/ active_drag' = active_drag
    BY <1>3 DEF Drag!Entered
  <2>4. /\ active_drag' \in ActiveDrags
        /\ active_drag'.kind = "files" /\ ~active_drag'.missed => active_drag'.paths = o
        /\ active_drag'.kind = "own" => active_drag.kind = "own"
    <3>1. CASE active_drag' = [kind |-> "restored", paths |-> None, missed |-> FALSE]
      BY <3>1 DEF ActiveDrags, Drag!DragKinds
    <3>2. CASE active_drag' = [kind |-> "files", paths |-> o, missed |-> FALSE]
      BY <3>2 DEF ActiveDrags, Drag!DragKinds
    <3>3. CASE active_drag' = active_drag
      BY <1>0, <1>2, <3>3
    <3> QED
      BY <2>3, <3>1, <3>2, <3>3
  <2>5. Drag!OneOwnDrag'
    BY <1>0, <1>1, <1>3, <2>1, <2>2, <2>4 DEF Drag!OneOwnDrag, Drag!NoPlatformDrag
  <2> QED
    BY <2>1, <2>4, <2>5
<1>4. CASE ~(platform_drag.source_window = w /\ Drag!Hears(w))
  <2>1. /\ platform_drag' = platform_drag
        /\ \/ active_drag' = [kind |-> "files", paths |-> o, missed |-> FALSE]
           \/ active_drag' = active_drag
    BY <1>4 DEF Drag!Entered
  <2>2. /\ active_drag' \in ActiveDrags
        /\ active_drag'.kind = "files" /\ ~active_drag'.missed => active_drag'.paths = o
        /\ active_drag'.kind # "files" => active_drag' = active_drag
    <3>1. CASE active_drag' = [kind |-> "files", paths |-> o, missed |-> FALSE]
      BY <3>1 DEF ActiveDrags, Drag!DragKinds
    <3>2. CASE active_drag' = active_drag
      BY <1>0, <1>2, <3>2
    <3> QED
      BY <2>1, <3>1, <3>2
  <2>3. Drag!OneOwnDrag'
    BY <1>2, <2>1, <2>2 DEF Drag!OneOwnDrag, Drag!NoPlatformDrag
  <2> QED
    BY <1>0, <2>1, <2>2, <2>3
<1> QED
  BY <1>3, <1>4

\* What it makes of one that leaves or is dropped: the active drag is over, or its end was missed.
LEMMA ExitedEvent ==
    ASSUME Drag!ConstantsAssumption, DragTypes, Drag!OneOwnDrag, NEW w \in Windows,
           Drag!Exited(w) \/ Drag!Submit(w),
           UNCHANGED <<open, external_drag>>
    PROVE  /\ active_drag' \in ActiveDrags /\ platform_drag' \in PlatformDrags
           /\ Drag!OneOwnDrag'
           /\ active_drag'.kind = "files" => active_drag'.missed
<1>0. /\ platform_drag \in PlatformDrags /\ active_drag \in ActiveDrags /\ None \notin Windows
      /\ Drag!NoDrag \in ActiveDrags /\ Drag!NoDrag.kind = "none"
  BY DEF DragTypes, Drag!ConstantsAssumption, Drag!NoDrag, ActiveDrags, Drag!DragKinds
<1>1. CASE active_drag' = Drag!NoDrag
  <2>1. /\ platform_drag' \in PlatformDrags
        /\ platform_drag'.source_window = platform_drag.source_window
        /\ platform_drag'.missed = platform_drag.missed
        /\ platform_drag' = platform_drag \/ platform_drag.source_window = w
    BY <1>0 DEF Drag!Exited, Drag!Submit, PlatformDrags
  <2>2. platform_drag' # Drag!NoPlatformDrag => platform_drag # Drag!NoPlatformDrag
    BY <1>0, <2>1 DEF Drag!NoPlatformDrag
  <2>3. Drag!OneOwnDrag'
    BY <1>0, <1>1, <2>1, <2>2 DEF Drag!OneOwnDrag, Drag!NoPlatformDrag
  <2> QED
    BY <1>0, <1>1, <2>1, <2>3
<1>2. CASE active_drag' # Drag!NoDrag
  <2>1. platform_drag' = platform_drag /\ active_drag' = [active_drag EXCEPT !.missed = TRUE]
    BY <1>2 DEF Drag!Exited, Drag!Submit, Drag!MissEnd
  <2>2. active_drag' \in ActiveDrags /\ active_drag'.kind = active_drag.kind /\ active_drag'.missed
    BY <1>0, <2>1 DEF ActiveDrags
  <2>3. Drag!OneOwnDrag'
    BY <2>1, <2>2 DEF Drag!OneOwnDrag, Drag!NoPlatformDrag
  <2> QED
    BY <1>0, <2>1, <2>2, <2>3
<1> QED
  BY <1>1, <1>2

LEMMA CompleteStep ==
    ASSUME Drag!ConstantsAssumption, DragInv, NEW r \in reads, Drag!CompleteUriRead(r)
    PROVE  DragInv'
<1> USE DEF DragInv
<1>0. None \notin Windows /\ None \notin Drag!Offers
  BY DEF Drag!ConstantsAssumption, Drag!Offers
<1>1. /\ r.offer \in Drag!Offers /\ r.window \in Windows /\ r.generation \in Nat
      /\ reads' = reads \ {r} /\ read_offers' = read_offers \cup {r.offer}
      /\ UNCHANGED <<introduced, data_offers, current_offer, session, external_drag, open, blocked>>
  BY DEF Drag!CompleteUriRead, DragTypes, ReadRecords, Drag!windowVars
<1>2. CASE r.generation = drag.generation
  <2>1. /\ drag' = [drag EXCEPT !.data_offer = r.offer, !.window = r.window]
        /\ Drag!Entered(r.window, r.offer) /\ UNCHANGED destroyed
    BY <1>2 DEF Drag!CompleteUriRead
  <2>2. /\ drag'.window = r.window /\ drag'.data_offer = r.offer /\ drag'.generation = drag.generation
        /\ drag' \in [data_offer : Drag!Offers \cup {None}, window : Windows \cup {None}, generation : Nat]
    BY <1>1, <2>1 DEF DragTypes
  <2>4. /\ session.over = r.window /\ session.offer = r.offer /\ ~session.dropped /\ drag.window = None
        /\ \A q \in reads \ {r} : q.generation # drag.generation
    BY <1>2 DEF ReadsOK
  <2>5. /\ active_drag' \in ActiveDrags /\ platform_drag' \in PlatformDrags
        /\ Drag!OneOwnDrag'
        /\ active_drag'.kind = "files" /\ ~active_drag'.missed => active_drag'.paths = r.offer
    BY <1>1, <2>1, <2>2, <2>4, EnteredEvent
  <2>7. DragTypes'
    BY <1>1, <2>1, <2>2, <2>5 DEF DragTypes
  <2>8. ReadsOK'
    BY <1>1, <2>2, <2>4 DEF ReadsOK
  <2>9. SessionOK' /\ ReadOffersOK' /\ Drag!DragIsCurrent'
    BY <1>0, <1>1, <2>1, <2>2, <2>4, <2>5 DEF SessionOK, ReadOffersOK, Drag!DragIsCurrent
  <2> QED
    BY <2>5, <2>7, <2>8, <2>9
<1>3. CASE r.generation # drag.generation
  <2>1. /\ destroyed' = destroyed \cup {r.offer}
        /\ UNCHANGED <<drag, platform_drag, active_drag>>
    BY <1>3 DEF Drag!CompleteUriRead
  <2>2. DragTypes' /\ ReadsOK'
    BY <1>1, <2>1 DEF DragTypes, ReadsOK
  <2>3. SessionOK' /\ ReadOffersOK'
    BY <1>1, <2>1 DEF SessionOK, ReadOffersOK
  <2>4. Drag!DragIsCurrent' /\ Drag!OneOwnDrag'
    BY <1>1, <2>1 DEF Drag!DragIsCurrent, Drag!OneOwnDrag, Drag!NoPlatformDrag
  <2> QED
    BY <2>2, <2>3, <2>4
<1> QED
  BY <1>2, <1>3

LEMMA ReadEndsStep ==
    ASSUME Drag!ConstantsAssumption, DragInv, NEW r \in reads, Drag!ReadEmpty(r) \/ Drag!ReadFailed(r)
    PROVE  DragInv'
<1> USE DEF DragInv
<1>1. /\ r.offer \in Drag!Offers /\ reads' = reads \ {r}
      /\ UNCHANGED <<introduced, data_offers, current_offer, session, drag, external_drag, platform_drag,
                     open, blocked, active_drag>>
      /\ \/ UNCHANGED <<destroyed, read_offers>>
         \/ /\ destroyed' = destroyed \cup {r.offer}
            /\ read_offers' = read_offers \cup {r.offer}
  BY DEF Drag!ReadEmpty, Drag!ReadFailed, Drag!offerVars, Drag!ownVars, Drag!windowVars, DragTypes,
         ReadRecords
<1>2. DragTypes' /\ ReadsOK'
  BY <1>1 DEF DragTypes, ReadsOK
<1>3. SessionOK' /\ ReadOffersOK'
  BY <1>1 DEF SessionOK, ReadOffersOK
<1>4. Drag!DragIsCurrent' /\ Drag!OneOwnDrag'
  BY <1>1 DEF Drag!DragIsCurrent, Drag!OneOwnDrag, Drag!NoPlatformDrag
<1> QED
  BY <1>2, <1>3, <1>4

\* A drag that leaves or is dropped takes its offer and the window's belief with it.
LEMMA DragEndsStep ==
    ASSUME Drag!ConstantsAssumption, DragInv, Drag!Leave \/ Drag!Drop
    PROVE  DragInv'
<1> USE DEF DragInv
<1>0. None \notin Windows /\ None \notin Drag!Offers
  BY DEF Drag!ConstantsAssumption, Drag!Offers
<1>1. /\ Drag!Ended
      /\ UNCHANGED <<introduced, data_offers, current_offer, reads, read_offers, external_drag, open,
                     blocked>>
  BY DEF Drag!Leave, Drag!Drop, Drag!windowVars
<1>2. /\ session' \in [over : Windows \cup {None}, offer : Drag!Offers \cup {None}, dropped : BOOLEAN]
      /\ session' = Drag!NoSession
         \/ (session'.dropped /\ session'.over = session.over /\ session.over # None)
  <2> DEFINE S == [over : Windows \cup {None}, offer : Drag!Offers \cup {None}, dropped : BOOLEAN]
  <2>1. session \in S /\ Drag!NoSession \in S
    BY DEF DragTypes, Drag!NoSession
  <2>2. /\ session.over # None
        /\ session' = Drag!NoSession \/ session' = [session EXCEPT !.dropped = TRUE]
    BY DEF Drag!Leave, Drag!Drop
  <2>3. CASE session' = Drag!NoSession
    BY <2>1, <2>3
  <2>4. CASE session' = [session EXCEPT !.dropped = TRUE]
    <3>1. session' \in S /\ session'.dropped = TRUE /\ session'.over = session.over
      BY <2>1, <2>4
    <3> QED
      BY <2>2, <3>1
  <2> QED
    BY <2>2, <2>3, <2>4
<1>3. /\ drag' \in [data_offer : Drag!Offers \cup {None}, window : Windows \cup {None}, generation : Nat]
      /\ drag.generation \in Nat /\ drag'.generation = drag.generation + 1 /\ drag'.window = None
      /\ IF drag.window = None THEN destroyed' = destroyed
                               ELSE destroyed' = destroyed \cup {drag.data_offer}
  BY <1>1 DEF Drag!Ended, DragTypes
<1>4. destroyed' \subseteq Drag!Offers /\ destroyed \subseteq destroyed'
  BY <1>3 DEF DragTypes, SessionOK
<1>5. /\ active_drag' \in ActiveDrags /\ platform_drag' \in PlatformDrags
      /\ Drag!OneOwnDrag' /\ (active_drag'.kind = "files" => active_drag'.missed)
  <2>1. CASE drag.window = None
    <3>1. UNCHANGED <<platform_drag, active_drag>>
      BY <2>1 DEF Drag!Leave, Drag!Drop
    <3>2. platform_drag # Drag!NoPlatformDrag => platform_drag.source_window # None
      BY <1>0 DEF Drag!OneOwnDrag, DragTypes
    <3>3. /\ active_drag.kind = "files" => active_drag.missed
          /\ active_drag.kind = "restored" => active_drag.missed
      BY <2>1, <3>2 DEF Drag!DragIsCurrent, Drag!OneOwnDrag
    <3> QED
      BY <1>1, <3>1, <3>3 DEF DragTypes, Drag!OneOwnDrag, Drag!NoPlatformDrag
  <2>2. CASE drag.window # None
    <3>1. drag.window \in Windows
      BY <2>2 DEF DragTypes
    <3>2. Drag!Exited(drag.window) \/ Drag!Submit(drag.window)
      BY <2>2 DEF Drag!Leave, Drag!Drop
    <3> QED
      BY <1>1, <3>1, <3>2, ExitedEvent
  <2> QED
    BY <2>1, <2>2
<1>6. DragTypes'
  BY <1>1, <1>2, <1>3, <1>4, <1>5 DEF DragTypes
<1>7. ReadsOK'
  <2>1. \A q \in reads : q.generation \in Nat /\ q.generation <= drag.generation
    BY DEF ReadsOK, DragTypes, ReadRecords
  <2>2. \A q \in reads : q.generation <= drag'.generation /\ q.generation # drag'.generation
    BY <1>3, <2>1
  <2> QED
    BY <1>1, <2>2 DEF ReadsOK
<1>8. SessionOK' /\ Drag!DragIsCurrent'
  BY <1>0, <1>2, <1>3, <1>5 DEF SessionOK, Drag!DragIsCurrent, Drag!NoSession
<1>9. ReadOffersOK'
  <2> SUFFICES ASSUME NEW o \in read_offers PROVE o \in destroyed'
    BY <1>1 DEF ReadOffersOK
  <2> QED
    BY <1>3, <1>4 DEF ReadOffersOK, Drag!DragIsCurrent
<1> QED
  BY <1>5, <1>6, <1>7, <1>8, <1>9

\* The drag that the application or the window ends, and a window that closes or gets a dialog.
LEMMA OwnDragStep ==
    ASSUME Drag!ConstantsAssumption, DragInv,
           \/ Drag!ExternalDragEnded
           \/ \E w \in Windows : \/ Drag!StartDrag(w) \/ Drag!MouseUp(w) \/ Drag!StopActiveDrag(w)
                               \/ Drag!StartExternalDrag(w) \/ Drag!Close(w) \/ Drag!Dialog(w)
    PROVE  DragInv'
<1> USE DEF DragInv
<1>0. /\ None \notin Windows /\ Drag!NoPlatformDrag \in PlatformDrags
      /\ platform_drag \in PlatformDrags /\ active_drag \in ActiveDrags
      /\ external_drag \in Windows \cup {None} /\ open \subseteq Windows /\ blocked \subseteq open
      /\ Drag!NoDrag \in ActiveDrags /\ Drag!NoDrag.kind = "none"
  BY DEF Drag!ConstantsAssumption, Drag!NoPlatformDrag, PlatformDrags, Drag!NoDrag, ActiveDrags,
         Drag!DragKinds, DragTypes
<1>1. UNCHANGED <<introduced, data_offers, destroyed, current_offer, session, drag, reads, read_offers>>
  BY DEF Drag!StartDrag, Drag!MouseUp, Drag!ExternalDragEnded, Drag!StopActiveDrag,
         Drag!StartExternalDrag, Drag!Close, Drag!Dialog, Drag!offerVars
<1>2. ReadsOK' /\ ReadOffersOK'
  BY <1>1 DEF ReadsOK, ReadOffersOK
<1> DEFINE Kept == /\ external_drag' \in Windows \cup {None}
                   /\ open' \subseteq Windows /\ blocked' \subseteq open'
                   /\ active_drag' \in ActiveDrags /\ platform_drag' \in PlatformDrags
                   /\ active_drag'.kind = "files" => active_drag' = active_drag
                   /\ Drag!OneOwnDrag'
<1>3. SUFFICES Kept
  <2>1. DragTypes'
    BY <1>0, <1>1, <1>3 DEF DragTypes
  <2>2. SessionOK' /\ Drag!DragIsCurrent'
    BY <1>1, <1>3 DEF SessionOK, Drag!DragIsCurrent
  <2> QED
    BY <1>2, <1>3, <2>1, <2>2
<1>4. ASSUME NEW w \in Windows, Drag!StartDrag(w) PROVE Kept
  <2>1. /\ UNCHANGED <<external_drag, platform_drag, open, blocked>> /\ external_drag = None
        /\ active_drag' = [kind |-> "own", paths |-> None, missed |-> FALSE]
    BY <1>4 DEF Drag!StartDrag, Drag!ownVars, Drag!windowVars
  <2>2. active_drag' \in ActiveDrags /\ active_drag'.kind = "own"
    BY <2>1 DEF ActiveDrags, Drag!DragKinds
  <2>3. platform_drag # Drag!NoPlatformDrag => platform_drag.missed
    BY <1>0, <2>1 DEF Drag!OneOwnDrag
  <2>4. Drag!OneOwnDrag'
    BY <2>1, <2>2, <2>3 DEF Drag!OneOwnDrag, Drag!NoPlatformDrag
  <2> QED
    BY <1>0, <2>1, <2>2, <2>4
<1>5. ASSUME NEW w \in Windows, Drag!MouseUp(w) PROVE Kept
  <2>1. /\ UNCHANGED <<external_drag, platform_drag, open, blocked>> /\ active_drag' = Drag!NoDrag
    BY <1>5 DEF Drag!MouseUp, Drag!ownVars, Drag!windowVars
  <2>2. Drag!OneOwnDrag'
    BY <1>0, <2>1 DEF Drag!OneOwnDrag, Drag!NoPlatformDrag
  <2> QED
    BY <1>0, <2>1, <2>2
<1>6. CASE Drag!ExternalDragEnded
  <2>1. /\ external_drag' = None /\ UNCHANGED <<open, blocked>>
        /\ external_drag # None /\ Drag!DragEnded(external_drag)
    BY <1>6 DEF Drag!ExternalDragEnded, Drag!windowVars
  <2>2. CASE platform_drag' = Drag!NoPlatformDrag
    <3>1. active_drag' = Drag!NoDrag \/ (active_drag' = active_drag /\ platform_drag = Drag!NoPlatformDrag)
      <4>1. CASE active_drag' = Drag!NoDrag
        BY <4>1
      <4>2. CASE active_drag' # Drag!NoDrag
        <5>1. active_drag' = active_drag
          BY <2>1, <4>2 DEF Drag!DragEnded, Drag!EndPlatformDrag
        <5>2. platform_drag' = platform_drag \/ platform_drag' = [platform_drag EXCEPT !.missed = TRUE]
          BY <2>1, <4>2 DEF Drag!DragEnded, Drag!EndPlatformDrag
        <5>3. platform_drag' = platform_drag
          BY <1>0, <2>2, <5>2 DEF PlatformDrags, Drag!NoPlatformDrag
        <5> QED
          BY <2>2, <5>1, <5>3
      <4> QED
        BY <4>1, <4>2
    <3>2. Drag!OneOwnDrag'
      BY <1>0, <2>2, <3>1 DEF Drag!OneOwnDrag, Drag!NoPlatformDrag
    <3> QED
      BY <1>0, <2>1, <2>2, <3>1, <3>2
  <2>3. CASE platform_drag' # Drag!NoPlatformDrag
    <3>1. /\ active_drag' = active_drag /\ platform_drag # Drag!NoPlatformDrag
          /\ \/ platform_drag' = [platform_drag EXCEPT !.missed = TRUE]
             \/ platform_drag' = platform_drag /\ platform_drag.source_window # external_drag
      BY <2>1, <2>3 DEF Drag!DragEnded, Drag!EndPlatformDrag
    <3>2. /\ platform_drag' \in PlatformDrags /\ platform_drag'.missed
          /\ platform_drag'.source_window = platform_drag.source_window
          /\ platform_drag'.suspended = platform_drag.suspended
      BY <1>0, <3>1 DEF PlatformDrags, Drag!OneOwnDrag
    <3>3. Drag!OneOwnDrag'
      BY <1>1, <2>1, <2>3, <3>1, <3>2 DEF Drag!OneOwnDrag
    <3> QED
      BY <1>0, <2>1, <3>1, <3>2, <3>3
  <2> QED
    BY <2>2, <2>3
<1>7. ASSUME NEW w \in Windows, Drag!StopActiveDrag(w) PROVE Kept
  <2>1. /\ UNCHANGED <<external_drag, open, blocked>> /\ active_drag' = Drag!NoDrag
        /\ platform_drag' \in {platform_drag, Drag!NoPlatformDrag}
    BY <1>7 DEF Drag!StopActiveDrag, Drag!windowVars
  <2>2. Drag!OneOwnDrag'
    BY <1>0, <2>1 DEF Drag!OneOwnDrag, Drag!NoPlatformDrag
  <2> QED
    BY <1>0, <2>1, <2>2
<1>8. ASSUME NEW w \in Windows, Drag!StartExternalDrag(w) PROVE Kept
  <2>1. /\ UNCHANGED <<open, blocked>> /\ active_drag' = Drag!NoDrag /\ external_drag' = w /\ w \in open
        /\ platform_drag' = [source_window |-> w, suspended |-> TRUE, missed |-> FALSE]
    BY <1>8 DEF Drag!StartExternalDrag, Drag!Hears, Drag!windowVars
  <2>2. platform_drag' \in PlatformDrags /\ platform_drag'.source_window = w
    BY <2>1 DEF PlatformDrags
  <2>3. Drag!OneOwnDrag'
    BY <1>0, <2>1, <2>2 DEF Drag!OneOwnDrag
  <2> QED
    BY <1>0, <2>1, <2>2, <2>3
<1>9. ASSUME NEW w \in Windows, Drag!Close(w) PROVE Kept
  <2>1. /\ open' = open \ {w} /\ blocked' = blocked \ {w} /\ UNCHANGED external_drag
        /\ \/ platform_drag' = Drag!NoPlatformDrag /\ active_drag' = Drag!NoDrag
           \/ /\ UNCHANGED <<platform_drag, active_drag>>
              /\ platform_drag.source_window # w
    BY <1>0, <1>9 DEF Drag!Close, Drag!EndPlatformDrag
  <2>2. Drag!OneOwnDrag'
    BY <1>0, <1>1, <2>1 DEF Drag!OneOwnDrag, Drag!NoPlatformDrag
  <2>3. platform_drag' \in PlatformDrags
    BY <1>0, <2>1
  <2> QED
    BY <1>0, <2>1, <2>2, <2>3
<1>10. ASSUME NEW w \in Windows, Drag!Dialog(w) PROVE Kept
  <2>1. /\ UNCHANGED <<external_drag, platform_drag, open, active_drag>> /\ blocked' \subseteq open
    BY <1>0, <1>10 DEF Drag!Dialog, Drag!ownVars
  <2>2. Drag!OneOwnDrag'
    BY <1>1, <2>1 DEF Drag!OneOwnDrag, Drag!NoPlatformDrag
  <2> QED
    BY <1>0, <2>1, <2>2
<1> QED
  BY <1>4, <1>5, <1>6, <1>7, <1>8, <1>9, <1>10

LEMMA DragStep ==
    ASSUME Drag!ConstantsAssumption, DragInv, [Drag!Next]_Drag!vars
    PROVE  DragInv'
<1>1. CASE UNCHANGED Drag!vars
  <2>1. DragTypes' /\ ReadsOK' /\ SessionOK' /\ ReadOffersOK'
    BY <1>1 DEF DragInv, Drag!vars, DragTypes, ReadsOK, SessionOK, ReadOffersOK
  <2>2. Drag!DragIsCurrent' /\ Drag!OneOwnDrag'
    BY <1>1 DEF DragInv, Drag!vars, Drag!DragIsCurrent, Drag!OneOwnDrag, Drag!NoPlatformDrag
  <2> QED
    BY <2>1, <2>2 DEF DragInv
<1> QED
  BY <1>1, SelectionStep, EnterStep, CompleteStep, ReadEndsStep, DragEndsStep, OwnDragStep
     DEF Drag!Next

LEMMA DragInductive ==
    ASSUME Drag!ConstantsAssumption
    PROVE  /\ Drag!Init => DragInv
           /\ DragInv /\ [Drag!Next]_Drag!vars => DragInv'
           /\ DragInv => /\ Drag!TypeOK /\ Drag!DragIsCurrent /\ Drag!OneOwnDrag
                         /\ Drag!NoOfferLeaked
<1>1. DragInv => /\ Drag!TypeOK /\ Drag!DragIsCurrent /\ Drag!OneOwnDrag /\ Drag!NoOfferLeaked
  BY DEF DragInv, DragTypes, ActiveDrags, PlatformDrags, ReadOffersOK, Drag!TypeOK, Drag!NoOfferLeaked
<1> QED
  BY <1>1, DragInit, DragStep

-----------------------------------------------------------------------------
(* The keyboard, the input method and the pointer                          *)

\* The repeat timers: their ids are distinct and issued, none is current while no surface has the
\* keyboard, and the one that is repeats the key that is down in the window with the focus.
RepeatsOK ==
    /\ keyboard_focused_window \in {None, surface.keyboard}
    /\ \A t \in timers :
          /\ t.id <= repeat.current_id
          /\ surface.keyboard = None => t.id # repeat.current_id
          /\ Input!IsRepeating(t) => /\ t.key = repeat.current_keycode /\ t.key \in held
                                     /\ t.window = keyboard_focused_window
    /\ \A t, u \in timers : t.id = u.id => t = u

\* The pointer's focus, its position, the button and the hidden cursor belong together.
PointerOK == Input!HiddenUnderPointer /\ Input!PointerHasLocation /\ Input!PressedIsDown

\* While no window closes or gets a dialog, the window with the keyboard has every composition.
TextOK ==
    Closable \cup Blockable = {} =>
        /\ seat_windows = Windows /\ keyboard_focused_window = surface.keyboard
        /\ compose \in {None, keyboard_focused_window}
        /\ pre_edit_text \in {None, keyboard_focused_window}
        /\ ime_pre_edit \in {None, keyboard_focused_window}
        /\ batch => keyboard_focused_window # None
        /\ ~batch => ime_pre_edit = None
        /\ Input!TextStaysInItsWindow /\ Input!MarkedHasKeyboard

\* What was delivered last.
SentOK == Input!RepeatsHeldKey /\ Input!PressIsAdmitted

InputInv == Input!TypeOK /\ RepeatsOK /\ PointerOK /\ TextOK /\ SentOK

LEMMA PointerStep ==
    ASSUME Input!ConstantsAssumption, InputInv, [Input!Next]_Input!vars
    PROVE  PointerOK'
<1>0. Input!TypeOK /\ PointerOK /\ None \notin Windows /\ Keys \cap Buttons = {}
  BY DEF InputInv, Input!ConstantsAssumption
<1>1. CASE \/ UNCHANGED Input!vars \/ Input!Commit \/ Input!Done \/ Input!Stop
           \/ \E w \in Windows : Input!Close(w) \/ Input!Dialog(w) \/ Input!KeyboardEnter(w)
           \/ \E k \in Keys : Input!KeyPress(k) \/ Input!KeyRelease(k) \/ Input!ReleasedElsewhere(k)
           \/ \E t \in timers, rate \in 0..1 : Input!RepeatTimer(t, rate)
           \/ \E b \in Buttons : Input!PressIgnored(b)
           \/ \E text \in BOOLEAN : Input!Preedit(text)
  <2>1. UNCHANGED Input!pointerVars /\ held \cap Buttons \subseteq held'
    BY <1>0, <1>1 DEF Input!Close, Input!Dialog, Input!KeyboardEnter, Input!KeyPress,
       Input!KeyRelease, Input!ReleasedElsewhere, Input!RepeatTimer, Input!PressIgnored,
       Input!Preedit, Input!Commit, Input!Done, Input!Stop, Input!windowVars, Input!pointerVars,
       Input!repeatVars, Input!textVars, Input!vars
  <2> QED
    BY <1>0, <2>1 DEF PointerOK, Input!HiddenUnderPointer, Input!PointerHasLocation,
       Input!PressedIsDown, Input!TypeOK, Input!pointerVars
<1>2. ASSUME NEW w \in Windows, Input!DropTask(w)
      PROVE  PointerOK'
  BY <1>0, <1>2 DEF Input!DropTask, Input!drop_window, Input!Unless, Input!windowVars,
     Input!pointerVars, Input!repeatVars, Input!textVars, PointerOK, Input!HiddenUnderPointer,
     Input!PointerHasLocation, Input!PressedIsDown, Input!TypeOK
<1>3. ASSUME NEW w \in Windows, Input!PointerEnter(w)
      PROVE  PointerOK'
  BY <1>0, <1>3 DEF Input!PointerEnter, Input!get_window, Input!windowVars, Input!pointerVars,
     Input!repeatVars, Input!textVars, PointerOK, Input!HiddenUnderPointer,
     Input!PointerHasLocation, Input!PressedIsDown, Input!TypeOK
<1>4. ASSUME NEW b \in Buttons, Input!Release(b)
      PROVE  PointerOK'
  BY <1>0, <1>4 DEF Input!Release, Input!windowVars, Input!pointerVars, Input!repeatVars,
     Input!textVars, PointerOK, Input!HiddenUnderPointer, Input!PointerHasLocation,
     Input!PressedIsDown, Input!TypeOK
<1>5. ASSUME NEW b \in Buttons, NEW gone \in SUBSET (Closable \ seat_closed),
             NEW shut \in SUBSET (Blockable \ seat_closed), Input!Press(b, gone, shut)
      PROVE  PointerOK'
  BY <1>0, <1>5 DEF Input!Press, Input!press_position, Input!Strays, Input!is_blocked,
     Input!windowVars, Input!pointerVars, Input!repeatVars, Input!textVars, PointerOK,
     Input!HiddenUnderPointer, Input!PointerHasLocation, Input!PressedIsDown, Input!TypeOK
<1>6. CASE Input!KeyboardLeave
  BY <1>0, <1>6 DEF Input!KeyboardLeave, Input!disable_ime, Input!get_window, Input!Clears,
     Input!is_blocked, Input!windowVars, Input!pointerVars, Input!repeatVars, Input!textVars,
     PointerOK, Input!HiddenUnderPointer, Input!PointerHasLocation, Input!PressedIsDown,
     Input!TypeOK
<1>7. CASE Input!PointerLeave
  BY <1>0, <1>7 DEF Input!PointerLeave, Input!windowVars, Input!pointerVars, Input!repeatVars,
     Input!textVars, PointerOK, Input!HiddenUnderPointer, Input!PointerHasLocation,
     Input!PressedIsDown, Input!TypeOK
<1>8. CASE Input!Motion
  BY <1>0, <1>8 DEF Input!Motion, Input!windowVars, Input!pointerVars, Input!repeatVars,
     Input!textVars, PointerOK, Input!HiddenUnderPointer, Input!PointerHasLocation,
     Input!PressedIsDown, Input!TypeOK
<1>9. CASE Input!HideCursor
  BY <1>0, <1>9 DEF Input!HideCursor, Input!windowVars, Input!pointerVars, Input!repeatVars,
     Input!textVars, PointerOK, Input!HiddenUnderPointer, Input!PointerHasLocation,
     Input!PressedIsDown, Input!TypeOK
<1> QED
  BY <1>1, <1>2, <1>3, <1>4, <1>5, <1>6, <1>7, <1>8, <1>9 DEF Input!Next

LEMMA SentStep ==
    ASSUME Input!ConstantsAssumption, InputInv, [Input!Next]_Input!vars
    PROVE  SentOK'
<1>0. Input!TypeOK /\ RepeatsOK /\ SentOK /\ None \notin Windows
  BY DEF InputInv, Input!ConstantsAssumption
<1>1. CASE \/ UNCHANGED Input!vars \/ Input!Commit \/ Input!Done \/ Input!KeyboardLeave
           \/ Input!PointerLeave \/ Input!Motion \/ Input!HideCursor \/ Input!Stop
           \/ \E w \in Windows : \/ Input!Close(w) \/ Input!DropTask(w) \/ Input!Dialog(w)
                                 \/ Input!KeyboardEnter(w) \/ Input!PointerEnter(w)
           \/ \E k \in Keys : Input!KeyPress(k) \/ Input!KeyRelease(k) \/ Input!ReleasedElsewhere(k)
           \/ \E b \in Buttons : Input!PressIgnored(b) \/ Input!Release(b)
           \/ \E text \in BOOLEAN : Input!Preedit(text)
  <2>1. \/ sent' = None
        \/ UNCHANGED <<sent, held, seat_closed, dialogs>>
    BY <1>0, <1>1 DEF Input!Close, Input!DropTask, Input!Dialog, Input!KeyboardEnter,
       Input!PointerEnter, Input!KeyPress, Input!KeyRelease, Input!ReleasedElsewhere,
       Input!PressIgnored, Input!Release, Input!Preedit, Input!Commit, Input!Done,
       Input!KeyboardLeave, Input!PointerLeave, Input!Motion, Input!HideCursor, Input!Stop,
       Input!windowVars, Input!pointerVars, Input!repeatVars, Input!textVars, Input!vars
  <2> QED
    BY <1>0, <2>1 DEF SentOK, Input!RepeatsHeldKey, Input!PressIsAdmitted, RepeatsOK
<1>2. ASSUME NEW t \in timers, NEW rate \in 0..1, Input!RepeatTimer(t, rate)
      PROVE  SentOK'
  BY <1>0, <1>2 DEF Input!RepeatTimer, Input!IsRepeating, Input!windowVars, Input!pointerVars,
     Input!repeatVars, Input!textVars, SentOK, Input!RepeatsHeldKey, Input!PressIsAdmitted,
     RepeatsOK
<1>3. ASSUME NEW b \in Buttons, NEW gone \in SUBSET (Closable \ seat_closed),
             NEW shut \in SUBSET (Blockable \ seat_closed), Input!Press(b, gone, shut)
      PROVE  SentOK'
  BY <1>0, <1>3 DEF Input!Press, Input!press_position, Input!Strays, Input!is_blocked,
     Input!windowVars, Input!pointerVars, Input!repeatVars, Input!textVars, SentOK,
     Input!RepeatsHeldKey, Input!PressIsAdmitted, RepeatsOK
<1> QED
  BY <1>1, <1>2, <1>3 DEF Input!Next

LEMMA RepeatsStep ==
    ASSUME Input!ConstantsAssumption, InputInv, [Input!Next]_Input!vars
    PROVE  RepeatsOK'
<1>0. Input!TypeOK /\ RepeatsOK /\ None \notin Windows \cup Keys /\ Keys \cap Buttons = {}
  BY DEF InputInv, Input!ConstantsAssumption
<1>1. CASE \/ UNCHANGED Input!vars \/ Input!Commit \/ Input!Done
           \/ Input!PointerLeave \/ Input!Motion \/ Input!HideCursor \/ Input!Stop
           \/ \E w \in Windows : Input!Close(w) \/ Input!Dialog(w) \/ Input!PointerEnter(w)
           \/ \E b \in Buttons : Input!PressIgnored(b) \/ Input!Release(b)
           \/ \E b \in Buttons, gone \in SUBSET (Closable \ seat_closed), shut \in SUBSET (Blockable \ seat_closed) :
              Input!Press(b, gone, shut)
           \/ \E text \in BOOLEAN : Input!Preedit(text)
  <2>1. /\ surface'.keyboard = surface.keyboard /\ held \cap Keys \subseteq held'
        /\ UNCHANGED <<keyboard_focused_window, repeat, timers>>
    BY <1>0, <1>1 DEF Input!Close, Input!Dialog, Input!PointerEnter, Input!PressIgnored,
       Input!Release, Input!Press, Input!Preedit, Input!Commit, Input!Done, Input!PointerLeave,
       Input!Motion, Input!HideCursor, Input!Stop, Input!windowVars, Input!pointerVars,
       Input!repeatVars, Input!textVars, Input!vars, Input!TypeOK
  <2> QED
    BY <1>0, <2>1 DEF RepeatsOK, Input!TypeOK, Input!Timers, Input!IsRepeating
<1>2. ASSUME NEW w \in Windows, Input!DropTask(w)
      PROVE  RepeatsOK'
  BY <1>0, <1>2 DEF Input!DropTask, Input!drop_window, Input!Unless, Input!windowVars,
     Input!pointerVars, Input!repeatVars, Input!textVars, RepeatsOK, Input!TypeOK, Input!Timers,
     Input!IsRepeating
<1>3. ASSUME NEW w \in Windows, Input!KeyboardEnter(w)
      PROVE  RepeatsOK'
  BY <1>0, <1>3 DEF Input!KeyboardEnter, Input!get_window, Input!windowVars, Input!pointerVars,
     Input!repeatVars, Input!textVars, RepeatsOK, Input!TypeOK, Input!Timers, Input!IsRepeating
<1>4. ASSUME NEW k \in Keys, Input!KeyPress(k)
      PROVE  RepeatsOK'
  BY <1>0, <1>4 DEF Input!KeyPress, Input!Feed, Input!Shows, Input!Clears, Input!Strays,
     Input!is_blocked, Input!windowVars, Input!pointerVars, Input!repeatVars, Input!textVars,
     RepeatsOK, Input!TypeOK, Input!Timers, Input!IsRepeating
<1>5. ASSUME NEW k \in Keys, Input!KeyRelease(k)
      PROVE  RepeatsOK'
  BY <1>0, <1>5 DEF Input!KeyRelease, Input!windowVars, Input!pointerVars, Input!repeatVars,
     Input!textVars, RepeatsOK, Input!TypeOK, Input!Timers, Input!IsRepeating
<1>6. ASSUME NEW k \in Keys, Input!ReleasedElsewhere(k)
      PROVE  RepeatsOK'
  BY <1>0, <1>6 DEF Input!ReleasedElsewhere, Input!windowVars, Input!pointerVars, Input!repeatVars,
     Input!textVars, RepeatsOK, Input!TypeOK, Input!Timers, Input!IsRepeating
<1>7. ASSUME NEW t \in timers, NEW rate \in 0..1, Input!RepeatTimer(t, rate)
      PROVE  RepeatsOK'
  BY <1>0, <1>7 DEF Input!RepeatTimer, Input!IsRepeating, Input!windowVars, Input!pointerVars,
     Input!repeatVars, Input!textVars, RepeatsOK, Input!TypeOK, Input!Timers
<1>8. CASE Input!KeyboardLeave
  BY <1>0, <1>8 DEF Input!KeyboardLeave, Input!disable_ime, Input!get_window, Input!Clears,
     Input!is_blocked, Input!windowVars, Input!pointerVars, Input!repeatVars, Input!textVars,
     RepeatsOK, Input!TypeOK, Input!Timers, Input!IsRepeating
<1> QED
  BY <1>1, <1>2, <1>3, <1>4, <1>5, <1>6, <1>7, <1>8 DEF Input!Next

LEMMA TextStep ==
    ASSUME Input!ConstantsAssumption, InputInv, [Input!Next]_Input!vars
    PROVE  TextOK'
<1>0. Input!TypeOK /\ TextOK /\ None \notin Windows
  BY DEF InputInv, Input!ConstantsAssumption
<1>1. CASE \/ UNCHANGED Input!vars \/ Input!PointerLeave \/ Input!Motion \/ Input!HideCursor \/ Input!Stop
           \/ \E w \in Windows : Input!Dialog(w) \/ Input!PointerEnter(w)
           \/ \E k \in Keys : Input!KeyRelease(k) \/ Input!ReleasedElsewhere(k)
           \/ \E t \in timers, rate \in 0..1 : Input!RepeatTimer(t, rate)
           \/ \E b \in Buttons : Input!PressIgnored(b) \/ Input!Release(b)
  <2>1. /\ surface'.keyboard = surface.keyboard
        /\ UNCHANGED <<seat_windows, keyboard_focused_window, batch, Input!textVars>>
    BY <1>0, <1>1 DEF Input!Dialog, Input!PointerEnter, Input!KeyRelease, Input!ReleasedElsewhere,
       Input!RepeatTimer, Input!PressIgnored, Input!Release, Input!PointerLeave, Input!Motion,
       Input!HideCursor, Input!Stop, Input!windowVars, Input!pointerVars, Input!repeatVars,
       Input!textVars, Input!vars, Input!TypeOK
  <2> QED
    BY <1>0, <2>1 DEF TextOK, Input!TypeOK, Input!TextStaysInItsWindow, Input!MarkedHasKeyboard,
       Input!textVars
<1>2. ASSUME NEW w \in Windows, Input!Close(w)
      PROVE  TextOK'
  BY <1>0, <1>2 DEF Input!Close, Input!windowVars, Input!pointerVars, Input!repeatVars,
     Input!textVars, TextOK, Input!TypeOK, Input!TextStaysInItsWindow, Input!MarkedHasKeyboard
<1>3. ASSUME NEW w \in Windows, Input!DropTask(w)
      PROVE  TextOK'
  BY <1>0, <1>3 DEF Input!DropTask, Input!drop_window, Input!Unless, Input!windowVars,
     Input!pointerVars, Input!repeatVars, Input!textVars, TextOK, Input!TypeOK,
     Input!TextStaysInItsWindow, Input!MarkedHasKeyboard
<1>4. ASSUME NEW w \in Windows, Input!KeyboardEnter(w)
      PROVE  TextOK'
  BY <1>0, <1>4 DEF Input!KeyboardEnter, Input!get_window, Input!windowVars, Input!pointerVars,
     Input!repeatVars, Input!textVars, TextOK, Input!TypeOK, Input!TextStaysInItsWindow,
     Input!MarkedHasKeyboard
<1>5. ASSUME NEW k \in Keys, Input!KeyPress(k)
      PROVE  TextOK'
  BY <1>0, <1>5 DEF Input!KeyPress, Input!Feed, Input!Shows, Input!Clears, Input!Strays,
     Input!is_blocked, Input!windowVars, Input!pointerVars, Input!repeatVars, Input!textVars,
     TextOK, Input!TypeOK, Input!TextStaysInItsWindow, Input!MarkedHasKeyboard
<1>6. ASSUME NEW b \in Buttons, NEW gone \in SUBSET (Closable \ seat_closed),
             NEW shut \in SUBSET (Blockable \ seat_closed), Input!Press(b, gone, shut)
      PROVE  TextOK'
  BY <1>0, <1>6 DEF Input!Press, Input!press_position, Input!Strays, Input!is_blocked,
     Input!windowVars, Input!pointerVars, Input!repeatVars, Input!textVars, TextOK, Input!TypeOK,
     Input!TextStaysInItsWindow, Input!MarkedHasKeyboard
<1>7. ASSUME NEW text \in BOOLEAN, Input!Preedit(text)
      PROVE  TextOK'
  BY <1>0, <1>7 DEF Input!Preedit, Input!windowVars, Input!pointerVars, Input!repeatVars,
     Input!textVars, TextOK, Input!TypeOK, Input!TextStaysInItsWindow, Input!MarkedHasKeyboard
<1>8. CASE Input!Commit
  BY <1>0, <1>8 DEF Input!Commit, Input!Clears, Input!is_blocked, Input!windowVars,
     Input!pointerVars, Input!repeatVars, Input!textVars, TextOK, Input!TypeOK,
     Input!TextStaysInItsWindow, Input!MarkedHasKeyboard
<1>9. CASE Input!Done
  BY <1>0, <1>9 DEF Input!Done, Input!Shows, Input!Clears, Input!Strays, Input!is_blocked,
     Input!windowVars, Input!pointerVars, Input!repeatVars, Input!textVars, TextOK, Input!TypeOK,
     Input!TextStaysInItsWindow, Input!MarkedHasKeyboard
<1>10. CASE Input!KeyboardLeave
  BY <1>0, <1>10 DEF Input!KeyboardLeave, Input!disable_ime, Input!get_window, Input!Clears,
     Input!is_blocked, Input!windowVars, Input!pointerVars, Input!repeatVars, Input!textVars,
     TextOK, Input!TypeOK, Input!TextStaysInItsWindow, Input!MarkedHasKeyboard
<1> QED
  BY <1>1, <1>2, <1>3, <1>4, <1>5, <1>6, <1>7, <1>8, <1>9, <1>10 DEF Input!Next

LEMMA InputTypes ==
    ASSUME Input!ConstantsAssumption, InputInv, [Input!Next]_Input!vars
    PROVE  Input!TypeOK'
<1>0. /\ Input!TypeOK /\ RepeatsOK /\ MaxId \in Nat /\ Closable \subseteq Windows
      /\ Blockable \subseteq Windows
  BY DEF InputInv, Input!ConstantsAssumption
<1>1. ASSUME NEW w \in Windows, Input!Close(w)
      PROVE  Input!TypeOK'
  BY <1>0, <1>1 DEF Input!Close, Input!windowVars, Input!pointerVars, Input!repeatVars,
     Input!textVars, Input!TypeOK, Input!Timers
<1>2. ASSUME NEW w \in Windows, Input!DropTask(w)
      PROVE  Input!TypeOK'
  BY <1>0, <1>2 DEF Input!DropTask, Input!drop_window, Input!Unless, Input!windowVars,
     Input!pointerVars, Input!repeatVars, Input!textVars, Input!TypeOK, Input!Timers
<1>3. ASSUME NEW w \in Windows, Input!Dialog(w)
      PROVE  Input!TypeOK'
  BY <1>0, <1>3 DEF Input!Dialog, Input!windowVars, Input!pointerVars, Input!repeatVars,
     Input!textVars, Input!TypeOK, Input!Timers
<1>4. ASSUME NEW w \in Windows, Input!KeyboardEnter(w)
      PROVE  Input!TypeOK'
  BY <1>0, <1>4 DEF Input!KeyboardEnter, Input!get_window, Input!windowVars, Input!pointerVars,
     Input!repeatVars, Input!textVars, Input!TypeOK, Input!Timers
<1>5. ASSUME NEW w \in Windows, Input!PointerEnter(w)
      PROVE  Input!TypeOK'
  BY <1>0, <1>5 DEF Input!PointerEnter, Input!get_window, Input!windowVars, Input!pointerVars,
     Input!repeatVars, Input!textVars, Input!TypeOK, Input!Timers
<1>6. ASSUME NEW k \in Keys, Input!KeyPress(k)
      PROVE  Input!TypeOK'
  <2> DEFINE w == keyboard_focused_window
  <2>0. w \in Windows \cup {None}
    BY <1>0 DEF Input!TypeOK
  <2>1. \A o : Input!Strays(o, w) \in BOOLEAN
    BY Zenon DEF Input!Strays
  <2>2. /\ marked' \subseteq Windows /\ {compose', pre_edit_text'} \subseteq Windows \cup {None}
        /\ stray' \in BOOLEAN
    BY <1>0, <1>6, <2>0, <2>1 DEF Input!KeyPress, Input!Feed, Input!Shows, Input!Clears,
       Input!TypeOK
  <2>3. /\ repeat' \in [current_id : 0..MaxId, current_keycode : Keys \cup {None}]
        /\ timers' \subseteq Input!Timers
    <3>1. CASE w = None
      BY <1>0, <1>6, <3>1 DEF Input!KeyPress, Input!repeatVars, Input!TypeOK
    <3>2. CASE w # None
      <4> DEFINE id == repeat.current_id + 1
      <4>1. id \in 1..MaxId
        BY <1>0, <1>6, <3>2 DEF Input!KeyPress, Input!TypeOK
      <4> HIDE DEF id
      <4>2. /\ repeat' = [current_id |-> id, current_keycode |-> k]
            /\ timers' = timers \cup {[id |-> id, key |-> k, window |-> w]}
        BY <1>6, <3>2 DEF Input!KeyPress, id
      <4> QED
        BY <1>0, <2>0, <3>2, <4>1, <4>2 DEF Input!TypeOK, Input!Timers
    <3> QED
      BY <3>1, <3>2
  <2> QED
    BY <1>0, <1>6, <2>2, <2>3 DEF Input!KeyPress, Input!windowVars, Input!pointerVars, Input!TypeOK
<1>7. ASSUME NEW k \in Keys, Input!KeyRelease(k)
      PROVE  Input!TypeOK'
  BY <1>0, <1>7 DEF Input!KeyRelease, Input!windowVars, Input!pointerVars, Input!repeatVars,
     Input!textVars, Input!TypeOK, Input!Timers
<1>8. ASSUME NEW k \in Keys, Input!ReleasedElsewhere(k)
      PROVE  Input!TypeOK'
  BY <1>0, <1>8 DEF Input!ReleasedElsewhere, Input!windowVars, Input!pointerVars, Input!repeatVars,
     Input!textVars, Input!TypeOK, Input!Timers
<1>9. ASSUME NEW t \in timers, NEW rate \in 0..1, Input!RepeatTimer(t, rate)
      PROVE  Input!TypeOK'
  BY <1>0, <1>9 DEF Input!RepeatTimer, Input!IsRepeating, Input!windowVars, Input!pointerVars,
     Input!repeatVars, Input!textVars, Input!TypeOK, Input!Timers
<1>10. ASSUME NEW b \in Buttons, Input!PressIgnored(b)
      PROVE  Input!TypeOK'
  BY <1>0, <1>10 DEF Input!PressIgnored, Input!windowVars, Input!pointerVars, Input!repeatVars,
     Input!textVars, Input!TypeOK, Input!Timers
<1>11. ASSUME NEW b \in Buttons, Input!Release(b)
      PROVE  Input!TypeOK'
  BY <1>0, <1>11 DEF Input!Release, Input!windowVars, Input!pointerVars, Input!repeatVars,
     Input!textVars, Input!TypeOK, Input!Timers
<1>12. ASSUME NEW b \in Buttons, NEW gone \in SUBSET (Closable \ seat_closed),
             NEW shut \in SUBSET (Blockable \ seat_closed), Input!Press(b, gone, shut)
      PROVE  Input!TypeOK'
  BY <1>0, <1>12 DEF Input!Press, Input!press_position, Input!Strays, Input!is_blocked,
     Input!windowVars, Input!pointerVars, Input!repeatVars, Input!textVars, Input!TypeOK,
     Input!Timers
<1>13. ASSUME NEW text \in BOOLEAN, Input!Preedit(text)
      PROVE  Input!TypeOK'
  BY <1>0, <1>13 DEF Input!Preedit, Input!windowVars, Input!pointerVars, Input!repeatVars,
     Input!textVars, Input!TypeOK, Input!Timers
<1>14. CASE Input!Commit
  BY <1>0, <1>14 DEF Input!Commit, Input!Clears, Input!is_blocked, Input!windowVars,
     Input!pointerVars, Input!repeatVars, Input!textVars, Input!TypeOK, Input!Timers
<1>15. CASE Input!Done
  BY <1>0, <1>15 DEF Input!Done, Input!Shows, Input!Clears, Input!Strays, Input!is_blocked,
     Input!windowVars, Input!pointerVars, Input!repeatVars, Input!textVars, Input!TypeOK,
     Input!Timers
<1>16. CASE Input!KeyboardLeave
  <2>1. /\ repeat' = [repeat EXCEPT !.current_id = @ + 1] /\ repeat.current_id < MaxId
        /\ surface' = [surface EXCEPT !.keyboard = None]
    BY <1>16 DEF Input!KeyboardLeave
  <2>2. /\ repeat' \in [current_id : 0..MaxId, current_keycode : Keys \cup {None}]
        /\ surface' \in [keyboard : Windows \cup {None}, pointer : Windows \cup {None}]
    BY <1>0, <2>1 DEF Input!TypeOK
  <2>3. marked' \subseteq Windows /\ {compose', pre_edit_text'} \subseteq Windows \cup {None}
    BY <1>0, <1>16 DEF Input!KeyboardLeave, Input!Clears, Input!TypeOK
  <2> QED
    BY <1>0, <1>16, <2>2, <2>3 DEF Input!KeyboardLeave, Input!disable_ime, Input!windowVars,
       Input!TypeOK, Input!Timers
<1>17. CASE Input!PointerLeave
  BY <1>0, <1>17 DEF Input!PointerLeave, Input!windowVars, Input!pointerVars, Input!repeatVars,
     Input!textVars, Input!TypeOK, Input!Timers
<1>18. CASE Input!Motion
  BY <1>0, <1>18 DEF Input!Motion, Input!windowVars, Input!pointerVars, Input!repeatVars,
     Input!textVars, Input!TypeOK, Input!Timers
<1>19. CASE Input!HideCursor
  BY <1>0, <1>19 DEF Input!HideCursor, Input!windowVars, Input!pointerVars, Input!repeatVars,
     Input!textVars, Input!TypeOK, Input!Timers
<1>20. CASE Input!Stop
  BY <1>0, <1>20 DEF Input!Stop, Input!windowVars, Input!pointerVars, Input!repeatVars,
     Input!textVars, Input!TypeOK, Input!Timers
<1>21. CASE UNCHANGED Input!vars
  BY <1>0, <1>21 DEF Input!windowVars, Input!pointerVars, Input!repeatVars, Input!textVars,
     Input!vars, Input!TypeOK, Input!Timers
<1> QED
  BY <1>1, <1>2, <1>3, <1>4, <1>5, <1>6, <1>7, <1>8, <1>9, <1>10, <1>11, <1>12, <1>13, <1>14,
     <1>15, <1>16, <1>17, <1>18, <1>19, <1>20, <1>21 DEF Input!Next

LEMMA InputInit == ASSUME Input!ConstantsAssumption PROVE Input!Init => InputInv
<1> SUFFICES ASSUME Input!Init PROVE InputInv
  OBVIOUS
<1>1. Input!TypeOK
  <2>1. batch \in BOOLEAN /\ mouse_location \in BOOLEAN /\ composing \in BOOLEAN /\ stray \in BOOLEAN
    BY DEF Input!Init
  <2>2. surface \in [keyboard : Windows \cup {None}, pointer : Windows \cup {None}]
    BY DEF Input!Init
  <2>3. repeat \in [current_id : 0..MaxId, current_keycode : Keys \cup {None}]
    <3>1. 0 \in 0..MaxId
      BY DEF Input!ConstantsAssumption
    <3> QED
      BY <3>1 DEF Input!Init
  <2>4. /\ seat_windows \subseteq Windows /\ seat_closed \subseteq Closable /\ dialogs \subseteq Blockable
        /\ held \subseteq Keys \cup Buttons /\ marked \subseteq Windows /\ timers \subseteq Input!Timers
        /\ button_pressed \in Buttons \cup {None}
    BY DEF Input!Init
  <2>5. /\ {keyboard_focused_window, mouse_focused_window, cursor_hidden_window}
                \subseteq seat_windows \cup {None}
        /\ {compose, pre_edit_text, ime_pre_edit} \subseteq Windows \cup {None}
    BY DEF Input!Init
  <2> QED
    BY <2>1, <2>2, <2>3, <2>4, <2>5 DEF Input!TypeOK
<1>2. RepeatsOK /\ PointerOK /\ SentOK
  BY DEF Input!Init, RepeatsOK, PointerOK, Input!HiddenUnderPointer, Input!PointerHasLocation,
     Input!PressedIsDown, SentOK, Input!RepeatsHeldKey, Input!PressIsAdmitted
<1>3. TextOK
  BY DEF Input!Init, TextOK, Input!TextStaysInItsWindow, Input!MarkedHasKeyboard
<1> QED
  BY <1>1, <1>2, <1>3 DEF InputInv

LEMMA InputStep == ASSUME Input!ConstantsAssumption PROVE InputInv /\ [Input!Next]_Input!vars => InputInv'
  BY InputTypes, RepeatsStep, PointerStep, TextStep, SentStep DEF InputInv

LEMMA InputInductive ==
    ASSUME Input!ConstantsAssumption
    PROVE  /\ Input!Init => InputInv
           /\ InputInv /\ [Input!Next]_Input!vars => InputInv'
           /\ InputInv => /\ Input!TypeOK /\ Input!InputStaysInItsWindow
                          /\ Input!PressIsAdmitted /\ Input!PressedIsDown
                          /\ Input!HiddenUnderPointer /\ Input!PointerHasLocation
<1>1. ASSUME InputInv
      PROVE  Input!TypeOK /\ Input!InputStaysInItsWindow
  <2>1. Input!OneRepeat
    BY <1>1 DEF InputInv, RepeatsOK, Input!OneRepeat, Input!IsRepeating
  <2> QED
    BY <1>1, <2>1 DEF InputInv, SentOK, TextOK, Input!InputStaysInItsWindow
<1>2. InputInv => /\ Input!PressIsAdmitted /\ Input!PressedIsDown
                  /\ Input!HiddenUnderPointer /\ Input!PointerHasLocation
  BY DEF InputInv, SentOK, PointerOK
<1> QED
  BY <1>1, <1>2, InputInit, InputStep

-----------------------------------------------------------------------------
(* The display links of macOS                                              *)

LEMMA ConsProperties ==
    ASSUME NEW S, NEW a \in S, NEW s \in Seq(S)
    PROVE  /\ <<a>> \o s \in Seq(S)
           /\ <<a>> \o s # <<>>
           /\ Head(<<a>> \o s) = a
           /\ Tail(<<a>> \o s) = s
<1>1. <<a>> \in Seq(S) /\ Len(<<a>>) = 1 /\ <<a>>[1] = a
  OBVIOUS
<1>2. <<a>> \o s \in Seq(S) /\ Len(<<a>> \o s) = 1 + Len(s)
  BY <1>1, ConcatProperties
<1>3. <<a>> \o s # <<>>
  BY <1>2, LenProperties, EmptySeq
<1>4. Head(<<a>> \o s) = a
  BY <1>1, <1>2, <1>3, ConcatProperties, HeadTailProperties
<1>5. Tail(<<a>> \o s) = s
  <2>1. Tail(<<a>> \o s) \in Seq(S) /\ Len(Tail(<<a>> \o s)) = Len(s)
    BY <1>2, <1>3, HeadTailProperties, LenProperties
  <2>2. ASSUME NEW i \in 1..Len(s) PROVE Tail(<<a>> \o s)[i] = s[i]
    <3>1. Tail(<<a>> \o s)[i] = (<<a>> \o s)[i+1]
      BY <1>2, <1>3, <2>1, HeadTailProperties
    <3>2. (<<a>> \o s)[i+1] = s[i]
      BY <1>1, <1>2, ConcatProperties, LenProperties
    <3> QED
      BY <3>1, <3>2
  <2> QED
    BY <2>1, <2>2, SeqEqual
<1> QED
  BY <1>2, <1>3, <1>4, <1>5

Ops == {"stop", "start", "look", "restart", "done", "draw", "cancel", "free"}
Frame == [op : Ops, x : LinkWindows \cup Displays \cup [w : LinkWindows, d : Displays]]

LEMMA FrameFields ==
    /\ \A op, x : Link!Do(op, x).op = op /\ Link!Do(op, x).x = x
    /\ \A op1, op2, x1, x2 : Link!Do(op1, x1) = Link!Do(op2, x2) => op1 = op2 /\ x1 = x2
  BY DEF Link!Do

LEMMA FrameTypes ==
    /\ \A op \in Ops, w \in LinkWindows : Link!Do(op, w) \in Frame
    /\ \A d \in Displays : Link!Do("stop", d) \in Frame
    /\ \A w \in LinkWindows, d \in Displays : Link!Do("start", [w |-> w, d |-> d]) \in Frame
<1> DEFINE X == LinkWindows \cup Displays \cup [w : LinkWindows, d : Displays]
<1>1. \A op \in Ops, x \in X : Link!Do(op, x) \in Frame
  BY DEF Link!Do, Frame
<1>2. /\ \A w \in LinkWindows : w \in X
      /\ \A d \in Displays : d \in X
      /\ \A w \in LinkWindows, d \in Displays : [w |-> w, d |-> d] \in X
  OBVIOUS
<1> HIDE DEF X
<1> QED
  BY <1>1, <1>2 DEF Ops

\* What is left of the call on the main thread once it has stopped the link it has to stop.
Left == IF main # <<>> /\ Head(main).op = "stop" THEN Tail(main) ELSE main

At1(op, x) == Left # <<>> /\ Head(Left) = Link!Do(op, x)
At2(op, x) == Left # <<>> /\ Tail(Left) # <<>> /\ Head(Tail(Left)) = Link!Do(op, x)
Stops(d) == main # <<>> /\ Head(main) = Link!Do("stop", d)
Starts(w, d) == At1("start", [w |-> w, d |-> d])
Restarts(w) == At1("restart", w) \/ At2("restart", w)

\* The calls there are: everything but a draw and a cancellation is the last thing to do, and those
\* two are followed by the end of a draw, or a cancellation by the end of its window.
CallOK(s) ==
    s # <<>> =>
        /\ Head(s).op # "stop"
        /\ IF Head(s).op = "start"
           THEN \E w \in LinkWindows, d \in Displays : Head(s) = Link!Do("start", [w |-> w, d |-> d])
           ELSE \E w \in LinkWindows : Head(s) = Link!Do(Head(s).op, w)
        /\ Head(s).op \notin {"draw", "cancel"} => Tail(s) = <<>>
        /\ Tail(s) # <<>> =>
                /\ Tail(Tail(s)) = <<>>
                /\ Head(Tail(s)).op \in {"restart", "done", "free"}
                /\ \E w \in LinkWindows : Head(Tail(s)) = Link!Do(Head(Tail(s)).op, w)
                /\ Head(Tail(s)).op = "free" => Head(s) = Link!Do("cancel", Head(Tail(s)).x)
NoStart(s) == s # <<>> => Head(s).op # "start"
MainOK ==
    /\ main \in Seq(Frame) /\ Left \in Seq(Frame) /\ CallOK(Left)
    /\ main # <<>> /\ Head(main).op = "stop" =>
            NoStart(Left) /\ \E d \in Displays : Head(main) = Link!Do("stop", d)

\* The registry counts the windows' registrations and the one that a start is for; CoreVideo is one
\* call behind it.
RegistryOK ==
    /\ \A w \in LinkWindows, d \in Displays :
            subs[d][w] = IF reg[w] = d \/ Starts(w, d) THEN 1 ELSE 0
    /\ \A d \in Displays : running[d] <=> \E w \in LinkWindows : subs[d][w] > 0
    /\ \A d \in Displays :
            /\ link[d] <=> Stops(d) \/ (running[d] /\ ~ \E w \in LinkWindows : Starts(w, d))
            /\ Stops(d) => ~running[d]
    /\ \A w, v \in LinkWindows, d \in Displays : Starts(w, d) /\ subs[d][v] > 0 => v = w

\* What the calls rely on.
CallsOK ==
    \A w \in LinkWindows :
        /\ At1("look", w) => reg[w] = NoDisplay
        /\ At1("look", w) \/ Restarts(w) => window[w] # "freed"
        /\ \A d \in Displays : Starts(w, d) =>
                /\ reg[w] = NoDisplay /\ window[w] # "freed" /\ source[w] = "live"
                /\ visible[w] /\ screen[w] = d
        /\ At1("free", w) \/ At2("free", w) => window[w] = "dropped" /\ reg[w] = NoDisplay
        /\ At1("free", w) => source[w] = "none"

QuietOK ==
    \A w \in LinkWindows :
        /\ source[w] = "none" => ~pending[w]
        /\ window[w] = "freed" => source[w] = "none" /\ reg[w] = NoDisplay

\* A window that has the wrong pace, or none, is to be looked at by the call.
PacedOK ==
    \A w \in LinkWindows :
        window[w] = "open" /\ notes[w] = {} /\ ~failed[w] =>
            \/ reg[w] = IF visible[w] THEN screen[w] ELSE NoDisplay
            \/ At1("look", w) \/ Restarts(w) \/ \E d \in Displays : Starts(w, d)

\* The inductive invariant.
LinkInv == Link!TypeOK /\ MainOK /\ RegistryOK /\ CallsOK /\ QuietOK /\ PacedOK

LEMMA LinkInit == Link!ConstantsAssumption /\ Link!Init => LinkInv
<1> SUFFICES ASSUME Link!ConstantsAssumption, Link!Init PROVE LinkInv
  OBVIOUS
<1>1. main = <<>> /\ Left = <<>>
  BY DEF Link!Init, Left
<1>2. Link!TypeOK
  <2>1. /\ entries \subseteq Displays /\ running \in [Displays -> BOOLEAN]
        /\ link \in [Displays -> BOOLEAN] /\ straggler \in [Displays -> BOOLEAN]
    BY DEF Link!Init
  <2>2. /\ pending \in [LinkWindows -> BOOLEAN] /\ link_callback \in [LinkWindows -> BOOLEAN]
        /\ visible \in [LinkWindows -> BOOLEAN] /\ failed \in [LinkWindows -> BOOLEAN]
    BY DEF Link!Init
  <2>3. subs \in [Displays -> [LinkWindows -> 0..1]]
    BY DEF Link!Init
  <2>4. /\ source \in [LinkWindows -> {"none", "live"}]
        /\ window \in [LinkWindows -> {"open", "dropped", "freed"}]
        /\ reg \in [LinkWindows -> Displays \cup {NoDisplay}]
        /\ screen \in [LinkWindows -> Displays \cup {NoDisplay}]
        /\ notes \in [LinkWindows -> SUBSET {"occlusion", "screen"}]
    BY DEF Link!Init
  <2> QED
    BY <2>1, <2>2, <2>3, <2>4 DEF Link!TypeOK
<1>3. MainOK
  BY <1>1, EmptySeq DEF MainOK, CallOK
<1>4. RegistryOK
  BY <1>1 DEF RegistryOK, Stops, Starts, At1, Link!Init, Link!ConstantsAssumption
<1>5. CallsOK /\ QuietOK
  BY <1>1 DEF CallsOK, Restarts, Starts, At1, At2, Link!Init, QuietOK
<1>6. PacedOK
  BY DEF PacedOK, Link!Init
<1> QED
  BY <1>2, <1>3, <1>4, <1>5, <1>6 DEF LinkInv

\* A call that goes on to its next step.
LEMMA MainGoesOn ==
    ASSUME MainOK, main # <<>>, main' = Tail(main)
    PROVE  /\ MainOK'
           /\ Left' = IF Head(main).op = "stop" THEN Left ELSE Tail(Left)
           /\ \A d : ~Stops(d)'
           /\ Left # <<>> => NoStart(Tail(Left))
<1>1. ASSUME NEW s, s \in Seq(Frame), s # <<>>, CallOK(s)
      PROVE  /\ Head(s).op # "stop"
             /\ Tail(s) \in Seq(Frame) /\ CallOK(Tail(s)) /\ NoStart(Tail(s))
             /\ Tail(s) # <<>> => Head(Tail(s)).op # "stop"
  <2>1. Tail(s) \in Seq(Frame)
    BY <1>1, HeadTailProperties
  <2>2. CASE Tail(s) = <<>>
    BY <2>1, <2>2, <1>1, FrameFields DEF CallOK, NoStart
  <2>3. CASE Tail(s) # <<>>
    BY <2>1, <2>3, <1>1, FrameFields DEF CallOK, NoStart
  <2> QED
    BY <2>2, <2>3
<1>2. CASE Head(main).op = "stop"
  <2>1. Left = Tail(main)
    BY <1>2 DEF Left
  <2>2. Left' = Left
    BY <2>1, <1>1 DEF Left, MainOK
  <2>3. \A d : ~Stops(d)'
    <3>1. Tail(main) # <<>> => Head(Tail(main)).op # "stop"
      BY <2>1, <1>1 DEF MainOK
    <3> QED
      BY <3>1, FrameFields DEF Stops
  <2>4. MainOK'
    BY <2>1, <2>2, <1>1 DEF MainOK
  <2> QED
    BY <1>1, <1>2, <2>2, <2>3, <2>4 DEF MainOK
<1>3. CASE Head(main).op # "stop"
  <2>1. Left = main
    BY <1>3 DEF Left
  <2>2. Left' = Tail(Left)
    BY <2>1, <1>1 DEF Left, MainOK
  <2>3. \A d : ~Stops(d)'
    <3>1. Tail(main) # <<>> => Head(Tail(main)).op # "stop"
      BY <2>1, <1>1 DEF MainOK
    <3> QED
      BY <3>1, FrameFields DEF Stops
  <2>4. MainOK'
    BY <2>1, <2>2, <1>1 DEF MainOK
  <2> QED
    BY <1>1, <1>3, <2>1, <2>2, <2>3, <2>4 DEF MainOK
<1> QED
  BY <1>2, <1>3

\* A call that begins, or goes on with something else to do first.
LEMMA MainBegins ==
    ASSUME NEW then \in Seq(Frame), CallOK(then), main' = then
    PROVE  MainOK' /\ Left' = then /\ \A d : ~Stops(d)'
<1>1. then # <<>> => Head(then).op # "stop"
  BY FrameFields DEF CallOK
<1> QED
  BY <1>1, FrameFields DEF MainOK, Left, Stops

LEMMA MainStops ==
    ASSUME NEW then \in Seq(Frame), CallOK(then), NoStart(then), NEW d \in Displays,
           main' = <<Link!Do("stop", d)>> \o then
    PROVE  MainOK' /\ Left' = then /\ \A e : Stops(e)' <=> e = d
<1>1. Link!Do("stop", d) \in Frame
  BY FrameTypes
<1>2. main' \in Seq(Frame) /\ main' # <<>> /\ Head(main') = Link!Do("stop", d) /\ Tail(main') = then
  BY <1>1, ConsProperties
<1>3. Left' = then
  BY <1>2, FrameFields DEF Left
<1>4. MainOK'
  BY <1>2, <1>3 DEF MainOK
<1> QED
  BY <1>2, <1>3, <1>4, FrameFields DEF Stops

\* Nothing is between the registry and CoreVideo.
Calm == (\A d : ~Stops(d)) /\ (\A w \in LinkWindows, d \in Displays : ~Starts(w, d))

LEMMA UnsubscribeEffect ==
    ASSUME Link!ConstantsAssumption, Link!TypeOK, RegistryOK, Calm,
           NEW w \in LinkWindows, NEW then \in Seq(Frame), CallOK(then), NoStart(then),
           Link!Unsubscribe(w, then), link' = link
    PROVE  /\ MainOK' /\ Left' = then /\ RegistryOK'
           /\ reg' = [reg EXCEPT ![w] = NoDisplay]
           /\ entries' = entries /\ running' \in [Displays -> BOOLEAN]
           /\ subs' \in [Displays -> [LinkWindows -> 0..1]]
<1>0. \A v \in LinkWindows, d \in Displays : subs[d][v] = IF reg[v] = d THEN 1 ELSE 0
  BY DEF RegistryOK, Calm
<1>1. CASE reg[w] = NoDisplay
  <2>1. main' = then /\ UNCHANGED <<entries, running, subs, reg>>
    BY <1>1 DEF Link!Unsubscribe, Link!registry
  <2>2. MainOK' /\ Left' = then /\ \A d : ~Stops(d)'
    BY <2>1, MainBegins
  <2>3. \A v, d : ~Starts(v, d)'
    BY <2>2, FrameFields DEF NoStart, Starts, At1
  <2>4. RegistryOK'
    BY <2>1, <2>2, <2>3 DEF RegistryOK, Calm
  <2> QED
    BY <1>1, <2>1, <2>2, <2>4 DEF Link!TypeOK
<1>2. CASE reg[w] # NoDisplay
  <2> DEFINE d == reg[w]
             none == \A v \in LinkWindows : subs'[d][v] = 0
  <2>1. d \in Displays
    BY <1>2 DEF Link!TypeOK
  <2>2. /\ subs' = [subs EXCEPT ![d][w] = @ - 1] /\ reg' = [reg EXCEPT ![w] = NoDisplay]
        /\ entries' = entries
    BY <1>2 DEF Link!Unsubscribe
  <2>3. /\ subs' \in [Displays -> [LinkWindows -> 0..1]]
        /\ \A v \in LinkWindows, e \in Displays : subs'[e][v] = IF reg'[v] = e THEN 1 ELSE 0
    BY <1>0, <2>1, <2>2 DEF Link!TypeOK, Link!ConstantsAssumption
  <2>4. running[d]
    BY <1>0, <2>1 DEF RegistryOK
  <2>5. Link!Subscribers(subs', d) = {} <=> none
    BY <2>1, <2>3 DEF Link!Subscribers
  <2>6. /\ running' = [running EXCEPT ![d] = @ /\ ~none]
        /\ main' = IF none THEN <<Link!Do("stop", d)>> \o then ELSE then
    BY <1>2, <2>4, <2>5 DEF Link!Unsubscribe
  <2>7. \A e \in Displays : running'[e] <=> \E v \in LinkWindows : subs'[e][v] > 0
    <3>1. \A v \in LinkWindows : subs'[d][v] # 0 => subs'[d][v] > 0
      BY <2>1, <2>3
    <3>2. running'[d] <=> \E v \in LinkWindows : subs'[d][v] > 0
      <4>1. running'[d] <=> ~none
        BY <2>1, <2>4, <2>6 DEF Link!TypeOK
      <4>2. ~none <=> \E v \in LinkWindows : subs'[d][v] > 0
        BY <3>1
      <4> QED
        BY <4>1, <4>2
    <3>3. ASSUME NEW e \in Displays, e # d
          PROVE  running'[e] <=> \E v \in LinkWindows : subs'[e][v] > 0
      BY <3>3, <2>1, <2>2, <2>6 DEF Link!TypeOK, RegistryOK
    <3> QED
      BY <3>2, <3>3
  <2>8. /\ MainOK' /\ Left' = then
        /\ \A e \in Displays : Stops(e)' <=> e = d /\ none
    <3>1. CASE none
      BY <3>1, <2>1, <2>6, MainStops
    <3>2. CASE ~none
      BY <3>2, <2>6, MainBegins
    <3> QED
      BY <3>1, <3>2
  <2>9. \A v, e : ~Starts(v, e)'
    BY <2>8, FrameFields DEF NoStart, Starts, At1
  <2>10. \A e \in Displays : /\ link'[e] <=> Stops(e)' \/ running'[e]
                             /\ Stops(e)' => ~running'[e]
    <3>1. link[d] /\ (running'[d] <=> ~none)
      BY <2>1, <2>4, <2>6 DEF RegistryOK, Calm, Link!TypeOK
    <3>2. \A e \in Displays : e # d => (link[e] <=> running'[e])
      BY <2>1, <2>6 DEF RegistryOK, Calm, Link!TypeOK
    <3> QED
      BY <3>1, <3>2, <2>8
  <2>11. RegistryOK'
    BY <2>3, <2>7, <2>9, <2>10 DEF RegistryOK
  <2>12. running' \in [Displays -> BOOLEAN]
    BY <2>1, <2>6 DEF Link!TypeOK
  <2> QED
    BY <2>2, <2>3, <2>8, <2>11, <2>12
<1> QED
  BY <1>1, <1>2

LEMMA StopLinkStep ==
    ASSUME Link!ConstantsAssumption, LinkInv, Link!StopLink
    PROVE  LinkInv'
<1>1. main # <<>> /\ Head(main).op = "stop" /\ main' = Tail(main)
  BY DEF Link!StopLink, Link!At, Link!Rest
<1>2. MainOK' /\ Left' = Left /\ \A d : ~Stops(d)'
  BY <1>1, MainGoesOn DEF LinkInv
<1>3. PICK d \in Displays : Head(main) = Link!Do("stop", d)
  BY <1>1 DEF LinkInv, MainOK
<1>4. /\ link' = [link EXCEPT ![d] = FALSE] /\ straggler' = [straggler EXCEPT ![d] = TRUE]
      /\ UNCHANGED <<entries, running, subs, source, reg, pending, link_callback, window, visible, screen,
                     notes, failed>>
  BY <1>3, FrameFields DEF Link!StopLink, Link!Arg, Link!registry, Link!appKit
<1>5. /\ \A op, x : (At1(op, x)' <=> At1(op, x)) /\ (At2(op, x)' <=> At2(op, x))
      /\ \A w, e : Starts(w, e)' <=> Starts(w, e)
      /\ \A w : Restarts(w)' <=> Restarts(w)
  BY <1>2 DEF At1, At2, Starts, Restarts
<1>6. Link!TypeOK'
  BY <1>4 DEF LinkInv, Link!TypeOK
<1>7. RegistryOK'
  <2>1. Stops(d) /\ \A e : Stops(e) => e = d
    BY <1>1, <1>3, FrameFields DEF Stops
  <2>2. \A w \in LinkWindows, e \in Displays : ~Starts(w, e)
    BY <1>1, FrameFields DEF LinkInv, MainOK, NoStart, Starts, At1
  <2>3. \A e \in Displays : link'[e] <=> running'[e]
    BY <1>4, <2>1, <2>2 DEF LinkInv, RegistryOK, Link!TypeOK
  <2> QED
    BY <1>2, <1>4, <1>5, <2>2, <2>3 DEF LinkInv, RegistryOK
<1>8. CallsOK' /\ QuietOK' /\ PacedOK'
  BY <1>4, <1>5 DEF LinkInv, CallsOK, QuietOK, PacedOK
<1> QED
  BY <1>2, <1>6, <1>7, <1>8 DEF LinkInv

\* The same in terms of what is to be done.
LEMMA CallGoesOn ==
    ASSUME MainOK, main # <<>>, Head(main).op # "stop", main' = Tail(main)
    PROVE  /\ MainOK' /\ Left = main
           /\ \A d : ~Stops(d) /\ ~Stops(d)'
           /\ \A w, d : ~Starts(w, d)'
           /\ \A op, x : (At1(op, x)' <=> At2(op, x)) /\ ~At2(op, x)'
<1>1. Left = main
  BY DEF Left
<1>2. MainOK' /\ Left' = Tail(Left) /\ NoStart(Tail(Left)) /\ \A d : ~Stops(d)'
  BY <1>1, MainGoesOn
<1>3. Tail(Left) # <<>> => Tail(Tail(Left)) = <<>>
  BY <1>1 DEF MainOK, CallOK
<1>4. \A op, x : (At1(op, x)' <=> At2(op, x)) /\ ~At2(op, x)'
  BY <1>1, <1>2, <1>3 DEF At1, At2
<1>5. \A w, d : ~Starts(w, d)'
  BY <1>2, FrameFields DEF Starts, At1, NoStart
<1>6. \A d : ~Stops(d)
  BY FrameFields DEF Stops
<1> QED
  BY <1>1, <1>2, <1>4, <1>5, <1>6

LEMMA StartLinkStep ==
    ASSUME Link!ConstantsAssumption, LinkInv, Link!StartLink \/ Link!StartLinkFails
    PROVE  LinkInv'
<1>1. main # <<>> /\ Head(main).op = "start" /\ main' = Tail(main)
  BY DEF Link!StartLink, Link!StartLinkFails, Link!At, Link!Rest
<1>2. /\ MainOK' /\ Left = main
      /\ \A d : ~Stops(d) /\ ~Stops(d)'
      /\ \A v, d : ~Starts(v, d)'
      /\ \A op, x : (At1(op, x)' <=> At2(op, x)) /\ ~At2(op, x)'
  BY <1>1, CallGoesOn DEF LinkInv
<1>3. PICK w \in LinkWindows, d \in Displays : Head(main) = Link!Do("start", [w |-> w, d |-> d])
  BY <1>1, <1>2 DEF LinkInv, MainOK, CallOK
<1>4. Link!Arg.w = w /\ Link!Arg.d = d
  BY <1>3, FrameFields DEF Link!Arg
<1>5. Starts(w, d) /\ \A v \in LinkWindows, e \in Displays : Starts(v, e) => v = w /\ e = d
  BY <1>1, <1>2, <1>3, FrameFields DEF Starts, At1
<1>6. \A op, x : ~At1(op, x)' /\ ~At2(op, x)'
  BY <1>1, <1>2 DEF LinkInv, MainOK, CallOK, At2
<1>7. \A v : ~Restarts(v)'
  BY <1>6 DEF Restarts
<1>8. /\ reg[w] = NoDisplay /\ window[w] # "freed" /\ source[w] = "live" /\ visible[w] /\ screen[w] = d
  BY <1>5 DEF LinkInv, CallsOK
<1>9. ~link[d] /\ running[d] /\ \A v \in LinkWindows : subs[d][v] = IF v = w THEN 1 ELSE 0
  <2>1. /\ ~link[d] /\ subs[d][w] = 1
        /\ \A v \in LinkWindows : subs[d][v] > 0 => v = w
    BY <1>2, <1>5 DEF LinkInv, RegistryOK
  <2>2. \A v \in LinkWindows : subs[d][v] \in 0..1
    BY DEF LinkInv, Link!TypeOK
  <2> QED
    BY <2>1, <2>2 DEF LinkInv, RegistryOK
<1>10. UNCHANGED <<entries, source, pending, link_callback, window, visible, screen, notes>>
  BY DEF Link!StartLink, Link!StartLinkFails, Link!registry, Link!appKit
<1>11. CASE Link!StartLink
  <2>1. /\ link' = [link EXCEPT ![d] = TRUE] /\ reg' = [reg EXCEPT ![w] = d]
        /\ failed' = [failed EXCEPT ![w] = FALSE] /\ UNCHANGED <<running, subs, straggler>>
    BY <1>4, <1>11 DEF Link!StartLink, Link!registry
  <2>2. Link!TypeOK'
    BY <2>1, <1>10 DEF LinkInv, Link!TypeOK
  <2>3. RegistryOK'
    <3>1. \A v \in LinkWindows, e \in Displays : subs'[e][v] = IF reg'[v] = e THEN 1 ELSE 0
      BY <2>1, <1>5, <1>8 DEF LinkInv, RegistryOK, Link!TypeOK, Link!ConstantsAssumption
    <3>2. \A e \in Displays : link'[e] <=> running'[e]
      BY <2>1, <1>2, <1>5, <1>9 DEF LinkInv, RegistryOK, Link!TypeOK
    <3>3. \A e \in Displays : running'[e] <=> \E v \in LinkWindows : subs'[e][v] > 0
      BY <2>1 DEF LinkInv, RegistryOK
    <3> QED
      BY <3>1, <3>2, <3>3, <1>2 DEF RegistryOK
  <2>4. CallsOK' /\ QuietOK'
    BY <1>2, <1>6, <1>7, <1>8, <1>10, <2>1 DEF LinkInv, CallsOK, QuietOK, Link!TypeOK
  <2>5. PacedOK'
    <3>1. \A v \in LinkWindows : v # w => ~Restarts(v) /\ ~At1("look", v) /\ \A e \in Displays : ~Starts(v, e)
      BY <1>1, <1>2, <1>5, <1>6, FrameFields DEF Restarts, At1
    <3>2. reg'[w] = IF visible'[w] THEN screen'[w] ELSE NoDisplay
      BY <1>8, <1>10, <2>1 DEF LinkInv, Link!TypeOK
    <3> QED
      BY <3>1, <3>2, <1>10, <2>1 DEF LinkInv, PacedOK, Link!TypeOK
  <2> QED
    BY <1>2, <2>2, <2>3, <2>4, <2>5 DEF LinkInv
<1>12. CASE Link!StartLinkFails
  <2>1. /\ running' = [running EXCEPT ![d] = FALSE] /\ subs' = [subs EXCEPT ![d][w] = @ - 1]
        /\ failed' = [failed EXCEPT ![w] = TRUE] /\ UNCHANGED <<link, straggler, reg>>
    BY <1>4, <1>12 DEF Link!StartLinkFails, Link!coreVideo
  <2>2. Link!TypeOK'
    BY <2>1, <1>9, <1>10 DEF LinkInv, Link!TypeOK
  <2>3. RegistryOK'
    <3>1. \A v \in LinkWindows, e \in Displays : subs'[e][v] = IF reg'[v] = e THEN 1 ELSE 0
      <4>1. \A v \in LinkWindows, e \in Displays : subs'[e][v] = IF v = w /\ e = d THEN 0 ELSE subs[e][v]
        BY <2>1, <1>9 DEF LinkInv, Link!TypeOK
      <4> QED
        BY <4>1, <2>1, <1>5, <1>8 DEF LinkInv, RegistryOK, Link!TypeOK, Link!ConstantsAssumption
    <3>2. \A e \in Displays : link'[e] <=> running'[e]
      BY <2>1, <1>2, <1>5, <1>9 DEF LinkInv, RegistryOK, Link!TypeOK
    <3>3. \A e \in Displays : running'[e] <=> \E v \in LinkWindows : subs'[e][v] > 0
      BY <2>1, <1>9 DEF LinkInv, RegistryOK, Link!TypeOK
    <3> QED
      BY <3>1, <3>2, <3>3, <1>2 DEF RegistryOK
  <2>4. CallsOK' /\ QuietOK'
    BY <1>2, <1>6, <1>7, <1>8, <1>10, <2>1 DEF LinkInv, CallsOK, QuietOK, Link!TypeOK
  <2>5. PacedOK'
    <3>1. \A v \in LinkWindows : v # w => ~Restarts(v) /\ ~At1("look", v) /\ \A e \in Displays : ~Starts(v, e)
      BY <1>1, <1>2, <1>5, <1>6, FrameFields DEF Restarts, At1
    <3> QED
      BY <3>1, <1>10, <2>1 DEF LinkInv, PacedOK, Link!TypeOK
  <2> QED
    BY <1>2, <2>2, <2>3, <2>4, <2>5 DEF LinkInv
<1> QED
  BY <1>11, <1>12

LEMMA CallStep ==
    ASSUME Link!ConstantsAssumption, LinkInv,
           Link!LookElsewhere \/ Link!StepDone \/ Link!Draw \/ Link!CancelSource \/ Link!Free
    PROVE  LinkInv'
<1>1. /\ main # <<>> /\ Head(main).op \in {"look", "done", "draw", "cancel", "free"} /\ main' = Tail(main)
  BY DEF Link!LookElsewhere, Link!StepDone, Link!Draw, Link!CancelSource, Link!Free, Link!At,
     Link!Rest
<1>2. /\ MainOK' /\ Left = main
      /\ \A d : ~Stops(d) /\ ~Stops(d)'
      /\ \A v, d : ~Starts(v, d)'
      /\ \A op, x : (At1(op, x)' <=> At2(op, x)) /\ ~At2(op, x)'
  BY <1>1, CallGoesOn DEF LinkInv
<1>3. PICK w \in LinkWindows : Head(main) = Link!Do(Head(main).op, w)
  BY <1>1, <1>2 DEF LinkInv, MainOK, CallOK
<1>4. Link!Arg = w
  BY <1>3, FrameFields DEF Link!Arg
<1>5. /\ \A v, d : ~Starts(v, d)
      /\ \A v : Restarts(v)' <=> Restarts(v)
  BY <1>1, <1>2, FrameFields DEF Starts, Restarts, At1
<1>6. UNCHANGED <<entries, running, subs, link, straggler, reg, visible, screen, notes, failed>>
  BY DEF Link!LookElsewhere, Link!StepDone, Link!Draw, Link!CancelSource, Link!Free, Link!registry,
     Link!coreVideo, Link!appKit
<1>7. RegistryOK'
  BY <1>2, <1>5, <1>6 DEF LinkInv, RegistryOK
<1>8. \A v : ~At1("look", v)'
  BY <1>2, FrameFields DEF LinkInv, MainOK, CallOK, At2
<1>9. CASE Link!LookElsewhere \/ Link!StepDone \/ Link!Draw
  <2>1. UNCHANGED <<source, pending, window>>
    BY <1>9 DEF Link!LookElsewhere, Link!StepDone, Link!Draw
  <2>2. link_callback' \in [LinkWindows -> BOOLEAN]
    BY <1>9 DEF Link!LookElsewhere, Link!StepDone, Link!Draw, LinkInv, Link!TypeOK
  <2>3. Link!TypeOK'
    BY <1>6, <2>1, <2>2 DEF LinkInv, Link!TypeOK
  <2>4. \A v : ~At1("free", v)'
    <3>1. Head(main).op # "cancel"
      BY <1>9 DEF Link!LookElsewhere, Link!StepDone, Link!Draw, Link!At
    <3> QED
      BY <3>1, <1>1, <1>2, FrameFields DEF LinkInv, MainOK, CallOK, At2
  <2>5. CallsOK' /\ QuietOK'
    BY <1>2, <1>5, <1>6, <1>8, <2>1, <2>4 DEF LinkInv, CallsOK, QuietOK
  <2>6. PacedOK'
    <3>1. \A v \in LinkWindows : At1("look", v) => v = w /\ Link!LookElsewhere
      BY <1>1, <1>2, <1>3, <1>9, FrameFields DEF At1, Link!StepDone, Link!Draw, Link!At
    <3>2. At1("look", w) => reg'[w] = IF visible'[w] THEN screen'[w] ELSE NoDisplay
      BY <3>1, <1>4, <1>6 DEF Link!LookElsewhere, LinkInv, CallsOK
    <3> QED
      BY <3>1, <3>2, <1>5, <1>6, <2>1 DEF LinkInv, PacedOK
  <2> QED
    BY <1>2, <1>7, <2>3, <2>5, <2>6 DEF LinkInv
<1>10. CASE Link!CancelSource
  <2>1. /\ source' = [source EXCEPT ![w] = "none"] /\ pending' = [pending EXCEPT ![w] = FALSE]
        /\ UNCHANGED <<window, link_callback>> /\ Head(main) = Link!Do("cancel", w)
    BY <1>3, <1>4, <1>10 DEF Link!CancelSource, Link!At
  <2>2. Link!TypeOK'
    BY <1>6, <2>1 DEF LinkInv, Link!TypeOK
  <2>3. \A v : At2("free", v) => v = w
    BY <1>1, <1>2, <2>1, FrameFields DEF LinkInv, MainOK, CallOK, At2
  <2>4. CallsOK' /\ QuietOK'
    BY <1>2, <1>5, <1>6, <1>8, <2>1, <2>3 DEF LinkInv, CallsOK, QuietOK, Link!TypeOK
  <2>5. \A v : ~At1("look", v)
    BY <1>2, <2>1, FrameFields DEF At1
  <2>6. PacedOK'
    BY <1>5, <1>6, <2>1, <2>5 DEF LinkInv, PacedOK
  <2> QED
    BY <1>2, <1>7, <2>2, <2>4, <2>6 DEF LinkInv
<1>11. CASE Link!Free
  <2>1. /\ window' = [window EXCEPT ![w] = "freed"] /\ UNCHANGED <<source, pending, link_callback>>
        /\ Head(main) = Link!Do("free", w)
    BY <1>3, <1>4, <1>11 DEF Link!Free, Link!At
  <2>2. \A op, x : ~At2(op, x)
    BY <1>1, <1>2, <2>1, FrameFields DEF LinkInv, MainOK, CallOK, At2
  <2>3. Link!TypeOK'
    BY <1>6, <2>1 DEF LinkInv, Link!TypeOK
  <2>4. At1("free", w)
    BY <1>1, <1>2, <2>1 DEF At1
  <2>5. \A v : ~Restarts(v) /\ ~At1("look", v)
    BY <1>2, <2>1, <2>2, FrameFields DEF At1, Restarts
  <2>6. CallsOK' /\ QuietOK'
    BY <1>2, <1>5, <1>6, <1>8, <2>1, <2>2, <2>4, <2>5 DEF LinkInv, CallsOK, QuietOK, Link!TypeOK
  <2>7. PacedOK'
    BY <1>5, <1>6, <2>1, <2>5 DEF LinkInv, PacedOK, Link!TypeOK
  <2> QED
    BY <1>2, <1>7, <2>3, <2>6, <2>7 DEF LinkInv
<1> QED
  BY <1>9, <1>10, <1>11

LEMMA LookStep ==
    ASSUME Link!ConstantsAssumption, LinkInv, Link!Look
    PROVE  LinkInv'
<1>1. main # <<>> /\ Head(main).op = "look"
  BY DEF Link!Look, Link!At
<1>2. Left = main /\ Tail(main) = <<>>
  BY <1>1 DEF LinkInv, MainOK, CallOK, Left
<1>3. PICK w \in LinkWindows : Head(main) = Link!Do("look", w)
  BY <1>1, <1>2 DEF LinkInv, MainOK, CallOK
<1>4. Link!Arg = w /\ Link!Rest = <<>>
  BY <1>2, <1>3, FrameFields DEF Link!Arg, Link!Rest
<1>5. PICK d \in Displays : visible[w] /\ screen[w] = d
  BY <1>4 DEF Link!Look, LinkInv, Link!TypeOK
<1>6. /\ source' = [source EXCEPT ![w] = "live"]
      /\ UNCHANGED <<link, straggler, pending, link_callback, window, visible, screen, notes>>
  BY <1>4 DEF Link!Look, Link!coreVideo, Link!appKit
<1>7. /\ At1("look", w) /\ \A v \in LinkWindows : At1("look", v) => v = w
      /\ \A v : ~Restarts(v)
      /\ \A v, e : ~Starts(v, e)
      /\ \A e : ~Stops(e)
  BY <1>1, <1>2, <1>3, FrameFields DEF At1, At2, Restarts, Starts, Stops
<1>8. reg[w] = NoDisplay /\ window[w] # "freed"
  BY <1>7 DEF LinkInv, CallsOK
<1>9. QuietOK' /\ source' \in [LinkWindows -> {"none", "live"}]
  <2>1. reg' = reg \/ \E e \in Displays : reg' = [reg EXCEPT ![w] = e]
    BY <1>4, <1>5 DEF Link!Look, Link!Subscribe, Link!CreateFails
  <2> QED
    BY <2>1, <1>6, <1>8 DEF LinkInv, QuietOK, Link!TypeOK
<1>10. CASE Link!Subscribe(w, d) /\ running[d]
  <2>1. /\ entries' = entries \cup {d} /\ subs' = [subs EXCEPT ![d][w] = @ + 1]
        /\ running' = [running EXCEPT ![d] = TRUE] /\ reg' = [reg EXCEPT ![w] = d]
        /\ failed' = [failed EXCEPT ![w] = FALSE] /\ main' = <<>>
    BY <1>4, <1>10 DEF Link!Subscribe
  <2>2. /\ MainOK' /\ Left' = <<>> /\ \A e : ~Stops(e)'
    BY <2>1, MainBegins, EmptySeq DEF CallOK
  <2>3. \A op, x : ~At1(op, x)' /\ ~At2(op, x)'
    BY <2>2 DEF At1, At2
  <2>4. /\ \A v, e : ~Starts(v, e)'
        /\ \A v : ~Restarts(v)'
    BY <2>3 DEF Starts, Restarts
  <2>5. \A v \in LinkWindows, e \in Displays : subs'[e][v] = IF reg'[v] = e THEN 1 ELSE 0
    BY <2>1, <1>7, <1>8 DEF LinkInv, RegistryOK, Link!TypeOK, Link!ConstantsAssumption
  <2>6. Link!TypeOK'
    <3>1. subs' \in [Displays -> [LinkWindows -> 0..1]]
      BY <2>1, <2>5 DEF LinkInv, Link!TypeOK
    <3> QED
      BY <3>1, <2>1, <1>6, <1>9 DEF LinkInv, Link!TypeOK
  <2>7. RegistryOK'
    <3>1. \A e \in Displays : running'[e] <=> running[e]
      BY <1>10, <2>1 DEF LinkInv, Link!TypeOK
    <3>2. \A e \in Displays : running'[e] <=> \E v \in LinkWindows : subs'[e][v] > 0
      <4>1. subs'[d][w] = 1 /\ running'[d]
        BY <2>1, <2>5 DEF LinkInv, Link!TypeOK
      <4>2. \A e \in Displays : e # d => subs'[e] = subs[e]
        BY <2>1 DEF LinkInv, Link!TypeOK
      <4> QED
        BY <3>1, <4>1, <4>2 DEF LinkInv, RegistryOK
    <3>3. \A e \in Displays : link'[e] <=> running'[e]
      BY <3>1, <1>6, <1>7 DEF LinkInv, RegistryOK
    <3> QED
      BY <3>2, <3>3, <2>2, <2>4, <2>5 DEF RegistryOK
  <2>8. CallsOK'
    BY <2>3, <2>4 DEF CallsOK
  <2>9. PacedOK'
    <3>1. reg'[w] = IF visible'[w] THEN screen'[w] ELSE NoDisplay
      BY <1>5, <1>6, <2>1 DEF LinkInv, Link!TypeOK
    <3> QED
      BY <3>1, <1>6, <1>7, <2>1 DEF LinkInv, PacedOK, Link!TypeOK
  <2> QED
    BY <1>9, <2>2, <2>6, <2>7, <2>8, <2>9 DEF LinkInv
<1>11. CASE Link!Subscribe(w, d) /\ ~running[d]
  <2> DEFINE f == Link!Do("start", [w |-> w, d |-> d])
  <2>1. /\ entries' = entries \cup {d} /\ subs' = [subs EXCEPT ![d][w] = @ + 1]
        /\ running' = [running EXCEPT ![d] = TRUE] /\ UNCHANGED <<reg, failed>>
        /\ main' = <<f>> \o <<>>
    BY <1>4, <1>11 DEF Link!Subscribe
  <2>2. f \in Frame /\ f.op = "start"
    BY FrameTypes, FrameFields
  <2>3. main' \in Seq(Frame) /\ main' # <<>> /\ Head(main') = f /\ Tail(main') = <<>>
    BY <2>1, <2>2, ConsProperties, EmptySeq
  <2>4. CallOK(main')
    BY <2>2, <2>3 DEF CallOK
  <2>5. /\ MainOK' /\ Left' = main' /\ \A e : ~Stops(e)'
    BY <2>3, <2>4, MainBegins
  <2>6. /\ \A v, e : Starts(v, e)' <=> v = w /\ e = d
        /\ \A v : ~Restarts(v)' /\ ~At1("look", v)' /\ ~At1("free", v)' /\ ~At2("free", v)'
    BY <2>2, <2>3, <2>5, FrameFields DEF Starts, Restarts, At1, At2
  <2>7. \A v \in LinkWindows, e \in Displays :
            /\ subs'[e][v] = IF v = w /\ e = d THEN 1 ELSE subs[e][v]
            /\ subs'[e][v] = IF reg'[v] = e \/ Starts(v, e)' THEN 1 ELSE 0
    BY <2>1, <2>6, <1>7, <1>8 DEF LinkInv, RegistryOK, Link!TypeOK, Link!ConstantsAssumption
  <2>8. Link!TypeOK'
    <3>1. subs' \in [Displays -> [LinkWindows -> 0..1]]
      BY <2>1, <2>7 DEF LinkInv, Link!TypeOK
    <3> QED
      BY <3>1, <2>1, <1>6, <1>9 DEF LinkInv, Link!TypeOK
  <2>9. RegistryOK'
    <3>1. \A v \in LinkWindows : ~(subs[d][v] > 0)
      BY <1>11 DEF LinkInv, RegistryOK
    <3>2. \A e \in Displays : running'[e] <=> \E v \in LinkWindows : subs'[e][v] > 0
      BY <2>1, <2>7 DEF LinkInv, RegistryOK, Link!TypeOK
    <3>3. \A e \in Displays : link'[e] <=> running'[e] /\ e # d
      BY <1>6, <1>7, <1>11, <2>1 DEF LinkInv, RegistryOK, Link!TypeOK
    <3>4. \A v \in LinkWindows : subs'[d][v] > 0 => v = w
      BY <3>1, <2>7
    <3> QED
      BY <3>2, <3>3, <3>4, <2>5, <2>6, <2>7 DEF RegistryOK
  <2>10. CallsOK'
    BY <1>5, <1>6, <1>8, <2>1, <2>6 DEF CallsOK, LinkInv, Link!TypeOK
  <2>11. PacedOK'
    BY <1>6, <1>7, <2>1, <2>6 DEF LinkInv, PacedOK
  <2> QED
    BY <1>9, <2>5, <2>8, <2>9, <2>10, <2>11 DEF LinkInv
<1>12. CASE Link!CreateFails(w, d)
  <2>1. failed' = [failed EXCEPT ![w] = TRUE] /\ UNCHANGED <<entries, running, subs, reg>> /\ main' = <<>>
    BY <1>4, <1>12 DEF Link!CreateFails, Link!registry
  <2>2. /\ MainOK' /\ Left' = <<>> /\ \A e : ~Stops(e)'
    BY <2>1, MainBegins, EmptySeq DEF CallOK
  <2>3. \A op, x : ~At1(op, x)' /\ ~At2(op, x)'
    BY <2>2 DEF At1, At2
  <2>4. /\ \A v, e : ~Starts(v, e)'
        /\ \A v : ~Restarts(v)'
    BY <2>3 DEF Starts, Restarts
  <2>5. Link!TypeOK'
    BY <2>1, <1>6, <1>9 DEF LinkInv, Link!TypeOK
  <2>6. RegistryOK'
    BY <2>1, <2>2, <2>4, <1>6, <1>7 DEF LinkInv, RegistryOK
  <2>7. CallsOK'
    BY <2>3, <2>4 DEF CallsOK
  <2>8. PacedOK'
    BY <1>6, <1>7, <2>1 DEF LinkInv, PacedOK, Link!TypeOK
  <2> QED
    BY <1>9, <2>2, <2>5, <2>6, <2>7, <2>8 DEF LinkInv
<1> QED
  BY <1>4, <1>5, <1>10, <1>11, <1>12 DEF Link!Look

\* Between two calls nothing is left to do.
LEMMA NoCall ==
    ASSUME main = <<>>
    PROVE  /\ Left = <<>> /\ Calm
           /\ \A op, x : ~At1(op, x) /\ ~At2(op, x)
           /\ \A v : ~Restarts(v)
  BY DEF Left, Calm, Stops, Starts, At1, At2, Restarts

\* A window that has a new pace to get: it is looked at again.
LEMMA LooksAgain ==
    ASSUME Link!ConstantsAssumption, LinkInv, NEW w \in LinkWindows, window[w] # "freed",
           main = <<>> \/ (main # <<>> /\ Head(main) = Link!Do("restart", w)),
           Link!StartDisplayLink(w, <<>>),
           notes' \in [LinkWindows -> SUBSET {"occlusion", "screen"}],
           \A v \in LinkWindows : v # w => notes'[v] = notes[v],
           link_callback' \in [LinkWindows -> BOOLEAN],
           UNCHANGED <<link, straggler, source, pending, window, visible, screen, failed>>
    PROVE  LinkInv'
<1> DEFINE f == Link!Do("look", w)
           then == <<f>> \o <<>>
<1>1. f \in Frame /\ f.op = "look"
  BY FrameTypes, FrameFields DEF Ops
<1>2. then \in Seq(Frame) /\ then # <<>> /\ Head(then) = f /\ Tail(then) = <<>>
  BY <1>1, ConsProperties, EmptySeq
<1>3. CallOK(then) /\ NoStart(then)
  BY <1>1, <1>2 DEF CallOK, NoStart
<1>4. Calm /\ \A v \in LinkWindows : v # w => ~At1("look", v) /\ ~Restarts(v)
  <2>1. CASE main = <<>>
    BY <2>1, NoCall
  <2>2. CASE main # <<>> /\ Head(main) = Link!Do("restart", w)
    <3>1. Head(main).op = "restart" /\ Left = main
      BY <2>2, FrameFields DEF Left
    <3>2. Tail(Left) = <<>>
      BY <2>2, <3>1 DEF LinkInv, MainOK, CallOK
    <3> QED
      BY <2>2, <3>1, <3>2, FrameFields DEF Calm, Stops, Starts, At1, At2, Restarts
  <2> QED
    BY <2>1, <2>2
<1>5. Link!Unsubscribe(w, then)
  BY DEF Link!StartDisplayLink
<1> HIDE DEF then
<1>6. /\ MainOK' /\ Left' = then /\ RegistryOK'
      /\ reg' = [reg EXCEPT ![w] = NoDisplay]
      /\ entries' = entries /\ running' \in [Displays -> BOOLEAN]
      /\ subs' \in [Displays -> [LinkWindows -> 0..1]]
  BY <1>2, <1>3, <1>4, <1>5, UnsubscribeEffect DEF LinkInv
<1>7. /\ At1("look", w)' /\ \A v \in LinkWindows : At1("look", v)' => v = w
      /\ \A v : ~Restarts(v)' /\ ~At1("free", v)' /\ ~At2("free", v)'
      /\ \A v, d : ~Starts(v, d)'
  BY <1>1, <1>2, <1>6, FrameFields DEF At1, At2, Restarts, Starts
<1>8. Link!TypeOK'
  BY <1>6 DEF LinkInv, Link!TypeOK
<1>9. CallsOK' /\ QuietOK'
  BY <1>6, <1>7 DEF LinkInv, CallsOK, QuietOK, Link!TypeOK
<1>10. PacedOK'
  BY <1>4, <1>6, <1>7 DEF LinkInv, PacedOK, Link!TypeOK, Calm
<1> QED
  BY <1>6, <1>8, <1>9, <1>10 DEF LinkInv

LEMMA NotifyStep ==
    ASSUME Link!ConstantsAssumption, LinkInv, NEW w \in LinkWindows,
           Link!DidChangeOcclusion(w) \/ Link!DidChangeScreen(w)
    PROVE  LinkInv'
<1>1. /\ main = <<>> /\ window[w] = "open"
      /\ UNCHANGED <<link, straggler, source, pending, link_callback, window, visible, screen, failed>>
  BY DEF Link!DidChangeOcclusion, Link!DidChangeScreen, Link!coreVideo
<1>2. /\ notes' \in [LinkWindows -> SUBSET {"occlusion", "screen"}]
      /\ \A v \in LinkWindows : v # w => notes'[v] = notes[v]
  BY DEF Link!DidChangeOcclusion, Link!DidChangeScreen, LinkInv, Link!TypeOK
<1>3. link_callback' \in [LinkWindows -> BOOLEAN]
  BY <1>1 DEF LinkInv, Link!TypeOK
<1>4. CASE Link!StartDisplayLink(w, <<>>)
  BY <1>1, <1>2, <1>3, <1>4, LooksAgain
<1>5. CASE ~visible[w] /\ Link!Unsubscribe(w, <<>>)
  <2>1. <<>> \in Seq(Frame) /\ CallOK(<<>>) /\ NoStart(<<>>)
    BY EmptySeq DEF CallOK, NoStart
  <2>2. Calm /\ \A v : ~At1("look", v) /\ ~Restarts(v)
    BY <1>1, NoCall
  <2>3. /\ MainOK' /\ Left' = <<>> /\ RegistryOK'
        /\ reg' = [reg EXCEPT ![w] = NoDisplay]
        /\ entries' = entries /\ running' \in [Displays -> BOOLEAN]
        /\ subs' \in [Displays -> [LinkWindows -> 0..1]]
    BY <1>1, <1>5, <2>1, <2>2, UnsubscribeEffect DEF LinkInv
  <2>4. \A op, x : ~At1(op, x)' /\ ~At2(op, x)'
    BY <2>3 DEF At1, At2
  <2>5. /\ \A v, e : ~Starts(v, e)'
        /\ \A v : ~Restarts(v)'
    BY <2>4 DEF Starts, Restarts
  <2>6. Link!TypeOK'
    BY <1>1, <1>2, <2>3 DEF LinkInv, Link!TypeOK
  <2>7. CallsOK' /\ QuietOK'
    BY <1>1, <2>3, <2>4, <2>5 DEF LinkInv, CallsOK, QuietOK, Link!TypeOK
  <2>8. PacedOK'
    BY <1>1, <1>2, <1>5, <2>2, <2>3 DEF LinkInv, PacedOK, Link!TypeOK, Calm
  <2> QED
    BY <2>3, <2>6, <2>7, <2>8 DEF LinkInv
<1> QED
  BY <1>4, <1>5 DEF Link!DidChangeOcclusion, Link!DidChangeScreen

LEMMA RestartStep ==
    ASSUME Link!ConstantsAssumption, LinkInv, Link!Restart
    PROVE  LinkInv'
<1>1. main # <<>> /\ Head(main).op = "restart"
  BY DEF Link!Restart, Link!At
<1>2. Left = main /\ Tail(main) = <<>>
  BY <1>1 DEF LinkInv, MainOK, CallOK, Left
<1>3. PICK w \in LinkWindows : Head(main) = Link!Do("restart", w)
  BY <1>1, <1>2 DEF LinkInv, MainOK, CallOK
<1>4. Link!Arg = w /\ Link!Rest = <<>>
  BY <1>2, <1>3, FrameFields DEF Link!Arg, Link!Rest
<1>5. window[w] # "freed"
  BY <1>1, <1>2, <1>3 DEF LinkInv, CallsOK, Restarts, At1
<1>6. /\ link_callback' = [link_callback EXCEPT ![w] = TRUE] /\ Link!StartDisplayLink(w, <<>>)
      /\ UNCHANGED <<link, straggler, source, pending, window, visible, screen, notes, failed>>
  BY <1>4 DEF Link!Restart, Link!coreVideo, Link!appKit
<1>7. link_callback' \in [LinkWindows -> BOOLEAN] /\ notes' \in [LinkWindows -> SUBSET {"occlusion", "screen"}]
  BY <1>6 DEF LinkInv, Link!TypeOK
<1> QED
  BY <1>1, <1>3, <1>5, <1>6, <1>7, LooksAgain

LEMMA DisplayLayerStep ==
    ASSUME Link!ConstantsAssumption, LinkInv, NEW w \in LinkWindows, Link!DisplayLayer(w)
    PROVE  LinkInv'
<1> DEFINE then == <<Link!Do("draw", w), Link!Do("restart", w)>>
<1>1. /\ main = <<>> /\ window[w] # "freed" /\ Link!Unsubscribe(w, then)
      /\ link_callback' = [link_callback EXCEPT ![w] = FALSE]
      /\ UNCHANGED <<link, straggler, source, pending, window, visible, screen, notes, failed>>
  BY DEF Link!DisplayLayer, Link!coreVideo, Link!appKit
<1>2. /\ Link!Do("draw", w) \in Frame /\ Link!Do("draw", w).op = "draw"
      /\ Link!Do("restart", w) \in Frame /\ Link!Do("restart", w).op = "restart"
  BY FrameTypes, FrameFields DEF Ops
<1>3. /\ then \in Seq(Frame) /\ then # <<>> /\ Head(then) = Link!Do("draw", w)
      /\ Tail(then) = <<Link!Do("restart", w)>>
  BY <1>2
<1>4. Tail(then) # <<>> /\ Head(Tail(then)) = Link!Do("restart", w) /\ Tail(Tail(then)) = <<>>
  BY <1>3
<1> HIDE DEF then
<1>5. CallOK(then) /\ NoStart(then)
  BY <1>2, <1>3, <1>4 DEF CallOK, NoStart
<1>6. Calm /\ \A v : ~At1("look", v) /\ ~Restarts(v)
  BY <1>1, NoCall
<1>7. /\ MainOK' /\ Left' = then /\ RegistryOK'
      /\ reg' = [reg EXCEPT ![w] = NoDisplay]
      /\ entries' = entries /\ running' \in [Displays -> BOOLEAN]
      /\ subs' \in [Displays -> [LinkWindows -> 0..1]]
  BY <1>1, <1>3, <1>5, <1>6, UnsubscribeEffect DEF LinkInv
<1>8. /\ Restarts(w)' /\ \A v \in LinkWindows : Restarts(v)' => v = w
      /\ \A v : ~At1("look", v)' /\ ~At1("free", v)' /\ ~At2("free", v)'
      /\ \A v, d : ~Starts(v, d)'
  BY <1>2, <1>3, <1>4, <1>7, FrameFields DEF At1, At2, Restarts, Starts
<1>9. Link!TypeOK'
  BY <1>1, <1>7 DEF LinkInv, Link!TypeOK
<1>10. CallsOK' /\ QuietOK'
  BY <1>1, <1>7, <1>8 DEF LinkInv, CallsOK, QuietOK, Link!TypeOK
<1>11. PacedOK'
  BY <1>1, <1>6, <1>7, <1>8 DEF LinkInv, PacedOK, Link!TypeOK, Calm
<1> QED
  BY <1>7, <1>9, <1>10, <1>11 DEF LinkInv

\* Of a draw that a window is closed in, its end is left.
LEMMA DropWindowStep ==
    ASSUME Link!ConstantsAssumption, LinkInv, NEW w \in LinkWindows, Link!DropWindow(w)
    PROVE  LinkInv'
<1> DEFINE rest == IF main = <<>> THEN <<>> ELSE Tail(main)
           f == Link!Do("cancel", w)
           then == <<f>> \o rest
<1>1. /\ window[w] = "open" /\ window' = [window EXCEPT ![w] = "dropped"]
      /\ notes' = [notes EXCEPT ![w] = {}]
      /\ UNCHANGED <<link, straggler, source, pending, link_callback, visible, screen, failed>>
  BY DEF Link!DropWindow, Link!coreVideo
<1>2. (main = <<>> \/ Link!At("draw")) /\ Link!Unsubscribe(w, then)
  <2>1. CASE main = <<>> /\ Link!DropSource(w, <<>>)
    BY <2>1 DEF Link!DropSource
  <2>2. CASE Link!At("draw") /\ Link!DropSource(w, Link!Rest)
    BY <2>2 DEF Link!DropSource, Link!Rest, Link!At
  <2> QED
    BY <2>1, <2>2 DEF Link!DropWindow
<1>3. /\ Left = main
      /\ main # <<>> => Head(main).op = "draw"
  BY <1>2 DEF Link!At, Left
<1>4. /\ rest \in Seq(Frame)
      /\ rest # <<>> => /\ Tail(rest) = <<>> /\ Head(rest).op \in {"restart", "done"}
                        /\ \E v \in LinkWindows : Head(rest) = Link!Do(Head(rest).op, v)
  <2>1. CASE main = <<>>
    BY <2>1, EmptySeq
  <2>2. CASE main # <<>>
    <3>1. rest = Tail(main) /\ rest \in Seq(Frame) /\ CallOK(main) /\ Head(main).op = "draw"
      BY <2>2, <1>3, HeadTailProperties DEF LinkInv, MainOK
    <3>2. rest # <<>> => Head(rest).op # "free"
      BY <2>2, <3>1, FrameFields DEF CallOK
    <3> QED
      BY <2>2, <3>1, <3>2 DEF CallOK
  <2> QED
    BY <2>1, <2>2
<1>5. Calm /\ \A v : ~At1("look", v)
  BY <1>3, FrameFields DEF Calm, Stops, Starts, At1
<1>6. \A v : Restarts(v) <=> rest # <<>> /\ Head(rest) = Link!Do("restart", v)
  BY <1>3, FrameFields DEF Restarts, At1, At2
<1>7. f \in Frame /\ f.op = "cancel"
  BY FrameTypes, FrameFields DEF Ops
<1> HIDE DEF rest
<1>8. then \in Seq(Frame) /\ then # <<>> /\ Head(then) = f /\ Tail(then) = rest
  BY <1>4, <1>7, ConsProperties
<1> HIDE DEF then
<1>9. CallOK(then) /\ NoStart(then)
  BY <1>4, <1>7, <1>8 DEF CallOK, NoStart
<1>10. /\ MainOK' /\ Left' = then /\ RegistryOK'
       /\ reg' = [reg EXCEPT ![w] = NoDisplay]
       /\ entries' = entries /\ running' \in [Displays -> BOOLEAN]
       /\ subs' \in [Displays -> [LinkWindows -> 0..1]]
  BY <1>1, <1>2, <1>5, <1>8, <1>9, UnsubscribeEffect DEF LinkInv
<1>11. /\ \A v : Restarts(v)' <=> Restarts(v)
       /\ \A v : ~At1("look", v)' /\ ~At1("free", v)' /\ ~At2("free", v)'
       /\ \A v, d : ~Starts(v, d)'
  <2>1. \A v : ~At1("look", v)' /\ ~At1("free", v)' /\ ~At1("restart", v)'
    BY <1>7, <1>8, <1>10, FrameFields DEF At1
  <2>2. \A v, d : ~Starts(v, d)'
    BY <1>7, <1>8, <1>10, FrameFields DEF At1, Starts
  <2>3. \A op, v : At2(op, v)' <=> rest # <<>> /\ Head(rest) = Link!Do(op, v)
    BY <1>8, <1>10 DEF At2
  <2>4. \A v : ~At2("free", v)'
    BY <2>3, <1>4, FrameFields
  <2> QED
    BY <2>1, <2>2, <2>3, <2>4, <1>6 DEF Restarts
<1>12. Link!TypeOK'
  BY <1>1, <1>10 DEF LinkInv, Link!TypeOK
<1>13. CallsOK' /\ QuietOK'
  BY <1>1, <1>10, <1>11 DEF LinkInv, CallsOK, QuietOK, Link!TypeOK
<1>14. PacedOK'
  BY <1>1, <1>5, <1>10, <1>11 DEF LinkInv, PacedOK, Link!TypeOK, Calm
<1> QED
  BY <1>10, <1>12, <1>13, <1>14 DEF LinkInv

LEMMA DeallocStep ==
    ASSUME Link!ConstantsAssumption, LinkInv, NEW w \in LinkWindows, Link!Dealloc(w)
    PROVE  LinkInv'
<1> DEFINE f == Link!Do("cancel", w)
           g == Link!Do("free", w)
           then == <<f>> \o <<g>>
<1>1. /\ main = <<>> /\ window[w] = "dropped" /\ Link!Unsubscribe(w, then)
      /\ UNCHANGED <<link, straggler, source, pending, link_callback, window, visible, screen, notes, failed>>
  BY DEF Link!Dealloc, Link!DropSource, Link!coreVideo, Link!appKit
<1>2. /\ f \in Frame /\ f.op = "cancel" /\ g \in Frame /\ g.op = "free" /\ g.x = w
  BY FrameTypes, FrameFields DEF Ops
<1>3. <<g>> \in Seq(Frame) /\ <<g>> # <<>> /\ Head(<<g>>) = g /\ Tail(<<g>>) = <<>>
  BY <1>2
<1>4. then \in Seq(Frame) /\ then # <<>> /\ Head(then) = f /\ Tail(then) = <<g>>
  BY <1>2, <1>3, ConsProperties
<1> HIDE DEF then
<1>5. CallOK(then) /\ NoStart(then)
  BY <1>2, <1>3, <1>4 DEF CallOK, NoStart
<1>6. Calm /\ \A v : ~At1("look", v) /\ ~Restarts(v)
  BY <1>1, NoCall
<1>7. /\ MainOK' /\ Left' = then /\ RegistryOK'
      /\ reg' = [reg EXCEPT ![w] = NoDisplay]
      /\ entries' = entries /\ running' \in [Displays -> BOOLEAN]
      /\ subs' \in [Displays -> [LinkWindows -> 0..1]]
  BY <1>1, <1>4, <1>5, <1>6, UnsubscribeEffect DEF LinkInv
<1>8. /\ \A v : At2("free", v)' => v = w
      /\ \A v : ~At1("look", v)' /\ ~At1("free", v)' /\ ~Restarts(v)'
      /\ \A v, d : ~Starts(v, d)'
  <2> HIDE DEF f, g
  <2>0. Head(Tail(then)) = g
    BY <1>3, <1>4
  <2>1. \A v : At2("free", v)' => v = w
    <3>1. \A v : At2("free", v)' => g = Link!Do("free", v)
      BY <2>0, <1>7 DEF At2
    <3> QED
      BY <3>1, <1>2, FrameFields
  <2>2. \A v : ~At2("restart", v)'
    <3>1. \A v : At2("restart", v)' => g = Link!Do("restart", v)
      BY <2>0, <1>7 DEF At2
    <3> QED
      BY <3>1, <1>2, FrameFields
  <2>3. \A v : ~At1("look", v)' /\ ~At1("free", v)' /\ ~At1("restart", v)'
    BY <1>2, <1>4, <1>7, FrameFields DEF At1
  <2>4. \A v, d : ~Starts(v, d)'
    BY <1>2, <1>4, <1>7, FrameFields DEF At1, Starts
  <2> QED
    BY <2>1, <2>2, <2>3, <2>4 DEF Restarts
<1>9. Link!TypeOK'
  BY <1>1, <1>7 DEF LinkInv, Link!TypeOK
<1>10. CallsOK' /\ QuietOK'
  BY <1>1, <1>7, <1>8 DEF LinkInv, CallsOK, QuietOK, Link!TypeOK
<1>11. PacedOK'
  BY <1>1, <1>6, <1>7 DEF LinkInv, PacedOK, Link!TypeOK, Calm
<1> QED
  BY <1>7, <1>9, <1>10, <1>11 DEF LinkInv

LEMMA FrameStep ==
    ASSUME Link!ConstantsAssumption, LinkInv, NEW w \in LinkWindows, Link!Step(w)
    PROVE  LinkInv'
<1> DEFINE then == <<Link!Do("draw", w), Link!Do("done", w)>>
<1>1. /\ main = <<>> /\ main' = then
      /\ pending' = [pending EXCEPT ![w] = FALSE] /\ link_callback' = [link_callback EXCEPT ![w] = FALSE]
      /\ UNCHANGED <<entries, running, subs, link, straggler, source, reg, window, visible, screen,
                     notes, failed>>
  BY DEF Link!Step, Link!registry, Link!coreVideo, Link!appKit
<1>2. /\ Link!Do("draw", w) \in Frame /\ Link!Do("draw", w).op = "draw"
      /\ Link!Do("done", w) \in Frame /\ Link!Do("done", w).op = "done"
  BY FrameTypes, FrameFields DEF Ops
<1>3. /\ then \in Seq(Frame) /\ then # <<>> /\ Head(then) = Link!Do("draw", w)
      /\ Tail(then) = <<Link!Do("done", w)>>
  BY <1>2
<1>4. Tail(then) # <<>> /\ Head(Tail(then)) = Link!Do("done", w) /\ Tail(Tail(then)) = <<>>
  BY <1>3
<1> HIDE DEF then
<1>5. CallOK(then)
  BY <1>2, <1>3, <1>4 DEF CallOK
<1>6. MainOK' /\ Left' = then /\ \A d : ~Stops(d)'
  BY <1>1, <1>3, <1>5, MainBegins
<1>7. Calm /\ \A v : ~At1("look", v) /\ ~Restarts(v)
  BY <1>1, NoCall
<1>8. /\ \A v : ~At1("look", v)' /\ ~At1("free", v)' /\ ~At2("free", v)' /\ ~Restarts(v)'
      /\ \A v, d : ~Starts(v, d)'
  BY <1>2, <1>3, <1>4, <1>6, FrameFields DEF At1, At2, Restarts, Starts
<1>9. Link!TypeOK'
  BY <1>1 DEF LinkInv, Link!TypeOK
<1>10. RegistryOK'
  BY <1>1, <1>6, <1>7, <1>8 DEF LinkInv, RegistryOK, Calm
<1>11. CallsOK' /\ QuietOK'
  BY <1>1, <1>8 DEF LinkInv, CallsOK, QuietOK, Link!TypeOK
<1>12. PacedOK'
  BY <1>1, <1>7 DEF LinkInv, PacedOK, Calm
<1> QED
  BY <1>6, <1>9, <1>10, <1>11, <1>12 DEF LinkInv

\* CoreVideo and AppKit act while the main thread is in a call.
LEMMA OutsideStep ==
    ASSUME Link!ConstantsAssumption, LinkInv,
           \/ UNCHANGED Link!vars
           \/ \E d \in Displays : Link!OutputCallback(d)
           \/ \E w \in LinkWindows : \/ Link!Occlude(w)
                                 \/ \E d \in Displays \cup {NoDisplay} : Link!Move(w, d)
    PROVE  LinkInv'
<1>1. UNCHANGED <<entries, running, subs, link, source, reg, link_callback, window, failed, main>>
  BY DEF Link!vars, Link!OutputCallback, Link!Occlude, Link!Move, Link!registry, Link!coreVideo
<1>2. MainOK' /\ Left' = Left
  BY <1>1 DEF LinkInv, MainOK, Left
<1>3. /\ \A op, x : (At1(op, x)' <=> At1(op, x)) /\ (At2(op, x)' <=> At2(op, x))
      /\ \A w, e : Starts(w, e)' <=> Starts(w, e)
      /\ \A w : Restarts(w)' <=> Restarts(w)
      /\ \A d : Stops(d)' <=> Stops(d)
  BY <1>1, <1>2 DEF At1, At2, Starts, Restarts, Stops
<1>4. RegistryOK'
  BY <1>1, <1>3 DEF LinkInv, RegistryOK
<1>5. CASE UNCHANGED Link!vars
  BY <1>2, <1>3, <1>4, <1>5 DEF Link!vars, Link!registry, Link!coreVideo, Link!appKit, LinkInv,
     Link!TypeOK, CallsOK, QuietOK, PacedOK
<1>6. ASSUME NEW d \in Displays, Link!OutputCallback(d) PROVE LinkInv'
  <2>1. /\ straggler' = [straggler EXCEPT ![d] = @ /\ link[d]]
        /\ pending' = [w \in LinkWindows |-> pending[w] \/ (subs[d][w] > 0 /\ source[w] = "live")]
        /\ UNCHANGED <<visible, screen, notes>>
    BY <1>6 DEF Link!OutputCallback, Link!appKit
  <2>2. pending' \in [LinkWindows -> BOOLEAN] /\ straggler' \in [Displays -> BOOLEAN]
    BY <2>1, Zenon DEF LinkInv, Link!TypeOK
  <2>3. Link!TypeOK'
    BY <1>1, <2>1, <2>2 DEF LinkInv, Link!TypeOK
  <2>4. QuietOK'
    BY <1>1, <2>1 DEF LinkInv, QuietOK
  <2>5. CallsOK' /\ PacedOK'
    BY <1>1, <1>3, <2>1 DEF LinkInv, CallsOK, PacedOK
  <2> QED
    BY <1>2, <1>4, <2>3, <2>4, <2>5 DEF LinkInv
<1>7. ASSUME NEW w \in LinkWindows,
             Link!Occlude(w) \/ \E d \in Displays \cup {NoDisplay} : Link!Move(w, d)
      PROVE  LinkInv'
  <2>1. /\ pending' = pending /\ straggler' = straggler
        /\ window[w] # "freed" /\ (main = <<>> \/ Link!At("draw"))
        /\ \A v \in LinkWindows : v # w => /\ notes'[v] = notes[v] /\ visible'[v] = visible[v]
                                       /\ screen'[v] = screen[v]
        /\ window[w] = "open" => notes'[w] # {}
    <3>1. CASE Link!Occlude(w)
      BY <3>1 DEF Link!Occlude, Link!coreVideo, LinkInv, Link!TypeOK
    <3>2. ASSUME NEW d \in Displays \cup {NoDisplay}, Link!Move(w, d)
          PROVE  /\ pending' = pending /\ straggler' = straggler
                 /\ window[w] # "freed" /\ (main = <<>> \/ Link!At("draw"))
                 /\ \A v \in LinkWindows : v # w => /\ notes'[v] = notes[v] /\ visible'[v] = visible[v]
                                                /\ screen'[v] = screen[v]
                 /\ window[w] = "open" => notes'[w] # {}
      BY <3>2 DEF Link!Move, Link!coreVideo, LinkInv, Link!TypeOK
    <3> QED
      BY <1>7, <3>1, <3>2
  <2>2. Link!TypeOK'
    <3>1. CASE Link!Occlude(w)
      BY <1>1, <3>1 DEF Link!Occlude, Link!coreVideo, LinkInv, Link!TypeOK
    <3>2. ASSUME NEW d \in Displays \cup {NoDisplay}, Link!Move(w, d) PROVE Link!TypeOK'
      BY <1>1, <3>2 DEF Link!Move, Link!coreVideo, LinkInv, Link!TypeOK
    <3> QED
      BY <1>7, <3>1, <3>2
  <2>3. \A v, d : ~Starts(v, d)
    BY <2>1, FrameFields DEF Link!At, Left, Starts, At1
  <2>4. CallsOK' /\ QuietOK'
    BY <1>1, <1>3, <2>1, <2>3 DEF LinkInv, CallsOK, QuietOK
  <2>5. PacedOK'
    BY <1>1, <1>3, <2>1 DEF LinkInv, PacedOK
  <2> QED
    BY <1>2, <1>4, <2>2, <2>4, <2>5 DEF LinkInv
<1> QED
  BY <1>5, <1>6, <1>7

LEMMA LinkInductive ==
    ASSUME Link!ConstantsAssumption
    PROVE  /\ Link!Init => LinkInv
           /\ LinkInv /\ [Link!Next]_Link!vars => LinkInv'
           /\ LinkInv => /\ Link!TypeOK /\ Link!PacedByItsScreen /\ Link!LinkRunsIffSubscribed
                         /\ Link!SubscribedIsRegistered /\ Link!FreedIsQuiet
<1>1. Link!Init => LinkInv
  BY LinkInit
<1>2. LinkInv /\ [Link!Next]_Link!vars => LinkInv'
  <2> SUFFICES ASSUME LinkInv, [Link!Next]_Link!vars PROVE LinkInv'
    OBVIOUS
  <2>1. CASE Link!Main
    BY <2>1, StopLinkStep, StartLinkStep, CallStep, LookStep, RestartStep DEF Link!Main
  <2>2. CASE \/ UNCHANGED Link!vars
             \/ \E d \in Displays : Link!OutputCallback(d)
             \/ \E w \in LinkWindows : \/ Link!Occlude(w)
                                   \/ \E d \in Displays \cup {NoDisplay} : Link!Move(w, d)
    BY <2>2, OutsideStep
  <2>3. ASSUME NEW w \in LinkWindows,
               \/ Link!DidChangeOcclusion(w) \/ Link!DidChangeScreen(w) \/ Link!DisplayLayer(w)
               \/ Link!Step(w) \/ Link!DropWindow(w) \/ Link!Dealloc(w)
        PROVE  LinkInv'
    BY <2>3, NotifyStep, DisplayLayerStep, FrameStep, DropWindowStep, DeallocStep
  <2>4. CASE Link!AllFreed
    BY <2>4, OutsideStep DEF Link!AllFreed
  <2> QED
    BY <2>1, <2>2, <2>3, <2>4 DEF Link!Next
<1>3. LinkInv => /\ Link!TypeOK /\ Link!PacedByItsScreen /\ Link!LinkRunsIffSubscribed
                 /\ Link!SubscribedIsRegistered /\ Link!FreedIsQuiet
  <2> SUFFICES ASSUME LinkInv
               PROVE  /\ Link!TypeOK /\ Link!PacedByItsScreen /\ Link!LinkRunsIffSubscribed
                      /\ Link!SubscribedIsRegistered /\ Link!FreedIsQuiet
    OBVIOUS
  <2>1. Link!PacedByItsScreen
    BY NoCall DEF LinkInv, PacedOK, Link!PacedByItsScreen, Calm
  <2>2. Link!LinkRunsIffSubscribed
    BY NoCall DEF LinkInv, RegistryOK, Link!LinkRunsIffSubscribed, Link!Subscribers, Calm
  <2>3. Link!SubscribedIsRegistered
    BY NoCall DEF LinkInv, RegistryOK, Link!SubscribedIsRegistered, Calm
  <2>4. Link!FreedIsQuiet
    BY DEF LinkInv, QuietOK, RegistryOK, CallsOK, Link!FreedIsQuiet, Link!ConstantsAssumption
  <2> QED
    BY <2>1, <2>2, <2>3, <2>4 DEF LinkInv
<1> QED
  BY <1>1, <1>2, <1>3
=============================================================================
