----------------------------- MODULE WindowTree -----------------------------
(***************************************************************************)
(* The life of Wayland windows and their children: a window is opened,     *)
(* dialogs and popups are attached to a parent, a parent with a dialog     *)
(* takes no input, and closing a window closes its children                *)
(* (gpui_linux wayland/window.rs and client.rs).                           *)
(*                                                                         *)
(* A window ends along two paths.  The compositor closes it: close() runs, *)
(* closes the children and calls back into GPUI, which drops the window.   *)
(* Or the application removes it: the window is dropped at once and a task *)
(* on the main thread runs close() later.  close() is a recursion with     *)
(* application callbacks in it and is modelled by its stack.               *)
(***************************************************************************)
EXTENDS Naturals, Sequences, FiniteSets

CONSTANTS
    Windows,     \* windows that may be opened, each at most once
    None,        \* no window
    AppRemoves,  \* whether the application removes windows by itself
    Reentrant    \* whether it opens and removes windows in close callbacks, too

\* What the constants have to be; the runs check it.
ConstantsAssumption ==
    /\ None \notin Windows
    /\ {AppRemoves, Reentrant} \subseteq BOOLEAN

VARIABLES
    kind,       \* what a window is; "unused" before it is opened
    parent,     \* WaylandWindowState::parent
    children,   \* WaylandWindowState::children
    closed,     \* windows whose frame_loop is Closed
    windows,    \* WaylandClientState::windows, by surface
    surfaces,   \* windows whose wl_surface exists
    callback,   \* windows whose close callback is in place
    focus,      \* keyboard_focused_window
    tasks,      \* windows whose drop task waits on the main thread
    stack,      \* the calls of close() in progress, outermost first
    app         \* a close callback is running application code

vars == <<kind, parent, children, closed, windows, surfaces, callback, focus, tasks, stack,
          app>>

Init ==
    /\ kind = [w \in Windows |-> "unused"]
    /\ parent = [w \in Windows |-> None]
    /\ children = [w \in Windows |-> {}]
    /\ closed = {}
    /\ windows = {}
    /\ surfaces = {}
    /\ callback = {}
    /\ focus = None
    /\ tasks = <<>>
    /\ stack = <<>>
    /\ app = FALSE

\* get_window: the registry's windows without the closed ones.
get_window(w) == w \in windows \ closed

Unused == {w \in Windows : kind[w] = "unused"}

\* The loop is between two events or tasks.
Idle == stack = <<>>

\* Application code runs then, and in the callbacks of close().
AppRuns == Idle \/ (Reentrant /\ app)

\* The parent open_window picks: a popup names a window of the registry, the other
\* kinds take the window with the keyboard focus.
Parents(k) == IF k = "popup" THEN windows ELSE {focus}

\* open_window, WaylandWindow::new: dialogs and popups are entered in the parent.
OpenWindow(w, k, p) ==
    /\ AppRuns
    /\ w \in Unused
    /\ p \in Parents(k)
    /\ kind' = [kind EXCEPT ![w] = k]
    /\ parent' = [parent EXCEPT ![w] = p]
    /\ children' = IF k \in {"dialog", "popup"} /\ p # None
                   THEN [children EXCEPT ![p] = @ \cup {w}]
                   ELSE children
    /\ windows' = windows \cup {w}
    /\ surfaces' = surfaces \cup {w}
    /\ callback' = callback \cup {w}
    /\ UNCHANGED <<closed, focus, tasks, stack, app>>

\* The renderer cannot be created: the entry in the parent is taken back and the
\* surface destroyed; the window never reaches the registry.
OpenFails(w, k, p) ==
    /\ AppRuns
    /\ w \in Unused
    /\ p \in Parents(k)
    /\ kind' = [kind EXCEPT ![w] = k]
    /\ UNCHANGED <<parent, children, closed, windows, surfaces, callback, focus, tasks, stack, app>>

\* Drop for WaylandWindow.
DropWindow(w) ==
    /\ closed' = closed \cup {w}
    /\ children' = IF parent[w] # None
                   THEN [children EXCEPT ![parent[w]] = @ \ {w}]
                   ELSE children
    /\ surfaces' = surfaces \ {w}
    /\ tasks' = Append(tasks, w)

\* The application removes a window: GPUI drops it at the end of the update.
RemoveWindow(w) ==
    /\ AppRemoves
    /\ AppRuns
    /\ w \in surfaces
    /\ DropWindow(w)
    /\ UNCHANGED <<kind, parent, windows, callback, focus, stack, app>>

\* Mutant: close() leaves out the dialogs.
FrameOfPopups(w, task) ==
    [win |-> w, kids |-> {c \in children[w] : kind[c] = "popup"}, task |-> task]

\* close(): input and drawing are revoked first, and the children are read once.
Frame(w, task) == [win |-> w, kids |-> children[w], task |-> task]

Enter(w, task) ==
    /\ closed' = closed \cup {w}
    /\ stack' = Append(stack, Frame(w, task))

\* The compositor closes a toplevel and should_close allows it, dismisses a popup,
\* or revokes a layer surface.
CompositorClose(w) ==
    /\ Idle
    /\ get_window(w)
    /\ Enter(w, FALSE)
    /\ UNCHANGED <<kind, parent, children, windows, surfaces, callback, focus, tasks, app>>

\* The drop task of the window dropped first.
RunDropTask ==
    /\ Idle
    /\ tasks # <<>>
    /\ Enter(Head(tasks), TRUE)
    /\ tasks' = Tail(tasks)
    /\ UNCHANGED <<kind, parent, children, windows, surfaces, callback, focus, app>>

Top == stack[Len(stack)]
Below == SubSeq(stack, 1, Len(stack) - 1)

\* The loop over the children: a child that is closed already is passed over.
CloseChild(c) ==
    LET rest == Append(Below, [Top EXCEPT !.kids = @ \ {c}])
    IN /\ ~Idle
       /\ c \in Top.kids
       /\ IF get_window(c)
          THEN /\ closed' = closed \cup {c}
               /\ stack' = Append(rest, Frame(c, FALSE))
          ELSE stack' = rest /\ UNCHANGED closed
       /\ app' = FALSE
       /\ UNCHANGED <<kind, parent, children, windows, surfaces, callback, focus, tasks>>

\* drop_window: the registry and the focus forget the window.
drop_window(w) ==
    /\ windows' = windows \ {w}
    /\ focus' = IF focus = w THEN None ELSE focus

\* The end of close(): the callback is taken and has GPUI remove the window if it
\* still has it; the task then drops the window from the client.
CloseReturns ==
    LET w == Top.win
    IN /\ ~Idle
       /\ Top.kids = {}
       /\ stack' = Below
       /\ app' = (Below # <<>> /\ w \in callback \cap surfaces)
       /\ callback' = callback \ {w}
       /\ IF w \in callback \cap surfaces
          THEN DropWindow(w)
          ELSE UNCHANGED <<closed, children, surfaces, tasks>>
       /\ IF Top.task THEN drop_window(w) ELSE UNCHANGED <<windows, focus>>
       /\ UNCHANGED <<kind, parent>>

\* wl_keyboard enter and leave; the compositor focuses surfaces that exist.
KeyboardEnter(w) ==
    /\ Idle
    /\ w \in surfaces
    /\ focus' = IF get_window(w) THEN w ELSE None
    /\ UNCHANGED <<kind, parent, children, closed, windows, surfaces, callback, tasks, stack, app>>

KeyboardLeave ==
    /\ Idle
    /\ focus # None
    /\ focus' = None
    /\ UNCHANGED <<kind, parent, children, closed, windows, surfaces, callback, tasks, stack, app>>

\* Every window has been opened and has gone.
Done ==
    /\ Unused = {} /\ surfaces = {} /\ tasks = <<>> /\ Idle
    /\ UNCHANGED vars

Close == RunDropTask \/ CloseReturns \/ \E c \in Windows : CloseChild(c)

Next ==
    \/ \E w \in Windows, k \in {"normal", "dialog", "popup"}, p \in Windows \cup {None} :
          OpenWindow(w, k, p) \/ OpenFails(w, k, p)
    \/ \E w \in Windows : RemoveWindow(w) \/ CompositorClose(w) \/ KeyboardEnter(w)
    \/ KeyboardLeave
    \/ Close
    \/ Done

Spec == Init /\ [][Next]_vars

TypeOK ==
    /\ kind \in [Windows -> {"unused", "normal", "dialog", "popup"}]
    /\ parent \in [Windows -> Windows \cup {None}]
    /\ children \in [Windows -> SUBSET Windows]
    /\ closed \subseteq Windows
    /\ windows \subseteq Windows
    /\ surfaces \subseteq windows
    /\ callback \subseteq windows
    /\ focus \in Windows \cup {None}
    /\ tasks \in Seq(Windows)
    /\ app \in BOOLEAN
    /\ stack \in Seq([win : Windows, kids : SUBSET Windows, task : BOOLEAN])

(***************************************************************************)
(* Properties                                                              *)
(***************************************************************************)

\* An entry in a window's children is a window that still has its surface: the entry
\* of a window that failed to open or was dropped would block the parent's input for
\* good, since nothing else ever takes it out.
ChildrenExist == \A w \in Windows : children[w] \subseteq surfaces

\* The client's focus is a window of its registry: open_window parents the next
\* dialog to it, so a focus that outlived its window would attach a dialog to a
\* window that can never close it.
FocusIsRegistered == focus \in windows \cup {None}

\* A dialog or popup does not outlive its parent's registration: by the time the drop
\* task of the parent has run, close() has closed every child, whichever of the two
\* was removed first and however many levels there are between them.
NoOrphans ==
    \A c \in surfaces :
        kind[c] \in {"dialog", "popup"} /\ parent[c] # None /\ Idle => parent[c] \in windows

\* A window's drop task runs once for each window, so the unwrap of drop_window finds
\* the window in the registry.
DropTaskFindsWindow ==
    /\ \A i \in 1..Len(tasks) : tasks[i] \in windows
    /\ \A i, j \in 1..Len(tasks) : tasks[i] = tasks[j] => i = j

\* Nothing in the tree outlives what it refers to. An application that opens and removes
\* windows in close callbacks, too, can break the first of the four.
NoDanglingWindow ==
    /\ ~Reentrant => NoOrphans
    /\ ChildrenExist /\ FocusIsRegistered /\ DropTaskFindsWindow

\* A parent that a closed dialog blocks gets its input back, or is closed itself.
ClosedDialogUnblocks ==
    \A d, p \in Windows :
        d \in closed /\ kind[d] = "dialog" /\ parent[d] = p ~> d \notin children[p]

\* Every closed window leaves the registry.
ClosedIsForgotten == \A w \in Windows : w \in closed ~> w \notin windows
=============================================================================
