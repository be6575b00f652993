----------------------------- MODULE MCPlatform -----------------------------
(***************************************************************************)
(* Platform windows beside the frame loop of Wayland, checked in one run:  *)
(* each behaviour is of one part, and the others rest in their initial     *)
(* state. A component whose cases need different constants has several     *)
(* parts.                                                                  *)
(***************************************************************************)

CONSTANTS
    Parts,    \* the parts that run, of "tree", "reentrant", "keys" and so on
    None,     \* no window, no key, no display
    TreeWindows, ReentrantWindows,                    \* "tree", "reentrant"
    Windows, Closable, Blockable,                     \* windows of the seat and of drags
    Keys, PointerKeys, DeadKeys, Buttons,             \* "keys" and "text", "pointer", "text"
    KeysMaxId, TextMaxId, PointerMaxId,
    MaxOffers,                                        \* "drag"
    Sizes, Inset, MaxConfigures,                      \* "size"
    Rollover, MaxEvents,                                 \* "serials"
    LinkWindows, Displays, ScreenWindows, Screens     \* "link", "screens"

VARIABLES
    part,   \* the component that runs
    kind, parent, children, tree_closed, tree_windows, surfaces, tree_callback, focus, tasks,
    stack, app,
    seat_windows, seat_closed, dialogs, surface, held, batch, keyboard_focused_window,
    mouse_focused_window, cursor_hidden_window, mouse_location, button_pressed, repeat, timers,
    compose, pre_edit_text, composing, ime_pre_edit, marked, stray, sent,
    introduced, data_offers, destroyed, current_offer, session, drag, reads, read_offers,
    external_drag, open, blocked, active_drag, platform_drag,
    in_progress_configure, maximized, fullscreen, tiling, resize_throttle,
    window_bounds, bounds, destination, committed, requests, configures, last, windowed,
    issued, serials, selection_serial, events, pressed, selection, grab,
    entries, running, subs, link, straggler, source, reg, pending, link_callback, window, visible,
    screen, notes, failed, main

treeVars == <<kind, parent, children, tree_closed, tree_windows, surfaces, tree_callback, focus,
              tasks, stack, app>>
seatVars == <<seat_windows, seat_closed, dialogs, surface, held, batch, keyboard_focused_window,
              mouse_focused_window, cursor_hidden_window, mouse_location, button_pressed, repeat,
              timers, compose, pre_edit_text, composing, ime_pre_edit, marked, stray, sent>>
dragVars == <<introduced, data_offers, destroyed, current_offer, session, drag, reads,
              read_offers, external_drag, open, blocked, active_drag, platform_drag>>
sizeVars == <<in_progress_configure, maximized, fullscreen, tiling, resize_throttle,
              window_bounds, bounds, destination, committed, requests, configures, last,
              windowed>>
serialVars == <<issued, serials, selection_serial, events, pressed, selection, grab>>
linkVars == <<entries, running, subs, link, straggler, source, reg, pending, link_callback,
              window, visible, screen, notes, failed, main>>

Tree == INSTANCE WindowTree WITH Windows <- TreeWindows, AppRemoves <- TRUE, Reentrant <- FALSE,
        closed <- tree_closed, windows <- tree_windows, callback <- tree_callback

TreeReentrant == INSTANCE WindowTree WITH Windows <- ReentrantWindows, AppRemoves <- TRUE,
        Reentrant <- TRUE, closed <- tree_closed, windows <- tree_windows,
        callback <- tree_callback

SeatKeys == INSTANCE Seat WITH Blockable <- {}, DeadKeys <- {}, Buttons <- {}, TextInput <- FALSE,
        MaxId <- KeysMaxId, windows <- seat_windows, closed <- seat_closed

SeatText == INSTANCE Seat WITH Closable <- {}, Blockable <- {}, TextInput <- TRUE,
        MaxId <- TextMaxId, windows <- seat_windows, closed <- seat_closed

SeatPointer == INSTANCE Seat WITH Keys <- PointerKeys, DeadKeys <- {}, TextInput <- TRUE,
        MaxId <- PointerMaxId, windows <- seat_windows, closed <- seat_closed

Drag == INSTANCE DataDevice

Size == INSTANCE Configure

Serial == INSTANCE Serials

Link == INSTANCE DisplayLink WITH Windows <- LinkWindows, NoDisplay <- None, StartFails <- TRUE,
        Reentrant <- TRUE, callback <- link_callback

LinkScreens == INSTANCE DisplayLink WITH Windows <- ScreenWindows, Displays <- Screens,
        NoDisplay <- None, StartFails <- TRUE, Reentrant <- TRUE, callback <- link_callback

ASSUME PartsAssumption ==
    /\ Tree!ConstantsAssumption
    /\ TreeReentrant!ConstantsAssumption
    /\ SeatKeys!ConstantsAssumption
    /\ SeatText!ConstantsAssumption
    /\ SeatPointer!ConstantsAssumption
    /\ Drag!ConstantsAssumption
    /\ Size!ConstantsAssumption
    /\ Serial!ConstantsAssumption
    /\ Link!ConstantsAssumption
    /\ LinkScreens!ConstantsAssumption

vars == <<part, treeVars, seatVars, dragVars, sizeVars, serialVars, linkVars>>

Init ==
    /\ part \in Parts
    /\ \/ part = "reentrant" /\ TreeReentrant!Init
       \/ part # "reentrant" /\ Tree!Init
    /\ \/ part = "text" /\ SeatText!Init
       \/ part = "pointer" /\ SeatPointer!Init
       \/ part \notin {"text", "pointer"} /\ SeatKeys!Init
    /\ Drag!Init
    /\ Size!Init
    /\ Serial!Init
    /\ part # "serials" => issued.serial = 0
    /\ \/ part = "screens" /\ LinkScreens!Init
       \/ part # "screens" /\ Link!Init

Next ==
    \/ part = "tree"      /\ Tree!Next
                          /\ UNCHANGED <<part, seatVars, dragVars, sizeVars, serialVars, linkVars>>
    \/ part = "reentrant" /\ TreeReentrant!Next
                          /\ UNCHANGED <<part, seatVars, dragVars, sizeVars, serialVars, linkVars>>
    \/ part = "keys"      /\ SeatKeys!Next
                          /\ UNCHANGED <<part, treeVars, dragVars, sizeVars, serialVars, linkVars>>
    \/ part = "text"      /\ SeatText!Next
                          /\ UNCHANGED <<part, treeVars, dragVars, sizeVars, serialVars, linkVars>>
    \/ part = "pointer"   /\ SeatPointer!Next
                          /\ UNCHANGED <<part, treeVars, dragVars, sizeVars, serialVars, linkVars>>
    \/ part = "drag"      /\ Drag!Next
                          /\ UNCHANGED <<part, treeVars, seatVars, sizeVars, serialVars, linkVars>>
    \/ part = "size"      /\ Size!Next
                          /\ UNCHANGED <<part, treeVars, seatVars, dragVars, serialVars, linkVars>>
    \/ part = "serials"   /\ Serial!Next
                          /\ UNCHANGED <<part, treeVars, seatVars, dragVars, sizeVars, linkVars>>
    \/ part = "link"      /\ Link!Next
                          /\ UNCHANGED <<part, treeVars, seatVars, dragVars, sizeVars, serialVars>>
    \/ part = "screens"   /\ LinkScreens!Next
                          /\ UNCHANGED <<part, treeVars, seatVars, dragVars, sizeVars, serialVars>>

Spec == Init /\ [][Next]_vars

-----------------------------------------------------------------------------
(* Properties, each of the part it is about and with its type invariant.   *)

\* Nothing in the window tree outlives what it refers to: a dialog or popup the registration of
\* its parent, an entry of a parent the surface of the child, the focus the registration of its
\* window. Applications that open and remove windows in close callbacks can break the first.
NoDanglingWindow ==
    /\ part = "tree" => Tree!TypeOK /\ Tree!NoDanglingWindow
    /\ part = "reentrant" => TreeReentrant!TypeOK /\ TreeReentrant!NoDanglingWindow

\* What is typed stays where it was typed. A key repeats only while it is held and only in the
\* window it was pressed in, by one timer; composed text goes to the window it was composed in and
\* is marked only where the keyboard is, as long as no window closes or gets a dialog meanwhile.
InputStaysInItsWindow ==
    /\ part = "keys" => SeatKeys!TypeOK /\ SeatKeys!InputStaysInItsWindow
    /\ part = "text" => SeatText!TypeOK /\ SeatText!InputStaysInItsWindow

\* A press goes to a window that is open and unblocked, a button that a window believes pressed is
\* down, and the hidden cursor is the one under the pointer.
PressIsAdmitted ==
    part = "pointer" => /\ SeatPointer!TypeOK /\ SeatPointer!PressIsAdmitted
                        /\ SeatPointer!PressedIsDown
                        /\ SeatPointer!HiddenUnderPointer /\ SeatPointer!PointerHasLocation

\* No read that ends late brings back a drag that has left, was dropped or was followed by another;
\* a drag of our own has one owner; and the offer of a drag whose paths were read is destroyed,
\* whichever of read and drag ended first.
DragIsCurrent ==
    Drag!TypeOK /\ Drag!DragIsCurrent /\ Drag!OneOwnDrag /\ Drag!NoOfferLeaked

\* What throttling drops is made up for: the configure that ends a resize leaves the window with
\* the size asked for. The destination on the screen belongs to the buffer on the screen, unless
\* the last commit attached no buffer.
SettlesOnConfigured ==
    Size!TypeOK /\ Size!SettlesOnConfigured /\ Size!DestinationFitsBuffer

\* The grab of a popup cites the press that came last, of either kind, unless a rollover separates
\* the last presses of the two kinds or its serial is 0; the selection always does.
GrabCitesLatestPress ==
    Serial!TypeOK /\ Serial!GrabCitesLatestPress /\ Serial!SelectionCitesLatestPress

\* A window is paced by the display it is on, a link runs for whom it has subscribers, and nothing
\* reaches a view that is gone.
PacedByItsScreen ==
    /\ part = "link" => /\ Link!TypeOK /\ Link!PacedByItsScreen /\ Link!LinkRunsIffSubscribed
                        /\ Link!SubscribedIsRegistered /\ Link!FreedIsQuiet
    /\ part = "screens" => /\ LinkScreens!TypeOK /\ LinkScreens!PacedByItsScreen
                           /\ LinkScreens!LinkRunsIffSubscribed
                           /\ LinkScreens!SubscribedIsRegistered /\ LinkScreens!FreedIsQuiet
=============================================================================
