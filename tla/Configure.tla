----------------------------- MODULE Configure ------------------------------
(***************************************************************************)
(* The size of a Wayland toplevel: configure events, the limit of one      *)
(* interactive resize per frame, resizes by the application, maximizing    *)
(* and restoring, and the viewport destination that a commit applies, with *)
(* a buffer or without one (wayland/window.rs).                            *)
(*                                                                         *)
(* A size is one axis in whole pixels.  The compositor is external: it     *)
(* sends configures, the ones of an interactive resize marked, and ends    *)
(* the resize with one that is not.  Size 0 leaves the choice to the       *)
(* client; a window that leaves fullscreen is given its size, and only a   *)
(* window that is neither maximized nor fullscreen is resized.             *)
(***************************************************************************)
EXTENDS Naturals, Sequences

CONSTANTS
    Sizes,        \* the content sizes that compositor and application ask for
    Inset,        \* width of the client's decorations
    MaxConfigures \* bound on the configures sent

\* What the constants have to be; the runs check it.
ConstantsAssumption ==
    /\ Sizes \subseteq Nat \ {0} /\ Sizes # {}
    /\ Inset \in Nat
    /\ MaxConfigures \in Nat

VARIABLES
    in_progress_configure,  \* what xdg_toplevel.configure left for xdg_surface.configure
    maximized, fullscreen, tiling,
    resize_throttle,
    window_bounds,   \* size to restore
    bounds,          \* size of the window
    destination,     \* viewport destination, staged
    committed,       \* what the compositor has: the destination, the size of the buffer, and
                     \* whether the last commit attached one
    requests,        \* resizes of the application, in tasks
    configures,      \* number of configures sent
    last,            \* the last configure that was applied or dropped
    windowed         \* the size the window had last when neither maximized nor fullscreen

vars == <<in_progress_configure, maximized, fullscreen, tiling, resize_throttle,
          window_bounds, bounds, destination, committed, requests, configures, last, windowed>>
stateVars == <<maximized, fullscreen, tiling>>

NoConfigure == [size |-> 0, maximized |-> FALSE, fullscreen |-> FALSE, resizing |-> FALSE,
                restored |-> FALSE]

compute_outer_size(size, tiled) == IF tiled THEN size ELSE size + 2 * Inset

InitialSize == CHOOSE s \in Sizes : TRUE

Init ==
    /\ in_progress_configure = <<>>
    /\ maximized = FALSE /\ fullscreen = FALSE /\ tiling = FALSE
    /\ resize_throttle = FALSE
    /\ window_bounds = InitialSize
    /\ bounds = InitialSize
    /\ destination = 0
    /\ committed = [destination |-> 0, buffer |-> 0, attached |-> FALSE]
    /\ requests = <<>>
    /\ configures = 0
    /\ last = NoConfigure
    /\ windowed = InitialSize

\* xdg_toplevel.configure; sizes of maximized and fullscreen windows are always given.
ToplevelConfigure(size, max, full, resizing) ==
    /\ in_progress_configure = <<>>
    /\ configures < MaxConfigures
    /\ max \/ full \/ fullscreen => size # 0
    /\ resizing => size # 0 /\ ~(max \/ full \/ maximized \/ fullscreen)
    /\ in_progress_configure' = <<[size |-> size, maximized |-> max, fullscreen |-> full,
                                   resizing |-> resizing, restored |-> maximized]>>
    /\ configures' = configures + 1
    /\ UNCHANGED <<stateVars, resize_throttle, window_bounds, bounds, destination, committed,
                   requests, last, windowed>>

\* set_size_and_scale: nothing happens if the size is the same.
Resize(size) ==
    /\ bounds' = size
    /\ destination' = IF size = bounds THEN destination ELSE size

\* Mutant: every configure after the first in a frame is throttled.
ThrottledAlways(c) == resize_throttle

\* Interactive resizes are limited to one per frame.
Throttled(c) == c.resizing /\ resize_throttle

\* The size that a configure which is not throttled gives the window: the restored size,
\* the configured one with decorations, or the old one.
NewSize(c) ==
    LET tiled == c.maximized \/ c.fullscreen
    IN IF tiled THEN c.size
       ELSE IF maximized THEN window_bounds
       ELSE IF c.size # 0 THEN compute_outer_size(c.size, FALSE)
       ELSE bounds

\* xdg_surface.configure: a throttled one is acknowledged and its size dropped.
SurfaceConfigure ==
    LET c == Head(in_progress_configure)
        tiled == c.maximized \/ c.fullscreen
    IN /\ in_progress_configure # <<>>
       /\ in_progress_configure' = <<>>
       /\ maximized' = c.maximized /\ fullscreen' = c.fullscreen /\ tiling' = tiled
       /\ last' = c
       /\ IF Throttled(c)
          THEN UNCHANGED <<resize_throttle, window_bounds, bounds, destination, windowed>>
          ELSE /\ resize_throttle' = (resize_throttle \/ c.resizing)
               /\ window_bounds' = IF tiled \/ (~maximized /\ c.size = 0) THEN window_bounds
                                                                          ELSE NewSize(c)
               /\ windowed' = IF tiled THEN windowed ELSE NewSize(c)
               /\ Resize(NewSize(c))
       /\ UNCHANGED <<committed, requests, configures>>

\* PlatformWindow::resize: the outer size is computed now and applied in a task.
AppResize(size) ==
    /\ requests = <<>>
    /\ requests' = <<compute_outer_size(size, tiling)>>
    /\ UNCHANGED <<in_progress_configure, stateVars, resize_throttle, window_bounds, bounds,
                   destination, committed, configures, last, windowed>>

AppResizeTask ==
    /\ requests # <<>>
    /\ requests' = Tail(requests)
    /\ Resize(Head(requests))
    /\ windowed' = IF maximized \/ fullscreen THEN windowed ELSE Head(requests)
    /\ last' = NoConfigure
    /\ UNCHANGED <<in_progress_configure, stateVars, resize_throttle, window_bounds, committed,
                   configures>>

\* A frame is drawn and presented: the surface is committed with the buffer.
Frame ==
    /\ resize_throttle' = FALSE
    /\ committed' = [destination |-> destination, buffer |-> bounds, attached |-> TRUE]
    /\ UNCHANGED <<in_progress_configure, stateVars, window_bounds, bounds, destination,
                   requests, configures, last, windowed>>

\* A commit without a buffer applies what is staged to the buffer that is there.
CommitState == committed' = [committed EXCEPT !.destination = destination, !.attached = FALSE]

\* Presenting fails.  Once a buffer was presented, the retry waits for a frame callback
\* that a commit without a buffer carries.
FrameFails ==
    /\ resize_throttle' = FALSE
    /\ IF committed.buffer = 0 THEN UNCHANGED committed ELSE CommitState
    /\ UNCHANGED <<in_progress_configure, stateVars, window_bounds, bounds, destination,
                   requests, configures, last, windowed>>

\* set_input_region commits at once, whatever is staged.
SetInputRegion ==
    /\ CommitState
    /\ UNCHANGED <<in_progress_configure, stateVars, resize_throttle, window_bounds, bounds,
                   destination, requests, configures, last, windowed>>

Next ==
    \/ \E size \in Sizes \cup {0}, max, full, resizing \in BOOLEAN :
          ToplevelConfigure(size, max, full, resizing)
    \/ SurfaceConfigure
    \/ \E size \in Sizes : AppResize(size)
    \/ AppResizeTask
    \/ Frame
    \/ FrameFails
    \/ SetInputRegion

Spec == Init /\ [][Next]_vars

TypeOK ==
    /\ Len(in_progress_configure) <= 1
    /\ maximized \in BOOLEAN /\ fullscreen \in BOOLEAN /\ tiling \in BOOLEAN
    /\ resize_throttle \in BOOLEAN
    /\ {window_bounds, bounds, windowed} \subseteq Nat \ {0}
    /\ destination \in Nat
    /\ committed \in [destination : Nat, buffer : Nat, attached : BOOLEAN]
    /\ requests \in Seq(Nat \ {0}) /\ Len(requests) <= 1
    /\ configures \in 0..MaxConfigures

(***************************************************************************)
(* Properties                                                              *)
(***************************************************************************)

\* The sizes that throttling drops are made up for: after a configure that is not part
\* of an interactive resize the window has the size that the compositor asked for.
SettlesOnConfigured ==
    last.size # 0 /\ ~last.resizing /\ ~last.restored /\ ~last.maximized /\ ~last.fullscreen
        => bounds = compute_outer_size(last.size, FALSE)

\* The destination on the screen is that of the buffer on the screen, across resizes between
\* frames, unless the last commit attached no buffer: a failed draw's retry and set_input_region
\* apply the destination of the next buffer to the old one, and the next frame mends it.
DestinationFitsBuffer ==
    committed.attached => committed.destination \in {0, committed.buffer}
=============================================================================
