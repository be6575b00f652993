----------------------------- MODULE DisplayLink -----------------------------
(***************************************************************************)
(* The frame pacing of macOS windows: the registry of display links and    *)
(* the frame source of a window (gpui_macos/src/display_link.rs), and the  *)
(* handlers of gpui_macos/src/window.rs that start and stop it.            *)
(*                                                                         *)
(* The main thread runs every operation. It never calls CoreVideo under    *)
(* the lock of the registry, so the output callback, on the thread of a    *)
(* link, can run between a change of the registry and the call that        *)
(* starts or stops the link. "main" is what the main thread has left to    *)
(* do in the call that it is in; the callback holds the lock throughout    *)
(* and is one step.                                                        *)
(*                                                                         *)
(* CoreVideo is external: a link that starts may fail to, one that stops   *)
(* may call back once more (that it fails to stop, which is logged and     *)
(* nothing else, is left out). So is AppKit: it changes what a window      *)
(* reports and notifies the delegate later.                                *)
(***************************************************************************)
EXTENDS Naturals, Sequences

CONSTANTS Windows, Displays, NoDisplay,
          StartFails,   \* whether CVDisplayLinkStart may fail
          Reentrant     \* whether the application may close a window while it draws it

\* What the constants have to be; the runs check it.
ConstantsAssumption ==
    /\ NoDisplay \notin Displays
    /\ StartFails \in BOOLEAN /\ Reentrant \in BOOLEAN

VARIABLES
    entries,    \* the displays the registry has an entry for
    running,    \* DisplayEntry.running
    subs,       \* DisplayEntry.subscribers: how many subscriptions of each window
    link,       \* whether CoreVideo runs the link
    straggler,  \* a stopped link that has its last callback before it
    source,     \* the frame source of a window: none, or live
    reg,        \* WindowFrameSource.registration: a display
    pending,    \* data merged into the source and not handled
    callback,   \* request_frame_callback is in its place
    window,     \* open, dropped (MacWindow::drop ran), freed (the view is deallocated)
    visible, screen, \* what AppKit says of the window
    notes,      \* notifications AppKit has not delivered
    failed,     \* the last subscription of the window failed
    main        \* what is left of the call on the main thread

registry == <<entries, running, subs>>
coreVideo == <<link, straggler>>
appKit == <<visible, screen, notes>>
vars == <<registry, coreVideo, source, reg, pending, callback, window, appKit, failed, main>>

Init ==
    /\ entries = {} /\ running = [d \in Displays |-> FALSE]
    /\ subs = [d \in Displays |-> [w \in Windows |-> 0]]
    /\ link = [d \in Displays |-> FALSE] /\ straggler = [d \in Displays |-> FALSE]
    /\ source = [w \in Windows |-> "none"]
    /\ reg = [w \in Windows |-> NoDisplay]
    /\ pending = [w \in Windows |-> FALSE]
    /\ callback = [w \in Windows |-> TRUE]
    /\ window = [w \in Windows |-> "open"]
    /\ visible = [w \in Windows |-> FALSE] /\ screen = [w \in Windows |-> NoDisplay]
    /\ notes = [w \in Windows |-> {}]
    /\ failed = [w \in Windows |-> FALSE]
    /\ main = <<>>

Subscribers(s, d) == {w \in Windows : s[d][w] > 0}

Do(op, x) == [op |-> op, x |-> x]

\* The next thing to do on the main thread, and what comes after it.
At(op) == main # <<>> /\ Head(main).op = op
Arg == Head(main).x
Rest == Tail(main)

-----------------------------------------------------------------------------
(* The registry.                                                           *)

\* WindowFrameSource::stop and unsubscribe, up to the release of the lock.
Unsubscribe(w, then) ==
    \/ /\ reg[w] = NoDisplay
       /\ main' = then
       /\ UNCHANGED <<registry, reg>>
    \/ /\ reg[w] # NoDisplay
       /\ subs' = [subs EXCEPT ![reg[w]][w] = @ - 1]
       /\ LET last == Subscribers(subs', reg[w]) = {} /\ running[reg[w]]
          IN /\ running' = [running EXCEPT ![reg[w]] = @ /\ ~last]
             /\ main' = IF last THEN <<Do("stop", reg[w])>> \o then ELSE then
       /\ reg' = [reg EXCEPT ![w] = NoDisplay]
       /\ UNCHANGED entries

\* CVDisplayLinkStop only tells the thread of the link to end soon.
StopLink ==
    /\ At("stop")
    /\ link' = [link EXCEPT ![Arg] = FALSE]
    /\ straggler' = [straggler EXCEPT ![Arg] = TRUE]
    /\ main' = Rest
    /\ UNCHANGED <<registry, source, reg, pending, callback, window, appKit, failed>>

\* subscribe, up to the release of the lock. The source holds its registration from the time the
\* call returns: with the link already running that is here.
Subscribe(w, d) ==
    /\ entries' = entries \cup {d}
    /\ subs' = [subs EXCEPT ![d][w] = @ + 1]
    /\ running' = [running EXCEPT ![d] = TRUE]
    /\ IF running[d]
       THEN /\ reg' = [reg EXCEPT ![w] = d] /\ failed' = [failed EXCEPT ![w] = FALSE]
            /\ main' = Rest
       ELSE main' = <<Do("start", [w |-> w, d |-> d])>> \o Rest /\ UNCHANGED <<reg, failed>>

\* The link is created before anything is registered: a failure leaves the registry as it was.
CreateFails(w, d) ==
    /\ StartFails /\ d \notin entries
    /\ failed' = [failed EXCEPT ![w] = TRUE]
    /\ main' = Rest
    /\ UNCHANGED <<registry, reg>>

StartLink ==
    /\ At("start")
    /\ link' = [link EXCEPT ![Arg.d] = TRUE]
    /\ reg' = [reg EXCEPT ![Arg.w] = Arg.d]
    /\ failed' = [failed EXCEPT ![Arg.w] = FALSE]
    /\ main' = Rest
    /\ UNCHANGED <<registry, straggler, source, pending, callback, window, appKit>>

StartLinkFails ==
    /\ At("start") /\ StartFails
    /\ running' = [running EXCEPT ![Arg.d] = FALSE]
    /\ subs' = [subs EXCEPT ![Arg.d][Arg.w] = @ - 1]
    /\ failed' = [failed EXCEPT ![Arg.w] = TRUE]
    /\ main' = Rest
    /\ UNCHANGED <<entries, coreVideo, source, reg, pending, callback, window, appKit>>

\* display_link_output_callback. A source that was cancelled takes data and never handles it.
OutputCallback(d) ==
    /\ link[d] \/ straggler[d]
    /\ straggler' = [straggler EXCEPT ![d] = @ /\ link[d]]
    /\ pending' = [w \in Windows |-> pending[w] \/ (subs[d][w] > 0 /\ source[w] = "live")]
    /\ UNCHANGED <<registry, link, source, reg, callback, window, appKit, failed, main>>

-----------------------------------------------------------------------------
(* The window.                                                             *)

\* start_display_link stops first, and goes on at "look".
StartDisplayLink(w, then) == Unsubscribe(w, <<Do("look", w)>> \o then)

\* A window that is covered, or for the moment on no screen, gets no link.
LookElsewhere ==
    /\ At("look")
    /\ ~visible[Arg] \/ screen[Arg] = NoDisplay
    /\ main' = Rest
    /\ UNCHANGED <<registry, coreVideo, source, reg, pending, callback, window, appKit, failed>>

\* The source is made when it is first needed.
Look ==
    /\ At("look")
    /\ visible[Arg] /\ screen[Arg] # NoDisplay
    /\ source' = [source EXCEPT ![Arg] = "live"]
    /\ Subscribe(Arg, screen[Arg]) \/ CreateFails(Arg, screen[Arg])
    /\ UNCHANGED <<coreVideo, pending, callback, window, appKit>>

\* window_did_change_occlusion_state
DidChangeOcclusion(w) ==
    /\ main = <<>> /\ window[w] = "open" /\ "occlusion" \in notes[w]
    /\ notes' = [notes EXCEPT ![w] = @ \ {"occlusion"}]
    /\ \/ visible[w] /\ StartDisplayLink(w, <<>>)
       \/ ~visible[w] /\ Unsubscribe(w, <<>>)
    /\ UNCHANGED <<coreVideo, source, pending, callback, window, visible, screen, failed>>

\* window_did_change_screen
DidChangeScreen(w) ==
    /\ main = <<>> /\ window[w] = "open" /\ "screen" \in notes[w]
    /\ notes' = [notes EXCEPT ![w] = @ \ {"screen"}]
    /\ StartDisplayLink(w, <<>>)
    /\ UNCHANGED <<coreVideo, source, pending, callback, window, visible, screen, failed>>

\* display_layer; a window that becomes key does the same. The view has this method, so it also
\* runs for a window that was dropped and is not yet closed.
DisplayLayer(w) ==
    /\ main = <<>> /\ window[w] # "freed" /\ callback[w]
    /\ callback' = [callback EXCEPT ![w] = FALSE]
    /\ Unsubscribe(w, <<Do("draw", w), Do("restart", w)>>)
    /\ UNCHANGED <<coreVideo, source, pending, window, appKit, failed>>

\* Mutant: the link stays off after a synchronous frame.
RestartForgotten ==
    /\ At("restart")
    /\ callback' = [callback EXCEPT ![Arg] = TRUE]
    /\ main' = Rest
    /\ UNCHANGED <<registry, reg>>
    /\ UNCHANGED <<coreVideo, source, pending, window, appKit, failed>>

\* After the draw the callback is put back and the link started.
Restart ==
    /\ At("restart")
    /\ callback' = [callback EXCEPT ![Arg] = TRUE]
    /\ StartDisplayLink(Arg, Rest)
    /\ UNCHANGED <<coreVideo, source, pending, window, appKit, failed>>

\* step, the handler of the source, on the main queue.
Step(w) ==
    /\ main = <<>> /\ pending[w]
    /\ pending' = [pending EXCEPT ![w] = FALSE]
    /\ callback' = [callback EXCEPT ![w] = FALSE]
    /\ main' = <<Do("draw", w), Do("done", w)>>
    /\ UNCHANGED <<registry, coreVideo, source, reg, window, appKit, failed>>

StepDone ==
    /\ At("done")
    /\ callback' = [callback EXCEPT ![Arg] = TRUE]
    /\ main' = Rest
    /\ UNCHANGED <<registry, coreVideo, source, reg, pending, window, appKit, failed>>

\* The application draws.
Draw ==
    /\ At("draw")
    /\ main' = Rest
    /\ UNCHANGED <<registry, coreVideo, source, reg, pending, callback, window, appKit, failed>>

\* Drop for WindowFrameSource: unsubscribe, then cancel.
DropSource(w, then) == Unsubscribe(w, <<Do("cancel", w)>> \o then)

\* Drop for MacWindow, at any time the application runs, a draw included. The delegate goes
\* with it: there are no more notifications.
DropWindow(w) ==
    /\ window[w] = "open"
    /\ \/ main = <<>> /\ DropSource(w, <<>>)
       \/ At("draw") /\ Reentrant /\ DropSource(w, Rest)
    /\ window' = [window EXCEPT ![w] = "dropped"]
    /\ notes' = [notes EXCEPT ![w] = {}]
    /\ UNCHANGED <<coreVideo, source, pending, callback, visible, screen, failed>>

\* A source that is cancelled does not run its handler again.
CancelSource ==
    /\ At("cancel")
    /\ source' = [source EXCEPT ![Arg] = "none"]
    /\ pending' = [pending EXCEPT ![Arg] = FALSE]
    /\ main' = Rest
    /\ UNCHANGED <<registry, coreVideo, reg, callback, window, appKit, failed>>

\* The task that closes the window has run and AppKit deallocates window and view: the last of
\* them drops the state, and with it a source that is still there, before the view goes.
Dealloc(w) ==
    /\ main = <<>> /\ window[w] = "dropped"
    /\ DropSource(w, <<Do("free", w)>>)
    /\ UNCHANGED <<coreVideo, source, pending, callback, window, appKit, failed>>

Free ==
    /\ At("free")
    /\ window' = [window EXCEPT ![Arg] = "freed"]
    /\ main' = Rest
    /\ UNCHANGED <<registry, coreVideo, source, reg, pending, callback, appKit, failed>>

-----------------------------------------------------------------------------
(* AppKit: a window that is not freed is covered or shown, or goes to      *)
(* another screen or, while displays change, to none, between two calls or *)
(* because of what the application does while it draws.                    *)

Occlude(w) ==
    /\ main = <<>> \/ At("draw")
    /\ window[w] # "freed"
    /\ visible' = [visible EXCEPT ![w] = ~@]
    /\ notes' = [notes EXCEPT ![w] = IF window[w] = "open" THEN @ \cup {"occlusion"} ELSE @]
    /\ UNCHANGED <<registry, coreVideo, source, reg, pending, callback, window, screen, failed, main>>

Move(w, d) ==
    /\ main = <<>> \/ At("draw")
    /\ window[w] # "freed" /\ screen[w] # d
    /\ screen' = [screen EXCEPT ![w] = d]
    /\ notes' = [notes EXCEPT ![w] = IF window[w] = "open" THEN @ \cup {"screen"} ELSE @]
    /\ UNCHANGED <<registry, coreVideo, source, reg, pending, callback, window, visible, failed, main>>

Main ==
    \/ StopLink \/ StartLink \/ StartLinkFails \/ LookElsewhere \/ Look \/ Restart
    \/ StepDone \/ Draw \/ CancelSource \/ Free

\* Every window is gone.
AllFreed == main = <<>> /\ (\A w \in Windows : window[w] = "freed") /\ UNCHANGED vars

Next ==
    \/ Main \/ AllFreed
    \/ \E d \in Displays : OutputCallback(d)
    \/ \E w \in Windows :
        \/ DidChangeOcclusion(w) \/ DidChangeScreen(w) \/ DisplayLayer(w) \/ Step(w)
        \/ DropWindow(w) \/ Dealloc(w) \/ Occlude(w)
        \/ \E d \in Displays \cup {NoDisplay} : Move(w, d)

Spec == Init /\ [][Next]_vars

-----------------------------------------------------------------------------
(* Properties.                                                             *)

TypeOK ==
    /\ entries \subseteq Displays
    /\ running \in [Displays -> BOOLEAN]
    /\ subs \in [Displays -> [Windows -> 0..1]]
    /\ link \in [Displays -> BOOLEAN] /\ straggler \in [Displays -> BOOLEAN]
    /\ source \in [Windows -> {"none", "live"}]
    /\ reg \in [Windows -> Displays \cup {NoDisplay}]
    /\ pending \in [Windows -> BOOLEAN] /\ callback \in [Windows -> BOOLEAN]
    /\ window \in [Windows -> {"open", "dropped", "freed"}]
    /\ visible \in [Windows -> BOOLEAN] /\ screen \in [Windows -> Displays \cup {NoDisplay}]
    /\ notes \in [Windows -> SUBSET {"occlusion", "screen"}]
    /\ failed \in [Windows -> BOOLEAN]

\* "A display's link runs iff it has subscribers": between two calls on the main thread, whatever
\* windows share the display and whatever starts failed.
LinkRunsIffSubscribed ==
    main = <<>> => \A d \in Displays :
        /\ link[d] <=> Subscribers(subs, d) # {}
        /\ running[d] <=> link[d]

\* The registry holds what the windows think they have subscribed to, once: no subscription is
\* left behind by a start that failed or a window that moved.
SubscribedIsRegistered ==
    main = <<>> => \A w \in Windows, d \in Displays : subs[d][w] = IF reg[w] = d THEN 1 ELSE 0

\* An open window whose notifications are all delivered is paced by the display it is on if it is
\* visible and by none if it is not, unless its link could not be started.
PacedByItsScreen ==
    main = <<>> => \A w \in Windows :
        window[w] = "open" /\ notes[w] = {} /\ ~failed[w] =>
            reg[w] = IF visible[w] THEN screen[w] ELSE NoDisplay

\* No handler runs, and no callback reaches the source, once the view it points at is gone.
FreedIsQuiet ==
    \A w \in Windows : window[w] = "freed" =>
        ~pending[w] /\ source[w] = "none" /\ \A d \in Displays : subs[d][w] = 0
=============================================================================
