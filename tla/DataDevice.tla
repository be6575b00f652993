----------------------------- MODULE DataDevice -----------------------------
(***************************************************************************)
(* Drags of files into and out of Wayland windows: the data device events  *)
(* (wayland/client.rs), the asynchronous read of a drag's paths            *)
(* (DragState), the list of data offers it shares with the clipboard       *)
(* (wayland/clipboard.rs), and the drag GPUI keeps for its elements        *)
(* (gpui/src/app.rs, window.rs).                                           *)
(*                                                                         *)
(* The compositor is external: it introduces offers, moves a drag in and   *)
(* out of windows and ends it.  An event is handled in the step in which   *)
(* it is sent.  Offers are numbered as they are introduced; positions and  *)
(* paths are left out.                                                     *)
(***************************************************************************)
EXTENDS Naturals, Sequences, FiniteSets

CONSTANTS
    Windows,     \* the application's windows
    Closable,    \* those that may close during a drag
    Blockable,   \* those that may get a dialog of theirs
    None,        \* no window, no offer
    MaxOffers    \* bound on the offers introduced

\* What the constants have to be; the runs check it.
ConstantsAssumption ==
    /\ Closable \subseteq Windows
    /\ Blockable \subseteq Windows
    /\ None \notin Windows \cup Nat
    /\ MaxOffers \in Nat

Offers == 1..MaxOffers

VARIABLES
    introduced,     \* offers introduced so far
    data_offers,    \* the client's list of them
    destroyed,      \* offers whose proxy was destroyed
    current_offer,  \* the offer of the selection, for the clipboard
    session,        \* the drag the compositor has over a window
    drag,           \* DragState
    reads,          \* reads of a drag's paths in flight
    read_offers,    \* offers whose paths were read
    external_drag,  \* the source window of a drag of our own, for the client
    open,           \* windows that are open
    blocked,        \* those with a dialog
    active_drag,    \* App::active_drag, with the offer its paths are of
    platform_drag   \* App::platform_owned_drag

vars == <<introduced, data_offers, destroyed, current_offer, session, drag, reads,
          read_offers, external_drag, open, blocked, active_drag, platform_drag>>
offerVars  == <<introduced, data_offers, destroyed, current_offer>>
ownVars    == <<external_drag, platform_drag>>
windowVars == <<open, blocked>>

\* A drag with paths from outside, one of our own, or one of our own that came back.  The field
\* missed, here and in the drag of the platform, records that the window did not hear its end.
DragKinds == {"none", "files", "own", "restored"}

NoSession == [over |-> None, offer |-> None, dropped |-> FALSE]
NoDrag == [kind |-> "none", paths |-> None, missed |-> FALSE]
NoPlatformDrag == [source_window |-> None, suspended |-> FALSE, missed |-> FALSE]

Init ==
    /\ introduced = 0
    /\ data_offers = <<>>
    /\ destroyed = {}
    /\ current_offer = None
    /\ session = NoSession
    /\ drag = [data_offer |-> None, window |-> None, generation |-> 0]
    /\ reads = {}
    /\ read_offers = {}
    /\ external_drag = None
    /\ open = Windows
    /\ blocked = {}
    /\ active_drag = NoDrag
    /\ platform_drag = NoPlatformDrag

-----------------------------------------------------------------------------
(* Offers *)

\* DataOffer: the third offer in the list pushes the first one out.
Introduce(o) ==
    /\ introduced < MaxOffers
    /\ o = introduced + 1
    /\ introduced' = o
    /\ IF Len(data_offers) = 2
       THEN /\ data_offers' = <<data_offers[2], o>>
            /\ destroyed' = destroyed \cup {data_offers[1]}
       ELSE /\ data_offers' = Append(data_offers, o)
            /\ UNCHANGED destroyed

\* Another client, or this one, takes the selection.
SelectionChanged(o) ==
    /\ Introduce(o)
    /\ current_offer' = o
    /\ UNCHANGED <<session, drag, reads, read_offers, ownVars, windowVars, active_drag>>

SelectionCleared ==
    /\ current_offer # None
    /\ current_offer' = None
    /\ UNCHANGED <<introduced, data_offers, destroyed, session, drag, reads, read_offers, ownVars,
                   windowVars, active_drag>>

-----------------------------------------------------------------------------
(* What GPUI makes of the events a window is given.  handle_input refuses the *)
(* events of a window that is closed or has a dialog.                         *)

Hears(w) == w \in open /\ w \notin blocked

\* FileDrop Entered: a drag of our own that comes back to its window is restored, and paths
\* become the active drag only if there is none.
Entered(w, o) ==
    LET comesBack == platform_drag.source_window = w
    IN  IF Hears(w)
        THEN /\ platform_drag' = IF comesBack THEN [platform_drag EXCEPT !.suspended = FALSE]
                                 ELSE platform_drag
             /\ active_drag' = IF comesBack /\ platform_drag.suspended
                               THEN [kind |-> "restored", paths |-> None, missed |-> FALSE]
                               ELSE IF active_drag = NoDrag
                               THEN [kind |-> "files", paths |-> o, missed |-> FALSE]
                               ELSE active_drag
        ELSE UNCHANGED <<platform_drag, active_drag>>

\* The active drag is over, and the window refuses to hear of it.
MissEnd == active_drag' = IF active_drag = NoDrag THEN NoDrag
                          ELSE [active_drag EXCEPT !.missed = TRUE]

\* FileDrop Exited: a restored drag is suspended again, any other is over.
Exited(w) ==
    LET back == /\ platform_drag.source_window = w
                /\ ~platform_drag.suspended
                /\ active_drag # NoDrag
    IN  IF Hears(w)
        THEN /\ platform_drag' = IF back THEN [platform_drag EXCEPT !.suspended = TRUE]
                                 ELSE platform_drag
             /\ active_drag' = NoDrag
        ELSE MissEnd /\ UNCHANGED platform_drag

\* FileDrop Submit: a mouse up, which ends the active drag.
Submit(w) ==
    /\ IF Hears(w) THEN active_drag' = NoDrag ELSE MissEnd
    /\ UNCHANGED platform_drag

\* end_platform_drag.
EndPlatformDrag(w) ==
    IF w # None /\ platform_drag.source_window = w
    THEN platform_drag' = NoPlatformDrag /\ active_drag' = NoDrag
    ELSE UNCHANGED <<platform_drag, active_drag>>

\* FileDrop Ended.
DragEnded(w) ==
    IF Hears(w) THEN EndPlatformDrag(w)
    ELSE /\ platform_drag' = IF platform_drag = NoPlatformDrag THEN NoPlatformDrag
                             ELSE [platform_drag EXCEPT !.missed = TRUE]
         /\ UNCHANGED active_drag

-----------------------------------------------------------------------------
(* The data device *)

begin_uri_read == drag.generation + 1

\* Enter: a read of the paths is started.  A surface that is no window of ours any
\* more is ignored.
Enter(w, o) ==
    /\ session.over = None
    /\ Introduce(o)
    /\ session' = [over |-> w, offer |-> o, dropped |-> FALSE]
    /\ IF w \in open
       THEN /\ drag' = [drag EXCEPT !.generation = begin_uri_read]
            /\ reads' = reads \cup {[generation |-> begin_uri_read, offer |-> o, window |-> w]}
       ELSE UNCHANGED <<drag, reads>>
    /\ UNCHANGED <<current_offer, read_offers, ownVars, windowVars, active_drag>>

\* Mutant: the completion does not look at the generation.
CompleteUriReadLate(r) ==
    /\ r \in reads
    /\ reads' = reads \ {r}
    /\ drag' = [drag EXCEPT !.data_offer = r.offer, !.window = r.window]
    /\ Entered(r.window, r.offer)
    /\ read_offers' = read_offers \cup {r.offer}
    /\ UNCHANGED <<offerVars, session, external_drag, windowVars>>

\* The paths have been read: the window is told of the drag, unless it is over.
CompleteUriRead(r) ==
    /\ r \in reads
    /\ reads' = reads \ {r}
    /\ IF r.generation = drag.generation
       THEN /\ drag' = [drag EXCEPT !.data_offer = r.offer, !.window = r.window]
            /\ Entered(r.window, r.offer)
            /\ UNCHANGED destroyed
       ELSE /\ destroyed' = destroyed \cup {r.offer}
            /\ UNCHANGED <<drag, platform_drag, active_drag>>
    /\ read_offers' = read_offers \cup {r.offer}
    /\ UNCHANGED <<introduced, data_offers, current_offer, session, external_drag, windowVars>>

\* The drag has no paths in it: the offer is destroyed.
ReadEmpty(r) ==
    /\ r \in reads
    /\ reads' = reads \ {r}
    /\ destroyed' = destroyed \cup {r.offer}
    /\ read_offers' = read_offers \cup {r.offer}
    /\ UNCHANGED <<introduced, data_offers, current_offer, session, drag, ownVars, windowVars,
                   active_drag>>

\* The read fails or times out: the offer is left alone.
ReadFailed(r) ==
    /\ r \in reads
    /\ reads' = reads \ {r}
    /\ UNCHANGED <<offerVars, session, drag, read_offers, ownVars, windowVars, active_drag>>

\* What handle_leave and handle_drop share: the read is outdated and, if the window
\* was told of the drag, the offer is destroyed.
Ended ==
    IF drag.window = None
    THEN /\ drag' = [drag EXCEPT !.generation = @ + 1]
         /\ UNCHANGED destroyed
    ELSE /\ drag' = [data_offer |-> None, window |-> None, generation |-> drag.generation + 1]
         /\ destroyed' = destroyed \cup {drag.data_offer}

\* The drag leaves, or follows its drop with a leave.
Leave ==
    /\ session.over # None
    /\ session' = NoSession
    /\ Ended
    /\ IF drag.window = None THEN UNCHANGED <<platform_drag, active_drag>>
       ELSE Exited(drag.window)
    /\ UNCHANGED <<introduced, data_offers, current_offer, reads, read_offers, external_drag,
                   windowVars>>

\* The drag is dropped; some compositors send a leave after it.
Drop ==
    /\ session.over # None
    /\ ~session.dropped
    /\ \/ session' = NoSession
       \/ session' = [session EXCEPT !.dropped = TRUE]
    /\ Ended
    /\ IF drag.window = None THEN UNCHANGED <<platform_drag, active_drag>>
       ELSE Submit(drag.window)
    /\ UNCHANGED <<introduced, data_offers, current_offer, reads, read_offers, external_drag,
                   windowVars>>

-----------------------------------------------------------------------------
(* Drags of our own.  While the platform has a drag the pointer is the        *)
(* compositor's, and no window is given mouse events.                         *)

\* An element is dragged, with the pointer in the window.
StartDrag(w) ==
    /\ Hears(w)
    /\ active_drag = NoDrag
    /\ session.over = None
    /\ external_drag = None
    /\ active_drag' = [kind |-> "own", paths |-> None, missed |-> FALSE]
    /\ UNCHANGED <<offerVars, session, drag, reads, read_offers, ownVars, windowVars>>

\* The button is released in a window.
MouseUp(w) ==
    /\ Hears(w)
    /\ active_drag # NoDrag
    /\ session.over = None
    /\ external_drag = None
    /\ active_drag' = NoDrag
    /\ UNCHANGED <<offerVars, session, drag, reads, read_offers, ownVars, windowVars>>

\* The application stops the drag: one restored in this window is over.
StopActiveDrag(w) ==
    /\ w \in open
    /\ active_drag # NoDrag
    /\ active_drag' = NoDrag
    /\ platform_drag' = IF platform_drag.source_window = w /\ ~platform_drag.suspended
                        THEN NoPlatformDrag ELSE platform_drag
    /\ UNCHANGED <<offerVars, session, drag, reads, read_offers, external_drag, windowVars>>

\* promote_external_drag_to_platform: the pointer leaves the window with the drag.  A drag that
\* was restored has given its payload away already.
StartExternalDrag(w) ==
    /\ Hears(w)
    /\ active_drag.kind = "own"
    /\ session.over = None
    /\ external_drag' = w
    /\ active_drag' = NoDrag
    /\ platform_drag' = [source_window |-> w, suspended |-> TRUE, missed |-> FALSE]
    /\ UNCHANGED <<offerVars, session, drag, reads, read_offers, windowVars>>

\* DndFinished or Cancelled: the window is told that its drag has ended.
ExternalDragEnded ==
    /\ external_drag # None
    /\ external_drag' = None
    /\ DragEnded(external_drag)
    /\ UNCHANGED <<offerVars, session, drag, reads, read_offers, windowVars>>

\* A window is removed, with the drag it gave to the platform.
Close(w) ==
    /\ w \in open \cap Closable
    /\ open' = open \ {w}
    /\ blocked' = blocked \ {w}
    /\ EndPlatformDrag(w)
    /\ UNCHANGED <<offerVars, session, drag, reads, read_offers, external_drag>>

\* A dialog of the window opens, or closes again.
Dialog(w) ==
    /\ w \in open \cap Blockable
    /\ blocked' = IF w \in blocked THEN blocked \ {w} ELSE blocked \cup {w}
    /\ UNCHANGED <<offerVars, session, drag, reads, read_offers, ownVars, open, active_drag>>

-----------------------------------------------------------------------------
Next ==
    \/ \E o \in Offers : SelectionChanged(o)
    \/ SelectionCleared
    \/ \E w \in Windows, o \in Offers : Enter(w, o)
    \/ \E r \in reads : CompleteUriRead(r) \/ ReadEmpty(r) \/ ReadFailed(r)
    \/ Leave \/ Drop
    \/ \E w \in Windows : StartDrag(w) \/ MouseUp(w) \/ StopActiveDrag(w)
    \/ \E w \in Windows : StartExternalDrag(w) \/ Close(w) \/ Dialog(w)
    \/ ExternalDragEnded

Spec == Init /\ [][Next]_vars

-----------------------------------------------------------------------------
(* Properties *)

TypeOK ==
    /\ introduced \in 0..MaxOffers
    /\ data_offers \in Seq(Offers)
    /\ destroyed \subseteq Offers
    /\ current_offer \in Offers \cup {None}
    /\ session.over \in Windows \cup {None}
    /\ drag.data_offer \in Offers \cup {None}
    /\ drag.window \in Windows \cup {None}
    /\ drag.generation \in Nat
    /\ external_drag \in Windows \cup {None}
    /\ blocked \subseteq open
    /\ active_drag.kind \in DragKinds
    /\ platform_drag.source_window \in Windows \cup {None}

\* The drag the client keeps is the one the compositor has over that window, and the files that
\* are the active drag are those of it: no read that ends late brings back a drag that has left,
\* was dropped, or was followed by another.  Only a window that was closed or had a dialog when
\* the drag ended leaves files behind, until a button is released or a drag ends where it is heard.
DragIsCurrent ==
    /\ drag.window # None => /\ session.over = drag.window
                             /\ session.offer = drag.data_offer
                             /\ ~session.dropped
    /\ active_drag.kind = "files" /\ ~active_drag.missed =>
           drag.window # None /\ active_drag.paths = drag.data_offer

\* The offer of a drag whose paths were read is destroyed once the drag is over,
\* whichever of the read and the drag ended first.
NoOfferLeaked ==
    \A o \in read_offers : (session.offer = o /\ ~session.dropped) \/ o \in destroyed

\* A drag of our own that the platform has is either suspended or active in its window, never
\* both, and its source is still there to end it; one that is active again is over its window.
\* Only a window with a dialog can keep it past its end.
OneOwnDrag ==
    /\ platform_drag # NoPlatformDrag =>
        /\ platform_drag.source_window \in open
        /\ ~platform_drag.missed => /\ external_drag = platform_drag.source_window
                                    /\ active_drag.kind # "own"
    /\ active_drag.kind = "restored" =>
        /\ platform_drag # NoPlatformDrag
        /\ ~platform_drag.suspended
        /\ ~active_drag.missed => drag.window = platform_drag.source_window
=============================================================================
