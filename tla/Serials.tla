------------------------------ MODULE Serials -------------------------------
(***************************************************************************)
(* The serials of input events (wayland/serial.rs) and the requests that   *)
(* cite them: setting the selection, and the grab of a popup               *)
(* (wayland/client.rs).  The compositor counts serials up and lets them    *)
(* roll over; 0 is a serial like any other.  An event is known here by its *)
(* serial and by the number of rollovers before it, which the client does  *)
(* not see.                                                                *)
(***************************************************************************)
EXTENDS Naturals

CONSTANTS
    Rollover,    \* number of serials (2^32)
    None,        \* no serial, no press
    MaxEvents    \* bound on the events

SerialKind == {"DataDevice", "InputMethod", "MouseEnter", "MousePress", "KeyPress"}
Presses == {"MousePress", "KeyPress"}
Serial == 0..(Rollover - 1)
Stamp == [epoch : Nat, serial : Serial]

\* What the constants have to be; the runs check it.
ConstantsAssumption ==
    /\ Rollover \in Nat \ {0, 1}
    /\ MaxEvents \in Nat
    /\ None \notin Nat \cup Stamp

VARIABLES
    issued,            \* the compositor's last serial, with its rollovers
    serials,           \* SerialTracker::serials
    selection_serial,  \* SerialTracker::selection_serial
    events,            \* number of events so far
    pressed,           \* the last press of each kind
    selection,         \* what the last set_selection cites, and the presses before it
    grab               \* what the last popup's grab cites, and the presses before it

vars == <<issued, serials, selection_serial, events, pressed, selection, grab>>

Init ==
    /\ issued \in [epoch : {0}, serial : Serial]
    /\ serials = [k \in SerialKind |-> None]
    /\ selection_serial = None
    /\ events = 0
    /\ pressed = [k \in Presses |-> None]
    /\ selection = [cites |-> None, presses |-> pressed]
    /\ grab = [cites |-> None, presses |-> pressed]

\* SerialTracker::update
update(kind, value) ==
    /\ serials' = [serials EXCEPT ![kind] = value]
    /\ selection_serial' = IF kind \in Presses THEN value ELSE selection_serial

\* SerialTracker::get: 0 for a kind that was not tracked.
get(kind) == IF serials[kind] = None THEN 0 ELSE serials[kind]

\* The stamp n serials after the last one.
Later(n) ==
    IF issued.serial + n < Rollover
    THEN [epoch |-> issued.epoch, serial |-> issued.serial + n]
    ELSE [epoch |-> issued.epoch + 1, serial |-> issued.serial + n - Rollover]

\* An input event that carries a serial; the compositor may have used up one since the
\* last, for another client.
Event(kind, n) ==
    /\ events < MaxEvents
    /\ events' = events + 1
    /\ issued' = Later(n)
    /\ update(kind, Later(n).serial)
    /\ pressed' = IF kind \in Presses THEN [pressed EXCEPT ![kind] = Later(n)] ELSE pressed
    /\ UNCHANGED <<selection, grab>>

\* write_to_clipboard and write_to_primary: without a press nothing is set.
SetSelection ==
    /\ selection_serial # None
    /\ selection' = [cites |-> selection_serial, presses |-> pressed]
    /\ UNCHANGED <<issued, serials, selection_serial, events, pressed, grab>>

Max(a, b) == IF a > b THEN a ELSE b

\* Mutant: the pointer's serial is taken before the keyboard's.
popup_grab_pointer ==
    LET serial == IF get("MousePress") # 0 THEN get("MousePress") ELSE get("KeyPress")
    IN IF serial # 0 THEN serial ELSE None

\* The serial of a popup's grab: the larger of the two press serials, none if it is 0.
popup_grab ==
    LET serial == Max(get("MousePress"), get("KeyPress"))
    IN IF serial # 0 THEN serial ELSE None

OpenPopup ==
    /\ grab' = [cites |-> popup_grab, presses |-> pressed]
    /\ UNCHANGED <<issued, serials, selection_serial, events, pressed, selection>>

Next ==
    \/ \E kind \in SerialKind, n \in 1..2 : Event(kind, n)
    \/ SetSelection
    \/ OpenPopup

Spec == Init /\ [][Next]_vars

TypeOK ==
    /\ issued \in Stamp
    /\ serials \in [SerialKind -> Serial \cup {None}]
    /\ selection_serial \in Serial \cup {None}
    /\ events \in 0..MaxEvents
    /\ pressed \in [Presses -> Stamp \cup {None}]
    /\ {selection, grab} \subseteq [cites : Serial \cup {None},
                                    presses : [Presses -> Stamp \cup {None}]]

(***************************************************************************)
(* Properties                                                              *)
(***************************************************************************)

After(s, t) == s.epoch > t.epoch \/ (s.epoch = t.epoch /\ s.serial > t.serial)

\* The press of kind k came last among the presses ps.
IsLatest(ps, k) == ps[k] # None /\ \A j \in Presses \ {k} : ps[j] = None \/ After(ps[k], ps[j])

\* No rollover separates the presses ps.
SameEpoch(ps) ==
    \A j, k \in Presses : ps[j] # None /\ ps[k] # None => ps[j].epoch = ps[k].epoch

\* "so use the most recent press serial, or no grab before any press" (client.rs:1149): a grab
\* cites the press that came last, of either kind, unless a rollover separates the last presses of
\* the two kinds, when the larger serial is the older one, or its serial is 0, when there is none.
GrabCitesLatestPress ==
    /\ (\A k \in Presses : grab.presses[k] = None) => grab.cites = None
    /\ \A k \in Presses :
          IsLatest(grab.presses, k) /\ SameEpoch(grab.presses) =>
              grab.cites = IF grab.presses[k].serial = 0 THEN None ELSE grab.presses[k].serial

\* The selection is set with the serial of the press that came last, across a rollover and for
\* the serial 0, too.
SelectionCitesLatestPress ==
    \A k \in Presses : IsLatest(selection.presses, k) =>
        selection.cites = selection.presses[k].serial
=============================================================================
