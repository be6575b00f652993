-------------------------------- MODULE Seat --------------------------------
(***************************************************************************)
(* The seat of the Wayland client: keyboard focus, key repeat, dead keys   *)
(* and the input method, pointer focus, button presses and the hidden      *)
(* cursor (wayland/client.rs, pointer.rs), with windows that close or get  *)
(* a dialog in between.                                                    *)
(*                                                                         *)
(* The compositor is external: it gives each focus to one surface at a     *)
(* time, sends a leave before the next enter (for a surface that was       *)
(* destroyed, too), and ends a batch of input method events with Done      *)
(* before it sends anything else.  Surfaces are destroyed when a window is *)
(* dropped; the client forgets the window in a later task, and events for  *)
(* it can still arrive.  Text is told apart by the window in which its     *)
(* composition began; positions, modifiers and scrolling are left out.     *)
(***************************************************************************)
EXTENDS Naturals, FiniteSets

CONSTANTS
    Windows,      \* the application's windows
    Closable,     \* windows that may close
    Blockable,    \* windows that may get a dialog
    Keys,         \* keys of the keyboard
    DeadKeys,     \* those that begin a composition
    Buttons,      \* buttons of the pointer
    TextInput,    \* whether the seat has an input method
    None,         \* no window, key or button
    MaxId         \* bound on the ids of key repeats

\* What the constants have to be; the runs check it.
ConstantsAssumption ==
    /\ Closable \subseteq Windows /\ Blockable \subseteq Windows
    /\ DeadKeys \subseteq Keys
    /\ None \notin Windows \cup Keys \cup Buttons
    /\ Keys \cap Buttons = {}
    /\ TextInput \in BOOLEAN
    /\ MaxId \in Nat

VARIABLES
    windows,    \* the client's windows
    closed,     \* windows that were dropped
    dialogs,    \* windows with a dialog
    surface,    \* compositor: surfaces with the keyboard and the pointer focus
    held,       \* compositor: keys and buttons that are down
    batch,      \* compositor: input method events are sent that lack their Done
    keyboard_focused_window, mouse_focused_window, cursor_hidden_window,
    mouse_location,   \* whether it is known
    button_pressed,
    repeat,     \* KeyRepeat: current_id and current_keycode
    timers,     \* repeat timers of the event loop
    compose,    \* compose_state: the window whose dead key it holds
    pre_edit_text,  \* likewise
    composing, ime_pre_edit,
    marked,     \* windows that show marked text
    stray,      \* text was put into another window than it was composed in
    sent        \* the repeat or press delivered last

windowVars   == <<windows, closed, dialogs>>
pointerVars  == <<mouse_focused_window, cursor_hidden_window, mouse_location, button_pressed>>
repeatVars   == <<repeat, timers>>
textVars     == <<compose, pre_edit_text, composing, ime_pre_edit, marked, stray>>
vars == <<windowVars, surface, held, batch, keyboard_focused_window, pointerVars, repeatVars,
          textVars, sent>>

Init ==
    /\ windows = Windows
    /\ closed = {} /\ dialogs = {}
    /\ surface = [keyboard |-> None, pointer |-> None]
    /\ held = {}
    /\ batch = FALSE
    /\ keyboard_focused_window = None
    /\ mouse_focused_window = None
    /\ cursor_hidden_window = None
    /\ mouse_location = FALSE
    /\ button_pressed = None
    /\ repeat = [current_id |-> 0, current_keycode |-> None]
    /\ timers = {}
    /\ compose = None /\ pre_edit_text = None
    /\ composing = FALSE /\ ime_pre_edit = None
    /\ marked = {}
    /\ stray = FALSE
    /\ sent = None

get_window(w) == w \in windows \ closed
is_blocked(w) == w \in closed \cup dialogs

(***************************************************************************)
(* Windows                                                                 *)
(***************************************************************************)

\* A window is dropped: it is closed at once and forgotten by a task.
Close(w) ==
    /\ w \in Closable \ closed
    /\ closed' = closed \cup {w}
    /\ marked' = marked \ {w}
    /\ sent' = None
    /\ UNCHANGED <<windows, dialogs, surface, held, batch, keyboard_focused_window,
                   pointerVars, repeatVars, compose, pre_edit_text, composing, ime_pre_edit,
                   stray>>

Unless(w, gone) == IF w = gone THEN None ELSE w

drop_window(w) ==
    /\ windows' = windows \ {w}
    /\ keyboard_focused_window' = Unless(keyboard_focused_window, w)
    /\ mouse_focused_window' = Unless(mouse_focused_window, w)
    /\ cursor_hidden_window' = Unless(cursor_hidden_window, w)

DropTask(w) ==
    /\ w \in windows \cap closed
    /\ drop_window(w)
    /\ sent' = None
    /\ UNCHANGED <<closed, dialogs, surface, held, batch, mouse_location, button_pressed,
                   repeatVars, textVars>>

\* A dialog opens on a window, or closes.
Dialog(w) ==
    /\ w \in Blockable \ closed
    /\ dialogs' = (dialogs \ {w}) \cup ({w} \ dialogs)
    /\ sent' = None
    /\ UNCHANGED <<windows, closed, surface, held, batch, keyboard_focused_window,
                   pointerVars, repeatVars, textVars>>

(***************************************************************************)
(* Text: handle_ime is refused by a blocked window.                        *)
(***************************************************************************)

Shows(w) == IF is_blocked(w) THEN marked ELSE marked \cup {w}
Clears(w) == IF is_blocked(w) THEN marked ELSE marked \ {w}

\* Text composed in window o is put into w.
Strays(o, w) == stray \/ (o \notin {None, w} /\ ~is_blocked(w))

(***************************************************************************)
(* Keyboard                                                                *)
(***************************************************************************)

KeyboardEnter(w) ==
    /\ ~batch
    /\ surface.keyboard = None
    /\ w \in windows
    /\ surface' = [surface EXCEPT !.keyboard = w]
    /\ keyboard_focused_window' = IF get_window(w) THEN w ELSE None
    /\ sent' = None
    /\ UNCHANGED <<windowVars, held, batch, pointerVars, repeatVars, textVars>>

\* The input method's leave comes with the keyboard's.
disable_ime == composing' = FALSE

\* Mutant: leave lets repeats go on.
KeyboardLeaveRepeating ==
    LET w == surface.keyboard
    IN /\ ~batch
       /\ w # None
       /\ surface' = [surface EXCEPT !.keyboard = None]
       /\ keyboard_focused_window' = None
       /\ cursor_hidden_window' = None
       /\ IF get_window(w)
          THEN compose' = None /\ pre_edit_text' = None /\ marked' = Clears(w)
          ELSE UNCHANGED <<compose, pre_edit_text, marked>>
       /\ composing' = FALSE
       /\ sent' = None
       /\ UNCHANGED <<windowVars, held, batch, mouse_focused_window, mouse_location,
                      button_pressed, repeatVars, ime_pre_edit, stray>>

\* Leave: repeats end; a composition is given up with the window it was in.
KeyboardLeave ==
    LET w == surface.keyboard
    IN /\ ~batch
       /\ w # None
       /\ repeat.current_id < MaxId
       /\ surface' = [surface EXCEPT !.keyboard = None]
       /\ keyboard_focused_window' = None
       /\ repeat' = [repeat EXCEPT !.current_id = @ + 1]
       /\ cursor_hidden_window' = None
       /\ IF get_window(w)
          THEN compose' = None /\ pre_edit_text' = None /\ marked' = Clears(w)
          ELSE UNCHANGED <<compose, pre_edit_text, marked>>
       /\ disable_ime
       /\ sent' = None
       /\ UNCHANGED <<windowVars, held, batch, mouse_focused_window, mouse_location,
                      button_pressed, timers, ime_pre_edit, stray>>

\* What the compose state makes of a key in window w: a dead key begins a composition;
\* the key after it completes it, or cancels it and is looked at afresh.
Feed(w, k) ==
    \/ /\ compose = None
       /\ IF k \in DeadKeys
          THEN compose' = w /\ pre_edit_text' = w /\ marked' = Shows(w)
          ELSE marked' = Clears(w) /\ UNCHANGED <<compose, pre_edit_text>>
       /\ UNCHANGED stray
    \/ /\ compose # None
       /\ stray' = Strays(compose, w)
       /\ compose' = None /\ pre_edit_text' = None /\ marked' = Clears(w)
    \/ /\ compose # None
       /\ stray' = Strays(pre_edit_text, w)
       /\ LET next == IF k \in DeadKeys THEN w ELSE None
          IN compose' = next /\ pre_edit_text' = next
       /\ marked' = IF k \in DeadKeys THEN Shows(w) ELSE Clears(w)

\* The press of a key that is no modifier: a timer is armed, whatever becomes of the text.
KeyPress(k) ==
    LET w == keyboard_focused_window
        id == repeat.current_id + 1
    IN /\ ~batch
       /\ surface.keyboard # None /\ k \notin held
       /\ held' = held \cup {k}
       /\ IF w = None
          THEN UNCHANGED <<repeatVars, compose, pre_edit_text, marked, stray>>
          ELSE /\ repeat.current_id < MaxId
               /\ Feed(w, k)
               /\ repeat' = [current_id |-> id, current_keycode |-> k]
               /\ timers' = timers \cup {[id |-> id, key |-> k, window |-> w]}
       /\ sent' = None
       /\ UNCHANGED <<windowVars, surface, batch, keyboard_focused_window, pointerVars,
                      composing, ime_pre_edit>>

KeyRelease(k) ==
    /\ ~batch
    /\ surface.keyboard # None /\ k \in held
    /\ held' = held \ {k}
    /\ repeat' = IF keyboard_focused_window # None /\ repeat.current_keycode = k
                 THEN [repeat EXCEPT !.current_keycode = None]
                 ELSE repeat
    /\ sent' = None
    /\ UNCHANGED <<windowVars, surface, batch, keyboard_focused_window, pointerVars, timers,
                   textVars>>

\* Keys that were released while another client had the focus.
ReleasedElsewhere(k) ==
    /\ surface.keyboard = None /\ k \in held
    /\ held' = held \ {k}
    /\ sent' = None
    /\ UNCHANGED <<windowVars, surface, batch, keyboard_focused_window, pointerVars,
                   repeatVars, textVars>>

IsRepeating(t) ==
    /\ t.id = repeat.current_id
    /\ repeat.current_keycode # None
    /\ keyboard_focused_window # None

\* The repeat timer: the key goes to the window that has the focus now.  rate is what
\* the compositor's RepeatInfo said when the key was pressed; 0 is no repeat.
RepeatTimer(t, rate) ==
    /\ t \in timers
    /\ IF IsRepeating(t) /\ rate # 0
       THEN /\ sent' = [event |-> "repeat", timer |-> t, to |-> keyboard_focused_window]
            /\ UNCHANGED timers
       ELSE timers' = timers \ {t} /\ sent' = None
    /\ UNCHANGED <<windowVars, surface, held, batch, keyboard_focused_window, pointerVars,
                   repeat, textVars>>

(***************************************************************************)
(* Input method                                                            *)
(***************************************************************************)

Preedit(text) ==
    /\ TextInput
    /\ ~batch
    /\ surface.keyboard # None
    /\ batch' = TRUE
    /\ composing' = TRUE
    /\ ime_pre_edit' = IF text THEN surface.keyboard ELSE None
    /\ sent' = None
    /\ UNCHANGED <<windowVars, surface, held, keyboard_focused_window, pointerVars,
                   repeatVars, compose, pre_edit_text, marked, stray>>

Commit ==
    /\ TextInput
    /\ ~batch
    /\ surface.keyboard # None
    /\ batch' = TRUE
    /\ composing' = FALSE
    /\ marked' = IF keyboard_focused_window # None THEN Clears(keyboard_focused_window)
                                                   ELSE marked
    /\ sent' = None
    /\ UNCHANGED <<windowVars, surface, held, keyboard_focused_window, pointerVars,
                   repeatVars, compose, pre_edit_text, ime_pre_edit, stray>>

Done ==
    LET w == keyboard_focused_window
    IN /\ batch
       /\ batch' = FALSE
       /\ IF w = None
          THEN UNCHANGED <<composing, ime_pre_edit, marked, stray>>
          ELSE /\ ime_pre_edit' = None
               /\ IF ime_pre_edit # None
                  THEN marked' = Shows(w) /\ stray' = Strays(ime_pre_edit, w) /\ UNCHANGED composing
                  ELSE composing' = FALSE /\ marked' = Clears(w) /\ UNCHANGED stray
       /\ sent' = None
       /\ UNCHANGED <<windowVars, surface, held, keyboard_focused_window, pointerVars,
                      repeatVars, compose, pre_edit_text>>

(***************************************************************************)
(* Pointer                                                                 *)
(***************************************************************************)

PointerEnter(w) ==
    /\ ~batch
    /\ surface.pointer = None
    /\ w \in windows
    /\ surface' = [surface EXCEPT !.pointer = w]
    /\ mouse_location' = TRUE
    /\ button_pressed' = None
    /\ IF get_window(w)
       THEN mouse_focused_window' = w /\ cursor_hidden_window' = None
       ELSE UNCHANGED <<mouse_focused_window, cursor_hidden_window>>
    /\ sent' = None
    /\ UNCHANGED <<windowVars, held, batch, keyboard_focused_window, repeatVars, textVars>>

\* Leave: buttons that are down are released outside.
PointerLeave ==
    /\ ~batch
    /\ surface.pointer # None
    /\ surface' = [surface EXCEPT !.pointer = None]
    /\ held' = held \ Buttons
    /\ IF mouse_focused_window # None
       THEN /\ mouse_focused_window' = None
            /\ mouse_location' = FALSE
            /\ button_pressed' = None
            /\ cursor_hidden_window' = None
       ELSE UNCHANGED pointerVars
    /\ sent' = None
    /\ UNCHANGED <<windowVars, batch, keyboard_focused_window, repeatVars, textVars>>

Motion ==
    /\ ~batch
    /\ surface.pointer # None
    /\ mouse_focused_window # None
    /\ mouse_location' = TRUE
    /\ cursor_hidden_window' = None
    /\ sent' = None
    /\ UNCHANGED <<windowVars, surface, held, batch, keyboard_focused_window,
                   mouse_focused_window, button_pressed, repeatVars, textVars>>

\* A typed key hides the cursor until the mouse moves.
HideCursor ==
    /\ cursor_hidden_window = None
    /\ mouse_focused_window # None
    /\ cursor_hidden_window' = mouse_focused_window
    /\ sent' = None
    /\ UNCHANGED <<windowVars, surface, held, batch, keyboard_focused_window,
                   mouse_focused_window, mouse_location, button_pressed, repeatVars, textVars>>

\* A press that is ignored: nothing under the pointer, or a blocked window.
PressIgnored(b) ==
    /\ ~batch
    /\ surface.pointer # None /\ b \notin held
    /\ mouse_focused_window = None \/ is_blocked(mouse_focused_window)
    /\ held' = held \cup {b}
    /\ sent' = None
    /\ UNCHANGED <<windowVars, surface, batch, keyboard_focused_window, pointerVars,
                   repeatVars, textVars>>

\* Mutant: press_position does not look at the window a second time.
press_position_once(original, gone, shut) == TRUE

\* The window still has the pointer and takes input after the callbacks, in which the
\* windows of gone were closed and those of shut got a dialog.
press_position(original, gone, shut) ==
    original = mouse_focused_window /\ original \notin closed \cup gone \cup dialogs \cup shut

\* A press: the composition of a window that also has the keyboard is ended, in
\* application callbacks, before the press is admitted.
Press(b, gone, shut) ==
    LET w == mouse_focused_window
        ime == keyboard_focused_window = w /\ composing /\ TextInput
        dead == keyboard_focused_window = w /\ ~ime /\ pre_edit_text # None
        admitted == press_position(w, gone, shut)
    IN /\ ~batch
       /\ surface.pointer # None /\ b \notin held
       /\ w # None /\ ~is_blocked(w)
       /\ ~(ime \/ dead) => gone = {} /\ shut = {}
       /\ held' = held \cup {b}
       /\ composing' = (composing /\ ~ime)
       /\ IF dead
          THEN /\ compose' = None
               /\ pre_edit_text' = None
               /\ stray' = Strays(pre_edit_text, w)
          ELSE UNCHANGED <<compose, pre_edit_text, stray>>
       /\ marked' = (IF ime \/ dead THEN marked \ {w} ELSE marked) \ gone
       /\ closed' = closed \cup gone
       /\ dialogs' = dialogs \cup shut
       /\ IF admitted
          THEN /\ button_pressed' = b
               /\ sent' = [event |-> "press", to |-> w,
                           ended |-> IF dead THEN pre_edit_text ELSE None]
          ELSE UNCHANGED button_pressed /\ sent' = None
       /\ UNCHANGED <<windows, surface, batch, keyboard_focused_window, mouse_focused_window,
                      cursor_hidden_window, mouse_location, repeatVars, ime_pre_edit>>

Release(b) ==
    /\ ~batch
    /\ surface.pointer # None /\ b \in held
    /\ held' = held \ {b}
    /\ button_pressed' = None
    /\ sent' = None
    /\ UNCHANGED <<windowVars, surface, batch, keyboard_focused_window, mouse_focused_window,
                   cursor_hidden_window, mouse_location, repeatVars, textVars>>

\* The bound on the ids stops the keyboard.
Stop ==
    /\ repeat.current_id = MaxId
    /\ sent' = None
    /\ UNCHANGED <<windowVars, surface, held, batch, keyboard_focused_window, pointerVars,
                   repeatVars, textVars>>

Next ==
    \/ \E w \in Windows :
          Close(w) \/ DropTask(w) \/ Dialog(w) \/ KeyboardEnter(w) \/ PointerEnter(w)
    \/ \E k \in Keys : KeyPress(k) \/ KeyRelease(k) \/ ReleasedElsewhere(k)
    \/ \E t \in timers, rate \in 0..1 : RepeatTimer(t, rate)
    \/ \E b \in Buttons : PressIgnored(b) \/ Release(b)
    \/ \E b \in Buttons, gone \in SUBSET (Closable \ closed), shut \in SUBSET (Blockable \ closed) :
          Press(b, gone, shut)
    \/ \E text \in BOOLEAN : Preedit(text)
    \/ Commit \/ Done
    \/ KeyboardLeave \/ PointerLeave \/ Motion \/ HideCursor \/ Stop

Spec == Init /\ [][Next]_vars

Timers == [id : 1..MaxId, key : Keys, window : Windows]

TypeOK ==
    /\ windows \subseteq Windows
    /\ closed \subseteq Closable
    /\ dialogs \subseteq Blockable
    /\ surface \in [keyboard : Windows \cup {None}, pointer : Windows \cup {None}]
    /\ held \subseteq Keys \cup Buttons
    /\ batch \in BOOLEAN /\ mouse_location \in BOOLEAN /\ composing \in BOOLEAN /\ stray \in BOOLEAN
    /\ {keyboard_focused_window, mouse_focused_window, cursor_hidden_window}
            \subseteq windows \cup {None}
    /\ button_pressed \in Buttons \cup {None}
    /\ repeat \in [current_id : 0..MaxId, current_keycode : Keys \cup {None}]
    /\ timers \subseteq Timers
    /\ {compose, pre_edit_text, ime_pre_edit} \subseteq Windows \cup {None}
    /\ marked \subseteq Windows

(***************************************************************************)
(* Properties                                                              *)
(***************************************************************************)

\* A key repeats only while it is held, and only in the window it was pressed in: not
\* after a release that came when no window of the client had the focus, nor in the
\* window that gets the focus next, although the timer checks neither.
RepeatsHeldKey ==
    sent # None /\ sent.event = "repeat" => /\ sent.timer.key \in held
                                            /\ sent.timer.window = sent.to

\* At most one timer of those in the loop is still repeating.
OneRepeat == \A t, u \in timers : IsRepeating(t) /\ IsRepeating(u) => t = u

\* The cursor is hidden for the window under the pointer only: hidden for another one
\* it would stay invisible, since the motion that restores it goes to that window.
HiddenUnderPointer == cursor_hidden_window \in {None, mouse_focused_window}

\* While a window has the pointer its position is known: Leave, Motion and Release
\* unwrap it.
PointerHasLocation == mouse_focused_window # None => mouse_location

\* The button a window is told is pressed is down: a release clears it even if it came
\* when the window of the press was gone or blocked.
PressedIsDown ==
    mouse_focused_window # None /\ button_pressed # None => button_pressed \in held

\* A press is delivered only to a window that is open and unblocked after the callbacks
\* that end its composition.
PressIsAdmitted ==
    sent # None /\ sent.event = "press" => sent.to \notin closed \cup dialogs

\* Composed text goes to the window it was composed in.
TextStaysInItsWindow == ~stray

\* Marked text is shown in the window with the keyboard only.
MarkedHasKeyboard == marked \subseteq {keyboard_focused_window}

\* What is typed stays where it was typed; of composed text only while no window closes or gets a
\* dialog.
InputStaysInItsWindow ==
    /\ RepeatsHeldKey /\ OneRepeat
    /\ Closable \cup Blockable = {} => TextStaysInItsWindow /\ MarkedHasKeyboard
=============================================================================
