---------------------------- MODULE PendingInput ----------------------------
(***************************************************************************)
(* Keystrokes of a window on their way to key bindings (gpui/src/window.rs *)
(* dispatch_key_event, gpui/src/key_dispatch.rs dispatch_key): input that  *)
(* a longer binding might complete is pending, for one focus and perhaps   *)
(* with a timeout, which owners may pause; input that nothing completes is *)
(* replayed, which may run bindings that move the focus.                   *)
(*                                                                         *)
(* The keymap is any one of a bounded number of bindings.  An action       *)
(* "Handle" is handled, "Pass" propagates, "Focus" focuses the panel.      *)
(***************************************************************************)
EXTENDS Naturals, Sequences, FiniteSetsExt

CONSTANTS
    Keys, MaxStrokes, Contexts, NoContext, Kinds, Names, Metas, MaxBindings,   \* of Keymap
    ModifierKeys,  \* modifiers, keystrokes when tapped alone
    Owners,        \* entities that pause timeouts
    MaxKeys        \* bound on the keystrokes

VARIABLES
    bindings,         \* Keymap::bindings
    focus,            \* Window::focus
    pending,          \* Window::pending_input
    alive,            \* owners that are not released
    modifiers,        \* pending_modifier.modifiers
    saw_other_input,  \* pending_modifier.saw_other_input
    typed,            \* number of keystrokes so far
    consumed,         \* of these, the ones that ran bindings or went on as key events
    dropped,          \* and the ones dropped with their pending input
    since,            \* inputs since no modifier was down
    tapped            \* what these were when the last modifier keystroke was made

\* What the constants have to be; the runs check it.
ConstantsAssumption ==
    /\ {MaxStrokes, MaxBindings, MaxKeys} \subseteq Nat
    /\ ModifierKeys \subseteq Keys /\ IsFiniteSet(ModifierKeys)
    /\ {"none", "running"} \cap Owners = {}
    /\ Kinds \subseteq {"Action", "NoAction", "Unbind"}

counters == <<typed, consumed, dropped>>
modifiervars == <<modifiers, saw_other_input, since, tapped>>
vars == <<bindings, focus, pending, alive, counters, modifiervars>>

K == INSTANCE Keymap

Foci == {"editor", "panel", "nothing"}
Stack(f) == IF f = "editor" THEN <<"workspace", "editor">> ELSE <<"workspace">>

NoPending == [keystrokes |-> <<>>, focus |-> "none", timeout |-> "none"]

Init ==
    /\ \E n \in 0..MaxBindings : bindings \in [1..n -> K!Binding]
    /\ focus = "editor"
    /\ pending = NoPending
    /\ alive = Owners
    /\ modifiers = {}
    /\ saw_other_input = FALSE
    /\ typed = 0
    /\ consumed = 0
    /\ dropped = 0
    /\ since = {}
    /\ tapped = {}

-----------------------------------------------------------------------------
(* DispatchTree.                                                           *)

\* replay_prefix: the longest prefix that bindings match, or else the first keystroke.
ReplayPrefix(input, stack) ==
    LET bound == {n \in 1..Len(input) : K!Found(SubSeq(input, 1, n), stack) # {}}
        n == IF bound = {} THEN 1 ELSE Max(bound)
    IN [length |-> n, found |-> K!Found(SubSeq(input, 1, n), stack)]

\* What is left of the input when its first n keystrokes are replayed.
After(input, n) == SubSeq(input, n + 1, Len(input))

\* Input is settled when it might be completed, runs bindings, or is a single keystroke.
Settled(full, stack) == K!IsPending(full, stack) \/ K!Found(full, stack) # {} \/ Len(full) = 1

\* Then it is pending, or it runs its bindings or goes on as a key event.
Settle(full, stack) ==
    LET found == K!Found(full, stack)
    IN IF K!IsPending(full, stack)
       THEN [pending |-> full, has |-> found # {}, found |-> {}, used |-> 0, replays |-> <<>>]
       ELSE [pending |-> <<>>, has |-> FALSE, found |-> found, used |-> Len(full),
             replays |-> <<>>]

\* Otherwise a prefix of it is replayed first.
Replaying(p, result) == [result EXCEPT !.replays = <<p>> \o @]

\* dispatch_key: the bindings to run, the new pending input and what is to be replayed. The
\* function is that of the calls it makes of itself, on what is left.
dispatch_key(input, keystroke, stack) ==
    LET dispatch[n \in 0..Len(input)] ==
            LET full == Append(After(input, n), keystroke)
                p == ReplayPrefix(After(input, n), stack)
            IN IF Settled(full, stack) THEN Settle(full, stack)
               ELSE Replaying(p, dispatch[n + p.length])
    IN dispatch[0]

\* flush_dispatch
flush_dispatch(input, stack) ==
    LET flush[n \in 0..Len(input)] ==
            LET p == ReplayPrefix(After(input, n), stack)
            IN IF n = Len(input) THEN <<>> ELSE <<p>> \o flush[n + p.length]
    IN flush[0]

Replayed(replays) ==
    LET total[i \in 0..Len(replays)] == IF i = 0 THEN 0 ELSE total[i - 1] + replays[i].length
    IN total[Len(replays)]

-----------------------------------------------------------------------------
(* Running bindings: in the order of precedence, until one is handled.     *)

FocusAfter(found, f, stack) ==
    LET stopping == {i \in found : bindings[i].name # "Pass"}
        first == {i \in stopping : \A j \in stopping \ {i} : K!Precedes(i, j, stack)}
    IN IF \E i \in first : bindings[i].name = "Focus" THEN "panel" ELSE f

\* replay_pending_input, on the node that was focused before.
FocusAfterReplay(replays, f, stack) ==
    LET after[i \in 0..Len(replays)] ==
            IF i = 0 THEN f ELSE FocusAfter(replays[i].found, after[i - 1], stack)
    IN after[Len(replays)]

-----------------------------------------------------------------------------
(* Window.                                                                 *)

\* The timeout of pending input after another keystroke: a paused one stays paused, and text
\* that an input handler would take needs one.
TimeoutOf(has, text) ==
    IF pending.timeout \in Owners THEN pending.timeout
    ELSE IF pending.timeout # "none" \/ has \/ text THEN "running" ELSE "none"

\* What dispatch_key_event does with what dispatch_key returned, once replays have left the focus
\* at f.
Dispatched(result, f, stack, text, prefer) ==
    /\ typed < MaxKeys
    /\ typed' = typed + 1
    /\ consumed' = consumed + Replayed(result.replays) + result.used
    /\ IF result.pending # <<>>
       THEN /\ pending' = [keystrokes |-> result.pending, focus |-> f,
                           timeout |-> TimeoutOf(result.has, text)]
            /\ focus' = f
       ELSE /\ pending' = NoPending
            /\ focus' = FocusAfter(IF prefer THEN {} ELSE result.found, f, stack)
    /\ UNCHANGED <<bindings, alive, dropped>>

\* dispatch_key_event with a keystroke that no interceptor stops: an input handler accepts its
\* text, and may be preferred to bindings.
DispatchKeystroke(keystroke, text, prefer) ==
    LET stack == Stack(focus)
        result == dispatch_key(pending.keystrokes, keystroke, stack)
    IN Dispatched(result, FocusAfterReplay(result.replays, focus, stack), stack, text, prefer)

\* An interceptor stops the keystroke.
Intercepted == UNCHANGED <<bindings, focus, pending, alive, counters>>

\* A KeyDownEvent.
KeyDown(keystroke, text, prefer) ==
    /\ saw_other_input' = TRUE
    /\ since' = IF modifiers = {} THEN {} ELSE since \cup {keystroke}
    /\ Intercepted \/ DispatchKeystroke(keystroke, text, prefer)
    /\ UNCHANGED <<modifiers, tapped>>

\* The modifier that is a keystroke when the last one is released.
Tapped(new) ==
    IF new = {} /\ Cardinality(modifiers) = 1 /\ ~saw_other_input THEN modifiers ELSE {}

SawOther(new) ==
    IF modifiers = {} /\ Cardinality(new) = 1 THEN FALSE
    ELSE Cardinality(new) > 1 \/ saw_other_input

\* A ModifiersChangedEvent: modifiers go down and up one at a time.
ModifiersChanged(new) ==
    /\ Cardinality((new \ modifiers) \cup (modifiers \ new)) = 1
    /\ modifiers' = new
    /\ saw_other_input' = SawOther(new)
    /\ since' = IF new = {} THEN {} ELSE since \cup new
    /\ IF Tapped(new) = {}
       THEN UNCHANGED <<bindings, focus, pending, alive, counters, tapped>>
       ELSE /\ tapped' = since
            /\ \E m \in Tapped(new) : Intercepted \/ DispatchKeystroke(m, FALSE, FALSE)

\* Mutant: a change of focus keeps the input that is pending.
FocusKeeping(f) ==
    /\ f # focus
    /\ focus' = f
    /\ UNCHANGED <<bindings, alive, pending, counters, modifiervars>>

Forget ==
    /\ pending' = NoPending
    /\ dropped' = dropped + Len(pending.keystrokes)
    /\ UNCHANGED <<bindings, alive, typed, consumed, modifiervars>>

\* Window::focus, by a click or a task.
Focus(f) ==
    /\ f # focus
    /\ focus' = f
    /\ Forget

Blur ==
    /\ focus' = "nothing"
    /\ Forget

\* clear_pending_keystrokes, when an application menu opens.
ClearPending ==
    /\ pending # NoPending
    /\ Forget
    /\ UNCHANGED focus

\* The task of start_pending_input_timeout: pending input is flushed and replayed.
TimeoutEnds ==
    /\ pending.timeout = "running"
    /\ LET replays == flush_dispatch(pending.keystrokes, Stack(focus))
       IN /\ focus' = FocusAfterReplay(replays, focus, Stack(focus))
          /\ consumed' = consumed + Replayed(replays)
    /\ pending' = NoPending
    /\ UNCHANGED <<bindings, alive, typed, dropped, modifiervars>>

\* set_pending_input_timeout_paused
Pause(owner) ==
    /\ owner \in alive
    /\ pending.timeout = "running"
    /\ pending' = [pending EXCEPT !.timeout = owner]
    /\ UNCHANGED <<bindings, focus, alive, counters, modifiervars>>

Resume(owner) ==
    /\ owner \in alive
    /\ pending.timeout = owner
    /\ pending' = [pending EXCEPT !.timeout = "running"]
    /\ UNCHANGED <<bindings, focus, alive, counters, modifiervars>>

\* The release of an owner, which the pause observes.
Release(owner) ==
    /\ owner \in alive
    /\ alive' = alive \ {owner}
    /\ pending' = IF pending.timeout = owner THEN [pending EXCEPT !.timeout = "running"]
                  ELSE pending
    /\ UNCHANGED <<bindings, focus, counters, modifiervars>>

Next ==
    \/ \E k \in Keys \ ModifierKeys, text \in BOOLEAN, prefer \in BOOLEAN :
           (prefer => text) /\ KeyDown(k, text, prefer)
    \/ \E m \in SUBSET ModifierKeys : ModifiersChanged(m)
    \/ \E f \in {"editor", "panel"} : Focus(f)
    \/ Blur
    \/ ClearPending
    \/ TimeoutEnds
    \/ \E o \in Owners : Pause(o) \/ Resume(o) \/ Release(o)

Spec == Init /\ [][Next]_vars

-----------------------------------------------------------------------------
(* Properties.                                                             *)

TypeOK ==
    /\ focus \in Foci
    /\ pending.keystrokes \in Seq(Keys)
    /\ pending.keystrokes = <<>> <=> pending = NoPending
    /\ pending.focus \in Foci \cup {"none"}
    /\ pending.timeout \in {"none", "running"} \cup Owners
    /\ alive \subseteq Owners
    /\ modifiers \subseteq ModifierKeys
    /\ saw_other_input \in BOOLEAN

\* Input is pending for the focus, whatever changed the focus and whenever, replayed bindings
\* too (focus, blur, dispatch_key_event).
PendingHasFocus == pending # NoPending => pending.focus = focus

\* No keystroke is lost and none is used twice: each is pending, was dropped with its focus,
\* or went on, once, in a replay or with its binding (dispatch_key, replay_prefix,
\* flush_dispatch).
KeystrokesAccounted == typed = consumed + dropped + Len(pending.keystrokes)

\* Pending input can still complete a binding of several keystrokes in the context of the
\* focus it is pending for, if the disabled bindings of these keystrokes are in order
\* (pending_input: "Returns pending input that can still complete a multi-stroke key binding"; a
\* null of a deeper context that was added earlier leaves input pending for nothing).
StillCompletes ==
    pending # NoPending =>
        \E s \in K!PendingStrokes(pending.keystrokes, Stack(focus)) :
            K!DisabledInOrder(s, Stack(focus)) => K!Found(s, Stack(focus)) # {}

\* Pending input that runs something as it is has a timeout, running or paused: it cannot wait
\* for a keystroke that never comes (dispatch_key_event, pending_has_binding).
AmbiguousHasTimeout ==
    pending # NoPending /\ K!Found(pending.keystrokes, Stack(focus)) # {} =>
        pending.timeout # "none"

\* A timeout is paused only for an owner that lives (set_pending_input_timeout_paused: "A
\* paused timeout resumes automatically if `owner` is released").
PauseOwnerAlive == pending.timeout \in Owners => pending.timeout \in alive

\* A modifier is a keystroke only if nothing else was pressed while it was down
\* (dispatch_key_event, saw_other_input).
TapIsAlone == Cardinality(tapped) <= 1
=============================================================================
