---------------------------- MODULE MCApplication ---------------------------
(***************************************************************************)
(* What runs on the thread of the application: effects and entities, key   *)
(* bindings and pending input, and the scheduler of tests. Each behaviour  *)
(* is of one part, and the others rest in their initial state.             *)
(***************************************************************************)
EXTENDS Integers, Sequences

CONSTANTS
    Parts,    \* the parts that run, of "entity", "owners", "nulls" and so on
    None, Entities, MaxSubs, MaxCalls,                 \* "entity" and "owners"
    Created,                                           \* "entity": the entities it creates
    OwnersCalls,                                       \* "owners": its bound on calls
    NoContext, Contexts, MaxBindings,                  \* "nulls" and "sequences"
    NullKeys, NullStrokes, NullNames, NullMetas,       \* "nulls"
    SequenceKeys, SequenceStrokes, SequenceNames,      \* "sequences"
    SequenceMetas,
    InputKeys, ModifierKeys, InputStrokes,             \* "ambiguous", "focusing", "modifiers"
    InputKinds, InputContexts, InputBindings, Owners, MaxKeys,
    TappedKeys, TappedBindings, TappedMax,             \* "modifiers"
    a1, a2, b1, c1                                     \* "sessions" and so on: tasks

VARIABLES
    part,   \* the component that runs
    phase, pending_effects, pending_notifications, handles, slot, dropped_entity_ids, batch,
    window_open, subs, iter, calls, got, applied,
    keymap_bindings,
    input_bindings, focus, pending, alive, modifiers, saw_other_input, typed, consumed, dropped,
    since, tapped,
    scheduler_runnables, timers, blocked, clock, is_main, stack, task, polls, awaits, scheduled,
    panicked

effectVars == <<phase, pending_effects, pending_notifications, handles, slot, dropped_entity_ids,
                batch, window_open, subs, iter, calls, got, applied>>
keymapVars == <<keymap_bindings>>
inputVars == <<input_bindings, focus, pending, alive, modifiers, saw_other_input, typed, consumed,
               dropped, since, tapped>>
schedulerVars == <<scheduler_runnables, timers, blocked, clock, is_main, stack, task, polls,
                   awaits, scheduled, panicked>>

Cycle == INSTANCE Effects

Null == INSTANCE Keymap WITH Keys <- NullKeys, MaxStrokes <- NullStrokes,
        Kinds <- {"Action", "NoAction", "Unbind"}, Names <- NullNames, Metas <- NullMetas,
        bindings <- keymap_bindings

Sequence == INSTANCE Keymap WITH Keys <- SequenceKeys, MaxStrokes <- SequenceStrokes,
        Kinds <- {"Action"}, Names <- SequenceNames, Metas <- SequenceMetas,
        bindings <- keymap_bindings

Pending == INSTANCE PendingInput WITH Keys <- InputKeys, MaxStrokes <- InputStrokes,
        Kinds <- InputKinds, Names <- {"Handle", "Pass", "Focus"},
        Metas <- {0}, MaxBindings <- InputBindings, bindings <- input_bindings

\* The bindings of the parts "ambiguous", "focusing" and "modifiers".
AreBound(keys, contexts, kinds, names) ==
    \A i \in DOMAIN input_bindings :
        /\ \A k \in DOMAIN input_bindings[i].keystrokes : input_bindings[i].keystrokes[k] \in keys
        /\ input_bindings[i].context \in contexts
        /\ input_bindings[i].kind \in kinds /\ input_bindings[i].name \in names

Sessions == INSTANCE TestScheduler WITH Local1 <- {a1, a2}, Local2 <- {b1}, Background <- {},
        Randomize <- TRUE, Polls <- 2, MaxTime <- 0, MaxDepth <- 3, Ticks <- 1,
        runnables <- scheduler_runnables

Backgrounds == INSTANCE TestScheduler WITH Local1 <- {a1}, Local2 <- {b1}, Background <- {c1},
        Randomize <- TRUE, Polls <- 2, MaxTime <- 0, MaxDepth <- 3, Ticks <- 1,
        runnables <- scheduler_runnables

Timers == INSTANCE TestScheduler WITH Local1 <- {a1}, Local2 <- {b1}, Background <- {c1},
        Randomize <- TRUE, Polls <- 1, MaxTime <- 2, MaxDepth <- 3, Ticks <- 1,
        runnables <- scheduler_runnables

ASSUME PartsAssumption ==
    /\ Cycle!ConstantsAssumption
    /\ Created \subseteq Entities
    /\ Null!ConstantsAssumption
    /\ Sequence!ConstantsAssumption
    /\ Pending!ConstantsAssumption

vars == <<part, effectVars, keymapVars, inputVars, schedulerVars>>

Init ==
    /\ part \in Parts
    /\ \/ part = "owners" /\ Cycle!Starts(Entities, FALSE)
       \/ part # "owners" /\ Cycle!Starts({}, TRUE)
    /\ \/ part = "sequences" /\ Sequence!Init
       \/ part # "sequences" /\ Null!Init
    /\ Pending!Init
    /\ \/ /\ part = "ambiguous"
          /\ AreBound(InputKeys \ ModifierKeys, InputContexts, InputKinds, {"Handle", "Pass"})
       \/ /\ part = "focusing"
          /\ AreBound(InputKeys \ ModifierKeys, {NoContext, "editor"}, {"Action"}, {"Focus"})
       \/ /\ part = "modifiers"
          /\ AreBound(TappedKeys, {NoContext, "editor"}, {"Action"}, {"Handle"})
          /\ Len(input_bindings) <= TappedBindings
       \/ part \notin {"ambiguous", "focusing", "modifiers"} /\ input_bindings = <<>>
    /\ \/ part = "background" /\ Backgrounds!Init
       \/ part = "timers" /\ Timers!Init
       \/ part \notin {"background", "timers"} /\ Sessions!Init

Next ==
    \/ part = "entity"     /\ Cycle!Next
                           /\ UNCHANGED <<part, keymapVars, inputVars, schedulerVars>>
                           /\ \A e \in Entities \ Created : slot'[e] = slot[e]
    \/ part = "owners"     /\ Cycle!Next
                           /\ calls' <= OwnersCalls
                           /\ UNCHANGED <<part, keymapVars, inputVars, schedulerVars>>
    \/ part = "nulls"      /\ Null!Next
                           /\ UNCHANGED <<part, effectVars, inputVars, schedulerVars>>
    \/ part = "sequences"  /\ Sequence!Next
                           /\ UNCHANGED <<part, effectVars, inputVars, schedulerVars>>
    \/ part = "ambiguous"  /\ Pending!Next
                           /\ modifiers' = {}
                           /\ UNCHANGED <<part, effectVars, keymapVars, schedulerVars>>
    \/ part = "focusing"   /\ Pending!Next
                           /\ modifiers' = {}
                           /\ UNCHANGED <<part, effectVars, keymapVars, schedulerVars>>
    \/ part = "modifiers"  /\ Pending!Next
                           /\ typed' <= TappedMax
                           /\ UNCHANGED <<part, effectVars, keymapVars, schedulerVars>>
    \/ part = "sessions"   /\ Sessions!Next
                           /\ UNCHANGED <<part, effectVars, keymapVars, inputVars>>
    \/ part = "background" /\ Backgrounds!Next
                           /\ UNCHANGED <<part, effectVars, keymapVars, inputVars>>
    \/ part = "timers"     /\ Timers!Next
                           /\ UNCHANGED <<part, effectVars, keymapVars, inputVars>>

Spec == Init /\ [][Next]_vars

-----------------------------------------------------------------------------
(* Properties, each of the part it is about and with its type invariant.   *)

\* A subscriber hears what is raised after it subscribed, all of it, once and in order, until it is
\* dropped and not after, although callbacks raise effects, subscribe and drop in the meantime.
NoneMissed ==
    [][/\ Cycle!NoneMissed' /\ Cycle!HeardInOrder' /\ Cycle!NoSubscriberLost' /\ Cycle!NotifyOnce'
       /\ Cycle!NotCalledAfterDrop]_effectVars

\* An entity is released once, when its last handle is gone, and an update returns only when all
\* that it raised has been applied.
ReleasedOnce ==
    part \in {"entity", "owners"} =>
        Cycle!TypeOK /\ Cycle!ReleasedOnce /\ Cycle!FlushedWhenOutside

\* Keystrokes wait for longer ones exactly if these would run something, where the nulls and unbinds
\* of the longer ones are in order: each comes after what it disables, by position as by depth. (Out
\* of order, bindings_for_input errs both ways: a null of a shallower context that was added later
\* stops the wait for keystrokes that would run, one of a deeper context that was added earlier does
\* not stop it for keystrokes that run nothing.) What keystrokes run is what is shown for its
\* action, and a null of a weaker source leaves a user's binding alone, in any order.
ReachableIsPending ==
    /\ part = "sequences" => Sequence!TypeOK /\ Sequence!ReachableIsPending
    /\ part = "nulls" => /\ Null!TypeOK /\ Null!ReachableIsPending
                         /\ Null!RunningIsShown /\ Null!UserBindingApplies

\* Pending input is for the focus; no keystroke is lost or used twice; a tapped modifier was alone;
\* and unless a replayed binding moves the focus, pending input can still complete a binding where
\* the focus is, if the nulls of that binding's keystrokes are in order, and has a timeout if it
\* could run something already.
StillCompletes ==
    part \in {"ambiguous", "focusing", "modifiers"} =>
        /\ Pending!TypeOK /\ Pending!PauseOwnerAlive /\ Pending!PendingHasFocus
        /\ Pending!KeystrokesAccounted /\ Pending!TapIsAlone
        /\ part # "focusing" => Pending!StillCompletes /\ Pending!AmbiguousHasTimeout

\* Tasks of a session run in order and not inside a call that blocks it, the flag of the main
\* thread is right after nested calls, a test panics only if it is stuck, and the clock moves past
\* no timer.
SessionOrder ==
    [][/\ part = "sessions" => /\ Sessions!TypeOK' /\ Sessions!SessionOrder'
                               /\ Sessions!BlockedIsStill' /\ Sessions!MainIsForeground'
       /\ part = "background" => /\ Backgrounds!TypeOK' /\ Backgrounds!SessionOrder'
                                 /\ Backgrounds!BlockedIsStill' /\ Backgrounds!MainIsForeground'
                                 /\ Backgrounds!PanicIsStuck'
       /\ part = "timers" => /\ Timers!TypeOK' /\ Timers!MainIsForeground' /\ Timers!PanicIsStuck'
                             /\ Timers!ClockInOrder]_schedulerVars
=============================================================================
