------------------------------- MODULE Effects -------------------------------
(***************************************************************************)
(* The effect cycle of an application (gpui/src/app.rs, subscription.rs,   *)
(* app/entity_map.rs, app/context.rs): effects queued by running code and  *)
(* applied when the outermost update ends, subscriptions that come and go  *)
(* inside the callbacks they are called from, and entities released when   *)
(* their last handle is dropped.                                           *)
(*                                                                         *)
(* Application code runs in an update, in callbacks and in deferred        *)
(* closures; each of its calls is a step.  Handles may be dropped by other *)
(* threads at any time.  calls numbers the calls that matter to order.     *)
(***************************************************************************)
EXTENDS Naturals, Sequences, FiniteSets

CONSTANTS
    Entities,     \* the entities the application works with
    None,         \* no entity, no subscriber
    MaxSubs,      \* bound on subscriptions
    MaxCalls      \* bound on numbered calls

\* What the constants have to be; the runs check it.
ConstantsAssumption ==
    /\ None \notin Entities
    /\ MaxSubs \in Nat
    /\ MaxCalls \in Nat

SubIds == 1..MaxSubs

VARIABLES
    phase,                  \* what the main thread is doing
    pending_effects,        \* the effect queue
    pending_notifications,  \* emitters with a Notify in the queue
    handles,                \* strong handles of each entity
    slot,                   \* unused, live, dropped (in dropped_entity_ids), released
    dropped_entity_ids,     \* entities without handles, not yet taken
    batch,                  \* what take_dropped returned, still to release
    window_open,            \* the window is in App::windows
    subs,                   \* subscriptions made so far
    iter,                   \* the retain or remove in progress
    calls,                  \* numbered calls so far
    got,                    \* events each subscriber was called with
    applied                 \* notifications and events that were applied

vars == <<phase, pending_effects, pending_notifications, handles, slot, dropped_entity_ids,
          batch, window_open, subs, iter, calls, got, applied>>

NoIter == [kind |-> "", emitter |-> None, stamp |-> 0, left |-> {}, sub |-> 0]

\* Before the first update some entities exist, and a window may be open.
Starts(existing, open) ==
    /\ phase = "outside"
    /\ pending_effects = <<>>
    /\ pending_notifications = {}
    /\ handles = [e \in Entities |-> IF e \in existing THEN 1 ELSE 0]
    /\ slot = [e \in Entities |-> IF e \in existing THEN "live" ELSE "unused"]
    /\ dropped_entity_ids = <<>>
    /\ batch = <<>>
    /\ window_open = open
    /\ subs = <<>>
    /\ iter = NoIter
    /\ calls = 0
    /\ got = [s \in SubIds |-> <<>>]
    /\ applied = {}

Init == \E existing \in SUBSET Entities, open \in BOOLEAN : Starts(existing, open)

AppCode == phase \in {"update", "callback", "deferred", "created", "releasing"}

Numbered == calls < MaxCalls /\ calls' = calls + 1

Effect(kind, e, n, in_window) == [kind |-> kind, emitter |-> e, n |-> n, in_window |-> in_window]

-----------------------------------------------------------------------------
(* Handles *)

Two(e, o) == [x \in Entities |-> (IF x = e THEN 1 ELSE 0) + (IF x = o THEN 1 ELSE 0)]

\* Mutant: an entity is queued for release with one handle left.
DropHandlesAgain(e, o) ==
    LET last(x) == x # None /\ handles[x] <= Two(e, o)[x] + 1
    IN  /\ handles' = [x \in Entities |-> handles[x] - Two(e, o)[x]]
        /\ slot' = [x \in Entities |-> IF x \in {e, o} /\ last(x) THEN "dropped" ELSE slot[x]]
        /\ dropped_entity_ids' = dropped_entity_ids
              \o (IF last(e) THEN <<e>> ELSE <<>>)
              \o (IF o # e /\ last(o) THEN <<o>> ELSE <<>>)

\* A handle of e is dropped and then one of o (None: no handle; o may be e again).
\* The last handle of an entity queues it for release.
DropHandles(e, o) ==
    LET last(x) == x # None /\ handles[x] = Two(e, o)[x]
    IN  /\ handles' = [x \in Entities |-> handles[x] - Two(e, o)[x]]
        /\ slot' = [x \in Entities |-> IF x \in {e, o} /\ last(x) THEN "dropped" ELSE slot[x]]
        /\ dropped_entity_ids' = dropped_entity_ids
              \o (IF last(e) THEN <<e>> ELSE <<>>)
              \o (IF o # e /\ last(o) THEN <<o>> ELSE <<>>)

\* Handles in the effect queue and on the stack of the flush.
Held(e) ==
    Cardinality({i \in DOMAIN pending_effects :
                    pending_effects[i].kind = "created" /\ pending_effects[i].emitter = e})
    + CASE phase = "callback"  -> Two(iter.emitter, subs[iter.sub].owner)[e]
        [] phase = "created"   -> Two(iter.emitter, None)[e]
        [] phase = "releasing" -> Two(subs[iter.sub].owner, None)[e]
        [] OTHER -> 0

\* Drop for AnyEntity, by the application or by another thread.
DropHandle(e) ==
    /\ phase # "panicked"
    /\ handles[e] > Held(e)
    /\ DropHandles(e, None)
    /\ UNCHANGED <<phase, pending_effects, pending_notifications, batch, window_open, subs,
                   iter, calls, got, applied>>

-----------------------------------------------------------------------------
(* What application code does *)

\* App::update at the outermost level.
BeginUpdate ==
    /\ phase = "outside"
    /\ phase' = "update"
    /\ UNCHANGED <<pending_effects, pending_notifications, handles, slot, dropped_entity_ids,
                   batch, window_open, subs, iter, calls, got, applied>>

\* AppContext::new: a handle for the caller and one in the EntityCreated effect,
\* which remembers the window it was created in, if any.
New(e, in_window) ==
    /\ AppCode
    /\ slot[e] = "unused"
    /\ in_window => window_open
    /\ Numbered
    /\ slot' = [slot EXCEPT ![e] = "live"]
    /\ handles' = [handles EXCEPT ![e] = 2]
    /\ pending_effects' = Append(pending_effects, Effect("created", e, calls, in_window))
    /\ UNCHANGED <<phase, pending_notifications, dropped_entity_ids, batch, window_open,
                   subs, iter, got, applied>>

\* push_effect with a Notify: one per emitter is queued.
Notify(e) ==
    /\ AppCode
    /\ handles[e] > 0
    /\ e \notin pending_notifications
    /\ Numbered
    /\ pending_notifications' = pending_notifications \cup {e}
    /\ pending_effects' = Append(pending_effects, Effect("notify", e, calls, FALSE))
    /\ UNCHANGED <<phase, handles, slot, dropped_entity_ids, batch, window_open, subs, iter,
                   got, applied>>

Emit(e) ==
    /\ AppCode
    /\ handles[e] > 0
    /\ Numbered
    /\ pending_effects' = Append(pending_effects, Effect("emit", e, calls, FALSE))
    /\ UNCHANGED <<phase, pending_notifications, handles, slot, dropped_entity_ids, batch,
                   window_open, subs, iter, got, applied>>

Defer ==
    /\ AppCode
    /\ Numbered
    /\ pending_effects' = Append(pending_effects, Effect("defer", None, calls, FALSE))
    /\ UNCHANGED <<phase, pending_notifications, handles, slot, dropped_entity_ids, batch,
                   window_open, subs, iter, got, applied>>

\* SubscriberSet::insert; owner is the entity a Context method subscribes for.
Inserted(kind, e, owner, active) ==
    /\ AppCode
    /\ handles[e] > 0
    /\ owner # None => handles[owner] > 0
    /\ Len(subs) < MaxSubs
    /\ Numbered
    /\ subs' = Append(subs, [kind |-> kind, emitter |-> e, owner |-> owner, since |-> calls,
                             active |-> active, dropped |-> FALSE, where |-> "map"])
    /\ UNCHANGED <<phase, pending_notifications, handles, slot, dropped_entity_ids, batch,
                   window_open, iter, got, applied>>

\* observe and subscribe activate the subscription with a deferred closure.
Subscribe(kind, e, owner) ==
    /\ kind # "release"
    /\ Inserted(kind, e, owner, FALSE)
    /\ pending_effects' = Append(pending_effects, Effect("activate", None, Len(subs) + 1, FALSE))

\* observe_release and on_release activate it at once.
ObserveRelease(e, owner) ==
    Inserted("release", e, owner, TRUE) /\ UNCHANGED pending_effects

\* Drop for Subscription.  While retain or remove holds the subscribers of the
\* emitter, only the flag is set.
Unsubscribe(s) ==
    /\ AppCode \/ phase = "dropping"
    /\ ~subs[s].dropped
    /\ subs' = [subs EXCEPT ![s].dropped = TRUE,
                            ![s].where = IF @ = "map" THEN "gone" ELSE @]
    /\ UNCHANGED <<phase, pending_effects, pending_notifications, handles, slot,
                   dropped_entity_ids, batch, window_open, iter, calls, got, applied>>

\* update_window_erased with a closure that calls remove_window.
RemoveWindow ==
    /\ AppCode
    /\ window_open
    /\ window_open' = FALSE
    /\ UNCHANGED <<phase, pending_effects, pending_notifications, handles, slot,
                   dropped_entity_ids, batch, subs, iter, calls, got, applied>>

\* finish_update of the outermost update; inner updates return to it.
FinishUpdate ==
    /\ phase = "update"
    /\ phase' = "flush"
    /\ UNCHANGED <<pending_effects, pending_notifications, handles, slot, dropped_entity_ids,
                   batch, window_open, subs, iter, calls, got, applied>>

-----------------------------------------------------------------------------
(* release_dropped_entities *)

TakeDropped ==
    /\ phase = "flush"
    /\ batch = <<>>
    /\ dropped_entity_ids # <<>>
    /\ batch' = dropped_entity_ids
    /\ dropped_entity_ids' = <<>>
    /\ slot' = [e \in Entities |->
                  IF \E i \in DOMAIN dropped_entity_ids : dropped_entity_ids[i] = e
                  THEN "released" ELSE slot[e]]
    /\ UNCHANGED <<phase, pending_effects, pending_notifications, handles, window_open, subs,
                   iter, calls, got, applied>>

\* Observers and listeners of the entity go; its active release listeners are
\* taken out of their set to be called.
ReleaseEntity ==
    LET e == Head(batch)
        release == {s \in DOMAIN subs : /\ subs[s].kind = "release"
                                        /\ subs[s].emitter = e
                                        /\ subs[s].where = "map"}
    IN  /\ phase = "flush"
        /\ batch # <<>>
        /\ subs' = [s \in DOMAIN subs |->
                      IF s \in release THEN [subs[s] EXCEPT !.where = "taken"]
                      ELSE IF subs[s].emitter = e THEN [subs[s] EXCEPT !.where = "gone"]
                      ELSE subs[s]]
        /\ iter' = [NoIter EXCEPT !.emitter = e, !.left = release]
        /\ phase' = "release"
        /\ UNCHANGED <<pending_effects, pending_notifications, handles, slot,
                       dropped_entity_ids, batch, window_open, calls, got, applied>>

First(S) == CHOOSE s \in S : \A t \in S : s <= t

\* The next release listener is called, by its id.  If it belongs to an entity that
\* is gone it does nothing.
CallRelease ==
    LET s == First(iter.left)
        o == subs[s].owner
        runs == o # None => handles[o] > 0
    IN  /\ phase = "release"
        /\ iter.left # {}
        /\ subs' = [subs EXCEPT ![s].where = "gone"]
        /\ iter' = [iter EXCEPT !.left = @ \ {s}, !.sub = s]
        /\ phase' = IF runs THEN "releasing" ELSE "release"
        /\ handles' = [x \in Entities |-> IF runs /\ x = o THEN handles[x] + 1 ELSE handles[x]]
        /\ UNCHANGED <<pending_effects, pending_notifications, slot, dropped_entity_ids,
                       batch, window_open, calls, got, applied>>

ReleaseReturn ==
    /\ phase = "releasing"
    /\ phase' = "release"
    /\ DropHandles(subs[iter.sub].owner, None)
    /\ UNCHANGED <<pending_effects, pending_notifications, batch, window_open, subs, iter,
                   calls, got, applied>>

\* The entity itself is dropped after its listeners, with the handles and
\* subscriptions it owns.
ReleaseDrop ==
    /\ phase = "release"
    /\ iter.left = {}
    /\ phase' = "dropping"
    /\ UNCHANGED <<pending_effects, pending_notifications, handles, slot, dropped_entity_ids,
                   batch, window_open, subs, iter, calls, got, applied>>

ReleaseNext ==
    /\ phase = "dropping"
    /\ phase' = "flush"
    /\ batch' = Tail(batch)
    /\ iter' = NoIter
    /\ UNCHANGED <<pending_effects, pending_notifications, handles, slot, dropped_entity_ids,
                   window_open, subs, calls, got, applied>>

-----------------------------------------------------------------------------
(* flush_effects *)

Ready(kind) ==
    /\ phase = "flush"
    /\ batch = <<>>
    /\ dropped_entity_ids = <<>>
    /\ pending_effects # <<>>
    /\ Head(pending_effects).kind = kind
    /\ pending_effects' = Tail(pending_effects)

\* retain takes the subscribers of the emitter out of the set.
Taken(kind, e) == {s \in DOMAIN subs : /\ subs[s].kind = kind
                                       /\ subs[s].emitter = e
                                       /\ subs[s].where = "map"}

StartRetain(kind, eff) ==
    /\ subs' = [s \in DOMAIN subs |->
                  IF s \in Taken(kind, eff.emitter) THEN [subs[s] EXCEPT !.where = "taken"]
                  ELSE subs[s]]
    /\ iter' = [kind |-> kind, emitter |-> eff.emitter, stamp |-> eff.n,
                left |-> Taken(kind, eff.emitter), sub |-> 0]
    /\ phase' = "retain"

ApplyNotify ==
    LET eff == Head(pending_effects)
    IN  /\ Ready("notify")
        /\ pending_notifications' = pending_notifications \ {eff.emitter}
        /\ StartRetain("observer", eff)
        /\ UNCHANGED <<handles, slot, dropped_entity_ids, batch, window_open, calls, got, applied>>

ApplyEmit ==
    LET eff == Head(pending_effects)
    IN  /\ Ready("emit")
        /\ StartRetain("listener", eff)
        /\ UNCHANGED <<pending_notifications, handles, slot, dropped_entity_ids, batch,
                       window_open, calls, got, applied>>

ApplyActivate ==
    /\ Ready("activate")
    /\ subs' = [subs EXCEPT ![Head(pending_effects).n].active = TRUE]
    /\ UNCHANGED <<phase, pending_notifications, handles, slot, dropped_entity_ids, batch,
                   window_open, iter, calls, got, applied>>

ApplyDefer ==
    /\ Ready("defer")
    /\ phase' = "deferred"
    /\ UNCHANGED <<pending_notifications, handles, slot, dropped_entity_ids, batch,
                   window_open, subs, iter, calls, got, applied>>

\* apply_entity_created_effect with one observer of the type: it is called in the
\* window the entity was created in, and the expect fails if that is closed.
ApplyCreated ==
    LET eff == Head(pending_effects)
    IN  /\ Ready("created")
        /\ phase' = IF eff.in_window /\ ~window_open THEN "panicked" ELSE "created"
        /\ iter' = [NoIter EXCEPT !.emitter = eff.emitter]
        /\ UNCHANGED <<pending_notifications, handles, slot, dropped_entity_ids, batch,
                       window_open, subs, calls, got, applied>>

\* The closure of retain: inactive subscribers stay, dropped ones go.
Skip(s) ==
    /\ phase' = phase
    /\ subs' = [subs EXCEPT ![s].where = IF subs[s].active THEN "gone" ELSE "taken"]
    /\ UNCHANGED <<handles, got>>

\* The handler upgrades the emitter and the entity it belongs to, or is removed.
Invoke(s) ==
    LET e == subs[s].emitter
        o == subs[s].owner
        alive == handles[e] > 0 /\ (o # None => handles[o] > 0)
    IN  IF alive
        THEN /\ phase' = "callback"
             /\ handles' = [x \in Entities |-> handles[x] + Two(e, o)[x]]
             /\ got' = [got EXCEPT ![s] = Append(@, iter.stamp)]
             /\ UNCHANGED subs
        ELSE /\ phase' = phase
             /\ subs' = [subs EXCEPT ![s].where = "gone"]
             /\ UNCHANGED <<handles, got>>

\* Mutant: the iteration steps over the subscriber after the one it calls.
RetainNextSkippingOne ==
    LET s == First(iter.left)
        rest == iter.left \ {s}
    IN  /\ phase = "retain"
        /\ iter.left # {}
        /\ iter' = [iter EXCEPT !.left = IF rest = {} THEN {} ELSE rest \ {First(rest)},
                                !.sub = s]
        /\ IF ~subs[s].active \/ subs[s].dropped THEN Skip(s) ELSE Invoke(s)
        /\ UNCHANGED <<pending_effects, pending_notifications, slot, dropped_entity_ids, batch,
                       window_open, calls, applied>>

RetainNext ==
    LET s == First(iter.left)
    IN  /\ phase = "retain"
        /\ iter.left # {}
        /\ iter' = [iter EXCEPT !.left = @ \ {s}, !.sub = s]
        /\ IF ~subs[s].active \/ subs[s].dropped THEN Skip(s) ELSE Invoke(s)
        /\ UNCHANGED <<pending_effects, pending_notifications, slot, dropped_entity_ids, batch,
                       window_open, calls, applied>>

\* The handler returns, the handles it upgraded are dropped, and the subscriber goes
\* if it was dropped meanwhile.
CallbackReturn ==
    LET s == iter.sub
    IN  /\ phase = "callback"
        /\ phase' = "retain"
        /\ DropHandles(subs[s].emitter, subs[s].owner)
        /\ subs' = [subs EXCEPT ![s].where = IF subs[s].dropped THEN "gone" ELSE @]
        /\ UNCHANGED <<pending_effects, pending_notifications, batch, window_open, iter, calls,
                       got, applied>>

\* Who is left is put back beside the subscribers inserted meanwhile.
RetainEnd ==
    /\ phase = "retain"
    /\ iter.left = {}
    /\ phase' = "flush"
    /\ subs' = [s \in DOMAIN subs |->
                  [subs[s] EXCEPT !.where = IF @ = "taken" THEN "map" ELSE @]]
    /\ applied' = applied \cup {[kind |-> iter.kind, emitter |-> iter.emitter, n |-> iter.stamp]}
    /\ iter' = NoIter
    /\ UNCHANGED <<pending_effects, pending_notifications, handles, slot, dropped_entity_ids,
                   batch, window_open, calls, got>>

DeferredReturn ==
    /\ phase = "deferred"
    /\ phase' = "flush"
    /\ UNCHANGED <<pending_effects, pending_notifications, handles, slot, dropped_entity_ids,
                   batch, window_open, subs, iter, calls, got, applied>>

\* The observer of new entities returns and the effect drops its handle.
CreatedReturn ==
    /\ phase = "created"
    /\ phase' = "flush"
    /\ DropHandles(iter.emitter, None)
    /\ iter' = NoIter
    /\ UNCHANGED <<pending_effects, pending_notifications, batch, window_open, subs, calls, got,
                   applied>>

\* Nothing is left: the windows that need it are scheduled and the update ends.
FlushDone ==
    /\ phase = "flush"
    /\ batch = <<>>
    /\ dropped_entity_ids = <<>>
    /\ pending_effects = <<>>
    /\ phase' = "outside"
    /\ UNCHANGED <<pending_effects, pending_notifications, handles, slot, dropped_entity_ids,
                   batch, window_open, subs, iter, calls, got, applied>>

\* A panic ends the program.
Panicked == phase = "panicked" /\ UNCHANGED vars

-----------------------------------------------------------------------------
Application ==
    \/ BeginUpdate
    \/ \E e \in Entities, in_window \in BOOLEAN : New(e, in_window)
    \/ \E e \in Entities : Notify(e) \/ Emit(e) \/ DropHandle(e)
    \/ Defer
    \/ \E e \in Entities, o \in Entities \cup {None} :
          Subscribe("observer", e, o) \/ Subscribe("listener", e, o) \/ ObserveRelease(e, o)
    \/ \E s \in DOMAIN subs : Unsubscribe(s)
    \/ RemoveWindow

Flush ==
    \/ FinishUpdate
    \/ TakeDropped \/ ReleaseEntity \/ CallRelease \/ ReleaseReturn \/ ReleaseDrop \/ ReleaseNext
    \/ ApplyNotify \/ ApplyEmit \/ ApplyActivate \/ ApplyDefer \/ ApplyCreated
    \/ RetainNext \/ CallbackReturn \/ RetainEnd \/ DeferredReturn \/ CreatedReturn
    \/ FlushDone

Next == Application \/ Flush \/ Panicked

Spec == Init /\ [][Next]_vars

-----------------------------------------------------------------------------
(* Properties; those of a step are stated of the step.                     *)

Gone(e) == slot[e] \in {"dropped", "released"}

TypeOK ==
    /\ phase \in {"outside", "update", "flush", "retain", "callback", "deferred", "created",
                  "release", "releasing", "dropping", "panicked"}
    /\ \A i \in DOMAIN pending_effects :
          pending_effects[i].kind \in {"notify", "emit", "activate", "defer", "created"}
    /\ pending_notifications \subseteq Entities
    /\ handles \in [Entities -> Nat]
    /\ slot \in [Entities -> {"unused", "live", "dropped", "released"}]
    /\ \A s \in DOMAIN subs : subs[s].where \in {"map", "taken", "gone"}
    /\ calls \in 0..MaxCalls

\* A subscriber hears exactly what is raised after it subscribed, each effect once
\* and in the order they were raised, although the effects raised before are still
\* queued when it subscribes.
HeardInOrder ==
    \A s \in DOMAIN subs :
        /\ \A i \in DOMAIN got[s] : got[s][i] > subs[s].since
        /\ \A i, j \in DOMAIN got[s] : i < j => got[s][i] < got[s][j]

\* A subscriber that is still subscribed has heard every notification or event of
\* its emitter that was raised after it subscribed and has been applied.
NoneMissed ==
    \A s \in DOMAIN subs : \A a \in applied :
        (/\ a.kind = subs[s].kind
         /\ a.emitter = subs[s].emitter
         /\ a.n > subs[s].since
         /\ subs[s].where # "gone"
         /\ ~subs[s].dropped)
        => \E i \in DOMAIN got[s] : got[s][i] = a.n

\* A subscription ends only by being dropped or with the entities it is about: the
\* subscribers taken out for an iteration are neither lost nor duplicated.
NoSubscriberLost ==
    \A s \in DOMAIN subs :
        /\ subs[s].where = "taken" => phase \in {"retain", "callback", "release", "releasing"}
        /\ subs[s].where = "gone" =>
              \/ subs[s].dropped
              \/ Gone(subs[s].emitter)
              \/ subs[s].owner # None /\ Gone(subs[s].owner)

\* An emitter is marked exactly while one Notify of it is queued, so a notification
\* raised while the observers run is queued again and not taken for the current one.
NotifyOnce ==
    \A e \in Entities :
        Cardinality({i \in DOMAIN pending_effects :
                        pending_effects[i].kind = "notify" /\ pending_effects[i].emitter = e})
            = IF e \in pending_notifications THEN 1 ELSE 0

\* An entity is queued for release once, when its last handle is gone, and no
\* callback that upgrades a weak handle brings it back.
ReleasedOnce ==
    \A e \in Entities :
        /\ Gone(e) => handles[e] = 0
        /\ slot[e] = "live" => handles[e] > 0
        /\ Cardinality({i \in DOMAIN dropped_entity_ids : dropped_entity_ids[i] = e})
              = IF slot[e] = "dropped" THEN 1 ELSE 0

\* The observer or listener being called has not been dropped when its call begins,
\* not even by an earlier callback of the same effect.
NotCalledAfterDrop ==
    phase = "retain" /\ phase' = "callback" => ~subs[iter'.sub].dropped

\* Effects raised by effects are applied too, before the update returns.
FlushedWhenOutside ==
    phase = "outside" => pending_effects = <<>> /\ pending_notifications = {} /\ batch = <<>>

\* Every effect that is raised is applied, unless the program panics.
EveryEffectApplied ==
    pending_effects # <<>> ~> pending_effects = <<>> \/ phase = "panicked"
=============================================================================
