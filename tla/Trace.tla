------------------------------- MODULE Trace -------------------------------
(***************************************************************************)
(* The profiler's trace buffers (gpui/src/profiler.rs): tracing is on      *)
(* while it is set or a scope is active; threads record task timings each  *)
(* in a buffer of its own, behind a lock, the foreground thread records    *)
(* frames in a global one; whoever turns tracing off clears them all; and  *)
(* a thread that exits unregisters its buffer, unless somebody else holds  *)
(* it, who then does. The registry has a lock that is not reentrant.       *)
(*                                                                         *)
(* An event is the number of the period of tracing in which it was found   *)
(* that tracing is on.                                                     *)
(***************************************************************************)
EXTENDS Naturals, Sequences, SequencesExt, FiniteSets

CONSTANTS
    Threads,     \* threads that record tasks
    Users,       \* threads that turn tracing on and off
    Capacity,    \* MAX_FRAME_TIMINGS
    MaxEvents,   \* bound on the events recorded
    MaxPeriods   \* bound on the periods of tracing

Nobody == "nobody"

\* What the constants have to be; the runs check it.
ConstantsAssumption == Capacity \in Nat \ {0} /\ Nobody \notin Users \cup Threads

VARIABLES
    setting,     \* TRACE_SETTING_ENABLED of TRACE_STATE
    scopes,      \* users with an active trace scope, the count in TRACE_STATE
    period,      \* how often tracing was turned on
    owner,       \* who holds GLOBAL_THREAD_TIMINGS
    registered,  \* threads in it
    refs,        \* of each thread's ThreadTimings: who holds an Arc
    timings,     \* ThreadTimings::timings
    unregistering, \* who dropped the last Arc and is in ThreadTimings::drop
    busy,        \* threads that hold the lock of their timings and are about to push
    upc,         \* where clear_trace_buffers is
    handles,     \* what it has upgraded
    frames,      \* FRAME_TIMINGS
    pushed,      \* total_pushed of it
    checked,     \* the period that record_frame_event found, 0 if it is not running
    cursor,      \* FrameTimingCollector::cursor
    unseen,      \* events in the buffer recorded since the last collect_unseen
    cleared,     \* whether the buffer was cleared since then
    events       \* number of events recorded

traceVars == <<setting, scopes, period>>
registryVars == <<owner, registered, refs, unregistering>>
threadVars == <<registryVars, timings, busy>>
userVars == <<upc, handles>>
frameVars == <<frames, pushed, checked, cursor, unseen, cleared>>
vars == <<traceVars, threadVars, userVars, frameVars, events>>

trace_enabled == setting \/ scopes # {}

Init ==
    /\ setting = FALSE
    /\ scopes = {}
    /\ period = 0
    /\ owner = Nobody
    /\ registered = Threads
    /\ refs = [t \in Threads |-> {t}]
    /\ unregistering = [t \in Threads |-> Nobody]
    /\ timings = [t \in Threads |-> <<>>]
    /\ busy = [t \in Threads |-> 0]
    /\ upc = [u \in Users |-> "idle"]
    /\ handles = [u \in Users |-> {}]
    /\ frames = <<>>
    /\ pushed = 0
    /\ checked = 0
    /\ cursor = 0
    /\ unseen = 0
    /\ cleared = FALSE
    /\ events = 0

-----------------------------------------------------------------------------
(* Recording.                                                              *)

\* save_task_timing: the timings are locked and tracing is on.
CheckTask(t) ==
    /\ t \in refs[t]
    /\ busy[t] = 0
    /\ trace_enabled
    /\ events < MaxEvents
    /\ events' = events + 1
    /\ busy' = [busy EXCEPT ![t] = period]
    /\ UNCHANGED <<traceVars, registryVars, timings, userVars, frameVars>>

PushTask(t) ==
    /\ busy[t] # 0
    /\ timings' = [timings EXCEPT ![t] = Append(@, busy[t])]
    /\ busy' = [busy EXCEPT ![t] = 0]
    /\ UNCHANGED <<traceVars, registryVars, userVars, frameVars, events>>

\* record_frame_event: tracing is on; then the buffer is locked and the event pushed.
CheckFrame ==
    /\ checked = 0
    /\ trace_enabled
    /\ events < MaxEvents
    /\ events' = events + 1
    /\ checked' = period
    /\ UNCHANGED <<traceVars, threadVars, userVars, frames, pushed, cursor, unseen, cleared>>

PushFrame ==
    LET kept == IF Len(frames) >= Capacity THEN Tail(frames) ELSE frames
    IN /\ checked # 0
       /\ frames' = Append(kept, checked)
       /\ pushed' = pushed + 1
       /\ unseen' = IF unseen = Capacity THEN unseen ELSE unseen + 1
       /\ checked' = 0
       /\ UNCHANGED <<traceVars, threadVars, userVars, cursor, cleared, events>>

\* What FrameTimingCollector::collect_unseen returns.
Collected ==
    LET first == pushed - Len(frames)
        skip == IF cursor > first THEN cursor - first ELSE 0
    IN SubSeq(frames, skip + 1, Len(frames))

\* Mutant: collect_unseen forgets to advance.
CollectFramesAgain ==
    /\ unseen' = 0
    /\ cleared' = FALSE
    /\ UNCHANGED <<traceVars, threadVars, userVars, frames, pushed, checked, cursor, events>>

\* FrameTimingCollector::collect_unseen
CollectFrames ==
    /\ cursor' = pushed
    /\ unseen' = 0
    /\ cleared' = FALSE
    /\ UNCHANGED <<traceVars, threadVars, userVars, frames, pushed, checked, events>>

-----------------------------------------------------------------------------
(* Turning tracing on and off.                                             *)

\* TRACE_STATE changes; the one who makes it zero clears the buffers.
Change(u, s, active) ==
    /\ upc[u] = "idle"
    /\ setting' = s
    /\ scopes' = active
    /\ period' = IF trace_enabled THEN period ELSE period + 1
    /\ period' <= MaxPeriods
    /\ upc' = [upc EXCEPT ![u] = IF s \/ active # {} THEN "idle" ELSE "upgrade"]
    /\ UNCHANGED <<threadVars, handles, frameVars, events>>

set_trace_enabled(u, enabled) == setting # enabled /\ Change(u, enabled, scopes)

trace_scope(u) == u \notin scopes /\ Change(u, setting, scopes \cup {u})

DropScope(u) == u \in scopes /\ Change(u, setting, scopes \ {u})

\* upgraded_thread_timings locks the registry, upgrades what is in it, and unlocks it.
LockRegistry(u) ==
    /\ upc[u] = "upgrade"
    /\ owner = Nobody
    /\ owner' = u
    /\ upc' = [upc EXCEPT ![u] = "locked"]
    /\ UNCHANGED <<traceVars, registered, refs, unregistering, timings, busy, handles, frameVars,
                   events>>

Upgrade(u) ==
    /\ upc[u] = "locked"
    /\ handles' = [handles EXCEPT ![u] = {t \in registered : refs[t] # {}}]
    /\ refs' = [t \in Threads |-> IF t \in handles'[u] THEN refs[t] \cup {u} ELSE refs[t]]
    /\ owner' = Nobody
    /\ upc' = [upc EXCEPT ![u] = "clear"]
    /\ UNCHANGED <<traceVars, registered, unregistering, timings, busy, frameVars, events>>

\* Who drops an Arc of the timings of t: the last one runs ThreadTimings::drop.
DropArc(who, t) ==
    /\ refs' = [refs EXCEPT ![t] = @ \ {who}]
    /\ unregistering' = IF refs[t] = {who} THEN [unregistering EXCEPT ![t] = who]
                        ELSE unregistering

\* Nobody clears the next buffer before ThreadTimings::drop has returned.
Returned(who) == \A t \in Threads : unregistering[t] # who

\* clear_trace_buffers: the timings of a thread are cleared under their lock, and dropped.
ClearTimings(u, t) ==
    /\ upc[u] = "clear"
    /\ Returned(u)
    /\ t \in handles[u]
    /\ busy[t] = 0
    /\ timings' = [timings EXCEPT ![t] = <<>>]
    /\ handles' = [handles EXCEPT ![u] = @ \ {t}]
    /\ DropArc(u, t)
    /\ UNCHANGED <<traceVars, owner, registered, busy, upc, frameVars, events>>

\* ThreadTimings::drop locks the registry and removes the thread.
Unregister(who, t) ==
    /\ unregistering[t] = who
    /\ owner = Nobody
    /\ registered' = registered \ {t}
    /\ unregistering' = [unregistering EXCEPT ![t] = Nobody]
    /\ UNCHANGED <<traceVars, owner, refs, timings, busy, userVars, frameVars, events>>

\* The frames are cleared last.
ClearFrames(u) ==
    /\ upc[u] = "clear"
    /\ Returned(u)
    /\ handles[u] = {}
    /\ frames' = <<>>
    /\ pushed' = 0
    /\ unseen' = 0
    /\ cleared' = TRUE
    /\ upc' = [upc EXCEPT ![u] = "idle"]
    /\ UNCHANGED <<traceVars, threadVars, handles, checked, cursor, events>>

\* A thread exits and drops its handle.
Exit(t) ==
    /\ busy[t] = 0
    /\ t \in refs[t]
    /\ DropArc(t, t)
    /\ UNCHANGED <<traceVars, owner, registered, timings, busy, userVars, frameVars, events>>

Works(u) ==
    \/ LockRegistry(u)
    \/ Upgrade(u)
    \/ \E t \in Threads : ClearTimings(u, t) \/ Unregister(u, t)
    \/ ClearFrames(u)

Next ==
    \/ \E t \in Threads : CheckTask(t) \/ PushTask(t) \/ Exit(t) \/ Unregister(t, t)
    \/ CheckFrame \/ PushFrame \/ CollectFrames
    \/ \E u \in Users : \/ \E enabled \in BOOLEAN : set_trace_enabled(u, enabled)
                        \/ trace_scope(u)
                        \/ DropScope(u)
                        \/ Works(u)

Spec == Init /\ [][Next]_vars

-----------------------------------------------------------------------------
(* Properties.                                                             *)

TypeOK ==
    /\ scopes \subseteq Users
    /\ registered \subseteq Threads
    /\ \A t \in Threads : refs[t] \subseteq {t} \cup Users
    /\ Len(frames) <= Capacity
    /\ Len(frames) <= pushed

\* Once tracing is off and cleared there is no task timing left that a later period could
\* report, whatever the threads were doing, and at most one frame event, recorded by a call of
\* record_frame_event that found tracing on and pushed after the clear: it looks before it locks
\* (set_trace_enabled: "The existing per-thread task buffers and the frame-event buffer are cleared
\* so stale data isn't reported after a later re-enable").
OffIsEmpty ==
    ~trace_enabled /\ (\A u \in Users : upc[u] = "idle") =>
        /\ \A t \in Threads : refs[t] # {} => timings[t] = <<>>
        /\ Len(frames) <= IF checked = 0 THEN 1 ELSE 0

\* Exactly the threads that somebody holds are registered, or somebody is about to remove them
\* (ThreadTimings::drop).
RegisteredIsHeld ==
    \A t \in Threads : refs[t] = {} => t \notin registered \/ unregistering[t] # Nobody

\* Clearing ends: nobody locks the registry while it holds it, also if a thread exits and hands
\* over its last handle (upgraded_thread_timings: "would deadlock the non-reentrant spinlock").
ClearEnds == \A u \in Users : (upc[u] # "idle") ~> (upc[u] = "idle")

\* A collection returns none of the frames that the one before returned, and all that were recorded
\* since and are still in the buffer, unless the buffer was cleared in between. Then it may miss as
\* many as its cursor, which the clear does not reset, says it has seen (collect_unseen: "Returns
\* frame events recorded since the previous call").
CollectedOnce ==
    /\ Len(Collected) <= unseen
    /\ unseen - Len(Collected) <= IF cleared THEN cursor ELSE 0
=============================================================================
