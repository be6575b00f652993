------------------------------ MODULE MCThreads -----------------------------
(***************************************************************************)
(* Threads that wait for one another: the dispatcher of Linux, the         *)
(* rendezvous with a dedicated thread, the two sides of the clipboard of   *)
(* X11, the ring of the journal, the buffers of traces, and queues that    *)
(* must be worked off: closed windows and effects. Each behaviour is of    *)
(* one part, and the others rest in their initial state.                   *)
(***************************************************************************)
EXTENDS Integers

CONSTANTS
    Parts,    \* the parts that run, of "linux", "dedicated", "clipboard" and so on
    None,     \* no window, no requester
    Workers, Timer, Main, MaxRunnables,                     \* "linux"
    MaxPolls,                                               \* "dedicated"
    Requesters, ManagerTargets, MaxWrites,                  \* "clipboard"
    HandoverTargets, HandoverWrites, MaxLosses,             \* "handover"
    MaxRequests,
    Large, Chunks,                                          \* "read"
    Capacity, PendingCapacity, Collectors, MaxEntries,      \* "ring"
    ReadersCollectors, ReadersEntries,                      \* "readers"
    TracedThreads, Users, TraceCapacity, MaxEvents,         \* "trace"
    MaxPeriods,
    Windows,                                                \* "dialogs"
    Entities, MaxSubs, MaxCalls                             \* "flush"

VARIABLES
    part,   \* the component that runs
    main_queue, background, channel, timers, ping, idles, linux_got, linux_closed, handle,
    linux_pc, sending, dispatched,
    shared, waker, caller, waiting, rdv_pc, executor, rdv_queue, root, child, unreachable,
    clip_owner, clip_queue, data, clip_app, text, stored, losses, safe, asked, handover, lock,
    serve, request, written, notified, clip_pending, reply, handled, saved,
    supports, lists, inbox, transfer, property, read_events, stage, index, target, using_incr,
    incr_data, result, timeouts,
    users, sequence, entry, finalized, offered, ring_pending, dropped, todo, wpc, writing,
    ring_cursor, end, rpc, start, copied, taken, missed,
    setting, scopes, period, trace_owner, registered, refs, unregistering, timings, busy, upc,
    trace_handles, frames, pushed, checked, trace_cursor, unseen, cleared, trace_events,
    kind, parent, children, tree_closed, windows, surfaces, callback, focus, tasks, stack,
    tree_app,
    phase, pending_effects, pending_notifications, effect_handles, slot, dropped_entity_ids,
    batch, window_open, subs, iter, calls, effect_got, applied

linuxVars == <<main_queue, background, channel, timers, ping, idles, linux_got, linux_closed,
               handle, linux_pc, sending, dispatched>>
rdvVars == <<shared, waker, caller, waiting, rdv_pc, executor, rdv_queue, root, child, unreachable>>
clipVars == <<clip_owner, clip_queue, data, clip_app, text, stored, losses, safe, asked, handover,
              lock, serve, request, written, notified, clip_pending, reply, handled, saved>>
readVars == <<supports, lists, inbox, transfer, property, read_events, stage, index, target,
              using_incr, incr_data, result, timeouts>>
ringVars == <<users, sequence, entry, finalized, offered, ring_pending, dropped, todo, wpc,
              writing, ring_cursor, end, rpc, start, copied, taken, missed>>
traceVars == <<setting, scopes, period, trace_owner, registered, refs, unregistering, timings,
               busy, upc, trace_handles, frames, pushed, checked, trace_cursor, unseen, cleared,
               trace_events>>
treeVars == <<kind, parent, children, tree_closed, windows, surfaces, callback, focus, tasks,
              stack, tree_app>>
effectVars == <<phase, pending_effects, pending_notifications, effect_handles, slot,
                dropped_entity_ids, batch, window_open, subs, iter, calls, effect_got, applied>>

Linux == INSTANCE LinuxDispatcher WITH got <- linux_got, closed <- linux_closed, pc <- linux_pc

Dedicated == INSTANCE Rendezvous WITH pc <- rdv_pc, queue <- rdv_queue

Clipboard == INSTANCE X11Clipboard WITH owner <- clip_owner, queue <- clip_queue,
        app <- clip_app, pending <- clip_pending

Handover == INSTANCE X11Clipboard WITH Requesters <- {"manager"},
        ManagerTargets <- HandoverTargets, MaxWrites <- HandoverWrites, owner <- clip_owner,
        queue <- clip_queue, app <- clip_app, pending <- clip_pending

Read == INSTANCE X11Read WITH events <- read_events

Ring == INSTANCE JournalRing WITH pending <- ring_pending, cursor <- ring_cursor

Readers == INSTANCE JournalRing WITH Collectors <- ReadersCollectors,
        MaxEntries <- ReadersEntries, pending <- ring_pending, cursor <- ring_cursor

Traces == INSTANCE Trace WITH Threads <- TracedThreads, Capacity <- TraceCapacity,
        owner <- trace_owner, handles <- trace_handles, cursor <- trace_cursor,
        events <- trace_events

Dialogs == INSTANCE WindowTree WITH AppRemoves <- TRUE, Reentrant <- TRUE,
        closed <- tree_closed, app <- tree_app

Flushes == INSTANCE Effects WITH handles <- effect_handles, got <- effect_got

ASSUME PartsAssumption ==
    /\ Linux!ConstantsAssumption
    /\ Clipboard!ConstantsAssumption
    /\ Handover!ConstantsAssumption
    /\ Read!ConstantsAssumption
    /\ Ring!ConstantsAssumption
    /\ Readers!ConstantsAssumption
    /\ Traces!ConstantsAssumption
    /\ Dialogs!ConstantsAssumption
    /\ Flushes!ConstantsAssumption

vars == <<part, linuxVars, rdvVars, clipVars, readVars, ringVars, traceVars, treeVars, effectVars>>

Init ==
    /\ part \in Parts
    /\ Linux!Init
    /\ Dedicated!Init
    /\ \/ part = "handover" /\ Handover!Init
       \/ part # "handover" /\ Clipboard!Init
    /\ Read!Init
    /\ part # "read" => supports = {} /\ ~lists
    /\ \/ part = "readers" /\ Readers!Init
       \/ part # "readers" /\ Ring!Init
    /\ Traces!Init
    /\ Dialogs!Init
    /\ Flushes!Starts({}, TRUE)

Next ==
    \/ part = "linux"     /\ Linux!Next
                          /\ UNCHANGED <<part, rdvVars, clipVars, readVars, ringVars, traceVars,
                                         treeVars, effectVars>>
    \/ part = "dedicated" /\ Dedicated!Next
                          /\ UNCHANGED <<part, linuxVars, clipVars, readVars, ringVars, traceVars,
                                         treeVars, effectVars>>
    \/ part = "clipboard" /\ Clipboard!Next
                          /\ UNCHANGED <<part, linuxVars, rdvVars, readVars, ringVars, traceVars,
                                         treeVars, effectVars>>
    \/ part = "handover"  /\ Handover!Next
                          /\ UNCHANGED <<part, linuxVars, rdvVars, readVars, ringVars, traceVars,
                                         treeVars, effectVars>>
    \/ part = "read"      /\ Read!Next
                          /\ UNCHANGED <<part, linuxVars, rdvVars, clipVars, ringVars, traceVars,
                                         treeVars, effectVars>>
    \/ part = "ring"      /\ Ring!Next
                          /\ UNCHANGED <<part, linuxVars, rdvVars, clipVars, readVars, traceVars,
                                         treeVars, effectVars>>
    \/ part = "readers"   /\ Readers!Next
                          /\ UNCHANGED <<part, linuxVars, rdvVars, clipVars, readVars, traceVars,
                                         treeVars, effectVars>>
    \/ part = "trace"     /\ Traces!Next
                          /\ UNCHANGED <<part, linuxVars, rdvVars, clipVars, readVars, ringVars,
                                         treeVars, effectVars>>
    \/ part = "dialogs"   /\ Dialogs!Next
                          /\ UNCHANGED <<part, linuxVars, rdvVars, clipVars, readVars, ringVars,
                                         traceVars, effectVars>>
    \/ part = "flush"     /\ Flushes!Next
                          /\ UNCHANGED <<part, linuxVars, rdvVars, clipVars, readVars, ringVars,
                                         traceVars, treeVars>>

\* Every thread of the dispatcher that can go on does and every runnable returns; its loops serve a
\* source that stays ready although others are ready too.
LinuxFairness ==
    /\ \A t \in Workers \cup {Timer, Main} :
        /\ WF_linuxVars(part = "linux" /\ Linux!SendPing(t))
        /\ WF_linuxVars(part = "linux" /\ Linux!DropCount(t))
        /\ WF_linuxVars(part = "linux" /\ Linux!Return(t))
    /\ \A w \in Workers : WF_linuxVars(part = "linux" /\ Linux!WorkerPop(w))
    /\ SF_linuxVars(part = "linux" /\ Linux!TimerArm)
    /\ SF_linuxVars(part = "linux" /\ Linux!TimerFire)
    /\ SF_linuxVars(part = "linux" /\ Linux!Poll)
    /\ WF_linuxVars(part = "linux" /\ (Linux!DrainPop \/ Linux!DrainDisconnected
                                         \/ Linux!DrainEnd \/ Linux!Renotify))
    /\ WF_linuxVars(part = "linux" /\ (Linux!RunIdle \/ Linux!IdlesDone))

\* The dedicated thread runs; a task that waits is woken until it finishes, and a caller that drops,
\* detaches or polls goes on.
DedicatedFairness ==
    /\ WF_rdvVars(part = "dedicated" /\ Dedicated!SpawnRoot)
    /\ WF_rdvVars(part = "dedicated" /\ Dedicated!Deliver)
    /\ WF_rdvVars(part = "dedicated" /\ Dedicated!Delivered)
    /\ WF_rdvVars(part = "dedicated" /\ Dedicated!DropExecutor)
    /\ WF_rdvVars(part = "dedicated" /\ Dedicated!RunRoot)
    /\ SF_rdvVars(part = "dedicated" /\ Dedicated!RunChild("done"))
    /\ WF_rdvVars(part = "dedicated" /\ Dedicated!Exit)
    /\ WF_rdvVars(part = "dedicated" /\ Dedicated!RootFinishes)
    /\ WF_rdvVars(part = "dedicated" /\ Dedicated!WakeRoot)
    /\ WF_rdvVars(part = "dedicated" /\ Dedicated!WakeChild)
    /\ WF_rdvVars(part = "dedicated" /\ caller = "dropping" /\ Dedicated!DropTask)
    /\ WF_rdvVars(part = "dedicated" /\ Dedicated!DropAfterDetach)
    /\ WF_rdvVars(part = "dedicated" /\ Dedicated!PollTakes)
    /\ WF_rdvVars(part = "dedicated" /\ Dedicated!PollTask)

\* Both threads of the clipboard run, and the reader, which looks at the clock; whoever clears
\* traces or pushes a timing goes on; the publisher runs. A collector runs until its call ends,
\* but in "readers" it may be suspended while it reads. Callbacks return, and the tasks and the
\* effects that are queued are run.
CallFairness ==
    /\ WF_clipVars(part \in {"clipboard", "handover"} /\ Clipboard!Serve)
    /\ WF_clipVars(part \in {"clipboard", "handover"} /\ Clipboard!App)
    /\ WF_readVars(part = "read" /\ Read!Reader)
    /\ \A u \in Users : WF_traceVars(part = "trace" /\ Traces!Works(u))
    /\ \A t \in TracedThreads : WF_traceVars(part = "trace" /\ Traces!PushTask(t))
    /\ WF_ringVars(part = "ring" /\ Ring!Publisher)
    /\ \A c \in Collectors : WF_ringVars(part = "ring" /\ Ring!Reads(c))
    /\ WF_ringVars(part = "readers" /\ Readers!Publisher)
    /\ WF_treeVars(part = "dialogs" /\ Dialogs!Close)
    /\ WF_effectVars(part = "flush" /\ Flushes!Flush)

Spec ==
    /\ Init /\ [][Next]_vars
    /\ LinuxFairness /\ DedicatedFairness /\ CallFairness

-----------------------------------------------------------------------------
(* Properties, each of the part it is about and with its type invariant.   *)

\* Nothing is lost between two threads: the loop does not poll with work queued and no ping to come,
\* the source closes last, and the rendezvous reaches no unreachable! and cancels for a drop only.
HandoffIsSound ==
    /\ Linux!TypeOK /\ Linux!HandoffIsSound
    /\ Dedicated!TypeOK /\ Dedicated!HandoffIsSound

\* Who asks for the clipboard never gets an older text than the last written, and gets one unless the
\* serving thread was told too late that the selection had been lost before; the manager's messages
\* are not missed, and a read returns one content, whole, and the preferred one of a prompt owner.
ClipboardIsWhole ==
    /\ part = "clipboard" => Clipboard!TypeOK /\ Clipboard!ClipboardIsWhole
    /\ part = "handover" => Handover!TypeOK /\ Handover!ClipboardIsWhole
    /\ part = "read" => Read!TypeOK /\ Read!ReturnsWhole /\ Read!PromptOwnerIsRead

\* A collector copies the entry at its cursor, whole, although the publisher wraps meanwhile; each
\* entry is returned or reported as lost, once and in order, and lost only if it is displaced.
CopiesItsEntry ==
    /\ part = "ring" => /\ Ring!TypeOK /\ Ring!CopiesItsEntry /\ Ring!Exclusion /\ Ring!EachOnce
                        /\ Ring!InOrder /\ Ring!LostIsOld
    /\ part = "readers" => /\ Readers!TypeOK /\ Readers!CopiesItsEntry /\ Readers!Exclusion
                           /\ Readers!EachOnce /\ Readers!InOrder /\ Readers!LostIsOld

\* No frame is collected twice, and none that is still in the buffer is passed over, except that
\* after the buffer was cleared a collector may pass over as many as it had seen before; no task
\* timing and at most one frame, pushed by who had seen tracing on, survives the end of its period
\* of tracing; and the registry holds no thread that is gone.
CollectedOnce ==
    part = "trace" => /\ Traces!TypeOK /\ Traces!CollectedOnce
                      /\ Traces!OffIsEmpty /\ Traces!RegisteredIsHeld

\* Whatever is dispatched runs: on Linux also what timers and other threads send; and a task on a
\* dedicated thread is cancelled by a drop, run if detached, delivered to who awaits it, and then
\* its thread ends.
EverythingRuns ==
    /\ Linux!EverythingRuns
    /\ Dedicated!DropCancels /\ Dedicated!DetachedRuns
    /\ Dedicated!AwaitResolves /\ Dedicated!ThreadExits

\* No call waits for ever: dropping the clipboard, reading another client's, publishing to the ring
\* with suspended readers, collecting from it, clearing the traces; every effect raised is applied,
\* and a closed dialog gives its parent the input back.
CallEnds ==
    /\ part \in {"clipboard", "handover"} => Clipboard!DropEnds
    /\ part = "read" => Read!ReadEnds
    /\ part = "ring" => Ring!CollectEnds
    /\ part = "readers" => Readers!PublishEnds
    /\ part = "trace" => Traces!ClearEnds
    /\ part = "dialogs" => Dialogs!ClosedDialogUnblocks /\ Dialogs!ClosedIsForgotten
    /\ part = "flush" => Flushes!EveryEffectApplied
=============================================================================
