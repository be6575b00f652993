--------------------------- MODULE LinuxDispatcher ---------------------------
(***************************************************************************)
(* The Linux dispatcher (gpui_linux/src/linux/dispatcher.rs) and the event *)
(* loop that serves its main queue: a PriorityQueue whose sender pings an  *)
(* eventfd after each push, the calloop source that drains the queue into  *)
(* the loop's idle list, worker threads, and a timer thread with a loop of *)
(* its own.                                                                *)
(*                                                                         *)
(* A push, a ping, a pop and a count are one step each (PriorityQueue      *)
(* shows that a worker's pop proceeds when something is queued); a send is *)
(* a push and then a ping.  Runnables are anonymous and may dispatch.      *)
(***************************************************************************)
EXTENDS Naturals

CONSTANTS
    Workers,       \* background threads
    Timer,         \* the timer thread
    Main,          \* the thread of the event loop
    MaxRunnables   \* bound on the runnables ever dispatched

\* What the constants have to be; the runs check it.
ConstantsAssumption ==
    /\ Timer \notin Workers
    /\ Main \notin Workers \cup {Timer}
    /\ MaxRunnables \in Nat

Threads == Workers \cup {Timer, Main}

VARIABLES
    main_queue,    \* runnables in the main queue
    background,    \* runnables in the background queue
    channel,       \* TimerAfter messages the timer loop has not seen
    timers,        \* timer sources of the timer loop
    ping,          \* the eventfd of the main queue is readable
    idles,         \* idle callbacks of the event loop
    got,           \* this dispatch of the source popped something
    closed,        \* Event::Closed was delivered and the source removed
    handle,        \* the PriorityQueueCalloopSender: live, pinged (inside its drop), dropped
    pc,            \* where each thread is
    sending,       \* threads between the push of a send and its ping
    dispatched     \* runnables dispatched so far

vars == <<main_queue, background, channel, timers, ping, idles, got, closed,
          handle, pc, sending, dispatched>>
queueVars == <<main_queue, background, channel, timers>>
loopVars  == <<ping, idles, got, closed>>

Init ==
    /\ main_queue = 0
    /\ background = 0
    /\ channel = 0
    /\ timers = 0
    /\ ping = FALSE
    /\ idles = 0
    /\ got = FALSE
    /\ closed = FALSE
    /\ handle = "live"
    /\ pc = [t \in Threads |-> IF t = Main THEN "running" ELSE "waiting"]
    /\ sending = {}
    /\ dispatched = 0

Goto(t, label) == pc' = [pc EXCEPT ![t] = label]

-----------------------------------------------------------------------------
(* What running code can do with the dispatcher *)

MayDispatch(t) ==
    /\ pc[t] = "running"
    /\ t \notin sending
    /\ handle = "live"
    /\ dispatched < MaxRunnables
    /\ dispatched' = dispatched + 1

\* dispatch: the PriorityQueue wakes a worker by itself.
Dispatch(t) ==
    /\ MayDispatch(t)
    /\ background' = background + 1
    /\ UNCHANGED <<main_queue, channel, timers, loopVars, handle, pc, sending>>

\* dispatch_after: a message to the timer loop.
DispatchAfter(t) ==
    /\ MayDispatch(t)
    /\ channel' = channel + 1
    /\ UNCHANGED <<main_queue, background, timers, loopVars, handle, pc, sending>>

\* dispatch_on_main_thread: push ...  The receiver lives in the event loop and
\* is removed only after the sender is gone, so the push is not refused.
DispatchOnMain(t) ==
    /\ MayDispatch(t)
    /\ main_queue' = main_queue + 1
    /\ sending' = sending \cup {t}
    /\ UNCHANGED <<background, channel, timers, loopVars, handle, pc>>

\* ... and then ping.
SendPing(t) ==
    /\ t \in sending
    /\ sending' = sending \ {t}
    /\ ping' = TRUE
    /\ UNCHANGED <<queueVars, idles, got, closed, handle, pc, dispatched>>

\* The last owner of the dispatcher drops it: the sender's drop pings ...
DropPing(t) ==
    /\ pc[t] = "running"
    /\ sending = {}
    /\ handle = "live"
    /\ handle' = "pinged"
    /\ ping' = TRUE
    /\ Goto(t, "dropping")
    /\ UNCHANGED <<queueVars, idles, got, closed, sending, dispatched>>

\* ... and its fields are dropped after it, the count of senders with them.
DropCount(t) ==
    /\ pc[t] = "dropping"
    /\ handle' = "dropped"
    /\ Goto(t, "running")
    /\ UNCHANGED <<queueVars, loopVars, sending, dispatched>>

-----------------------------------------------------------------------------
(* Workers and the timer loop *)

WorkerPop(w) ==
    /\ pc[w] = "waiting"
    /\ background > 0
    /\ background' = background - 1
    /\ Goto(w, "running")
    /\ UNCHANGED <<main_queue, channel, timers, loopVars, handle, sending, dispatched>>

\* The channel source turns each message into a timer source.
TimerArm ==
    /\ pc[Timer] = "waiting"
    /\ channel > 0
    /\ channel' = channel - 1
    /\ timers' = timers + 1
    /\ UNCHANGED <<main_queue, background, loopVars, handle, pc, sending, dispatched>>

\* Mutant: the timer source is kept after it fired.
TimerFireKept ==
    /\ pc[Timer] = "waiting"
    /\ timers > 0
    /\ Goto(Timer, "running")
    /\ UNCHANGED <<queueVars, loopVars, handle, sending, dispatched>>

\* A timer fires: its runnable runs on the timer thread and the source is dropped.
TimerFire ==
    /\ pc[Timer] = "waiting"
    /\ timers > 0
    /\ timers' = timers - 1
    /\ Goto(Timer, "running")
    /\ UNCHANGED <<main_queue, background, channel, loopVars, handle, sending, dispatched>>

\* A runnable returns to the loop of its thread.
Return(t) ==
    /\ pc[t] = "running"
    /\ t \notin sending
    /\ Goto(t, IF t = Main THEN "idles" ELSE "waiting")
    /\ UNCHANGED <<queueVars, loopVars, handle, sending, dispatched>>

-----------------------------------------------------------------------------
(* The event loop *)

\* process_events of the source: the ping is taken and the queue drained.
Poll ==
    /\ pc[Main] = "poll"
    /\ ping
    /\ ~closed
    /\ ping' = FALSE
    /\ got' = FALSE
    /\ Goto(Main, "drain")
    /\ UNCHANGED <<queueVars, idles, closed, handle, sending, dispatched>>

\* Another source is served: its handler runs application code.
OtherEvent ==
    /\ pc[Main] = "poll"
    /\ Goto(Main, "running")
    /\ UNCHANGED <<queueVars, loopVars, handle, sending, dispatched>>

\* TryIter yields a runnable; the callback makes an idle callback of it.
DrainPop ==
    /\ pc[Main] = "drain"
    /\ main_queue > 0
    /\ main_queue' = main_queue - 1
    /\ idles' = idles + 1
    /\ got' = TRUE
    /\ UNCHANGED <<background, channel, timers, ping, closed, handle, pc, sending, dispatched>>

\* TryIter yields the error: Event::Closed, and the source is removed.
DrainDisconnected ==
    /\ pc[Main] = "drain"
    /\ main_queue = 0
    /\ handle = "dropped"
    /\ closed' = TRUE
    /\ Goto(Main, "idles")
    /\ UNCHANGED <<queueVars, ping, idles, got, handle, sending, dispatched>>

\* TryIter ends: the queue was empty.
DrainEnd ==
    /\ pc[Main] = "drain"
    /\ main_queue = 0
    /\ handle # "dropped"
    /\ Goto(Main, "drained")
    /\ UNCHANGED <<queueVars, loopVars, handle, sending, dispatched>>

\* Mutant: the readiness is cleared after the drain.
RenotifyClearing ==
    /\ pc[Main] = "drained"
    /\ ping' = got
    /\ Goto(Main, "idles")
    /\ UNCHANGED <<queueVars, idles, got, closed, handle, sending, dispatched>>

\* After a drain that popped something the source pings itself.
Renotify ==
    /\ pc[Main] = "drained"
    /\ ping' = (ping \/ got)
    /\ Goto(Main, "idles")
    /\ UNCHANGED <<queueVars, idles, got, closed, handle, sending, dispatched>>

\* The idle callbacks run after the sources, one runnable each.
RunIdle ==
    /\ pc[Main] = "idles"
    /\ idles > 0
    /\ idles' = idles - 1
    /\ Goto(Main, "running")
    /\ UNCHANGED <<queueVars, ping, got, closed, handle, sending, dispatched>>

IdlesDone ==
    /\ pc[Main] = "idles"
    /\ idles = 0
    /\ Goto(Main, "poll")
    /\ UNCHANGED <<queueVars, loopVars, handle, sending, dispatched>>

-----------------------------------------------------------------------------
Calls(t) ==
    \/ Dispatch(t) \/ DispatchAfter(t) \/ DispatchOnMain(t) \/ SendPing(t)
    \/ DropPing(t) \/ DropCount(t)
    \/ Return(t)

EventLoop ==
    \/ Poll \/ OtherEvent
    \/ DrainPop \/ DrainDisconnected \/ DrainEnd \/ Renotify
    \/ RunIdle \/ IdlesDone

Next ==
    \/ \E t \in Threads : Calls(t)
    \/ \E w \in Workers : WorkerPop(w)
    \/ TimerArm \/ TimerFire
    \/ EventLoop

Spec == Init /\ [][Next]_vars

-----------------------------------------------------------------------------
(* Properties *)

TypeOK ==
    /\ main_queue \in Nat
    /\ background \in Nat
    /\ channel \in Nat
    /\ timers \in Nat
    /\ ping \in BOOLEAN
    /\ idles \in Nat
    /\ got \in BOOLEAN
    /\ closed \in BOOLEAN
    /\ handle \in {"live", "pinged", "dropped"}
    /\ pc \in [Threads -> {"waiting", "running", "dropping", "poll", "drain", "drained", "idles"}]
    /\ sending \subseteq Threads
    /\ dispatched \in 0..MaxRunnables

\* The event loop never goes to poll with main-thread work queued and no ping to
\* come: the readiness is taken before the queue is drained, and a sender that
\* pushes during the drain pings after its push.
NoLostPing ==
    pc[Main] = "poll" /\ main_queue > 0 => ping \/ sending # {}

\* Event::Closed removes the source, so it comes after everything: nothing is
\* queued and nobody can queue any more.
ClosedIsLast == closed => main_queue = 0 /\ sending = {} /\ handle = "dropped"

\* Both: nothing is lost between a sender and the event loop.
HandoffIsSound == NoLostPing /\ ClosedIsLast

\* Whatever threads and timers send to the main thread is run there, and so are
\* background and delayed runnables, wherever they were dispatched from.
EverythingRuns ==
    (main_queue + idles + background + channel + timers > 0)
        ~> (main_queue + idles + background + channel + timers = 0)
=============================================================================
