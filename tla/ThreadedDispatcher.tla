------------------------- MODULE ThreadedDispatcher -------------------------
(***************************************************************************)
(* The multithreaded dispatcher of tests and benchmarks                    *)
(* (gpui/src/platform/threaded_dispatcher.rs): worker threads, a timer     *)
(* thread, and a main thread that drains its own queue in run_until_idle   *)
(* until everything counted by the IdleTracker has finished.               *)
(*                                                                         *)
(* Three locks matter.  The priority queues' mutexes are taken and         *)
(* released inside one step (module PriorityQueue; its NoLostWakeup makes  *)
(* "something is queued" enough for a worker's pop to proceed).  The       *)
(* timer-state lock is held by the timer thread from the pop of a due      *)
(* timer to the increment.  The in-flight lock is held by the main thread  *)
(* from run_until_idle's re-check to its return or wait; everybody else    *)
(* holds it for one step.                                                  *)
(*                                                                         *)
(* Runnables are anonymous.  A running one may dispatch to the background, *)
(* to the main thread or after a delay, any number of times, then finish   *)
(* or panic.                                                               *)
(***************************************************************************)
EXTENDS Naturals, FiniteSets

CONSTANTS
    Workers,       \* worker threads
    Timer,         \* the timer thread
    Main,          \* the thread that created the dispatcher
    Delays,        \* durations given to dispatch_after: subset of {"now", "later"}
    MaxRunnables   \* bound on the runnables ever dispatched

ASSUME ConstantsAssumption ==
    /\ IsFiniteSet(Workers)
    /\ Timer \notin Workers
    /\ Main \notin Workers \cup {Timer}
    /\ Delays \subseteq {"now", "later"}
    /\ MaxRunnables \in Nat

VARIABLES
    inflight,     \* IdleTracker::inflight
    background,   \* number of runnables in the background queue
    main_queue,   \* number of runnables in the main queue
    due,          \* timers in the heap whose time has come
    future,       \* timers in the heap whose time has not
    pc,           \* where each thread is
    call,         \* the dispatch a thread is in the middle of
    ran_any,      \* drain_main_queue ran something
    dispatched    \* number of runnables dispatched so far

vars == <<inflight, background, main_queue, due, future, pc, call, ran_any, dispatched>>

Tracked == Workers \cup {Timer}
Threads == Tracked \cup {Main}

\* The in-flight lock: run_until_idle holds it from its re-check on.
InflightFree == pc[Main] \notin {"recheck", "decide"}

\* The timer-state lock: the timer thread holds it until the increment.
TimersFree == pc[Timer] # "popped"

Goto(t, label) == pc' = [pc EXCEPT ![t] = label]

\* A step of t that changes nothing else.
Move(t, label) ==
    /\ Goto(t, label)
    /\ UNCHANGED <<inflight, background, main_queue, due, future, call, ran_any, dispatched>>

\* Condvar::notify_all of the IdleTracker, with the locations p: only the main
\* thread ever waits, in run_until_idle.
Notified(p) == [p EXCEPT ![Main] = IF @ = "waiting" THEN "drain" ELSE @]

Init ==
    /\ inflight = 0
    /\ background = 0
    /\ main_queue = 0
    /\ due = 0
    /\ future = 0
    /\ pc = [t \in Threads |-> IF t = Main THEN "away" ELSE IF t = Timer THEN "check" ELSE "pop"]
    /\ call = [t \in Threads |-> "none"]
    /\ ran_any = FALSE
    /\ dispatched = 0

-----------------------------------------------------------------------------
(* What a runnable, or the owner of the dispatcher between its calls, can do *)

MayDispatch(t) ==
    /\ call[t] = "none"
    /\ pc[t] = "running" \/ (t = Main /\ pc[t] = "away")
    /\ dispatched < MaxRunnables

\* dispatch counts the runnable ...
Dispatch(t) ==
    /\ MayDispatch(t)
    /\ InflightFree
    /\ inflight' = inflight + 1
    /\ dispatched' = dispatched + 1
    /\ call' = [call EXCEPT ![t] = "sending"]
    /\ UNCHANGED <<background, main_queue, due, future, pc, ran_any>>

\* ... and queues it.
DispatchSend(t) ==
    /\ call[t] = "sending"
    /\ background' = background + 1
    /\ call' = [call EXCEPT ![t] = "none"]
    /\ UNCHANGED <<inflight, main_queue, due, future, pc, ran_any, dispatched>>

\* dispatch_on_main_thread queues the runnable, whoever holds the in-flight lock ...
DispatchOnMain(t) ==
    /\ MayDispatch(t)
    /\ main_queue' = main_queue + 1
    /\ dispatched' = dispatched + 1
    /\ call' = [call EXCEPT ![t] = "notifying"]
    /\ UNCHANGED <<inflight, background, due, future, pc, ran_any>>

\* Mutant: the waiter is notified without the in-flight lock.
NotifyWithoutLock(t) ==
    /\ call[t] = "notifying"
    /\ pc' = Notified(pc)
    /\ call' = [call EXCEPT ![t] = "none"]
    /\ UNCHANGED <<inflight, background, main_queue, due, future, ran_any, dispatched>>

\* ... and notifies under that lock.
NotifyUnderLock(t) ==
    /\ call[t] = "notifying"
    /\ InflightFree
    /\ pc' = Notified(pc)
    /\ call' = [call EXCEPT ![t] = "none"]
    /\ UNCHANGED <<inflight, background, main_queue, due, future, ran_any, dispatched>>

\* The timer thread, asleep on an empty heap or until the earliest timer, looks
\* at the heap again.
TimerWoken == [pc EXCEPT ![Timer] = IF @ \in {"empty", "timed"} THEN "check" ELSE @]

\* dispatch_after pushes a timer, which may be due at once, and notifies.
DispatchAfter(t, delay) ==
    /\ MayDispatch(t)
    /\ TimersFree
    /\ due' = IF delay = "now" THEN due + 1 ELSE due
    /\ future' = IF delay = "later" THEN future + 1 ELSE future
    /\ pc' = TimerWoken
    /\ dispatched' = dispatched + 1
    /\ UNCHANGED <<inflight, background, main_queue, call, ran_any>>

-----------------------------------------------------------------------------
(* Workers *)

\* receiver.pop() returns a runnable.
WorkerPop(w) ==
    /\ pc[w] = "pop"
    /\ background > 0
    /\ background' = background - 1
    /\ Goto(w, "running")
    /\ UNCHANGED <<inflight, main_queue, due, future, call, ran_any, dispatched>>

\* Mutant: the count is taken down only by a runnable that returns.
DecrementUnlessPanicking(t, label) ==
    /\ InflightFree
    /\ inflight' = IF label = "dead" THEN inflight ELSE inflight - 1
    /\ pc' = IF inflight' = 0
             THEN Notified([pc EXCEPT ![t] = label])
             ELSE [pc EXCEPT ![t] = label]

\* Mutant: a count of zero is not announced.
DecrementSilently(t, label) ==
    /\ InflightFree
    /\ inflight' = inflight - 1
    /\ Goto(t, label)

\* IdleTracker::decrement, by a guard dropped as the thread moves on to label.
Decrement(t, label) ==
    /\ InflightFree
    /\ inflight' = inflight - 1
    /\ pc' = IF inflight' = 0
             THEN Notified([pc EXCEPT ![t] = label])
             ELSE [pc EXCEPT ![t] = label]

\* A worker's or the timer thread's runnable returns.
Finish(t) ==
    /\ pc[t] = "running"
    /\ call[t] = "none"
    /\ Decrement(t, IF t = Timer THEN "check" ELSE "pop")
    /\ UNCHANGED <<background, main_queue, due, future, call, ran_any, dispatched>>

\* It panics: the guard still counts it down, and the thread is gone.  One worker
\* is spared: without any, the next dispatch panics too.
Panic(t) ==
    /\ pc[t] = "running"
    /\ call[t] = "none"
    /\ t = Timer \/ \E w \in Workers \ {t} : pc[w] # "dead"
    /\ Decrement(t, "dead")
    /\ UNCHANGED <<background, main_queue, due, future, call, ran_any, dispatched>>

-----------------------------------------------------------------------------
(* The timer thread *)

TimePasses ==
    /\ future > 0
    /\ future' = future - 1
    /\ due' = due + 1
    /\ UNCHANGED <<inflight, background, main_queue, pc, call, ran_any, dispatched>>

\* Mutant: the thread waits without a timeout for a timer that is not due.
TimerSleepUntimed ==
    /\ pc[Timer] = "check"
    /\ due = 0
    /\ Move(Timer, "empty")

\* Nothing is due: wait for a timer, or until the earliest one.
TimerSleep ==
    /\ pc[Timer] = "check"
    /\ due = 0
    /\ Move(Timer, IF future = 0 THEN "empty" ELSE "timed")

\* wait_until times out.
TimerTimeout ==
    /\ pc[Timer] = "timed"
    /\ due > 0
    /\ Move(Timer, "check")

\* Pop a due timer, the timer state still locked ...
TimerPop ==
    /\ pc[Timer] = "check"
    /\ due > 0
    /\ due' = due - 1
    /\ Goto(Timer, "popped")
    /\ UNCHANGED <<inflight, background, main_queue, future, call, ran_any, dispatched>>

\* ... count it, unlock, and run it.
TimerFire ==
    /\ pc[Timer] = "popped"
    /\ InflightFree
    /\ inflight' = inflight + 1
    /\ Goto(Timer, "running")
    /\ UNCHANGED <<background, main_queue, due, future, call, ran_any, dispatched>>

-----------------------------------------------------------------------------
(* The main thread *)

\* The owner of the dispatcher is in none of its methods.
Away == pc[Main] = "away" /\ call[Main] = "none"

\* The timers are dropped; the tasks awaiting them are woken, which dispatches
\* them: the main thread may dispatch while it is away.
CancelPendingTimers ==
    /\ Away
    /\ TimersFree
    /\ due + future > 0
    /\ due' = 0
    /\ future' = 0
    /\ pc' = TimerWoken
    /\ UNCHANGED <<inflight, background, main_queue, call, ran_any, dispatched>>

RunUntilIdle ==
    /\ Away
    /\ Goto(Main, "drain")
    /\ ran_any' = FALSE
    /\ UNCHANGED <<inflight, background, main_queue, due, future, call, dispatched>>

\* drain_main_queue pops a runnable and runs it outside the queue's lock.
DrainPop ==
    /\ pc[Main] = "drain"
    /\ main_queue > 0
    /\ main_queue' = main_queue - 1
    /\ ran_any' = TRUE
    /\ Goto(Main, "running")
    /\ UNCHANGED <<inflight, background, due, future, call, dispatched>>

DrainReturned ==
    /\ pc[Main] = "running"
    /\ call[Main] = "none"
    /\ Move(Main, "drain")

\* The queue is drained; a turn that ran something is followed by another.
DrainEnd ==
    /\ pc[Main] = "drain"
    /\ main_queue = 0
    /\ Goto(Main, IF ran_any THEN "drain" ELSE "timers")
    /\ ran_any' = FALSE
    /\ UNCHANGED <<inflight, background, main_queue, due, future, call, dispatched>>

\* has_due_timer, before the in-flight lock is taken.
CheckTimers ==
    /\ pc[Main] = "timers"
    /\ TimersFree
    /\ Move(Main, IF due > 0 THEN "poll" ELSE "lock")

\* A wait of at most a millisecond for the timer thread, then from the top.
Poll ==
    /\ pc[Main] = "poll"
    /\ Move(Main, "drain")

LockInflight ==
    /\ pc[Main] = "lock"
    /\ Move(Main, "recheck")

\* Mutant: the queue is not looked at again under the lock.
RecheckNothing ==
    /\ pc[Main] = "recheck"
    /\ Move(Main, "decide")

\* main_queue_has_work under the lock; continuing releases it.
Recheck ==
    /\ pc[Main] = "recheck"
    /\ Move(Main, IF main_queue > 0 THEN "drain" ELSE "decide")

\* Return, or wait, which releases the lock.
Decide ==
    /\ pc[Main] = "decide"
    /\ Move(Main, IF inflight = 0 THEN "away" ELSE "waiting")

\* is_idle looks at the main queue, the timers and the count, one after the other.
IsIdleMain ==
    /\ Away
    /\ Move(Main, IF main_queue > 0 THEN "away" ELSE "idle_timers")

IsIdleTimers ==
    /\ pc[Main] = "idle_timers"
    /\ TimersFree
    /\ Move(Main, IF due > 0 THEN "away" ELSE "idle_inflight")

\* The answer is inflight = 0.
IsIdleInflight ==
    /\ pc[Main] = "idle_inflight"
    /\ Move(Main, "away")

-----------------------------------------------------------------------------
Calls(t) ==
    \/ Dispatch(t)
    \/ DispatchSend(t)
    \/ DispatchOnMain(t)
    \/ NotifyUnderLock(t)
    \/ \E delay \in Delays : DispatchAfter(t, delay)

TimerThread == TimerSleep \/ TimerTimeout \/ TimerPop \/ TimerFire

\* The loop of run_until_idle.
RunLoop ==
    \/ DrainPop \/ DrainReturned \/ DrainEnd
    \/ CheckTimers \/ Poll \/ LockInflight \/ Recheck \/ Decide

MainThread ==
    \/ RunLoop
    \/ CancelPendingTimers
    \/ RunUntilIdle
    \/ IsIdleMain \/ IsIdleTimers \/ IsIdleInflight

Next ==
    \/ \E t \in Threads : Calls(t)
    \/ \E w \in Workers : WorkerPop(w)
    \/ \E t \in Tracked : Finish(t) \/ Panic(t)
    \/ TimePasses
    \/ TimerThread
    \/ MainThread

Spec == Init /\ [][Next]_vars

\* Every thread that can go on does, and every runnable returns or panics.  A
\* lock held across steps is released by a step of its holder; the mutexes are
\* fair enough that a thread waiting for one gets it.
Fairness ==
    /\ \A t \in Threads : WF_vars(DispatchSend(t)) /\ SF_vars(NotifyUnderLock(t))
    /\ \A w \in Workers : WF_vars(WorkerPop(w))
    /\ \A t \in Tracked : SF_vars(Finish(t))
    /\ WF_vars(TimerSleep \/ TimerTimeout \/ TimerPop)
    /\ SF_vars(TimerFire)
    /\ WF_vars(DrainPop \/ DrainReturned \/ DrainEnd)
    /\ SF_vars(CheckTimers)
    /\ WF_vars(Poll \/ LockInflight \/ Recheck \/ Decide)

FairSpec == Spec /\ Fairness

-----------------------------------------------------------------------------
(* Properties *)

TypeOK ==
    /\ inflight \in Nat
    /\ background \in Nat
    /\ main_queue \in Nat
    /\ due \in Nat
    /\ future \in Nat
    /\ pc \in [Threads -> {"pop", "running", "dead", "check", "empty", "timed",
                           "popped", "away", "drain", "timers", "poll", "lock",
                           "recheck", "decide", "waiting", "idle_timers",
                           "idle_inflight"}]
    /\ \A w \in Workers : pc[w] \in {"pop", "running", "dead"}
    /\ pc[Timer] \in {"check", "empty", "timed", "popped", "running", "dead"}
    /\ pc[Main] \in {"away", "drain", "running", "timers", "poll", "lock",
                     "recheck", "decide", "waiting", "idle_timers", "idle_inflight"}
    /\ call \in [Threads -> {"none", "sending", "notifying"}]
    /\ ran_any \in BOOLEAN
    /\ dispatched \in 0..MaxRunnables

Running == {t \in Tracked : pc[t] = "running"}
Sending == {t \in Threads : call[t] = "sending"}

\* The in-flight count is what its comment says: the background and timer
\* runnables queued or running, plus the dispatches between their count and their
\* send.  It never goes below zero, and a panic does not leave it behind.
InflightCounts ==
    inflight = background + Cardinality(Running) + Cardinality(Sending)

\* A waiting run_until_idle has a wake coming for each reason to wake: main-thread
\* work has a notification still to be made, and otherwise a counted runnable
\* will take the count to zero.
NoLostNotify ==
    pc[Main] = "waiting" =>
        /\ inflight > 0
        /\ main_queue > 0 => \E t \in Tracked : call[t] = "notifying"

\* The timer thread never sleeps without a timeout while a timer is armed.
NoForgottenTimer == pc[Timer] = "empty" => due + future = 0

Quiescent ==
    /\ background = 0
    /\ Running = {}
    /\ Sending = {}
    /\ main_queue = 0

\* run_until_idle returns only when nothing is queued or running anywhere and
\* everything the completed work sent to the main thread has been run.
ReturnsQuiescent ==
    [][pc[Main] = "decide" /\ pc'[Main] = "away" => Quiescent]_vars

\* run_until_idle returns, unless the thread that a due timer needs has panicked.
RunUntilIdleReturns ==
    pc[Main] = "drain" ~> pc[Main] = "away" \/ pc[Timer] = "dead"

\* A due timer leaves the heap: it is fired, or cancelled.
DueTimerFires == due > 0 ~> due = 0 \/ pc[Timer] \in {"popped", "dead"}

\* The documentation of run_until_idle: it waits until no timer work is already
\* due.
ReturnsWithNoDueTimer ==
    [][pc[Main] = "decide" /\ pc'[Main] = "away" => due = 0]_vars

\* The documentation of is_idle: no main-thread work is queued when it says so.
IdleMeansQuiescent ==
    [][pc[Main] = "idle_inflight" /\ pc'[Main] = "away" /\ inflight = 0
          => Quiescent]_vars
=============================================================================
