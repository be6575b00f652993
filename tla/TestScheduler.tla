--------------------------- MODULE TestScheduler ---------------------------
(***************************************************************************)
(* The deterministic scheduler of the tests                                *)
(* (scheduler/src/test_scheduler.rs): one thread, a queue of runnables     *)
(* with a session or none, timers of a simulated clock, and calls that     *)
(* nest. A task that is run may block, which runs other tasks on top of    *)
(* it.                                                                     *)
(*                                                                         *)
(* Random numbers are choices. The tasks have the default priority and are *)
(* detached; a task that is run spawns others, blocks, and then awaits a   *)
(* timer or another task, yields or finishes. Parking is forbidden, as     *)
(* TestDispatcher::new has it, so there is no second thread.               *)
(***************************************************************************)
EXTENDS Integers, Sequences, FiniteSets

CONSTANTS
    Local1, Local2,   \* tasks of two foreground sessions
    Background,       \* tasks without a session
    Randomize,        \* randomize_order
    Polls,            \* bound on how often a task is polled
    MaxTime,          \* bound on the clock
    MaxDepth,         \* bound on nested calls
    Ticks             \* timeout_ticks, the most that a block with a timeout takes

Tasks == Local1 \cup Local2 \cup Background
Session(t) == IF t \in Local1 THEN 1 ELSE IF t \in Local2 THEN 2 ELSE 0
Nobody == "nobody"

VARIABLES
    runnables,     \* runnables
    timers,        \* timers, each with the task that awaits it
    blocked,       \* blocked_sessions
    clock,         \* clock.now()
    is_main,       \* is_main_thread
    stack,         \* the calls that are under way, the innermost last
    task,          \* each task: "new", "idle", "queued", "running", "notified" or "done"
    polls,         \* how often each task was polled
    awaits,        \* what each task awaits
    scheduled,     \* the runnables in the order in which they were scheduled
    panicked       \* whether park has panicked

vars == <<runnables, timers, blocked, clock, is_main, stack, task, polls, awaits, scheduled, panicked>>

NoCall == [call |-> "none", task |-> Nobody, session |-> 0, to |-> 0, ticks |-> -1,
           pc |-> "none", stepped |-> "no", awoken |-> FALSE, main |-> TRUE]

Init ==
    /\ runnables = <<>> /\ timers = <<>> /\ blocked = <<>> /\ scheduled = <<>>
    /\ clock = 0
    /\ is_main = TRUE
    /\ stack = <<>>
    /\ task = [t \in Tasks |-> "new"]
    /\ polls = [t \in Tasks |-> 0]
    /\ awaits = [t \in Tasks |-> Nobody]
    /\ panicked = FALSE

Depth == Len(stack)
Top == IF stack = <<>> THEN NoCall ELSE stack[Depth]
Push(f) == Append(stack, f)
Pop == SubSeq(stack, 1, Depth - 1)
Range(s) == {s[i] : i \in DOMAIN s}

-----------------------------------------------------------------------------
(* Scheduling.                                                             *)

InsertAt(q, i, t) == SubSeq(q, 1, i) \o <<t>> \o SubSeq(q, i + 1, Len(q))
Last(S) == IF S = {} THEN 0 ELSE CHOOSE m \in S : \A n \in S : n <= m

\* Mutant: a foreground task may be queued anywhere.
InsertAnywhere(q, t) == {InsertAt(q, i, t) : i \in 0..Len(q)}

\* schedule_local and schedule_background_with_priority: the queues that may result.
Inserted(q, t) ==
    LET start == IF Session(t) = 0 THEN 0 ELSE Last({i \in DOMAIN q : Session(q[i]) = Session(t)})
    IN IF Randomize THEN {InsertAt(q, i, t) : i \in start..Len(q)} ELSE {Append(q, t)}

\* The queues that may result when several are scheduled, one after the other.
InsertedAll(q, ts) ==
    LET after[n \in 0..Len(ts)] == IF n = 0 THEN {q} ELSE UNION {Inserted(x, ts[n]) : x \in after[n - 1]}
    IN after[Len(ts)]

\* Wakers of tasks (async-task): a task that is idle is scheduled, one that is running once it is
\* through.
Wake(ts) ==
    LET idle == SelectSeq(ts, LAMBDA t : task[t] = "idle")
    IN /\ runnables' \in InsertedAll(runnables, idle)
       /\ scheduled' = scheduled \o idle
       /\ task' = [t \in Tasks |-> IF t \in Range(idle) THEN "queued"
                                   ELSE IF t \in Range(ts) /\ task[t] = "running" THEN "notified"
                                   ELSE task[t]]

\* Executor::spawn
Spawn(t) ==
    /\ task[t] = "new"
    /\ runnables' \in Inserted(runnables, t)
    /\ scheduled' = Append(scheduled, t)
    /\ task' = [task EXCEPT ![t] = "queued"]
    /\ UNCHANGED <<timers, blocked, clock, is_main, stack, polls, awaits, panicked>>

-----------------------------------------------------------------------------
(* step_filtered                                                           *)

\* Every background task, and the first of each session that is not blocked.
Candidates ==
    {i \in DOMAIN runnables :
        LET s == Session(runnables[i])
        IN s = 0 \/ (s \notin Range(blocked) /\ \A j \in 1..(i - 1) : Session(runnables[j]) # s)}

Chosen == IF Randomize THEN Candidates
          ELSE {i \in Candidates : \A j \in Candidates : i <= j}

Elapsed == {i \in DOMAIN timers : timers[i].at <= clock}

\* Timers that have elapsed are dropped, which wakes their tasks.
StepTimers(here) ==
    /\ Elapsed # {}
    /\ timers' = SelectSeq(timers, LAMBDA m : m.at > clock)
    /\ Wake([i \in 1..Cardinality(Elapsed) |-> timers[i].task])
    /\ awaits' = [t \in Tasks |-> IF t \in {timers[i].task : i \in Elapsed} THEN Nobody ELSE awaits[t]]
    /\ stack' = [stack EXCEPT ![Depth] = here]
    /\ UNCHANGED <<is_main, polls>>

\* A candidate is run, until it returns.
StepRuns(here) ==
    /\ Elapsed = {}
    /\ \E i \in Chosen :
        LET t == runnables[i]
        IN /\ runnables' = SubSeq(runnables, 1, i - 1) \o SubSeq(runnables, i + 1, Len(runnables))
           /\ scheduled' = SelectSeq(scheduled, LAMBDA u : u # t)
           /\ task' = [task EXCEPT ![t] = "running"]
           /\ polls' = [polls EXCEPT ![t] = @ + 1]
           /\ is_main' = (Session(t) # 0)
           /\ stack' = Append([stack EXCEPT ![Depth] = here],
                              [NoCall EXCEPT !.call = "task", !.task = t, !.main = is_main])
    /\ UNCHANGED <<timers, awaits>>

Steps(here) ==
    /\ StepTimers(here) \/ StepRuns(here)
    /\ UNCHANGED <<blocked, clock, panicked>>

NoStep == Elapsed = {} /\ Candidates = {}

-----------------------------------------------------------------------------
(* The calls of a test: run, advance_clock, block.                         *)

Call(f) ==
    /\ Depth < MaxDepth
    /\ stack' = Push(f)
    /\ UNCHANGED <<runnables, timers, clock, is_main, task, polls, awaits, scheduled, panicked>>

Return ==
    /\ stack' = Pop
    /\ UNCHANGED <<runnables, timers, is_main, task, polls, awaits, scheduled, panicked>>

\* run, which run_until_parked is
Run == stack = <<>> /\ Call([NoCall EXCEPT !.call = "run"]) /\ UNCHANGED blocked
RunSteps == Top.call = "run" /\ Steps(Top)
RunReturns == Top.call = "run" /\ NoStep /\ Return /\ UNCHANGED <<blocked, clock>>

\* advance_clock
Advance(d) ==
    /\ stack = <<>>
    /\ clock + d <= MaxTime
    /\ Call([NoCall EXCEPT !.call = "advance", !.to = clock + d])
    /\ UNCHANGED blocked

AdvanceSteps == Top.call = "advance" /\ Steps(Top)

AdvanceToTimer ==
    /\ Top.call = "advance"
    /\ NoStep
    /\ timers # <<>> /\ timers[1].at <= Top.to
    /\ clock' = timers[1].at
    /\ UNCHANGED <<runnables, timers, blocked, is_main, stack, task, polls, awaits, scheduled, panicked>>

AdvanceReturns ==
    /\ Top.call = "advance"
    /\ NoStep
    /\ \A i \in DOMAIN timers : timers[i].at > Top.to
    /\ clock' = IF Top.to > clock THEN Top.to ELSE clock
    /\ Return
    /\ UNCHANGED blocked

\* Every task has one handle, so at most one task or call awaits it.
Awaited(u) == u \in Range(awaits) \/ \E i \in DOMAIN stack : stack[i].call = "block" /\ stack[i].task = u

\* block_until the task is done, for a session or for none, with a timeout or without.
Block(u, session, ticks) ==
    /\ Depth < MaxDepth
    /\ ~Awaited(u)
    /\ task[u] # "new"
    /\ Call([NoCall EXCEPT !.call = "block", !.task = u, !.session = session, !.ticks = ticks,
                           !.pc = "poll"])
    /\ blocked' = IF session = 0 THEN blocked ELSE Append(blocked, session)

InBlock(pc) == Top.call = "block" /\ Top.pc = pc /\ ~panicked

ReturnFromBlock ==
    /\ blocked' = IF Top.session = 0 THEN blocked ELSE SubSeq(blocked, 1, Len(blocked) - 1)
    /\ Return
    /\ UNCHANGED clock

BlockReturns == InBlock("poll") /\ Top.ticks # 0 /\ task[Top.task] = "done" /\ ReturnFromBlock
BlockTimesOut == InBlock("poll") /\ Top.ticks = 0 /\ ReturnFromBlock

At(pc) == [Top EXCEPT !.pc = pc]

BlockPending ==
    /\ InBlock("poll")
    /\ Top.ticks # 0
    /\ task[Top.task] # "done"
    /\ stack' = [stack EXCEPT ![Depth] = [At("step") EXCEPT !.stepped = "no",
                                            !.ticks = IF @ > 0 THEN @ - 1 ELSE @]]
    /\ UNCHANGED <<runnables, timers, blocked, clock, is_main, task, polls, awaits, scheduled, panicked>>

\* As many steps as the random numbers say; "tried" is a step that did nothing.
BlockSteps == InBlock("step") /\ Steps([Top EXCEPT !.stepped = "yes"])

\* Whether the round did nothing: a step was tried and none was taken.
Stuck(f) == f.stepped = "tried" /\ ~f.awoken

\* The end of the round: the next one, or the clock moves on, or the thread would park.
BlockRound(tried) ==
    LET f == [Top EXCEPT !.stepped = IF @ = "no" /\ tried THEN "tried" ELSE @]
        again == [f EXCEPT !.pc = "poll", !.awoken = FALSE]
    IN /\ InBlock("step")
       /\ tried => NoStep
       /\ \/ /\ ~Stuck(f)
             /\ stack' = [stack EXCEPT ![Depth] = again]
             /\ UNCHANGED <<blocked, clock, panicked>>
          \/ /\ Stuck(f) /\ timers # <<>>
             /\ clock' = IF timers[1].at > clock THEN timers[1].at ELSE clock
             /\ stack' = [stack EXCEPT ![Depth] = again]
             /\ UNCHANGED <<blocked, panicked>>
          \/ /\ Stuck(f) /\ timers = <<>> /\ f.ticks >= 0
             /\ blocked' = IF Top.session = 0 THEN blocked ELSE SubSeq(blocked, 1, Len(blocked) - 1)
             /\ stack' = Pop
             /\ UNCHANGED <<clock, panicked>>
          \/ /\ Stuck(f) /\ timers = <<>> /\ f.ticks < 0
             /\ panicked' = TRUE
             /\ UNCHANGED <<blocked, clock, stack>>
       /\ UNCHANGED <<runnables, timers, is_main, task, polls, awaits, scheduled>>

-----------------------------------------------------------------------------
(* What a task does when it is polled.                                     *)

Running(t) == Top.call = "task" /\ Top.task = t

\* step_filtered restores is_main_thread.
MainAfter(f) == f.main

\* The poll returns Pending, after the task has been woken meanwhile or not.
Pending(t, next) ==
    /\ awaits' = [awaits EXCEPT ![t] = next]
    /\ stack' = Pop
    /\ is_main' = MainAfter(Top)
    /\ \/ /\ task[t] = "running"
          /\ task' = [task EXCEPT ![t] = "idle"]
          /\ UNCHANGED <<runnables, scheduled>>
       \/ /\ task[t] = "notified"
          /\ task' = [task EXCEPT ![t] = "queued"]
          /\ runnables' \in Inserted(runnables, t)
          /\ scheduled' = Append(scheduled, t)
    /\ UNCHANGED <<blocked, clock, polls, panicked>>

\* It awaits a timer.
AwaitsTimer(t, d) ==
    /\ Running(t) /\ polls[t] < Polls
    /\ clock + d <= MaxTime
    /\ LET at == clock + d
           before == Cardinality({i \in DOMAIN timers : timers[i].at <= at})
       IN timers' = SubSeq(timers, 1, before) \o <<[at |-> at, task |-> t]>>
                    \o SubSeq(timers, before + 1, Len(timers))
    /\ Pending(t, Nobody)

\* It awaits another task.
AwaitsTask(t, u) ==
    /\ Running(t) /\ polls[t] < Polls
    /\ u # t /\ ~Awaited(u) /\ task[u] \notin {"new", "done"}
    /\ UNCHANGED timers
    /\ Pending(t, u)

\* It yields: it wakes itself and returns.
Yields(t) ==
    /\ Running(t) /\ polls[t] < Polls
    /\ task' = [task EXCEPT ![t] = "queued"]
    /\ runnables' \in Inserted(runnables, t)
    /\ scheduled' = Append(scheduled, t)
    /\ stack' = Pop
    /\ is_main' = MainAfter(Top)
    /\ UNCHANGED <<timers, awaits, blocked, clock, polls, panicked>>

\* It finishes and wakes who awaits it.
Finishes(t) ==
    LET who == {u \in Tasks : awaits[u] = t}
        ts == IF who = {} THEN <<>> ELSE <<CHOOSE u \in who : TRUE>>
        idle == SelectSeq(ts, LAMBDA u : task[u] = "idle")
    IN /\ Running(t)
       /\ runnables' \in InsertedAll(runnables, idle)
       /\ scheduled' = scheduled \o idle
       /\ task' = [u \in Tasks |-> IF u = t THEN "done" ELSE IF u \in Range(idle) THEN "queued" ELSE task[u]]
       /\ awaits' = [u \in Tasks |-> IF u \in who THEN Nobody ELSE awaits[u]]
       /\ stack' = [i \in 1..(Depth - 1) |->
                        IF stack[i].call = "block" /\ stack[i].task = t /\ stack[i].pc = "step"
                        THEN [stack[i] EXCEPT !.awoken = TRUE] ELSE stack[i]]
       /\ is_main' = MainAfter(Top)
       /\ UNCHANGED <<timers, blocked, clock, polls, panicked>>

\* block_on and block_with_timeout of a foreground task, for its session; the drop of a Scope, for
\* none, whatever task it happens in.
TaskBlocks(t, u) ==
    /\ Running(t) /\ u # t
    /\ \/ Session(t) # 0 /\ \E ticks \in -1..Ticks : Block(u, Session(t), ticks)
       \/ u \in Background /\ Block(u, 0, -1)

TestBody ==
    /\ stack = <<>>
    /\ \/ \E t \in Tasks : Spawn(t)
       \/ Run
       \/ \E d \in 1..2 : Advance(d)
       \/ \E u \in Tasks, session \in 0..1, ticks \in -1..Ticks : Block(u, session, ticks)

TaskBody ==
    \E t \in Tasks :
        \/ Running(t) /\ \E u \in Tasks : Spawn(u)
        \/ \E u \in Tasks : AwaitsTask(t, u) \/ TaskBlocks(t, u)
        \/ AwaitsTimer(t, 1)
        \/ Yields(t)
        \/ Finishes(t)

Calls ==
    \/ RunSteps \/ RunReturns
    \/ AdvanceSteps \/ AdvanceToTimer \/ AdvanceReturns
    \/ BlockReturns \/ BlockTimesOut \/ BlockPending \/ BlockSteps
    \/ \E tried \in BOOLEAN : BlockRound(tried)

Panicked == panicked /\ UNCHANGED vars

Next == (~panicked /\ (TestBody \/ TaskBody \/ Calls)) \/ Panicked

Spec == Init /\ [][Next]_vars

-----------------------------------------------------------------------------
(* Properties; those of a step are stated of the step.                     *)

TypeOK ==
    /\ Range(runnables) = {t \in Tasks : task[t] = "queued"}
    /\ Len(runnables) = Cardinality(Range(runnables))
    /\ {m.task : m \in Range(timers)} \subseteq {t \in Tasks : task[t] \in {"idle", "queued"}}
    /\ clock \in 0..MaxTime
    /\ Len(blocked) = Cardinality({i \in DOMAIN stack : stack[i].call = "block" /\ stack[i].session # 0})

Of(q, s) == SelectSeq(q, LAMBDA t : Session(t) = s)

\* Tasks of a foreground session run in the order in which they were scheduled, however the queue
\* is shuffled (LocalExecutor: "Tasks spawned on it run in order").
SessionOrder == \A s \in {1, 2} : Of(runnables, s) = Of(scheduled, s)

\* While a call blocks for a session, no task of that session runs on top of it (tests.rs: "we
\* shouldn't make progress on foreground-spawned futures with the same session id").
BlockedIsStill ==
    \A i, j \in DOMAIN stack :
        i < j /\ stack[i].call = "block" /\ stack[j].call = "task" /\ stack[i].session # 0 =>
            Session(stack[j].task) # stack[i].session

\* The main thread flag is that of the innermost task, after calls have nested (step_filtered).
MainIsForeground ==
    LET running == {i \in DOMAIN stack : stack[i].call = "task"}
    IN is_main = (running = {} \/ Session(stack[Last(running)].task) # 0)

\* A test panics only when nothing can run any more: no timer, no task but those of blocked
\* sessions, and what is blocked on is not done (TestScheduler::block: "no other tasks or timers
\* remain").
PanicIsStuck ==
    panicked =>
        /\ timers = <<>>
        /\ \A t \in Range(runnables) : Session(t) \in Range(blocked)
        /\ task[Top.task] # "done"

\* The clock never goes back, and moves past a timer only after its task was woken
\* (advance_clock_to_next_timer, advance_clock).
ClockInOrder == clock' >= clock /\ \A i \in DOMAIN timers : timers[i].at >= clock'
=============================================================================
