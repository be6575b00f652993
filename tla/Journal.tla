------------------------------ MODULE Journal ------------------------------
(***************************************************************************)
(* What the foreground journal records (gpui/src/profiler/journal.rs       *)
(* ForegroundJournalWriter, IntervalSealer; gpui/src/profiler.rs           *)
(* WindowProfiler): turns of the foreground thread, which nest, the work   *)
(* in them, frames that wait for presentation, sleep and visibility, and   *)
(* the intervals into which a consumer seals the entries.  The cap on the  *)
(* events of an interval (MAX_INTERVAL_EVENTS) is left out.                *)
(*                                                                         *)
(* Entries go to the sealer as they are recorded, or are lost on the way   *)
(* and leave a discontinuity (JournalRing shows that their order stays).   *)
(* Work is its span of time; several things may happen at one time.        *)
(***************************************************************************)
EXTENDS Integers, Sequences, SequencesExt

CONSTANTS
    Windows,
    Floor,      \* TASK_POLL_FLOOR
    Deadline,   \* FRAME_DEADLINE
    Kinds,      \* kinds of turns: "poll", "input", "action", "draw"
    Visible,    \* visibilities of the windows: a set of BOOLEANs
    Animating,  \* whether a window animates: a set of BOOLEANs
    Consumer,   \* whether somebody collects and seals the entries
    Lossy,      \* whether entries may be lost
    MaxTime,    \* bound on the time
    MaxDepth,   \* bound on nested turns
    MaxReady    \* bound on queued runnables

VARIABLES
    now,
    runnables,    \* ForegroundRunnableCounter
    dispatching,  \* runnables counted, not yet in the main thread's queue
    ready,        \* runnables in the queue
    turns,        \* the turns in progress: turn_depth, active_activities, active_actions
    writer,       \* ForegroundJournalWriter
    sealer,       \* IntervalSealer
    snapshot,     \* the FrameSnapshot that the last step sealed
    dirty,        \* WindowInvalidatorInner::frame_dirty
    visible,      \* Window::visibility
    closed,       \* windows whose WindowProfiler has been dropped
    profiler,     \* WindowProfiler
    samples,      \* the spans that the last step measured
    interrupted   \* when sleep, wake, or a visibility change of a window happened last

queues == <<runnables, dispatching, ready>>
vars == <<now, queues, turns, writer, sealer, snapshot, dirty, visible, closed, profiler,
          samples, interrupted>>

NoTime == -1
Later(a, b) == IF a > b THEN a ELSE b
Span(from, to) == [from |-> from, to |-> to]
NoSpan == Span(NoTime, NoTime)

\* What the writer keeps of a window, and of one that it has forgotten.
NewWindow == [visible |-> TRUE, dirty_at |-> NoTime, changed_at |-> NoTime]
NoWindow == [NewWindow EXCEPT !.visible = FALSE]

NewProfiler == [first_input_at |-> NoTime, last_present_at |-> NoTime, animating |-> FALSE,
                pending |-> FALSE, frame |-> [draw_start |-> NoTime, dirty_at |-> NoTime]]

Init ==
    /\ now = 0
    /\ runnables = 0
    /\ dispatching = 0
    /\ ready = 0
    /\ turns = <<>>
    /\ writer = [power |-> "Awake", power_changed_at |-> NoTime, retained |-> FALSE,
                 small_polls |-> NoSpan, out |-> <<>>,
                 windows |-> [w \in Windows |-> NewWindow]]
    /\ sealer = [start |-> 0, events |-> {}, small_polls |-> {}, discontinuous |-> FALSE]
    /\ snapshot = <<>>
    /\ dirty = [w \in Windows |-> NoTime]
    /\ visible = [w \in Windows |-> TRUE]
    /\ closed = {}
    /\ profiler = [w \in Windows |-> NewProfiler]
    /\ samples = {}
    /\ interrupted = [w \in Windows |-> NoTime]

-----------------------------------------------------------------------------
(* ForegroundJournalWriter: what each call makes of the writer w.          *)

Entry(kind, from, to) == [kind |-> kind, span |-> Span(from, to)]

IsBoundary(entry) == entry.kind \in {"Presented", "Idle", "PowerTransition"}

\* Mutant: record_entry leaves the folded polls it publishes.
record_entry_keeping(w, entry) ==
    LET small == IF w.small_polls = NoSpan THEN <<>>
                 ELSE <<[kind |-> "SmallPolls", span |-> w.small_polls]>>
    IN [w EXCEPT !.out = @ \o small \o <<entry>>,
                 !.retained = @ /\ ~IsBoundary(entry)]

record_entry(w, entry) ==
    LET small == IF w.small_polls = NoSpan THEN <<>>
                 ELSE <<[kind |-> "SmallPolls", span |-> w.small_polls]>>
    IN [w EXCEPT !.out = @ \o small \o <<entry>>,
                 !.small_polls = NoSpan,
                 !.retained = @ /\ ~IsBoundary(entry)]

record_event(w, from) == record_entry([w EXCEPT !.retained = TRUE], Entry("Event", from, now))

fold_small_poll(w, from) ==
    [w EXCEPT !.small_polls = IF @ = NoSpan THEN Span(from, now)
                              ELSE Span(IF @.from < from THEN @.from ELSE from, now)]

power_interrupted_since(w, from) == w.power = "Suspended" \/ from <= w.power_changed_at

frame_sample_is_valid(w, window, from) ==
    /\ ~power_interrupted_since(w, from)
    /\ w.windows[window].visible
    /\ from > w.windows[window].changed_at

\* end_turn, at depth turns that are still open.
EndTurn(w, depth) ==
    LET Expire(f) == IF f.dirty_at # NoTime /\ now - f.dirty_at >= Deadline
                     THEN [f EXCEPT !.dirty_at = NoTime] ELSE f
        expired == [w EXCEPT !.windows = [x \in Windows |-> Expire(@[x])]]
        waits == w.power = "Awake" /\ \E x \in Windows : expired.windows[x].dirty_at # NoTime
    IN IF depth > 0 \/ runnables' > 0 THEN w
       ELSE IF waits THEN expired
       ELSE IF ~w.retained THEN [expired EXCEPT !.small_polls = NoSpan]
       ELSE record_entry(expired, Entry("Idle", now, now))

record_frame_pending(w, window, dirty_at) ==
    LET f == w.windows[window]
    IN IF \/ w.power = "Suspended" \/ ~f.visible
          \/ f.dirty_at # NoTime /\ dirty_at - f.dirty_at < Deadline
       THEN w
       ELSE record_entry([w EXCEPT !.windows[window].dirty_at = dirty_at],
                         Entry("FrameState", dirty_at, now))

\* Until a change is observed the window is as it was.
set_visibility(w, window, v) ==
    IF w.windows[window].visible = v THEN w
    ELSE [w EXCEPT !.windows[window] = [visible |-> v, dirty_at |-> NoTime, changed_at |-> now]]

power_transition(w, power) ==
    [record_entry(w, Entry("PowerTransition", now, now)) EXCEPT
        !.power = power, !.power_changed_at = now,
        !.windows = [x \in Windows |-> [@[x] EXCEPT !.dirty_at = NoTime]]]

journal_present(w, window, hasFrame) ==
    LET shown == [w EXCEPT !.windows[window].dirty_at = NoTime]
    IN IF power_interrupted_since(w, now) THEN shown
       ELSE IF hasFrame THEN record_entry(shown, Entry("Presented", now, now))
       ELSE record_event(shown, now)

-----------------------------------------------------------------------------
(* IntervalSealer.                                                         *)

IsEmpty(s) == s.events = {} /\ s.small_polls = {} /\ ~s.discontinuous

\* The open interval starts with its first work.
Open(s, at) == IF IsEmpty(s) THEN [s EXCEPT !.start = Later(@, at)] ELSE s

PushEvent(s, span) == [s EXCEPT !.events = @ \cup {span}]

Seal(s, to) ==
    [s EXCEPT !.start = to, !.events = {}, !.small_polls = {}, !.discontinuous = FALSE,
              !.sealed = <<[start |-> s.start, end |-> to, discontinuous |-> s.discontinuous,
                            spans |-> s.events \cup s.small_polls]>>]

push_entry(s, entry) ==
    LET from == entry.span.from
        to == entry.span.to
    IN CASE entry.kind = "Event" -> PushEvent(Open(s, from), entry.span)
         [] entry.kind = "SmallPolls" -> [Open(s, from) EXCEPT !.small_polls = @ \cup {entry.span}]
         [] entry.kind = "Presented" -> Seal(PushEvent(Open(s, from), entry.span), to)
         [] entry.kind \in {"Idle", "PowerTransition"} ->
                IF IsEmpty(s) THEN Open(s, to) ELSE Seal(s, to)
         [] entry.kind = "Discontinuity" -> [s EXCEPT !.discontinuous = TRUE]
         [] OTHER -> s

push_entries(entries) ==
    FoldLeft(push_entry, [start |-> sealer.start, events |-> sealer.events,
                          small_polls |-> sealer.small_polls,
                          discontinuous |-> sealer.discontinuous, sealed |-> <<>>], entries)

\* The writer becomes w, and its entries reach the sealer unless they are lost.
Commit(w) ==
    /\ writer' = [w EXCEPT !.out = <<>>]
    /\ \E lost \in SUBSET (IF Lossy THEN DOMAIN w.out ELSE {}) :
           LET s == push_entries([i \in (IF Consumer THEN DOMAIN w.out ELSE {}) |->
                        IF i \in lost THEN Entry("Discontinuity", now, now) ELSE w.out[i]])
           IN /\ sealer' = [start |-> s.start, events |-> s.events, small_polls |-> s.small_polls,
                            discontinuous |-> s.discontinuous]
              /\ snapshot' = s.sealed

\* Something is recorded, or nothing, and nothing is measured.
Record(w) == Commit(w) /\ samples' = {}
NoRecord == snapshot' = <<>> /\ samples' = {} /\ UNCHANGED <<writer, sealer>>

-----------------------------------------------------------------------------
(* The foreground thread.                                                  *)

Tick ==
    /\ now < MaxTime
    /\ now' = now + 1
    /\ NoRecord
    /\ UNCHANGED <<queues, turns, dirty, visible, closed, profiler, interrupted>>

\* schedule_local, on any thread: the runnable is counted, and then dispatched.
Queue ==
    /\ ready + dispatching < MaxReady
    /\ runnables' = runnables + 1
    /\ dispatching' = dispatching + 1
    /\ NoRecord
    /\ UNCHANGED <<now, ready, turns, dirty, visible, closed, profiler, interrupted>>

Dispatch ==
    /\ dispatching > 0
    /\ dispatching' = dispatching - 1
    /\ ready' = ready + 1
    /\ NoRecord
    /\ UNCHANGED <<now, runnables, turns, dirty, visible, closed, profiler, interrupted>>

\* A turn begins: update_running_task, begin_input, begin_action_handler, begin_draw.
Begin(kind, window) ==
    /\ Len(turns) < MaxDepth
    /\ kind = "poll" => turns = <<>> /\ ready > 0
    /\ kind = "draw" => /\ dirty[window] # NoTime
                        /\ \A i \in DOMAIN turns : turns[i].kind # "draw"
    /\ ready' = IF kind = "poll" THEN ready - 1 ELSE ready
    /\ turns' = Append(turns, [kind |-> kind, window |-> window, start |-> now,
                               dirty_at |-> IF kind = "draw" THEN dirty[window] ELSE NoTime])
    /\ dirty' = IF kind = "draw" THEN [dirty EXCEPT ![window] = NoTime] ELSE dirty
    /\ Record(IF kind = "draw" THEN record_frame_pending(writer, window, now) ELSE writer)
    /\ UNCHANGED <<now, runnables, dispatching, visible, closed, profiler, interrupted>>

Turn == Last(turns)
Closed == Front(turns)

\* save_task_timing, record_task_poll
EndPoll ==
    /\ turns # <<>>
    /\ Turn.kind = "poll"
    /\ turns' = Closed
    /\ runnables' = IF runnables > 0 THEN runnables - 1 ELSE 0
    /\ Record(EndTurn(IF power_interrupted_since(writer, Turn.start) THEN writer
                      ELSE IF now - Turn.start >= Floor THEN record_event(writer, Turn.start)
                      ELSE fold_small_poll(writer, Turn.start), Len(Closed)))
    /\ UNCHANGED <<now, dispatching, ready, dirty, visible, closed, profiler, interrupted>>

\* The work of a turn that no sleep interrupted is recorded, and the turn ends.
EndRecorded ==
    /\ turns' = Closed
    /\ UNCHANGED queues
    /\ Record(EndTurn(IF power_interrupted_since(writer, Turn.start) THEN writer
                      ELSE record_event(writer, Turn.start), Len(Closed)))

\* The first input of the next frame, after an input that invalidated the window.
FirstInput(p, window, start) ==
    IF \E i \in DOMAIN Closed : Closed[i].kind = "draw" THEN p.first_input_at
    ELSE IF p.first_input_at # NoTime /\ frame_sample_is_valid(writer, window, p.first_input_at)
         THEN p.first_input_at ELSE start

\* end_input.  That the input invalidated the window is an Invalidate during the turn.
EndInput(caused_invalidation) ==
    /\ turns # <<>>
    /\ Turn.kind = "input"
    /\ EndRecorded
    /\ profiler' =
         IF caused_invalidation /\ frame_sample_is_valid(writer, Turn.window, Turn.start)
         THEN [profiler EXCEPT ![Turn.window].first_input_at =
                   FirstInput(profiler[Turn.window], Turn.window, Turn.start)]
         ELSE profiler
    /\ UNCHANGED <<now, dirty, visible, closed, interrupted>>

\* end_action_handler
EndAction ==
    /\ turns # <<>>
    /\ Turn.kind = "action"
    /\ EndRecorded
    /\ UNCHANGED <<now, dirty, visible, closed, profiler, interrupted>>

\* end_draw: the frame waits to be presented.
EndDraw ==
    /\ turns # <<>>
    /\ Turn.kind = "draw"
    /\ EndRecorded
    /\ profiler' =
         [profiler EXCEPT ![Turn.window].pending = TRUE,
                          ![Turn.window].frame =
             IF power_interrupted_since(writer, Turn.start) THEN @
             ELSE [draw_start |-> Turn.start,
                   dirty_at |-> IF Turn.dirty_at # NoTime
                                   /\ frame_sample_is_valid(writer, Turn.window, Turn.dirty_at)
                                THEN Turn.dirty_at ELSE NoTime]]
    /\ UNCHANGED <<now, dirty, visible, closed, interrupted>>

\* present: in a turn of its own the frame is submitted, or shown again when none waits, and
\* record_present_at measures.
Present(window, active, animating) ==
    LET p == profiler[window]
        Valid(at) == at # NoTime /\ frame_sample_is_valid(writer, window, at)
        hasFrame == Valid(p.frame.draw_start)
    IN /\ \A i \in DOMAIN turns : turns[i].kind # "draw"
       /\ UNCHANGED queues
       /\ Commit(EndTurn(journal_present(writer, window, hasFrame), Len(turns)))
       /\ samples' = {Span(at, now) : at \in {p.first_input_at} \cap {t \in 0..now : Valid(t)}}
                     \cup (IF hasFrame /\ Valid(p.frame.dirty_at)
                           THEN {Span(p.frame.dirty_at, now)} ELSE {})
                     \cup (IF hasFrame /\ p.animating /\ active /\ Valid(p.last_present_at)
                           THEN {Span(p.last_present_at, now)} ELSE {})
       /\ profiler' =
            [profiler EXCEPT ![window] =
                [first_input_at |-> NoTime, pending |-> FALSE,
                 frame |-> [draw_start |-> NoTime, dirty_at |-> NoTime],
                 last_present_at |-> IF hasFrame THEN now ELSE p.last_present_at,
                 animating |-> IF hasFrame THEN animating /\ active ELSE p.animating]]
       /\ UNCHANGED <<now, turns, dirty, visible, closed, interrupted>>

\* invalidate_view and set_dirty, outside a draw.
Invalidate(window) ==
    /\ dirty[window] = NoTime
    /\ \A i \in DOMAIN turns : turns[i].kind # "draw"
    /\ dirty' = [dirty EXCEPT ![window] = now]
    /\ Record(record_frame_pending(writer, window, now))
    /\ UNCHANGED <<now, queues, turns, visible, closed, profiler, interrupted>>

\* refresh_visibility, when the platform tells of a change and after a wake.
RefreshVisibility(window, v) ==
    LET w == set_visibility(writer, window, v)
    IN /\ visible' = [visible EXCEPT ![window] = v]
       /\ interrupted' = [interrupted EXCEPT ![window] = IF visible[window] = v THEN @ ELSE now]
       /\ Record(IF dirty[window] # NoTime \/ profiler[window].pending
                 THEN record_frame_pending(w, window, now) ELSE w)
       /\ UNCHANGED <<now, queues, turns, dirty, closed, profiler>>

\* WindowProfiler::drop and record_window_closed, once the last update of the window is over.
Close(window) ==
    /\ window \notin closed
    /\ \A i \in DOMAIN turns : turns[i].kind = "poll" \/ turns[i].window # window
    /\ closed' = closed \cup {window}
    /\ dirty' = [dirty EXCEPT ![window] = NoTime]
    /\ visible' = [visible EXCEPT ![window] = FALSE]
    /\ profiler' = [profiler EXCEPT ![window] = NewProfiler]
    /\ Record(record_entry([writer EXCEPT !.windows[window] = NoWindow],
                           Entry("FrameState", now, now)))
    /\ UNCHANGED <<now, queues, turns, interrupted>>

\* on_system_sleep, on_system_wake
PowerTransition(power) ==
    /\ writer.power # power
    /\ interrupted' = [w \in Windows |-> now]
    /\ Record(power_transition(writer, power))
    /\ UNCHANGED <<now, queues, turns, dirty, visible, closed, profiler>>

Done ==
    /\ now = MaxTime
    /\ UNCHANGED vars

Next ==
    \/ Tick
    \/ Queue
    \/ Dispatch
    \/ \E kind \in Kinds, w \in Windows : (kind = "poll" \/ w \notin closed) /\ Begin(kind, w)
    \/ EndPoll
    \/ \E caused \in BOOLEAN : EndInput(caused)
    \/ EndAction
    \/ EndDraw
    \/ \E w \in Windows \ closed, active \in {FALSE} \cup Animating, animating \in Animating :
           Present(w, active, animating)
    \/ \E w \in Windows \ closed : Invalidate(w)
    \/ \E w \in Windows \ closed, v \in Visible : RefreshVisibility(w, v)
    \/ \E w \in Windows : Close(w)
    \/ \E power \in {"Awake", "Suspended"} : PowerTransition(power)
    \/ Done

Spec == Init /\ [][Next]_vars

-----------------------------------------------------------------------------
(* Properties; those of a step are stated of the step.                     *)

TypeOK ==
    /\ now \in 0..MaxTime
    /\ runnables \in Nat
    /\ Len(turns) <= MaxDepth
    /\ writer.out = <<>>
    /\ writer.power_changed_at <= now
    /\ \A w \in Windows : profiler[w].frame.draw_start <= now

\* The counter that keeps idle boundaries back counts exactly the runnables that are on their
\* way, queued or polled, whichever thread is where (schedule_local, record_task_poll): lower,
\* and busy time is sealed as idle; higher, and nothing is sealed for ever.
CounterExact ==
    runnables = dispatching + ready + Len(SelectSeq(turns, LAMBDA t : t.kind = "poll"))

\* Intervals follow one another and each ends after its start (IntervalSealer).
IntervalsInOrder ==
    \A s \in Range(snapshot') :
        sealer.start <= s.start /\ s.start <= s.end /\ s.end <= sealer'.start

\* An interval holds the work that completed in it, though it may have begun before.
WorkEndsInInterval ==
    \A s \in Range(snapshot) : \A span \in s.spans : s.start <= span.to /\ span.to <= s.end

\* No work that goes over a sleep or a wake is recorded, and no interval without a
\* discontinuity goes over one (power_transition, power_interrupted_since: "must not be
\* measured as uninterrupted foreground work").
SleepNotMeasured ==
    LET at == writer.power_changed_at
    IN \A s \in Range(snapshot) :
           /\ \A span \in s.spans : ~(span.from <= at /\ at < span.to)
           /\ ~s.discontinuous => ~(s.start < at /\ at < s.end)

\* A latency, a time from the first invalidation and an interval between presentations are
\* measured only if the window stayed visible and the system awake (frame_sample_is_valid:
\* "was measured while the window stayed visible and the system stayed awake").
SamplesUninterrupted ==
    \A w \in Windows : profiler'[w].last_present_at # profiler[w].last_present_at =>
        \A s \in samples' : interrupted[w] < s.from
=============================================================================
