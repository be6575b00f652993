-------------------------- MODULE ThreadPartsProofs --------------------------
(***************************************************************************)
(* Inductive invariants of the parts of MCThreads in which one thread      *)
(* hands something to another, each with the proofs that it holds          *)
(* initially, that every step preserves it and that it implies the         *)
(* properties of the part, for any number of threads, runnables, polls,    *)
(* writes, requests, chunks, entries and events: the Linux dispatcher, the *)
(* rendezvous with a dedicated thread, the owner's and the reader's side   *)
(* of the clipboard of X11, the ring of the journal, and the buffers of    *)
(* traces.  ThreadsProofs draws the conclusions.                           *)
(***************************************************************************)
EXTENDS Integers, Sequences, FiniteSets, SequenceTheorems, FiniteSetTheorems, TLAPS

CONSTANTS
    Workers, Timer, Main, MaxRunnables,
    MaxPolls,
    None, Requesters, ManagerTargets, MaxWrites, MaxLosses, MaxRequests,
    Large, Chunks,
    Capacity, PendingCapacity, Collectors, MaxEntries,
    TracedThreads, Users, TraceCapacity, MaxEvents, MaxPeriods

VARIABLES
    main_queue, background, channel, timers, ping, idles, linux_got, linux_closed, handle,
    linux_pc, sending, dispatched,
    shared, waker, caller, waiting, rdv_pc, executor, rdv_queue, root, child, unreachable,
    clip_owner, clip_queue, data, clip_app, text, stored, losses, safe, asked, handover, lock,
    serve, request, written, notified, clip_pending, reply, handled, saved,
    supports, lists, inbox, transfer, property, read_events, stage, index, target, using_incr,
    incr_data, result, timeouts,
    users, sequence, entry, finalized, offered, ring_pending, dropped, todo, wpc, writing,
    ring_cursor, end, rpc, start, copied, taken, missed,
    setting, scopes, period, trace_owner, registered, refs, unregistering, timings, busy, upc,
    trace_handles, frames, pushed, checked, trace_cursor, unseen, cleared, trace_events

Linux == INSTANCE LinuxDispatcher WITH got <- linux_got, closed <- linux_closed, pc <- linux_pc

Dedicated == INSTANCE Rendezvous WITH pc <- rdv_pc, queue <- rdv_queue

Clip == INSTANCE X11Clipboard WITH owner <- clip_owner, queue <- clip_queue, app <- clip_app,
        pending <- clip_pending

Read == INSTANCE X11Read WITH events <- read_events

Ring == INSTANCE JournalRing WITH pending <- ring_pending, cursor <- ring_cursor

Traces == INSTANCE Trace WITH Threads <- TracedThreads, Capacity <- TraceCapacity,
        owner <- trace_owner, handles <- trace_handles, cursor <- trace_cursor,
        events <- trace_events

-----------------------------------------------------------------------------
(* The Linux dispatcher                                                    *)

\* Outside the drain, work in the main queue has a ping or a sender about to ping: the drain is
\* the only stretch that takes the ping and leaves the queue for later.
PingOrSender == linux_pc[Main] # "drain" /\ main_queue > 0 => ping \/ sending # {}

\* Once the drop of the dispatcher has begun, nobody is in the middle of a send.
DropIsExclusive ==
    /\ handle # "live" => sending = {}
    /\ \A t \in Linux!Threads : linux_pc[t] = "dropping" => handle # "live"

\* The inductive invariant.
LinuxInv == Linux!TypeOK /\ PingOrSender /\ DropIsExclusive /\ Linux!ClosedIsLast

LEMMA LinuxInit == ASSUME Linux!ConstantsAssumption PROVE Linux!Init => LinuxInv
<1> SUFFICES ASSUME Linux!Init PROVE LinuxInv
  OBVIOUS
<1>1. /\ linux_pc \in [Linux!Threads -> {"waiting", "running"}]
      /\ dispatched \in 0..MaxRunnables
  BY DEF Linux!Init, Linux!ConstantsAssumption
<1>2. Linux!TypeOK
  BY <1>1 DEF Linux!Init, Linux!TypeOK
<1> QED
  BY <1>1, <1>2 DEF Linux!Init, LinuxInv, PingOrSender, DropIsExclusive, Linux!ClosedIsLast

LEMMA LinuxCallStep ==
    ASSUME Linux!ConstantsAssumption, LinuxInv, NEW t \in Linux!Threads, Linux!Calls(t)
    PROVE  LinuxInv'
<1> USE DEF LinuxInv, Linux!TypeOK, PingOrSender, DropIsExclusive, Linux!ClosedIsLast,
            Linux!MayDispatch, Linux!Goto, Linux!queueVars, Linux!loopVars,
            Linux!ConstantsAssumption
<1>0. Main \in Linux!Threads
  BY DEF Linux!Threads
<1>1. CASE Linux!Dispatch(t)
  BY <1>1, <1>0 DEF Linux!Dispatch
<1>2. CASE Linux!DispatchAfter(t)
  BY <1>2, <1>0 DEF Linux!DispatchAfter
<1>3. CASE Linux!DispatchOnMain(t)
  BY <1>3, <1>0 DEF Linux!DispatchOnMain
<1>4. CASE Linux!SendPing(t)
  BY <1>4, <1>0 DEF Linux!SendPing
<1>5. CASE Linux!DropPing(t)
  BY <1>5, <1>0 DEF Linux!DropPing
<1>6. CASE Linux!DropCount(t)
  BY <1>6, <1>0 DEF Linux!DropCount
<1>7. CASE Linux!Return(t)
  BY <1>7, <1>0 DEF Linux!Return
<1> QED
  BY <1>1, <1>2, <1>3, <1>4, <1>5, <1>6, <1>7 DEF Linux!Calls

LEMMA LinuxServeStep ==
    ASSUME Linux!ConstantsAssumption, LinuxInv,
           (\E w \in Workers : Linux!WorkerPop(w)) \/ Linux!TimerArm \/ Linux!TimerFire
    PROVE  LinuxInv'
<1> USE DEF LinuxInv, Linux!TypeOK, PingOrSender, DropIsExclusive, Linux!ClosedIsLast, Linux!Goto,
            Linux!Threads, Linux!queueVars, Linux!loopVars, Linux!ConstantsAssumption
<1>1. ASSUME NEW w \in Workers, Linux!WorkerPop(w)
      PROVE  LinuxInv'
  BY <1>1 DEF Linux!WorkerPop
<1>2. CASE Linux!TimerArm
  BY <1>2 DEF Linux!TimerArm
<1>3. CASE Linux!TimerFire
  BY <1>3 DEF Linux!TimerFire
<1> QED
  BY <1>1, <1>2, <1>3

LEMMA LinuxLoopStep ==
    ASSUME Linux!ConstantsAssumption, LinuxInv, Linux!EventLoop
    PROVE  LinuxInv'
<1> USE DEF LinuxInv, Linux!TypeOK, PingOrSender, DropIsExclusive, Linux!ClosedIsLast, Linux!Goto,
            Linux!queueVars, Linux!loopVars, Linux!ConstantsAssumption
<1>0. Main \in Linux!Threads
  BY DEF Linux!Threads
<1>1. CASE Linux!Poll
  BY <1>0, <1>1 DEF Linux!Poll
<1>2. CASE Linux!OtherEvent
  BY <1>0, <1>2 DEF Linux!OtherEvent
<1>3. CASE Linux!DrainPop
  BY <1>0, <1>3 DEF Linux!DrainPop
<1>4. CASE Linux!DrainDisconnected
  BY <1>0, <1>4 DEF Linux!DrainDisconnected
<1>5. CASE Linux!DrainEnd
  BY <1>0, <1>5 DEF Linux!DrainEnd
<1>6. CASE Linux!Renotify
  BY <1>0, <1>6 DEF Linux!Renotify
<1>7. CASE Linux!RunIdle
  BY <1>0, <1>7 DEF Linux!RunIdle
<1>8. CASE Linux!IdlesDone
  BY <1>0, <1>8 DEF Linux!IdlesDone
<1> QED
  BY <1>1, <1>2, <1>3, <1>4, <1>5, <1>6, <1>7, <1>8 DEF Linux!EventLoop

LEMMA LinuxStep ==
    ASSUME Linux!ConstantsAssumption
    PROVE  LinuxInv /\ [Linux!Next]_Linux!vars => LinuxInv'
<1> SUFFICES ASSUME LinuxInv, [Linux!Next]_Linux!vars
             PROVE  LinuxInv'
  OBVIOUS
<1>1. CASE UNCHANGED Linux!vars
  BY <1>1 DEF Linux!vars, LinuxInv, Linux!TypeOK, PingOrSender, DropIsExclusive, Linux!ClosedIsLast
<1> QED
  BY <1>1, LinuxCallStep, LinuxServeStep, LinuxLoopStep DEF Linux!Next

LEMMA LinuxInductive ==
    ASSUME Linux!ConstantsAssumption
    PROVE  /\ Linux!Init => LinuxInv
           /\ LinuxInv /\ [Linux!Next]_Linux!vars => LinuxInv'
           /\ LinuxInv => Linux!TypeOK /\ Linux!HandoffIsSound
<1>1. LinuxInv => Linux!TypeOK /\ Linux!HandoffIsSound
  BY DEF LinuxInv, PingOrSender, Linux!HandoffIsSound, Linux!NoLostPing, Linux!TypeOK
<1> QED
  BY <1>1, LinuxInit, LinuxStep

-----------------------------------------------------------------------------
(* The rendezvous                                                          *)

RootType == [st : {"none", "queued", "running", "idle", "done", "cancelled"}, closed : BOOLEAN,
             handle : {"none", "thread", "shared", "caller", "gone"}, woken : BOOLEAN, polls : Nat]

\* What the variables hold.
DedicatedType ==
    /\ shared \in {"Pending", "Delivered", "Cancelled", "Detached", "Taken"}
    /\ waker \in BOOLEAN /\ waiting \in BOOLEAN
    /\ executor \in BOOLEAN /\ unreachable \in BOOLEAN
    /\ caller \in {"receiver", "task", "output", "dropping", "dropped", "detaching", "detached"}
    /\ rdv_pc \in {"start", "deliver", "wake", "cancel", "detach", "delivered", "recv", "root",
                   "exited"}
    /\ root \in RootType
    /\ child \in {"none", "queued", "idle", "done"}

\* The channel holds the root and the child as far as they are queued, in either order.
Channel ==
    IF root.st = "queued"
    THEN IF child = "queued" THEN {<<"root", "child">>, <<"child", "root">>} ELSE {<<"root">>}
    ELSE IF child = "queued" THEN {<<"child">>} ELSE {<<>>}

\* Where the thread is determines the state of the root, and what it found in the rendezvous.
ThreadOK ==
    /\ rdv_queue \in Channel
    /\ rdv_pc = "start" => root.st = "none" /\ child = "none"
    /\ root.st = "running" <=> rdv_pc = "root"
    /\ rdv_pc \in {"start", "deliver"} => shared \notin {"Delivered", "Taken"}
    /\ rdv_pc = "cancel" => shared = "Cancelled" /\ caller = "dropped"
    /\ rdv_pc = "detach" => shared = "Detached"

\* The disposition of the rendezvous is the one of the caller, and a handle in it was delivered.
CallerOK ==
    /\ shared = "Delivered" <=> root.handle = "shared"
    /\ caller = "receiver" => shared \in {"Pending", "Delivered"}
    /\ caller = "task" => shared = "Taken"
    /\ caller = "dropping" => shared = "Cancelled"
    /\ rdv_pc \in {"start", "deliver"} /\ shared = "Cancelled" => caller = "dropped"

\* The inductive invariant.
DedicatedInv ==
    /\ DedicatedType /\ ThreadOK /\ CallerOK
    /\ Dedicated!NeverUnreachable /\ Dedicated!CancelledByDrop /\ Dedicated!ExitIsClean

\* What the thread's channel does with at most two runnables.
LEMMA ChannelAppend ==
    ASSUME NEW S, NEW x \in S, NEW y \in S
    PROVE  Append(<<>>, x) = <<x>> /\ Append(<<x>>, y) = <<x, y>>
<1>1. Append(<<>>, x) = <<x>>
  OBVIOUS
<1>2. <<x>> \in Seq(S) /\ <<x, y>> \in Seq(S) /\ Len(<<x, y>>) = 2
  OBVIOUS
<1>3. /\ Append(<<x>>, y) \in Seq(S) /\ Len(Append(<<x>>, y)) = 2
      /\ Append(<<x>>, y)[1] = x /\ Append(<<x>>, y)[2] = y
  BY <1>2
<1>4. \A i \in 1..2 : Append(<<x>>, y)[i] = <<x, y>>[i]
  BY <1>3
<1> QED
  BY <1>1, <1>2, <1>3, <1>4, SeqEqual

LEMMA ChannelSteps ==
    LET r == "root"
        c == "child"
    IN  /\ Append(<<>>, r) = <<r>> /\ Append(<<>>, c) = <<c>>
        /\ Append(<<r>>, c) = <<r, c>> /\ Append(<<c>>, r) = <<c, r>>
        /\ Head(<<r>>) = r /\ Tail(<<r>>) = <<>>
        /\ Head(<<c>>) = c /\ Tail(<<c>>) = <<>>
        /\ Head(<<r, c>>) = r /\ Tail(<<r, c>>) = <<c>>
        /\ Head(<<c, r>>) = c /\ Tail(<<c, r>>) = <<r>>
<1>1. \A x, y \in {"root", "child"} : Append(<<>>, x) = <<x>> /\ Append(<<x>>, y) = <<x, y>>
  BY ChannelAppend
<1>2. \A x, y : Head(<<x>>) = x /\ Tail(<<x>>) = <<>> /\ Head(<<x, y>>) = x /\ Tail(<<x, y>>) = <<y>>
  OBVIOUS
<1> QED
  BY <1>1, <1>2

LEMMA DedicatedInit == Dedicated!Init => DedicatedInv
<1> SUFFICES ASSUME Dedicated!Init PROVE DedicatedInv
  OBVIOUS
<1>1. root \in RootType
  BY DEF Dedicated!Init, RootType
<1>2. DedicatedType
  BY <1>1 DEF Dedicated!Init, DedicatedType
<1>3. ThreadOK /\ CallerOK
  BY DEF Dedicated!Init, ThreadOK, Channel, CallerOK
<1> QED
  BY <1>2, <1>3 DEF Dedicated!Init, DedicatedInv, Dedicated!NeverUnreachable,
                    Dedicated!CancelledByDrop, Dedicated!ExitIsClean

\* Queueing the root or the child, and taking either out, keeps the channel in step.
LEMMA QueueRoot ==
    ASSUME rdv_queue \in Channel, root.st # "queued", root'.st = "queued", UNCHANGED child,
           rdv_queue' = Append(rdv_queue, "root")
    PROVE  rdv_queue' \in Channel'
  BY ChannelSteps DEF Channel

LEMMA QueueChild ==
    ASSUME rdv_queue \in Channel, child # "queued", child' = "queued", UNCHANGED root,
           rdv_queue' = Append(rdv_queue, "child")
    PROVE  rdv_queue' \in Channel'
  BY ChannelSteps DEF Channel

LEMMA TakeRoot ==
    ASSUME rdv_queue \in Channel, rdv_queue # <<>>, Head(rdv_queue) = "root",
           rdv_queue' = Tail(rdv_queue), root'.st # "queued", UNCHANGED child
    PROVE  root.st = "queued" /\ rdv_queue' \in Channel'
  BY ChannelSteps DEF Channel

LEMMA TakeChild ==
    ASSUME rdv_queue \in Channel, rdv_queue # <<>>, Head(rdv_queue) = "child",
           rdv_queue' = Tail(rdv_queue), child' # "queued", UNCHANGED root
    PROVE  child = "queued" /\ rdv_queue' \in Channel'
  BY ChannelSteps DEF Channel

LEMMA ChannelSame ==
    ASSUME root'.st = "queued" <=> root.st = "queued", child' = "queued" <=> child = "queued"
    PROVE  Channel' = Channel
  BY DEF Channel

\* A cancelled root that waits is queued; any other stays where it is.
LEMMA CancelStep ==
    ASSUME root \in RootType, rdv_queue \in Channel, Dedicated!Cancel, UNCHANGED child
    PROVE  root' \in RootType /\ rdv_queue' \in Channel'
<1> USE DEF RootType, Channel, Dedicated!Cancel, Dedicated!Dead
<1>1. CASE root.st = "idle"
  BY <1>1, QueueRoot
<1>2. CASE root.st # "idle"
  BY <1>2
<1> QED
  BY <1>1, <1>2

LEMMA DedicatedCallerStep == ASSUME DedicatedInv, Dedicated!Caller PROVE DedicatedInv'
<1> USE DEF DedicatedInv, DedicatedType, RootType, ThreadOK, CallerOK,
         Dedicated!NeverUnreachable, Dedicated!CancelledByDrop, Dedicated!ExitIsClean,
         Dedicated!Dead, Dedicated!Cancel, Dedicated!Detach
<1>1. CASE Dedicated!PollPending
  BY <1>1, ChannelSame DEF Dedicated!PollPending
<1>2. CASE Dedicated!PollTakes
  BY <1>2, ChannelSame DEF Dedicated!PollTakes
<1>3. CASE Dedicated!PollTask
  <2>1. DedicatedType'
    BY <1>3 DEF Dedicated!PollTask
  <2>2. ThreadOK'
    BY <1>3, ChannelSame DEF Dedicated!PollTask
  <2>3. CallerOK'
    BY <1>3 DEF Dedicated!PollTask
  <2>4. (Dedicated!NeverUnreachable /\ Dedicated!CancelledByDrop /\ Dedicated!ExitIsClean)'
    BY <1>3 DEF Dedicated!PollTask
  <2> QED
    BY <2>1, <2>2, <2>3, <2>4
<1>4. CASE Dedicated!DropPending
  <2>1. DedicatedType'
    BY <1>4 DEF Dedicated!DropPending
  <2>2. ThreadOK'
    BY <1>4, ChannelSame DEF Dedicated!DropPending
  <2>3. CallerOK'
    BY <1>4 DEF Dedicated!DropPending
  <2>4. (Dedicated!NeverUnreachable /\ Dedicated!CancelledByDrop /\ Dedicated!ExitIsClean)'
    BY <1>4 DEF Dedicated!DropPending
  <2> QED
    BY <2>1, <2>2, <2>3, <2>4
<1>5. CASE Dedicated!DropDelivered
  BY <1>5, ChannelSame DEF Dedicated!DropDelivered
<1>6. CASE Dedicated!DropTask
  <2>1. rdv_queue' \in Channel' /\ root' \in RootType
    BY <1>6, CancelStep DEF Dedicated!DropTask
  <2>2. DedicatedType'
    BY <1>6, <2>1 DEF Dedicated!DropTask
  <2>3. ThreadOK'
    BY <1>6, <2>1 DEF Dedicated!DropTask
  <2>4. CallerOK'
    BY <1>6, <2>1 DEF Dedicated!DropTask
  <2>5. (Dedicated!NeverUnreachable /\ Dedicated!CancelledByDrop /\ Dedicated!ExitIsClean)'
    BY <1>6, <2>1 DEF Dedicated!DropTask
  <2> QED
    BY <2>2, <2>3, <2>4, <2>5
<1>7. CASE Dedicated!DetachPending
  <2>1. DedicatedType'
    BY <1>7 DEF Dedicated!DetachPending
  <2>2. ThreadOK'
    BY <1>7, ChannelSame DEF Dedicated!DetachPending
  <2>3. CallerOK'
    BY <1>7 DEF Dedicated!DetachPending
  <2>4. (Dedicated!NeverUnreachable /\ Dedicated!CancelledByDrop /\ Dedicated!ExitIsClean)'
    BY <1>7 DEF Dedicated!DetachPending
  <2> QED
    BY <2>1, <2>2, <2>3, <2>4
<1>8. CASE Dedicated!DetachDelivered
  BY <1>8, ChannelSame DEF Dedicated!DetachDelivered
<1>9. CASE Dedicated!DropAfterDetach
  BY <1>9, ChannelSame DEF Dedicated!DropAfterDetach
<1> QED
  BY <1>1, <1>2, <1>3, <1>4, <1>5, <1>6, <1>7, <1>8, <1>9 DEF Dedicated!Caller

LEMMA DedicatedThreadStep == ASSUME DedicatedInv, Dedicated!Thread PROVE DedicatedInv'
<1> USE DEF DedicatedInv, DedicatedType, RootType, ThreadOK, CallerOK,
         Dedicated!NeverUnreachable, Dedicated!CancelledByDrop, Dedicated!ExitIsClean,
         Dedicated!Dead
<1>1. CASE Dedicated!SpawnRoot
  <2>1. root' \in RootType
    BY <1>1 DEF Dedicated!SpawnRoot
  <2>2. rdv_queue' \in Channel'
    BY <1>1, <2>1, QueueRoot DEF Dedicated!SpawnRoot
  <2> QED
    BY <1>1, <2>1, <2>2 DEF Dedicated!SpawnRoot
<1>2. CASE Dedicated!Deliver
  <2>1. DedicatedType'
    BY <1>2 DEF Dedicated!Deliver
  <2>2. ThreadOK'
    BY <1>2, ChannelSame DEF Dedicated!Deliver
  <2>3. CallerOK'
    BY <1>2 DEF Dedicated!Deliver
  <2>4. (Dedicated!NeverUnreachable /\ Dedicated!CancelledByDrop /\ Dedicated!ExitIsClean)'
    BY <1>2 DEF Dedicated!Deliver
  <2> QED
    BY <2>1, <2>2, <2>3, <2>4
<1>3. CASE Dedicated!Delivered
  <2>1. CASE rdv_pc = "cancel"
    <3>1. rdv_queue' \in Channel' /\ root' \in RootType
      BY <1>3, <2>1, CancelStep DEF Dedicated!Delivered
    <3> QED
      BY <1>3, <2>1, <3>1 DEF Dedicated!Delivered, Dedicated!Cancel
  <2>2. CASE rdv_pc # "cancel"
    <3> USE ChannelSame DEF Dedicated!Delivered, Dedicated!Detach
    <3>1. DedicatedType'
      BY <1>3, <2>2
    <3>2. ThreadOK'
      BY <1>3, <2>2
    <3>3. CallerOK'
      BY <1>3, <2>2
    <3>4. (Dedicated!NeverUnreachable /\ Dedicated!CancelledByDrop /\ Dedicated!ExitIsClean)'
      BY <1>3, <2>2
    <3> QED
      BY <3>1, <3>2, <3>3, <3>4
  <2> QED
    BY <2>1, <2>2
<1>4. CASE Dedicated!DropExecutor
  <2>1. DedicatedType'
    <3> HIDE DEF RootType, ThreadOK, CallerOK
    <3> QED
      BY <1>4 DEF Dedicated!DropExecutor
  <2>2. ThreadOK'
    BY <1>4, ChannelSame DEF Dedicated!DropExecutor
  <2>3. CallerOK'
    BY <1>4 DEF Dedicated!DropExecutor
  <2>4. (Dedicated!NeverUnreachable /\ Dedicated!CancelledByDrop /\ Dedicated!ExitIsClean)'
    BY <1>4 DEF Dedicated!DropExecutor
  <2> QED
    BY <2>1, <2>2, <2>3, <2>4
<1>5. CASE Dedicated!RunRoot
  <2>1. root' \in RootType
    <3>1. CASE root.closed
      BY <1>5, <3>1 DEF Dedicated!RunRoot
    <3>2. CASE ~root.closed
      <4> HIDE DEF DedicatedInv, ThreadOK, CallerOK
      <4>1. root \in RootType
        BY DEF DedicatedInv
      <4>2. root.polls + 1 \in Nat
        BY <4>1
      <4> QED
        BY <1>5, <3>2, <4>1, <4>2 DEF Dedicated!RunRoot
    <3> QED
      BY <3>1, <3>2
  <2>2. rdv_queue' \in Channel' /\ root.st = "queued"
    BY <1>5, <2>1, TakeRoot DEF Dedicated!RunRoot
  <2> QED
    BY <1>5, <2>1, <2>2 DEF Dedicated!RunRoot
<1>6. ASSUME NEW then \in {"idle", "done"}, Dedicated!RunChild(then)
      PROVE  DedicatedInv'
  <2>1. root' \in RootType
    BY <1>6 DEF Dedicated!RunChild
  <2>2. rdv_queue' \in Channel' /\ child = "queued"
    BY <1>6, <2>1, TakeChild DEF Dedicated!RunChild
  <2> QED
    BY <1>6, <2>1, <2>2 DEF Dedicated!RunChild
<1>7. CASE Dedicated!RootSpawns
  <2>1. root' \in RootType
    BY <1>7 DEF Dedicated!RootSpawns
  <2>2. rdv_queue' \in Channel'
    BY <1>7, <2>1, QueueChild DEF Dedicated!RootSpawns
  <2> QED
    BY <1>7, <2>1, <2>2 DEF Dedicated!RootSpawns
<1>8. CASE Dedicated!RootWaits
  <2>1. root' \in RootType
    BY <1>8 DEF Dedicated!RootWaits
  <2>2. rdv_queue' \in Channel'
    BY <1>8, <2>1, QueueRoot, ChannelSame DEF Dedicated!RootWaits
  <2> QED
    BY <1>8, <2>1, <2>2 DEF Dedicated!RootWaits
<1>9. CASE Dedicated!RootFinishes
  BY <1>9, ChannelSame DEF Dedicated!RootFinishes
<1>10. CASE Dedicated!Exit
  BY <1>10, ChannelSame DEF Dedicated!Exit, Dedicated!Senders
<1> QED
  BY <1>1, <1>2, <1>3, <1>4, <1>5, <1>6, <1>7, <1>8, <1>9, <1>10 DEF Dedicated!Thread

LEMMA DedicatedStep == DedicatedInv /\ [Dedicated!Next]_Dedicated!vars => DedicatedInv'
<1> SUFFICES ASSUME DedicatedInv, [Dedicated!Next]_Dedicated!vars
             PROVE  DedicatedInv'
  OBVIOUS
<1> USE DEF DedicatedInv, DedicatedType, RootType, ThreadOK, CallerOK,
         Dedicated!NeverUnreachable, Dedicated!CancelledByDrop, Dedicated!ExitIsClean,
         Dedicated!Dead
<1>1. CASE Dedicated!WakeRoot
  <2>1. root' \in RootType
    BY <1>1 DEF Dedicated!WakeRoot
  <2>2. rdv_queue' \in Channel'
    BY <1>1, <2>1, QueueRoot, ChannelSame DEF Dedicated!WakeRoot
  <2> QED
    BY <1>1, <2>1, <2>2 DEF Dedicated!WakeRoot
<1>2. CASE Dedicated!WakeChild
  <2>1. root' \in RootType
    BY <1>2 DEF Dedicated!WakeChild
  <2>2. rdv_queue' \in Channel'
    BY <1>2, <2>1, QueueChild DEF Dedicated!WakeChild
  <2> QED
    BY <1>2, <2>1, <2>2 DEF Dedicated!WakeChild
<1>3. CASE UNCHANGED Dedicated!vars
  BY <1>3, ChannelSame DEF Dedicated!vars
<1> QED
  BY <1>1, <1>2, <1>3, DedicatedCallerStep, DedicatedThreadStep DEF Dedicated!Next, Dedicated!Quiet

LEMMA DedicatedInductive ==
    /\ Dedicated!Init => DedicatedInv
    /\ DedicatedInv /\ [Dedicated!Next]_Dedicated!vars => DedicatedInv'
    /\ DedicatedInv => Dedicated!TypeOK /\ Dedicated!HandoffIsSound
<1>1. DedicatedInv => Dedicated!TypeOK
  <2>1. /\ Len(<<>>) <= 2 /\ Len(<<"root">>) <= 2 /\ Len(<<"child">>) <= 2
        /\ Len(<<"root", "child">>) <= 2 /\ Len(<<"child", "root">>) <= 2
    OBVIOUS
  <2>2. DedicatedInv => \/ rdv_queue = <<>> \/ rdv_queue = <<"root">> \/ rdv_queue = <<"child">>
                        \/ rdv_queue = <<"root", "child">> \/ rdv_queue = <<"child", "root">>
    BY DEF DedicatedInv, ThreadOK, Channel
  <2>3. DedicatedInv => Len(rdv_queue) <= 2
    BY <2>1, <2>2, Zenon
  <2> QED
    BY <2>3 DEF DedicatedInv, DedicatedType, CallerOK, Dedicated!TypeOK
<1>2. DedicatedInv => Dedicated!HandoffIsSound
  BY DEF DedicatedInv, Dedicated!HandoffIsSound
<1> QED
  BY <1>1, <1>2, DedicatedInit, DedicatedStep

-----------------------------------------------------------------------------
(* The clipboard of X11                                                    *)

\* The clipboard manager has been asked to save the text.
Asked == clip_app = "asked" \/ handover # "Idle"

\* Only the manager asks, and for the format that the text is stored in.
ManagerAlone == "peer" \notin Requesters /\ ManagerTargets = {"UTF8_STRING"}

IsRequest(e) == e.type = "SelectionRequest"
FromManager(e) == e.type = "SelectionNotify" \/ (IsRequest(e) /\ e.event.from = "manager")

\* What may be in the queue: requests that know of no text that is not stored yet, and messages of
\* the manager if it was asked.
QueuedEvents ==
    {e \in Clip!Event :
        /\ e.event.stored <= stored
        /\ FromManager(e) => Asked
        /\ IsRequest(e) /\ e.event.from = "manager" => e.event.target # Clip!TARGETS
        /\ IsRequest(e) /\ ManagerAlone => e.event.from = "manager" /\ e.event.target = "UTF8_STRING"}

\* The drop of the clipboard: the lock is held from before the manager is asked until the handover
\* is in progress, and nothing of the manager comes before it is asked.
DropOK ==
    /\ lock = "app" <=> clip_app \in {"sending", "asked"}
    /\ handover # "Idle" => clip_app \in {"waitingHandover", "destroying", "joining", "gone"}
    /\ clip_pending # {} => Asked
    /\ serve = "locking" /\ request.from = "manager" => Asked /\ request.target # Clip!TARGETS
    /\ serve = "locking" /\ ManagerAlone => request.from = "manager"

\* The serving thread's two flags and what they stand for.
FlagsOK ==
    /\ written \/ notified => handover # "Idle"
    /\ written /\ notified => handover = "Finished"
    /\ "contents" \in handled => handover = "Finished" \/ written
    /\ "notify" \in handled => handover = "Finished" \/ notified

\* The text that is served is the one whose write returned last, and it is there to be saved.
DataOK ==
    /\ data # None => data = stored /\ data # 0
    /\ IF clip_app = "storing" THEN text # 0 ELSE stored = text
    /\ reply.text # None => reply.text >= reply.of.stored

\* A text that is safe, and one that was when it was requested, is there and stays there until the
\* request is answered: no loss of the selection is on its way to the serving thread before it.
SafeQueue ==
    \A i \in 1..Len(clip_queue) :
        IsRequest(clip_queue[i]) /\ clip_queue[i].event.safe =>
            /\ data # None
            /\ \A j \in 1..(i - 1) : clip_queue[j].type # "SelectionClear"

SafeOK ==
    /\ safe => data # None /\ Clip!KnowsLosses
    /\ SafeQueue
    /\ reply.of.target = "UTF8_STRING" /\ reply.of.safe => reply.text # None

SavedOK ==
    ManagerAlone /\ safe /\ (serve = "locking" \/ written \/ handover = "Finished") => saved = text

\* The inductive invariant.
ClipInv == /\ Clip!TypeOK /\ clip_queue \in Seq(QueuedEvents) /\ handled \subseteq {"contents", "notify"}
           /\ DropOK /\ FlagsOK /\ DataOK /\ SafeOK /\ SavedOK

LEMMA SeqOfMore ==
    ASSUME NEW S, NEW T, S \subseteq T, NEW s \in Seq(S)
    PROVE  s \in Seq(T)
  OBVIOUS

LEMMA ClipInit == Clip!ConstantsAssumption /\ Clip!Init => ClipInv
<1> SUFFICES ASSUME Clip!ConstantsAssumption, Clip!Init PROVE ClipInv
  OBVIOUS
<1>1. Clip!NoRequest \in Clip!Request
  BY DEF Clip!NoRequest, Clip!Request, Clip!Targets, Clip!TARGETS
<1>2. Clip!TypeOK
  <2>1. /\ text \in 0..MaxWrites /\ stored \in 0..text /\ losses \in 0..MaxLosses
        /\ asked \in 0..MaxRequests
    BY DEF Clip!Init, Clip!ConstantsAssumption
  <2>2. safe \in BOOLEAN /\ written \in BOOLEAN /\ notified \in BOOLEAN
    BY DEF Clip!Init
  <2>3. request \in Clip!Request /\ clip_queue \in Seq(Clip!Event)
    BY <1>1, EmptySeq DEF Clip!Init
  <2>4. data \in {None} \cup 1..MaxWrites /\ clip_pending \subseteq {"contents", "notify"}
    BY DEF Clip!Init
  <2> QED
    BY <2>1, <2>2, <2>3, <2>4 DEF Clip!Init, Clip!TypeOK
<1>3. clip_queue \in Seq(QueuedEvents)
  BY EmptySeq DEF Clip!Init
<1>4. DropOK /\ FlagsOK
  BY DEF Clip!Init, DropOK, FlagsOK, Asked
<1>5. DataOK /\ SavedOK /\ SafeOK
  BY DEF Clip!Init, DataOK, SavedOK, SafeOK, SafeQueue, Clip!NoReply, Clip!NoRequest, Asked
<1> QED
  BY <1>2, <1>3, <1>4, <1>5 DEF ClipInv, Clip!Init

LEMMA MoreQueued ==
    ASSUME Clip!TypeOK, stored' \in Nat, stored <= stored', Asked => Asked'
    PROVE  QueuedEvents \subseteq QueuedEvents'
<1>1. stored \in Nat
  BY DEF Clip!TypeOK
<1>2. \A e \in Clip!Event : e.event.stored \in Nat
  BY DEF Clip!Event, Clip!Request
<1>3. \A e \in Clip!Event : e.event.stored <= stored => e.event.stored <= stored'
  BY <1>1, <1>2
<1> QED
  BY <1>3 DEF QueuedEvents

LEMMA QueueKept ==
    ASSUME clip_queue \in Seq(QueuedEvents), clip_queue' = clip_queue, QueuedEvents \subseteq QueuedEvents'
    PROVE  clip_queue' \in Seq(QueuedEvents')
  BY SeqOfMore

LEMMA QueueTaken ==
    ASSUME clip_queue \in Seq(QueuedEvents), NEW type, Clip!NextIs(type), QueuedEvents \subseteq QueuedEvents'
    PROVE  /\ Head(clip_queue) \in QueuedEvents /\ Head(clip_queue).type = type
           /\ clip_queue' \in Seq(QueuedEvents')
<1>1. clip_queue # <<>> /\ Head(clip_queue).type = type /\ clip_queue' = Tail(clip_queue)
  BY DEF Clip!NextIs
<1>2. Head(clip_queue) \in QueuedEvents /\ Tail(clip_queue) \in Seq(QueuedEvents)
  BY <1>1, HeadTailProperties
<1> QED
  BY <1>1, <1>2, SeqOfMore

LEMMA QueueSent ==
    ASSUME clip_queue \in Seq(QueuedEvents), QueuedEvents \subseteq QueuedEvents', NEW type, NEW event,
           Clip!Send(type, event), [type |-> type, event |-> event] \in QueuedEvents'
    PROVE  clip_queue' \in Seq(QueuedEvents')
<1>1. clip_queue \in Seq(QueuedEvents')
  BY SeqOfMore
<1>2. clip_queue' = Append(clip_queue, [type |-> type, event |-> event])
  BY DEF Clip!Send
<1> QED
  BY <1>1, <1>2, AppendProperties

\* The X server, the peer and the manager.
LEMMA ClipOutsideStep ==
    ASSUME Clip!ConstantsAssumption, ClipInv,
           \/ Clip!TakeSelection \/ Clip!ManagerNotifies
           \/ \E t \in Clip!Targets : Clip!PeerRequests(t)
           \/ \E t \in ManagerTargets : Clip!ManagerRequests(t),
           SafeOK'
    PROVE  ClipInv'
<1>0. /\ stored \in Nat /\ losses \in Nat /\ asked \in Nat
      /\ Clip!NoRequest \in Clip!Request /\ Clip!NoRequest.stored = 0
  BY DEF ClipInv, Clip!TypeOK, Clip!NoRequest, Clip!Request, Clip!Targets, Clip!TARGETS
<1>1. UNCHANGED <<data, clip_app, text, stored, handover, lock, serve, request, written, notified, reply, handled,
                  saved>>
  BY DEF Clip!TakeSelection, Clip!ManagerNotifies, Clip!PeerRequests, Clip!ManagerRequests,
     Clip!appvars, Clip!servevars, Clip!observed
<1>2. Asked' <=> Asked
  BY <1>1 DEF Asked
<1>3. /\ losses' \in 0..MaxLosses /\ safe' \in BOOLEAN /\ (safe' => safe)
      /\ asked' \in 0..MaxRequests
      /\ clip_pending' \subseteq clip_pending /\ clip_owner' \in {"none", "us", "other"}
  <2>1. CASE Clip!TakeSelection
    <3>1. safe' = FALSE
      BY <2>1 DEF Clip!TakeSelection
    <3>2. /\ losses' \in 0..MaxLosses /\ asked' = asked
          /\ clip_pending' = clip_pending /\ clip_owner' = "other"
      BY <2>1, <1>0 DEF Clip!TakeSelection, ClipInv, Clip!TypeOK, Clip!ConstantsAssumption
    <3> QED
      BY <3>1, <3>2 DEF ClipInv, Clip!TypeOK
  <2>2. CASE Clip!ManagerNotifies
    BY <2>2, <1>0 DEF Clip!ManagerNotifies, ClipInv, Clip!TypeOK, Clip!lossvars
  <2>3. ASSUME NEW t, Clip!PeerRequests(t)
        PROVE  /\ losses' = losses /\ safe' = safe /\ asked' \in 0..MaxRequests
               /\ clip_pending' = clip_pending /\ clip_owner' = clip_owner
    BY <2>3, <1>0 DEF Clip!PeerRequests, ClipInv, Clip!TypeOK, Clip!ConstantsAssumption, Clip!lossvars
  <2>4. ASSUME NEW t, Clip!ManagerRequests(t)
        PROVE  /\ losses' = losses /\ safe' = safe /\ asked' = asked
               /\ clip_pending' \subseteq clip_pending /\ clip_owner' = clip_owner
    BY <2>4 DEF Clip!ManagerRequests, ClipInv, Clip!TypeOK, Clip!lossvars
  <2> QED
    BY <2>1, <2>2, <2>3, <2>4, <1>0 DEF ClipInv, Clip!TypeOK
<1>4. stored' \in Nat
  BY <1>0, <1>1
<1>5. QueuedEvents \subseteq QueuedEvents'
  BY <1>0, <1>1, <1>2, <1>3, <1>4, MoreQueued DEF ClipInv
<1>6. clip_queue' \in Seq(QueuedEvents')
  <2>1. CASE Clip!TakeSelection
    <3>2. [type |-> "SelectionClear", event |-> Clip!NoRequest] \in QueuedEvents'
      BY <1>0, <1>4 DEF QueuedEvents, Clip!Event, IsRequest, FromManager
    <3> QED
      BY <2>1, <3>2, <1>5, QueueSent DEF Clip!TakeSelection, ClipInv
  <2>2. CASE Clip!ManagerNotifies
    <3>1. Asked'
      BY <2>2, <1>2 DEF Clip!ManagerNotifies, ClipInv, DropOK
    <3>2. [type |-> "SelectionNotify", event |-> Clip!NoRequest] \in QueuedEvents'
      BY <3>1, <1>0, <1>4 DEF QueuedEvents, Clip!Event, IsRequest, FromManager
    <3> QED
      BY <2>2, <3>2, <1>5, QueueSent DEF Clip!ManagerNotifies, ClipInv
  <2>3. ASSUME NEW t \in Clip!Targets, Clip!PeerRequests(t)
        PROVE  clip_queue' \in Seq(QueuedEvents')
    <3> DEFINE r == [from |-> "peer", target |-> t, safe |-> safe, stored |-> stored]
    <3>1. ~ManagerAlone /\ Clip!Send("SelectionRequest", r)
      BY <2>3 DEF Clip!PeerRequests, Clip!Convert, ManagerAlone
    <3>2. r \in Clip!Request
      BY <1>0 DEF Clip!Request, ClipInv, Clip!TypeOK
    <3>3. [type |-> "SelectionRequest", event |-> r] \in QueuedEvents'
      BY <3>1, <3>2, <1>0, <1>1 DEF QueuedEvents, Clip!Event, IsRequest, FromManager
    <3> HIDE DEF r
    <3> QED
      BY <3>1, <3>3, <1>5, QueueSent DEF ClipInv
  <2>4. ASSUME NEW t \in ManagerTargets, Clip!ManagerRequests(t)
        PROVE  clip_queue' \in Seq(QueuedEvents')
    <3> DEFINE r == [from |-> "manager", target |-> t, safe |-> safe, stored |-> stored]
    <3>1. /\ Asked' /\ Clip!Send("SelectionRequest", r) /\ t \in {"UTF8_STRING", "UTF8_MIME_0"}
      BY <2>4, <1>2 DEF Clip!ManagerRequests, Clip!Convert, ClipInv, DropOK,
         Clip!ConstantsAssumption
    <3>2. r \in Clip!Request
      BY <3>1, <1>0 DEF Clip!Request, Clip!Targets, ClipInv, Clip!TypeOK
    <3>3. [type |-> "SelectionRequest", event |-> r] \in QueuedEvents'
      BY <3>1, <3>2, <1>0, <1>1 DEF QueuedEvents, Clip!Event, IsRequest, FromManager, ManagerAlone,
         Clip!TARGETS
    <3> HIDE DEF r
    <3> QED
      BY <3>1, <3>3, <1>5, QueueSent DEF ClipInv
  <2> QED
    BY <2>1, <2>2, <2>3, <2>4
<1>7. clip_queue' \in Seq(Clip!Event)
  <2>1. QueuedEvents' \subseteq Clip!Event
    BY DEF QueuedEvents
  <2> QED
    BY <2>1, <1>6, SeqOfMore
<1>8. Clip!TypeOK'
  BY <1>1, <1>3, <1>7 DEF ClipInv, Clip!TypeOK
<1>9. DropOK' /\ FlagsOK'
  BY <1>1, <1>2, <1>3 DEF ClipInv, DropOK, FlagsOK
<1>10. DataOK' /\ SavedOK'
  BY <1>1, <1>2, <1>3 DEF ClipInv, DataOK, SavedOK
<1> QED
  BY <1>1, <1>6, <1>8, <1>9, <1>10 DEF ClipInv

\* The application thread.
LEMMA ClipAppStep ==
    ASSUME Clip!ConstantsAssumption, ClipInv,
           \/ UNCHANGED Clip!vars \/ Clip!Write \/ Clip!Store \/ Clip!Drop \/ Clip!LockHandover
           \/ Clip!WaitForHandover \/ Clip!HandoverEnds \/ Clip!DestroyWindow \/ Clip!Join
           \/ \E messages \in SUBSET {"contents", "notify"} : Clip!AskManager(messages),
           SafeOK'
    PROVE  ClipInv'
<1>0. /\ stored \in Nat /\ losses \in Nat /\ text \in Nat
      /\ Clip!NoRequest \in Clip!Request /\ Clip!NoRequest.stored = 0
  BY DEF ClipInv, Clip!TypeOK, Clip!NoRequest, Clip!Request, Clip!Targets, Clip!TARGETS,
     Clip!ConstantsAssumption
<1>1. UNCHANGED <<losses, asked, serve, request, written, notified, reply, handled, saved>>
  BY DEF Clip!vars, Clip!Write, Clip!Store, Clip!Drop, Clip!LockHandover, Clip!WaitForHandover,
     Clip!HandoverEnds, Clip!DestroyWindow, Clip!Join, Clip!AskManager, Clip!servevars,
     Clip!observed, Clip!appvars, Clip!lossvars
<1>2. stored' \in Nat /\ stored <= stored' /\ (Asked => Asked')
  BY <1>0 DEF Clip!vars, Clip!Write, Clip!Store, Clip!Drop, Clip!LockHandover, Clip!WaitForHandover,
     Clip!HandoverEnds, Clip!DestroyWindow, Clip!Join, Clip!AskManager, Clip!servevars,
     Clip!observed, Clip!appvars, Asked, ClipInv, Clip!TypeOK, DropOK
<1>3. QueuedEvents \subseteq QueuedEvents'
  BY <1>0, <1>1, <1>2, MoreQueued DEF ClipInv
<1>4. clip_queue' \in Seq(QueuedEvents')
  <2>1. CASE Clip!DestroyWindow
    <3>1. [type |-> "DestroyNotify", event |-> Clip!NoRequest] \in QueuedEvents'
      BY <1>0, <1>2 DEF QueuedEvents, Clip!Event, IsRequest, FromManager
    <3> QED
      BY <2>1, <3>1, <1>3, QueueSent DEF Clip!DestroyWindow, ClipInv
  <2>2. CASE clip_queue' = clip_queue
    BY <2>2, <1>3, QueueKept DEF ClipInv
  <2> QED
    BY <2>1, <2>2 DEF Clip!vars, Clip!Write, Clip!Store, Clip!Drop, Clip!LockHandover,
       Clip!WaitForHandover, Clip!HandoverEnds, Clip!Join, Clip!AskManager
<1>5. clip_queue' \in Seq(Clip!Event)
  <2>1. QueuedEvents' \subseteq Clip!Event
    BY DEF QueuedEvents
  <2> QED
    BY <2>1, <1>4, SeqOfMore
<1> USE DEF ClipInv, Clip!TypeOK, DropOK, FlagsOK, DataOK, SavedOK, Asked, Clip!appvars,
        Clip!ConstantsAssumption, Clip!lossvars
<1>6. CASE UNCHANGED Clip!vars
  BY <1>1, <1>4, <1>5, <1>6 DEF Clip!vars
<1>7. CASE Clip!Write
  BY <1>0, <1>1, <1>4, <1>5, <1>7 DEF Clip!Write
<1>8. CASE Clip!Store
  <2>1. Clip!KnowsLosses \in BOOLEAN
    BY DEF Clip!KnowsLosses
  <2> QED
    BY <1>0, <1>1, <1>4, <1>5, <1>8, <2>1 DEF Clip!Store
<1>9. CASE Clip!Drop
  BY <1>0, <1>1, <1>4, <1>5, <1>9 DEF Clip!Drop
<1>10. CASE Clip!LockHandover
  BY <1>0, <1>1, <1>4, <1>5, <1>10 DEF Clip!LockHandover
<1>11. CASE Clip!WaitForHandover
  BY <1>0, <1>1, <1>4, <1>5, <1>11 DEF Clip!WaitForHandover
<1>12. CASE Clip!HandoverEnds
  BY <1>0, <1>1, <1>4, <1>5, <1>12 DEF Clip!HandoverEnds
<1>13. CASE Clip!DestroyWindow
  BY <1>0, <1>1, <1>4, <1>5, <1>13 DEF Clip!DestroyWindow
<1>14. CASE Clip!Join
  BY <1>0, <1>1, <1>4, <1>5, <1>14 DEF Clip!Join
<1>15. ASSUME NEW messages \in SUBSET {"contents", "notify"}, Clip!AskManager(messages)
       PROVE  ClipInv'
  BY <1>0, <1>1, <1>4, <1>5, <1>15 DEF Clip!AskManager
<1> QED
  BY <1>6, <1>7, <1>8, <1>9, <1>10, <1>11, <1>12, <1>13, <1>14, <1>15

\* The serving thread.
LEMMA ClipServeStep ==
    ASSUME Clip!ConstantsAssumption, ClipInv, Clip!Serve \/ Clip!ServeFails, SafeOK'
    PROVE  ClipInv'
<1>0. stored \in Nat /\ losses \in Nat /\ text \in Nat
  BY DEF ClipInv, Clip!TypeOK, Clip!ConstantsAssumption
<1>1. UNCHANGED <<clip_owner, clip_app, text, stored, losses, safe, asked, lock, clip_pending>>
  BY DEF Clip!Serve, Clip!ServeFails, Clip!SelectionClear, Clip!SelectionRequest, Clip!RequestDone,
     Clip!SelectionNotify, Clip!DestroyNotify, Clip!Return, Clip!appvars, Clip!lossvars
<1>2. Asked => Asked'
  <2>1. handover' \in {handover, "Finished"}
    BY DEF Clip!Serve, Clip!ServeFails, Clip!SelectionClear, Clip!SelectionRequest,
       Clip!RequestDone, Clip!SelectionNotify, Clip!DestroyNotify, Clip!Return
  <2> QED
    BY <1>1, <2>1 DEF Asked
<1>3. QueuedEvents \subseteq QueuedEvents'
  BY <1>0, <1>1, <1>2, MoreQueued DEF ClipInv
<1>4. QueuedEvents' \subseteq Clip!Event
  BY DEF QueuedEvents
<1>5. CASE Clip!SelectionClear
  <2>1. Head(clip_queue) \in QueuedEvents /\ Head(clip_queue).type = "SelectionClear" /\ clip_queue' \in Seq(QueuedEvents')
    BY <1>3, <1>5, QueueTaken DEF Clip!SelectionClear, ClipInv
  <2>2. ~safe
    BY <1>5 DEF Clip!SelectionClear, Clip!NextIs, ClipInv, SafeOK, Clip!KnowsLosses
  <2>3. /\ data' = None
        /\ UNCHANGED <<handover, serve, request, written, notified, reply, handled, saved>>
    BY <1>5 DEF Clip!SelectionClear, Clip!servevars, Clip!observed
  <2>4. Clip!TypeOK'
    BY <1>1, <1>4, <2>1, <2>3, SeqOfMore DEF ClipInv, Clip!TypeOK
  <2> QED
    BY <1>0, <1>1, <2>1, <2>2, <2>3, <2>4 DEF ClipInv, DropOK, FlagsOK, DataOK, SavedOK, Asked
<1>6. CASE Clip!SelectionRequest
  <2>1. /\ Head(clip_queue) \in QueuedEvents /\ Head(clip_queue).type = "SelectionRequest"
        /\ clip_queue' \in Seq(QueuedEvents')
    BY <1>3, <1>6, QueueTaken DEF Clip!SelectionRequest, ClipInv
  <2> DEFINE r == Head(clip_queue).event
             found == Clip!Found(r.target)
  <2>2. /\ r \in Clip!Request /\ r.stored <= stored
        /\ r.from = "manager" => Asked /\ r.target # Clip!TARGETS
        /\ ManagerAlone => r.from = "manager" /\ r.target = "UTF8_STRING" /\ Asked
    BY <2>1 DEF QueuedEvents, IsRequest, FromManager, Clip!Event
  <2>3. /\ reply'.text = IF found THEN data ELSE None
        /\ reply'.of = r
        /\ saved' = IF r.from = "manager" /\ found THEN data ELSE saved
        /\ request' = r /\ serve' = "locking"
        /\ UNCHANGED <<data, handover, written, notified, handled>>
    BY <1>6 DEF Clip!SelectionRequest
  <2> HIDE DEF r
  <2>4. Clip!TypeOK'
    BY <1>1, <1>4, <2>1, <2>2, <2>3, SeqOfMore DEF ClipInv, Clip!TypeOK
  <2>5. DropOK' /\ FlagsOK'
    BY <1>1, <2>2, <2>3 DEF ClipInv, DropOK, FlagsOK, Asked
  <2>6. DataOK'
    <3>1. r.stored \in Nat
      BY <2>2 DEF Clip!Request
    <3>2. reply'.text # None => reply'.text >= reply'.of.stored
      BY <3>1, <1>0, <2>2, <2>3 DEF ClipInv, DataOK, Clip!Found
    <3> QED
      BY <3>2, <1>1, <2>3 DEF ClipInv, DataOK, Asked
  <2>7. SavedOK'
    <3>1. CASE ManagerAlone /\ safe
      <4>1. Asked /\ data # None /\ r.target = "UTF8_STRING" /\ r.from = "manager"
        BY <3>1, <2>2 DEF ClipInv, SafeOK
      <4>2. data = text
        BY <4>1 DEF ClipInv, DataOK, DropOK, Asked
      <4> QED
        BY <4>1, <4>2, <1>1, <2>3 DEF SavedOK, Clip!Found
    <3>2. CASE ~(ManagerAlone /\ safe)
      BY <3>2, <1>1 DEF SavedOK
    <3> QED
      BY <3>1, <3>2
  <2> QED
    BY <2>1, <2>3, <2>4, <2>5, <2>6, <2>7 DEF ClipInv
<1>7. CASE Clip!RequestDone
  <2> DEFINE content == handover = "InProgress" /\ request.target # Clip!TARGETS
  <2>1. /\ serve = "locking" /\ lock = "free" /\ serve' = "waiting"
        /\ written' = (written \/ content)
        /\ handover' = IF content /\ notified THEN "Finished" ELSE handover
        /\ handled' = IF request.from = "manager" THEN handled \cup {"contents"} ELSE handled
        /\ UNCHANGED <<clip_queue, data, request, notified, reply, saved>>
    BY <1>7 DEF Clip!RequestDone
  <2>2. clip_queue' \in Seq(QueuedEvents')
    BY <1>3, <2>1, QueueKept DEF ClipInv
  <2>3. written' \in BOOLEAN
    BY <2>1, Zenon DEF ClipInv, Clip!TypeOK
  <2>4. Clip!TypeOK'
    BY <1>1, <1>4, <2>1, <2>2, <2>3, SeqOfMore DEF ClipInv, Clip!TypeOK
  <2>5. request.from = "manager" => handover # "Idle" /\ request.target # Clip!TARGETS
    BY <2>1 DEF ClipInv, DropOK, Asked
  <2>6. handover \in {"Idle", "InProgress", "Finished"}
    BY DEF ClipInv, Clip!TypeOK
  <2>7. DropOK'
    BY <1>1, <2>1 DEF ClipInv, DropOK, Asked
  <2>8. FlagsOK'
    BY <2>1, <2>5, <2>6 DEF ClipInv, FlagsOK
  <2>9. DataOK' /\ SavedOK'
    BY <1>1, <2>1 DEF ClipInv, DataOK, SavedOK, Asked
  <2> QED
    BY <2>1, <2>2, <2>4, <2>7, <2>8, <2>9 DEF ClipInv
<1>8. CASE Clip!SelectionNotify
  <2>1. /\ Head(clip_queue) \in QueuedEvents /\ Head(clip_queue).type = "SelectionNotify"
        /\ clip_queue' \in Seq(QueuedEvents')
    BY <1>3, <1>8, QueueTaken DEF Clip!SelectionNotify, ClipInv
  <2>2. /\ lock = "free"
        /\ notified' = (notified \/ handover = "InProgress")
        /\ handover' = IF handover = "InProgress" /\ written THEN "Finished" ELSE handover
        /\ handled' = handled \cup {"notify"}
        /\ UNCHANGED <<data, serve, request, written, reply, saved>>
    BY <1>8 DEF Clip!SelectionNotify
  <2>3. notified' \in BOOLEAN
    BY <2>2, Zenon DEF ClipInv, Clip!TypeOK
  <2>4. Clip!TypeOK'
    BY <1>1, <1>4, <2>1, <2>2, <2>3, SeqOfMore DEF ClipInv, Clip!TypeOK
  <2>5. handover \in {"InProgress", "Finished"}
    <3>1. Asked
      BY <2>1 DEF QueuedEvents, FromManager
    <3> QED
      BY <3>1, <2>2 DEF Asked, ClipInv, DropOK, Clip!TypeOK
  <2>6. DropOK'
    BY <1>1, <2>2 DEF ClipInv, DropOK, Asked
  <2>7. FlagsOK'
    BY <2>2, <2>5 DEF ClipInv, FlagsOK
  <2>8. DataOK' /\ SavedOK'
    BY <1>1, <2>2 DEF ClipInv, DataOK, SavedOK, Asked
  <2> QED
    BY <2>1, <2>2, <2>4, <2>6, <2>7, <2>8 DEF ClipInv
<1>9. CASE Clip!DestroyNotify \/ Clip!Return \/ Clip!ServeFails
  <2>1. /\ serve' \in {"returning", "stopped"}
        /\ UNCHANGED <<data, handover, request, written, notified, reply, handled, saved>>
    BY <1>9 DEF Clip!DestroyNotify, Clip!Return, Clip!ServeFails, Clip!observed
  <2>2. clip_queue' \in Seq(QueuedEvents')
    BY <1>3, <1>9, QueueKept, QueueTaken DEF ClipInv, Clip!DestroyNotify, Clip!Return,
       Clip!ServeFails
  <2>3. Clip!TypeOK'
    BY <1>1, <1>4, <2>1, <2>2, SeqOfMore DEF ClipInv, Clip!TypeOK
  <2> QED
    BY <1>1, <2>1, <2>2, <2>3 DEF ClipInv, DropOK, FlagsOK, DataOK, SavedOK, Asked
<1> QED
  BY <1>5, <1>6, <1>7, <1>8, <1>9 DEF Clip!Serve

\* The new event is last in the queue.
LEMMA SafeSent ==
    ASSUME ClipInv, NEW type, NEW event, Clip!Send(type, event), data' = data,
           type = "SelectionRequest" => event.safe = safe
    PROVE  SafeQueue'
<1> DEFINE e == [type |-> type, event |-> event]
<1>1. clip_queue \in Seq(QueuedEvents) /\ clip_queue' = Append(clip_queue, e)
  BY DEF Clip!Send, ClipInv
<1>2. /\ Len(clip_queue) \in Nat /\ Len(clip_queue') = Len(clip_queue) + 1
      /\ clip_queue'[Len(clip_queue) + 1] = e
      /\ \A i \in 1..Len(clip_queue) : clip_queue'[i] = clip_queue[i]
  BY <1>1
<1>3. DOMAIN clip_queue = 1..Len(clip_queue)
  BY <1>1
<1>4. IsRequest(e) /\ e.event.safe => data # None /\ Clip!KnowsLosses
  BY DEF IsRequest, ClipInv, SafeOK
<1> HIDE DEF e
<1> QED
  BY <1>2, <1>3, <1>4 DEF ClipInv, SafeOK, SafeQueue, Clip!KnowsLosses

\* The first event leaves the queue.
LEMMA SafeTaken ==
    ASSUME ClipInv, clip_queue # <<>>, clip_queue' = Tail(clip_queue),
           data' = data \/ Head(clip_queue).type = "SelectionClear"
    PROVE  SafeQueue'
<1>1. clip_queue \in Seq(QueuedEvents)
  BY DEF ClipInv
<1>2. /\ Len(clip_queue) \in Nat /\ Len(clip_queue) > 0 /\ Len(clip_queue') = Len(clip_queue) - 1
      /\ \A i \in 1..Len(clip_queue') : clip_queue'[i] = clip_queue[i + 1]
      /\ Head(clip_queue) = clip_queue[1]
  BY <1>1
<1> QED
  BY <1>2 DEF ClipInv, SafeOK, SafeQueue

\* A safe text stays there.
LEMMA SafeStep ==
    ASSUME Clip!ConstantsAssumption, ClipInv, [Clip!Next]_Clip!vars
    PROVE  SafeOK'
<1>1. CASE Clip!TakeSelection
  BY <1>1, SafeSent DEF Clip!TakeSelection, SafeOK, ClipInv, Clip!observed
<1>2. ASSUME NEW from, NEW t, Clip!Convert(from, t), UNCHANGED <<data, safe, reply>>
      PROVE  SafeOK'
  <2> DEFINE r == [from |-> from, target |-> t, safe |-> safe, stored |-> stored]
  <2>1. Clip!Send("SelectionRequest", r) /\ r.safe = safe
    BY <1>2 DEF Clip!Convert
  <2>2. Clip!KnowsLosses => Clip!KnowsLosses'
    <3>1. clip_queue \in Seq(QueuedEvents)
      BY DEF ClipInv
    <3> HIDE DEF r
    <3> QED
      BY <2>1, <3>1 DEF Clip!Send, Clip!KnowsLosses
  <2> HIDE DEF r
  <2>3. SafeQueue'
    BY <2>1, <1>2, SafeSent
  <2> QED
    BY <1>2, <2>2, <2>3 DEF SafeOK, ClipInv
<1>3. CASE Clip!ManagerNotifies \/ Clip!DestroyWindow
  <2>1. PICK type \in {"SelectionNotify", "DestroyNotify"} : Clip!Send(type, Clip!NoRequest)
    BY <1>3 DEF Clip!ManagerNotifies, Clip!DestroyWindow
  <2>2. UNCHANGED <<data, safe, reply>>
    BY <1>3 DEF Clip!ManagerNotifies, Clip!DestroyWindow, Clip!lossvars, Clip!observed
  <2>3. Clip!KnowsLosses => Clip!KnowsLosses'
    <3>1. clip_queue \in Seq(QueuedEvents)
      BY DEF ClipInv
    <3> QED
      BY <2>1, <3>1 DEF Clip!Send, Clip!KnowsLosses
  <2>4. SafeQueue'
    BY <2>1, <2>2, SafeSent
  <2> QED
    BY <2>2, <2>3, <2>4 DEF SafeOK, ClipInv
<1>4. CASE Clip!Store
  <2>1. /\ data' = text /\ data' # None /\ safe' = Clip!KnowsLosses
        /\ UNCHANGED <<clip_queue, reply>>
    BY <1>4 DEF Clip!Store, Clip!observed, ClipInv, Clip!TypeOK, Clip!ConstantsAssumption
  <2> QED
    BY <2>1 DEF SafeOK, SafeQueue, ClipInv, Clip!KnowsLosses
<1>5. CASE Clip!SelectionClear
  <2>1. /\ clip_queue # <<>> /\ clip_queue' = Tail(clip_queue)
        /\ Head(clip_queue).type = "SelectionClear" /\ UNCHANGED <<safe, reply>>
    BY <1>5 DEF Clip!SelectionClear, Clip!NextIs, Clip!lossvars, Clip!observed
  <2>2. ~safe
    BY <2>1 DEF ClipInv, SafeOK, Clip!KnowsLosses
  <2>3. SafeQueue'
    BY <2>1, SafeTaken
  <2> QED
    BY <2>1, <2>2, <2>3 DEF SafeOK, ClipInv
<1>6. CASE Clip!SelectionRequest \/ Clip!SelectionNotify \/ Clip!DestroyNotify
  <2>1. clip_queue # <<>> /\ clip_queue' = Tail(clip_queue) /\ UNCHANGED <<safe, data>>
    BY <1>6 DEF Clip!SelectionRequest, Clip!SelectionNotify, Clip!DestroyNotify, Clip!NextIs,
       Clip!lossvars
  <2>2. clip_queue \in Seq(QueuedEvents)
    BY DEF ClipInv
  <2>3. Clip!KnowsLosses => Clip!KnowsLosses'
    BY <2>1, <2>2 DEF Clip!KnowsLosses
  <2>4. SafeQueue'
    BY <2>1, SafeTaken
  <2>5. reply'.of.target = "UTF8_STRING" /\ reply'.of.safe => reply'.text # None
    <3>1. CASE Clip!SelectionRequest
      <4>1. /\ IsRequest(clip_queue[1])
            /\ reply'.of = clip_queue[1].event
            /\ reply'.text = IF Clip!Found(clip_queue[1].event.target) THEN data ELSE None
        BY <3>1 DEF Clip!SelectionRequest, Clip!NextIs, IsRequest
      <4>2. 1 \in 1..Len(clip_queue)
        BY <2>1, <2>2
      <4> QED
        BY <4>1, <4>2 DEF ClipInv, SafeOK, SafeQueue, Clip!Found
    <3>2. CASE reply' = reply
      BY <3>2 DEF ClipInv, SafeOK
    <3> QED
      BY <1>6, <3>1, <3>2 DEF Clip!SelectionNotify, Clip!DestroyNotify, Clip!observed
  <2> QED
    BY <2>1, <2>3, <2>4, <2>5 DEF SafeOK, ClipInv
<1>7. CASE UNCHANGED <<data, safe, reply, clip_queue>>
  BY <1>7 DEF SafeOK, SafeQueue, Clip!KnowsLosses, ClipInv
<1>8. CASE Clip!Write \/ Clip!Drop \/ Clip!LockHandover \/ Clip!WaitForHandover \/ Clip!HandoverEnds
           \/ Clip!Join \/ Clip!RequestDone \/ Clip!Return \/ Clip!ServeFails
           \/ UNCHANGED Clip!vars
           \/ \E messages \in SUBSET {"contents", "notify"} : Clip!AskManager(messages)
  BY <1>7, <1>8 DEF Clip!vars, Clip!Write, Clip!Drop, Clip!LockHandover, Clip!WaitForHandover,
     Clip!HandoverEnds, Clip!Join, Clip!AskManager, Clip!RequestDone, Clip!Return,
     Clip!ServeFails, Clip!lossvars, Clip!observed
<1>9. CASE \/ \E t \in Clip!Targets : Clip!PeerRequests(t)
           \/ \E t \in ManagerTargets : Clip!ManagerRequests(t)
  BY <1>2, <1>9 DEF Clip!PeerRequests, Clip!ManagerRequests, Clip!lossvars, Clip!observed
<1> QED
  BY <1>1, <1>3, <1>4, <1>5, <1>6, <1>8, <1>9 DEF Clip!Next, Clip!App, Clip!Serve, Clip!Gone

LEMMA ClipInductive ==
    ASSUME Clip!ConstantsAssumption
    PROVE  /\ Clip!Init => ClipInv
           /\ ClipInv /\ [Clip!Next]_Clip!vars => ClipInv'
           /\ ClipInv => Clip!TypeOK /\ Clip!ClipboardIsWhole
<1>1. Clip!Init => ClipInv
  BY ClipInit
<1>2. ClipInv /\ [Clip!Next]_Clip!vars => ClipInv'
  BY SafeStep, ClipOutsideStep, ClipAppStep, ClipServeStep DEF Clip!Next, Clip!App, Clip!Gone
<1>3. ClipInv => Clip!TypeOK /\ Clip!ClipboardIsWhole
  BY DEF ClipInv, FlagsOK, DataOK, SafeOK, SavedOK, ManagerAlone, Clip!ClipboardIsWhole,
     Clip!ServedIsNotOlder, Clip!HandoverNotMissed, Clip!FinishedMeansSaved
<1> QED
  BY <1>1, <1>2, <1>3

-----------------------------------------------------------------------------
(* The reader's side of the clipboard of X11                               *)

MimeTypes == {"image/png", "UTF8_STRING", "STRING"}
Targets == MimeTypes \cup {Read!TARGETS}
Pieces == MimeTypes \X Nat

\* The conversions that a late answer can be to, in the fallback at format i after n timeouts:
\* without a timeout there are none, for each conversion was answered before the next.
PastOf(i, n) == IF n = 0 THEN {} ELSE {Read!TARGETS} \cup {Read!Formats[j] : j \in 1..(i - 1)}
Past == IF stage = "fallback" THEN PastOf(index, timeouts) ELSE {}

OldRequests(P) == {Read!Deleted} \cup {Read!Convert(t) : t \in P}
OldAnswers(P) == {Read!PropNotify} \cup {Read!SelNotify(t, ok) : t \in P, ok \in BOOLEAN}

\* The current conversion is the last that the owner has to answer, and what it answered
\* before are conversions that the reader gave up.
Asking ==
    /\ ~using_incr /\ incr_data = <<>>
    /\ \E old \in Seq(OldRequests(Past)) : inbox = old \o <<Read!Convert(target)>>
    /\ read_events \in Seq(OldAnswers(Past))

\* What a conversion that succeeds leaves in the property.
AnswerThere ==
    \/ target = Read!TARGETS /\ property = [type |-> "ATOM", value |-> <<supports>>]
    \/ target \in supports \ Large /\ property = [type |-> target, value |-> Read!Content(target)]
    \/ /\ target \in supports \cap Large
       /\ property = [type |-> "INCR", value |-> <<>>]
       /\ transfer = [format |-> target, rest |-> Read!Content(target)]

\* The current conversion is answered, and its notification is the last.
Answered ==
    /\ ~using_incr /\ incr_data = <<>> /\ inbox = <<>>
    /\ \E old \in Seq(OldAnswers(Past)), ok \in BOOLEAN :
        /\ read_events = old \o <<Read!SelNotify(target, ok)>>
        /\ IF ok THEN AnswerThere ELSE target \notin supports

\* A transfer in chunks: either the owner knows of the deletion, or the reader of the chunk.
AwaitsChunk ==
    /\ using_incr /\ target \in supports
    /\ inbox = <<Read!Deleted>> /\ read_events = <<>>
    /\ transfer.format = target
    /\ incr_data \o transfer.rest = Read!Content(target)

ChunkThere ==
    /\ using_incr /\ target \in supports
    /\ inbox = <<>> /\ read_events = <<Read!PropNotify>>
    /\ \/ /\ transfer.format = target
          /\ \E x \in Pieces : /\ property = [type |-> target, value |-> <<x>>]
                               /\ (incr_data \o <<x>>) \o transfer.rest = Read!Content(target)
       \/ property = [type |-> target, value |-> <<>>] /\ incr_data = Read!Content(target)

ReadTypes ==
    /\ supports \subseteq MimeTypes
    /\ lists \in BOOLEAN
    /\ inbox \in Seq(OldRequests(Targets))
    /\ transfer \in [format : MimeTypes \cup {"None"}, rest : Seq(Pieces)]
    /\ property.type \in MimeTypes \cup {"None", "ATOM", "INCR"}
    /\ read_events \in Seq(OldAnswers(Targets))
    /\ stage \in {"targets", "chosen", "fallback", "done"}
    /\ index \in 1..3
    /\ target \in Targets
    /\ using_incr \in BOOLEAN
    /\ incr_data \in Seq(Pieces)
    /\ timeouts \in 0..4

\* Where the reader is: what is converted, how many conversions can have timed out, and
\* what is known of the formats when none did.
ReadStage ==
    /\ stage = "targets" => target = Read!TARGETS /\ timeouts = 0
    /\ stage = "chosen" => target = Read!Formats[index] /\ timeouts = 0 /\ Read!IsPreferred(target)
    /\ stage = "fallback" => /\ target = Read!Formats[index]
                             /\ timeouts <= index
                             /\ timeouts = 0 =>
                                    \A j \in 1..3 : j < index => Read!Formats[j] \notin supports

ReadMode ==
    IF stage = "done" THEN Read!ReturnsWhole /\ Read!PromptOwnerIsRead
    ELSE ~result.ok /\ (Asking \/ Answered \/ AwaitsChunk \/ ChunkThere)

\* The inductive invariant.
ReadInv == ReadTypes /\ ReadStage /\ ReadMode

LEMMA FormatsAre ==
    /\ Read!Formats = <<"image/png", "UTF8_STRING", "STRING">>
    /\ Len(Read!Formats) = 3
    /\ DOMAIN Read!Formats = 1..3
    /\ \A i \in 1..3 : Read!Formats[i] \in MimeTypes
    /\ Read!Formats[1] = "image/png" /\ Read!Formats[2] = "UTF8_STRING"
    /\ Read!Formats[3] = "STRING"
    /\ Read!Range(Read!Formats) = MimeTypes
<1>1. /\ Read!Formats = <<"image/png", "UTF8_STRING", "STRING">>
      /\ Len(Read!Formats) = 3
      /\ DOMAIN Read!Formats = 1..3
      /\ \A i \in 1..3 : Read!Formats[i] \in MimeTypes
      /\ Read!Formats[1] = "image/png" /\ Read!Formats[2] = "UTF8_STRING"
      /\ Read!Formats[3] = "STRING"
  BY DEF Read!Formats, MimeTypes
<1>2. Read!Range(Read!Formats) = {Read!Formats[1], Read!Formats[2], Read!Formats[3]}
  BY <1>1 DEF Read!Range
<1> QED
  BY <1>1, <1>2 DEF MimeTypes

\* A content is a sequence of chunks.
LEMMA ContentType ==
    ASSUME Read!ConstantsAssumption, NEW f \in MimeTypes PROVE Read!Content(f) \in Seq(Pieces)
<1> DEFINE n == IF f \in Large THEN Chunks ELSE 1
<1>1. n \in Nat
  BY DEF Read!ConstantsAssumption
<1>2. Read!Content(f) \in [1..n -> Pieces]
  BY <1>1 DEF Read!Content, Pieces
<1> QED
  BY <1>1, <1>2

\* The first listed format is the preferred one.
LEMMA FirstListedIs ==
    ASSUME NEW S \in SUBSET MimeTypes
    PROVE  /\ Read!FirstListed(S) \in 0..3
           /\ Read!FirstListed(S) = 0 => S = {}
           /\ Read!FirstListed(S) # 0 =>
                /\ Read!Formats[Read!FirstListed(S)] \in S
                /\ \A j \in 1..3 : j < Read!FirstListed(S) => Read!Formats[j] \notin S
  BY FormatsAre DEF Read!FirstListed, Read!SelectInSeq, Read!Min, MimeTypes

\* What comes before the last element of a sequence is taken before it.
LEMMA TakeBeforeLast ==
    ASSUME NEW S, NEW old \in Seq(S), NEW c
    PROVE  /\ old \o <<c>> # <<>>
           /\ old = <<>> => Head(old \o <<c>>) = c /\ Tail(old \o <<c>>) = <<>>
           /\ old # <<>> => /\ Head(old \o <<c>>) \in S
                            /\ Tail(old) \in Seq(S)
                            /\ Tail(old \o <<c>>) = Tail(old) \o <<c>>
<1> DEFINE T == S \cup {c}
<1>1. old \in Seq(T) /\ <<c>> \in Seq(T) /\ old \o <<c>> \in Seq(T)
  BY SeqOfMore
<1>2. Len(old \o <<c>>) = Len(old) + 1 /\ old \o <<c>> # <<>>
  BY <1>1
<1>3. old = <<>> => old \o <<c>> = <<c>>
  BY <1>1, ConcatEmptySeq
<1>4. ASSUME old # <<>>
      PROVE  /\ Head(old \o <<c>>) \in S
             /\ Tail(old) \in Seq(S)
             /\ Tail(old \o <<c>>) = Tail(old) \o <<c>>
  <2>1. Tail(old) \in Seq(S) /\ Tail(old) \in Seq(T) /\ Len(old) \in Nat \ {0}
        /\ Len(Tail(old)) = Len(old) - 1
    BY <1>4, HeadTailProperties, EmptySeq, SeqOfMore
  <2>2. Head(old \o <<c>>) = Head(old) /\ Head(old) \in S
    BY <1>1, <1>4, <2>1, HeadTailProperties
  <2>3. Tail(old \o <<c>>) \in Seq(T) /\ Tail(old) \o <<c>> \in Seq(T)
    BY <1>1, <1>2, <2>1, HeadTailProperties, ConcatProperties
  <2>4. Len(Tail(old \o <<c>>)) = Len(old) /\ Len(Tail(old) \o <<c>>) = Len(old)
    BY <1>1, <1>2, <2>1, HeadTailProperties, ConcatProperties
  <2>5. \A i \in 1..Len(old) : Tail(old \o <<c>>)[i] = (Tail(old) \o <<c>>)[i]
    BY <1>1, <1>2, <2>1
  <2>6. Tail(old \o <<c>>) = Tail(old) \o <<c>>
    BY <2>3, <2>4, <2>5, SeqEqual
  <2> QED
    BY <2>1, <2>2, <2>6
<1> QED
  BY <1>2, <1>3, <1>4

LEMMA ReadInit == ASSUME Read!ConstantsAssumption PROVE Read!Init => ReadInv
<1> SUFFICES ASSUME Read!Init PROVE ReadInv
  OBVIOUS
<1>1. ReadTypes
  <2>1. inbox \in Seq(OldRequests(Targets)) /\ read_events \in Seq(OldAnswers(Targets))
    BY DEF Read!Init, OldRequests, Targets
  <2>2. /\ transfer \in [format : MimeTypes \cup {"None"}, rest : Seq(Pieces)]
        /\ incr_data \in Seq(Pieces)
    BY DEF Read!Init, Read!NoTransfer
  <2> QED
    <3>1. property.type = "None"
      BY DEF Read!Init, Read!NoProperty
    <3>2. supports \subseteq MimeTypes
      BY FormatsAre DEF Read!Init
    <3>3. lists \in BOOLEAN /\ using_incr \in BOOLEAN
      BY DEF Read!Init
    <3>4. stage \in {"targets", "chosen", "fallback", "done"} /\ target \in Targets
      BY DEF Read!Init, Targets
    <3>5. index \in 1..3 /\ timeouts \in 0..4
      BY DEF Read!Init
    <3> QED
      BY <2>1, <2>2, <3>1, <3>2, <3>3, <3>4, <3>5 DEF ReadTypes
<1>2. Asking
  <2>1. <<>> \o <<Read!Convert(target)>> = <<Read!Convert(target)>>
    BY <1>1, ConcatEmptySeq DEF ReadTypes
  <2>2. <<>> \in Seq(OldRequests(Past)) /\ <<>> \in Seq(OldAnswers(Past))
    BY EmptySeq
  <2>3. \E old \in Seq(OldRequests(Past)) : inbox = old \o <<Read!Convert(target)>>
    BY <2>1, <2>2 DEF Read!Init
  <2> QED
    BY <2>2, <2>3 DEF Read!Init, Asking
<1> QED
  BY <1>1, <1>2 DEF Read!Init, ReadInv, ReadStage, ReadMode, Read!Pending

\* A format of the fallback is tried, or there is none left.
LEMMA FallbackStep ==
    ASSUME ReadTypes, ~result.ok, NEW i \in 1..4, NEW in, NEW p, Read!Fallback(i, in, p),
           UNCHANGED <<supports, lists, transfer>>,
           p.type \in MimeTypes \cup {"None", "ATOM", "INCR"},
           timeouts' \in 0..4, timeouts' <= i,
           timeouts' = 0 => \A j \in 1..3 : j < i => Read!Formats[j] \notin supports,
           in \in Seq(OldRequests(PastOf(i, timeouts'))),
           read_events' \in Seq(OldAnswers(PastOf(i, timeouts')))
    PROVE  ReadInv'
<1> DEFINE P == PastOf(i, timeouts')
<1>1. P \subseteq Targets
  BY FormatsAre DEF PastOf, Targets
<1>2. /\ OldRequests(P) \subseteq OldRequests(Targets)
      /\ OldAnswers(P) \subseteq OldAnswers(Targets)
  BY <1>1 DEF OldRequests, OldAnswers
<1>3. in \in Seq(OldRequests(Targets)) /\ (read_events \in Seq(OldAnswers(Targets)))'
  BY <1>2, SeqOfMore
<1>4. CASE i = 4
  <2>1. /\ result' = Read!Failed /\ stage' = "done" /\ inbox' = in /\ property' = p
        /\ UNCHANGED <<index, target, using_incr, incr_data>>
    BY <1>4, FormatsAre DEF Read!Fallback, Read!Return
  <2>2. ReadTypes'
    BY <1>3, <2>1 DEF ReadTypes
  <2>3. timeouts' = 0 => supports = {}
    BY <1>4, FormatsAre DEF ReadTypes, MimeTypes
  <2> QED
    BY <2>1, <2>2, <2>3 DEF ReadInv, ReadStage, ReadMode, Read!ReturnsWhole,
       Read!PromptOwnerIsRead, Read!Failed
<1>5. CASE i \in 1..3
  <2> DEFINE old == in \o Read!DeletionOf(p)
  <2>1. /\ stage' = "fallback" /\ index' = i /\ result' = result
        /\ inbox' = old \o <<Read!Convert(Read!Formats[i])>>
        /\ property' = Read!NoProperty /\ target' = Read!Formats[i]
        /\ using_incr' = FALSE /\ incr_data' = <<>>
    BY <1>5, FormatsAre DEF Read!Fallback, Read!ReadSingle
  <2>2. Read!DeletionOf(p) \in Seq(OldRequests(P))
    <3>1. Read!Deleted \in OldRequests(P)
      BY DEF OldRequests
    <3>2. <<>> \in Seq(OldRequests(P)) /\ <<Read!Deleted>> \in Seq(OldRequests(P))
      BY <3>1
    <3> QED
      BY <3>2 DEF Read!DeletionOf
  <2>3. old \in Seq(OldRequests(P))
    BY <2>2, ConcatProperties
  <2>4. old \in Seq(OldRequests(Targets))
    BY <1>2, <2>3, SeqOfMore
  <2>5. target' \in MimeTypes
    BY <1>5, <2>1, FormatsAre
  <2>6. <<Read!Convert(target')>> \in Seq(OldRequests(Targets))
    BY <2>5 DEF OldRequests, Targets
  <2>7. inbox' \in Seq(OldRequests(Targets))
    BY <2>1, <2>4, <2>6, ConcatProperties
  <2>8. ReadTypes'
    <3>1. property'.type = "None" /\ incr_data' \in Seq(Pieces)
      BY <2>1 DEF Read!NoProperty
    <3>2. /\ stage' \in {"targets", "chosen", "fallback", "done"} /\ index' \in 1..3
          /\ target' \in Targets /\ using_incr' \in BOOLEAN
      BY <1>5, <2>1, <2>5 DEF Targets
    <3> QED
      BY <1>3, <2>7, <3>1, <3>2 DEF ReadTypes
  <2>9. ReadStage'
    BY <1>5, <2>1 DEF ReadStage
  <2>10. Past' = P
    BY <2>1 DEF Past
  <2>11. Asking'
    BY <2>1, <2>3, <2>10 DEF Asking
  <2> QED
    BY <2>1, <2>8, <2>9, <2>11 DEF ReadInv, ReadMode
<1> QED
  BY <1>4, <1>5

\* A conversion that fails or times out is given up: what is left of it is late from then on.
LEMMA FailStep ==
    ASSUME ReadTypes, ReadStage, stage # "done", ~result.ok, NEW in, NEW p, NEW P,
           Read!SingleFails(in, p), UNCHANGED <<supports, lists, transfer>>,
           p.type \in MimeTypes \cup {"None", "ATOM", "INCR"},
           timeouts' = timeouts \/ timeouts' = timeouts + 1,
           timeouts' = 0 => target \notin supports,
           P = IF timeouts' = 0 THEN {} ELSE Past \cup {target},
           in \in Seq(OldRequests(P)),
           read_events' \in Seq(OldAnswers(P))
    PROVE  ReadInv'
<1>1. CASE stage = "targets"
  <2>1. Read!Fallback(1, in, p)
    BY <1>1 DEF Read!SingleFails
  <2>2. timeouts' \in 0..1
    BY <1>1 DEF ReadStage, ReadTypes
  <2>3. P = PastOf(1, timeouts')
    <3>1. {Read!Formats[j] : j \in 1..(1 - 1)} = {}
      OBVIOUS
    <3>2. Past = {} /\ target = Read!TARGETS
      BY <1>1 DEF Past, ReadStage
    <3> QED
      BY <3>1, <3>2 DEF PastOf
  <2>4. timeouts' <= 1 /\ timeouts' \in 0..4 /\ 1 \in 1..4
    BY <2>2
  <2>5. timeouts' = 0 => \A j \in 1..3 : j < 1 => Read!Formats[j] \notin supports
    OBVIOUS
  <2> QED
    BY <2>1, <2>3, <2>4, <2>5, FallbackStep
<1>2. CASE stage = "chosen"
  <2>1. /\ result' = Read!Failed /\ stage' = "done" /\ inbox' = in /\ property' = p
        /\ UNCHANGED <<index, target, using_incr, incr_data>>
    BY <1>2 DEF Read!SingleFails, Read!Return
  <2>2. timeouts' = 1
    BY <1>2 DEF ReadStage, Read!IsPreferred, ReadTypes
  <2>3. P \subseteq Targets
    BY <1>2 DEF Past, ReadTypes
  <2>4. /\ OldRequests(P) \subseteq OldRequests(Targets)
        /\ OldAnswers(P) \subseteq OldAnswers(Targets)
    BY <2>3 DEF OldRequests, OldAnswers
  <2>5. in \in Seq(OldRequests(Targets)) /\ (read_events \in Seq(OldAnswers(Targets)))'
    BY <2>4, SeqOfMore
  <2>6. ReadTypes'
    BY <2>1, <2>2, <2>5 DEF ReadTypes
  <2> QED
    BY <2>1, <2>2, <2>6 DEF ReadInv, ReadStage, ReadMode, Read!ReturnsWhole,
       Read!PromptOwnerIsRead, Read!Failed
<1>3. CASE stage = "fallback"
  <2> DEFINE Q == PastOf(index + 1, timeouts')
  <2>1. Read!Fallback(index + 1, in, p)
    BY <1>3 DEF Read!SingleFails
  <2>2. /\ index \in 1..3 /\ timeouts \in 0..3 /\ timeouts <= index
        /\ target = Read!Formats[index]
        /\ timeouts = 0 => \A j \in 1..3 : j < index => Read!Formats[j] \notin supports
    BY <1>3 DEF ReadStage, ReadTypes
  <2>3. index + 1 \in 1..4 /\ timeouts' \in 0..4 /\ timeouts' <= index + 1
    BY <2>2
  <2>4. timeouts' = 0 => \A j \in 1..3 : j < index + 1 => Read!Formats[j] \notin supports
    BY <2>2
  <2>5. P \subseteq Q
    BY <1>3, <2>2 DEF Past, PastOf
  <2>6. OldRequests(P) \subseteq OldRequests(Q) /\ OldAnswers(P) \subseteq OldAnswers(Q)
    BY <2>5 DEF OldRequests, OldAnswers
  <2>7. in \in Seq(OldRequests(Q)) /\ read_events' \in Seq(OldAnswers(Q))
    <3> HIDE DEF Q
    <3>1. /\ Seq(OldRequests(P)) \subseteq Seq(OldRequests(Q))
          /\ Seq(OldAnswers(P)) \subseteq Seq(OldAnswers(Q))
      BY <2>6, SeqOfMore
    <3> QED
      BY <3>1
  <2> HIDE DEF Q
  <2> QED
    BY <2>1, <2>3, <2>4, <2>7, FallbackStep DEF Q
<1> QED
  BY <1>1, <1>2, <1>3 DEF ReadTypes

\* What a step of the owner leaves alone.
LEMMA OwnerFrame ==
    ASSUME ReadStage, UNCHANGED <<supports, lists, stage, index, target, using_incr, incr_data,
                                  result, timeouts>>
    PROVE  /\ ReadStage'
           /\ stage = "done" /\ ReadMode => ReadMode'
           /\ Past' = Past
  BY DEF ReadStage, Read!IsPreferred, ReadMode, Read!ReturnsWhole, Read!PromptOwnerIsRead, Past

\* Two elements are appended one after the other.
LEMMA PairIsConcat ==
    ASSUME NEW S, NEW s \in Seq(S), NEW a \in S, NEW b \in S
    PROVE  s \o <<a, b>> = (s \o <<a>>) \o <<b>>
<1> DEFINE p == <<a, b>>
           q == s \o <<a>>
           e == <<b>>
<1>1. e \in Seq(S) /\ Len(e) = 1 /\ e[1] = b
  OBVIOUS
<1>2. p \in Seq(S) /\ Len(p) = 2 /\ p[1] = a /\ p[2] = b
  OBVIOUS
<1>3. /\ q \in Seq(S) /\ Len(q) = Len(s) + 1 /\ Len(s) \in Nat
      /\ \A i \in 1..(Len(s) + 1) : q[i] = IF i <= Len(s) THEN s[i] ELSE a
  OBVIOUS
<1> HIDE DEF p, q, e
<1>4. /\ s \o p \in Seq(S) /\ Len(s \o p) = Len(s) + 2
      /\ \A i \in 1..(Len(s) + 2) : (s \o p)[i] = IF i <= Len(s) THEN s[i] ELSE p[i - Len(s)]
  <2>1. /\ s \o p \in Seq(S) /\ Len(s \o p) = Len(s) + Len(p)
        /\ \A i \in 1..(Len(s) + Len(p)) : (s \o p)[i] = IF i <= Len(s) THEN s[i] ELSE p[i - Len(s)]
    BY <1>2, ConcatProperties
  <2> QED
    BY <1>2, <2>1
<1>5. /\ q \o e \in Seq(S) /\ Len(q \o e) = Len(s) + 2
      /\ \A i \in 1..(Len(s) + 2) : (q \o e)[i] = IF i <= Len(s) + 1 THEN q[i] ELSE b
  <2>1. /\ q \o e \in Seq(S) /\ Len(q \o e) = Len(q) + Len(e)
        /\ \A i \in 1..(Len(q) + Len(e)) : (q \o e)[i] = IF i <= Len(q) THEN q[i] ELSE e[i - Len(q)]
    BY <1>1, <1>3, ConcatProperties
  <2> QED
    BY <1>1, <1>3, <2>1
<1>6. \A i \in 1..(Len(s) + 2) : (s \o p)[i] = (q \o e)[i]
  BY <1>2, <1>3, <1>4, <1>5
<1>7. s \o p = q \o e
  BY <1>4, <1>5, <1>6, SeqEqual
<1> QED
  BY <1>7 DEF p, q, e

\* What the owner answers to a conversion.
LEMMA AnswerIs ==
    ASSUME ReadTypes, Read!ConstantsAssumption, Read!OwnerConverts, NEW t \in Targets,
           Head(inbox).target = t
    PROVE  \E ok \in BOOLEAN, first \in {<<>>, <<Read!PropNotify>>} :
             /\ read_events' = (read_events \o first) \o <<Read!SelNotify(t, ok)>>
             /\ ok \/ (t \notin supports /\ UNCHANGED <<property, transfer>>)
             /\ ok => \/ /\ t = Read!TARGETS /\ UNCHANGED transfer
                         /\ property' = [type |-> "ATOM", value |-> <<supports>>]
                      \/ /\ t \in supports \ Large /\ UNCHANGED transfer
                         /\ property' = [type |-> t, value |-> Read!Content(t)]
                      \/ /\ t \in supports \cap Large
                         /\ property' = [type |-> "INCR", value |-> <<>>]
                         /\ transfer' = [format |-> t, rest |-> Read!Content(t)]
<1> DEFINE S == OldAnswers(Targets)
<1>0. Read!PropNotify \in S /\ \A ok \in BOOLEAN : Read!SelNotify(t, ok) \in S
  BY DEF OldAnswers
<1>1. /\ read_events \in Seq(S) /\ <<>> \in Seq(S) /\ <<Read!PropNotify>> \in Seq(S)
      /\ \A ok \in BOOLEAN : <<Read!SelNotify(t, ok)>> \in Seq(S)
  BY <1>0 DEF ReadTypes
<1>2. read_events \o <<>> = read_events
  BY <1>1, ConcatEmptySeq
<1> HIDE DEF S
<1>3. Append(read_events, Read!SelNotify(t, FALSE))
         = (read_events \o <<>>) \o <<Read!SelNotify(t, FALSE)>>
  BY <1>0, <1>1, <1>2, AppendIsConcat
<1>4. read_events \o <<Read!PropNotify, Read!SelNotify(t, TRUE)>>
           = (read_events \o <<Read!PropNotify>>) \o <<Read!SelNotify(t, TRUE)>>
  <2>1. read_events \in Seq(S) /\ Read!PropNotify \in S /\ Read!SelNotify(t, TRUE) \in S
    BY <1>0, <1>1
  <2>2. ASSUME NEW a \in S, NEW b \in S
        PROVE  read_events \o <<a, b>> = (read_events \o <<a>>) \o <<b>>
    BY <2>1, PairIsConcat
  <2> QED
    BY <2>1, <2>2, Zenon
<1>5. Read!TARGETS \notin supports
  BY DEF ReadTypes, MimeTypes, Read!TARGETS
<1>6. CASE t = Read!TARGETS /\ lists
  <2>1. /\ property' = [type |-> "ATOM", value |-> <<supports>>] /\ UNCHANGED transfer
        /\ read_events' = read_events \o <<Read!PropNotify, Read!SelNotify(t, TRUE)>>
    BY <1>5, <1>6 DEF Read!OwnerConverts
  <2> QED
    BY <1>4, <1>6, <2>1
<1>7. CASE t \in supports \ Large
  <2>1. /\ property' = [type |-> t, value |-> Read!Content(t)] /\ UNCHANGED transfer
        /\ read_events' = read_events \o <<Read!PropNotify, Read!SelNotify(t, TRUE)>>
    BY <1>5, <1>7 DEF Read!OwnerConverts
  <2> QED
    BY <1>4, <1>7, <2>1
<1>8. CASE t \in supports \cap Large
  <2>1. /\ property' = [type |-> "INCR", value |-> <<>>]
        /\ transfer' = [format |-> t, rest |-> Read!Content(t)]
        /\ read_events' = read_events \o <<Read!PropNotify, Read!SelNotify(t, TRUE)>>
    BY <1>5, <1>8 DEF Read!OwnerConverts
  <2> QED
    BY <1>4, <1>8, <2>1
<1>9. CASE ~(t = Read!TARGETS /\ lists) /\ t \notin supports
  <2>1. /\ UNCHANGED <<property, transfer>>
        /\ read_events' = Append(read_events, Read!SelNotify(t, FALSE))
    BY <1>9 DEF Read!OwnerConverts
  <2> QED
    BY <1>3, <1>9, <2>1
<1> QED
  BY <1>6, <1>7, <1>8, <1>9

\* The old requests and the old answers name targets.
LEMMA PastIs ==
    ASSUME ReadTypes
    PROVE  /\ Past \subseteq Targets
           /\ OldRequests(Past) \subseteq OldRequests(Targets)
           /\ OldAnswers(Past) \subseteq OldAnswers(Targets)
<1>1. Past \subseteq Targets
  <2>1. \A j \in 1..(index - 1) : j \in 1..3
    BY DEF ReadTypes
  <2> QED
    BY <2>1, FormatsAre DEF Past, PastOf, Targets
<1> QED
  BY <1>1 DEF OldRequests, OldAnswers

LEMMA OwnerConvertsStep ==
    ASSUME Read!ConstantsAssumption, ReadInv, Read!OwnerConverts PROVE ReadInv'
<1> DEFINE t == Head(inbox).target
<1> USE DEF ReadInv
<1>0. /\ inbox # <<>> /\ inbox' = Tail(inbox) /\ Head(inbox).type = "convert"
      /\ UNCHANGED <<supports, lists, stage, index, target, using_incr, incr_data, result,
                     timeouts>>
  BY DEF Read!OwnerConverts
<1>1. /\ Head(inbox) \in OldRequests(Targets) /\ Tail(inbox) \in Seq(OldRequests(Targets))
  BY <1>0, HeadTailProperties DEF ReadTypes
<1>2. t \in Targets
  BY <1>0, <1>1 DEF OldRequests, Read!Deleted, Read!Convert
<1> HIDE DEF t
<1>3. PICK ok \in BOOLEAN, first \in {<<>>, <<Read!PropNotify>>} :
             /\ read_events' = (read_events \o first) \o <<Read!SelNotify(t, ok)>>
             /\ ok \/ (t \notin supports /\ UNCHANGED <<property, transfer>>)
             /\ ok => \/ /\ t = Read!TARGETS /\ UNCHANGED transfer
                         /\ property' = [type |-> "ATOM", value |-> <<supports>>]
                      \/ /\ t \in supports \ Large /\ UNCHANGED transfer
                         /\ property' = [type |-> t, value |-> Read!Content(t)]
                      \/ /\ t \in supports \cap Large
                         /\ property' = [type |-> "INCR", value |-> <<>>]
                         /\ transfer' = [format |-> t, rest |-> Read!Content(t)]
  <2>1. Head(inbox).target = t
    BY DEF t
  <2> QED
    BY <1>2, <2>1, AnswerIs
<1>4. ASSUME NEW P, read_events \in Seq(OldAnswers(P))
      PROVE  /\ read_events \o first \in Seq(OldAnswers(P))
             /\ t \in P => read_events' \in Seq(OldAnswers(P))
  <2>1. Read!PropNotify \in OldAnswers(P) /\ (t \in P => Read!SelNotify(t, ok) \in OldAnswers(P))
    BY DEF OldAnswers
  <2>2. first \in Seq(OldAnswers(P))
    <3>1. <<>> \in Seq(OldAnswers(P)) /\ <<Read!PropNotify>> \in Seq(OldAnswers(P))
      BY <2>1
    <3> QED
      BY <3>1
  <2>3. t \in P => <<Read!SelNotify(t, ok)>> \in Seq(OldAnswers(P))
    BY <2>1
  <2> QED
    BY <1>3, <1>4, <2>2, <2>3, ConcatProperties
<1>5. ReadTypes'
  <2>1. read_events' \in Seq(OldAnswers(Targets))
    BY <1>2, <1>4 DEF ReadTypes
  <2>2. t \in supports => Read!Content(t) \in Seq(Pieces) /\ t \in MimeTypes
    BY ContentType DEF ReadTypes
  <2>3. transfer' \in [format : MimeTypes \cup {"None"}, rest : Seq(Pieces)]
    BY <1>3, <2>2 DEF ReadTypes
  <2>4. property'.type \in MimeTypes \cup {"None", "ATOM", "INCR"}
    BY <1>3, <2>2 DEF ReadTypes
  <2> QED
    BY <1>0, <1>1, <2>1, <2>3, <2>4 DEF ReadTypes
<1>6. ReadStage' /\ Past' = Past /\ (stage = "done" => ReadMode')
  BY <1>0, OwnerFrame
<1>7. ASSUME stage # "done" PROVE Asking' \/ Answered'
  <2>1. Asking
    <3>1. Read!Deleted.type # "convert" /\ Head(<<Read!Deleted>>) = Read!Deleted
      BY DEF Read!Deleted
    <3> QED
      BY <1>0, <1>7, <3>1 DEF ReadMode, Answered, AwaitsChunk, ChunkThere
  <2>2. PICK old \in Seq(OldRequests(Past)) : inbox = old \o <<Read!Convert(target)>>
    BY <2>1 DEF Asking
  <2>3. CASE old = <<>>
    <3>1. inbox' = <<>> /\ t = target
      BY <1>0, <2>2, <2>3, TakeBeforeLast DEF t, Read!Convert
    <3>2. read_events \o first \in Seq(OldAnswers(Past'))
      BY <1>4, <1>6, <2>1 DEF Asking
    <3>3. read_events' = (read_events \o first) \o <<Read!SelNotify(target', ok)>>
      BY <1>0, <1>3, <3>1
    <3>4. IF ok THEN AnswerThere' ELSE target' \notin supports'
      BY <1>0, <1>3, <3>1 DEF AnswerThere, Read!Content
    <3>5. ~using_incr' /\ incr_data' = <<>>
      BY <1>0, <2>1 DEF Asking
    <3> QED
      BY <3>1, <3>2, <3>3, <3>4, <3>5 DEF Answered
  <2>4. CASE old # <<>>
    <3>1. /\ Head(inbox) \in OldRequests(Past) /\ Tail(old) \in Seq(OldRequests(Past))
          /\ inbox' = Tail(old) \o <<Read!Convert(target)>>
      <4> DEFINE S == OldRequests(Past)
                 c == Read!Convert(target)
      <4>1. old \in Seq(S) /\ inbox = old \o <<c>>
        BY <2>2
      <4> HIDE DEF S, c
      <4>2. Head(old \o <<c>>) \in S /\ Tail(old) \in Seq(S)
        BY <2>4, <4>1, TakeBeforeLast
      <4>3. Tail(old \o <<c>>) = Tail(old) \o <<c>>
        BY <2>4, <4>1, TakeBeforeLast
      <4> QED
        BY <1>0, <4>1, <4>2, <4>3 DEF S, c
    <3>2. t \in Past
      BY <1>0, <3>1 DEF t, OldRequests, Read!Deleted, Read!Convert
    <3>3. read_events' \in Seq(OldAnswers(Past))
      BY <1>4, <2>1, <3>2 DEF Asking
    <3> QED
      BY <1>0, <1>6, <2>1, <3>1, <3>3 DEF Asking
  <2> QED
    BY <2>3, <2>4
<1> QED
  BY <1>0, <1>5, <1>6, <1>7 DEF ReadMode

LEMMA OwnerSendsChunkStep ==
    ASSUME Read!ConstantsAssumption, ReadInv, Read!OwnerSendsChunk PROVE ReadInv'
<1> USE DEF ReadInv
<1>0. /\ inbox # <<>> /\ inbox' = Tail(inbox) /\ Head(inbox) = Read!Deleted
      /\ UNCHANGED <<supports, lists, stage, index, target, using_incr, incr_data, result,
                     timeouts>>
  BY DEF Read!OwnerSendsChunk
<1>1. \/ UNCHANGED <<property, read_events, transfer>>
      \/ /\ transfer.rest = <<>>
         /\ property' = [type |-> transfer.format, value |-> <<>>]
         /\ read_events' = Append(read_events, Read!PropNotify)
         /\ transfer' = Read!NoTransfer
      \/ /\ transfer.rest # <<>>
         /\ property' = [type |-> transfer.format, value |-> <<Head(transfer.rest)>>]
         /\ read_events' = Append(read_events, Read!PropNotify)
         /\ transfer' = [transfer EXCEPT !.rest = Tail(@)]
  BY DEF Read!OwnerSendsChunk
<1>2. Tail(inbox) \in Seq(OldRequests(Targets))
  BY <1>0, HeadTailProperties DEF ReadTypes
<1>3. ASSUME NEW P, read_events \in Seq(OldAnswers(P)) PROVE read_events' \in Seq(OldAnswers(P))
  <2>1. Read!PropNotify \in OldAnswers(P)
    BY DEF OldAnswers
  <2>2. Append(read_events, Read!PropNotify) \in Seq(OldAnswers(P))
    BY <1>3, <2>1
  <2> QED
    BY <1>1, <1>3, <2>2
<1>4. ReadTypes'
  <2>1. read_events' \in Seq(OldAnswers(Targets))
    BY <1>3 DEF ReadTypes
  <2>2. transfer.rest # <<>> => Tail(transfer.rest) \in Seq(Pieces)
    BY HeadTailProperties DEF ReadTypes
  <2>3. transfer' \in [format : MimeTypes \cup {"None"}, rest : Seq(Pieces)]
    <3>1. Read!NoTransfer \in [format : MimeTypes \cup {"None"}, rest : Seq(Pieces)]
      BY DEF Read!NoTransfer
    <3>2. transfer.rest # <<>> =>
            [transfer EXCEPT !.rest = Tail(@)]
                \in [format : MimeTypes \cup {"None"}, rest : Seq(Pieces)]
      BY <2>2 DEF ReadTypes
    <3> QED
      BY <1>1, <3>1, <3>2 DEF ReadTypes
  <2>4. property'.type \in MimeTypes \cup {"None", "ATOM", "INCR"}
    BY <1>1 DEF ReadTypes
  <2> QED
    BY <1>0, <1>2, <2>1, <2>3, <2>4 DEF ReadTypes
<1>5. ReadStage' /\ Past' = Past /\ (stage = "done" => ReadMode')
  BY <1>0, OwnerFrame
<1>6. ASSUME stage # "done", Asking PROVE Asking'
  <2>1. PICK old \in Seq(OldRequests(Past)) : inbox = old \o <<Read!Convert(target)>>
    BY <1>6 DEF Asking
  <2> DEFINE S == OldRequests(Past)
             c == Read!Convert(target)
  <2>2. old \in Seq(S) /\ c # Read!Deleted /\ inbox = old \o <<c>>
    BY <2>1 DEF Read!Convert, Read!Deleted
  <2> HIDE DEF S, c
  <2>3. old # <<>>
    BY <1>0, <2>2, TakeBeforeLast
  <2>4. Tail(old) \in Seq(S) /\ Tail(old \o <<c>>) = Tail(old) \o <<c>>
    BY <2>2, <2>3, TakeBeforeLast
  <2>5. Tail(old) \in Seq(OldRequests(Past)) /\ inbox' = Tail(old) \o <<Read!Convert(target)>>
    BY <1>0, <2>2, <2>4, Zenon DEF S, c
  <2>6. read_events' \in Seq(OldAnswers(Past))
    BY <1>3, <1>6 DEF Asking
  <2> QED
    BY <1>0, <1>5, <1>6, <2>5, <2>6 DEF Asking
<1>7. ASSUME stage # "done", AwaitsChunk PROVE ChunkThere'
  <2>0. /\ target \in MimeTypes /\ transfer.format = target /\ transfer.rest \in Seq(Pieces)
        /\ incr_data \in Seq(Pieces) /\ read_events = <<>> /\ inbox = <<Read!Deleted>>
        /\ using_incr /\ target \in supports
        /\ incr_data \o transfer.rest = Read!Content(target)
    BY <1>7 DEF AwaitsChunk, ReadTypes
  <2>1. transfer # Read!NoTransfer
    BY <2>0 DEF MimeTypes, Read!NoTransfer
  <2>2. inbox' = <<>>
    BY <1>0, <2>0
  <2>3. read_events' = <<Read!PropNotify>>
    BY <2>0, <2>1 DEF Read!OwnerSendsChunk
  <2>4. Read!Content(target') = Read!Content(target)
    BY <1>0
  <2>5. CASE transfer.rest = <<>>
    <3>1. property' = [type |-> target, value |-> <<>>]
      BY <2>0, <2>1, <2>5 DEF Read!OwnerSendsChunk
    <3>2. incr_data = Read!Content(target)
      BY <2>0, <2>5, ConcatEmptySeq
    <3> QED
      BY <1>0, <2>0, <2>2, <2>3, <2>4, <3>1, <3>2 DEF ChunkThere
  <2>6. CASE transfer.rest # <<>>
    <3> DEFINE x == Head(transfer.rest)
               rest == Tail(transfer.rest)
    <3>1. /\ property' = [type |-> target, value |-> <<x>>]
          /\ transfer' = [transfer EXCEPT !.rest = rest]
      BY <2>0, <2>1, <2>6 DEF Read!OwnerSendsChunk
    <3>2. transfer'.format = target /\ transfer'.rest = rest
      BY <2>0, <3>1 DEF ReadTypes
    <3>3. x \in Pieces /\ rest \in Seq(Pieces) /\ transfer.rest = <<x>> \o rest
      <4>1. /\ x \in Pieces /\ rest \in Seq(Pieces)
            /\ <<x>> \in Seq(Pieces) /\ <<x>> \o rest \in Seq(Pieces)
        BY <2>0, <2>6, HeadTailProperties, ConcatProperties
      <4>2. Len(transfer.rest) = Len(<<x>> \o rest)
        BY <2>0, <2>6, <4>1
      <4>3. \A i \in 1..Len(transfer.rest) : transfer.rest[i] = (<<x>> \o rest)[i]
        BY <2>0, <2>6, <4>1
      <4> QED
        BY <2>0, <4>1, <4>2, <4>3, SeqEqual
    <3> HIDE DEF x, rest
    <3>4. <<x>> \in Seq(Pieces)
      BY <3>3
    <3>5. (incr_data \o <<x>>) \o rest = Read!Content(target)
      <4>1. (incr_data \o <<x>>) \o rest = incr_data \o (<<x>> \o rest)
        BY <2>0, <3>3, <3>4, ConcatAssociative
      <4> QED
        BY <2>0, <3>3, <4>1, Zenon
    <3>6. \E y \in Pieces : /\ property' = [type |-> target', value |-> <<y>>]
                            /\ (incr_data' \o <<y>>) \o transfer'.rest = Read!Content(target')
      BY <1>0, <2>4, <3>1, <3>2, <3>3, <3>5
    <3> QED
      BY <1>0, <2>0, <2>2, <2>3, <3>2, <3>6 DEF ChunkThere
  <2> QED
    BY <2>5, <2>6
<1> QED
  BY <1>0, <1>4, <1>5, <1>6, <1>7 DEF ReadMode, Answered, ChunkThere

\* Whatever is on its way while a conversion runs is old once it is given up.
LEMMA Leftovers ==
    ASSUME ReadInv, stage # "done"
    PROVE  /\ inbox \in Seq(OldRequests(Past \cup {target}))
           /\ read_events \in Seq(OldAnswers(Past \cup {target}))
<1> DEFINE P == Past \cup {target}
<1>1. OldRequests(Past) \subseteq OldRequests(P) /\ OldAnswers(Past) \subseteq OldAnswers(P)
  BY DEF OldRequests, OldAnswers
<1>2. /\ Read!Convert(target) \in OldRequests(P) /\ Read!Deleted \in OldRequests(P)
      /\ Read!PropNotify \in OldAnswers(P)
      /\ \A ok \in BOOLEAN : Read!SelNotify(target, ok) \in OldAnswers(P)
  BY DEF OldRequests, OldAnswers
<1> HIDE DEF P
<1>3. /\ Seq(OldRequests(Past)) \subseteq Seq(OldRequests(P))
      /\ Seq(OldAnswers(Past)) \subseteq Seq(OldAnswers(P))
  BY <1>1, SeqOfMore
<1>4. /\ <<Read!Convert(target)>> \in Seq(OldRequests(P))
      /\ <<Read!Deleted>> \in Seq(OldRequests(P))
      /\ <<Read!PropNotify>> \in Seq(OldAnswers(P))
      /\ \A ok \in BOOLEAN : <<Read!SelNotify(target, ok)>> \in Seq(OldAnswers(P))
      /\ <<>> \in Seq(OldRequests(P)) /\ <<>> \in Seq(OldAnswers(P))
  BY <1>2
<1>5. CASE Asking
  BY <1>3, <1>4, <1>5, ConcatProperties DEF Asking, P
<1>6. CASE Answered
  BY <1>3, <1>4, <1>6, ConcatProperties DEF Answered, P
<1> QED
  BY <1>4, <1>5, <1>6 DEF ReadInv, ReadMode, AwaitsChunk, ChunkThere, P

\* A target is converted once.
LEMMA TargetIsNew ==
    ASSUME ReadTypes, ReadStage PROVE target \notin Past
<1>1. CASE stage = "fallback"
  <2>1. target = Read!Formats[index] /\ index \in 1..3
    BY <1>1 DEF ReadStage, ReadTypes
  <2>2. target # Read!TARGETS
    BY <2>1, FormatsAre DEF MimeTypes, Read!TARGETS
  <2>3. \A j \in 1..(index - 1) : Read!Formats[j] # Read!Formats[index]
    BY <2>1, FormatsAre
  <2> QED
    BY <1>1, <2>1, <2>2, <2>3 DEF Past, PastOf
<1> QED
  BY <1>1 DEF Past

LEMMA TimeoutStep ==
    ASSUME Read!ConstantsAssumption, ReadInv, Read!Timeout PROVE ReadInv'
<1> DEFINE P == Past \cup {target}
<1>1. /\ stage # "done" /\ timeouts' = timeouts + 1 /\ Read!SingleFails(inbox, property)
      /\ UNCHANGED <<supports, lists, transfer>> /\ read_events' = read_events
  BY DEF Read!Timeout, Read!ownervars
<1>2. timeouts' # 0 /\ ~result.ok
  BY <1>1 DEF ReadInv, ReadTypes, ReadMode
<1>3. inbox \in Seq(OldRequests(P)) /\ read_events' \in Seq(OldAnswers(P))
  BY <1>1, Leftovers
<1>4. P = IF timeouts' = 0 THEN {} ELSE Past \cup {target}
  BY <1>2
<1>5. ReadTypes /\ ReadStage /\ property.type \in MimeTypes \cup {"None", "ATOM", "INCR"}
  BY DEF ReadInv, ReadTypes
<1> HIDE DEF P
<1> QED
  BY <1>1, <1>2, <1>3, <1>4, <1>5, FailStep

\* A content of the current target ends the read.
LEMMA ReturnStep ==
    ASSUME ReadInv, stage \in {"chosen", "fallback"}, target \in supports, NEW in, NEW p,
           Read!Return(Read!Ok(target, Read!Content(target)), in, p),
           UNCHANGED <<supports, lists, transfer, timeouts>>,
           in \in Seq(OldRequests(Targets)), p.type \in MimeTypes \cup {"None", "ATOM", "INCR"},
           read_events' \in Seq(OldAnswers(Targets))
    PROVE  ReadInv'
<1>1. /\ result' = Read!Ok(target, Read!Content(target)) /\ stage' = "done" /\ inbox' = in
      /\ property' = p /\ UNCHANGED <<index, target, using_incr, incr_data>>
  BY DEF Read!Return
<1>2. ReadTypes'
  BY <1>1 DEF ReadInv, ReadTypes
<1>3. timeouts = 0 => Read!IsPreferred(target)
  <2>1. CASE stage = "chosen"
    BY <2>1 DEF ReadInv, ReadStage
  <2>2. CASE stage = "fallback" /\ timeouts = 0
    <3>1. /\ target = Read!Formats[index] /\ index \in 1..3
          /\ \A j \in 1..3 : j < index => Read!Formats[j] \notin supports
      BY <2>2 DEF ReadInv, ReadStage, ReadTypes
    <3>2. \A j \in 1..3 : Read!Formats[j] = target => j = index
      BY <3>1, FormatsAre
    <3> QED
      BY <3>1, <3>2, FormatsAre DEF Read!IsPreferred
  <2> QED
    BY <2>1, <2>2
<1>4. /\ result'.ok /\ result'.format = target /\ result'.bytes = Read!Content(target)
  BY <1>1 DEF Read!Ok
<1>5. (Read!ReturnsWhole)'
  BY <1>4 DEF Read!ReturnsWhole
<1>6. (Read!PromptOwnerIsRead)'
  BY <1>1, <1>3, <1>4 DEF Read!PromptOwnerIsRead, Read!IsPreferred
<1> QED
  BY <1>1, <1>2, <1>5, <1>6 DEF ReadInv, ReadStage, ReadMode

\* The list of formats is answered: the preferred one is converted, or the fallback begins.
LEMMA ListedStep ==
    ASSUME ReadInv, stage = "targets", ~result.ok, NEW in, NEW p,
           Read!SingleReturns("ATOM", <<supports>>, in, p),
           UNCHANGED <<supports, lists, transfer, timeouts>>,
           \A P : in \in Seq(OldRequests(P)), p.type \in MimeTypes \cup {"None", "ATOM", "INCR"},
           \A P : read_events' \in Seq(OldAnswers(P))
    PROVE  ReadInv'
<1> DEFINE i == Read!FirstListed(supports)
<1>0. supports \in SUBSET MimeTypes /\ timeouts = 0 /\ timeouts' = 0 /\ ReadTypes
  BY DEF ReadInv, ReadTypes, ReadStage
<1>1. /\ i \in 0..3
      /\ i = 0 => supports = {}
      /\ i # 0 => /\ Read!Formats[i] \in supports
                  /\ \A j \in 1..3 : j < i => Read!Formats[j] \notin supports
  BY <1>0, FirstListedIs
<1>2. IF i = 0 THEN Read!Fallback(1, in, p)
      ELSE /\ stage' = "chosen" /\ index' = i
           /\ Read!ReadSingle(Read!Formats[i], in, p) /\ UNCHANGED result
  BY DEF Read!SingleReturns
<1> HIDE DEF i
<1>3. CASE i = 0
  <2>1. /\ in \in Seq(OldRequests(PastOf(1, timeouts')))
        /\ read_events' \in Seq(OldAnswers(PastOf(1, timeouts')))
    OBVIOUS
  <2>2. timeouts' = 0 => \A j \in 1..3 : j < 1 => Read!Formats[j] \notin supports
    OBVIOUS
  <2>3. timeouts' \in 0..4 /\ timeouts' <= 1 /\ 1 \in 1..4
    BY <1>0
  <2> QED
    BY <1>0, <1>2, <1>3, <2>1, <2>2, <2>3, FallbackStep
<1>4. CASE i # 0
  <2> DEFINE old == in \o Read!DeletionOf(p)
  <2>1. /\ stage' = "chosen" /\ index' = i /\ result' = result
        /\ inbox' = old \o <<Read!Convert(Read!Formats[i])>>
        /\ property' = Read!NoProperty /\ target' = Read!Formats[i]
        /\ using_incr' = FALSE /\ incr_data' = <<>>
    BY <1>2, <1>4 DEF Read!ReadSingle
  <2>2. ASSUME NEW P PROVE old \in Seq(OldRequests(P))
    <3>1. Read!Deleted \in OldRequests(P)
      BY DEF OldRequests
    <3>2. <<>> \in Seq(OldRequests(P)) /\ <<Read!Deleted>> \in Seq(OldRequests(P))
      BY <3>1
    <3>3. Read!DeletionOf(p) \in Seq(OldRequests(P))
      BY <3>2 DEF Read!DeletionOf
    <3> QED
      BY <3>3, ConcatProperties
  <2>3. i \in 1..3 /\ target' \in MimeTypes /\ target' \in supports
    BY <1>1, <1>4, <2>1, FormatsAre
  <2>4. <<Read!Convert(target')>> \in Seq(OldRequests(Targets))
    BY <2>3 DEF OldRequests, Targets
  <2>5. inbox' \in Seq(OldRequests(Targets))
    BY <2>1, <2>2, <2>4, ConcatProperties
  <2>6. ReadTypes'
    <3>1. property'.type = "None" /\ incr_data' \in Seq(Pieces)
      BY <2>1 DEF Read!NoProperty
    <3>2. /\ stage' \in {"targets", "chosen", "fallback", "done"} /\ index' \in 1..3
          /\ target' \in Targets /\ using_incr' \in BOOLEAN
      BY <2>1, <2>3 DEF Targets
    <3> QED
      BY <1>0, <2>5, <3>1, <3>2 DEF ReadTypes
  <2>7. Read!IsPreferred(target)'
    <3>1. \A j \in 1..3 : Read!Formats[j] = target' => j = i
      BY <2>1, <2>3, FormatsAre
    <3> QED
      BY <1>1, <1>4, <2>3, <3>1, FormatsAre DEF Read!IsPreferred
  <2>8. ReadStage'
    BY <1>0, <2>1, <2>7 DEF ReadStage
  <2>9. Asking'
    <3>1. old \in Seq(OldRequests(Past'))
      BY <2>2
    <3>2. \E o \in Seq(OldRequests(Past')) : inbox' = o \o <<Read!Convert(target')>>
      BY <2>1, <3>1
    <3> QED
      BY <2>1, <3>2 DEF Asking
  <2> QED
    BY <2>1, <2>6, <2>8, <2>9 DEF ReadInv, ReadMode
<1> QED
  BY <1>3, <1>4

LEMMA SelectionNotifyStep ==
    ASSUME Read!ConstantsAssumption, ReadInv, Read!SelectionNotify PROVE ReadInv'
<1> DEFINE e == Head(read_events)
           P == Past \cup {target}
<1>0. /\ stage # "done" /\ read_events # <<>> /\ e.type = "SelectionNotify"
      /\ read_events' = Tail(read_events)
      /\ UNCHANGED <<supports, lists, transfer, timeouts>>
  BY DEF Read!SelectionNotify, Read!TakeEvent, Read!ownervars
<1>1. /\ ReadTypes /\ ReadStage /\ ~result.ok
      /\ property.type \in MimeTypes \cup {"None", "ATOM", "INCR"}
  BY <1>0 DEF ReadInv, ReadTypes, ReadMode
<1>2. /\ ~e.ok \/ e.target # target => Read!SingleFails(inbox, property)
      /\ e.ok /\ e.target = target /\ ~using_incr =>
           IF property.type = "INCR"
           THEN /\ using_incr' = TRUE /\ inbox' = Append(inbox, Read!Deleted)
                /\ property' = Read!NoProperty
                /\ UNCHANGED <<stage, index, target, incr_data, result>>
           ELSE Read!SingleReturns(property.type, property.value,
                                   inbox \o Read!DeletionOf(property), Read!NoProperty)
  BY DEF Read!SelectionNotify
<1>3. inbox \in Seq(OldRequests(P)) /\ read_events' \in Seq(OldAnswers(P))
  <2>1. inbox \in Seq(OldRequests(P)) /\ read_events \in Seq(OldAnswers(P))
    BY <1>0, Leftovers
  <2> HIDE DEF P
  <2> QED
    BY <1>0, <2>1, HeadTailProperties
<1>4. ASSUME e \in OldAnswers(Past) PROVE ReadInv'
  <2>1. e.target \in Past
    BY <1>0, <1>4 DEF OldAnswers, Read!PropNotify, Read!SelNotify
  <2>2. e.target # target /\ timeouts # 0
    BY <1>1, <2>1, TargetIsNew DEF Past, PastOf
  <2>3. Read!SingleFails(inbox, property)
    BY <1>2, <2>2
  <2>4. /\ P = IF timeouts' = 0 THEN {} ELSE Past \cup {target}
        /\ timeouts' = 0 => target \notin supports
    BY <1>0, <2>2
  <2> HIDE DEF P
  <2> QED
    BY <1>0, <1>1, <1>3, <2>3, <2>4, FailStep
<1>5. CASE Asking
  <2> DEFINE S == OldAnswers(Past)
  <2>1. read_events \in Seq(S)
    BY <1>5 DEF Asking
  <2> HIDE DEF S
  <2>2. e \in S
    BY <1>0, <2>1, HeadTailProperties
  <2> QED
    BY <1>4, <2>2 DEF S
<1>6. CASE Answered
  <2>0. /\ ~using_incr /\ incr_data = <<>> /\ inbox = <<>>
    BY <1>6 DEF Answered
  <2>1. PICK old \in Seq(OldAnswers(Past)), ok \in BOOLEAN :
          /\ read_events = old \o <<Read!SelNotify(target, ok)>>
          /\ IF ok THEN AnswerThere ELSE target \notin supports
    BY <1>6 DEF Answered
  <2> DEFINE S == OldAnswers(Past)
             c == Read!SelNotify(target, ok)
  <2>2. old \in Seq(S) /\ read_events = old \o <<c>>
    BY <2>1
  <2>3. c.ok = ok /\ c.target = target
    BY DEF Read!SelNotify
  <2> HIDE DEF S, c
  <2>4. CASE old # <<>>
    <3>1. Head(old \o <<c>>) \in S
      BY <2>2, <2>4, TakeBeforeLast
    <3> QED
      BY <1>4, <2>2, <3>1 DEF S
  <2>5. CASE old = <<>>
    <3>1. e = c /\ read_events' = <<>>
      BY <1>0, <2>2, <2>5, TakeBeforeLast
    <3>2. ASSUME NEW Q PROVE read_events' \in Seq(OldAnswers(Q)) /\ <<>> \in Seq(OldRequests(Q))
      BY <3>1
    <3>3. CASE ~ok
      <4>1. Read!SingleFails(inbox, property) /\ target \notin supports
        BY <1>2, <2>1, <2>3, <3>1, <3>3
      <4> DEFINE Q == IF timeouts' = 0 THEN {} ELSE Past \cup {target}
      <4>2. inbox \in Seq(OldRequests(Q)) /\ read_events' \in Seq(OldAnswers(Q))
        BY <2>0, <3>2
      <4> HIDE DEF P, Q
      <4> QED
        BY <1>0, <1>1, <4>1, <4>2, FailStep DEF Q
    <3>4. CASE ok
      <4> DEFINE in == inbox \o Read!DeletionOf(property)
                 p == Read!NoProperty
      <4>0. AnswerThere /\ e.ok /\ e.target = target
        BY <2>1, <2>3, <3>1, <3>4
      <4>1. ASSUME NEW Q PROVE in \in Seq(OldRequests(Q))
        <5>1. Read!Deleted \in OldRequests(Q)
          BY DEF OldRequests
        <5>2. /\ inbox \in Seq(OldRequests(Q)) /\ <<>> \in Seq(OldRequests(Q))
              /\ <<Read!Deleted>> \in Seq(OldRequests(Q))
          BY <2>0, <5>1
        <5>3. Read!DeletionOf(property) \in Seq(OldRequests(Q))
          BY <5>2 DEF Read!DeletionOf
        <5> QED
          BY <5>2, <5>3, ConcatProperties
      <4>2. p.type \in MimeTypes \cup {"None", "ATOM", "INCR"}
        BY DEF Read!NoProperty
      <4>3. CASE target = Read!TARGETS /\ property = [type |-> "ATOM", value |-> <<supports>>]
        <5>1. stage = "targets"
          BY <1>0, <1>1, <4>3, FormatsAre DEF ReadStage, ReadTypes, MimeTypes, Read!TARGETS
        <5>2. property.type = "ATOM" /\ property.value = <<supports>>
          BY <4>3
        <5>3. Read!SingleReturns("ATOM", <<supports>>, in, p)
          BY <1>2, <2>0, <4>0, <5>2
        <5> HIDE DEF in, p
        <5> QED
          BY <1>0, <1>1, <3>2, <4>1, <4>2, <5>1, <5>3, ListedStep
      <4>4. CASE /\ target \in supports \ Large
                 /\ property = [type |-> target, value |-> Read!Content(target)]
        <5>1. target \in MimeTypes /\ stage \in {"chosen", "fallback"} /\ target # "INCR"
          BY <1>0, <1>1, <4>4 DEF ReadStage, ReadTypes, MimeTypes, Read!TARGETS
        <5>2. property.type = target /\ property.value = Read!Content(target)
          BY <4>4
        <5>3. Read!SingleReturns(target, Read!Content(target), in, p)
          BY <1>2, <2>0, <4>0, <5>1, <5>2
        <5>4. Read!Return(Read!Ok(target, Read!Content(target)), in, p)
          BY <5>1, <5>3, FormatsAre DEF Read!SingleReturns
        <5>5. in \in Seq(OldRequests(Targets)) /\ read_events' \in Seq(OldAnswers(Targets))
          BY <3>2, <4>1
        <5> HIDE DEF in, p
        <5> QED
          BY <1>0, <4>2, <4>4, <5>1, <5>4, <5>5, ReturnStep
      <4>5. CASE /\ target \in supports \cap Large
                 /\ property = [type |-> "INCR", value |-> <<>>]
                 /\ transfer = [format |-> target, rest |-> Read!Content(target)]
        <5>1. /\ using_incr' = TRUE /\ inbox' = Append(inbox, Read!Deleted)
              /\ property' = Read!NoProperty
              /\ UNCHANGED <<stage, index, target, incr_data, result>>
          BY <1>2, <2>0, <4>0, <4>5
        <5>2. inbox' = <<Read!Deleted>> /\ read_events' = <<>>
          BY <2>0, <3>1, <5>1
        <5>3. inbox' \in Seq(OldRequests(Targets)) /\ read_events' \in Seq(OldAnswers(Targets))
          BY <3>2, <5>2 DEF OldRequests
        <5>4. property'.type = "None"
          BY <5>1 DEF Read!NoProperty
        <5>5. ReadTypes'
          BY <1>0, <1>1, <5>1, <5>3, <5>4 DEF ReadTypes
        <5>6. ReadStage'
          BY <1>0, <1>1, <5>1 DEF ReadStage, Read!IsPreferred
        <5>7. <<>> \o Read!Content(target) = Read!Content(target)
          BY <1>1, <4>5, ContentType, ConcatEmptySeq DEF ReadTypes
        <5>8. AwaitsChunk'
          <6>1. transfer'.format = target' /\ transfer'.rest = Read!Content(target)
            BY <1>0, <4>5, <5>1
          <6>2. incr_data' = <<>> /\ Read!Content(target') = Read!Content(target)
            BY <2>0, <5>1
          <6>3. incr_data' \o transfer'.rest = Read!Content(target')
            BY <5>7, <6>1, <6>2, Zenon
          <6> QED
            BY <1>0, <4>5, <5>1, <5>2, <6>1, <6>3 DEF AwaitsChunk
        <5> QED
          BY <1>0, <1>1, <5>1, <5>5, <5>6, <5>8 DEF ReadInv, ReadMode
      <4> QED
        BY <4>0, <4>3, <4>4, <4>5 DEF AnswerThere
    <3> QED
      BY <3>3, <3>4
  <2> QED
    BY <2>4, <2>5
<1>7. ~AwaitsChunk
  BY <1>0 DEF AwaitsChunk
<1>8. ~ChunkThere
  <2>1. Head(<<Read!PropNotify>>).type # "SelectionNotify"
    BY DEF Read!PropNotify
  <2> QED
    BY <1>0, <2>1 DEF ChunkThere
<1> QED
  BY <1>0, <1>5, <1>6, <1>7, <1>8 DEF ReadInv, ReadMode

LEMMA PropertyNotifyStep ==
    ASSUME Read!ConstantsAssumption, ReadInv, Read!PropertyNotify PROVE ReadInv'
<1>0. /\ stage # "done" /\ read_events # <<>> /\ Head(read_events).type = "PropertyNotify"
      /\ read_events' = Tail(read_events)
      /\ UNCHANGED <<supports, lists, transfer, timeouts>>
  BY DEF Read!PropertyNotify, Read!TakeEvent, Read!ownervars
<1>1. /\ ReadTypes /\ ReadStage /\ ~result.ok
  BY <1>0 DEF ReadInv, ReadMode
<1>2. read_events' \in Seq(OldAnswers(Targets))
  BY <1>0, <1>1, HeadTailProperties DEF ReadTypes
<1>3. CASE ~using_incr
  <2>1. UNCHANGED <<inbox, property, stage, index, target, using_incr, incr_data, result>>
    BY <1>3 DEF Read!PropertyNotify
  <2>2. ReadTypes' /\ ReadStage'
    BY <1>0, <1>1, <1>2, <2>1 DEF ReadTypes, ReadStage, Read!IsPreferred
  <2>3. Past' = Past
    BY <1>0, <2>1 DEF Past
  <2>4. CASE Asking
    <3> DEFINE S == OldAnswers(Past)
    <3>1. read_events \in Seq(S)
      BY <2>4 DEF Asking
    <3> HIDE DEF S
    <3>2. read_events' \in Seq(S)
      BY <1>0, <3>1, HeadTailProperties
    <3>3. Asking'
      BY <2>1, <2>3, <2>4, <3>2 DEF Asking, S
    <3> QED
      BY <1>1, <2>1, <2>2, <3>3, <1>0 DEF ReadInv, ReadMode
  <2>5. CASE Answered
    <3>1. PICK old \in Seq(OldAnswers(Past)), ok \in BOOLEAN :
            /\ read_events = old \o <<Read!SelNotify(target, ok)>>
            /\ IF ok THEN AnswerThere ELSE target \notin supports
      BY <2>5 DEF Answered
    <3> DEFINE S == OldAnswers(Past)
               c == Read!SelNotify(target, ok)
    <3>2. old \in Seq(S) /\ read_events = old \o <<c>> /\ c.type # "PropertyNotify"
      BY <3>1 DEF Read!SelNotify
    <3> HIDE DEF S, c
    <3>3. old # <<>>
      BY <1>0, <3>2, TakeBeforeLast
    <3>4. Tail(old) \in Seq(S) /\ Tail(old \o <<c>>) = Tail(old) \o <<c>>
      BY <3>2, <3>3, TakeBeforeLast
    <3>5. /\ Tail(old) \in Seq(OldAnswers(Past'))
          /\ read_events' = Tail(old) \o <<Read!SelNotify(target', ok)>>
      BY <1>0, <2>1, <2>3, <3>2, <3>4, Zenon DEF S, c
    <3>6. IF ok THEN AnswerThere' ELSE target' \notin supports'
      BY <1>0, <2>1, <3>1 DEF AnswerThere, Read!Content
    <3>7. Answered'
      BY <2>1, <2>5, <3>5, <3>6 DEF Answered
    <3> QED
      BY <1>0, <1>1, <2>1, <2>2, <3>7 DEF ReadInv, ReadMode
  <2> QED
    BY <1>0, <1>3, <2>4, <2>5 DEF ReadInv, ReadMode, AwaitsChunk, ChunkThere
<1>4. CASE using_incr
  <2>1. ChunkThere
    BY <1>0, <1>4 DEF ReadInv, ReadMode, Asking, Answered, AwaitsChunk
  <2>2. /\ target \in supports /\ target \in MimeTypes /\ target # Read!TARGETS
        /\ inbox = <<>> /\ read_events' = <<>> /\ property.type = target
        /\ incr_data \in Seq(Pieces)
    <3>1. target \in supports /\ inbox = <<>> /\ read_events = <<Read!PropNotify>>
      BY <2>1 DEF ChunkThere
    <3>2. target \in MimeTypes /\ target # Read!TARGETS /\ incr_data \in Seq(Pieces)
      BY <1>1, <3>1 DEF ReadTypes, MimeTypes, Read!TARGETS
    <3>3. read_events' = <<>>
      BY <1>0, <3>1
    <3>4. \E v : property = [type |-> target, value |-> v]
      BY <2>1 DEF ChunkThere
    <3>5. property.type = target
      BY <3>4
    <3> QED
      BY <3>1, <3>2, <3>3, <3>5
  <2>3. /\ Read!ChunkType = target
        /\ IF property.value = <<>>
           THEN Read!SingleReturns(target, incr_data, Append(inbox, Read!Deleted), Read!NoProperty)
           ELSE /\ incr_data' = incr_data \o property.value
                /\ inbox' = Append(inbox, Read!Deleted)
                /\ property' = Read!NoProperty
                /\ UNCHANGED <<stage, index, target, using_incr, result>>
    BY <1>4, <2>2 DEF Read!PropertyNotify, Read!ReadChunk, Read!ChunkType
  <2>4. Append(inbox, Read!Deleted) = <<Read!Deleted>>
    BY <2>2
  <2>5. <<Read!Deleted>> \in Seq(OldRequests(Targets))
    BY DEF OldRequests
  <2>6. Read!NoProperty.type = "None"
    BY DEF Read!NoProperty
  <2>7. CASE property = [type |-> target, value |-> <<>>] /\ incr_data = Read!Content(target)
    <3>1. Read!SingleReturns(target, Read!Content(target), <<Read!Deleted>>, Read!NoProperty)
      BY <2>3, <2>4, <2>7
    <3>2. stage \in {"chosen", "fallback"}
      BY <1>0, <1>1, <2>2 DEF ReadStage, ReadTypes
    <3>3. Read!Return(Read!Ok(target, Read!Content(target)), <<Read!Deleted>>, Read!NoProperty)
      BY <2>2, <3>1, <3>2, FormatsAre DEF Read!SingleReturns
    <3> QED
      BY <1>0, <1>2, <2>2, <2>5, <2>6, <3>2, <3>3, ReturnStep
  <2>8. ASSUME NEW x \in Pieces, transfer.format = target,
               property = [type |-> target, value |-> <<x>>],
               (incr_data \o <<x>>) \o transfer.rest = Read!Content(target)
        PROVE  ReadInv'
    <3>1. /\ incr_data' = incr_data \o <<x>> /\ inbox' = <<Read!Deleted>>
          /\ property' = Read!NoProperty
          /\ UNCHANGED <<stage, index, target, using_incr, result>>
      BY <2>3, <2>4, <2>8
    <3>2. <<x>> \in Seq(Pieces)
      OBVIOUS
    <3>3. incr_data' \in Seq(Pieces)
      BY <2>2, <3>1, <3>2, ConcatProperties
    <3>4. ReadTypes'
      BY <1>0, <1>1, <1>2, <2>5, <2>6, <3>1, <3>3 DEF ReadTypes
    <3>5. ReadStage'
      BY <1>0, <1>1, <3>1 DEF ReadStage, Read!IsPreferred
    <3>6. incr_data' \o transfer'.rest = Read!Content(target')
      <4>1. Read!Content(target') = Read!Content(target)
        BY <3>1
      <4> QED
        BY <1>0, <2>8, <3>1, <4>1, Zenon
    <3>7. AwaitsChunk'
      BY <1>0, <1>4, <2>2, <2>8, <3>1, <3>6 DEF AwaitsChunk
    <3> QED
      BY <1>0, <1>1, <3>1, <3>4, <3>5, <3>7 DEF ReadInv, ReadMode
  <2> QED
    BY <2>1, <2>7, <2>8 DEF ChunkThere
<1> QED
  BY <1>1, <1>3, <1>4 DEF ReadTypes

LEMMA ReadStep ==
    ASSUME Read!ConstantsAssumption PROVE ReadInv /\ [Read!Next]_Read!vars => ReadInv'
<1> SUFFICES ASSUME ReadInv, [Read!Next]_Read!vars PROVE ReadInv'
  OBVIOUS
<1>1. CASE UNCHANGED Read!vars
  BY <1>1 DEF Read!vars, Read!ownervars, ReadInv, ReadTypes, ReadStage, ReadMode, Past, Asking,
     Answered, AnswerThere, AwaitsChunk, ChunkThere, Read!IsPreferred, Read!ReturnsWhole,
     Read!PromptOwnerIsRead
<1> QED
  BY <1>1, OwnerConvertsStep, OwnerSendsChunkStep, SelectionNotifyStep, PropertyNotifyStep,
     TimeoutStep DEF Read!Next, Read!Reader, Read!Done

LEMMA ReadInductive ==
    ASSUME Read!ConstantsAssumption
    PROVE  /\ Read!Init => ReadInv
           /\ ReadInv /\ [Read!Next]_Read!vars => ReadInv'
           /\ ReadInv => Read!TypeOK /\ Read!ReturnsWhole /\ Read!PromptOwnerIsRead
<1>1. ReadInv => Read!TypeOK
  <2> SUFFICES ASSUME ReadInv PROVE Read!TypeOK
    OBVIOUS
  <2>1. \A i \in DOMAIN inbox : inbox[i].type \in {"convert", "deleted"}
    <3>1. \A r \in OldRequests(Targets) : r.type \in {"convert", "deleted"}
      BY DEF OldRequests, Read!Convert, Read!Deleted
    <3>2. \A i \in DOMAIN inbox : inbox[i] \in OldRequests(Targets)
      BY LenProperties DEF ReadInv, ReadTypes
    <3> QED
      BY <3>1, <3>2
  <2> QED
    BY <2>1, FormatsAre DEF ReadInv, ReadTypes, Read!TypeOK, Targets
<1>2. ReadInv => Read!ReturnsWhole /\ Read!PromptOwnerIsRead
  BY DEF ReadInv, ReadMode, Read!ReturnsWhole, Read!PromptOwnerIsRead
<1> QED
  BY <1>1, <1>2, ReadInit, ReadStep

-----------------------------------------------------------------------------
(* The ring of the journal                                                *)

\* The publisher writes the entry that is to become final next, and nothing is dropped before the
\* pending entries are out.
PublisherOK ==
    /\ finalized \in Nat /\ offered \in Nat /\ ring_pending \in Seq(Nat) /\ dropped \in Nat
    /\ todo \in 0..2 /\ writing \in Nat
    /\ wpc \in {"idle", "flush", "offer", "publish", "write", "release", "finalize"}
    /\ wpc = "offer" => todo > 0
    /\ wpc = "publish" => ring_pending = <<>> /\ dropped = 0
    /\ wpc \in {"write", "release", "finalize"} =>
          writing = finalized /\ (ring_pending = <<>> => dropped = 0)
    /\ Ring!InOrder

\* A slot that is not being written holds the entry of its sequence, and only such as belong in it.
SlotsOK ==
    /\ users \in [Ring!Slots -> Nat \cup {Ring!WRITER}]
    /\ sequence \in [Ring!Slots -> Nat \cup {Ring!EMPTY}]
    /\ entry \in [Ring!Slots -> Nat \cup {Ring!Torn}]
    /\ \A i \in Ring!Slots :
          sequence[i] # Ring!EMPTY =>
              /\ Ring!Slot(sequence[i]) = i
              /\ entry[i] = sequence[i] \/ (wpc = "write" /\ Ring!Slot(writing) = i)

\* A collector reads final entries only, and the slot it copies from keeps its sequence.
CollectorOK ==
    /\ ring_cursor \in [Collectors -> Nat]
    /\ end \in [Collectors -> Nat]
    /\ rpc \in [Collectors -> {"none", "idle", "read", "check", "copy", "remove"}]
    /\ start \in [Collectors -> Nat]
    /\ copied \in [Collectors -> Nat \cup {Ring!Torn}]
    /\ taken \in [Collectors -> Nat]
    /\ missed \in [Collectors -> SUBSET Nat]
    /\ \A c \in Collectors :
          /\ start[c] <= ring_cursor[c]
          /\ rpc[c] = "none" => missed[c] = {} /\ taken[c] = 0
          /\ rpc[c] \in {"read", "check", "copy", "remove"} => end[c] <= finalized
          /\ Ring!Reading(c) => ring_cursor[c] < end[c]
          /\ rpc[c] = "copy" => sequence[Ring!Slot(ring_cursor[c])] = ring_cursor[c]
          /\ \A s \in missed[c] : s < finalized

\* The inductive invariant.
RingInv ==
    /\ PublisherOK /\ SlotsOK /\ CollectorOK
    /\ Ring!Exclusion /\ Ring!CopiesItsEntry /\ Ring!EachOnce /\ Ring!LostIsOld

-----------------------------------------------------------------------------
(* Slots and sets of readers.                                              *)

LEMMA SlotType ==
    ASSUME Ring!ConstantsAssumption, NEW s \in Nat
    PROVE  Ring!Slot(s) \in Ring!Slots
  BY DEF Ring!ConstantsAssumption, Ring!Slot, Ring!Slots

\* Of two entries in one slot, the later is at least a whole ring behind.
LEMMA SlotApart ==
    ASSUME Ring!ConstantsAssumption, NEW a \in Nat, NEW b \in Nat, a < b, Ring!Slot(a) = Ring!Slot(b)
    PROVE  a + Capacity <= b
<1> DEFINE x == a \div Capacity
           y == b \div Capacity
<1>0. Capacity \in Nat \ {0}
  BY DEF Ring!ConstantsAssumption
<1>1. /\ a = Capacity * x + (a % Capacity) /\ b = Capacity * y + (b % Capacity)
      /\ x \in Int /\ y \in Int /\ a % Capacity \in Int /\ a % Capacity = b % Capacity
  BY <1>0 DEF Ring!Slot
<1> HIDE DEF x, y
<1>2. Capacity * x < Capacity * y
  BY <1>0, <1>1
<1>3. x < y
  BY <1>0, <1>1, <1>2
<1>4. Capacity * (x + 1) <= Capacity * y
  BY <1>0, <1>1, <1>3
<1>5. Capacity * x + Capacity <= Capacity * y
  BY <1>0, <1>1, <1>4
<1> QED
  BY <1>0, <1>1, <1>5

\* The operators of FiniteSets, seen through the instance.
LEMMA RingSets ==
    /\ \A S : Ring!IsFiniteSet(S) <=> IsFiniteSet(S)
    /\ \A S : Ring!Cardinality(S) = Cardinality(S)
<1>1. \A S : Ring!IsFiniteSet(S) <=> IsFiniteSet(S)
  BY DEF Ring!IsFiniteSet, IsFiniteSet
<1>2. \A S : Ring!Cardinality(S) = Cardinality(S)
  BY DEF Ring!Cardinality, Cardinality
<1> QED
  BY <1>1, <1>2

LEMMA ReadersFinite ==
    ASSUME Ring!ConstantsAssumption, NEW i
    PROVE  IsFiniteSet(Ring!Readers(i)) /\ Cardinality(Ring!Readers(i)) \in Nat
<1>1. IsFiniteSet(Ring!Readers(i))
  BY RingSets, FS_Subset DEF Ring!ConstantsAssumption, Ring!Readers
<1> QED
  BY <1>1, FS_CardinalityType

\* The readers do not change while no collector moves.
LEMMA ReadersSame ==
    ASSUME UNCHANGED <<rpc, ring_cursor>>, NEW i
    PROVE  Ring!Readers(i)' = Ring!Readers(i)
  BY DEF Ring!Readers, Ring!Reading

-----------------------------------------------------------------------------

LEMMA RingInit == ASSUME Ring!ConstantsAssumption PROVE Ring!Init => RingInv
<1> SUFFICES ASSUME Ring!Init PROVE RingInv
  OBVIOUS
<1>1. PublisherOK
  BY DEF Ring!Init, PublisherOK, Ring!InOrder
<1>2. SlotsOK
  BY DEF Ring!Init, SlotsOK, Ring!EMPTY, Ring!Torn
<1>3. CollectorOK /\ Ring!CopiesItsEntry
  BY DEF Ring!Init, CollectorOK, Ring!CopiesItsEntry, Ring!Reading
<1>4. Ring!Exclusion
  <2>1. \A i \in Ring!Slots : Ring!Readers(i) = {}
    BY DEF Ring!Init, Ring!Readers, Ring!Reading
  <2> QED
    BY RingSets, <2>1, FS_EmptySet DEF Ring!Init, Ring!Exclusion
<1>5. Ring!EachOnce /\ Ring!LostIsOld
  BY RingSets, FS_EmptySet DEF Ring!Init, Ring!EachOnce, Ring!LostIsOld
<1> QED
  BY <1>1, <1>2, <1>3, <1>4, <1>5 DEF RingInv

\* The properties and the type, from the invariant.
LEMMA RingImplies ==
    RingInv => Ring!TypeOK /\ Ring!Exclusion /\ Ring!CopiesItsEntry /\ Ring!EachOnce /\ Ring!InOrder /\ Ring!LostIsOld
  BY DEF RingInv, PublisherOK, SlotsOK, CollectorOK, Ring!TypeOK

-----------------------------------------------------------------------------
(* The publisher's steps.                                                  *)

\* A run of sequence numbers stays one when the next is appended or the first leaves.
LEMMA AppendOrder ==
    ASSUME NEW q \in Seq(Nat), NEW f \in Nat, \A i \in DOMAIN q : q[i] = f + i - 1,
           NEW n \in Nat, n = f + Len(q)
    PROVE  /\ Append(q, n) \in Seq(Nat) /\ Len(Append(q, n)) = Len(q) + 1
           /\ \A i \in DOMAIN Append(q, n) : Append(q, n)[i] = f + i - 1
<1>1. Len(q) \in Nat /\ DOMAIN q = 1..Len(q)
  OBVIOUS
<1>2. /\ Append(q, n) \in Seq(Nat) /\ Len(Append(q, n)) = Len(q) + 1
      /\ DOMAIN Append(q, n) = 1..(Len(q) + 1)
  OBVIOUS
<1>3. ASSUME NEW i \in 1..(Len(q) + 1)
      PROVE  Append(q, n)[i] = f + i - 1
  <2>1. CASE i = Len(q) + 1
    <3>1. Append(q, n)[Len(q) + 1] = n
      OBVIOUS
    <3> QED
      BY <1>1, <2>1, <3>1
  <2>2. CASE i # Len(q) + 1
    <3>1. i \in 1..Len(q)
      BY <1>1, <2>2
    <3>2. Append(q, n)[i] = q[i]
      BY <3>1
    <3> QED
      BY <1>1, <3>1, <3>2
  <2> QED
    BY <2>1, <2>2
<1> QED
  BY <1>2, <1>3

LEMMA TailOrder ==
    ASSUME NEW q \in Seq(Nat), NEW f \in Nat, \A i \in DOMAIN q : q[i] = f + i - 1, q # <<>>
    PROVE  /\ Tail(q) \in Seq(Nat) /\ Len(Tail(q)) = Len(q) - 1
           /\ \A i \in DOMAIN Tail(q) : Tail(q)[i] = f + 1 + i - 1
<1>1. Len(q) \in Nat \ {0} /\ DOMAIN q = 1..Len(q)
  OBVIOUS
<1>2. /\ Tail(q) \in Seq(Nat) /\ Len(Tail(q)) = Len(q) - 1
      /\ DOMAIN Tail(q) = 1..(Len(q) - 1)
  OBVIOUS
<1>3. ASSUME NEW i \in 1..(Len(q) - 1)
      PROVE  Tail(q)[i] = f + 1 + i - 1
  <2>1. i + 1 \in DOMAIN q /\ i \in Nat
    BY <1>1
  <2>2. Tail(q)[i] = q[i + 1]
    BY <1>1
  <2>3. q[i + 1] = f + (i + 1) - 1
    BY <2>1
  <2> QED
    BY <2>1, <2>2, <2>3
<1> QED
  BY <1>2, <1>3
\* The publisher's part of the invariant holds after each of its steps.
LEMMA PublisherOrder ==
    ASSUME Ring!ConstantsAssumption, PublisherOK, Ring!Publisher \/ \E n \in 1..2 : Ring!Publish(n)
    PROVE  PublisherOK'
<1>0. /\ finalized \in Nat /\ offered \in Nat /\ ring_pending \in Seq(Nat) /\ dropped \in Nat
      /\ todo \in 0..2 /\ writing \in Nat
      /\ Len(ring_pending) \in Nat /\ (ring_pending = <<>> <=> Len(ring_pending) = 0)
      /\ \A i \in DOMAIN ring_pending : ring_pending[i] = finalized + i - 1
  BY DEF PublisherOK, Ring!InOrder
<1>1. ASSUME NEW n \in 1..2, Ring!Publish(n)
      PROVE  PublisherOK'
  BY <1>1 DEF Ring!Publish, Ring!InOrder, PublisherOK
<1>2. CASE Ring!FlushAcquire
  <2>1. Head(ring_pending) = finalized /\ Head(ring_pending) \in Nat
    BY <1>0, <1>2 DEF Ring!FlushAcquire
  <2> QED
    BY <1>2, <2>1 DEF Ring!FlushAcquire, Ring!Acquire, Ring!InOrder, PublisherOK
<1>3. CASE Ring!FlushBlocked
  BY <1>3 DEF Ring!FlushBlocked, Ring!AfterFlush, Ring!InOrder, PublisherOK
<1>4. CASE Ring!FlushDone
  BY <1>0, <1>4 DEF Ring!FlushDone, Ring!AfterFlush, Ring!InOrder, PublisherOK
<1>5. CASE Ring!Offer
  <2>1. todo' \in 0..2 /\ offered' = offered + 1 /\ UNCHANGED <<finalized, writing>>
    BY <1>5 DEF Ring!Offer, PublisherOK
  <2>2. offered = finalized + Len(ring_pending) + dropped
    BY <1>0, <1>5 DEF Ring!Offer, Ring!InOrder, PublisherOK
  <2>3. CASE ring_pending = <<>> /\ dropped = 0
    <3>1. wpc' = "publish" /\ UNCHANGED <<ring_pending, dropped>>
      BY <1>5, <2>3 DEF Ring!Offer
    <3> QED
      BY <1>0, <2>1, <2>2, <2>3, <3>1 DEF Ring!InOrder, PublisherOK
  <2>4. CASE dropped = 0 /\ Len(ring_pending) < PendingCapacity /\ ring_pending # <<>>
    <3>1. wpc' = "flush" /\ ring_pending' = Append(ring_pending, offered) /\ UNCHANGED dropped
      BY <1>5, <2>4 DEF Ring!Offer
    <3>2. offered = finalized + Len(ring_pending)
      BY <1>0, <2>2, <2>4
    <3>3. /\ ring_pending' \in Seq(Nat) /\ Len(ring_pending') = Len(ring_pending) + 1
          /\ \A i \in DOMAIN ring_pending' : ring_pending'[i] = finalized + i - 1
      BY <1>0, <3>1, <3>2, AppendOrder
    <3>4. Ring!InOrder'
      BY <1>0, <2>1, <2>4, <3>1, <3>2, <3>3 DEF Ring!InOrder
    <3> QED
      BY <1>0, <2>1, <3>1, <3>3, <3>4 DEF PublisherOK
  <2>5. CASE ~(ring_pending = <<>> /\ dropped = 0) /\ ~(dropped = 0 /\ Len(ring_pending) < PendingCapacity)
    <3>1. wpc' = "flush" /\ dropped' = dropped + 1 /\ UNCHANGED ring_pending
      BY <1>5, <2>5 DEF Ring!Offer
    <3> QED
      BY <1>0, <2>1, <2>2, <3>1 DEF Ring!InOrder, PublisherOK
  <2> QED
    BY <2>3, <2>4, <2>5
<1>6. CASE Ring!PublishAcquire
  <2>1. offered - 1 = finalized
    BY <1>0, <1>6 DEF Ring!PublishAcquire, Ring!InOrder, PublisherOK
  <2> QED
    BY <1>6, <2>1 DEF Ring!PublishAcquire, Ring!Acquire, Ring!InOrder, PublisherOK
<1>7. CASE Ring!PublishBlocked
  <2>1. offered - 1 = finalized /\ ring_pending = <<>> /\ dropped = 0 /\ offered - 1 \in Nat
    BY <1>0, <1>7 DEF Ring!PublishBlocked, Ring!InOrder, PublisherOK
  <2>2. wpc' = "flush" /\ UNCHANGED <<finalized, offered, todo, writing>>
    BY <1>7 DEF Ring!PublishBlocked
  <2>3. CASE PendingCapacity > 0
    <3>1. ring_pending' = Append(ring_pending, offered - 1) /\ dropped' = 0
      BY <1>7, <2>1, <2>3 DEF Ring!PublishBlocked
    <3>2. offered - 1 = finalized + Len(ring_pending)
      BY <1>0, <2>1
    <3>3. /\ ring_pending' \in Seq(Nat) /\ Len(ring_pending') = Len(ring_pending) + 1
          /\ \A i \in DOMAIN ring_pending' : ring_pending'[i] = finalized + i - 1
      BY <1>0, <2>1, <3>1, <3>2, AppendOrder
    <3>4. Ring!InOrder'
      BY <1>0, <2>1, <2>2, <3>1, <3>2, <3>3 DEF Ring!InOrder
    <3> QED
      BY <1>0, <2>2, <3>1, <3>3, <3>4 DEF PublisherOK
  <2>4. CASE ~(PendingCapacity > 0)
    <3>1. ring_pending' = <<>> /\ dropped' = 1
      BY <1>7, <2>1, <2>4 DEF Ring!PublishBlocked
    <3> QED
      BY <1>0, <2>1, <2>2, <3>1 DEF Ring!InOrder, PublisherOK
  <2> QED
    BY <2>3, <2>4
<1>8. CASE Ring!Write
  BY <1>8 DEF Ring!Write, Ring!InOrder, PublisherOK
<1>9. CASE Ring!Release
  BY <1>9 DEF Ring!Release, Ring!InOrder, PublisherOK
<1>10. CASE Ring!Finalize
  <2>1. /\ finalized' = finalized + 1 /\ wpc' = "flush"
        /\ UNCHANGED <<offered, dropped, todo, writing>>
    BY <1>10 DEF Ring!Finalize, PublisherOK
  <2>2. CASE ring_pending = <<>>
    BY <1>0, <1>10, <2>1, <2>2 DEF Ring!Finalize, Ring!InOrder, PublisherOK
  <2>3. CASE ring_pending # <<>>
    <3>1. ring_pending' = Tail(ring_pending)
      BY <1>10, <2>3 DEF Ring!Finalize
    <3>2. /\ ring_pending' \in Seq(Nat) /\ Len(ring_pending') = Len(ring_pending) - 1
          /\ \A i \in DOMAIN ring_pending' : ring_pending'[i] = finalized + 1 + i - 1
      BY <1>0, <2>3, <3>1, TailOrder
    <3>3. offered = finalized + Len(ring_pending) + dropped
      BY <1>0, <2>3 DEF Ring!InOrder, PublisherOK
    <3>4. Ring!InOrder'
      BY <1>0, <2>1, <2>3, <3>2, <3>3 DEF Ring!InOrder
    <3> QED
      BY <1>0, <2>1, <3>2, <3>4 DEF PublisherOK
  <2> QED
    BY <2>2, <2>3
<1> QED
  BY <1>1, <1>2, <1>3, <1>4, <1>5, <1>6, <1>7, <1>8, <1>9, <1>10 DEF Ring!Publisher

\* The publisher leaves the collectors alone, and what is final or offered stays so.
LEMMA PublisherFrame ==
    ASSUME PublisherOK, Ring!Publisher \/ \E n \in 1..2 : Ring!Publish(n)
    PROVE  /\ UNCHANGED Ring!collectors
           /\ finalized <= finalized' /\ offered <= offered'
           /\ finalized' \in Nat /\ offered' \in Nat
           /\ sequence' = sequence \/ Ring!Write
<1>1. UNCHANGED Ring!collectors
  BY DEF Ring!Publisher, Ring!Publish, Ring!FlushAcquire, Ring!FlushBlocked, Ring!FlushDone,
     Ring!Offer, Ring!PublishAcquire, Ring!PublishBlocked, Ring!Write, Ring!Release, Ring!Finalize,
     Ring!collectors
<1>2. sequence' = sequence \/ Ring!Write
  BY DEF Ring!Publisher, Ring!Publish, Ring!FlushAcquire, Ring!FlushBlocked, Ring!FlushDone,
     Ring!Offer, Ring!PublishAcquire, Ring!PublishBlocked, Ring!Release, Ring!Finalize, Ring!slots
<1>3. /\ finalized \in Nat /\ offered \in Nat /\ Len(ring_pending) \in Nat /\ dropped \in Nat
      /\ finalized <= offered
  <2>1. finalized \in Nat /\ offered \in Nat /\ Len(ring_pending) \in Nat /\ dropped \in Nat
    BY DEF PublisherOK
  <2>2. \E k \in 0..1 : offered = finalized + Len(ring_pending) + dropped + k
    BY DEF PublisherOK, Ring!InOrder
  <2> QED
    BY <2>1, <2>2
<1>4. \/ finalized' = finalized \/ finalized' = offered
      \/ (finalized' = finalized + 1)
  BY DEF Ring!Publisher, Ring!Publish, Ring!FlushAcquire, Ring!FlushBlocked, Ring!FlushDone,
     Ring!Offer, Ring!PublishAcquire, Ring!PublishBlocked, Ring!Write, Ring!Release, Ring!Finalize,
     PublisherOK
<1>5. offered' = offered \/ offered' = offered + 1
  BY DEF Ring!Publisher, Ring!Publish, Ring!FlushAcquire, Ring!FlushBlocked, Ring!FlushDone,
     Ring!Offer, Ring!PublishAcquire, Ring!PublishBlocked, Ring!Write, Ring!Release, Ring!Finalize
<1> QED
  BY <1>1, <1>2, <1>3, <1>4, <1>5

\* What a step of the publisher does to the slots: it takes one that is free, writes the one it has
\* taken, gives it back, or touches none.
LEMMA PublisherSlots ==
    ASSUME PublisherOK, Ring!Publisher \/ \E n \in 1..2 : Ring!Publish(n)
    PROVE  \/ /\ wpc \notin {"write", "release"} /\ wpc' = "write" /\ writing' \in Nat
              /\ Ring!Acquire(writing', "write") /\ UNCHANGED sequence
           \/ Ring!Write
           \/ Ring!Release
           \/ /\ wpc \notin {"write", "release"} /\ wpc' \notin {"write", "release"}
              /\ UNCHANGED Ring!slots
<1>1. CASE Ring!FlushAcquire
  <2>1. Head(ring_pending) \in Nat
    BY <1>1 DEF Ring!FlushAcquire, PublisherOK
  <2> QED
    BY <1>1, <2>1 DEF Ring!FlushAcquire, Ring!Acquire
<1>2. CASE Ring!PublishAcquire
  <2>1. offered - 1 \in Nat
    BY <1>2 DEF Ring!PublishAcquire, PublisherOK, Ring!InOrder
  <2> QED
    BY <1>2, <2>1 DEF Ring!PublishAcquire, Ring!Acquire
<1>3. CASE (\E n \in 1..2 : Ring!Publish(n)) \/ Ring!FlushBlocked \/ Ring!FlushDone
  BY <1>3 DEF Ring!Publish, Ring!FlushBlocked, Ring!FlushDone, Ring!AfterFlush
<1>4. CASE Ring!Offer \/ Ring!PublishBlocked \/ Ring!Finalize
  BY <1>4 DEF Ring!Offer, Ring!PublishBlocked, Ring!Finalize
<1> QED
  BY <1>1, <1>2, <1>3, <1>4 DEF Ring!Publisher

LEMMA PublisherExclusion ==
    ASSUME Ring!ConstantsAssumption, RingInv, Ring!Publisher \/ \E n \in 1..2 : Ring!Publish(n)
    PROVE  SlotsOK' /\ Ring!Exclusion'
<1>0. PublisherOK /\ SlotsOK /\ Ring!Exclusion
  BY DEF RingInv
<1>1. \A i : Ring!Readers(i)' = Ring!Readers(i)
  BY <1>0, PublisherFrame, ReadersSame DEF Ring!collectors
<1>2. \A i : IsFiniteSet(Ring!Readers(i))
  BY ReadersFinite
<1>3. ASSUME wpc \notin {"write", "release"}, wpc' = "write", writing' \in Nat,
             Ring!Acquire(writing', "write"), UNCHANGED sequence
      PROVE  SlotsOK' /\ Ring!Exclusion'
  <2> DEFINE j == Ring!Slot(writing')
  <2>1. j \in Ring!Slots
    BY <1>3, SlotType
  <2>2. /\ users[j] = 0 /\ users' = [users EXCEPT ![j] = Ring!WRITER]
        /\ entry' = [entry EXCEPT ![j] = Ring!Torn]
    BY <1>3 DEF Ring!Acquire
  <2>3. users[j] = Cardinality(Ring!Readers(j))
    BY RingSets, <1>0, <1>3, <2>1 DEF Ring!Exclusion
  <2>4. Ring!Readers(j) = {}
    BY <1>2, <2>2, <2>3, FS_EmptySet
  <2> HIDE DEF j
  <2>5. SlotsOK'
    BY <1>0, <1>3, <2>1, <2>2 DEF SlotsOK, j
  <2>6. Ring!Exclusion'
    BY <1>0, <1>1, <1>3, <2>1, <2>2, <2>4 DEF SlotsOK, Ring!Exclusion, j
  <2> QED
    BY <2>5, <2>6
<1>4. CASE Ring!Write
  <2>1. writing \in Nat /\ Ring!Slot(writing) \in Ring!Slots /\ wpc = "write" /\ wpc' = "release"
    BY <1>0, <1>4, SlotType DEF PublisherOK, Ring!Write
  <2>2. SlotsOK'
    BY <1>0, <1>4, <2>1 DEF SlotsOK, Ring!Write
  <2>3. Ring!Exclusion'
    BY <1>0, <1>1, <1>4, <2>1 DEF Ring!Exclusion, Ring!Write
  <2> QED
    BY <2>2, <2>3
<1>5. CASE Ring!Release
  <2>1. writing \in Nat /\ Ring!Slot(writing) \in Ring!Slots /\ wpc = "release" /\ wpc' = "finalize"
    BY <1>0, <1>5, SlotType DEF PublisherOK, Ring!Release
  <2>2. SlotsOK'
    BY <1>0, <1>5, <2>1 DEF SlotsOK, Ring!Release
  <2>3. Ring!Exclusion'
    BY RingSets, <1>0, <1>1, <1>5, <2>1, FS_EmptySet DEF Ring!Exclusion, Ring!Release, SlotsOK
  <2> QED
    BY <2>2, <2>3
<1>6. ASSUME wpc \notin {"write", "release"}, wpc' \notin {"write", "release"}, UNCHANGED Ring!slots
      PROVE  SlotsOK' /\ Ring!Exclusion'
  BY <1>0, <1>1, <1>6 DEF SlotsOK, Ring!Exclusion, Ring!slots
<1> QED
  BY <1>0, <1>3, <1>4, <1>5, <1>6, PublisherSlots

LEMMA PublisherStep ==
    ASSUME Ring!ConstantsAssumption, RingInv, Ring!Publisher \/ \E n \in 1..2 : Ring!Publish(n)
    PROVE  RingInv'
<1>0. PublisherOK /\ SlotsOK /\ CollectorOK /\ Ring!Exclusion /\ Ring!CopiesItsEntry /\ Ring!EachOnce /\ Ring!LostIsOld
  BY DEF RingInv
<1>1. PublisherOK' /\ SlotsOK' /\ Ring!Exclusion'
  BY <1>0, PublisherOrder, PublisherExclusion
<1>2. /\ UNCHANGED Ring!collectors
      /\ finalized <= finalized' /\ offered <= offered'
      /\ finalized \in Nat /\ offered \in Nat /\ finalized' \in Nat /\ offered' \in Nat
  BY <1>0, PublisherFrame DEF PublisherOK
<1>3. Ring!CopiesItsEntry' /\ Ring!EachOnce'
  BY <1>0, <1>2 DEF Ring!CopiesItsEntry, Ring!EachOnce, Ring!collectors
<1>4. CASE sequence' = sequence
  <2>1. CollectorOK'
    BY <1>0, <1>2, <1>4 DEF CollectorOK, Ring!collectors, Ring!Reading
  <2>2. Ring!LostIsOld'
    BY <1>0, <1>2, <1>4 DEF Ring!LostIsOld, Ring!collectors, CollectorOK, Ring!ConstantsAssumption
  <2> QED
    BY <1>1, <1>3, <2>1, <2>2 DEF RingInv
<1>5. CASE Ring!Write
  <2>1. /\ wpc = "write" /\ writing = finalized /\ Ring!Slot(writing) \in Ring!Slots
        /\ sequence' = [sequence EXCEPT ![Ring!Slot(writing)] = writing]
        /\ UNCHANGED <<offered, finalized>>
    BY <1>0, <1>5, SlotType DEF Ring!Write, PublisherOK
  <2>2. ASSUME NEW c \in Collectors, rpc[c] = "copy"
        PROVE  sequence'[Ring!Slot(ring_cursor[c])] = sequence[Ring!Slot(ring_cursor[c])]
    <3>1. Ring!Slot(ring_cursor[c]) \in Ring!Slots
      BY <1>0, SlotType DEF CollectorOK
    <3>2. c \in Ring!Readers(Ring!Slot(ring_cursor[c]))
      BY <2>2 DEF Ring!Readers, Ring!Reading
    <3>3. Ring!Slot(ring_cursor[c]) # Ring!Slot(writing)
      BY <1>0, <2>1, <3>2 DEF Ring!Exclusion
    <3> QED
      BY <1>0, <2>1, <3>1, <3>3 DEF SlotsOK
  <2>3. CollectorOK'
    BY <1>0, <1>2, <2>1, <2>2 DEF CollectorOK, Ring!collectors, Ring!Reading
  <2>4. Ring!LostIsOld'
    <3> SUFFICES ASSUME NEW c \in Collectors, NEW s \in missed[c], ~(s + Capacity < offered),
                        NEW i \in Ring!Slots
                 PROVE  sequence'[i] # s
      BY <1>2, <2>1 DEF Ring!LostIsOld, Ring!collectors
    <3>1. sequence[i] # s /\ s # finalized
      BY <1>0, <1>2 DEF Ring!LostIsOld, CollectorOK
    <3> QED
      BY <1>0, <2>1, <3>1 DEF SlotsOK
  <2> QED
    BY <1>1, <1>3, <2>3, <2>4 DEF RingInv
<1> QED
  BY <1>0, <1>4, <1>5, PublisherFrame

-----------------------------------------------------------------------------
(* The collectors' steps.                                                  *)

\* A collector's step as far as the slots are concerned: it leaves the readers as they are, joins
\* those of the slot at its cursor, or leaves them.
Stays(c) ==
    /\ UNCHANGED users
    /\ Ring!Reading(c)' = Ring!Reading(c)
    /\ Ring!Reading(c) => UNCHANGED ring_cursor
    /\ \A d \in Collectors \ {c} : rpc'[d] = rpc[d] /\ ring_cursor'[d] = ring_cursor[d]
Joins(c) ==
    /\ users[Ring!Slot(ring_cursor[c])] # Ring!WRITER
    /\ users' = [users EXCEPT ![Ring!Slot(ring_cursor[c])] = @ + 1]
    /\ ~Ring!Reading(c) /\ Ring!Reading(c)'
    /\ UNCHANGED ring_cursor
    /\ \A d \in Collectors \ {c} : rpc'[d] = rpc[d]
Leaves(c) ==
    /\ users' = [users EXCEPT ![Ring!Slot(ring_cursor[c])] = @ - 1]
    /\ Ring!Reading(c) /\ ~Ring!Reading(c)'
    /\ \A d \in Collectors \ {c} : rpc'[d] = rpc[d] /\ ring_cursor'[d] = ring_cursor[d]

LEMMA CollectorFrame ==
    ASSUME CollectorOK, NEW c \in Collectors, Ring!Collector(c) \/ Ring!Collect(c) \/ Ring!Reads(c)
    PROVE  /\ UNCHANGED <<sequence, entry, finalized, Ring!publisher>>
           /\ Stays(c) \/ Joins(c) \/ Leaves(c)
<1> USE DEF CollectorOK, Ring!Reading
<1>1. CASE Ring!Collector(c) \/ Ring!Collect(c) \/ Ring!Loses(c) \/ Ring!Collected(c)
  <2>1. /\ UNCHANGED <<sequence, entry, finalized, Ring!publisher, users>>
        /\ rpc[c] \in {"none", "idle", "read"} /\ rpc'[c] \in {"idle", "read"}
        /\ \A d \in Collectors \ {c} : rpc'[d] = rpc[d] /\ ring_cursor'[d] = ring_cursor[d]
    BY <1>1 DEF Ring!Collector, Ring!Collect, Ring!Loses, Ring!Lose, Ring!Collected, Ring!slots
  <2> QED
    BY <2>1 DEF Stays
<1>2. CASE Ring!Match(c) \/ Ring!Copy(c)
  <2>1. /\ UNCHANGED <<sequence, entry, finalized, Ring!publisher, users, ring_cursor>>
        /\ rpc[c] \in {"check", "copy"} /\ rpc'[c] \in {"copy", "remove"}
        /\ \A d \in Collectors \ {c} : rpc'[d] = rpc[d]
    BY <1>2 DEF Ring!Match, Ring!Copy, Ring!slots
  <2> QED
    BY <2>1 DEF Stays
<1>3. CASE Ring!AddReader(c)
  BY <1>3 DEF Ring!AddReader, Joins
<1>4. CASE Ring!Mismatch(c)
  BY <1>4 DEF Ring!Mismatch, Ring!Lose, Leaves
<1>5. CASE Ring!RemoveReader(c)
  BY <1>5 DEF Ring!RemoveReader, Leaves
<1> QED
  BY <1>1, <1>2, <1>3, <1>4, <1>5 DEF Ring!Reads

\* Who reads a slot after a collector's step.
LEMMA ReadersStep ==
    ASSUME NEW c \in Collectors, NEW i \in Ring!Slots
    PROVE  /\ Stays(c) => Ring!Readers(i)' = Ring!Readers(i)
           /\ Joins(c) => /\ c \notin Ring!Readers(i)
                          /\ Ring!Readers(i)' = IF i = Ring!Slot(ring_cursor[c]) THEN Ring!Readers(i) \cup {c} ELSE Ring!Readers(i)
           /\ Leaves(c) => /\ c \in Ring!Readers(Ring!Slot(ring_cursor[c]))
                           /\ Ring!Readers(i)' = IF i = Ring!Slot(ring_cursor[c]) THEN Ring!Readers(i) \ {c} ELSE Ring!Readers(i)
<1>1. ASSUME Stays(c), NEW d \in Collectors
      PROVE  d \in Ring!Readers(i)' <=> d \in Ring!Readers(i)
  BY <1>1 DEF Stays, Ring!Readers, Ring!Reading
<1>2. ASSUME Joins(c), NEW d \in Collectors
      PROVE  d \in Ring!Readers(i)' <=> d \in Ring!Readers(i) \/ (d = c /\ i = Ring!Slot(ring_cursor[c]))
  BY <1>2 DEF Joins, Ring!Readers, Ring!Reading
<1>3. ASSUME Leaves(c), NEW d \in Collectors
      PROVE  d \in Ring!Readers(i)' <=> d \in Ring!Readers(i) /\ d # c
  BY <1>3 DEF Leaves, Ring!Readers, Ring!Reading
<1>4. Leaves(c) => c \in Ring!Readers(Ring!Slot(ring_cursor[c])) /\ (i # Ring!Slot(ring_cursor[c]) => c \notin Ring!Readers(i))
  BY DEF Leaves, Ring!Readers
<1>5. Joins(c) => c \notin Ring!Readers(i)
  BY DEF Joins, Ring!Readers
<1>6. Ring!Readers(i) \subseteq Collectors /\ Ring!Readers(i)' \subseteq Collectors
  BY DEF Ring!Readers
<1> QED
  BY <1>1, <1>2, <1>3, <1>4, <1>5, <1>6

LEMMA CollectorExclusion ==
    ASSUME Ring!ConstantsAssumption, RingInv, NEW c \in Collectors, Ring!Collector(c) \/ Ring!Collect(c) \/ Ring!Reads(c)
    PROVE  PublisherOK' /\ SlotsOK' /\ Ring!Exclusion'
<1>0. PublisherOK /\ SlotsOK /\ CollectorOK /\ Ring!Exclusion
  BY DEF RingInv
<1>1. UNCHANGED <<sequence, entry, finalized, offered, ring_pending, dropped, todo, wpc, writing>>
  BY <1>0, CollectorFrame DEF Ring!publisher
<1>2. PublisherOK'
  BY <1>0, <1>1 DEF PublisherOK, Ring!InOrder
<1>3. PICK j \in Ring!Slots : j = Ring!Slot(ring_cursor[c])
  BY <1>0, SlotType DEF CollectorOK
<1>4. \A i \in Ring!Slots : IsFiniteSet(Ring!Readers(i)) /\ Cardinality(Ring!Readers(i)) \in Nat
  BY ReadersFinite
<1> DEFINE Written(i) == wpc \in {"write", "release"} /\ Ring!Slot(writing) = i
<1>5. \A i \in Ring!Slots : IF Written(i) THEN users[i] = Ring!WRITER /\ Ring!Readers(i) = {}
                                      ELSE users[i] = Cardinality(Ring!Readers(i))
  BY RingSets, <1>0 DEF Ring!Exclusion
<1>6. CASE Stays(c)
  <2>1. Ring!Exclusion'
    BY RingSets, <1>1, <1>5, <1>6, ReadersStep DEF Ring!Exclusion, Stays
  <2>2. SlotsOK'
    BY <1>0, <1>1, <1>6 DEF SlotsOK, Stays
  <2> QED
    BY <1>2, <2>1, <2>2
<1>7. CASE Joins(c)
  <2>1. ~Written(j) /\ users[j] = Cardinality(Ring!Readers(j))
    BY <1>3, <1>5, <1>7 DEF Joins
  <2>2. Cardinality(Ring!Readers(j) \cup {c}) = Cardinality(Ring!Readers(j)) + 1
    BY <1>3, <1>4, <1>7, ReadersStep, FS_AddElement
  <2>3. users' = [users EXCEPT ![j] = @ + 1]
    BY <1>3, <1>7 DEF Joins
  <2>4. users'[j] = users[j] + 1 /\ users[j] \in Nat /\ \A i \in Ring!Slots : i # j => users'[i] = users[i]
    BY <1>0, <1>3, <1>4, <2>1, <2>3 DEF SlotsOK
  <2>5. \A i \in Ring!Slots : Ring!Readers(i)' = IF i = j THEN Ring!Readers(i) \cup {c} ELSE Ring!Readers(i)
    BY <1>3, <1>7, ReadersStep
  <2>6. users'[j] = Cardinality(Ring!Readers(j)')
    BY <1>3, <2>1, <2>2, <2>4, <2>5
  <2>7. Ring!Exclusion'
    BY RingSets, <1>1, <1>5, <2>1, <2>4, <2>5, <2>6 DEF Ring!Exclusion
  <2>8. SlotsOK'
    BY <1>0, <1>1, <1>3, <2>3, <2>4 DEF SlotsOK
  <2> QED
    BY <1>2, <2>7, <2>8
<1>8. CASE Leaves(c)
  <2>1. c \in Ring!Readers(j)
    BY <1>3, <1>8, ReadersStep
  <2>2. ~Written(j) /\ users[j] = Cardinality(Ring!Readers(j))
    BY <1>3, <1>5, <2>1
  <2>3. Cardinality(Ring!Readers(j) \ {c}) = Cardinality(Ring!Readers(j)) - 1
    BY <1>3, <1>4, <2>1, FS_RemoveElement
  <2>4. users' = [users EXCEPT ![j] = @ - 1]
    BY <1>3, <1>8 DEF Leaves
  <2>5. users'[j] = users[j] - 1 /\ \A i \in Ring!Slots : i # j => users'[i] = users[i]
    BY <1>0, <1>3, <1>4, <2>2, <2>4 DEF SlotsOK
  <2>6. \A i \in Ring!Slots : Ring!Readers(i)' = IF i = j THEN Ring!Readers(i) \ {c} ELSE Ring!Readers(i)
    BY <1>3, <1>8, ReadersStep
  <2>7. users'[j] = Cardinality(Ring!Readers(j)') /\ users'[j] \in Nat
    <3>1. users'[j] = Cardinality(Ring!Readers(j) \ {c})
      BY <1>3, <1>4, <2>2, <2>3, <2>5
    <3>2. Cardinality(Ring!Readers(j) \ {c}) \in Nat
      BY <1>3, <1>4, FS_RemoveElement, FS_CardinalityType
    <3> QED
      BY <1>3, <2>6, <3>1, <3>2
  <2>8. Ring!Exclusion'
    BY RingSets, <1>1, <1>5, <2>2, <2>5, <2>6, <2>7 DEF Ring!Exclusion
  <2>9. SlotsOK'
    BY <1>0, <1>1, <1>3, <2>4, <2>7 DEF SlotsOK
  <2> QED
    BY <1>2, <2>8, <2>9
<1> QED
  BY <1>0, <1>6, <1>7, <1>8, CollectorFrame

\* Entries that a collector skips join the ones it has reported, and none is counted twice.
LEMMA MissedMore ==
    ASSUME NEW m \in SUBSET Nat, NEW a \in Nat, NEW b \in Nat, NEW d \in Nat, a <= b, b <= d,
           m \subseteq a..(b - 1)
    PROVE  /\ m \cup b..(d - 1) \subseteq a..(d - 1)
           /\ Cardinality(m) \in Nat
           /\ Cardinality(m \cup b..(d - 1)) = Cardinality(m) + (d - b)
<1>1. IsFiniteSet(m) /\ Cardinality(m) \in Nat
  <2>1. IsFiniteSet(a..(b - 1))
    BY FS_Interval
  <2> QED
    BY <2>1, FS_Subset, FS_CardinalityType
<1>2. IsFiniteSet(b..(d - 1)) /\ Cardinality(b..(d - 1)) = d - b
  <2>1. /\ IsFiniteSet(b..(d - 1))
        /\ Cardinality(b..(d - 1)) = IF b > d - 1 THEN 0 ELSE d - 1 - b + 1
    BY FS_Interval
  <2> QED
    BY <2>1
<1>3. m \cap b..(d - 1) = {}
  OBVIOUS
<1>4. Cardinality(m \cup b..(d - 1)) = Cardinality(m) + Cardinality(b..(d - 1)) - Cardinality({})
  BY <1>1, <1>2, <1>3, FS_Union
<1>5. Cardinality({}) = 0
  BY FS_EmptySet
<1>6. m \cup b..(d - 1) \subseteq a..(d - 1)
  OBVIOUS
<1> QED
  BY <1>1, <1>2, <1>4, <1>5, <1>6

\* What a collector's step does to its own count: the cursor advances by the entries it reports as
\* lost and the ones it returns.
LEMMA CollectorCount ==
    ASSUME Ring!ConstantsAssumption, RingInv, NEW c \in Collectors, Ring!Collector(c) \/ Ring!Collect(c) \/ Ring!Reads(c)
    PROVE  Ring!EachOnce'
<1>0. CollectorOK /\ Ring!EachOnce /\ finalized \in Nat /\ offered \in Nat /\ Capacity \in Nat
  BY DEF RingInv, PublisherOK, Ring!ConstantsAssumption
<1>1. /\ ring_cursor[c] \in Nat /\ start[c] \in Nat /\ taken[c] \in Nat /\ missed[c] \in SUBSET Nat
      /\ start[c] <= ring_cursor[c] /\ missed[c] \subseteq start[c]..(ring_cursor[c] - 1)
      /\ taken[c] + Cardinality(missed[c]) = ring_cursor[c] - start[c]
  BY RingSets, <1>0 DEF CollectorOK, Ring!EachOnce
<1>2. SUFFICES /\ missed'[c] \subseteq start'[c]..(ring_cursor'[c] - 1)
               /\ taken'[c] + Cardinality(missed'[c]) = ring_cursor'[c] - start'[c]
  <2>1. ASSUME NEW d \in Collectors, d # c
        PROVE  /\ missed'[d] = missed[d] /\ start'[d] = start[d] /\ ring_cursor'[d] = ring_cursor[d]
               /\ taken'[d] = taken[d]
    BY <1>0, <2>1 DEF Ring!Collector, Ring!Collect, Ring!Reads, Ring!Loses, Ring!Lose,
       Ring!AddReader, Ring!Mismatch, Ring!Match, Ring!Copy, Ring!RemoveReader, Ring!Collected,
       CollectorOK
  <2> QED
    BY RingSets, <1>0, <2>1 DEF Ring!EachOnce
<1>3. CASE Ring!Collector(c)
  <2>1. missed[c] = {} /\ taken[c] = 0 /\ Cardinality({}) = 0
    BY <1>0, <1>3, FS_EmptySet DEF Ring!Collector, CollectorOK
  <2>2. missed'[c] = {} /\ taken'[c] = 0 /\ start'[c] = offered /\ ring_cursor'[c] = offered
    BY <1>0, <1>3, <2>1 DEF Ring!Collector, CollectorOK
  <2> QED
    BY <1>0, <2>1, <2>2
<1>4. CASE Ring!Collect(c)
  <2> DEFINE retained == IF finalized > Capacity THEN finalized - Capacity ELSE 0
             d == IF ring_cursor[c] < retained THEN retained ELSE ring_cursor[c]
  <2>1. retained \in Nat /\ d \in Nat /\ ring_cursor[c] <= d
    BY <1>0, <1>1
  <2>2. /\ missed'[c] = missed[c] \cup ring_cursor[c]..(retained - 1)
        /\ ring_cursor'[c] = d /\ start'[c] = start[c] /\ taken'[c] = taken[c]
    BY <1>0, <1>4 DEF Ring!Collect, CollectorOK
  <2>3. ring_cursor[c]..(retained - 1) = ring_cursor[c]..(d - 1)
    BY <1>0, <1>1, <2>1
  <2> HIDE DEF retained, d
  <2>4. /\ missed'[c] \subseteq start[c]..(d - 1) /\ Cardinality(missed[c]) \in Nat
        /\ Cardinality(missed'[c]) = Cardinality(missed[c]) + (d - ring_cursor[c])
    <3>1. missed'[c] = missed[c] \cup ring_cursor[c]..(d - 1)
      BY <2>2, <2>3
    <3>2. /\ missed[c] \cup ring_cursor[c]..(d - 1) \subseteq start[c]..(d - 1)
          /\ Cardinality(missed[c]) \in Nat
          /\ Cardinality(missed[c] \cup ring_cursor[c]..(d - 1)) = Cardinality(missed[c]) + (d - ring_cursor[c])
      BY <1>1, <2>1, MissedMore
    <3> QED
      BY <3>1, <3>2
  <2> QED
    BY <1>1, <2>1, <2>2, <2>4
<1>5. CASE Ring!Loses(c) \/ Ring!Mismatch(c)
  <2>1. /\ missed'[c] = missed[c] \cup {ring_cursor[c]} /\ ring_cursor'[c] = ring_cursor[c] + 1
        /\ start'[c] = start[c] /\ taken'[c] = taken[c]
    BY <1>0, <1>5 DEF Ring!Loses, Ring!Mismatch, Ring!Lose, CollectorOK
  <2>2. {ring_cursor[c]} = ring_cursor[c]..(ring_cursor[c] + 1 - 1) /\ ring_cursor[c] + 1 \in Nat
    BY <1>1
  <2> DEFINE d == ring_cursor[c] + 1
  <2>3. /\ missed[c] \cup ring_cursor[c]..(d - 1) \subseteq start[c]..(d - 1)
        /\ Cardinality(missed[c]) \in Nat
        /\ Cardinality(missed[c] \cup ring_cursor[c]..(d - 1)) = Cardinality(missed[c]) + (d - ring_cursor[c])
    <3>1. d \in Nat /\ ring_cursor[c] <= d
      BY <1>1
    <3> HIDE DEF d
    <3> QED
      BY <1>1, <3>1, MissedMore
  <2>4. missed'[c] = missed[c] \cup ring_cursor[c]..(d - 1)
    BY <2>1, <2>2
  <2>5. Cardinality(missed'[c]) = Cardinality(missed[c]) + (d - ring_cursor[c])
    BY <2>3, <2>4
  <2>6. missed'[c] \subseteq start[c]..(d - 1)
    BY <2>3, <2>4
  <2> QED
    BY <1>1, <2>1, <2>3, <2>5, <2>6
<1>6. CASE Ring!RemoveReader(c)
  <2>1. /\ missed'[c] = missed[c] /\ ring_cursor'[c] = ring_cursor[c] + 1
        /\ start'[c] = start[c] /\ taken'[c] = taken[c] + 1
    BY <1>0, <1>6 DEF Ring!RemoveReader, CollectorOK
  <2>2. Cardinality(missed[c]) \in Nat
    <3>0. start[c] \in Int /\ ring_cursor[c] - 1 \in Int
      BY <1>1
    <3>1. IsFiniteSet(start[c]..(ring_cursor[c] - 1))
      BY <3>0, FS_Interval
    <3> QED
      BY <1>1, <3>1, FS_Subset, FS_CardinalityType
  <2> QED
    BY <1>1, <2>1, <2>2
<1>7. CASE Ring!AddReader(c) \/ Ring!Match(c) \/ Ring!Copy(c) \/ Ring!Collected(c)
  BY <1>1, <1>7 DEF Ring!AddReader, Ring!Match, Ring!Copy, Ring!Collected
<1> QED
  BY <1>3, <1>4, <1>5, <1>6, <1>7 DEF Ring!Reads

\* The entry a collector reports as lost is gone from the ring: another has its slot, or is about to.
LEMMA CollectorLost ==
    ASSUME Ring!ConstantsAssumption, RingInv, NEW c \in Collectors, Ring!Collector(c) \/ Ring!Collect(c) \/ Ring!Reads(c)
    PROVE  Ring!LostIsOld'
<1>0. /\ PublisherOK /\ SlotsOK /\ CollectorOK /\ Ring!LostIsOld /\ Ring!Exclusion
      /\ finalized \in Nat /\ offered \in Nat /\ Capacity \in Nat
  BY DEF RingInv, PublisherOK, Ring!ConstantsAssumption
<1>1. UNCHANGED <<sequence, offered>>
  BY <1>0, CollectorFrame DEF Ring!publisher
<1> DEFINE Old(s) == s + Capacity < offered \/ \A i \in Ring!Slots : sequence[i] # s
<1>2. \A d \in Collectors : \A s \in missed[d] : Old(s)
  BY <1>0 DEF Ring!LostIsOld
<1>3. SUFFICES \A d \in Collectors : \A s \in missed'[d] : s \in missed[d] \/ Old(s)
  BY <1>1, <1>2 DEF Ring!LostIsOld
<1>4. ring_cursor[c] \in Nat /\ Ring!Slot(ring_cursor[c]) \in Ring!Slots /\ finalized <= offered
  <2>1. \E k \in 0..1 : offered = finalized + Len(ring_pending) + dropped + k
    BY <1>0 DEF PublisherOK, Ring!InOrder
  <2>2. Len(ring_pending) \in Nat /\ dropped \in Nat
    BY <1>0 DEF PublisherOK
  <2> QED
    BY <1>0, <2>1, <2>2, SlotType DEF CollectorOK
<1>5. CASE Ring!Collect(c)
  <2>1. ASSUME NEW s \in missed'[c], s \notin missed[c]
        PROVE  s + Capacity < offered
    <3>1. s \in ring_cursor[c]..((IF finalized > Capacity THEN finalized - Capacity ELSE 0) - 1)
      BY <1>0, <1>5, <2>1 DEF Ring!Collect, CollectorOK
    <3> QED
      BY <1>0, <1>4, <3>1
  <2> QED
    BY <1>0, <1>5, <2>1 DEF Ring!Collect, CollectorOK
<1>6. CASE Ring!Loses(c)
  <2>1. users[Ring!Slot(ring_cursor[c])] = Ring!WRITER /\ ring_cursor[c] < end[c] /\ end[c] <= finalized
    BY <1>0, <1>6 DEF Ring!Loses, CollectorOK
  <2>2. wpc \in {"write", "release"} /\ Ring!Slot(writing) = Ring!Slot(ring_cursor[c])
    <3>1. Cardinality(Ring!Readers(Ring!Slot(ring_cursor[c]))) # Ring!WRITER
      BY ReadersFinite DEF Ring!WRITER
    <3> QED
      BY RingSets, <1>0, <1>4, <2>1, <3>1 DEF Ring!Exclusion
  <2>3. writing = finalized /\ ring_cursor[c] < finalized /\ finalized < offered
    <3>1. writing = finalized
      BY <1>0, <2>2 DEF PublisherOK
    <3>2. ring_cursor[c] < finalized
      BY <1>0, <1>4, <2>1 DEF CollectorOK
    <3>3. finalized < offered
      BY <1>0, <2>2 DEF PublisherOK, Ring!InOrder
    <3> QED
      BY <3>1, <3>2, <3>3
  <2>4. ring_cursor[c] + Capacity <= finalized
    BY <1>0, <1>4, <2>2, <2>3, SlotApart
  <2>5. ring_cursor[c] + Capacity < offered
    BY <1>0, <1>4, <2>3, <2>4
  <2> QED
    BY <1>0, <1>6, <2>5 DEF Ring!Loses, Ring!Lose, CollectorOK
<1>7. CASE Ring!Mismatch(c)
  <2>1. ASSUME NEW i \in Ring!Slots
        PROVE  sequence[i] # ring_cursor[c]
    BY <1>0, <1>4, <1>7 DEF Ring!Mismatch, SlotsOK, Ring!EMPTY
  <2> QED
    BY <1>0, <1>7, <2>1 DEF Ring!Mismatch, Ring!Lose, CollectorOK
<1>8. CASE UNCHANGED missed
  BY <1>8
<1> QED
  BY <1>5, <1>6, <1>7, <1>8 DEF Ring!Collector, Ring!Reads, Ring!AddReader, Ring!Match, Ring!Copy,
     Ring!RemoveReader, Ring!Collected

LEMMA CollectorCopies ==
    ASSUME Ring!ConstantsAssumption, RingInv, NEW c \in Collectors, Ring!Collector(c) \/ Ring!Collect(c) \/ Ring!Reads(c)
    PROVE  CollectorOK' /\ Ring!CopiesItsEntry'
<1>0. /\ SlotsOK /\ CollectorOK /\ Ring!Exclusion /\ Ring!CopiesItsEntry
      /\ finalized \in Nat /\ offered \in Nat /\ Capacity \in Nat \ {0}
      /\ UNCHANGED <<sequence, finalized>>
  BY CollectorFrame DEF RingInv, PublisherOK, Ring!ConstantsAssumption
<1>1. CASE Ring!Collector(c)
  BY <1>0, <1>1 DEF Ring!Collector, CollectorOK, Ring!CopiesItsEntry, Ring!Reading
<1>2. CASE Ring!Collect(c)
  BY <1>0, <1>2 DEF Ring!Collect, CollectorOK, Ring!CopiesItsEntry, Ring!Reading
<1>3. CASE Ring!Loses(c) \/ Ring!Mismatch(c)
  BY <1>0, <1>3 DEF Ring!Loses, Ring!Mismatch, Ring!Lose, CollectorOK, Ring!CopiesItsEntry,
     Ring!Reading
<1>4. CASE Ring!AddReader(c)
  BY <1>0, <1>4 DEF Ring!AddReader, CollectorOK, Ring!CopiesItsEntry, Ring!Reading
<1>5. CASE Ring!Match(c)
  BY <1>0, <1>5 DEF Ring!Match, CollectorOK, Ring!CopiesItsEntry, Ring!Reading
<1>6. CASE Ring!Copy(c)
  <2>1. Ring!Slot(ring_cursor[c]) \in Ring!Slots /\ rpc[c] = "copy" /\ sequence[Ring!Slot(ring_cursor[c])] = ring_cursor[c]
    BY <1>0, <1>6, SlotType DEF Ring!Copy, CollectorOK
  <2>2. c \in Ring!Readers(Ring!Slot(ring_cursor[c]))
    BY <2>1 DEF Ring!Readers, Ring!Reading
  <2>3. ~(wpc = "write" /\ Ring!Slot(writing) = Ring!Slot(ring_cursor[c]))
    BY <1>0, <2>1, <2>2 DEF Ring!Exclusion
  <2>4. ring_cursor[c] # Ring!EMPTY /\ ring_cursor[c] \in Nat
    BY <1>0 DEF CollectorOK, Ring!EMPTY
  <2>5. entry[Ring!Slot(ring_cursor[c])] = ring_cursor[c]
    BY <1>0, <2>1, <2>3, <2>4 DEF SlotsOK
  <2> QED
    BY <1>0, <1>6, <2>4, <2>5 DEF Ring!Copy, CollectorOK, Ring!CopiesItsEntry, Ring!Reading
<1>7. CASE Ring!RemoveReader(c)
  BY <1>0, <1>7 DEF Ring!RemoveReader, CollectorOK, Ring!CopiesItsEntry, Ring!Reading
<1>8. CASE Ring!Collected(c)
  BY <1>0, <1>8 DEF Ring!Collected, CollectorOK, Ring!CopiesItsEntry, Ring!Reading
<1> QED
  BY <1>1, <1>2, <1>3, <1>4, <1>5, <1>6, <1>7, <1>8 DEF Ring!Reads

LEMMA RingStep == ASSUME Ring!ConstantsAssumption PROVE RingInv /\ [Ring!Next]_Ring!vars => RingInv'
<1> SUFFICES ASSUME RingInv, [Ring!Next]_Ring!vars PROVE RingInv'
  OBVIOUS
<1>1. CASE UNCHANGED Ring!vars
  <2>1. PublisherOK' /\ SlotsOK' /\ CollectorOK'
    BY <1>1 DEF RingInv, Ring!vars, Ring!slots, Ring!publisher, Ring!collectors, PublisherOK,
       Ring!InOrder, SlotsOK, CollectorOK, Ring!Reading
  <2>2. Ring!Exclusion'
    BY <1>1, ReadersSame DEF RingInv, Ring!vars, Ring!slots, Ring!publisher, Ring!collectors,
       Ring!Exclusion
  <2>3. Ring!CopiesItsEntry' /\ Ring!EachOnce' /\ Ring!LostIsOld'
    BY <1>1 DEF RingInv, Ring!vars, Ring!slots, Ring!publisher, Ring!collectors,
       Ring!CopiesItsEntry, Ring!EachOnce, Ring!LostIsOld
  <2> QED
    BY <2>1, <2>2, <2>3 DEF RingInv
<1>2. CASE Ring!Publisher \/ \E n \in 1..2 : Ring!Publish(n)
  BY <1>2, PublisherStep
<1>3. ASSUME NEW c \in Collectors, Ring!Collector(c) \/ Ring!Collect(c) \/ Ring!Reads(c)
      PROVE  RingInv'
  <2>1. PublisherOK' /\ SlotsOK' /\ Ring!Exclusion'
    BY <1>3, CollectorExclusion
  <2>2. CollectorOK' /\ Ring!CopiesItsEntry'
    BY <1>3, CollectorCopies
  <2>3. Ring!EachOnce' /\ Ring!LostIsOld'
    BY <1>3, CollectorCount, CollectorLost
  <2> QED
    BY <2>1, <2>2, <2>3 DEF RingInv
<1>4. CASE Ring!Done
  BY <1>1, <1>4 DEF Ring!Done
<1> QED
  BY <1>1, <1>2, <1>3, <1>4 DEF Ring!Next

LEMMA RingInductive ==
    ASSUME Ring!ConstantsAssumption
    PROVE  /\ Ring!Init => RingInv
           /\ RingInv /\ [Ring!Next]_Ring!vars => RingInv'
           /\ RingInv => /\ Ring!TypeOK /\ Ring!CopiesItsEntry /\ Ring!Exclusion /\ Ring!EachOnce
                         /\ Ring!InOrder /\ Ring!LostIsOld
  BY RingInit, RingStep, RingImplies

-----------------------------------------------------------------------------
(* The buffers of traces                                                   *)

TraceTypes ==
    /\ setting \in BOOLEAN
    /\ scopes \subseteq Users
    /\ period \in Nat
    /\ registered \subseteq TracedThreads
    /\ refs \in [TracedThreads -> SUBSET (TracedThreads \cup Users)]
    /\ \A t \in TracedThreads : refs[t] \subseteq {t} \cup Users
    /\ timings \in [TracedThreads -> Seq(Nat)]
    /\ busy \in [TracedThreads -> Nat]
    /\ unregistering \in [TracedThreads -> {Traces!Nobody} \cup TracedThreads \cup Users]
    /\ upc \in [Users -> {"idle", "upgrade", "locked", "clear"}]
    /\ trace_handles \in [Users -> SUBSET TracedThreads]

\* A thread that somebody holds is registered, or clear_trace_buffers would pass it by, and nobody
\* is about to remove it.
HeldIsRegistered ==
    \A t \in TracedThreads : refs[t] # {} => t \in registered /\ unregistering[t] = Traces!Nobody

\* Whoever clears has still to come to the buffer of thread t: it has not looked at the registry
\* yet, or it holds the buffer and has not cleared it.
ToBeCleared(t) ==
    \E u \in Users : \/ upc[u] \in {"upgrade", "locked"}
                     \/ upc[u] = "clear" /\ t \in trace_handles[u]

\* A timing that was recorded, or is about to be, is of a period that goes on, or will be cleared.
TimingsEnd ==
    \A t \in TracedThreads :
        refs[t] # {} /\ (timings[t] # <<>> \/ busy[t] # 0) => Traces!trace_enabled \/ ToBeCleared(t)

FrameTypes ==
    /\ frames \in Seq(Nat)
    /\ checked \in Nat
    /\ pushed \in Nat
    /\ trace_cursor \in Nat
    /\ unseen \in Nat
    /\ Len(frames) <= TraceCapacity
    /\ Len(frames) <= pushed

\* How many of the frames in the buffer were recorded since collect_unseen last ran. Until the buffer
\* is cleared the cursor says it too; then the buffer counts from 0 again, and the cursor does not.
UnseenCount ==
    IF cleared THEN unseen = Len(frames)
    ELSE /\ trace_cursor <= pushed
         /\ unseen = IF pushed - trace_cursor < Len(frames) THEN pushed - trace_cursor
                     ELSE Len(frames)

\* When tracing is off, somebody has still to clear the frames, or there is at most one, or one that
\* is about to be pushed.
FramesEnd ==
    \/ Traces!trace_enabled
    \/ \E u \in Users : upc[u] # "idle"
    \/ Len(frames) + (IF checked = 0 THEN 0 ELSE 1) <= 1

FramesOK == FrameTypes /\ UnseenCount /\ FramesEnd

\* The inductive invariant.
TraceInv ==
    /\ TraceTypes /\ HeldIsRegistered /\ TimingsEnd /\ Traces!RegisteredIsHeld
    /\ FramesOK

LEMMA TraceInit == ASSUME Traces!ConstantsAssumption PROVE Traces!Init => TraceInv
<1> SUFFICES ASSUME Traces!Init PROVE TraceInv
  OBVIOUS
<1> USE DEF Traces!Init, Traces!ConstantsAssumption
<1>1. TraceTypes
  <2>1. /\ refs \in [TracedThreads -> SUBSET (TracedThreads \cup Users)]
        /\ \A t \in TracedThreads : refs[t] \subseteq {t} \cup Users
    OBVIOUS
  <2>2. /\ setting \in BOOLEAN /\ scopes \subseteq Users /\ period \in Nat
        /\ registered \subseteq TracedThreads
    OBVIOUS
  <2>3. timings \in [TracedThreads -> Seq(Nat)] /\ busy \in [TracedThreads -> Nat]
    OBVIOUS
  <2>4. /\ upc \in [Users -> {"idle", "upgrade", "locked", "clear"}]
        /\ unregistering \in [TracedThreads -> {Traces!Nobody} \cup TracedThreads \cup Users]
        /\ trace_handles \in [Users -> SUBSET TracedThreads]
    OBVIOUS
  <2> HIDE DEF Traces!Init
  <2> QED
    BY <2>1, <2>2, <2>3, <2>4 DEF TraceTypes
<1>2. HeldIsRegistered /\ TimingsEnd /\ Traces!RegisteredIsHeld
  BY DEF HeldIsRegistered, TimingsEnd, Traces!RegisteredIsHeld
<1>3. FramesOK
  BY DEF FramesOK, FrameTypes, UnseenCount, FramesEnd
<1> QED
  BY <1>1, <1>2, <1>3 DEF TraceInv

\* Steps that leave the frames alone, and nobody goes idle in.
LEMMA FramesKept ==
    ASSUME FramesOK, UNCHANGED Traces!frameVars, Traces!trace_enabled' \/ ~Traces!trace_enabled,
           \A u \in Users : upc[u] # "idle" => upc'[u] # "idle"
    PROVE  FramesOK'
  BY DEF FramesOK, FrameTypes, UnseenCount, FramesEnd, Traces!frameVars

\* Somebody lets go of the timings of a thread.
LEMMA TraceDrop ==
    ASSUME Traces!ConstantsAssumption, TraceInv, NEW t \in TracedThreads,
           NEW who \in TracedThreads \cup Users, Traces!DropArc(who, t), registered' = registered
    PROVE  /\ refs' \in [TracedThreads -> SUBSET (TracedThreads \cup Users)]
           /\ \A q \in TracedThreads : refs'[q] \subseteq refs[q]
           /\ unregistering' \in [TracedThreads -> {Traces!Nobody} \cup TracedThreads \cup Users]
           /\ HeldIsRegistered' /\ Traces!RegisteredIsHeld'
<1> USE DEF TraceInv, TraceTypes, Traces!DropArc
<1>1. /\ refs' \in [TracedThreads -> SUBSET (TracedThreads \cup Users)]
      /\ refs'[t] = refs[t] \ {who}
      /\ \A q \in TracedThreads : q # t => refs'[q] = refs[q]
  OBVIOUS
<1>2. /\ unregistering' \in [TracedThreads -> {Traces!Nobody} \cup TracedThreads \cup Users]
      /\ unregistering'[t] = IF refs[t] = {who} THEN who ELSE unregistering[t]
      /\ \A q \in TracedThreads : q # t => unregistering'[q] = unregistering[q]
  OBVIOUS
<1>3. who # Traces!Nobody
  BY DEF Traces!ConstantsAssumption
<1>4. refs'[t] = {} => refs[t] = {who} \/ refs[t] = {}
  BY <1>1
<1>5. refs'[t] # {} => refs[t] # {who} /\ refs[t] # {}
  BY <1>1
<1>6. HeldIsRegistered'
  BY <1>1, <1>2, <1>5 DEF HeldIsRegistered
<1>7. Traces!RegisteredIsHeld'
  BY <1>1, <1>2, <1>3, <1>4 DEF Traces!RegisteredIsHeld
<1> QED
  BY <1>1, <1>2, <1>6, <1>7

\* Whoever dropped the last handle removes the thread from the registry.
LEMMA TraceUnregisterStep ==
    ASSUME Traces!ConstantsAssumption, TraceInv, NEW t \in TracedThreads,
           NEW who \in TracedThreads \cup Users, Traces!Unregister(who, t)
    PROVE  TraceInv'
<1> USE DEF TraceInv, Traces!Unregister
<1>1. FramesOK'
  BY FramesKept DEF Traces!traceVars, Traces!userVars, Traces!trace_enabled
<1>2. unregistering[t] # Traces!Nobody
  BY DEF Traces!ConstantsAssumption
<1>3. TraceTypes'
  BY DEF TraceTypes, Traces!traceVars, Traces!userVars
<1>4. /\ unregistering'[t] = Traces!Nobody
      /\ \A q \in TracedThreads : q # t => unregistering'[q] = unregistering[q]
      /\ registered' = registered \ {t} /\ UNCHANGED refs
  BY DEF TraceTypes
<1>5. HeldIsRegistered' /\ Traces!RegisteredIsHeld'
  BY <1>2, <1>4 DEF HeldIsRegistered, Traces!RegisteredIsHeld
<1>6. TimingsEnd'
  BY DEF TimingsEnd, ToBeCleared, TraceTypes, Traces!trace_enabled, Traces!traceVars,
     Traces!userVars
<1> QED
  BY <1>1, <1>3, <1>5, <1>6

\* Threads record and exit.
LEMMA TraceThreadStep ==
    ASSUME Traces!ConstantsAssumption, TraceInv, NEW t \in TracedThreads,
           Traces!CheckTask(t) \/ Traces!PushTask(t) \/ Traces!Exit(t)
    PROVE  TraceInv'
<1> USE DEF TraceInv, Traces!traceVars, Traces!userVars, Traces!registryVars
<1>1. FramesOK'
  BY FramesKept DEF Traces!CheckTask, Traces!PushTask, Traces!Exit, Traces!trace_enabled
<1>2. CASE Traces!CheckTask(t)
  BY <1>1, <1>2 DEF Traces!CheckTask, TraceTypes, HeldIsRegistered, TimingsEnd, ToBeCleared,
     Traces!RegisteredIsHeld, Traces!trace_enabled
<1>3. CASE Traces!PushTask(t)
  <2>1. TraceTypes'
    BY <1>3 DEF Traces!PushTask, TraceTypes
  <2>2. HeldIsRegistered' /\ Traces!RegisteredIsHeld'
    BY <1>3 DEF Traces!PushTask, HeldIsRegistered, Traces!RegisteredIsHeld
  <2>3. TimingsEnd'
    BY <1>3 DEF Traces!PushTask, TimingsEnd, ToBeCleared, Traces!trace_enabled, TraceTypes
  <2> QED
    BY <1>1, <2>1, <2>2, <2>3
<1>4. CASE Traces!Exit(t)
  <2>1. /\ Traces!DropArc(t, t)
        /\ UNCHANGED <<setting, scopes, period, registered, timings, busy, upc, trace_handles>>
    BY <1>4 DEF Traces!Exit
  <2>2. /\ refs' \in [TracedThreads -> SUBSET (TracedThreads \cup Users)]
        /\ \A q \in TracedThreads : refs'[q] \subseteq refs[q]
        /\ unregistering' \in [TracedThreads -> {Traces!Nobody} \cup TracedThreads \cup Users]
        /\ HeldIsRegistered' /\ Traces!RegisteredIsHeld'
    BY <2>1, TraceDrop
  <2>3. TraceTypes'
    BY <2>1, <2>2 DEF TraceTypes
  <2>4. TimingsEnd'
    <3>1. \A q \in TracedThreads : refs'[q] # {} => refs[q] # {}
      BY <2>2
    <3> QED
      BY <2>1, <3>1 DEF TimingsEnd, ToBeCleared, Traces!trace_enabled
  <2> QED
    BY <1>1, <2>2, <2>3, <2>4
<1> QED
  BY <1>2, <1>3, <1>4

\* Tracing is turned on and off.
LEMMA TraceChangeStep ==
    ASSUME TraceInv, NEW u \in Users, NEW s \in BOOLEAN, NEW active \in SUBSET Users,
           Traces!Change(u, s, active),
           Traces!trace_enabled \/ s \/ active # {}
    PROVE  TraceInv'
<1> USE DEF TraceInv, Traces!Change, Traces!threadVars, Traces!registryVars
<1>1. TraceTypes'
  BY DEF TraceTypes
<1>2. HeldIsRegistered' /\ Traces!RegisteredIsHeld'
  BY DEF HeldIsRegistered, Traces!RegisteredIsHeld
<1>3. ~(s \/ active # {}) => upc'[u] = "upgrade"
  BY DEF TraceTypes
<1>4. TimingsEnd'
  <2>1. CASE s \/ active # {}
    BY <2>1 DEF TimingsEnd, Traces!trace_enabled
  <2>2. CASE ~(s \/ active # {})
    BY <2>2, <1>3 DEF TimingsEnd, ToBeCleared
  <2> QED
    BY <2>1, <2>2
<1>5. FramesOK'
  <2>1. FrameTypes' /\ UnseenCount'
    BY DEF FramesOK, FrameTypes, UnseenCount, Traces!frameVars
  <2>2. FramesEnd'
    BY <1>3 DEF FramesEnd, Traces!trace_enabled
  <2> QED
    BY <2>1, <2>2 DEF FramesOK
<1> QED
  BY <1>1, <1>2, <1>4, <1>5

\* Whoever turned it off clears the buffers.
LEMMA TraceWorkStep ==
    ASSUME Traces!ConstantsAssumption, TraceInv, NEW u \in Users, Traces!Works(u)
    PROVE  TraceInv'
<1> USE DEF TraceInv, Traces!traceVars
<1>1. CASE Traces!LockRegistry(u)
  <2> USE <1>1 DEF Traces!LockRegistry
  <2>1. TraceTypes'
    BY DEF TraceTypes
  <2>2. HeldIsRegistered' /\ Traces!RegisteredIsHeld'
    BY DEF HeldIsRegistered, Traces!RegisteredIsHeld
  <2>3. TimingsEnd'
    BY DEF TimingsEnd, ToBeCleared, TraceTypes, Traces!trace_enabled
  <2>4. FramesOK'
    BY FramesKept DEF TraceTypes, Traces!trace_enabled
  <2> QED
    BY <2>1, <2>2, <2>3, <2>4
<1>2. CASE Traces!Upgrade(u)
  <2> USE <1>2 DEF Traces!Upgrade
  <2>1. FramesOK'
    BY FramesKept DEF TraceTypes, Traces!trace_enabled
  <2>2. TraceTypes'
    BY DEF TraceTypes
  <2>3. \A t \in TracedThreads : refs'[t] = {} <=> refs[t] = {}
    BY DEF TraceTypes
  <2>4. HeldIsRegistered'
    BY <2>3 DEF HeldIsRegistered
  <2>5. Traces!RegisteredIsHeld'
    BY <2>3 DEF Traces!RegisteredIsHeld, TraceTypes
  <2>6. TimingsEnd'
    BY <2>3 DEF TimingsEnd, ToBeCleared, TraceTypes, HeldIsRegistered, Traces!trace_enabled
  <2> QED
    BY <2>1, <2>2, <2>4, <2>5, <2>6
<1>3. ASSUME NEW t \in TracedThreads, Traces!ClearTimings(u, t)
      PROVE  TraceInv'
  <2> USE <1>3 DEF Traces!ClearTimings
  <2>1. FramesOK'
    BY FramesKept DEF Traces!trace_enabled
  <2>2. /\ refs' \in [TracedThreads -> SUBSET (TracedThreads \cup Users)]
        /\ \A q \in TracedThreads : refs'[q] \subseteq refs[q]
        /\ unregistering' \in [TracedThreads -> {Traces!Nobody} \cup TracedThreads \cup Users]
        /\ HeldIsRegistered' /\ Traces!RegisteredIsHeld'
    BY TraceDrop
  <2>3. TraceTypes'
    <3>1. /\ timings' \in [TracedThreads -> Seq(Nat)]
          /\ trace_handles' \in [Users -> SUBSET TracedThreads]
      BY DEF TraceTypes
    <3>2. UNCHANGED <<setting, scopes, period, registered, busy, upc>>
      OBVIOUS
    <3> HIDE DEF Traces!ClearTimings
    <3> QED
      BY <2>2, <3>1, <3>2 DEF TraceTypes
  <2>4. TimingsEnd'
    <3>1. \A q \in TracedThreads : refs'[q] # {} => refs[q] # {}
      BY <2>2
    <3>2. timings'[t] = <<>> /\ \A q \in TracedThreads : q # t => timings'[q] = timings[q]
      BY DEF TraceTypes
    <3>3. \A v \in Users : trace_handles'[v] = IF v = u THEN trace_handles[u] \ {t} ELSE trace_handles[v]
      BY DEF TraceTypes
    <3>4. busy[t] = 0 /\ UNCHANGED <<setting, scopes, busy, upc>>
      OBVIOUS
    <3> HIDE DEF Traces!ClearTimings
    <3> QED
      BY <3>1, <3>2, <3>3, <3>4 DEF TimingsEnd, ToBeCleared, Traces!trace_enabled
  <2> QED
    BY <2>1, <2>2, <2>3, <2>4
<1>4. CASE Traces!ClearFrames(u)
  <2> USE <1>4 DEF Traces!ClearFrames, Traces!threadVars, Traces!registryVars
  <2>1. FramesOK'
    BY DEF FramesOK, FrameTypes, UnseenCount, FramesEnd, Traces!ConstantsAssumption
  <2>2. TraceTypes'
    BY DEF TraceTypes
  <2>3. HeldIsRegistered' /\ Traces!RegisteredIsHeld'
    BY DEF HeldIsRegistered, Traces!RegisteredIsHeld, TraceTypes
  <2>4. TimingsEnd'
    BY DEF TimingsEnd, ToBeCleared, TraceTypes, Traces!trace_enabled
  <2> QED
    BY <2>1, <2>2, <2>3, <2>4
<1> QED
  BY <1>1, <1>2, <1>3, <1>4, TraceUnregisterStep DEF Traces!Works

\* Frames are recorded and collected.
LEMMA TraceFrameStep ==
    ASSUME Traces!ConstantsAssumption, TraceInv,
           Traces!CheckFrame \/ Traces!PushFrame \/ Traces!CollectFrames
    PROVE  TraceInv'
<1> USE DEF TraceInv, Traces!traceVars, Traces!threadVars, Traces!registryVars, Traces!userVars
<1>1. TraceTypes' /\ HeldIsRegistered' /\ TimingsEnd' /\ Traces!RegisteredIsHeld'
  BY DEF Traces!CheckFrame, Traces!PushFrame, Traces!CollectFrames, TraceTypes, HeldIsRegistered,
         TimingsEnd, ToBeCleared, Traces!RegisteredIsHeld, Traces!trace_enabled
<1>2. CASE Traces!CheckFrame
  BY <1>1, <1>2 DEF Traces!CheckFrame, FramesOK, FrameTypes, UnseenCount, FramesEnd, TraceTypes,
     Traces!trace_enabled
<1>3. CASE Traces!PushFrame
  <2> DEFINE kept == IF Len(frames) >= TraceCapacity THEN Tail(frames) ELSE frames
  <2>1. /\ kept \in Seq(Nat) /\ Len(kept) < TraceCapacity
        /\ Len(kept) = IF Len(frames) = TraceCapacity THEN Len(frames) - 1 ELSE Len(frames)
    BY DEF FramesOK, FrameTypes, Traces!ConstantsAssumption
  <2>2. frames' = Append(kept, checked) /\ checked # 0 /\ checked' = 0
    BY <1>3 DEF Traces!PushFrame
  <2> HIDE DEF kept
  <2>3. frames' \in Seq(Nat) /\ Len(frames') = Len(kept) + 1 /\ Len(kept) \in Nat
    BY <2>1, <2>2 DEF FramesOK, FrameTypes
  <2>4. /\ pushed' = pushed + 1 /\ UNCHANGED <<trace_cursor, cleared, setting, scopes, upc>>
        /\ unseen' = IF unseen = TraceCapacity THEN unseen ELSE unseen + 1
    BY <1>3 DEF Traces!PushFrame
  <2>5. FrameTypes'
    BY <2>1, <2>2, <2>3, <2>4 DEF FramesOK, FrameTypes, Traces!ConstantsAssumption
  <2>6. UnseenCount'
    <3>1. /\ Len(frames) \in Nat /\ pushed \in Nat /\ trace_cursor \in Nat /\ unseen \in Nat
          /\ Len(frames) <= TraceCapacity /\ TraceCapacity \in Nat
          /\ Len(frames') = IF Len(frames) = TraceCapacity THEN Len(frames) ELSE Len(frames) + 1
      BY <2>1, <2>3 DEF FramesOK, FrameTypes, Traces!ConstantsAssumption
    <3>2. UnseenCount
      BY DEF FramesOK
    <3>3. CASE cleared
      BY <3>1, <3>2, <3>3, <2>4 DEF UnseenCount
    <3>4. CASE ~cleared
      BY <3>1, <3>2, <3>4, <2>4 DEF UnseenCount
    <3> QED
      BY <3>3, <3>4
  <2>7. FramesEnd'
    <3>1. Len(frames') \in Nat /\ Len(frames) \in Nat /\ Len(frames') <= Len(frames) + 1
      BY <2>1, <2>3 DEF FramesOK, FrameTypes
    <3>2. FramesEnd
      BY DEF FramesOK
    <3> QED
      BY <3>1, <3>2, <2>2, <2>4 DEF FramesEnd, Traces!trace_enabled
  <2> QED
    BY <1>1, <2>5, <2>6, <2>7 DEF FramesOK
<1>4. CASE Traces!CollectFrames
  BY <1>1, <1>4 DEF Traces!CollectFrames, FramesOK, FrameTypes, UnseenCount, FramesEnd,
     Traces!trace_enabled
<1> QED
  BY <1>2, <1>3, <1>4

LEMMA TraceStep ==
    ASSUME Traces!ConstantsAssumption PROVE TraceInv /\ [Traces!Next]_Traces!vars => TraceInv'
<1> SUFFICES ASSUME TraceInv, [Traces!Next]_Traces!vars PROVE TraceInv'
  OBVIOUS
<1>1. CASE UNCHANGED Traces!vars
  <2>1. FramesOK'
    BY <1>1, FramesKept DEF TraceInv, Traces!vars, Traces!traceVars, Traces!userVars,
       Traces!trace_enabled
  <2> QED
    BY <1>1, <2>1 DEF TraceInv, TraceTypes, HeldIsRegistered, TimingsEnd, ToBeCleared,
       Traces!RegisteredIsHeld, Traces!trace_enabled, Traces!vars, Traces!traceVars,
       Traces!threadVars, Traces!registryVars, Traces!userVars
<1>2. ASSUME NEW u \in Users, NEW enabled \in BOOLEAN, Traces!set_trace_enabled(u, enabled)
      PROVE  TraceInv'
  <2>1. Traces!Change(u, enabled, scopes) /\ (Traces!trace_enabled \/ enabled)
    BY <1>2 DEF Traces!set_trace_enabled, Traces!trace_enabled, TraceInv, TraceTypes
  <2>2. scopes \in SUBSET Users
    BY DEF TraceInv, TraceTypes
  <2> QED
    BY <2>1, <2>2, TraceChangeStep
<1>3. ASSUME NEW u \in Users, Traces!trace_scope(u)
      PROVE  TraceInv'
  <2>1. Traces!Change(u, setting, scopes \cup {u}) /\ scopes \cup {u} # {}
    BY <1>3 DEF Traces!trace_scope
  <2>2. setting \in BOOLEAN /\ scopes \cup {u} \in SUBSET Users
    BY DEF TraceInv, TraceTypes
  <2> QED
    BY <2>1, <2>2, TraceChangeStep
<1>4. ASSUME NEW u \in Users, Traces!DropScope(u)
      PROVE  TraceInv'
  BY <1>4, TraceChangeStep DEF Traces!DropScope, Traces!trace_enabled, TraceInv, TraceTypes
<1> QED
  BY <1>1, <1>2, <1>3, <1>4, TraceThreadStep, TraceUnregisterStep, TraceWorkStep, TraceFrameStep
     DEF Traces!Next

\* What a collection returns is what was not collected before, but for what a clear makes it miss.
LEMMA TraceCollects == Traces!ConstantsAssumption /\ TraceInv => Traces!CollectedOnce
<1> SUFFICES ASSUME Traces!ConstantsAssumption, TraceInv PROVE Traces!CollectedOnce
  OBVIOUS
<1> DEFINE first == pushed - Len(frames)
           skip == IF trace_cursor > first THEN trace_cursor - first ELSE 0
<1>1. frames \in Seq(Nat) /\ Len(frames) \in Nat /\ pushed \in Nat /\ trace_cursor \in Nat
      /\ Len(frames) <= pushed /\ unseen \in Nat
  BY DEF TraceInv, FramesOK, FrameTypes
<1>2. skip \in Nat
  BY <1>1
<1>3. Traces!Collected = SubSeq(frames, skip + 1, Len(frames))
  BY DEF Traces!Collected
<1>4. Len(Traces!Collected) = IF skip + 1 <= Len(frames) THEN Len(frames) - skip ELSE 0
  <2> HIDE DEF skip
  <2> QED
    BY <1>1, <1>2, <1>3
<1>5. UnseenCount
  BY DEF TraceInv, FramesOK
<1>6. CASE cleared
  <2>1. unseen = Len(frames) /\ skip <= trace_cursor
    BY <1>1, <1>5, <1>6 DEF UnseenCount
  <2> HIDE DEF skip
  <2>2. /\ Len(Traces!Collected) <= unseen
        /\ unseen - Len(Traces!Collected) <= trace_cursor
    BY <1>1, <1>2, <1>4, <2>1
  <2> QED
    BY <1>6, <2>2 DEF Traces!CollectedOnce
<1>7. CASE ~cleared
  <2>1. unseen = Len(frames) - skip
    BY <1>1, <1>5, <1>7 DEF UnseenCount
  <2> HIDE DEF skip
  <2>2. Len(Traces!Collected) = unseen
    BY <1>1, <1>2, <1>4, <2>1
  <2> QED
    BY <1>1, <1>7, <2>2 DEF Traces!CollectedOnce
<1> QED
  BY <1>6, <1>7

LEMMA TraceImplies ==
    TraceInv => Traces!TypeOK /\ Traces!OffIsEmpty /\ Traces!RegisteredIsHeld
<1> SUFFICES ASSUME TraceInv PROVE Traces!TypeOK /\ Traces!OffIsEmpty
  BY DEF TraceInv
<1>1. Traces!TypeOK
  BY DEF Traces!TypeOK, TraceInv, TraceTypes, FramesOK, FrameTypes
<1>2. Traces!OffIsEmpty
  <2> SUFFICES ASSUME ~Traces!trace_enabled, \A u \in Users : upc[u] = "idle"
               PROVE  /\ \A t \in TracedThreads : refs[t] # {} => timings[t] = <<>>
                      /\ Len(frames) <= IF checked = 0 THEN 1 ELSE 0
    BY DEF Traces!OffIsEmpty
  <2>1. \A t \in TracedThreads : refs[t] # {} => timings[t] = <<>>
    BY DEF TraceInv, TimingsEnd, ToBeCleared, TraceTypes
  <2>2. Len(frames) <= IF checked = 0 THEN 1 ELSE 0
    BY DEF TraceInv, FramesOK, FrameTypes, FramesEnd
  <2> QED
    BY <2>1, <2>2
<1> QED
  BY <1>1, <1>2

\* What the steps of the part keep, and what it implies.
LEMMA TraceInductive ==
    ASSUME Traces!ConstantsAssumption
    PROVE  /\ Traces!Init => TraceInv
           /\ TraceInv /\ [Traces!Next]_Traces!vars => TraceInv'
           /\ TraceInv => /\ Traces!TypeOK /\ Traces!CollectedOnce
                          /\ Traces!OffIsEmpty /\ Traces!RegisteredIsHeld
  BY TraceInit, TraceStep, TraceCollects, TraceImplies
=============================================================================
