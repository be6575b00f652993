----------------------- MODULE ThreadedDispatcherProofs -----------------------
(***************************************************************************)
(* The safety properties of ThreadedDispatcher, for any number of workers  *)
(* and runnables.                                                          *)
(***************************************************************************)
EXTENDS ThreadedDispatcher, FiniteSetTheorems, TLAPS

\* A dispatch is made by a running runnable, or by the main thread when it is
\* away: a thread that has finished owes neither a send nor a notification.
CallInv ==
    /\ \A t \in Tracked : call[t] # "none" => pc[t] = "running"
    /\ call[Main] # "none" => pc[Main] \in {"away", "running"}

\* NoLostNotify is not inductive: work that arrives between run_until_idle's
\* re-check and its wait must already have its notification to come.
NotifyInv ==
    /\ pc[Main] = "waiting" => inflight > 0
    /\ pc[Main] \in {"decide", "waiting"} /\ main_queue > 0
           => \E t \in Tracked : call[t] = "notifying"

IInv ==
    /\ TypeOK
    /\ InflightCounts
    /\ CallInv
    /\ NotifyInv
    /\ NoForgottenTimer

-----------------------------------------------------------------------------
LEMMA Distinct ==
    /\ Timer \in Tracked /\ Timer \in Threads /\ Main \in Threads
    /\ Main \notin Tracked /\ Main # Timer
    /\ \A w \in Workers : w \in Tracked /\ w \in Threads /\ w # Timer /\ w # Main
    /\ \A t \in Tracked : t \in Threads /\ t # Main /\ (t \in Workers \/ t = Timer)
    /\ \A t \in Threads : t \in Tracked \/ t = Main
  BY ConstantsAssumption DEF Tracked, Threads

LEMMA CountedSets ==
    /\ IsFiniteSet(Running) /\ Cardinality(Running) \in Nat
    /\ IsFiniteSet(Sending) /\ Cardinality(Sending) \in Nat
  <1>1. IsFiniteSet(Tracked) /\ IsFiniteSet(Threads)
    <2>1. IsFiniteSet(Tracked)
      BY ConstantsAssumption, FS_AddElement DEF Tracked
    <2> QED
      BY <2>1, FS_AddElement DEF Threads
  <1>2. Running \subseteq Tracked /\ Sending \subseteq Threads
    BY DEF Running, Sending
  <1>3. IsFiniteSet(Running) /\ IsFiniteSet(Sending)
    BY <1>1, <1>2, FS_Subset
  <1> QED
    BY <1>3, FS_CardinalityType

\* t starts or ends the run of a counted runnable.
LEMMA RunningMoves ==
    ASSUME NEW t \in Tracked,
           \A u \in Tracked \ {t} : pc'[u] = pc[u]
    PROVE  /\ pc[t] # "running" /\ pc'[t] = "running"
                  => Cardinality(Running') = Cardinality(Running) + 1
           /\ pc[t] = "running" /\ pc'[t] # "running"
                  => Cardinality(Running') = Cardinality(Running) - 1
           /\ (pc[t] = "running" <=> pc'[t] = "running") => Running' = Running
  <1>1. pc'[t] = "running" => Running' = Running \cup {t}
    BY DEF Running
  <1>2. pc'[t] # "running" => Running' = Running \ {t}
    BY DEF Running
  <1>3. t \in Running <=> pc[t] = "running"
    BY DEF Running
  <1>4. /\ Cardinality(Running \cup {t}) = IF t \in Running THEN Cardinality(Running) ELSE Cardinality(Running) + 1
        /\ Cardinality(Running \ {t}) = IF t \in Running THEN Cardinality(Running) - 1 ELSE Cardinality(Running)
    BY CountedSets, FS_AddElement, FS_RemoveElement
  <1> QED
    BY <1>1, <1>2, <1>3, <1>4

LEMMA RunningSame ==
    ASSUME \A u \in Tracked : pc'[u] = "running" <=> pc[u] = "running"
    PROVE  Running' = Running
  BY DEF Running

\* t begins or ends a dispatch.
LEMMA SendingMoves ==
    ASSUME TypeOK, NEW t \in Threads, NEW label, call' = [call EXCEPT ![t] = label]
    PROVE  /\ call[t] # "sending" /\ label = "sending"
                  => Cardinality(Sending') = Cardinality(Sending) + 1
           /\ call[t] = "sending" /\ label # "sending"
                  => Cardinality(Sending') = Cardinality(Sending) - 1
           /\ (call[t] = "sending" <=> label = "sending") => Sending' = Sending
  <1>1. label = "sending" => Sending' = Sending \cup {t}
    BY DEF Sending, TypeOK
  <1>2. label # "sending" => Sending' = Sending \ {t}
    BY DEF Sending, TypeOK
  <1>3. t \in Sending <=> call[t] = "sending"
    BY DEF Sending
  <1>4. /\ Cardinality(Sending \cup {t}) = IF t \in Sending THEN Cardinality(Sending) ELSE Cardinality(Sending) + 1
        /\ Cardinality(Sending \ {t}) = IF t \in Sending THEN Cardinality(Sending) - 1 ELSE Cardinality(Sending)
    BY CountedSets, FS_AddElement, FS_RemoveElement
  <1> QED
    BY <1>1, <1>2, <1>3, <1>4

-----------------------------------------------------------------------------
(* Where threads can be *)

\* The locations of each thread.
PcOK(p) ==
    /\ p \in [Threads -> {"pop", "running", "dead", "check", "empty", "timed",
                           "popped", "away", "drain", "timers", "poll", "lock",
                           "recheck", "decide", "waiting", "idle_timers",
                           "idle_inflight"}]
    /\ \A w \in Workers : p[w] \in {"pop", "running", "dead"}
    /\ p[Timer] \in {"check", "empty", "timed", "popped", "running", "dead"}
    /\ p[Main] \in {"away", "drain", "running", "timers", "poll", "lock",
                     "recheck", "decide", "waiting", "idle_timers", "idle_inflight"}

LEMMA TypeOKPc == TypeOK => PcOK(pc)
  BY DEF TypeOK, PcOK

LEMMA NotifiedOK ==
    ASSUME NEW p, PcOK(p)
    PROVE  /\ PcOK(Notified(p))
           /\ \A u \in Tracked : Notified(p)[u] = p[u]
           /\ Notified(p)[Main] = IF p[Main] = "waiting" THEN "drain" ELSE p[Main]
  BY Distinct DEF PcOK, Notified

LEMMA TimerWokenOK ==
    ASSUME PcOK(pc)
    PROVE  /\ PcOK(TimerWoken)
           /\ \A u \in Workers \cup {Main} : TimerWoken[u] = pc[u]
           /\ TimerWoken[Timer] # "empty"
           /\ TimerWoken[Timer] = "running" <=> pc[Timer] = "running"
  BY Distinct DEF PcOK, TimerWoken

\* A step of the timer thread to one of its own locations.
LEMMA GotoTimer ==
    ASSUME PcOK(pc), NEW label \in {"check", "empty", "timed", "popped", "running", "dead"}
    PROVE  /\ PcOK([pc EXCEPT ![Timer] = label])
           /\ [pc EXCEPT ![Timer] = label][Timer] = label
           /\ \A u \in Threads \ {Timer} : [pc EXCEPT ![Timer] = label][u] = pc[u]
  BY Distinct DEF PcOK

\* The end of a counted runnable.
LEMMA DecrementEffect ==
    ASSUME IInv, NEW t \in Tracked, NEW label, pc[t] = "running", call[t] = "none",
           t \in Workers => label \in {"pop", "dead"},
           t = Timer => label \in {"check", "dead"},
           Decrement(t, label)
    PROVE  /\ inflight \in Nat /\ inflight > 0 /\ inflight' = inflight - 1
           /\ PcOK(pc')
           /\ pc'[t] = label
           /\ \A u \in Tracked \ {t} : pc'[u] = pc[u]
           /\ \/ inflight' > 0 /\ pc'[Main] = pc[Main]
              \/ pc'[Main] = IF pc[Main] = "waiting" THEN "drain" ELSE pc[Main]
  <1>1. inflight \in Nat /\ inflight > 0
    <2>1. t \in Running
      BY DEF Running
    <2>2. Cardinality(Running) # 0
      BY <2>1, CountedSets, FS_EmptySet
    <2> QED
      BY <2>2, CountedSets DEF IInv, TypeOK, InflightCounts
  <1> DEFINE p == [pc EXCEPT ![t] = label]
  <1>2. PcOK(p) /\ p[t] = label /\ \A u \in Threads \ {t} : p[u] = pc[u]
    <2>1. CASE t \in Workers
      <3>1. PcOK(pc) /\ label \in {"pop", "running", "dead"}
        BY <2>1, TypeOKPc DEF IInv
      <3> QED
        BY <2>1, <3>1, Distinct DEF PcOK
    <2>2. CASE t = Timer
      <3>1. PcOK(pc) /\ label \in {"check", "empty", "timed", "popped", "running", "dead"}
        BY <2>2, TypeOKPc DEF IInv
      <3>2. p = [pc EXCEPT ![Timer] = label]
        BY <2>2
      <3> HIDE DEF p
      <3> QED
        BY <2>2, <3>1, <3>2, GotoTimer
    <2> QED
      BY <2>1, <2>2, Distinct
  <1>3. /\ PcOK(Notified(p))
        /\ \A u \in Tracked : Notified(p)[u] = p[u]
        /\ Notified(p)[Main] = IF p[Main] = "waiting" THEN "drain" ELSE p[Main]
    BY <1>2, NotifiedOK
  <1>4. pc' = IF inflight' = 0 THEN Notified(p) ELSE p
    BY DEF Decrement
  <1>5. inflight' = inflight - 1 /\ inflight' \in Nat
    BY <1>1 DEF Decrement
  <1> HIDE DEF p
  <1> QED
    BY <1>1, <1>2, <1>3, <1>4, <1>5, Distinct

-----------------------------------------------------------------------------
(* The steps of a dispatch *)

LEMMA DispatchStep ==
    ASSUME IInv, NEW t \in Threads, Dispatch(t)
    PROVE  IInv'
  <1> USE DEF IInv
  <1>1. /\ pc' = pc /\ UNCHANGED <<background, main_queue, due, future, ran_any>>
        /\ inflight' = inflight + 1 /\ dispatched' = dispatched + 1 /\ dispatched < MaxRunnables
        /\ call' = [call EXCEPT ![t] = "sending"] /\ call[t] = "none"
        /\ pc[t] = "running" \/ (t = Main /\ pc[t] = "away")
    BY DEF Dispatch, MayDispatch
  <1>2. TypeOK'
    BY <1>1, ConstantsAssumption DEF TypeOK
  <1>3. InflightCounts'
    <2>1. Cardinality(Sending') = Cardinality(Sending) + 1
      BY <1>1, SendingMoves
    <2>2. Running' = Running
      BY <1>1, RunningSame
    <2> QED
      BY <1>1, <2>1, <2>2, CountedSets DEF InflightCounts, TypeOK
  <1>4. CallInv'
    BY <1>1, Distinct DEF CallInv, TypeOK
  <1>5. NotifyInv'
    <2>1. \A u \in Tracked : call[u] = "notifying" => call'[u] = "notifying"
      BY <1>1, Distinct DEF TypeOK
    <2> QED
      BY <1>1, <2>1 DEF NotifyInv, TypeOK
  <1>6. NoForgottenTimer'
    BY <1>1 DEF NoForgottenTimer
  <1> QED
    BY <1>2, <1>3, <1>4, <1>5, <1>6

LEMMA DispatchSendStep ==
    ASSUME IInv, NEW t \in Threads, DispatchSend(t)
    PROVE  IInv'
  <1> USE DEF IInv
  <1>1. /\ UNCHANGED <<inflight, main_queue, due, future, pc, ran_any, dispatched>>
        /\ background' = background + 1
        /\ call' = [call EXCEPT ![t] = "none"] /\ call[t] = "sending"
    BY DEF DispatchSend
  <1>2. TypeOK'
    BY <1>1 DEF TypeOK
  <1>3. InflightCounts'
    <2>0. "none" # "sending"
      OBVIOUS
    <2>1. Cardinality(Sending') = Cardinality(Sending) - 1
      BY <1>1, <2>0, SendingMoves, Zenon
    <2>2. Running' = Running
      BY <1>1, RunningSame
    <2> QED
      BY <1>1, <2>1, <2>2, CountedSets DEF InflightCounts, TypeOK
  <1>4. CallInv'
    BY <1>1, Distinct DEF CallInv, TypeOK
  <1>5. NotifyInv'
    <2>1. \A u \in Tracked : call[u] = "notifying" => call'[u] = "notifying"
      BY <1>1, Distinct DEF TypeOK
    <2> QED
      BY <1>1, <2>1 DEF NotifyInv
  <1>6. NoForgottenTimer'
    BY <1>1 DEF NoForgottenTimer
  <1> QED
    BY <1>2, <1>3, <1>4, <1>5, <1>6

LEMMA DispatchOnMainStep ==
    ASSUME IInv, NEW t \in Threads, DispatchOnMain(t)
    PROVE  IInv'
  <1> USE DEF IInv
  <1>1. /\ UNCHANGED <<inflight, background, due, future, pc, ran_any>>
        /\ main_queue' = main_queue + 1
        /\ dispatched' = dispatched + 1 /\ dispatched < MaxRunnables
        /\ call' = [call EXCEPT ![t] = "notifying"] /\ call[t] = "none"
        /\ pc[t] = "running" \/ (t = Main /\ pc[t] = "away")
    BY DEF DispatchOnMain, MayDispatch
  <1>2. TypeOK'
    BY <1>1, ConstantsAssumption DEF TypeOK
  <1>3. InflightCounts'
    <2>0. "none" # "sending" /\ "notifying" # "sending"
      OBVIOUS
    <2>1. Sending' = Sending /\ Running' = Running
      BY <1>1, <2>0, SendingMoves, RunningSame, Zenon
    <2> QED
      BY <1>1, <2>1 DEF InflightCounts
  <1>4. CallInv'
    BY <1>1, Distinct DEF CallInv, TypeOK
  <1>5. NotifyInv'
    <2>1. CASE t = Main
      <3>1. pc'[Main] \notin {"decide", "waiting"}
        BY <1>1, <2>1
      <3> QED
        BY <3>1 DEF NotifyInv
    <2>2. CASE t \in Tracked
      <3>1. call'[t] = "notifying"
        BY <1>1 DEF TypeOK
      <3> QED
        BY <1>1, <2>2, <3>1 DEF NotifyInv
    <2> QED
      BY <2>1, <2>2, Distinct
  <1>6. NoForgottenTimer'
    BY <1>1 DEF NoForgottenTimer
  <1> QED
    BY <1>2, <1>3, <1>4, <1>5, <1>6

LEMMA NotifyStep ==
    ASSUME IInv, NEW t \in Threads, NotifyUnderLock(t)
    PROVE  IInv'
  <1> USE DEF IInv
  <1>1. /\ UNCHANGED <<inflight, background, main_queue, due, future, ran_any, dispatched>>
        /\ pc' = Notified(pc) /\ pc[Main] \notin {"recheck", "decide"}
        /\ call' = [call EXCEPT ![t] = "none"] /\ call[t] = "notifying"
    BY DEF NotifyUnderLock, InflightFree
  <1>2. /\ PcOK(pc')
        /\ \A u \in Tracked : pc'[u] = pc[u]
        /\ pc'[Main] = IF pc[Main] = "waiting" THEN "drain" ELSE pc[Main]
    BY <1>1, NotifiedOK, TypeOKPc
  <1>3. TypeOK'
    BY <1>1, <1>2 DEF TypeOK, PcOK
  <1>4. InflightCounts'
    <2>1. Sending' = Sending /\ Running' = Running
      BY <1>1, <1>2, SendingMoves, RunningSame
    <2> QED
      BY <1>1, <2>1 DEF InflightCounts
  <1>5. CallInv'
    BY <1>1, <1>2, Distinct DEF CallInv, TypeOK
  <1>6. NotifyInv'
    <2>1. pc'[Main] \notin {"decide", "waiting"}
      BY <1>1, <1>2
    <2> QED
      BY <2>1 DEF NotifyInv
  <1>7. NoForgottenTimer'
    BY <1>1, <1>2, Distinct DEF NoForgottenTimer
  <1> QED
    BY <1>3, <1>4, <1>5, <1>6, <1>7

\* The timer thread is told of a change of the heap.
LEMMA TimerWokenStep ==
    ASSUME IInv, pc' = TimerWoken, due' \in Nat, future' \in Nat,
           dispatched' \in 0..MaxRunnables,
           UNCHANGED <<inflight, background, main_queue, call, ran_any>>
    PROVE  IInv'
  <1> USE DEF IInv
  <1>1. /\ PcOK(pc')
        /\ \A u \in Workers \cup {Main} : pc'[u] = pc[u]
        /\ pc'[Timer] # "empty"
        /\ pc'[Timer] = "running" <=> pc[Timer] = "running"
    BY TimerWokenOK, TypeOKPc
  <1>2. TypeOK'
    BY <1>1 DEF TypeOK, PcOK
  <1>3. InflightCounts'
    <2>1. \A u \in Tracked : pc'[u] = "running" <=> pc[u] = "running"
      BY <1>1, Distinct
    <2>2. Running' = Running
      BY <2>1, RunningSame
    <2>3. Sending' = Sending
      BY DEF Sending
    <2> QED
      BY <2>2, <2>3 DEF InflightCounts
  <1>4. CallInv'
    BY <1>1, Distinct DEF CallInv
  <1>5. NotifyInv'
    BY <1>1 DEF NotifyInv
  <1>6. NoForgottenTimer'
    BY <1>1 DEF NoForgottenTimer
  <1> QED
    BY <1>2, <1>3, <1>4, <1>5, <1>6

LEMMA DispatchAfterStep ==
    ASSUME IInv, NEW t \in Threads, NEW delay \in Delays, DispatchAfter(t, delay)
    PROVE  IInv'
  <1>1. due' \in Nat /\ future' \in Nat /\ dispatched' \in 0..MaxRunnables
    BY ConstantsAssumption DEF DispatchAfter, MayDispatch, IInv, TypeOK
  <1> QED
    BY <1>1, TimerWokenStep DEF DispatchAfter

-----------------------------------------------------------------------------
(* Workers and the timer thread *)

LEMMA WorkerPopStep ==
    ASSUME IInv, NEW w \in Workers, WorkerPop(w)
    PROVE  IInv'
  <1> USE DEF IInv
  <1>1. /\ UNCHANGED <<inflight, main_queue, due, future, call, ran_any, dispatched>>
        /\ background > 0 /\ background' = background - 1
        /\ pc[w] = "pop" /\ pc' = [pc EXCEPT ![w] = "running"]
    BY DEF WorkerPop, Goto
  <1>2. PcOK(pc') /\ pc'[w] = "running" /\ \A u \in Threads \ {w} : pc'[u] = pc[u]
    BY <1>1, TypeOKPc, Distinct DEF PcOK
  <1>3. TypeOK'
    BY <1>1, <1>2 DEF TypeOK, PcOK
  <1>4. InflightCounts'
    <2>1. Cardinality(Running') = Cardinality(Running) + 1
      BY <1>1, <1>2, RunningMoves, Distinct
    <2>2. Sending' = Sending
      BY <1>1 DEF Sending
    <2> QED
      BY <1>1, <2>1, <2>2, CountedSets DEF InflightCounts, TypeOK
  <1>5. CallInv'
    BY <1>1, <1>2, Distinct DEF CallInv
  <1>6. NotifyInv'
    BY <1>1, <1>2, Distinct DEF NotifyInv
  <1>7. NoForgottenTimer'
    BY <1>1, <1>2, Distinct DEF NoForgottenTimer
  <1> QED
    BY <1>3, <1>4, <1>5, <1>6, <1>7

LEMMA DecrementStep ==
    ASSUME IInv, NEW t \in Tracked, NEW label, pc[t] = "running", call[t] = "none",
           t \in Workers => label \in {"pop", "dead"},
           t = Timer => label \in {"check", "dead"},
           Decrement(t, label),
           UNCHANGED <<background, main_queue, due, future, call, ran_any, dispatched>>
    PROVE  IInv'
  <1> USE DEF IInv
  <1>1. /\ inflight \in Nat /\ inflight > 0 /\ inflight' = inflight - 1
        /\ PcOK(pc')
        /\ pc'[t] = label
        /\ \A u \in Tracked \ {t} : pc'[u] = pc[u]
        /\ \/ inflight' > 0 /\ pc'[Main] = pc[Main]
           \/ pc'[Main] = IF pc[Main] = "waiting" THEN "drain" ELSE pc[Main]
    BY DecrementEffect
  <1>2. label \in {"pop", "check", "dead"}
    BY Distinct
  <1>3. TypeOK'
    BY <1>1 DEF TypeOK, PcOK
  <1>4. InflightCounts'
    <2>1. Cardinality(Running') = Cardinality(Running) - 1
      BY <1>1, <1>2, RunningMoves
    <2>2. Sending' = Sending
      BY DEF Sending
    <2> QED
      BY <1>1, <2>1, <2>2, CountedSets DEF InflightCounts, TypeOK
  <1>5. CallInv'
    BY <1>1 DEF CallInv
  <1>6. NotifyInv'
    BY <1>1 DEF NotifyInv
  <1>7. NoForgottenTimer'
    BY <1>1, <1>2, Distinct DEF NoForgottenTimer
  <1> QED
    BY <1>3, <1>4, <1>5, <1>6, <1>7

LEMMA FinishStep ==
    ASSUME IInv, NEW t \in Tracked, Finish(t) \/ Panic(t)
    PROVE  IInv'
  BY DecrementStep, Distinct DEF Finish, Panic

LEMMA TimePassesStep ==
    ASSUME IInv, TimePasses
    PROVE  IInv'
  <1> USE DEF IInv
  <1>1. TypeOK'
    BY DEF TimePasses, TypeOK
  <1>2. InflightCounts'
    BY DEF TimePasses, InflightCounts, Running, Sending
  <1>3. CallInv' /\ NotifyInv'
    BY DEF TimePasses, CallInv, NotifyInv
  <1>4. NoForgottenTimer'
    BY DEF TimePasses, NoForgottenTimer, TypeOK
  <1> QED
    BY <1>1, <1>2, <1>3, <1>4

\* A step of the timer thread between two runs.
LEMMA TimerMove ==
    ASSUME IInv, NEW label \in {"check", "empty", "timed", "popped"},
           pc[Timer] \notin {"running", "dead"},
           pc' = [pc EXCEPT ![Timer] = label],
           due' \in Nat, label = "empty" => due' + future = 0,
           UNCHANGED <<inflight, background, main_queue, future, call, ran_any, dispatched>>
    PROVE  IInv'
  <1> USE DEF IInv
  <1>1. PcOK(pc') /\ pc'[Timer] = label /\ \A u \in Threads \ {Timer} : pc'[u] = pc[u]
    <2>1. label \in {"check", "empty", "timed", "popped", "running", "dead"}
      OBVIOUS
    <2> QED
      BY <2>1, GotoTimer, TypeOKPc, Zenon
  <1>2. TypeOK'
    BY <1>1 DEF TypeOK, PcOK
  <1>3. InflightCounts'
    <2>1. Running' = Running
      BY <1>1, RunningSame, Distinct
    <2>2. Sending' = Sending
      BY DEF Sending
    <2> QED
      BY <2>1, <2>2 DEF InflightCounts
  <1>4. CallInv'
    BY <1>1, Distinct DEF CallInv
  <1>5. NotifyInv'
    BY <1>1, Distinct DEF NotifyInv
  <1>6. NoForgottenTimer'
    BY <1>1 DEF NoForgottenTimer
  <1> QED
    BY <1>2, <1>3, <1>4, <1>5, <1>6

LEMMA TimerFireStep ==
    ASSUME IInv, TimerFire
    PROVE  IInv'
  <1> USE DEF IInv
  <1>1. /\ UNCHANGED <<background, main_queue, due, future, call, ran_any, dispatched>>
        /\ inflight' = inflight + 1
        /\ pc[Timer] = "popped" /\ pc' = [pc EXCEPT ![Timer] = "running"]
    BY DEF TimerFire, Goto
  <1>2. PcOK(pc') /\ pc'[Timer] = "running" /\ \A u \in Threads \ {Timer} : pc'[u] = pc[u]
    <2>1. "running" \in {"check", "empty", "timed", "popped", "running", "dead"}
      OBVIOUS
    <2> QED
      BY <1>1, <2>1, GotoTimer, TypeOKPc, Zenon
  <1>3. TypeOK'
    BY <1>1, <1>2 DEF TypeOK, PcOK
  <1>4. InflightCounts'
    <2>1. Cardinality(Running') = Cardinality(Running) + 1
      BY <1>1, <1>2, RunningMoves, Distinct
    <2>2. Sending' = Sending
      BY <1>1 DEF Sending
    <2> QED
      BY <1>1, <2>1, <2>2, CountedSets DEF InflightCounts, TypeOK
  <1>5. CallInv'
    BY <1>1, <1>2, Distinct DEF CallInv
  <1>6. NotifyInv'
    BY <1>1, <1>2, Distinct DEF NotifyInv, TypeOK
  <1>7. NoForgottenTimer'
    BY <1>1, <1>2, Distinct DEF NoForgottenTimer
  <1> QED
    BY <1>3, <1>4, <1>5, <1>6, <1>7

LEMMA TimerStep ==
    ASSUME IInv, TimerThread
    PROVE  IInv'
  <1>1. CASE TimerSleep
    <2>1. due' \in Nat /\ (future = 0 => due' + future = 0)
      BY <1>1 DEF TimerSleep, Move, IInv, TypeOK
    <2> QED
      BY <1>1, <2>1, TimerMove DEF TimerSleep, Move, Goto
  <1>2. CASE TimerTimeout
    <2>1. due' \in Nat
      BY <1>2 DEF TimerTimeout, Move, IInv, TypeOK
    <2> QED
      BY <1>2, <2>1, TimerMove DEF TimerTimeout, Move, Goto
  <1>3. CASE TimerPop
    <2>1. due' \in Nat
      BY <1>3 DEF TimerPop, IInv, TypeOK
    <2> QED
      BY <1>3, <2>1, TimerMove DEF TimerPop, Goto
  <1>4. CASE TimerFire
    BY <1>4, TimerFireStep
  <1> QED
    BY <1>1, <1>2, <1>3, <1>4 DEF TimerThread

-----------------------------------------------------------------------------
(* The main thread *)

\* A step of the main thread inside one of the dispatcher's methods.
LEMMA MainMove ==
    ASSUME IInv,
           NEW label \in {"away", "drain", "running", "timers", "poll", "lock", "recheck",
                          "decide", "waiting", "idle_timers", "idle_inflight"},
           pc' = [pc EXCEPT ![Main] = label],
           call[Main] = "none",
           label = "waiting" => inflight > 0,
           label \in {"decide", "waiting"} /\ main_queue' > 0
               => \E t \in Tracked : call[t] = "notifying",
           main_queue' \in Nat, ran_any' \in BOOLEAN,
           UNCHANGED <<inflight, background, due, future, call, dispatched>>
    PROVE  IInv'
  <1> USE DEF IInv
  <1>1. PcOK(pc') /\ pc'[Main] = label /\ \A u \in Threads \ {Main} : pc'[u] = pc[u]
    <2>1. PcOK(pc)
      BY TypeOKPc
    <2> QED
      BY <2>1, Distinct DEF PcOK
  <1>2. TypeOK'
    BY <1>1 DEF TypeOK, PcOK
  <1>3. InflightCounts'
    <2>1. Running' = Running
      BY <1>1, RunningSame, Distinct
    <2>2. Sending' = Sending
      BY DEF Sending
    <2> QED
      BY <2>1, <2>2 DEF InflightCounts
  <1>4. CallInv'
    BY <1>1, Distinct DEF CallInv
  <1>5. NotifyInv'
    BY <1>1 DEF NotifyInv
  <1>6. NoForgottenTimer'
    BY <1>1, Distinct DEF NoForgottenTimer
  <1> QED
    BY <1>2, <1>3, <1>4, <1>5, <1>6

LEMMA MainStep ==
    ASSUME IInv, MainThread
    PROVE  IInv'
  <1> USE DEF IInv
  <1>1. /\ main_queue \in Nat /\ ran_any \in BOOLEAN /\ inflight \in Nat
        /\ pc[Main] \notin {"away", "running"} => call[Main] = "none"
    BY Distinct DEF TypeOK, CallInv
  <1>2. ASSUME DrainPop
        PROVE  IInv'
    <2>1. main_queue' \in Nat
      BY <1>1, <1>2 DEF DrainPop
    <2> QED
      BY <1>1, <1>2, <2>1, MainMove DEF DrainPop, Goto
  <1>3. ASSUME DrainReturned \/ Poll \/ LockInflight \/ IsIdleInflight
        PROVE  IInv'
    BY <1>1, <1>3, MainMove DEF DrainReturned, Poll, LockInflight, IsIdleInflight, Move, Goto
  <1>4. ASSUME DrainEnd
        PROVE  IInv'
    BY <1>1, <1>4, MainMove DEF DrainEnd, Goto
  <1>5. ASSUME CheckTimers
        PROVE  IInv'
    BY <1>1, <1>5, MainMove DEF CheckTimers, Move, Goto
  <1>6. ASSUME Recheck
        PROVE  IInv'
    BY <1>1, <1>6, MainMove DEF Recheck, Move, Goto
  <1>7. ASSUME Decide
        PROVE  IInv'
    <2>1. inflight # 0 => inflight > 0
      BY <1>1
    <2>2. main_queue > 0 => \E t \in Tracked : call[t] = "notifying"
      BY <1>7 DEF Decide, NotifyInv
    <2> QED
      BY <1>1, <1>7, <2>1, <2>2, MainMove DEF Decide, Move, Goto
  <1>8. ASSUME RunUntilIdle
        PROVE  IInv'
    BY <1>1, <1>8, MainMove DEF RunUntilIdle, Away, Goto
  <1>9. ASSUME IsIdleMain
        PROVE  IInv'
    BY <1>1, <1>9, MainMove DEF IsIdleMain, Away, Move, Goto
  <1>10. ASSUME IsIdleTimers
         PROVE  IInv'
    BY <1>1, <1>10, MainMove DEF IsIdleTimers, Move, Goto
  <1>11. ASSUME CancelPendingTimers
         PROVE  IInv'
    <2>1. due' \in Nat /\ future' \in Nat /\ dispatched' \in 0..MaxRunnables
      BY <1>11 DEF CancelPendingTimers, TypeOK
    <2> QED
      BY <1>11, <2>1, TimerWokenStep DEF CancelPendingTimers
  <1> QED
    BY <1>2, <1>3, <1>4, <1>5, <1>6, <1>7, <1>8, <1>9, <1>10, <1>11 DEF MainThread, RunLoop

-----------------------------------------------------------------------------
LEMMA InductiveInit == Init => IInv
  <1> SUFFICES ASSUME Init
               PROVE  IInv
    OBVIOUS
  <1>1. TypeOK
    <2>1. PcOK(pc)
      <3>1. \A w \in Workers : pc[w] = "pop"
        BY Distinct DEF Init
      <3>2. pc[Timer] = "check" /\ pc[Main] = "away"
        BY Distinct DEF Init
      <3>3. \A t \in Threads : pc[t] \in {"pop", "check", "away"}
        BY <3>1, <3>2, Distinct
      <3> QED
        BY <3>1, <3>2, <3>3 DEF Init, PcOK
    <2>2. inflight = 0 /\ background = 0 /\ main_queue = 0 /\ due = 0 /\ future = 0
          /\ dispatched \in 0..MaxRunnables
      BY ConstantsAssumption DEF Init
    <2>3. ran_any \in BOOLEAN
      BY DEF Init
    <2>4. call \in [Threads -> {"none", "sending", "notifying"}]
      BY DEF Init
    <2> QED
      BY <2>1, <2>2, <2>3, <2>4 DEF PcOK, TypeOK
  <1>2. InflightCounts
    <2>1. Running = {} /\ Sending = {}
      BY Distinct DEF Init, Running, Sending
    <2>2. Cardinality({}) = 0
      BY FS_EmptySet
    <2> QED
      BY <2>1, <2>2 DEF Init, InflightCounts
  <1>3. CallInv /\ NotifyInv /\ NoForgottenTimer
    BY Distinct DEF Init, CallInv, NotifyInv, NoForgottenTimer
  <1> QED
    BY <1>1, <1>2, <1>3 DEF IInv

LEMMA InductiveStep == IInv /\ [Next]_vars => IInv'
  <1> SUFFICES ASSUME IInv, [Next]_vars
               PROVE  IInv'
    OBVIOUS
  <1>1. ASSUME NEW t \in Threads, Calls(t)
        PROVE  IInv'
    BY <1>1, DispatchStep, DispatchSendStep, DispatchOnMainStep, NotifyStep,
       DispatchAfterStep DEF Calls
  <1>2. ASSUME NEW w \in Workers, WorkerPop(w)
        PROVE  IInv'
    BY <1>2, WorkerPopStep
  <1>3. ASSUME NEW t \in Tracked, Finish(t) \/ Panic(t)
        PROVE  IInv'
    BY <1>3, FinishStep
  <1>4. CASE TimePasses
    BY <1>4, TimePassesStep
  <1>5. CASE TimerThread
    BY <1>5, TimerStep
  <1>6. CASE MainThread
    BY <1>6, MainStep
  <1>7. CASE UNCHANGED vars
    BY <1>7 DEF vars, IInv, TypeOK, InflightCounts, Running, Sending, CallInv,
                NotifyInv, NoForgottenTimer
  <1> QED
    BY <1>1, <1>2, <1>3, <1>4, <1>5, <1>6, <1>7 DEF Next

LEMMA Inductive == Spec => []IInv
  BY InductiveInit, InductiveStep, PTL DEF Spec

\* Type correctness of the dispatcher for any workers and runnables.
THEOREM TypeCorrect == Spec => []TypeOK
  <1>1. IInv => TypeOK
    BY DEF IInv
  <1> QED
    BY <1>1, Inductive, PTL

\* The IdleTracker counts exactly the background and timer runnables that are
\* queued, running or being sent, panics included.
THEOREM InflightIsExact == Spec => []InflightCounts
  <1>1. IInv => InflightCounts
    BY DEF IInv
  <1> QED
    BY <1>1, Inductive, PTL

\* A waiting run_until_idle always has a wake to come.
THEOREM NotificationsAreKept == Spec => []NoLostNotify
  <1>1. IInv => NoLostNotify
    BY DEF IInv, NotifyInv, NoLostNotify
  <1> QED
    BY <1>1, Inductive, PTL

\* The timer thread sleeps without a timeout only on an empty heap.
THEOREM TimersAreWatched == Spec => []NoForgottenTimer
  <1>1. IInv => NoForgottenTimer
    BY DEF IInv
  <1> QED
    BY <1>1, Inductive, PTL

\* run_until_idle returns only to a dispatcher with nothing queued or running, and
\* with an empty main queue.
THEOREM ReturnIsQuiescent == Spec => ReturnsQuiescent
  <1>1. IInv /\ [Next]_vars => [pc[Main] = "decide" /\ pc'[Main] = "away" => Quiescent]_vars
    <2> SUFFICES ASSUME IInv, Next, pc[Main] = "decide", pc'[Main] = "away"
                 PROVE  Quiescent
      BY DEF vars
    <2>1. inflight = 0
      <3>1. ASSUME NEW t \in Threads, Calls(t)
            PROVE  FALSE
        <4>1. pc[Main] = "decide" => pc'[Main] = "decide"
          BY <3>1, TypeOKPc, TimerWokenOK, NotifiedOK
             DEF Calls, Dispatch, DispatchSend, DispatchOnMain, NotifyUnderLock,
                 DispatchAfter, InflightFree, IInv
        <4> QED
          BY <4>1
      <3>2. ASSUME NEW w \in Workers, WorkerPop(w)
            PROVE  FALSE
        BY <3>2, Distinct DEF WorkerPop, Goto, IInv, TypeOK
      <3>3. ASSUME NEW t \in Tracked, Finish(t) \/ Panic(t)
            PROVE  FALSE
        BY <3>3 DEF Finish, Panic, Decrement, InflightFree
      <3>4. ASSUME TimePasses \/ TimerThread
            PROVE  FALSE
        BY <3>4, Distinct DEF TimePasses, TimerThread, TimerSleep, TimerTimeout, TimerPop,
                              TimerFire, Move, Goto, IInv, TypeOK
      <3>5. MainThread
        BY <3>1, <3>2, <3>3, <3>4 DEF Next
      <3>6. Decide
        BY <3>5 DEF MainThread, RunLoop, DrainPop, DrainReturned, DrainEnd, CheckTimers, Poll,
                    LockInflight, Recheck, CancelPendingTimers, RunUntilIdle, IsIdleMain,
                    IsIdleTimers, IsIdleInflight, Away
      <3> QED
        BY <3>6, Distinct DEF Decide, Move, Goto, IInv, TypeOK
    <2>2. background = 0 /\ Cardinality(Running) = 0 /\ Cardinality(Sending) = 0
      BY <2>1, CountedSets DEF IInv, InflightCounts, TypeOK
    <2>3. Running = {} /\ Sending = {}
      BY <2>2, CountedSets, FS_EmptySet
    <2>4. \A t \in Tracked : call[t] # "notifying"
      BY <2>3 DEF IInv, CallInv, Running
    <2>5. main_queue = 0
      BY <2>4 DEF IInv, NotifyInv, TypeOK
    <2> QED
      BY <2>2, <2>3, <2>5 DEF Quiescent
  <1> QED
    BY <1>1, Inductive, PTL DEF Spec, ReturnsQuiescent
=============================================================================
