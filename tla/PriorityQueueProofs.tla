------------------------- MODULE PriorityQueueProofs -------------------------
(***************************************************************************)
(* The safety properties of PriorityQueue, for any number of sending       *)
(* threads, receivers and items.                                           *)
(***************************************************************************)
EXTENDS PriorityQueue, FiniteSetTheorems, TLAPS

\* receiver_count is the number of receivers alive.
CountInv == receiver_count = Cardinality(Live)

\* No thread is past the check of a send once the sender has been dropped, and a
\* thread was refused only without receivers.
SenderInv ==
    /\ sender_count = 0 => \A s \in Senders : sender[s] # "checked"
    /\ (\E s \in Senders : sender[s] = "refused") => Live = {}

\* InOrder is not inductive: a push must also come after what was taken.
OrderInv ==
    /\ InOrder
    /\ \A p \in Priority : taken[p] <= sent /\ \A i \in 1..Len(queues[p]) : queues[p][i] <= sent

IInv ==
    /\ TypeOK
    /\ PopNeverPanics
    /\ CountInv
    /\ SenderInv
    /\ DisconnectedIsDrained
    /\ NoLostWakeup
    /\ OrderInv

-----------------------------------------------------------------------------
(* The die *)

LEMMA MassLeftValue ==
    ASSUME NEW S \in SUBSET Priority
    PROVE  /\ "Low" \in S => MassLeft(S, "Low") = weight("Low")
           /\ "Low" \notin S /\ "Medium" \in S => MassLeft(S, "Medium") = weight("Medium")
           /\ "Low" \notin S /\ "Medium" \notin S => MassLeft(S, "High") = Mass(S)
  <1>1. /\ weight("High") = 60 /\ weight("Medium") = 30 /\ weight("Low") = 10
    BY DEF weight
  <1>2. ASSUME NEW p \in Priority
        PROVE  LET B == {q \in S : Before(q, p)}
               IN  /\ "High" \in B <=> "High" \in S /\ p # "High"
                   /\ "Medium" \in B <=> "Medium" \in S /\ p = "Low"
                   /\ "Low" \notin B
    BY <1>2 DEF Before, Priority
  <1>3. "Low" \in Priority /\ "Medium" \in Priority /\ "High" \in Priority
    BY DEF Priority
  <1>4. "Low" \in S => MassLeft(S, "Low") = weight("Low")
    BY <1>1, <1>2, <1>3 DEF MassLeft, Mass
  <1>5. "Low" \notin S /\ "Medium" \in S => MassLeft(S, "Medium") = weight("Medium")
    BY <1>1, <1>2, <1>3 DEF MassLeft, Mass
  <1>6. "Low" \notin S /\ "Medium" \notin S => MassLeft(S, "High") = Mass(S)
    BY <1>1, <1>2, <1>3 DEF MassLeft, Mass
  <1> QED
    BY <1>4, <1>5, <1>6

\* The coin of the last non-empty deque cannot miss, so a roll of the die always
\* lands on a deque that has an item.
LEMMA DieLands ==
    ASSUME NEW S \in SUBSET Priority, S # {}
    PROVE  Faces(S) \subseteq S
  <1>1. \E q \in S : ~Misses(S, q)
    <2>1. weight("High") = 60 /\ weight("Medium") = 30 /\ weight("Low") = 10
      BY DEF weight
    <2>2. CASE "Low" \in S
      BY <2>1, <2>2, MassLeftValue DEF Misses
    <2>3. CASE "Low" \notin S /\ "Medium" \in S
      BY <2>1, <2>3, MassLeftValue DEF Misses
    <2>4. CASE "Low" \notin S /\ "Medium" \notin S
      <3>1. S = {"High"}
        BY <2>4 DEF Priority
      <3>2. Mass(S) = 60
        BY <2>1, <3>1 DEF Mass
      <3> QED
        BY <2>1, <2>4, <3>1, <3>2, MassLeftValue DEF Misses
    <2> QED
      BY <2>2, <2>3, <2>4
  <1> QED
    BY <1>1 DEF Faces

-----------------------------------------------------------------------------
(* Counting receivers *)

LEMMA ReceiverSets ==
    /\ IsFiniteSet(Woken) /\ Cardinality(Woken) \in Nat
    /\ IsFiniteSet(Live) /\ Cardinality(Live) \in Nat
  <1>1. Woken \subseteq Receivers /\ Live \subseteq Receivers
    BY DEF Woken, Live
  <1>2. IsFiniteSet(Woken) /\ IsFiniteSet(Live)
    BY <1>1, FS_Subset, ConstantsAssumption
  <1> QED
    BY <1>2, FS_CardinalityType

\* A receiver is counted by receiver_count.
Alive(label) == label \notin {"unborn", "dropped"}

\* What one receiver's move does to the two counts.
LEMMA ReceiverMoves ==
    ASSUME TypeOK, NEW r \in Receivers, NEW label,
           receiver' = [receiver EXCEPT ![r] = label]
    PROVE  /\ receiver[r] # "woken" /\ label = "woken" => Cardinality(Woken') = Cardinality(Woken) + 1
           /\ receiver[r] = "woken" /\ label # "woken" => Cardinality(Woken') = Cardinality(Woken) - 1
           /\ (receiver[r] = "woken" <=> label = "woken") => Cardinality(Woken') = Cardinality(Woken)
           /\ ~Alive(receiver[r]) /\ Alive(label) => Cardinality(Live') = Cardinality(Live) + 1
           /\ Alive(receiver[r]) /\ ~Alive(label) => Cardinality(Live') = Cardinality(Live) - 1
           /\ (Alive(receiver[r]) <=> Alive(label)) => Cardinality(Live') = Cardinality(Live)
  <1>1. Woken' = IF label = "woken" THEN Woken \cup {r} ELSE Woken \ {r}
    BY DEF TypeOK, Woken
  <1>2. Live' = IF Alive(label) THEN Live \cup {r} ELSE Live \ {r}
    BY DEF TypeOK, Live, Alive
  <1>3. /\ Cardinality(Woken \cup {r}) = IF r \in Woken THEN Cardinality(Woken) ELSE Cardinality(Woken) + 1
        /\ Cardinality(Woken \ {r}) = IF r \in Woken THEN Cardinality(Woken) - 1 ELSE Cardinality(Woken)
    BY ReceiverSets, FS_AddElement, FS_RemoveElement
  <1>4. /\ Cardinality(Live \cup {r}) = IF r \in Live THEN Cardinality(Live) ELSE Cardinality(Live) + 1
        /\ Cardinality(Live \ {r}) = IF r \in Live THEN Cardinality(Live) - 1 ELSE Cardinality(Live)
    BY ReceiverSets, FS_AddElement, FS_RemoveElement
  <1>5. (r \in Woken <=> receiver[r] = "woken") /\ (r \in Live <=> Alive(receiver[r]))
    BY DEF Woken, Live, Alive
  <1> QED
    BY <1>1, <1>2, <1>3, <1>4, <1>5

-----------------------------------------------------------------------------
(* Counting items *)

LEMMA Priorities ==
    /\ "High" \in Priority /\ "Medium" \in Priority /\ "Low" \in Priority
    /\ "High" # "Medium" /\ "High" # "Low" /\ "Medium" # "Low"
    /\ \A p \in Priority : p = "High" \/ p = "Medium" \/ p = "Low"
  BY DEF Priority

\* Queued as a sum of three numbers.
LEMMA QueuedSum ==
    ASSUME TypeOK
    PROVE  \E h, m, l \in Nat :
              /\ h = Len(queues["High"])
              /\ m = Len(queues["Medium"])
              /\ l = Len(queues["Low"])
              /\ Queued = h + m + l
  <1>1. /\ Len(queues["High"]) \in Nat
        /\ Len(queues["Medium"]) \in Nat
        /\ Len(queues["Low"]) \in Nat
    BY Priorities DEF TypeOK
  <1> QED
    BY <1>1, Zenon DEF Queued

LEMMA QueuedType ==
    ASSUME TypeOK
    PROVE  /\ Queued \in Nat
           /\ IsEmpty <=> Queued = 0
           /\ \A p \in Priority : queues[p] \in Seq(1..MaxItems) /\ Len(queues[p]) \in Nat
  <1>1. \A p \in Priority : queues[p] \in Seq(1..MaxItems) /\ Len(queues[p]) \in Nat
    BY DEF TypeOK
  <1>2. \A p \in Priority : queues[p] = <<>> <=> Len(queues[p]) = 0
    BY <1>1
  <1>3. IsEmpty <=> \A p \in Priority : queues[p] = <<>>
    BY DEF IsEmpty, NonEmpty
  <1>4. IsEmpty <=> /\ Len(queues["High"]) = 0
                    /\ Len(queues["Medium"]) = 0
                    /\ Len(queues["Low"]) = 0
    BY <1>2, <1>3, Priorities
  <1>5. /\ Queued \in Nat
        /\ Queued = 0 <=> /\ Len(queues["High"]) = 0
                          /\ Len(queues["Medium"]) = 0
                          /\ Len(queues["Low"]) = 0
    BY QueuedSum
  <1> QED
    BY <1>1, <1>4, <1>5

LEMMA PushQueued ==
    ASSUME TypeOK, NEW p \in Priority, NEW n \in 1..MaxItems,
           queues' = [queues EXCEPT ![p] = Append(@, n)]
    PROVE  /\ Queued' = Queued + 1
           /\ queues' \in [Priority -> Seq(1..MaxItems)]
  <1>1. queues[p] \in Seq(1..MaxItems)
    BY DEF TypeOK
  <1>2. Append(queues[p], n) \in Seq(1..MaxItems) /\ Len(Append(queues[p], n)) = Len(queues[p]) + 1
    BY <1>1
  <1>3. queues' \in [Priority -> Seq(1..MaxItems)]
    BY <1>2 DEF TypeOK
  <1>4. /\ Len(queues'[p]) = Len(queues[p]) + 1
        /\ \A q \in Priority \ {p} : queues'[q] = queues[q]
    BY <1>2 DEF TypeOK
  <1>5. PICK h, m, l \in Nat :
              /\ h = Len(queues["High"])
              /\ m = Len(queues["Medium"])
              /\ l = Len(queues["Low"])
              /\ Queued = h + m + l
    BY QueuedSum
  <1>6. /\ Len(queues'["High"]) = IF p = "High" THEN h + 1 ELSE h
        /\ Len(queues'["Medium"]) = IF p = "Medium" THEN m + 1 ELSE m
        /\ Len(queues'["Low"]) = IF p = "Low" THEN l + 1 ELSE l
        /\ p = "High" \/ p = "Medium" \/ p = "Low"
    BY <1>4, <1>5, Priorities
  <1>7. Queued' = Len(queues'["High"]) + Len(queues'["Medium"]) + Len(queues'["Low"])
    BY DEF Queued
  <1>8. Queued' = Queued + 1
    <2>1. \/ Queued' = (h + 1) + m + l
          \/ Queued' = h + (m + 1) + l
          \/ Queued' = h + m + (l + 1)
      BY <1>6, <1>7, Priorities, Zenon
    <2>2. Queued = h + m + l
      BY <1>5
    <2> QED
      BY <2>1, <2>2
  <1> QED
    BY <1>3, <1>8

LEMMA SequenceElement ==
    ASSUME NEW S, NEW q \in Seq(S), NEW i \in 1..Len(q)
    PROVE  q[i] \in S
  OBVIOUS

LEMMA NonEmptySequence ==
    ASSUME NEW S, NEW q \in Seq(S), q # <<>>
    PROVE  /\ Len(q) > 0
           /\ Head(q) = q[1] /\ Head(q) \in S
           /\ Tail(q) \in Seq(S)
           /\ Len(Tail(q)) = Len(q) - 1
           /\ \A i \in 1..Len(Tail(q)) : Tail(q)[i] = q[i + 1]
  OBVIOUS

LEMMA PopQueued ==
    ASSUME TypeOK, NEW p \in NonEmpty,
           queues' = [queues EXCEPT ![p] = Tail(@)]
    PROVE  /\ Queued' = Queued - 1
           /\ Queued > 0
           /\ queues' \in [Priority -> Seq(1..MaxItems)]
           /\ Head(queues[p]) \in 1..MaxItems
  <1>1. p \in Priority /\ queues[p] \in Seq(1..MaxItems) /\ queues[p] # <<>>
    BY DEF TypeOK, NonEmpty
  <1>2. /\ Tail(queues[p]) \in Seq(1..MaxItems) /\ Len(Tail(queues[p])) = Len(queues[p]) - 1
        /\ Len(queues[p]) > 0
        /\ Head(queues[p]) \in 1..MaxItems
    BY <1>1, NonEmptySequence
  <1>3. queues' \in [Priority -> Seq(1..MaxItems)]
    BY <1>1, <1>2 DEF TypeOK
  <1>4. /\ Len(queues'[p]) = Len(queues[p]) - 1
        /\ \A q \in Priority \ {p} : queues'[q] = queues[q]
    BY <1>1, <1>2 DEF TypeOK
  <1>5. PICK h, m, l \in Nat :
              /\ h = Len(queues["High"])
              /\ m = Len(queues["Medium"])
              /\ l = Len(queues["Low"])
              /\ Queued = h + m + l
    BY QueuedSum
  <1>6. /\ Len(queues'["High"]) = IF p = "High" THEN h - 1 ELSE h
        /\ Len(queues'["Medium"]) = IF p = "Medium" THEN m - 1 ELSE m
        /\ Len(queues'["Low"]) = IF p = "Low" THEN l - 1 ELSE l
        /\ p = "High" \/ p = "Medium" \/ p = "Low"
    BY <1>1, <1>4, <1>5, Priorities
  <1>7. Queued' = Len(queues'["High"]) + Len(queues'["Medium"]) + Len(queues'["Low"])
    BY DEF Queued
  <1>8. (p = "High" => h > 0) /\ (p = "Medium" => m > 0) /\ (p = "Low" => l > 0)
    BY <1>2, <1>5
  <1>9. Queued' = Queued - 1 /\ Queued > 0
    <2>1. \/ h > 0 /\ Queued' = (h - 1) + m + l
          \/ m > 0 /\ Queued' = h + (m - 1) + l
          \/ l > 0 /\ Queued' = h + m + (l - 1)
      BY <1>6, <1>7, <1>8, Priorities, Zenon
    <2>2. Queued = h + m + l
      BY <1>5
    <2> QED
      BY <2>1, <2>2
  <1> QED
    BY <1>2, <1>3, <1>9

-----------------------------------------------------------------------------
(* The effects of the two actions that change the deques *)

LEMMA PopEffect ==
    ASSUME TypeOK, NEW r \in Receivers, Pop(r)
    PROVE  \E p \in NonEmpty :
              /\ queues' = [queues EXCEPT ![p] = Tail(@)]
              /\ taken' = [taken EXCEPT ![p] = Head(queues[p])]
              /\ receiver' = [receiver EXCEPT ![r] = "idle"]
  <1>1. Faces(NonEmpty) \subseteq NonEmpty
    <2>1. NonEmpty \in SUBSET Priority /\ NonEmpty # {}
      BY DEF NonEmpty, Pop, IsEmpty
    <2> QED
      BY <2>1, DieLands
  <1>2. "none" \notin NonEmpty
    BY DEF NonEmpty, Priority
  <1> QED
    BY <1>1, <1>2 DEF Pop

LEMMA NotifyEffect ==
    ASSUME TypeOK, NotifyOne
    PROVE  \/ Waiting = {} /\ receiver' = receiver
           \/ \E r \in Receivers : /\ receiver[r] = "waiting"
                                   /\ receiver' = [receiver EXCEPT ![r] = "woken"]
  BY DEF NotifyOne, Waiting

-----------------------------------------------------------------------------
(* Type correctness *)

LEMMA TypeInit == Init => TypeOK
  <1>1. <<>> \in Seq(1..MaxItems)
    OBVIOUS
  <1> QED
    BY <1>1, ConstantsAssumption DEF Init, TypeOK

LEMMA TypeStep ==
    ASSUME IInv, [Next]_vars
    PROVE  TypeOK'
  <1> USE DEF IInv
  <1>1. ASSUME NEW s \in Senders, SendCheck(s)
        PROVE  TypeOK'
    BY <1>1 DEF SendCheck, TypeOK
  <1>2. ASSUME NEW s \in Senders, NEW p \in Priority, SendPush(s, p)
        PROVE  TypeOK'
    <2>1. sent' \in 1..MaxItems
      BY <1>2, ConstantsAssumption DEF SendPush, TypeOK
    <2>2. queues' \in [Priority -> Seq(1..MaxItems)]
      BY <1>2, <2>1, PushQueued DEF SendPush
    <2>3. receiver' \in [Receivers -> {"unborn", "idle", "waiting", "woken",
                                       "disconnected", "panicked", "dropped"}]
      BY <1>2, NotifyEffect DEF SendPush, TypeOK
    <2> QED
      BY <1>2, <2>1, <2>2, <2>3 DEF SendPush, TypeOK
  <1>3. ASSUME DropSender
        PROVE  TypeOK'
    BY <1>3 DEF DropSender, TypeOK
  <1>4. ASSUME NEW r \in Receivers, NEW new \in Receivers, CloneReceiver(r, new)
        PROVE  TypeOK'
    BY <1>4 DEF CloneReceiver, TypeOK
  <1>5. ASSUME NEW r \in Receivers, Pop(r)
        PROVE  TypeOK'
    <2>1. PICK p \in NonEmpty :
              /\ queues' = [queues EXCEPT ![p] = Tail(@)]
              /\ taken' = [taken EXCEPT ![p] = Head(queues[p])]
              /\ receiver' = [receiver EXCEPT ![r] = "idle"]
      BY <1>5, PopEffect
    <2>2. queues' \in [Priority -> Seq(1..MaxItems)] /\ Head(queues[p]) \in 1..MaxItems
      BY <2>1, PopQueued
    <2> QED
      BY <1>5, <2>1, <2>2 DEF Pop, TypeOK
  <1>6. ASSUME NEW r \in Receivers,
               RecvDisconnected(r) \/ RecvWait(r) \/ WaitAgain(r) \/ SpuriousWake(r)
        PROVE  TypeOK'
    BY <1>6 DEF RecvDisconnected, RecvWait, WaitAgain, SpuriousWake, TypeOK
  <1>7. ASSUME NEW r \in Receivers, DropReceiver(r)
        PROVE  TypeOK'
    <2>1. receiver_count \in Nat /\ receiver_count > 0
      <3>1. r \in Live
        BY <1>7 DEF DropReceiver, Live
      <3>2. Cardinality(Live) # 0
        BY <3>1, ReceiverSets, FS_EmptySet
      <3> QED
        BY <3>2, ReceiverSets DEF CountInv
    <2> QED
      BY <1>7, <2>1 DEF DropReceiver, TypeOK
  <1>8. CASE UNCHANGED vars
    BY <1>8 DEF vars, TypeOK
  <1> QED
    BY <1>1, <1>2, <1>3, <1>4, <1>5, <1>6, <1>7, <1>8 DEF Next, Recv

-----------------------------------------------------------------------------
(* The rest of the inductive invariant *)

\* The moves of a receiver that touch neither the deques nor the counts.
Sleeps(r) == RecvDisconnected(r) \/ RecvWait(r) \/ WaitAgain(r) \/ SpuriousWake(r)

LEMMA PanicStep ==
    ASSUME IInv, [Next]_vars
    PROVE  PopNeverPanics'
  <1> USE DEF IInv
  <1>1. ASSUME NEW r \in Receivers, NEW label, label # "panicked",
               receiver' = [receiver EXCEPT ![r] = label]
        PROVE  PopNeverPanics'
    BY <1>1 DEF PopNeverPanics, TypeOK
  <1>2. ASSUME receiver' = receiver
        PROVE  PopNeverPanics'
    BY <1>2 DEF PopNeverPanics
  <1>3. ASSUME NEW s \in Senders, NEW p \in Priority, SendPush(s, p)
        PROVE  PopNeverPanics'
    BY <1>1, <1>2, <1>3, NotifyEffect DEF SendPush
  <1>4. ASSUME NEW r \in Receivers, Pop(r)
        PROVE  PopNeverPanics'
    BY <1>1, <1>4, PopEffect
  <1>5. ASSUME NEW r \in Receivers, Sleeps(r) \/ DropReceiver(r)
        PROVE  PopNeverPanics'
    BY <1>1, <1>5 DEF Sleeps, RecvDisconnected, RecvWait, WaitAgain, SpuriousWake, DropReceiver
  <1>6. ASSUME NEW r \in Receivers, NEW new \in Receivers, CloneReceiver(r, new)
        PROVE  PopNeverPanics'
    BY <1>1, <1>6 DEF CloneReceiver
  <1>7. ASSUME DropSender \/ (\E s \in Senders : SendCheck(s)) \/ UNCHANGED vars
        PROVE  PopNeverPanics'
    BY <1>2, <1>7 DEF DropSender, SendCheck, vars
  <1> QED
    BY <1>3, <1>4, <1>5, <1>6, <1>7 DEF Next, Recv, Sleeps

LEMMA CountStep ==
    ASSUME IInv, [Next]_vars
    PROVE  CountInv'
  <1> USE DEF IInv
  <1>1. ASSUME NEW r \in Receivers, NEW label, Alive(label), Alive(receiver[r]),
               receiver' = [receiver EXCEPT ![r] = label],
               receiver_count' = receiver_count
        PROVE  CountInv'
    BY <1>1, ReceiverMoves DEF CountInv
  <1>2. ASSUME receiver' = receiver, receiver_count' = receiver_count
        PROVE  CountInv'
    BY <1>2 DEF CountInv, Live
  <1>3. ASSUME NEW s \in Senders, NEW p \in Priority, SendPush(s, p)
        PROVE  CountInv'
    BY <1>1, <1>2, <1>3, NotifyEffect DEF SendPush, Alive
  <1>4. ASSUME NEW r \in Receivers, Pop(r)
        PROVE  CountInv'
    BY <1>1, <1>4, PopEffect DEF Pop, Alive
  <1>5. ASSUME NEW r \in Receivers, Sleeps(r)
        PROVE  CountInv'
    BY <1>1, <1>5 DEF Sleeps, RecvDisconnected, RecvWait, WaitAgain, SpuriousWake, Alive
  <1>6. ASSUME NEW r \in Receivers, DropReceiver(r)
        PROVE  CountInv'
    <2>1. Alive(receiver[r]) /\ ~Alive("dropped")
      BY <1>6 DEF DropReceiver, Alive
    <2> QED
      BY <1>6, <2>1, ReceiverMoves DEF DropReceiver, CountInv
  <1>7. ASSUME NEW r \in Receivers, NEW new \in Receivers, CloneReceiver(r, new)
        PROVE  CountInv'
    <2>1. ~Alive(receiver[new]) /\ Alive("idle")
      BY <1>7 DEF CloneReceiver, Alive
    <2> QED
      BY <1>7, <2>1, ReceiverMoves DEF CloneReceiver, CountInv
  <1>8. ASSUME DropSender \/ (\E s \in Senders : SendCheck(s)) \/ UNCHANGED vars
        PROVE  CountInv'
    BY <1>2, <1>8 DEF DropSender, SendCheck, vars
  <1> QED
    BY <1>3, <1>4, <1>5, <1>6, <1>7, <1>8 DEF Next, Recv, Sleeps

LEMMA SenderStep ==
    ASSUME IInv, [Next]_vars
    PROVE  SenderInv'
  <1> USE DEF IInv
  <1>1. ASSUME NEW r \in Receivers, NEW label,
               receiver[r] \notin {"unborn", "dropped"},
               receiver' = [receiver EXCEPT ![r] = label],
               UNCHANGED <<sender_count, sender>>
        PROVE  SenderInv'
    BY <1>1 DEF SenderInv, Live, TypeOK
  <1>2. ASSUME NEW s \in Senders, SendCheck(s)
        PROVE  SenderInv'
    <2>1. receiver_count = 0 => Live = {}
      BY ReceiverSets, FS_EmptySet DEF CountInv
    <2>2. Live' = Live
      BY <1>2 DEF SendCheck, Live
    <2>3. sender_count' > 0 /\ sender_count' \in Nat
      BY <1>2 DEF SendCheck, TypeOK
    <2>4. (\E t \in Senders : sender'[t] = "refused")
              => (\E t \in Senders : sender[t] = "refused") \/ receiver_count = 0
      BY <1>2 DEF SendCheck, TypeOK
    <2> QED
      BY <2>1, <2>2, <2>3, <2>4 DEF SenderInv
  <1>3. ASSUME NEW s \in Senders, NEW p \in Priority, SendPush(s, p)
        PROVE  SenderInv'
    <2>1. Live' \subseteq Live
      BY <1>3, NotifyEffect DEF SendPush, Live, TypeOK
    <2>2. \A t \in Senders : sender'[t] = sender[t] \/ sender'[t] = "idle"
      BY <1>3 DEF SendPush, TypeOK
    <2>3. sender_count' = sender_count
      BY <1>3 DEF SendPush
    <2> QED
      BY <2>1, <2>2, <2>3 DEF SenderInv
  <1>4. ASSUME DropSender
        PROVE  SenderInv'
    BY <1>4 DEF DropSender, SenderInv, Live
  <1>5. ASSUME NEW r \in Receivers, Pop(r)
        PROVE  SenderInv'
    BY <1>1, <1>5, PopEffect DEF Pop
  <1>6. ASSUME NEW r \in Receivers, Sleeps(r) \/ DropReceiver(r)
        PROVE  SenderInv'
    BY <1>1, <1>6 DEF Sleeps, RecvDisconnected, RecvWait, WaitAgain, SpuriousWake, DropReceiver
  <1>7. ASSUME NEW r \in Receivers, NEW new \in Receivers, CloneReceiver(r, new)
        PROVE  SenderInv'
    <2>1. r \in Live
      BY <1>7 DEF CloneReceiver, Live
    <2>2. UNCHANGED <<sender, sender_count>>
      BY <1>7 DEF CloneReceiver
    <2> QED
      BY <2>1, <2>2 DEF SenderInv
  <1>8. ASSUME UNCHANGED vars
        PROVE  SenderInv'
    BY <1>8 DEF vars, SenderInv, Live
  <1> QED
    BY <1>2, <1>3, <1>4, <1>5, <1>6, <1>7, <1>8 DEF Next, Recv, Sleeps

LEMMA DrainedStep ==
    ASSUME IInv, [Next]_vars
    PROVE  DisconnectedIsDrained'
  <1> USE DEF IInv
  <1>1. ASSUME NEW r \in Receivers, NEW label, label # "disconnected",
               receiver' = [receiver EXCEPT ![r] = label],
               UNCHANGED <<queues, sender_count, sender>>
        PROVE  DisconnectedIsDrained'
    BY <1>1 DEF DisconnectedIsDrained, IsEmpty, NonEmpty, TypeOK
  <1>2. ASSUME NEW s \in Senders, SendCheck(s)
        PROVE  DisconnectedIsDrained'
    BY <1>2 DEF SendCheck, DisconnectedIsDrained, TypeOK
  <1>3. ASSUME NEW s \in Senders, NEW p \in Priority, SendPush(s, p)
        PROVE  DisconnectedIsDrained'
    <2>1. \A r \in Receivers : receiver[r] # "disconnected"
      BY <1>3 DEF SendPush, DisconnectedIsDrained
    <2>2. \A r \in Receivers : receiver'[r] # "disconnected"
      BY <1>3, <2>1, NotifyEffect DEF SendPush, TypeOK
    <2> QED
      BY <2>2 DEF DisconnectedIsDrained
  <1>4. ASSUME DropSender
        PROVE  DisconnectedIsDrained'
    BY <1>4 DEF DropSender, DisconnectedIsDrained, TypeOK
  <1>5. ASSUME NEW r \in Receivers, Pop(r)
        PROVE  DisconnectedIsDrained'
    <2>1. \A q \in Receivers : receiver[q] # "disconnected"
      BY <1>5 DEF Pop, DisconnectedIsDrained
    <2>2. receiver' = [receiver EXCEPT ![r] = "idle"]
      BY <1>5, PopEffect
    <2> QED
      BY <2>1, <2>2 DEF DisconnectedIsDrained, TypeOK
  <1>6. ASSUME NEW r \in Receivers, RecvDisconnected(r)
        PROVE  DisconnectedIsDrained'
    BY <1>6 DEF RecvDisconnected, DisconnectedIsDrained, SenderInv, IsEmpty, NonEmpty
  <1>7. ASSUME NEW r \in Receivers,
               RecvWait(r) \/ WaitAgain(r) \/ SpuriousWake(r) \/ DropReceiver(r)
        PROVE  DisconnectedIsDrained'
    BY <1>1, <1>7 DEF RecvWait, WaitAgain, SpuriousWake, DropReceiver
  <1>8. ASSUME NEW r \in Receivers, NEW new \in Receivers, CloneReceiver(r, new)
        PROVE  DisconnectedIsDrained'
    BY <1>1, <1>8 DEF CloneReceiver
  <1>9. ASSUME UNCHANGED vars
        PROVE  DisconnectedIsDrained'
    BY <1>9 DEF vars, DisconnectedIsDrained, IsEmpty, NonEmpty
  <1> QED
    BY <1>2, <1>3, <1>4, <1>5, <1>6, <1>7, <1>8, <1>9 DEF Next, Recv

LEMMA WakeupStep ==
    ASSUME IInv, [Next]_vars
    PROVE  NoLostWakeup'
  <1> USE DEF IInv
  <1>0. /\ Queued \in Nat
        /\ IsEmpty <=> Queued = 0
        /\ Cardinality(Woken) \in Nat
        /\ Cardinality(Woken') \in Nat
    <2>1. Woken' \subseteq Receivers
      BY DEF Woken
    <2>2. Cardinality(Woken') \in Nat
      BY <2>1, FS_Subset, FS_CardinalityType, ConstantsAssumption
    <2> QED
      BY <2>2, QueuedType, ReceiverSets
  <1>1. ASSUME NEW s \in Senders, NEW p \in Priority, SendPush(s, p)
        PROVE  NoLostWakeup'
    <2>1. Queued' = Queued + 1
      <3>1. sent' \in 1..MaxItems
        BY <1>1, ConstantsAssumption DEF SendPush, TypeOK
      <3> QED
        BY <1>1, <3>1, PushQueued DEF SendPush
    <2>2. CASE Waiting = {} /\ receiver' = receiver
      BY <2>2 DEF NoLostWakeup, Waiting
    <2>3. CASE \E r \in Receivers : /\ receiver[r] = "waiting"
                                    /\ receiver' = [receiver EXCEPT ![r] = "woken"]
      <3>1. Waiting # {}
        BY <2>3 DEF Waiting
      <3>2. Cardinality(Woken') = Cardinality(Woken) + 1
        BY <2>3, ReceiverMoves
      <3> QED
        BY <1>0, <2>1, <3>1, <3>2 DEF NoLostWakeup
    <2> QED
      BY <1>1, <2>2, <2>3, NotifyEffect DEF SendPush
  <1>2. ASSUME NEW r \in Receivers, Pop(r)
        PROVE  NoLostWakeup'
    <2>1. PICK p \in NonEmpty :
              /\ queues' = [queues EXCEPT ![p] = Tail(@)]
              /\ receiver' = [receiver EXCEPT ![r] = "idle"]
      BY <1>2, PopEffect
    <2>2. Queued' = Queued - 1
      BY <2>1, PopQueued
    <2>3. \/ Cardinality(Woken') = Cardinality(Woken) - 1
          \/ Cardinality(Woken') = Cardinality(Woken)
      <3>1. "idle" # "woken"
        OBVIOUS
      <3> QED
        BY <2>1, <3>1, ReceiverMoves, Zenon
    <2>4. Waiting' = Waiting
      BY <1>2, <2>1 DEF Pop, Waiting, TypeOK
    <2> QED
      BY <1>0, <2>2, <2>3, <2>4 DEF NoLostWakeup
  <1>3. ASSUME NEW r \in Receivers, RecvDisconnected(r) \/ RecvWait(r) \/ WaitAgain(r)
        PROVE  NoLostWakeup'
    <2>1. IsEmpty /\ queues' = queues
      BY <1>3 DEF RecvDisconnected, RecvWait, WaitAgain
    <2>2. Queued' = 0
      BY <1>0, <2>1 DEF Queued
    <2> QED
      BY <1>0, <2>2 DEF NoLostWakeup
  <1>4. ASSUME NEW r \in Receivers, SpuriousWake(r)
        PROVE  NoLostWakeup'
    <2>1. Cardinality(Woken') = Cardinality(Woken) + 1
      BY <1>4, ReceiverMoves DEF SpuriousWake
    <2>2. Waiting # {} /\ Queued' = Queued
      BY <1>4 DEF SpuriousWake, Waiting, Queued
    <2> QED
      BY <1>0, <2>1, <2>2 DEF NoLostWakeup
  <1>5. ASSUME NEW r \in Receivers, NEW label, label \notin {"waiting", "woken"},
               receiver[r] \notin {"waiting", "woken"},
               receiver' = [receiver EXCEPT ![r] = label], queues' = queues
        PROVE  NoLostWakeup'
    <2>1. Woken' = Woken /\ Waiting' = Waiting /\ Queued' = Queued
      BY <1>5 DEF Woken, Waiting, Queued, TypeOK
    <2> QED
      BY <2>1 DEF NoLostWakeup
  <1>6. ASSUME NEW r \in Receivers, DropReceiver(r)
        PROVE  NoLostWakeup'
    BY <1>5, <1>6 DEF DropReceiver
  <1>7. ASSUME NEW r \in Receivers, NEW new \in Receivers, CloneReceiver(r, new)
        PROVE  NoLostWakeup'
    BY <1>5, <1>7 DEF CloneReceiver
  <1>8. ASSUME DropSender \/ (\E s \in Senders : SendCheck(s)) \/ UNCHANGED vars
        PROVE  NoLostWakeup'
    BY <1>8 DEF DropSender, SendCheck, vars, NoLostWakeup, Waiting, Woken, Queued
  <1> QED
    BY <1>1, <1>2, <1>3, <1>4, <1>6, <1>7, <1>8 DEF Next, Recv

LEMMA OrderStep ==
    ASSUME IInv, [Next]_vars
    PROVE  OrderInv'
  <1> USE DEF IInv
  <1>1. ASSUME NEW s \in Senders, NEW p \in Priority, SendPush(s, p)
        PROVE  OrderInv'
    <2>1. /\ sent' = sent + 1 /\ sent \in Nat
          /\ taken' = taken /\ taken \in [Priority -> 0..MaxItems]
      BY <1>1 DEF SendPush, TypeOK
    <2>2. /\ Len(queues'[p]) = Len(queues[p]) + 1
          /\ \A i \in 1..Len(queues[p]) : queues'[p][i] = queues[p][i]
          /\ queues'[p][Len(queues[p]) + 1] = sent + 1
      <3> DEFINE q == queues[p]
      <3>1. q \in Seq(1..MaxItems) /\ queues'[p] = Append(q, sent + 1)
        BY <1>1 DEF SendPush, TypeOK
      <3> HIDE DEF q
      <3>2. /\ Len(Append(q, sent + 1)) = Len(q) + 1
            /\ \A i \in 1..Len(q) : Append(q, sent + 1)[i] = q[i]
            /\ Append(q, sent + 1)[Len(q) + 1] = sent + 1
        BY <3>1
      <3> QED
        BY <3>1, <3>2 DEF q
    <2>3. \A q \in Priority \ {p} : queues'[q] = queues[q]
      BY <1>1 DEF SendPush, TypeOK
    <2>4. \A q \in Priority : /\ Len(queues[q]) \in Nat
                              /\ \A i \in 1..Len(queues[q]) : queues[q][i] \in Nat
      <3>1. ASSUME NEW f \in Seq(1..MaxItems), NEW i \in 1..Len(f)
            PROVE  f[i] \in Nat
        <4>1. f[i] \in 1..MaxItems
          BY SequenceElement
        <4> QED
          BY <4>1
      <3> QED
        BY <3>1, QueuedType
    <2>5. ASSUME NEW q \in Priority \ {p}
          PROVE  /\ taken'[q] <= sent'
                 /\ \A i \in 1..Len(queues'[q]) :
                        /\ queues'[q][i] <= sent' /\ taken'[q] < queues'[q][i]
                        /\ \A j \in 1..(i - 1) : queues'[q][j] < queues'[q][i]
      <3>1. \A i \in 1..Len(queues[q]) :
                /\ queues[q][i] <= sent /\ taken[q] < queues[q][i]
                /\ \A j \in 1..(i - 1) : queues[q][j] < queues[q][i]
        BY DEF OrderInv, InOrder
      <3>2. taken[q] \in Nat /\ taken[q] <= sent
        BY <2>1 DEF OrderInv
      <3>3. \A i \in 1..Len(queues[q]) : queues[q][i] <= sent + 1
        BY <2>1, <2>4, <3>1
      <3> QED
        BY <2>1, <2>3, <3>1, <3>2, <3>3
    <2>6. ASSUME NEW i \in 1..Len(queues'[p])
          PROVE  /\ queues'[p][i] <= sent' /\ taken'[p] < queues'[p][i]
                 /\ \A j \in 1..(i - 1) : queues'[p][j] < queues'[p][i]
      <3> DEFINE n == Len(queues[p])
      <3>1. n \in Nat /\ i \in 1..(n + 1)
        BY <2>2, <2>4
      <3>2. \A k \in 1..n : /\ queues'[p][k] = queues[p][k] /\ queues[p][k] \in Nat
                            /\ queues[p][k] <= sent /\ taken[p] < queues[p][k]
                            /\ \A j \in 1..(k - 1) : queues[p][j] < queues[p][k]
        BY <2>2, <2>4 DEF OrderInv, InOrder
      <3>3. taken[p] <= sent /\ taken[p] \in Nat
        BY <2>1 DEF OrderInv
      <3>4. queues'[p][n + 1] = sent + 1
        BY <2>2
      <3> HIDE DEF n
      <3>5. CASE i \in 1..n
        BY <3>1, <3>2, <3>5, <2>1
      <3>6. CASE i = n + 1
        <4>1. queues'[p][i] = sent' /\ taken'[p] < queues'[p][i]
          BY <3>3, <3>4, <3>6, <2>1
        <4>2. ASSUME NEW j \in 1..(i - 1)
              PROVE  queues'[p][j] < queues'[p][i]
          <5>1. j \in 1..n
            BY <3>1, <3>6
          <5>2. queues'[p][j] \in Nat /\ queues'[p][j] <= sent
            BY <3>2, <5>1
          <5> QED
            BY <4>1, <5>2, <2>1
        <4> QED
          BY <4>1, <4>2, <2>1
      <3> QED
        BY <3>1, <3>5, <3>6
    <2>7. taken'[p] <= sent'
      BY <2>1 DEF OrderInv
    <2> QED
      BY <2>5, <2>6, <2>7 DEF OrderInv, InOrder
  <1>2. ASSUME NEW r \in Receivers, Pop(r)
        PROVE  OrderInv'
    <2>1. PICK p \in NonEmpty :
              /\ queues' = [queues EXCEPT ![p] = Tail(@)]
              /\ taken' = [taken EXCEPT ![p] = Head(queues[p])]
      BY <1>2, PopEffect
    <2>2. p \in Priority /\ queues[p] \in Seq(1..MaxItems) /\ queues[p] # <<>>
      BY DEF NonEmpty, TypeOK
    <2>3. /\ queues'[p] = Tail(queues[p]) /\ taken'[p] = queues[p][1]
          /\ \A q \in Priority \ {p} : queues'[q] = queues[q] /\ taken'[q] = taken[q]
      BY <2>1, <2>2, NonEmptySequence DEF TypeOK
    <2>4. /\ Len(queues[p]) \in Nat /\ Len(queues[p]) > 0
          /\ Len(queues'[p]) = Len(queues[p]) - 1
          /\ \A i \in 1..Len(queues'[p]) : queues'[p][i] = queues[p][i + 1]
      BY <2>2, <2>3, NonEmptySequence
    <2>5. sent' = sent
      BY <1>2 DEF Pop
    <2>6. ASSUME NEW i \in 1..Len(queues'[p])
          PROVE  /\ queues'[p][i] <= sent' /\ taken'[p] < queues'[p][i]
                 /\ \A j \in 1..(i - 1) : queues'[p][j] < queues'[p][i]
      <3> DEFINE n == Len(queues[p])
      <3>1. n \in Nat /\ i + 1 \in 1..n /\ 1 \in 1..i /\ i \in Nat
            /\ \A j \in 1..(i - 1) : j \in 1..Len(queues'[p]) /\ j + 1 \in 1..i
        BY <2>4
      <3>2. \A k \in 1..n : /\ queues[p][k] <= sent
                            /\ \A j \in 1..(k - 1) : queues[p][j] < queues[p][k]
        BY <2>2 DEF OrderInv, InOrder
      <3>3. queues'[p][i] = queues[p][i + 1]
        BY <2>4
      <3>4. \A j \in 1..(i - 1) : queues'[p][j] = queues[p][j + 1]
        BY <2>4, <3>1
      <3>5. \A j \in 1..i : queues[p][j] < queues[p][i + 1]
        BY <3>1, <3>2
      <3> QED
        BY <2>3, <2>5, <3>1, <3>2, <3>3, <3>4, <3>5
    <2>7. taken'[p] <= sent'
      BY <2>2, <2>3, <2>4, <2>5 DEF OrderInv
    <2>8. ASSUME NEW q \in Priority \ {p}
          PROVE  /\ taken'[q] <= sent'
                 /\ \A i \in 1..Len(queues'[q]) :
                        /\ queues'[q][i] <= sent' /\ taken'[q] < queues'[q][i]
                        /\ \A j \in 1..(i - 1) : queues'[q][j] < queues'[q][i]
      BY <2>3, <2>5 DEF OrderInv, InOrder
    <2> QED
      BY <2>6, <2>7, <2>8 DEF OrderInv, InOrder
  <1>3. ASSUME UNCHANGED <<queues, sent, taken>>
        PROVE  OrderInv'
    BY <1>3 DEF OrderInv, InOrder
  <1>4. ASSUME NEW r \in Receivers, Sleeps(r) \/ DropReceiver(r)
        PROVE  OrderInv'
    BY <1>3, <1>4 DEF Sleeps, RecvDisconnected, RecvWait, WaitAgain, SpuriousWake, DropReceiver
  <1>5. ASSUME NEW r \in Receivers, NEW new \in Receivers, CloneReceiver(r, new)
        PROVE  OrderInv'
    BY <1>3, <1>5 DEF CloneReceiver
  <1>6. ASSUME DropSender \/ (\E s \in Senders : SendCheck(s)) \/ UNCHANGED vars
        PROVE  OrderInv'
    BY <1>3, <1>6 DEF DropSender, SendCheck, vars
  <1> QED
    BY <1>1, <1>2, <1>4, <1>5, <1>6 DEF Next, Recv, Sleeps

-----------------------------------------------------------------------------
LEMMA InductiveInit == Init => IInv
  <1> SUFFICES ASSUME Init
               PROVE  IInv
    OBVIOUS
  <1>1. TypeOK
    BY TypeInit
  <1>2. PopNeverPanics /\ DisconnectedIsDrained
    BY DEF Init, PopNeverPanics, DisconnectedIsDrained
  <1>3. CountInv /\ SenderInv
    <2>1. Live = {First}
      BY ConstantsAssumption DEF Init, Live
    <2>2. Cardinality({First}) = 1
      BY FS_Singleton
    <2>3. CountInv
      BY <2>1, <2>2 DEF Init, CountInv
    <2>4. SenderInv
      BY DEF Init, SenderInv
    <2> QED
      BY <2>3, <2>4
  <1>4. NoLostWakeup
    BY DEF Init, NoLostWakeup, Waiting
  <1>5. OrderInv
    <2>1. sent = 0 /\ \A p \in Priority : taken[p] = 0 /\ Len(queues[p]) = 0
      BY DEF Init
    <2> QED
      BY <2>1 DEF OrderInv, InOrder
  <1> QED
    BY <1>1, <1>2, <1>3, <1>4, <1>5 DEF IInv

LEMMA InductiveStep == IInv /\ [Next]_vars => IInv'
  BY TypeStep, PanicStep, CountStep, SenderStep, DrainedStep, WakeupStep, OrderStep DEF IInv

LEMMA Inductive == Spec => []IInv
  BY InductiveInit, InductiveStep, PTL DEF Spec

\* Type correctness of the queue for any threads, receivers and items.
THEOREM TypeCorrect == Spec => []TypeOK
  <1>1. IInv => TypeOK
    BY DEF IInv
  <1> QED
    BY <1>1, Inductive, PTL

\* One notify_one per push never leaves an item behind a sleeping receiver.
THEOREM WakeupsSuffice == Spec => []NoLostWakeup
  <1>1. IInv => NoLostWakeup
    BY DEF IInv
  <1> QED
    BY <1>1, Inductive, PTL

\* pop's unwrap never meets an empty result.
THEOREM PopsDeliver == Spec => []PopNeverPanics
  <1>1. IInv => PopNeverPanics
    BY DEF IInv
  <1> QED
    BY <1>1, Inductive, PTL

\* Every deque is first in, first out across all its receivers.
THEOREM DequesKeepOrder == Spec => []InOrder
  <1>1. IInv => InOrder
    BY DEF IInv, OrderInv
  <1> QED
    BY <1>1, Inductive, PTL

\* A RecvError is given only when nothing is left and nothing can come.
THEOREM DisconnectsAreDrained == Spec => []DisconnectedIsDrained
  <1>1. IInv => DisconnectedIsDrained
    BY DEF IInv
  <1> QED
    BY <1>1, Inductive, PTL

\* A SendError is given only when no receiver is left or can come back.
THEOREM RefusalsAreFinal == Spec => []RefusedIsFinal
  <1>1. IInv => RefusedIsFinal
    BY DEF IInv, SenderInv, RefusedIsFinal
  <1> QED
    BY <1>1, Inductive, PTL

\* The three facts about what send and pop answer, together.
THEOREM AnswersStand == Spec => []AnswersAreFinal
  <1>1. PopNeverPanics /\ DisconnectedIsDrained /\ RefusedIsFinal => AnswersAreFinal
    BY DEF AnswersAreFinal
  <1> QED
    BY <1>1, PopsDeliver, DisconnectsAreDrained, RefusalsAreFinal, PTL
=============================================================================
