---------------------------- MODULE PriorityQueue ----------------------------
(***************************************************************************)
(* The multi-receiver priority queue that feeds background workers and the *)
(* main thread (gpui/src/queue.rs).  Its three deques share one mutex and  *)
(* one condvar; the sender and receiver counts are atomics outside that    *)
(* mutex.                                                                  *)
(*                                                                         *)
(* A section under the mutex is one step.  A send reads receiver_count     *)
(* before it locks, so it is two steps.  A blocked pop releases the mutex  *)
(* while it waits, so it is a wait, a wake and a second look.  The counts  *)
(* are read relaxed; a stale read is the same read taken earlier.          *)
(***************************************************************************)
EXTENDS Naturals, Sequences, FiniteSets

CONSTANTS
    Senders,      \* threads that send through the one PriorityQueueSender
    Receivers,    \* receiver handles, each used by one thread
    First,        \* the receiver PriorityQueueReceiver::new returns
    MaxItems      \* bound on the items ever sent

ASSUME ConstantsAssumption ==
    /\ IsFiniteSet(Receivers)
    /\ First \in Receivers
    /\ MaxItems \in Nat

VARIABLES
    queues,           \* PriorityQueues: items, numbered in the order of the pushes
    sender_count,     \* AtomicUsize
    receiver_count,   \* AtomicUsize
    sender,           \* where each sending thread is
    receiver,         \* where each receiver is
    sent,             \* number of pushes so far
    taken             \* last item handed out of each deque, 0 before the first

vars == <<queues, sender_count, receiver_count, sender, receiver, sent, taken>>

-----------------------------------------------------------------------------
(* The loaded die *)

\* RealtimeAudio is never queued.
Priority == {"High", "Medium", "Low"}

weight(p) == CASE p = "High" -> 60 [] p = "Medium" -> 30 [] p = "Low" -> 10

\* The deques are tried in this order.
Before(q, p) == <<q, p>> \in {<<"High", "Medium">>, <<"High", "Low">>, <<"Medium", "Low">>}

Mass(S) ==
    (IF "High" \in S THEN weight("High") ELSE 0)
    + (IF "Medium" \in S THEN weight("Medium") ELSE 0)
    + (IF "Low" \in S THEN weight("Low") ELSE 0)

\* The mass left when deque p is tried, of the non-empty deques S.
MassLeft(S, p) == Mass(S) - Mass({q \in S : Before(q, p)})

\* random_ratio(weight, mass) can be true for every weight above zero, and can be
\* false only below the mass.
Misses(S, p) == weight(p) < MassLeft(S, p)

\* What pop_inner can return for non-empty deques S: the deque it pops, or
\* "none" if every coin can miss.
Faces(S) ==
    {p \in S : \A q \in S : Before(q, p) => Misses(S, q)}
    \cup {f \in {"none"} : \A q \in S : Misses(S, q)}

NonEmpty == {p \in Priority : queues[p] # <<>>}

\* PriorityQueues::is_empty
IsEmpty == NonEmpty = {}

-----------------------------------------------------------------------------
Waiting == {r \in Receivers : receiver[r] = "waiting"}
Woken   == {r \in Receivers : receiver[r] = "woken"}
Live    == {r \in Receivers : receiver[r] \notin {"unborn", "dropped"}}

Init ==
    /\ queues = [p \in Priority |-> <<>>]
    /\ sender_count = 1
    /\ receiver_count = 1
    /\ sender = [s \in Senders |-> "idle"]
    /\ receiver = [r \in Receivers |-> IF r = First THEN "idle" ELSE "unborn"]
    /\ sent = 0
    /\ taken = [p \in Priority |-> 0]

-----------------------------------------------------------------------------
(* Sending *)

\* send and spin_send read receiver_count before they lock: the item is refused
\* for good, or the thread goes on with the answer it got.
SendCheck(s) ==
    /\ sender[s] = "idle"
    /\ sender_count > 0
    /\ sent < MaxItems
    /\ sender' = [sender EXCEPT ![s] = IF receiver_count = 0 THEN "refused" ELSE "checked"]
    /\ UNCHANGED <<queues, sender_count, receiver_count, receiver, sent, taken>>

\* Condvar::notify_one: one of the waiting threads, if there is any.
NotifyOne ==
    IF Waiting = {}
    THEN UNCHANGED receiver
    ELSE \E r \in Waiting : receiver' = [receiver EXCEPT ![r] = "woken"]

\* Mutant: a send notifies only if the deques were empty.
SendPushNotifyingFirst(s, p) ==
    /\ sender[s] = "checked"
    /\ sent < MaxItems
    /\ sent' = sent + 1
    /\ queues' = [queues EXCEPT ![p] = Append(@, sent')]
    /\ IF IsEmpty THEN NotifyOne ELSE UNCHANGED receiver
    /\ sender' = [sender EXCEPT ![s] = "idle"]
    /\ UNCHANGED <<sender_count, receiver_count, taken>>

\* Mutant: the item goes to the front of its deque.
SendPushFront(s, p) ==
    /\ sender[s] = "checked"
    /\ sent < MaxItems
    /\ sent' = sent + 1
    /\ queues' = [queues EXCEPT ![p] = <<sent'>> \o @]
    /\ NotifyOne
    /\ sender' = [sender EXCEPT ![s] = "idle"]
    /\ UNCHANGED <<sender_count, receiver_count, taken>>

\* Under the mutex: push and notify.
SendPush(s, p) ==
    /\ sender[s] = "checked"
    /\ sent < MaxItems
    /\ sent' = sent + 1
    /\ queues' = [queues EXCEPT ![p] = Append(@, sent')]
    /\ NotifyOne
    /\ sender' = [sender EXCEPT ![s] = "idle"]
    /\ UNCHANGED <<sender_count, receiver_count, taken>>

\* The handle is dropped once no thread borrows it any more.  Nobody is notified.
DropSender ==
    /\ sender_count > 0
    /\ \A s \in Senders : sender[s] # "checked"
    /\ sender_count' = sender_count - 1
    /\ UNCHANGED <<queues, receiver_count, sender, receiver, sent, taken>>

-----------------------------------------------------------------------------
(* Receiving *)

CloneReceiver(r, new) ==
    /\ receiver[r] = "idle"
    /\ receiver[new] = "unborn"
    /\ receiver_count' = receiver_count + 1
    /\ receiver' = [receiver EXCEPT ![new] = "idle"]
    /\ UNCHANGED <<queues, sender_count, sender, sent, taken>>

\* pop_inner with the mutex held and something queued: from pop and try_pop at
\* once, or from a pop that was woken.  pop unwraps the item: "none" panics.
Pop(r) ==
    /\ receiver[r] \in {"idle", "woken"}
    /\ ~IsEmpty
    /\ \E face \in Faces(NonEmpty) :
           IF face = "none"
           THEN /\ receiver' = [receiver EXCEPT ![r] = "panicked"]
                /\ UNCHANGED <<queues, taken>>
           ELSE /\ queues' = [queues EXCEPT ![face] = Tail(@)]
                /\ taken' = [taken EXCEPT ![face] = Head(queues[face])]
                /\ receiver' = [receiver EXCEPT ![r] = "idle"]
    /\ UNCHANGED <<sender_count, receiver_count, sender, sent>>

\* Mutant: the queue is disconnected as soon as the sender is gone.
RecvDisconnectedEarly(r) ==
    /\ receiver[r] = "idle"
    /\ sender_count = 0
    /\ receiver' = [receiver EXCEPT ![r] = "disconnected"]
    /\ UNCHANGED <<queues, sender_count, receiver_count, sender, sent, taken>>

\* recv, try_recv and spin_try_recv fail when the queue is drained and the sender
\* gone.  A caller that goes on calling sees the same answer.
RecvDisconnected(r) ==
    /\ receiver[r] = "idle"
    /\ IsEmpty
    /\ sender_count = 0
    /\ receiver' = [receiver EXCEPT ![r] = "disconnected"]
    /\ UNCHANGED <<queues, sender_count, receiver_count, sender, sent, taken>>

\* Mutant: recv waits without looking at the deques again.
RecvWaitUnchecked(r) ==
    /\ receiver[r] = "idle"
    /\ sender_count > 0
    /\ receiver' = [receiver EXCEPT ![r] = "waiting"]
    /\ UNCHANGED <<queues, sender_count, receiver_count, sender, sent, taken>>

\* recv finds nothing: the mutex is released and the wait begun in one step.
RecvWait(r) ==
    /\ receiver[r] = "idle"
    /\ IsEmpty
    /\ sender_count > 0
    /\ receiver' = [receiver EXCEPT ![r] = "waiting"]
    /\ UNCHANGED <<queues, sender_count, receiver_count, sender, sent, taken>>

\* A woken recv finds the item gone to somebody else.  It does not look at
\* sender_count again.
WaitAgain(r) ==
    /\ receiver[r] = "woken"
    /\ IsEmpty
    /\ receiver' = [receiver EXCEPT ![r] = "waiting"]
    /\ UNCHANGED <<queues, sender_count, receiver_count, sender, sent, taken>>

\* std's Condvar may wake a thread that nobody notified.
SpuriousWake(r) ==
    /\ receiver[r] = "waiting"
    /\ receiver' = [receiver EXCEPT ![r] = "woken"]
    /\ UNCHANGED <<queues, sender_count, receiver_count, sender, sent, taken>>

\* Only a receiver nobody is popping from can be dropped.
DropReceiver(r) ==
    /\ receiver[r] \in {"idle", "disconnected"}
    /\ receiver_count' = receiver_count - 1
    /\ receiver' = [receiver EXCEPT ![r] = "dropped"]
    /\ UNCHANGED <<queues, sender_count, sender, sent, taken>>

-----------------------------------------------------------------------------
Recv(r) == Pop(r) \/ RecvDisconnected(r) \/ RecvWait(r) \/ WaitAgain(r)

Next ==
    \/ DropSender
    \/ \E s \in Senders : SendCheck(s) \/ \E p \in Priority : SendPush(s, p)
    \/ \E r \in Receivers :
        \/ Recv(r)
        \/ SpuriousWake(r)
        \/ DropReceiver(r)
        \/ \E new \in Receivers : CloneReceiver(r, new)

Spec == Init /\ [][Next]_vars

\* A send under way ends.  A receiver is popped from in a loop until it is
\* disconnected (the workers of both dispatchers), and a runnable thread runs.
\* Nothing obliges the condvar to wake a thread spuriously.
Fairness ==
    /\ \A s \in Senders : WF_vars(\E p \in Priority : SendPush(s, p))
    /\ \A r \in Receivers : WF_vars(Recv(r))

FairSpec == Spec /\ Fairness

-----------------------------------------------------------------------------
(* Properties *)

TypeOK ==
    /\ queues \in [Priority -> Seq(1..MaxItems)]
    /\ sender_count \in 0..1
    /\ receiver_count \in Nat
    /\ sender \in [Senders -> {"idle", "checked", "refused"}]
    /\ receiver \in [Receivers -> {"unborn", "idle", "waiting", "woken",
                                   "disconnected", "panicked", "dropped"}]
    /\ sent \in 0..MaxItems
    /\ taken \in [Priority -> 0..MaxItems]

\* PriorityQueueReceiver::len
Queued == Len(queues["High"]) + Len(queues["Medium"]) + Len(queues["Low"])

\* While any receiver sleeps in recv, every queued item has a woken receiver of
\* its own on the way to it: notify_one per push is enough, although another
\* receiver may take the item first and the woken one then sleeps again.
NoLostWakeup == Waiting # {} => Queued <= Cardinality(Woken)

\* The coins of pop_inner cannot all miss while something is queued, so the
\* unwrap in pop never panics.
PopNeverPanics == \A r \in Receivers : receiver[r] # "panicked"

\* Each deque hands its items out in the order in which they were pushed, each
\* once, whichever receivers take them.
InOrder ==
    \A p \in Priority : \A i \in 1..Len(queues[p]) :
        /\ taken[p] < queues[p][i]
        /\ \A j \in 1..(i - 1) : queues[p][j] < queues[p][i]

\* RecvError is final: once one receiver has been told that the queue is
\* disconnected there is nothing left for any other, and nothing will come.
DisconnectedIsDrained ==
    (\E r \in Receivers : receiver[r] = "disconnected")
        => IsEmpty /\ sender_count = 0 /\ \A s \in Senders : sender[s] # "checked"

\* SendError is final: a send is refused only when every receiver is gone, and
\* no clone can bring one back.
RefusedIsFinal ==
    (\E s \in Senders : sender[s] = "refused") => Live = {}

\* No answer is taken back: an item is there when the die is cast for it, and
\* neither error is contradicted by what other threads do later.
AnswersAreFinal == PopNeverPanics /\ DisconnectedIsDrained /\ RefusedIsFinal

\* A queued item is taken by some receiver unless they all go away.
QueuedIsTaken ==
    \A n \in 1..MaxItems :
        (\E p \in Priority, i \in 1..MaxItems : i <= Len(queues[p]) /\ queues[p][i] = n)
            ~> (\/ \E p \in Priority : taken[p] = n
                \/ receiver_count = 0)

\* What the documentation of pop promises: it returns an error if the sender was
\* dropped.  So a blocked pop ends once the sender is gone.
PopReturnsAfterSenderDrop ==
    \A r \in Receivers :
        sender_count = 0 /\ receiver[r] \in {"waiting", "woken"}
            ~> receiver[r] \notin {"waiting", "woken"}
=============================================================================
