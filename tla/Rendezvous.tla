----------------------------- MODULE Rendezvous -----------------------------
(***************************************************************************)
(* spawn_dedicated_thread (scheduler/src/scheduler.rs) and the rendezvous  *)
(* by which its task reaches the caller (scheduler/src/executor.rs). The   *)
(* caller has a handle at once and may await, drop or detach it while the  *)
(* thread starts, spawns the root task, delivers the root's own handle and *)
(* runs what arrives in its channel.                                       *)
(*                                                                         *)
(* Each step is what a thread does under the lock of the rendezvous, or    *)
(* between two such. The root spawns at most one task of its own, which is *)
(* detached. What wakes a task that waits is outside.                      *)
(***************************************************************************)
EXTENDS Naturals, Sequences

CONSTANT MaxPolls   \* bound on how often the root waits before it finishes

VARIABLES
    shared,     \* RendezvousState
    waker,      \* the waker in Pending
    caller,     \* what the caller does with its handle
    waiting,    \* the caller was answered Pending and has not been woken
    pc,         \* where the dedicated thread is
    executor,   \* whether the thread still holds its executor
    queue,      \* the channel of runnables
    root,       \* the root task (async-task): st, closed, and who has its handle
    child,      \* the task that the root may spawn
    unreachable \* whether a match reached unreachable!

vars == <<shared, waker, caller, waiting, pc, executor, queue, root, child, unreachable>>

Init ==
    /\ shared = "Pending" /\ waker = FALSE
    /\ caller = "receiver" /\ waiting = FALSE
    /\ pc = "start" /\ executor = TRUE /\ queue = <<>>
    /\ root = [st |-> "none", closed |-> FALSE, handle |-> "none", woken |-> FALSE, polls |-> 0]
    /\ child = "none"
    /\ unreachable = FALSE

Dead(st) == st \in {"done", "cancelled"}

\* async_task::Task::cancel: a task that waits is scheduled once more, to drop its future.
Cancel ==
    /\ root' = [root EXCEPT !.closed = ~Dead(root.st), !.handle = "gone",
                            !.st = IF @ = "idle" THEN "queued" ELSE @]
    /\ queue' = IF root.st = "idle" THEN Append(queue, "root") ELSE queue

Detach == root' = [root EXCEPT !.handle = "gone"] /\ UNCHANGED queue

-----------------------------------------------------------------------------
(* The dedicated thread.                                                   *)

SpawnRoot ==
    /\ pc = "start"
    /\ root' = [root EXCEPT !.st = "queued", !.handle = "thread"]
    /\ queue' = Append(queue, "root")
    /\ pc' = "deliver"
    /\ UNCHANGED <<shared, waker, caller, waiting, executor, child, unreachable>>

\* RendezvousSender::deliver, as far as it holds the lock.
Deliver ==
    /\ pc = "deliver"
    /\ \/ /\ shared = "Pending"
          /\ shared' = "Delivered" /\ root' = [root EXCEPT !.handle = "shared"]
          /\ pc' = IF waker THEN "wake" ELSE "delivered"
          /\ UNCHANGED unreachable
       \/ /\ shared = "Cancelled"
          /\ pc' = "cancel"
          /\ UNCHANGED <<shared, root, unreachable>>
       \/ /\ shared = "Detached"
          /\ pc' = "detach"
          /\ UNCHANGED <<shared, root, unreachable>>
       \/ /\ shared \in {"Delivered", "Taken"}
          /\ unreachable' = TRUE
          /\ UNCHANGED <<shared, root, pc>>
    /\ waker' = FALSE
    /\ UNCHANGED <<caller, waiting, executor, queue, child>>

\* The rest of deliver, after the lock.
Delivered ==
    /\ \/ /\ pc = "wake"
          /\ waiting' = FALSE
          /\ UNCHANGED <<root, queue>>
       \/ pc = "cancel" /\ Cancel /\ UNCHANGED waiting
       \/ pc = "detach" /\ Detach /\ UNCHANGED waiting
    /\ pc' = "delivered"
    /\ UNCHANGED <<shared, waker, caller, executor, child, unreachable>>

DropExecutor ==
    /\ pc = "delivered"
    /\ executor' = FALSE
    /\ pc' = "recv"
    /\ UNCHANGED <<shared, waker, caller, waiting, queue, root, child, unreachable>>

\* Runnable::run of the root: a closed task drops its future.
RunRoot ==
    /\ pc = "recv" /\ queue # <<>> /\ Head(queue) = "root"
    /\ queue' = Tail(queue)
    /\ root' = IF root.closed THEN [root EXCEPT !.st = "cancelled"]
               ELSE [root EXCEPT !.st = "running", !.woken = FALSE, !.polls = @ + 1]
    /\ pc' = IF root.closed THEN "recv" ELSE "root"
    /\ UNCHANGED <<shared, waker, caller, waiting, executor, child, unreachable>>

RunChild(then) ==
    /\ pc = "recv" /\ queue # <<>> /\ Head(queue) = "child"
    /\ queue' = Tail(queue)
    /\ child' = then
    /\ UNCHANGED <<shared, waker, caller, waiting, pc, executor, root, unreachable>>

RootSpawns ==
    /\ pc = "root" /\ child = "none"
    /\ child' = "queued"
    /\ queue' = Append(queue, "child")
    /\ UNCHANGED <<shared, waker, caller, waiting, pc, executor, root, unreachable>>

\* The root returns Pending. One that was closed meanwhile drops its future.
RootWaits ==
    /\ pc = "root" /\ root.polls <= MaxPolls
    /\ root' = [root EXCEPT !.st = IF root.closed THEN "cancelled"
                                   ELSE IF root.woken THEN "queued" ELSE "idle"]
    /\ queue' = IF root.woken /\ ~root.closed THEN Append(queue, "root") ELSE queue
    /\ pc' = "recv"
    /\ UNCHANGED <<shared, waker, caller, waiting, executor, child, unreachable>>

\* The root finishes, which wakes a caller that awaits it.
RootFinishes ==
    /\ pc = "root"
    /\ root' = [root EXCEPT !.st = IF root.closed THEN "cancelled" ELSE "done"]
    /\ waiting' = (waiting /\ caller # "task")
    /\ pc' = "recv"
    /\ UNCHANGED <<shared, waker, caller, executor, queue, child, unreachable>>

\* recv fails once the last sender is gone: the executor's, and those of tasks that live or whose
\* handle is held.
Senders == executor \/ child \in {"queued", "idle"} \/ ~Dead(root.st) \/ root.handle # "gone"

Exit ==
    /\ pc = "recv" /\ queue = <<>> /\ ~Senders
    /\ pc' = "exited"
    /\ UNCHANGED <<shared, waker, caller, waiting, executor, queue, root, child, unreachable>>

\* Something outside wakes a task.
WakeRoot ==
    /\ \/ /\ root.st = "idle"
          /\ root' = [root EXCEPT !.st = "queued"]
          /\ queue' = Append(queue, "root")
       \/ /\ root.st = "running" /\ ~root.woken
          /\ root' = [root EXCEPT !.woken = TRUE]
          /\ UNCHANGED queue
    /\ UNCHANGED <<shared, waker, caller, waiting, pc, executor, child, unreachable>>

WakeChild ==
    /\ child = "idle"
    /\ child' = "queued"
    /\ queue' = Append(queue, "child")
    /\ UNCHANGED <<shared, waker, caller, waiting, pc, executor, root, unreachable>>

-----------------------------------------------------------------------------
(* The caller.                                                             *)

\* RendezvousReceiver::poll_take
PollPending ==
    /\ caller = "receiver" /\ ~waiting /\ shared = "Pending"
    /\ waker' = TRUE
    /\ waiting' = TRUE
    /\ UNCHANGED <<shared, caller, root, pc, executor, queue, child, unreachable>>

PollTakes ==
    /\ caller = "receiver" /\ ~waiting /\ shared # "Pending"
    /\ unreachable' = (shared # "Delivered")
    /\ shared' = "Taken"
    /\ root' = [root EXCEPT !.handle = "caller"]
    /\ caller' = "task"
    /\ UNCHANGED <<waker, waiting, pc, executor, queue, child>>

\* Task::poll of the root's own handle.
PollTask ==
    /\ caller = "task" /\ ~waiting
    /\ \/ /\ root.st = "done"
          /\ caller' = "output"
          /\ root' = [root EXCEPT !.handle = "gone"]
          /\ UNCHANGED waiting
       \/ /\ root.st # "done"
          /\ waiting' = TRUE
          /\ UNCHANGED <<caller, root>>
    /\ UNCHANGED <<shared, waker, pc, executor, queue, child, unreachable>>

\* The drop of the receiver, which also follows a take or a detach.
DropPending ==
    /\ caller = "receiver" /\ shared = "Pending"
    /\ shared' = "Cancelled" /\ waker' = FALSE
    /\ caller' = "dropped" /\ waiting' = FALSE
    /\ UNCHANGED <<root, pc, executor, queue, child, unreachable>>

DropDelivered ==
    /\ caller = "receiver" /\ shared = "Delivered"
    /\ shared' = "Cancelled" /\ root' = [root EXCEPT !.handle = "caller"]
    /\ caller' = "dropping" /\ waiting' = FALSE
    /\ UNCHANGED <<waker, pc, executor, queue, child, unreachable>>

\* The delivered handle is dropped after the lock; so is one that was taken before.
DropTask ==
    /\ \/ caller = "dropping"
       \/ caller = "task"
    /\ Cancel
    /\ caller' = "dropped" /\ waiting' = FALSE
    /\ UNCHANGED <<shared, waker, pc, executor, child, unreachable>>

\* RendezvousReceiver::detach
DetachPending ==
    /\ caller = "receiver" /\ shared = "Pending"
    /\ shared' = "Detached" /\ waker' = FALSE
    /\ caller' = "detaching" /\ waiting' = FALSE
    /\ UNCHANGED <<root, pc, executor, queue, child, unreachable>>

DetachDelivered ==
    /\ caller = "receiver" /\ shared = "Delivered"
    /\ shared' = "Taken"
    /\ Detach
    /\ caller' = "detaching" /\ waiting' = FALSE
    /\ UNCHANGED <<waker, pc, executor, child, unreachable>>

\* The drop that follows leaves Taken, Detached and Cancelled alone.
DropAfterDetach ==
    /\ caller = "detaching"
    /\ caller' = "detached"
    /\ UNCHANGED <<shared, waker, waiting, root, pc, executor, queue, child, unreachable>>

Caller ==
    \/ PollPending \/ PollTakes \/ PollTask
    \/ DropPending \/ DropDelivered \/ DropTask
    \/ DetachPending \/ DetachDelivered \/ DropAfterDetach

Thread ==
    \/ SpawnRoot \/ Deliver \/ Delivered \/ DropExecutor
    \/ RunRoot \/ \E then \in {"idle", "done"} : RunChild(then)
    \/ RootSpawns \/ RootWaits \/ RootFinishes
    \/ Exit

\* The thread waits in recv, or is gone.
Quiet == pc \in {"recv", "exited"} /\ queue = <<>> /\ UNCHANGED vars

Next == Caller \/ Thread \/ WakeRoot \/ WakeChild \/ Quiet

Spec == Init /\ [][Next]_vars

-----------------------------------------------------------------------------
(* Properties.                                                             *)

TypeOK ==
    /\ shared \in {"Pending", "Delivered", "Cancelled", "Detached", "Taken"}
    /\ shared = "Delivered" <=> root.handle = "shared"
    /\ Len(queue) <= 2

\* No interleaving of the caller and the thread reaches an unreachable!, and the root's handle is
\* delivered once (poll_take, detach, deliver).
NeverUnreachable == ~unreachable

\* The root is cancelled only by a caller that dropped its task, never by one that detached or
\* awaits it (RendezvousReceiver::drop: "dispositions that this drop must not overwrite").
CancelledByDrop == root.closed => caller = "dropped"

\* The thread ends only when no task is left on it, detached ones included
\* (spawn_dedicated_thread: "detached children keep running until they finish").
ExitIsClean == pc = "exited" => Dead(root.st) /\ child \in {"none", "done"} /\ queue = <<>>

\* All three: nothing is lost between the caller and the dedicated thread.
HandoffIsSound == NeverUnreachable /\ CancelledByDrop /\ ExitIsClean

\* Dropping the task cancels the root, also when the root did not exist yet
\* (spawn_dedicated_thread: "dropping it cancels the root").
DropCancels == (caller = "dropped") ~> Dead(root.st)

\* A detached root runs to its end (Task::rendezvous: "Dropping or detaching the task before
\* delivery is honored on delivery").
DetachedRuns == (caller = "detached") ~> (root.st = "done")

\* A caller that awaits the task gets its output: no wake is lost between the rendezvous and the
\* root's own handle (poll_take, deliver, Task::poll).
AwaitResolves == waiting ~> (caller # "receiver" /\ ~waiting)

\* Once the caller has let go, the thread shuts down (spawn_dedicated_thread: "The thread shuts
\* down once the executor and every task on it are gone").
ThreadExits == (caller \in {"dropped", "detached", "output"}) ~> (pc = "exited")
=============================================================================
