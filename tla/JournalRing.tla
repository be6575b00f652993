---------------------------- MODULE JournalRing ----------------------------
(***************************************************************************)
(* The bounded ring between the foreground thread, which publishes journal *)
(* entries and never waits, and collectors on other threads                *)
(* (gpui/src/profiler/journal.rs: JournalSlot, JournalRing,                *)
(* JournalPublisher, ForegroundJournalCollector).                          *)
(*                                                                         *)
(* An entry is its sequence number; a slot that is being written holds     *)
(* Torn.  Every atomic operation on shared memory is a step.               *)
(***************************************************************************)
EXTENDS Integers, Sequences, FiniteSets

CONSTANTS
    Capacity,         \* slots
    PendingCapacity,  \* MAX_PENDING_JOURNAL_ENTRIES
    Collectors,
    MaxEntries        \* bound on the entries published

\* What the constants have to be; the runs check it.
ConstantsAssumption ==
    /\ Capacity \in Nat \ {0}
    /\ {PendingCapacity, MaxEntries} \subseteq Nat
    /\ IsFiniteSet(Collectors)

VARIABLES
    users,      \* JournalSlot::users: the number of readers, or SLOT_WRITER
    sequence,   \* JournalSlot::sequence
    entry,      \* JournalSlot::entry
    finalized,  \* JournalRing::finalized
    offered,    \* JournalRing::offered, and the publisher's next_sequence
    pending,    \* JournalPublisher::pending
    dropped,    \* JournalPublisher::dropped_after_pending
    todo,       \* entries left to the call of publish
    wpc,        \* where the publisher is
    writing,    \* the sequence it is writing to a slot
    cursor,     \* ForegroundJournalCollector::cursor
    end,        \* end of collect_unseen
    rpc,        \* where collect_unseen is
    start,      \* the cursor with which a collector was created
    copied,     \* the entry it copied last
    taken,      \* number of entries it has returned
    missed      \* the ones it has reported as lost

slots == <<users, sequence, entry>>
publisher == <<offered, pending, dropped, todo, wpc, writing>>
collectors == <<cursor, end, rpc, start, copied, taken, missed>>
vars == <<slots, finalized, publisher, collectors>>

WRITER == -1
EMPTY == -1
Torn == -2

Slots == 0..(Capacity - 1)
Slot(s) == s % Capacity

Init ==
    /\ users = [i \in Slots |-> 0]
    /\ sequence = [i \in Slots |-> EMPTY]
    /\ entry = [i \in Slots |-> Torn]
    /\ finalized = 0
    /\ offered = 0
    /\ pending = <<>>
    /\ dropped = 0
    /\ todo = 0
    /\ wpc = "idle"
    /\ writing = 0
    /\ cursor = [c \in Collectors |-> 0]
    /\ end = [c \in Collectors |-> 0]
    /\ rpc = [c \in Collectors |-> "none"]
    /\ start = [c \in Collectors |-> 0]
    /\ copied = [c \in Collectors |-> 0]
    /\ taken = [c \in Collectors |-> 0]
    /\ missed = [c \in Collectors |-> {}]

-----------------------------------------------------------------------------
(* JournalPublisher, on the foreground thread.                             *)

\* publish of an entry, or of folded polls and an entry.
Publish(n) ==
    /\ wpc = "idle"
    /\ offered + n <= MaxEntries
    /\ todo' = n
    /\ wpc' = "flush"
    /\ UNCHANGED <<slots, finalized, offered, pending, dropped, writing, collectors>>

AfterFlush == IF todo > 0 THEN "offer" ELSE "idle"

\* try_publish takes the slot, which no one uses, and starts to write.
Acquire(s, then) ==
    /\ users[Slot(s)] = 0
    /\ users' = [users EXCEPT ![Slot(s)] = WRITER]
    /\ entry' = [entry EXCEPT ![Slot(s)] = Torn]
    /\ writing' = s
    /\ wpc' = then

\* flush_pending: the first pending entry is tried.
FlushAcquire ==
    /\ wpc = "flush"
    /\ pending # <<>>
    /\ Acquire(Head(pending), "write")
    /\ UNCHANGED <<sequence, finalized, offered, pending, dropped, todo, collectors>>

FlushBlocked ==
    /\ wpc = "flush"
    /\ pending # <<>>
    /\ users[Slot(Head(pending))] # 0
    /\ wpc' = AfterFlush
    /\ UNCHANGED <<slots, finalized, offered, pending, dropped, todo, writing, collectors>>

FlushDone ==
    /\ wpc = "flush"
    /\ pending = <<>>
    /\ finalized' = IF dropped > 0 THEN offered ELSE finalized
    /\ dropped' = 0
    /\ wpc' = AfterFlush
    /\ UNCHANGED <<slots, offered, pending, todo, writing, collectors>>

\* publish_one until it tries the slot: behind other entries an entry is pending or dropped.
Offer ==
    /\ wpc = "offer"
    /\ todo' = todo - 1
    /\ offered' = offered + 1
    /\ IF pending = <<>> /\ dropped = 0
       THEN wpc' = "publish" /\ UNCHANGED <<pending, dropped>>
       ELSE /\ wpc' = "flush"
            /\ IF dropped = 0 /\ Len(pending) < PendingCapacity
               THEN pending' = Append(pending, offered) /\ UNCHANGED dropped
               ELSE dropped' = dropped + 1 /\ UNCHANGED pending
    /\ UNCHANGED <<slots, finalized, writing, collectors>>

PublishAcquire ==
    /\ wpc = "publish"
    /\ Acquire(offered - 1, "write")
    /\ UNCHANGED <<sequence, finalized, offered, pending, dropped, todo, collectors>>

PublishBlocked ==
    /\ wpc = "publish"
    /\ users[Slot(offered - 1)] # 0
    /\ wpc' = "flush"
    /\ IF PendingCapacity > 0
       THEN pending' = Append(pending, offered - 1) /\ UNCHANGED dropped
       ELSE dropped' = 1 /\ UNCHANGED pending
    /\ UNCHANGED <<slots, finalized, offered, todo, writing, collectors>>

\* The entry and then its sequence are stored.
Write ==
    /\ wpc = "write"
    /\ entry' = [entry EXCEPT ![Slot(writing)] = writing]
    /\ sequence' = [sequence EXCEPT ![Slot(writing)] = writing]
    /\ wpc' = "release"
    /\ UNCHANGED <<users, finalized, offered, pending, dropped, todo, writing, collectors>>

Release ==
    /\ wpc = "release"
    /\ users' = [users EXCEPT ![Slot(writing)] = 0]
    /\ wpc' = "finalize"
    /\ UNCHANGED <<sequence, entry, finalized, offered, pending, dropped, todo, writing, collectors>>

\* finalized is stored, and the entry leaves the pending ones if it was there.
Finalize ==
    /\ wpc = "finalize"
    /\ finalized' = writing + 1
    /\ pending' = IF pending = <<>> THEN pending ELSE Tail(pending)
    /\ wpc' = "flush"
    /\ UNCHANGED <<slots, offered, dropped, todo, writing, collectors>>

Publisher ==
    \/ FlushAcquire \/ FlushBlocked \/ FlushDone
    \/ Offer \/ PublishAcquire \/ PublishBlocked
    \/ Write \/ Release \/ Finalize

-----------------------------------------------------------------------------
(* ForegroundJournalCollector, on any thread.                              *)

\* ForegroundJournal::collector
Collector(c) ==
    /\ rpc[c] = "none"
    /\ cursor' = [cursor EXCEPT ![c] = offered]
    /\ start' = [start EXCEPT ![c] = offered]
    /\ rpc' = [rpc EXCEPT ![c] = "idle"]
    /\ UNCHANGED <<slots, finalized, publisher, end, copied, taken, missed>>

\* collect_unseen until its loop.
Collect(c) ==
    LET retained == IF finalized > Capacity THEN finalized - Capacity ELSE 0
    IN /\ rpc[c] = "idle"
       /\ cursor[c] < finalized
       /\ end' = [end EXCEPT ![c] = finalized]
       /\ missed' = [missed EXCEPT ![c] = @ \cup cursor[c]..(retained - 1)]
       /\ cursor' = [cursor EXCEPT ![c] = IF @ < retained THEN retained ELSE @]
       /\ rpc' = [rpc EXCEPT ![c] = "read"]
       /\ UNCHANGED <<slots, finalized, publisher, start, copied, taken>>

\* The entry at the cursor is unavailable.
Lose(c) ==
    /\ missed' = [missed EXCEPT ![c] = @ \cup {cursor[c]}]
    /\ cursor' = [cursor EXCEPT ![c] = @ + 1]
    /\ rpc' = [rpc EXCEPT ![c] = "read"]
    /\ UNCHANGED <<sequence, entry, finalized, publisher, end, start, copied, taken>>

Loses(c) ==
    /\ rpc[c] = "read"
    /\ cursor[c] < end[c]
    /\ users[Slot(cursor[c])] = WRITER
    /\ Lose(c)
    /\ UNCHANGED users

\* try_add_reader
AddReader(c) ==
    /\ rpc[c] = "read"
    /\ cursor[c] < end[c]
    /\ users[Slot(cursor[c])] # WRITER
    /\ users' = [users EXCEPT ![Slot(cursor[c])] = @ + 1]
    /\ rpc' = [rpc EXCEPT ![c] = "check"]
    /\ UNCHANGED <<sequence, entry, finalized, publisher, cursor, end, start, copied, taken, missed>>

\* try_read in a slot that holds another entry, or none.
Mismatch(c) ==
    /\ rpc[c] = "check"
    /\ sequence[Slot(cursor[c])] # cursor[c]
    /\ Lose(c)
    /\ users' = [users EXCEPT ![Slot(cursor[c])] = @ - 1]

\* Mutant: whatever the slot holds is taken for a match.
MatchAny(c) ==
    /\ rpc[c] = "check"
    /\ rpc' = [rpc EXCEPT ![c] = "copy"]
    /\ UNCHANGED <<slots, finalized, publisher, cursor, end, start, copied, taken, missed>>

Match(c) ==
    /\ rpc[c] = "check"
    /\ sequence[Slot(cursor[c])] = cursor[c]
    /\ rpc' = [rpc EXCEPT ![c] = "copy"]
    /\ UNCHANGED <<slots, finalized, publisher, cursor, end, start, copied, taken, missed>>

Copy(c) ==
    /\ rpc[c] = "copy"
    /\ copied' = [copied EXCEPT ![c] = entry[Slot(cursor[c])]]
    /\ rpc' = [rpc EXCEPT ![c] = "remove"]
    /\ UNCHANGED <<slots, finalized, publisher, cursor, end, start, taken, missed>>

\* remove_reader, in the guard's drop, and the entry is one more of those returned.
RemoveReader(c) ==
    /\ rpc[c] = "remove"
    /\ users' = [users EXCEPT ![Slot(cursor[c])] = @ - 1]
    /\ taken' = [taken EXCEPT ![c] = @ + 1]
    /\ cursor' = [cursor EXCEPT ![c] = @ + 1]
    /\ rpc' = [rpc EXCEPT ![c] = "read"]
    /\ UNCHANGED <<sequence, entry, finalized, publisher, end, start, copied, missed>>

Collected(c) ==
    /\ rpc[c] = "read"
    /\ cursor[c] >= end[c]
    /\ rpc' = [rpc EXCEPT ![c] = "idle"]
    /\ UNCHANGED <<slots, finalized, publisher, cursor, end, start, copied, taken, missed>>

Reads(c) ==
    Loses(c) \/ AddReader(c) \/ Mismatch(c) \/ Match(c) \/ Copy(c) \/ RemoveReader(c) \/ Collected(c)

\* Everything is published and collected.
Done ==
    /\ wpc = "idle"
    /\ offered = MaxEntries
    /\ UNCHANGED vars

Next ==
    \/ \E n \in 1..2 : Publish(n)
    \/ Publisher
    \/ \E c \in Collectors : Collector(c) \/ Collect(c) \/ Reads(c)
    \/ Done

Spec == Init /\ [][Next]_vars

-----------------------------------------------------------------------------
(* Properties.                                                             *)

Reading(c) == rpc[c] \in {"check", "copy", "remove"}
Readers(i) == {c \in Collectors : Reading(c) /\ Slot(cursor[c]) = i}

TypeOK ==
    /\ users \in [Slots -> Nat \cup {WRITER}]
    /\ sequence \in [Slots -> Nat \cup {EMPTY}]
    /\ entry \in [Slots -> Nat \cup {Torn}]
    /\ finalized \in Nat
    /\ offered \in Nat
    /\ pending \in Seq(Nat)
    /\ dropped \in Nat
    /\ todo \in 0..2
    /\ wpc \in {"idle", "flush", "offer", "publish", "write", "release", "finalize"}
    /\ writing \in Nat
    /\ cursor \in [Collectors -> Nat]
    /\ end \in [Collectors -> Nat]
    /\ rpc \in [Collectors -> {"none", "idle", "read", "check", "copy", "remove"}]
    /\ start \in [Collectors -> Nat]
    /\ copied \in [Collectors -> Nat \cup {Torn}]
    /\ taken \in [Collectors -> Nat]
    /\ missed \in [Collectors -> SUBSET Nat]

\* A slot is read only while nobody writes it and written only while nobody reads it, and its
\* users are counted (JournalSlot: "`users` ensures the entry is only read while no writer owns
\* the slot and is only written while no readers own it").
Exclusion ==
    \A i \in Slots :
        IF wpc \in {"write", "release"} /\ Slot(writing) = i
        THEN users[i] = WRITER /\ Readers(i) = {}
        ELSE users[i] = Cardinality(Readers(i))

\* What a collector copies is the entry at its cursor, whole, however far the publisher is
\* ahead and however it wraps (try_read).
CopiesItsEntry == \A c \in Collectors : rpc[c] = "remove" => copied[c] = cursor[c]

\* Each entry offered since the collector was created and before its cursor was returned, or
\* reported as lost, once (collect_unseen).
EachOnce ==
    \A c \in Collectors :
        /\ missed[c] \subseteq start[c]..(cursor[c] - 1)
        /\ taken[c] + Cardinality(missed[c]) = cursor[c] - start[c]

\* Entries that are not final are pending, in their order, and behind them dropped: nothing
\* becomes visible before what was recorded earlier (publish_one, flush_pending).
InOrder ==
    LET inSlot == IF wpc \in {"publish", "write", "release", "finalize"} /\ pending = <<>>
                  THEN 1 ELSE 0
    IN /\ \A i \in DOMAIN pending : pending[i] = finalized + i - 1
       /\ offered = finalized + Len(pending) + dropped + inSlot

\* Only an entry that a later one has displaced, or that found no place, is lost: a collector
\* that keeps up and that nobody delays loses nothing (collect_unseen).
LostIsOld ==
    \A c \in Collectors : \A s \in missed[c] :
        \/ s + Capacity < offered
        \/ s \notin {sequence[i] : i \in Slots}

\* A collector never holds up the foreground thread, not even one that is suspended while it
\* reads a slot (MAX_PENDING_JOURNAL_ENTRIES: "The foreground never waits for a reader").
PublishEnds == (wpc # "idle") ~> (wpc = "idle")

\* A collector's call ends, whatever is published meanwhile.
CollectEnds == \A c \in Collectors : (rpc[c] = "read") ~> (rpc[c] = "idle")
=============================================================================
