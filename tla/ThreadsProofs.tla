---------------------------- MODULE ThreadsProofs ----------------------------
(***************************************************************************)
(* Invariants of MCThreads, proved for every value of its constants that   *)
(* PartsAssumption admits, in the way of PlatformProofs.                   *)
(***************************************************************************)
EXTENDS MCThreads, TLAPS

\* The parts "linux", "dedicated", "clipboard", "read", "ring" and "trace".
Base == INSTANCE ThreadPartsProofs

\* The parts "handover" and "readers".
Other == INSTANCE ThreadPartsProofs WITH Requesters <- {"manager"},
        ManagerTargets <- HandoverTargets, MaxWrites <- HandoverWrites,
        Collectors <- ReadersCollectors, MaxEntries <- ReadersEntries

-----------------------------------------------------------------------------
(* The parts                                                               *)

LEMMA LinuxPart ==
    /\ Linux!Init => Base!LinuxInv
    /\ Base!LinuxInv /\ [Linux!Next]_linuxVars => Base!LinuxInv'
    /\ Base!LinuxInv => Linux!TypeOK /\ Linux!HandoffIsSound
<1>1. Base!Linux!ConstantsAssumption
  BY PartsAssumption DEF PartsAssumption, Linux!ConstantsAssumption, Base!Linux!ConstantsAssumption
<1>2. Base!Linux!Init <=> Linux!Init
  BY DEF Linux!Init, Linux!Threads, Base!Linux!Init, Base!Linux!Threads
<1>3. Base!Linux!Next <=> Linux!Next
  BY DEF Linux!Next, Linux!Threads, Linux!Calls, Linux!WorkerPop, Linux!TimerArm, Linux!TimerFire,
         Linux!EventLoop, Linux!Dispatch, Linux!DispatchAfter, Linux!DispatchOnMain, Linux!SendPing,
         Linux!DropPing, Linux!DropCount, Linux!Return, Linux!Goto, Linux!loopVars, Linux!Poll,
         Linux!OtherEvent, Linux!DrainPop, Linux!DrainDisconnected, Linux!DrainEnd, Linux!Renotify,
         Linux!RunIdle, Linux!IdlesDone, Linux!MayDispatch, Linux!queueVars, Base!Linux!Next,
         Base!Linux!Threads, Base!Linux!Calls, Base!Linux!WorkerPop, Base!Linux!TimerArm,
         Base!Linux!TimerFire, Base!Linux!EventLoop, Base!Linux!Dispatch, Base!Linux!DispatchAfter,
         Base!Linux!DispatchOnMain, Base!Linux!SendPing, Base!Linux!DropPing, Base!Linux!DropCount,
         Base!Linux!Return, Base!Linux!Goto, Base!Linux!loopVars, Base!Linux!Poll,
         Base!Linux!OtherEvent, Base!Linux!DrainPop, Base!Linux!DrainDisconnected,
         Base!Linux!DrainEnd, Base!Linux!Renotify, Base!Linux!RunIdle, Base!Linux!IdlesDone,
         Base!Linux!MayDispatch, Base!Linux!queueVars
<1>4. (UNCHANGED linuxVars) => UNCHANGED Base!Linux!vars
  BY DEF linuxVars, Base!Linux!vars
<1>5. Base!Linux!TypeOK <=> Linux!TypeOK
  BY DEF Linux!TypeOK, Linux!Threads, Base!Linux!TypeOK, Base!Linux!Threads
<1>6. Base!Linux!HandoffIsSound <=> Linux!HandoffIsSound
  BY DEF Linux!HandoffIsSound, Linux!NoLostPing, Linux!ClosedIsLast, Base!Linux!HandoffIsSound,
         Base!Linux!NoLostPing, Base!Linux!ClosedIsLast
<1> QED
  BY <1>1, <1>2, <1>3, <1>4, <1>5, <1>6, Base!LinuxInductive

LEMMA DedicatedPart ==
    /\ Dedicated!Init => Base!DedicatedInv
    /\ Base!DedicatedInv /\ [Dedicated!Next]_rdvVars => Base!DedicatedInv'
    /\ Base!DedicatedInv => Dedicated!TypeOK /\ Dedicated!HandoffIsSound
<1>1. Base!Dedicated!Init <=> Dedicated!Init
  BY DEF Dedicated!Init, Base!Dedicated!Init
<1>2. Base!Dedicated!Next <=> Dedicated!Next
  BY DEF Dedicated!Next, Dedicated!Caller, Dedicated!Thread, Dedicated!WakeRoot,
         Dedicated!WakeChild, Dedicated!Quiet, Dedicated!PollPending, Dedicated!PollTakes,
         Dedicated!PollTask, Dedicated!DropPending, Dedicated!DropDelivered, Dedicated!DropTask,
         Dedicated!DetachPending, Dedicated!DetachDelivered, Dedicated!DropAfterDetach,
         Dedicated!SpawnRoot, Dedicated!Deliver, Dedicated!Delivered, Dedicated!DropExecutor,
         Dedicated!RunRoot, Dedicated!RunChild, Dedicated!RootSpawns, Dedicated!RootWaits,
         Dedicated!RootFinishes, Dedicated!Exit, Dedicated!vars, Dedicated!Cancel, Dedicated!Detach,
         Dedicated!Senders, Dedicated!Dead, Base!Dedicated!Next, Base!Dedicated!Caller,
         Base!Dedicated!Thread, Base!Dedicated!WakeRoot, Base!Dedicated!WakeChild,
         Base!Dedicated!Quiet, Base!Dedicated!PollPending, Base!Dedicated!PollTakes,
         Base!Dedicated!PollTask, Base!Dedicated!DropPending, Base!Dedicated!DropDelivered,
         Base!Dedicated!DropTask, Base!Dedicated!DetachPending, Base!Dedicated!DetachDelivered,
         Base!Dedicated!DropAfterDetach, Base!Dedicated!SpawnRoot, Base!Dedicated!Deliver,
         Base!Dedicated!Delivered, Base!Dedicated!DropExecutor, Base!Dedicated!RunRoot,
         Base!Dedicated!RunChild, Base!Dedicated!RootSpawns, Base!Dedicated!RootWaits,
         Base!Dedicated!RootFinishes, Base!Dedicated!Exit, Base!Dedicated!vars,
         Base!Dedicated!Cancel, Base!Dedicated!Detach, Base!Dedicated!Senders, Base!Dedicated!Dead
<1>3. (UNCHANGED rdvVars) => UNCHANGED Base!Dedicated!vars
  BY DEF rdvVars, Base!Dedicated!vars
<1>4. Base!Dedicated!TypeOK <=> Dedicated!TypeOK
  BY DEF Dedicated!TypeOK, Dedicated!Delivered, Dedicated!Cancel, Dedicated!Detach, Dedicated!Dead,
         Base!Dedicated!TypeOK, Base!Dedicated!Delivered, Base!Dedicated!Cancel,
         Base!Dedicated!Detach, Base!Dedicated!Dead
<1>5. Base!Dedicated!HandoffIsSound <=> Dedicated!HandoffIsSound
  BY DEF Dedicated!HandoffIsSound, Dedicated!NeverUnreachable, Dedicated!CancelledByDrop,
         Dedicated!ExitIsClean, Dedicated!Dead, Base!Dedicated!HandoffIsSound,
         Base!Dedicated!NeverUnreachable, Base!Dedicated!CancelledByDrop,
         Base!Dedicated!ExitIsClean, Base!Dedicated!Dead
<1> QED
  BY <1>1, <1>2, <1>3, <1>4, <1>5, Base!DedicatedInductive

LEMMA ClipboardPart ==
    /\ Clipboard!Init => Base!ClipInv
    /\ Base!ClipInv /\ [Clipboard!Next]_clipVars => Base!ClipInv'
    /\ Base!ClipInv => Clipboard!TypeOK /\ Clipboard!ClipboardIsWhole
<1>1. Base!Clip!ConstantsAssumption
  BY PartsAssumption DEF PartsAssumption, Clipboard!ConstantsAssumption,
     Base!Clip!ConstantsAssumption
<1>2. Base!Clip!Init <=> Clipboard!Init
  BY DEF Clipboard!Init, Clipboard!NoRequest, Clipboard!NoReply, Clipboard!TARGETS, Base!Clip!Init,
         Base!Clip!NoRequest, Base!Clip!NoReply, Base!Clip!TARGETS
<1>3. Base!Clip!Next <=> Clipboard!Next
  BY DEF Clipboard!Next, Clipboard!TakeSelection, Clipboard!Targets, Clipboard!PeerRequests,
         Clipboard!ManagerRequests, Clipboard!ManagerNotifies, Clipboard!Write, Clipboard!Drop,
         Clipboard!App, Clipboard!Serve, Clipboard!ServeFails, Clipboard!Gone, Clipboard!Send,
         Clipboard!SelectionClear, Clipboard!NoRequest, Clipboard!appvars, Clipboard!servevars,
         Clipboard!observed, Clipboard!TARGETS, Clipboard!Convert, Clipboard!SelectionNotify,
         Clipboard!Store, Clipboard!LockHandover, Clipboard!WaitForHandover, Clipboard!HandoverEnds,
         Clipboard!DestroyWindow, Clipboard!Join, Clipboard!AskManager, Clipboard!SelectionRequest,
         Clipboard!RequestDone, Clipboard!DestroyNotify, Clipboard!Return, Clipboard!vars,
         Clipboard!NextIs, Clipboard!Found, Clipboard!lossvars, Clipboard!KnowsLosses, Base!Clip!Next,
         Base!Clip!TakeSelection, Base!Clip!Targets, Base!Clip!PeerRequests,
         Base!Clip!ManagerRequests, Base!Clip!ManagerNotifies, Base!Clip!Write, Base!Clip!Drop,
         Base!Clip!App, Base!Clip!Serve, Base!Clip!ServeFails, Base!Clip!Gone, Base!Clip!Send,
         Base!Clip!SelectionClear, Base!Clip!NoRequest, Base!Clip!appvars, Base!Clip!servevars,
         Base!Clip!observed, Base!Clip!TARGETS, Base!Clip!Convert, Base!Clip!SelectionNotify,
         Base!Clip!Store, Base!Clip!LockHandover, Base!Clip!WaitForHandover, Base!Clip!HandoverEnds,
         Base!Clip!DestroyWindow, Base!Clip!Join, Base!Clip!AskManager, Base!Clip!SelectionRequest,
         Base!Clip!RequestDone, Base!Clip!DestroyNotify, Base!Clip!Return, Base!Clip!vars,
         Base!Clip!NextIs, Base!Clip!Found, Base!Clip!lossvars, Base!Clip!KnowsLosses
<1>4. (UNCHANGED clipVars) => UNCHANGED Base!Clip!vars
  BY DEF clipVars, Base!Clip!vars, Base!Clip!appvars, Base!Clip!lossvars, Base!Clip!servevars,
         Base!Clip!observed
<1>5. Base!Clip!TypeOK <=> Clipboard!TypeOK
  BY DEF Clipboard!TypeOK, Clipboard!Event, Clipboard!Request, Clipboard!SelectionClear,
         Clipboard!SelectionRequest, Clipboard!SelectionNotify, Clipboard!DestroyNotify,
         Clipboard!Targets, Clipboard!NextIs, Clipboard!appvars, Clipboard!servevars,
         Clipboard!observed, Clipboard!Found, Clipboard!TARGETS,
         Base!Clip!TypeOK, Base!Clip!Event, Base!Clip!Request, Base!Clip!SelectionClear,
         Base!Clip!SelectionRequest, Base!Clip!SelectionNotify, Base!Clip!DestroyNotify,
         Base!Clip!Targets, Base!Clip!NextIs, Base!Clip!appvars, Base!Clip!servevars,
         Base!Clip!observed, Base!Clip!Found, Base!Clip!TARGETS
<1>6. Base!Clip!ClipboardIsWhole <=> Clipboard!ClipboardIsWhole
  BY DEF Clipboard!ClipboardIsWhole, Clipboard!ServedIsNotOlder, Clipboard!HandoverNotMissed,
         Clipboard!FinishedMeansSaved, Base!Clip!ClipboardIsWhole, Base!Clip!ServedIsNotOlder,
         Base!Clip!HandoverNotMissed, Base!Clip!FinishedMeansSaved
<1> QED
  BY <1>1, <1>2, <1>3, <1>4, <1>5, <1>6, Base!ClipInductive

LEMMA HandoverPart ==
    /\ Handover!Init => Other!ClipInv
    /\ Other!ClipInv /\ [Handover!Next]_clipVars => Other!ClipInv'
    /\ Other!ClipInv => Handover!TypeOK /\ Handover!ClipboardIsWhole
<1>1. Other!Clip!ConstantsAssumption
  BY PartsAssumption DEF PartsAssumption, Handover!ConstantsAssumption,
     Other!Clip!ConstantsAssumption
<1>2. Other!Clip!Init <=> Handover!Init
  BY DEF Handover!Init, Handover!NoRequest, Handover!NoReply, Handover!TARGETS, Other!Clip!Init,
         Other!Clip!NoRequest, Other!Clip!NoReply, Other!Clip!TARGETS
<1>3. Other!Clip!Next <=> Handover!Next
  BY DEF Handover!Next, Handover!TakeSelection, Handover!Targets, Handover!PeerRequests,
         Handover!ManagerRequests, Handover!ManagerNotifies, Handover!Write, Handover!Drop,
         Handover!App, Handover!Serve, Handover!ServeFails, Handover!Gone, Handover!Send,
         Handover!SelectionClear, Handover!NoRequest, Handover!appvars, Handover!servevars,
         Handover!observed, Handover!TARGETS, Handover!Convert, Handover!SelectionNotify,
         Handover!Store, Handover!LockHandover, Handover!WaitForHandover, Handover!HandoverEnds,
         Handover!DestroyWindow, Handover!Join, Handover!AskManager, Handover!SelectionRequest,
         Handover!RequestDone, Handover!DestroyNotify, Handover!Return, Handover!vars,
         Handover!NextIs, Handover!Found, Handover!lossvars, Handover!KnowsLosses, Other!Clip!Next,
         Other!Clip!TakeSelection, Other!Clip!Targets, Other!Clip!PeerRequests,
         Other!Clip!ManagerRequests, Other!Clip!ManagerNotifies, Other!Clip!Write, Other!Clip!Drop,
         Other!Clip!App, Other!Clip!Serve, Other!Clip!ServeFails, Other!Clip!Gone, Other!Clip!Send,
         Other!Clip!SelectionClear, Other!Clip!NoRequest, Other!Clip!appvars, Other!Clip!servevars,
         Other!Clip!observed, Other!Clip!TARGETS, Other!Clip!Convert, Other!Clip!SelectionNotify,
         Other!Clip!Store, Other!Clip!LockHandover, Other!Clip!WaitForHandover,
         Other!Clip!HandoverEnds, Other!Clip!DestroyWindow, Other!Clip!Join, Other!Clip!AskManager,
         Other!Clip!SelectionRequest, Other!Clip!RequestDone, Other!Clip!DestroyNotify,
         Other!Clip!Return, Other!Clip!vars, Other!Clip!NextIs, Other!Clip!Found,
         Other!Clip!lossvars, Other!Clip!KnowsLosses
<1>4. (UNCHANGED clipVars) => UNCHANGED Other!Clip!vars
  BY DEF clipVars, Other!Clip!vars, Other!Clip!appvars, Other!Clip!lossvars, Other!Clip!servevars,
         Other!Clip!observed
<1>5. Other!Clip!TypeOK <=> Handover!TypeOK
  BY DEF Handover!TypeOK, Handover!Event, Handover!Request, Handover!SelectionClear,
         Handover!SelectionRequest, Handover!SelectionNotify, Handover!DestroyNotify,
         Handover!Targets, Handover!NextIs, Handover!appvars, Handover!servevars, Handover!observed,
         Handover!Found, Handover!TARGETS, Other!Clip!TypeOK, Other!Clip!Event,
         Other!Clip!Request, Other!Clip!SelectionClear, Other!Clip!SelectionRequest,
         Other!Clip!SelectionNotify, Other!Clip!DestroyNotify, Other!Clip!Targets,
         Other!Clip!NextIs, Other!Clip!appvars, Other!Clip!servevars, Other!Clip!observed,
         Other!Clip!Found, Other!Clip!TARGETS
<1>6. Other!Clip!ClipboardIsWhole <=> Handover!ClipboardIsWhole
  BY DEF Handover!ClipboardIsWhole, Handover!ServedIsNotOlder, Handover!HandoverNotMissed,
         Handover!FinishedMeansSaved, Other!Clip!ClipboardIsWhole, Other!Clip!ServedIsNotOlder,
         Other!Clip!HandoverNotMissed, Other!Clip!FinishedMeansSaved
<1> QED
  BY <1>1, <1>2, <1>3, <1>4, <1>5, <1>6, Other!ClipInductive

LEMMA ReadPart ==
    /\ Read!Init => Base!ReadInv
    /\ Base!ReadInv /\ [Read!Next]_readVars => Base!ReadInv'
    /\ Base!ReadInv => Read!TypeOK /\ Read!ReturnsWhole /\ Read!PromptOwnerIsRead
<1>1. Base!Read!ConstantsAssumption
  BY PartsAssumption DEF PartsAssumption, Read!ConstantsAssumption, Read!Formats,
     Base!Read!ConstantsAssumption, Base!Read!Formats, Read!Range, Base!Read!Range
<1>2. Base!Read!Init <=> Read!Init
  BY DEF Read!Init, Read!Formats, Read!Convert, Read!TARGETS, Read!NoTransfer, Read!NoProperty,
         Read!Pending, Base!Read!Init, Base!Read!Formats, Base!Read!Convert, Base!Read!TARGETS,
         Base!Read!NoTransfer, Base!Read!NoProperty, Base!Read!Pending, Read!Range, Base!Read!Range
<1>3. Base!Read!Next <=> Read!Next
  BY DEF Read!Next, Read!OwnerConverts, Read!OwnerSendsChunk, Read!Reader, Read!Done,
         Read!PropNotify, Read!SelNotify, Read!TARGETS, Read!Content, Read!Deleted, Read!NoTransfer,
         Read!SelectionNotify, Read!PropertyNotify, Read!Timeout, Read!vars, Read!TakeEvent,
         Read!SingleFails, Read!NoProperty, Read!SingleReturns, Read!DeletionOf, Read!ownervars,
         Read!ReadChunk, Read!Fallback, Read!Return, Read!Failed, Read!FirstListed, Read!ReadSingle,
         Read!Formats, Read!Ok, Read!ChunkType, Read!Convert, Base!Read!Next,
         Base!Read!OwnerConverts, Base!Read!OwnerSendsChunk, Base!Read!Reader, Base!Read!Done,
         Base!Read!PropNotify, Base!Read!SelNotify, Base!Read!TARGETS, Base!Read!Content,
         Base!Read!Deleted, Base!Read!NoTransfer, Base!Read!SelectionNotify,
         Base!Read!PropertyNotify, Base!Read!Timeout, Base!Read!vars, Base!Read!TakeEvent,
         Base!Read!SingleFails, Base!Read!NoProperty, Base!Read!SingleReturns, Base!Read!DeletionOf,
         Base!Read!ownervars, Base!Read!ReadChunk, Base!Read!Fallback, Base!Read!Return,
         Base!Read!Failed, Base!Read!FirstListed, Base!Read!ReadSingle, Base!Read!Formats,
         Base!Read!Ok, Base!Read!ChunkType, Base!Read!Convert, Read!Range,
         Base!Read!Range, Read!SelectInSeq, Base!Read!SelectInSeq, Read!Min, Base!Read!Min
<1>4. (UNCHANGED readVars) => UNCHANGED Base!Read!vars
  BY DEF readVars, Base!Read!vars, Base!Read!ownervars
<1>5. Base!Read!TypeOK <=> Read!TypeOK
  BY DEF Read!TypeOK, Read!Formats, Read!TARGETS, Base!Read!TypeOK, Base!Read!Formats,
         Base!Read!TARGETS, Read!Range, Base!Read!Range
<1>6. Base!Read!ReturnsWhole <=> Read!ReturnsWhole
  BY DEF Read!ReturnsWhole, Read!Content, Base!Read!ReturnsWhole, Base!Read!Content
<1>7. Base!Read!PromptOwnerIsRead <=> Read!PromptOwnerIsRead
  BY DEF Read!PromptOwnerIsRead, Read!IsPreferred, Read!Formats, Base!Read!PromptOwnerIsRead,
         Base!Read!IsPreferred, Base!Read!Formats, Read!Range, Base!Read!Range
<1> QED
  BY <1>1, <1>2, <1>3, <1>4, <1>5, <1>6, <1>7, Base!ReadInductive

LEMMA RingPart ==
    /\ Ring!Init => Base!RingInv
    /\ Base!RingInv /\ [Ring!Next]_ringVars => Base!RingInv'
    /\ Base!RingInv => /\ Ring!TypeOK /\ Ring!CopiesItsEntry /\ Ring!Exclusion /\ Ring!EachOnce
                       /\ Ring!InOrder /\ Ring!LostIsOld
<1>1. Base!Ring!ConstantsAssumption
  BY PartsAssumption DEF PartsAssumption, Ring!ConstantsAssumption, Ring!IsFiniteSet,
     Base!Ring!ConstantsAssumption, Base!Ring!IsFiniteSet
<1>2. Base!Ring!Init <=> Ring!Init
  BY DEF Ring!Init, Ring!Slots, Ring!EMPTY, Ring!Torn, Base!Ring!Init, Base!Ring!Slots,
         Base!Ring!EMPTY, Base!Ring!Torn
<1>3. Base!Ring!Next <=> Ring!Next
  BY DEF Ring!Next, Ring!Publish, Ring!Publisher, Ring!Collector, Ring!Collect, Ring!Reads,
         Ring!Done, Ring!slots, Ring!collectors, Ring!FlushAcquire, Ring!FlushBlocked,
         Ring!FlushDone, Ring!Offer, Ring!PublishAcquire, Ring!PublishBlocked, Ring!Write,
         Ring!Release, Ring!Finalize, Ring!publisher, Ring!Loses, Ring!AddReader, Ring!Mismatch,
         Ring!Match, Ring!Copy, Ring!RemoveReader, Ring!Collected, Ring!vars, Ring!Acquire,
         Ring!Slot, Ring!AfterFlush, Ring!WRITER, Ring!Lose, Ring!Torn, Base!Ring!Next,
         Base!Ring!Publish, Base!Ring!Publisher, Base!Ring!Collector, Base!Ring!Collect,
         Base!Ring!Reads, Base!Ring!Done, Base!Ring!slots, Base!Ring!collectors,
         Base!Ring!FlushAcquire, Base!Ring!FlushBlocked, Base!Ring!FlushDone, Base!Ring!Offer,
         Base!Ring!PublishAcquire, Base!Ring!PublishBlocked, Base!Ring!Write, Base!Ring!Release,
         Base!Ring!Finalize, Base!Ring!publisher, Base!Ring!Loses, Base!Ring!AddReader,
         Base!Ring!Mismatch, Base!Ring!Match, Base!Ring!Copy, Base!Ring!RemoveReader,
         Base!Ring!Collected, Base!Ring!vars, Base!Ring!Acquire, Base!Ring!Slot,
         Base!Ring!AfterFlush, Base!Ring!WRITER, Base!Ring!Lose, Base!Ring!Torn
<1>4. (UNCHANGED ringVars) => UNCHANGED Base!Ring!vars
  BY DEF ringVars, Base!Ring!vars, Base!Ring!slots, Base!Ring!publisher, Base!Ring!collectors
<1>5. Base!Ring!TypeOK <=> Ring!TypeOK
  BY DEF Ring!TypeOK, Ring!Slots, Ring!WRITER, Ring!EMPTY, Ring!Torn, Base!Ring!TypeOK,
         Base!Ring!Slots, Base!Ring!WRITER, Base!Ring!EMPTY, Base!Ring!Torn
<1>6. Base!Ring!CopiesItsEntry <=> Ring!CopiesItsEntry
  BY DEF Ring!CopiesItsEntry, Base!Ring!CopiesItsEntry
<1>7. Base!Ring!Exclusion <=> Ring!Exclusion
  BY DEF Ring!Exclusion, Ring!Slots, Ring!Slot, Ring!WRITER, Ring!Readers, Ring!Cardinality,
         Ring!Reading, Base!Ring!Exclusion, Base!Ring!Slots, Base!Ring!Slot, Base!Ring!WRITER,
         Base!Ring!Readers, Base!Ring!Cardinality, Base!Ring!Reading
<1>8. Base!Ring!EachOnce <=> Ring!EachOnce
  BY DEF Ring!EachOnce, Ring!Cardinality, Base!Ring!EachOnce, Base!Ring!Cardinality
<1>9. Base!Ring!InOrder <=> Ring!InOrder
  BY DEF Ring!InOrder, Base!Ring!InOrder
<1>10. Base!Ring!LostIsOld <=> Ring!LostIsOld
  BY DEF Ring!LostIsOld, Ring!Slots, Base!Ring!LostIsOld, Base!Ring!Slots
<1> QED
  BY <1>1, <1>2, <1>3, <1>4, <1>5, <1>6, <1>7, <1>8, <1>9, <1>10, Base!RingInductive

LEMMA ReadersPart ==
    /\ Readers!Init => Other!RingInv
    /\ Other!RingInv /\ [Readers!Next]_ringVars => Other!RingInv'
    /\ Other!RingInv => /\ Readers!TypeOK /\ Readers!CopiesItsEntry /\ Readers!Exclusion
                        /\ Readers!EachOnce /\ Readers!InOrder /\ Readers!LostIsOld
<1>1. Other!Ring!ConstantsAssumption
  BY PartsAssumption DEF PartsAssumption, Readers!ConstantsAssumption, Readers!IsFiniteSet,
     Other!Ring!ConstantsAssumption, Other!Ring!IsFiniteSet
<1>2. Other!Ring!Init <=> Readers!Init
  BY DEF Readers!Init, Readers!Slots, Readers!EMPTY, Readers!Torn, Other!Ring!Init,
         Other!Ring!Slots, Other!Ring!EMPTY, Other!Ring!Torn
<1>3. Other!Ring!Next <=> Readers!Next
  BY DEF Readers!Next, Readers!Publish, Readers!Publisher, Readers!Collector, Readers!Collect,
         Readers!Reads, Readers!Done, Readers!slots, Readers!collectors, Readers!FlushAcquire,
         Readers!FlushBlocked, Readers!FlushDone, Readers!Offer, Readers!PublishAcquire,
         Readers!PublishBlocked, Readers!Write, Readers!Release, Readers!Finalize,
         Readers!publisher, Readers!Loses, Readers!AddReader, Readers!Mismatch, Readers!Match,
         Readers!Copy, Readers!RemoveReader, Readers!Collected, Readers!vars, Readers!Acquire,
         Readers!Slot, Readers!AfterFlush, Readers!WRITER, Readers!Lose, Readers!Torn,
         Other!Ring!Next, Other!Ring!Publish, Other!Ring!Publisher, Other!Ring!Collector,
         Other!Ring!Collect, Other!Ring!Reads, Other!Ring!Done, Other!Ring!slots,
         Other!Ring!collectors, Other!Ring!FlushAcquire, Other!Ring!FlushBlocked,
         Other!Ring!FlushDone, Other!Ring!Offer, Other!Ring!PublishAcquire,
         Other!Ring!PublishBlocked, Other!Ring!Write, Other!Ring!Release, Other!Ring!Finalize,
         Other!Ring!publisher, Other!Ring!Loses, Other!Ring!AddReader, Other!Ring!Mismatch,
         Other!Ring!Match, Other!Ring!Copy, Other!Ring!RemoveReader, Other!Ring!Collected,
         Other!Ring!vars, Other!Ring!Acquire, Other!Ring!Slot, Other!Ring!AfterFlush,
         Other!Ring!WRITER, Other!Ring!Lose, Other!Ring!Torn
<1>4. (UNCHANGED ringVars) => UNCHANGED Other!Ring!vars
  BY DEF ringVars, Other!Ring!vars, Other!Ring!slots, Other!Ring!publisher, Other!Ring!collectors
<1>5. Other!Ring!TypeOK <=> Readers!TypeOK
  BY DEF Readers!TypeOK, Readers!Slots, Readers!WRITER, Readers!EMPTY, Readers!Torn,
         Other!Ring!TypeOK, Other!Ring!Slots, Other!Ring!WRITER, Other!Ring!EMPTY, Other!Ring!Torn
<1>6. Other!Ring!CopiesItsEntry <=> Readers!CopiesItsEntry
  BY DEF Readers!CopiesItsEntry, Other!Ring!CopiesItsEntry
<1>7. Other!Ring!Exclusion <=> Readers!Exclusion
  BY DEF Readers!Exclusion, Readers!Slots, Readers!Slot, Readers!WRITER, Readers!Readers,
         Readers!Cardinality, Readers!Reading, Other!Ring!Exclusion, Other!Ring!Slots,
         Other!Ring!Slot, Other!Ring!WRITER, Other!Ring!Readers, Other!Ring!Cardinality,
         Other!Ring!Reading
<1>8. Other!Ring!EachOnce <=> Readers!EachOnce
  BY DEF Readers!EachOnce, Readers!Cardinality, Other!Ring!EachOnce, Other!Ring!Cardinality
<1>9. Other!Ring!InOrder <=> Readers!InOrder
  BY DEF Readers!InOrder, Other!Ring!InOrder
<1>10. Other!Ring!LostIsOld <=> Readers!LostIsOld
  BY DEF Readers!LostIsOld, Readers!Slots, Other!Ring!LostIsOld, Other!Ring!Slots
<1> QED
  BY <1>1, <1>2, <1>3, <1>4, <1>5, <1>6, <1>7, <1>8, <1>9, <1>10, Other!RingInductive

LEMMA TracesPart ==
    /\ Traces!Init => Base!TraceInv
    /\ Base!TraceInv /\ [Traces!Next]_traceVars => Base!TraceInv'
    /\ Base!TraceInv => /\ Traces!TypeOK /\ Traces!CollectedOnce
                        /\ Traces!OffIsEmpty /\ Traces!RegisteredIsHeld
<1>1. Base!Traces!ConstantsAssumption
  BY PartsAssumption DEF PartsAssumption, Traces!ConstantsAssumption, Traces!Nobody,
     Base!Traces!ConstantsAssumption, Base!Traces!Nobody
<1>2. Base!Traces!Init <=> Traces!Init
  BY DEF Traces!Init, Traces!Nobody, Base!Traces!Init, Base!Traces!Nobody
<1>3. Base!Traces!Next <=> Traces!Next
  BY DEF Traces!Next, Traces!CheckTask, Traces!PushTask, Traces!Exit, Traces!CheckFrame,
         Traces!PushFrame, Traces!CollectFrames, Traces!set_trace_enabled, Traces!trace_scope,
         Traces!DropScope, Traces!Works, Traces!trace_enabled, Traces!traceVars, Traces!userVars,
         Traces!frameVars, Traces!Nobody, Traces!threadVars, Traces!Change, Traces!Upgrade,
         Traces!ClearTimings, Traces!Unregister, Traces!ClearFrames, Traces!LockRegistry,
         Traces!DropArc, Traces!Returned, Traces!registryVars, Base!Traces!Next,
         Base!Traces!CheckTask, Base!Traces!PushTask, Base!Traces!Exit, Base!Traces!CheckFrame,
         Base!Traces!PushFrame, Base!Traces!CollectFrames, Base!Traces!set_trace_enabled,
         Base!Traces!trace_scope, Base!Traces!DropScope, Base!Traces!Works,
         Base!Traces!trace_enabled, Base!Traces!traceVars, Base!Traces!userVars,
         Base!Traces!frameVars, Base!Traces!Nobody, Base!Traces!threadVars, Base!Traces!Change,
         Base!Traces!Upgrade, Base!Traces!ClearTimings, Base!Traces!Unregister,
         Base!Traces!ClearFrames, Base!Traces!LockRegistry, Base!Traces!DropArc,
         Base!Traces!Returned, Base!Traces!registryVars
<1>4. (UNCHANGED traceVars) => UNCHANGED Base!Traces!vars
  BY DEF traceVars, Base!Traces!vars, Base!Traces!traceVars, Base!Traces!threadVars,
         Base!Traces!registryVars, Base!Traces!userVars, Base!Traces!frameVars
<1>5. Base!Traces!TypeOK <=> Traces!TypeOK
  BY DEF Traces!TypeOK, Base!Traces!TypeOK
<1>6. Base!Traces!OffIsEmpty <=> Traces!OffIsEmpty
  BY DEF Traces!OffIsEmpty, Traces!trace_enabled, Base!Traces!OffIsEmpty, Base!Traces!trace_enabled
<1>7. Base!Traces!RegisteredIsHeld <=> Traces!RegisteredIsHeld
  BY DEF Traces!RegisteredIsHeld, Traces!Nobody, Base!Traces!RegisteredIsHeld, Base!Traces!Nobody
<1>8. Base!Traces!CollectedOnce <=> Traces!CollectedOnce
  BY DEF Traces!CollectedOnce, Traces!Collected, Base!Traces!CollectedOnce, Base!Traces!Collected
<1> QED
  BY <1>1, <1>2, <1>3, <1>4, <1>5, <1>6, <1>7, <1>8, Base!TraceInductive

-----------------------------------------------------------------------------
(* The composition                                                         *)

\* The inductive invariant: of each part, the one of its component.
ThreadsInv ==
    /\ Base!LinuxInv
    /\ Base!DedicatedInv
    /\ part = "clipboard" => Base!ClipInv
    /\ part = "handover" => Other!ClipInv
    /\ part = "read" => Base!ReadInv
    /\ part = "ring" => Base!RingInv
    /\ part = "readers" => Other!RingInv
    /\ part = "trace" => Base!TraceInv

LEMMA ThreadsInit == Init => ThreadsInv
  BY LinuxPart, DedicatedPart, ClipboardPart, HandoverPart, ReadPart, RingPart, ReadersPart,
     TracesPart
     DEF Init, ThreadsInv

LEMMA ThreadsStep == ThreadsInv /\ [Next]_vars => ThreadsInv'
<1> SUFFICES ASSUME ThreadsInv, [Next]_vars PROVE ThreadsInv'
  OBVIOUS
<1>0. part' = part
  BY DEF Next, vars
<1>1. [Linux!Next]_linuxVars /\ [Dedicated!Next]_rdvVars
  BY DEF Next, vars
<1>2. /\ part = "clipboard" => [Clipboard!Next]_clipVars
      /\ part = "handover" => [Handover!Next]_clipVars
      /\ part = "read" => [Read!Next]_readVars
  BY DEF Next, vars
<1>3. /\ part = "ring" => [Ring!Next]_ringVars
      /\ part = "readers" => [Readers!Next]_ringVars
      /\ part = "trace" => [Traces!Next]_traceVars
  BY DEF Next, vars
<1>4. Base!LinuxInv' /\ Base!DedicatedInv'
  BY <1>1, LinuxPart, DedicatedPart DEF ThreadsInv
<1>5. /\ (part = "clipboard" => Base!ClipInv)' /\ (part = "handover" => Other!ClipInv)'
      /\ (part = "read" => Base!ReadInv)'
  BY <1>0, <1>2, ClipboardPart, HandoverPart, ReadPart DEF ThreadsInv
<1>6. /\ (part = "ring" => Base!RingInv)' /\ (part = "readers" => Other!RingInv)'
      /\ (part = "trace" => Base!TraceInv)'
  BY <1>0, <1>3, RingPart, ReadersPart, TracesPart DEF ThreadsInv
<1> QED
  BY <1>4, <1>5, <1>6 DEF ThreadsInv

LEMMA ThreadsInvariant == Spec => []ThreadsInv
  BY ThreadsInit, ThreadsStep, PTL DEF Spec

\* Nothing is lost between two threads, for any number of worker threads, runnables and polls: the
\* Linux event loop never polls with main-thread work queued unless a ping or a sender is pending,
\* and its source closes last; the rendezvous with a dedicated thread reaches no unreachable!,
\* cancels for a drop only, and ends its thread when nothing is left.
THEOREM NothingLost == Spec => []HandoffIsSound
<1>1. ThreadsInv => HandoffIsSound
  BY LinuxPart, DedicatedPart DEF ThreadsInv, HandoffIsSound
<1> QED
  BY <1>1, ThreadsInvariant, PTL

\* Who asks for the clipboard never gets an older text than the last written, and gets one, unless
\* the serving thread was told only after the write that the selection had been lost before it; the
\* clipboard manager's messages are not missed: for any number of writes, losses of the selection and
\* requests. A handover that finishes has saved the last text if nobody but the manager asks
\* meanwhile, for the format the text is stored in, and the text could not be lost in that way. A
\* read of another client's selection returns one content, whole and of the format it names, although
\* the answers to conversions that timed out still arrive, and the preferred one if none did, for
\* any formats that come in chunks and any number of chunks.
THEOREM ClipboardIsServedAndRead == Spec => []ClipboardIsWhole
<1>1. ThreadsInv => ClipboardIsWhole
  BY ClipboardPart, HandoverPart, ReadPart DEF ThreadsInv, ClipboardIsWhole
<1> QED
  BY <1>1, ThreadsInvariant, PTL

\* The lock-free protocol of a slot excludes a writer and its readers, so that no collector copies a
\* torn or a foreign entry, and every entry is returned or reported as lost, once and in order: for
\* any capacity of the ring and of the pending entries, any number of entries, and any finite set of
\* collectors.
THEOREM RingIsSound == Spec => []CopiesItsEntry
<1>1. ThreadsInv => CopiesItsEntry
  BY RingPart, ReadersPart DEF ThreadsInv, CopiesItsEntry
<1> QED
  BY <1>1, ThreadsInvariant, PTL

\* No frame is collected twice, and between two clears of the buffer none that is still in it is
\* passed over; after a clear a collection passes over at most as many as its cursor counts. Once
\* whoever turned tracing off is done, no task timing is left that a thread recorded or was just
\* about to record, and at most the one frame event that was about to be pushed; and the registry
\* holds no thread that is gone. For any threads that record, any number of users that turn tracing
\* on and off at the same time, and any capacity of the buffer.
THEOREM TracesEnd == Spec => []CollectedOnce
<1>1. ThreadsInv => CollectedOnce
  BY TracesPart DEF ThreadsInv, CollectedOnce
<1> QED
  BY <1>1, ThreadsInvariant, PTL
=============================================================================
