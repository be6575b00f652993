--------------------------- MODULE PlatformProofs ---------------------------
(***************************************************************************)
(* The invariants of MCPlatform, proved for every value of its constants   *)
(* that PartsAssumption admits.  A part of MCPlatform and the part of      *)
(* PlatformPartsProofs that it instantiates are the same formulas, and a   *)
(* part that does not run stutters: so the inductive invariants carry      *)
(* over.                                                                   *)
(***************************************************************************)
EXTENDS MCPlatform, TLAPS

\* The parts "tree", "keys", "size", "serials" and "link".
Base == INSTANCE PlatformPartsProofs WITH AppRemoves <- TRUE, Reentrant <- FALSE,
        Blockable <- {}, DeadKeys <- {}, Buttons <- {}, TextInput <- FALSE, MaxId <- KeysMaxId,
        NoDisplay <- None, StartFails <- TRUE, LinkReentrant <- TRUE

\* The parts "reentrant", "text" and "screens".
Other == INSTANCE PlatformPartsProofs WITH TreeWindows <- ReentrantWindows, AppRemoves <- TRUE,
        Reentrant <- TRUE, Closable <- {}, Blockable <- {}, TextInput <- TRUE, MaxId <- TextMaxId, LinkWindows <- ScreenWindows,
        Displays <- Screens, NoDisplay <- None, StartFails <- TRUE, LinkReentrant <- TRUE

\* The parts "pointer" and "drag".
Pointing == INSTANCE PlatformPartsProofs WITH AppRemoves <- TRUE, Reentrant <- FALSE,
        Keys <- PointerKeys, DeadKeys <- {}, TextInput <- TRUE, MaxId <- PointerMaxId, NoDisplay <- None, StartFails <- TRUE,
        LinkReentrant <- TRUE

-----------------------------------------------------------------------------
(* The parts                                                               *)

LEMMA TreePart ==
    /\ Tree!Init => Base!TreeInv
    /\ Base!TreeInv /\ [Tree!Next]_treeVars => Base!TreeInv'
    /\ Base!TreeInv => Tree!TypeOK /\ Tree!NoDanglingWindow
<1>1. Base!Tree!ConstantsAssumption
  BY PartsAssumption DEF PartsAssumption, Tree!ConstantsAssumption, Base!Tree!ConstantsAssumption
<1>2. Base!Tree!Init <=> Tree!Init
  BY DEF Tree!Init, Base!Tree!Init
<1>3. Base!Tree!Next <=> Tree!Next
  BY DEF Tree!Next, Tree!OpenWindow, Tree!OpenFails, Tree!RemoveWindow, Tree!CompositorClose,
         Tree!KeyboardEnter, Tree!KeyboardLeave, Tree!Close, Tree!Done, Tree!AppRuns, Tree!Unused,
         Tree!Parents, Tree!DropWindow, Tree!Idle, Tree!get_window, Tree!Enter, Tree!RunDropTask,
         Tree!CloseReturns, Tree!CloseChild, Tree!vars, Tree!Frame, Tree!Top, Tree!Below,
         Tree!drop_window, Base!Tree!Next, Base!Tree!OpenWindow, Base!Tree!OpenFails,
         Base!Tree!RemoveWindow, Base!Tree!CompositorClose, Base!Tree!KeyboardEnter,
         Base!Tree!KeyboardLeave, Base!Tree!Close, Base!Tree!Done, Base!Tree!AppRuns,
         Base!Tree!Unused, Base!Tree!Parents, Base!Tree!DropWindow, Base!Tree!Idle,
         Base!Tree!get_window, Base!Tree!Enter, Base!Tree!RunDropTask, Base!Tree!CloseReturns,
         Base!Tree!CloseChild, Base!Tree!vars, Base!Tree!Frame, Base!Tree!Top, Base!Tree!Below,
         Base!Tree!drop_window
<1>4. (UNCHANGED treeVars) => UNCHANGED Base!Tree!vars
  BY DEF treeVars, Base!Tree!vars
<1>5. Base!Tree!TypeOK <=> Tree!TypeOK
  BY DEF Tree!TypeOK, Base!Tree!TypeOK
<1>6. Base!Tree!NoDanglingWindow <=> Tree!NoDanglingWindow
  BY DEF Tree!NoDanglingWindow, Tree!NoOrphans, Tree!ChildrenExist, Tree!FocusIsRegistered,
         Tree!DropTaskFindsWindow, Tree!Idle, Base!Tree!NoDanglingWindow, Base!Tree!NoOrphans,
         Base!Tree!ChildrenExist, Base!Tree!FocusIsRegistered, Base!Tree!DropTaskFindsWindow,
         Base!Tree!Idle
<1> QED
  BY <1>1, <1>2, <1>3, <1>4, <1>5, <1>6, Base!TreeInductive

LEMMA TreeReentrantPart ==
    /\ TreeReentrant!Init => Other!TreeInv
    /\ Other!TreeInv /\ [TreeReentrant!Next]_treeVars => Other!TreeInv'
    /\ Other!TreeInv => TreeReentrant!TypeOK /\ TreeReentrant!NoDanglingWindow
<1>1. Other!Tree!ConstantsAssumption
  BY PartsAssumption DEF PartsAssumption, TreeReentrant!ConstantsAssumption, Other!Tree!ConstantsAssumption
<1>2. Other!Tree!Init <=> TreeReentrant!Init
  BY DEF TreeReentrant!Init, Other!Tree!Init
<1>3. Other!Tree!Next <=> TreeReentrant!Next
  BY DEF TreeReentrant!Next, TreeReentrant!OpenWindow, TreeReentrant!OpenFails,
         TreeReentrant!RemoveWindow, TreeReentrant!CompositorClose, TreeReentrant!KeyboardEnter,
         TreeReentrant!KeyboardLeave, TreeReentrant!Close, TreeReentrant!Done,
         TreeReentrant!AppRuns, TreeReentrant!Unused, TreeReentrant!Parents,
         TreeReentrant!DropWindow, TreeReentrant!Idle, TreeReentrant!get_window,
         TreeReentrant!Enter, TreeReentrant!RunDropTask, TreeReentrant!CloseReturns,
         TreeReentrant!CloseChild, TreeReentrant!vars, TreeReentrant!Frame, TreeReentrant!Top,
         TreeReentrant!Below, TreeReentrant!drop_window, Other!Tree!Next, Other!Tree!OpenWindow,
         Other!Tree!OpenFails, Other!Tree!RemoveWindow, Other!Tree!CompositorClose,
         Other!Tree!KeyboardEnter, Other!Tree!KeyboardLeave, Other!Tree!Close, Other!Tree!Done,
         Other!Tree!AppRuns, Other!Tree!Unused, Other!Tree!Parents, Other!Tree!DropWindow,
         Other!Tree!Idle, Other!Tree!get_window, Other!Tree!Enter, Other!Tree!RunDropTask,
         Other!Tree!CloseReturns, Other!Tree!CloseChild, Other!Tree!vars, Other!Tree!Frame,
         Other!Tree!Top, Other!Tree!Below, Other!Tree!drop_window
<1>4. (UNCHANGED treeVars) => UNCHANGED Other!Tree!vars
  BY DEF treeVars, Other!Tree!vars
<1>5. Other!Tree!TypeOK <=> TreeReentrant!TypeOK
  BY DEF TreeReentrant!TypeOK, Other!Tree!TypeOK
<1>6. Other!Tree!NoDanglingWindow <=> TreeReentrant!NoDanglingWindow
  BY DEF TreeReentrant!NoDanglingWindow, TreeReentrant!NoOrphans, TreeReentrant!ChildrenExist,
         TreeReentrant!FocusIsRegistered, TreeReentrant!DropTaskFindsWindow, TreeReentrant!Idle,
         Other!Tree!NoDanglingWindow, Other!Tree!NoOrphans, Other!Tree!ChildrenExist,
         Other!Tree!FocusIsRegistered, Other!Tree!DropTaskFindsWindow, Other!Tree!Idle
<1> QED
  BY <1>1, <1>2, <1>3, <1>4, <1>5, <1>6, Other!TreeInductive

LEMMA SeatKeysPart ==
    /\ SeatKeys!Init => Base!InputInv
    /\ Base!InputInv /\ [SeatKeys!Next]_seatVars => Base!InputInv'
    /\ Base!InputInv => SeatKeys!TypeOK /\ SeatKeys!InputStaysInItsWindow
<1>1. Base!Input!ConstantsAssumption
  BY PartsAssumption DEF PartsAssumption, SeatKeys!ConstantsAssumption, Base!Input!ConstantsAssumption
<1>2. Base!Input!Init <=> SeatKeys!Init
  BY DEF SeatKeys!Init, Base!Input!Init
<1>3. Base!Input!Next <=> SeatKeys!Next
  BY DEF SeatKeys!Next, SeatKeys!Close, SeatKeys!DropTask, SeatKeys!Dialog, SeatKeys!KeyboardEnter,
         SeatKeys!PointerEnter, SeatKeys!KeyPress, SeatKeys!KeyRelease, SeatKeys!ReleasedElsewhere,
         SeatKeys!RepeatTimer, SeatKeys!PressIgnored, SeatKeys!Release, SeatKeys!Press,
         SeatKeys!Preedit, SeatKeys!Commit, SeatKeys!Done, SeatKeys!KeyboardLeave,
         SeatKeys!PointerLeave, SeatKeys!Motion, SeatKeys!HideCursor, SeatKeys!Stop,
         SeatKeys!pointerVars, SeatKeys!repeatVars, SeatKeys!drop_window, SeatKeys!textVars,
         SeatKeys!get_window, SeatKeys!windowVars, SeatKeys!Feed, SeatKeys!IsRepeating,
         SeatKeys!is_blocked, SeatKeys!press_position, SeatKeys!Strays, SeatKeys!Clears,
         SeatKeys!Shows, SeatKeys!disable_ime, SeatKeys!Unless, Base!Input!Next, Base!Input!Close,
         Base!Input!DropTask, Base!Input!Dialog, Base!Input!KeyboardEnter, Base!Input!PointerEnter,
         Base!Input!KeyPress, Base!Input!KeyRelease, Base!Input!ReleasedElsewhere,
         Base!Input!RepeatTimer, Base!Input!PressIgnored, Base!Input!Release, Base!Input!Press,
         Base!Input!Preedit, Base!Input!Commit, Base!Input!Done, Base!Input!KeyboardLeave,
         Base!Input!PointerLeave, Base!Input!Motion, Base!Input!HideCursor, Base!Input!Stop,
         Base!Input!pointerVars, Base!Input!repeatVars, Base!Input!drop_window, Base!Input!textVars,
         Base!Input!get_window, Base!Input!windowVars, Base!Input!Feed, Base!Input!IsRepeating,
         Base!Input!is_blocked, Base!Input!press_position, Base!Input!Strays, Base!Input!Clears,
         Base!Input!Shows, Base!Input!disable_ime, Base!Input!Unless
<1>4. (UNCHANGED seatVars) => UNCHANGED Base!Input!vars
  BY DEF seatVars, Base!Input!vars, Base!Input!windowVars, Base!Input!pointerVars, Base!Input!repeatVars,
         Base!Input!textVars
<1>5. Base!Input!TypeOK <=> SeatKeys!TypeOK
  BY DEF SeatKeys!TypeOK, SeatKeys!Timers, Base!Input!TypeOK, Base!Input!Timers
<1>6. Base!Input!InputStaysInItsWindow <=> SeatKeys!InputStaysInItsWindow
  BY DEF SeatKeys!InputStaysInItsWindow, SeatKeys!RepeatsHeldKey, SeatKeys!OneRepeat,
         SeatKeys!TextStaysInItsWindow, SeatKeys!MarkedHasKeyboard, SeatKeys!IsRepeating,
         Base!Input!InputStaysInItsWindow, Base!Input!RepeatsHeldKey, Base!Input!OneRepeat,
         Base!Input!TextStaysInItsWindow, Base!Input!MarkedHasKeyboard, Base!Input!IsRepeating
<1> QED
  BY <1>1, <1>2, <1>3, <1>4, <1>5, <1>6, Base!InputInductive

LEMMA SeatTextPart ==
    /\ SeatText!Init => Other!InputInv
    /\ Other!InputInv /\ [SeatText!Next]_seatVars => Other!InputInv'
    /\ Other!InputInv => SeatText!TypeOK /\ SeatText!InputStaysInItsWindow
<1>1. Other!Input!ConstantsAssumption
  BY PartsAssumption DEF PartsAssumption, SeatText!ConstantsAssumption, Other!Input!ConstantsAssumption
<1>2. Other!Input!Init <=> SeatText!Init
  BY DEF SeatText!Init, Other!Input!Init
<1>3. Other!Input!Next <=> SeatText!Next
  BY DEF SeatText!Next, SeatText!Close, SeatText!DropTask, SeatText!Dialog, SeatText!KeyboardEnter,
         SeatText!PointerEnter, SeatText!KeyPress, SeatText!KeyRelease, SeatText!ReleasedElsewhere,
         SeatText!RepeatTimer, SeatText!PressIgnored, SeatText!Release, SeatText!Press,
         SeatText!Preedit, SeatText!Commit, SeatText!Done, SeatText!KeyboardLeave,
         SeatText!PointerLeave, SeatText!Motion, SeatText!HideCursor, SeatText!Stop,
         SeatText!pointerVars, SeatText!repeatVars, SeatText!drop_window, SeatText!textVars,
         SeatText!get_window, SeatText!windowVars, SeatText!Feed, SeatText!IsRepeating,
         SeatText!is_blocked, SeatText!press_position, SeatText!Strays, SeatText!Clears,
         SeatText!Shows, SeatText!disable_ime, SeatText!Unless, Other!Input!Next, Other!Input!Close,
         Other!Input!DropTask, Other!Input!Dialog, Other!Input!KeyboardEnter,
         Other!Input!PointerEnter, Other!Input!KeyPress, Other!Input!KeyRelease,
         Other!Input!ReleasedElsewhere, Other!Input!RepeatTimer, Other!Input!PressIgnored,
         Other!Input!Release, Other!Input!Press, Other!Input!Preedit, Other!Input!Commit,
         Other!Input!Done, Other!Input!KeyboardLeave, Other!Input!PointerLeave, Other!Input!Motion,
         Other!Input!HideCursor, Other!Input!Stop, Other!Input!pointerVars, Other!Input!repeatVars,
         Other!Input!drop_window, Other!Input!textVars, Other!Input!get_window,
         Other!Input!windowVars, Other!Input!Feed, Other!Input!IsRepeating, Other!Input!is_blocked,
         Other!Input!press_position, Other!Input!Strays, Other!Input!Clears, Other!Input!Shows,
         Other!Input!disable_ime, Other!Input!Unless
<1>4. (UNCHANGED seatVars) => UNCHANGED Other!Input!vars
  BY DEF seatVars, Other!Input!vars, Other!Input!windowVars, Other!Input!pointerVars, Other!Input!repeatVars,
         Other!Input!textVars
<1>5. Other!Input!TypeOK <=> SeatText!TypeOK
  BY DEF SeatText!TypeOK, SeatText!Timers, Other!Input!TypeOK, Other!Input!Timers
<1>6. Other!Input!InputStaysInItsWindow <=> SeatText!InputStaysInItsWindow
  BY DEF SeatText!InputStaysInItsWindow, SeatText!RepeatsHeldKey, SeatText!OneRepeat,
         SeatText!TextStaysInItsWindow, SeatText!MarkedHasKeyboard, SeatText!IsRepeating,
         Other!Input!InputStaysInItsWindow, Other!Input!RepeatsHeldKey, Other!Input!OneRepeat,
         Other!Input!TextStaysInItsWindow, Other!Input!MarkedHasKeyboard, Other!Input!IsRepeating
<1> QED
  BY <1>1, <1>2, <1>3, <1>4, <1>5, <1>6, Other!InputInductive

LEMMA SeatPointerPart ==
    /\ SeatPointer!Init => Pointing!InputInv
    /\ Pointing!InputInv /\ [SeatPointer!Next]_seatVars => Pointing!InputInv'
    /\ Pointing!InputInv => /\ SeatPointer!TypeOK /\ SeatPointer!PressIsAdmitted
                            /\ SeatPointer!PressedIsDown /\ SeatPointer!HiddenUnderPointer
                            /\ SeatPointer!PointerHasLocation
<1>1. Pointing!Input!ConstantsAssumption
  BY PartsAssumption DEF PartsAssumption, SeatPointer!ConstantsAssumption, Pointing!Input!ConstantsAssumption
<1>2. Pointing!Input!Init <=> SeatPointer!Init
  BY DEF SeatPointer!Init, Pointing!Input!Init
<1>3. Pointing!Input!Next <=> SeatPointer!Next
  BY DEF SeatPointer!Next, SeatPointer!Close, SeatPointer!DropTask, SeatPointer!Dialog,
         SeatPointer!KeyboardEnter, SeatPointer!PointerEnter, SeatPointer!KeyPress,
         SeatPointer!KeyRelease, SeatPointer!ReleasedElsewhere, SeatPointer!RepeatTimer,
         SeatPointer!PressIgnored, SeatPointer!Release, SeatPointer!Press, SeatPointer!Preedit,
         SeatPointer!Commit, SeatPointer!Done, SeatPointer!KeyboardLeave, SeatPointer!PointerLeave,
         SeatPointer!Motion, SeatPointer!HideCursor, SeatPointer!Stop, SeatPointer!pointerVars,
         SeatPointer!repeatVars, SeatPointer!drop_window, SeatPointer!textVars,
         SeatPointer!get_window, SeatPointer!windowVars, SeatPointer!Feed, SeatPointer!IsRepeating,
         SeatPointer!is_blocked, SeatPointer!press_position, SeatPointer!Strays, SeatPointer!Clears,
         SeatPointer!Shows, SeatPointer!disable_ime, SeatPointer!Unless, Pointing!Input!Next,
         Pointing!Input!Close, Pointing!Input!DropTask, Pointing!Input!Dialog,
         Pointing!Input!KeyboardEnter, Pointing!Input!PointerEnter, Pointing!Input!KeyPress,
         Pointing!Input!KeyRelease, Pointing!Input!ReleasedElsewhere, Pointing!Input!RepeatTimer,
         Pointing!Input!PressIgnored, Pointing!Input!Release, Pointing!Input!Press,
         Pointing!Input!Preedit, Pointing!Input!Commit, Pointing!Input!Done,
         Pointing!Input!KeyboardLeave, Pointing!Input!PointerLeave, Pointing!Input!Motion,
         Pointing!Input!HideCursor, Pointing!Input!Stop, Pointing!Input!pointerVars,
         Pointing!Input!repeatVars, Pointing!Input!drop_window, Pointing!Input!textVars,
         Pointing!Input!get_window, Pointing!Input!windowVars, Pointing!Input!Feed,
         Pointing!Input!IsRepeating, Pointing!Input!is_blocked, Pointing!Input!press_position,
         Pointing!Input!Strays, Pointing!Input!Clears, Pointing!Input!Shows,
         Pointing!Input!disable_ime, Pointing!Input!Unless
<1>4. (UNCHANGED seatVars) => UNCHANGED Pointing!Input!vars
  BY DEF seatVars, Pointing!Input!vars, Pointing!Input!windowVars, Pointing!Input!pointerVars,
         Pointing!Input!repeatVars, Pointing!Input!textVars
<1>5. Pointing!Input!TypeOK <=> SeatPointer!TypeOK
  BY DEF SeatPointer!TypeOK, SeatPointer!Timers, Pointing!Input!TypeOK, Pointing!Input!Timers
<1>6. Pointing!Input!PressIsAdmitted <=> SeatPointer!PressIsAdmitted
  BY DEF SeatPointer!PressIsAdmitted, Pointing!Input!PressIsAdmitted
<1>7. Pointing!Input!PressedIsDown <=> SeatPointer!PressedIsDown
  BY DEF SeatPointer!PressedIsDown, Pointing!Input!PressedIsDown
<1>8. Pointing!Input!HiddenUnderPointer <=> SeatPointer!HiddenUnderPointer
  BY DEF SeatPointer!HiddenUnderPointer, Pointing!Input!HiddenUnderPointer
<1>9. Pointing!Input!PointerHasLocation <=> SeatPointer!PointerHasLocation
  BY DEF SeatPointer!PointerHasLocation, Pointing!Input!PointerHasLocation
<1> QED
  BY <1>1, <1>2, <1>3, <1>4, <1>5, <1>6, <1>7, <1>8, <1>9, Pointing!InputInductive

LEMMA DragPart ==
    /\ Drag!Init => Pointing!DragInv
    /\ Pointing!DragInv /\ [Drag!Next]_dragVars => Pointing!DragInv'
    /\ Pointing!DragInv => /\ Drag!TypeOK /\ Drag!DragIsCurrent /\ Drag!OneOwnDrag
                           /\ Drag!NoOfferLeaked
<1>1. Pointing!Drag!ConstantsAssumption
  BY PartsAssumption DEF PartsAssumption, Drag!ConstantsAssumption, Pointing!Drag!ConstantsAssumption
<1>2. Pointing!Drag!Init <=> Drag!Init
  BY DEF Drag!Init, Drag!NoSession, Drag!NoDrag, Drag!NoPlatformDrag, Pointing!Drag!Init,
         Pointing!Drag!NoSession, Pointing!Drag!NoDrag, Pointing!Drag!NoPlatformDrag
<1>3. Pointing!Drag!Next <=> Drag!Next
  BY DEF Drag!Next, Drag!Offers, Drag!SelectionChanged, Drag!SelectionCleared, Drag!Enter,
         Drag!CompleteUriRead, Drag!ReadEmpty, Drag!ReadFailed, Drag!Leave, Drag!Drop,
         Drag!StartDrag, Drag!MouseUp, Drag!StopActiveDrag, Drag!StartExternalDrag, Drag!Close,
         Drag!Dialog, Drag!ExternalDragEnded, Drag!Introduce, Drag!ownVars, Drag!windowVars,
         Drag!offerVars, Drag!begin_uri_read, Drag!Hears, Drag!Entered, Drag!Exited, Drag!Submit,
         Drag!MissEnd, Drag!DragEnded, Drag!EndPlatformDrag, Drag!Ended, Drag!NoSession,
         Drag!NoDrag, Drag!NoPlatformDrag, Pointing!Drag!Next, Pointing!Drag!Offers,
         Pointing!Drag!SelectionChanged, Pointing!Drag!SelectionCleared, Pointing!Drag!Enter,
         Pointing!Drag!CompleteUriRead, Pointing!Drag!ReadEmpty, Pointing!Drag!ReadFailed,
         Pointing!Drag!Leave, Pointing!Drag!Drop, Pointing!Drag!StartDrag, Pointing!Drag!MouseUp,
         Pointing!Drag!StopActiveDrag, Pointing!Drag!StartExternalDrag, Pointing!Drag!Close,
         Pointing!Drag!Dialog, Pointing!Drag!ExternalDragEnded, Pointing!Drag!Introduce,
         Pointing!Drag!ownVars, Pointing!Drag!windowVars, Pointing!Drag!offerVars,
         Pointing!Drag!begin_uri_read, Pointing!Drag!Hears, Pointing!Drag!Entered,
         Pointing!Drag!Exited, Pointing!Drag!Submit, Pointing!Drag!MissEnd, Pointing!Drag!DragEnded,
         Pointing!Drag!EndPlatformDrag, Pointing!Drag!Ended, Pointing!Drag!NoSession,
         Pointing!Drag!NoDrag, Pointing!Drag!NoPlatformDrag
<1>4. (UNCHANGED dragVars) => UNCHANGED Pointing!Drag!vars
  BY DEF dragVars, Pointing!Drag!vars
<1>5. Pointing!Drag!TypeOK <=> Drag!TypeOK
  BY DEF Drag!TypeOK, Drag!Offers, Drag!DragKinds, Pointing!Drag!TypeOK, Pointing!Drag!Offers,
         Pointing!Drag!DragKinds
<1>6. Pointing!Drag!DragIsCurrent <=> Drag!DragIsCurrent
  BY DEF Drag!DragIsCurrent, Pointing!Drag!DragIsCurrent
<1>7. Pointing!Drag!OneOwnDrag <=> Drag!OneOwnDrag
  BY DEF Drag!OneOwnDrag, Drag!NoPlatformDrag, Pointing!Drag!OneOwnDrag,
         Pointing!Drag!NoPlatformDrag
<1>8. Pointing!Drag!NoOfferLeaked <=> Drag!NoOfferLeaked
  BY DEF Drag!NoOfferLeaked, Pointing!Drag!NoOfferLeaked
<1> QED
  BY <1>1, <1>2, <1>3, <1>4, <1>5, <1>6, <1>7, <1>8, Pointing!DragInductive

LEMMA SizePart ==
    /\ Size!Init => Base!SizeInv
    /\ Base!SizeInv /\ [Size!Next]_sizeVars => Base!SizeInv'
    /\ Base!SizeInv => Size!TypeOK /\ Size!SettlesOnConfigured /\ Size!DestinationFitsBuffer
<1>1. Base!Size!ConstantsAssumption
  BY PartsAssumption DEF PartsAssumption, Size!ConstantsAssumption, Base!Size!ConstantsAssumption
<1>2. Base!Size!Init <=> Size!Init
  BY DEF Size!Init, Size!InitialSize, Size!NoConfigure, Base!Size!Init, Base!Size!InitialSize,
         Base!Size!NoConfigure
<1>3. Base!Size!Next <=> Size!Next
  BY DEF Size!Next, Size!ToplevelConfigure, Size!SurfaceConfigure, Size!AppResize,
         Size!AppResizeTask, Size!Frame, Size!FrameFails, Size!SetInputRegion, Size!CommitState,
         Size!stateVars, Size!Throttled, Size!NewSize, Size!Resize, Size!compute_outer_size,
         Size!NoConfigure, Base!Size!Next, Base!Size!ToplevelConfigure, Base!Size!SurfaceConfigure,
         Base!Size!AppResize, Base!Size!AppResizeTask, Base!Size!Frame, Base!Size!FrameFails,
         Base!Size!SetInputRegion, Base!Size!CommitState, Base!Size!stateVars, Base!Size!Throttled,
         Base!Size!NewSize, Base!Size!Resize, Base!Size!compute_outer_size, Base!Size!NoConfigure
<1>4. (UNCHANGED sizeVars) => UNCHANGED Base!Size!vars
  BY DEF sizeVars, Base!Size!vars
<1>5. Base!Size!TypeOK <=> Size!TypeOK
  BY DEF Size!TypeOK, Base!Size!TypeOK
<1>6. Base!Size!SettlesOnConfigured <=> Size!SettlesOnConfigured
  BY DEF Size!SettlesOnConfigured, Size!compute_outer_size, Base!Size!SettlesOnConfigured,
         Base!Size!compute_outer_size
<1>7. Base!Size!DestinationFitsBuffer <=> Size!DestinationFitsBuffer
  BY DEF Size!DestinationFitsBuffer, Base!Size!DestinationFitsBuffer
<1> QED
  BY <1>1, <1>2, <1>3, <1>4, <1>5, <1>6, <1>7, Base!SizeInductive

LEMMA SerialPart ==
    /\ Serial!Init => Base!SerialInv
    /\ Base!SerialInv /\ [Serial!Next]_serialVars => Base!SerialInv'
    /\ Base!SerialInv => /\ Serial!TypeOK /\ Serial!GrabCitesLatestPress
                         /\ Serial!SelectionCitesLatestPress
<1>1. Base!Serial!ConstantsAssumption
  BY PartsAssumption DEF PartsAssumption, Serial!ConstantsAssumption, Serial!Stamp, Serial!Serial,
     Base!Serial!ConstantsAssumption, Base!Serial!Stamp, Base!Serial!Serial
<1>2. Base!Serial!Init <=> Serial!Init
  BY DEF Serial!Init, Serial!Serial, Serial!SerialKind, Serial!Presses, Base!Serial!Init,
         Base!Serial!Serial, Base!Serial!SerialKind, Base!Serial!Presses
<1>3. Base!Serial!Next <=> Serial!Next
  BY DEF Serial!Next, Serial!SerialKind, Serial!Presses, Serial!Event, Serial!Later, Serial!update,
         Serial!SetSelection, Serial!OpenPopup, Serial!popup_grab, Serial!Max, Serial!get,
         Base!Serial!Next, Base!Serial!SerialKind, Base!Serial!Presses, Base!Serial!Event,
         Base!Serial!Later, Base!Serial!update, Base!Serial!SetSelection, Base!Serial!OpenPopup,
         Base!Serial!popup_grab, Base!Serial!Max, Base!Serial!get
<1>4. (UNCHANGED serialVars) => UNCHANGED Base!Serial!vars
  BY DEF serialVars, Base!Serial!vars
<1>5. Base!Serial!TypeOK <=> Serial!TypeOK
  BY DEF Serial!TypeOK, Serial!Serial, Serial!SerialKind, Serial!Presses, Serial!Stamp,
         Base!Serial!TypeOK, Base!Serial!Serial, Base!Serial!SerialKind, Base!Serial!Presses,
         Base!Serial!Stamp
<1>6. Base!Serial!GrabCitesLatestPress <=> Serial!GrabCitesLatestPress
  BY DEF Serial!GrabCitesLatestPress, Serial!Presses, Serial!IsLatest, Serial!SameEpoch,
         Serial!After, Base!Serial!GrabCitesLatestPress, Base!Serial!Presses, Base!Serial!IsLatest,
         Base!Serial!SameEpoch, Base!Serial!After
<1>7. Base!Serial!SelectionCitesLatestPress <=> Serial!SelectionCitesLatestPress
  BY DEF Serial!SelectionCitesLatestPress, Serial!Presses, Serial!IsLatest, Serial!After,
         Base!Serial!SelectionCitesLatestPress, Base!Serial!Presses, Base!Serial!IsLatest,
         Base!Serial!After
<1> QED
  BY <1>1, <1>2, <1>3, <1>4, <1>5, <1>6, <1>7, Base!SerialInductive

LEMMA LinkPart ==
    /\ Link!Init => Base!LinkInv
    /\ Base!LinkInv /\ [Link!Next]_linkVars => Base!LinkInv'
    /\ Base!LinkInv => /\ Link!TypeOK /\ Link!PacedByItsScreen /\ Link!LinkRunsIffSubscribed
                       /\ Link!SubscribedIsRegistered /\ Link!FreedIsQuiet
<1>1. Base!Link!ConstantsAssumption
  BY PartsAssumption DEF PartsAssumption, Link!ConstantsAssumption, Base!Link!ConstantsAssumption
<1>2. Base!Link!Init <=> Link!Init
  BY DEF Link!Init, Base!Link!Init
<1>3. Base!Link!Next <=> Link!Next
  BY DEF Link!Next, Link!Main, Link!AllFreed, Link!OutputCallback, Link!DidChangeOcclusion,
         Link!DidChangeScreen, Link!DisplayLayer, Link!Step, Link!DropWindow, Link!Dealloc,
         Link!Occlude, Link!Move, Link!StopLink, Link!StartLink, Link!StartLinkFails,
         Link!LookElsewhere, Link!Look, Link!Restart, Link!StepDone, Link!Draw, Link!CancelSource,
         Link!Free, Link!vars, Link!registry, Link!appKit, Link!StartDisplayLink, Link!Unsubscribe,
         Link!coreVideo, Link!Do, Link!DropSource, Link!At, Link!Rest, Link!Arg, Link!Subscribe,
         Link!CreateFails, Link!Subscribers, Base!Link!Next, Base!Link!Main, Base!Link!AllFreed,
         Base!Link!OutputCallback, Base!Link!DidChangeOcclusion, Base!Link!DidChangeScreen,
         Base!Link!DisplayLayer, Base!Link!Step, Base!Link!DropWindow, Base!Link!Dealloc,
         Base!Link!Occlude, Base!Link!Move, Base!Link!StopLink, Base!Link!StartLink,
         Base!Link!StartLinkFails, Base!Link!LookElsewhere, Base!Link!Look, Base!Link!Restart,
         Base!Link!StepDone, Base!Link!Draw, Base!Link!CancelSource, Base!Link!Free, Base!Link!vars,
         Base!Link!registry, Base!Link!appKit, Base!Link!StartDisplayLink, Base!Link!Unsubscribe,
         Base!Link!coreVideo, Base!Link!Do, Base!Link!DropSource, Base!Link!At, Base!Link!Rest,
         Base!Link!Arg, Base!Link!Subscribe, Base!Link!CreateFails, Base!Link!Subscribers
<1>4. (UNCHANGED linkVars) => UNCHANGED Base!Link!vars
  BY DEF linkVars, Base!Link!vars, Base!Link!registry, Base!Link!coreVideo, Base!Link!appKit
<1>5. Base!Link!TypeOK <=> Link!TypeOK
  BY DEF Link!TypeOK, Base!Link!TypeOK
<1>6. Base!Link!PacedByItsScreen <=> Link!PacedByItsScreen
  BY DEF Link!PacedByItsScreen, Base!Link!PacedByItsScreen
<1>7. Base!Link!LinkRunsIffSubscribed <=> Link!LinkRunsIffSubscribed
  BY DEF Link!LinkRunsIffSubscribed, Link!Subscribers, Base!Link!LinkRunsIffSubscribed,
         Base!Link!Subscribers
<1>8. Base!Link!SubscribedIsRegistered <=> Link!SubscribedIsRegistered
  BY DEF Link!SubscribedIsRegistered, Base!Link!SubscribedIsRegistered
<1>9. Base!Link!FreedIsQuiet <=> Link!FreedIsQuiet
  BY DEF Link!FreedIsQuiet, Base!Link!FreedIsQuiet
<1> QED
  BY <1>1, <1>2, <1>3, <1>4, <1>5, <1>6, <1>7, <1>8, <1>9, Base!LinkInductive

LEMMA LinkScreensPart ==
    /\ LinkScreens!Init => Other!LinkInv
    /\ Other!LinkInv /\ [LinkScreens!Next]_linkVars => Other!LinkInv'
    /\ Other!LinkInv => /\ LinkScreens!TypeOK /\ LinkScreens!PacedByItsScreen
                        /\ LinkScreens!LinkRunsIffSubscribed /\ LinkScreens!SubscribedIsRegistered
                        /\ LinkScreens!FreedIsQuiet
<1>1. Other!Link!ConstantsAssumption
  BY PartsAssumption DEF PartsAssumption, LinkScreens!ConstantsAssumption, Other!Link!ConstantsAssumption
<1>2. Other!Link!Init <=> LinkScreens!Init
  BY DEF LinkScreens!Init, Other!Link!Init
<1>3. Other!Link!Next <=> LinkScreens!Next
  BY DEF LinkScreens!Next, LinkScreens!Main, LinkScreens!AllFreed, LinkScreens!OutputCallback,
         LinkScreens!DidChangeOcclusion, LinkScreens!DidChangeScreen, LinkScreens!DisplayLayer,
         LinkScreens!Step, LinkScreens!DropWindow, LinkScreens!Dealloc, LinkScreens!Occlude,
         LinkScreens!Move, LinkScreens!StopLink, LinkScreens!StartLink, LinkScreens!StartLinkFails,
         LinkScreens!LookElsewhere, LinkScreens!Look, LinkScreens!Restart, LinkScreens!StepDone,
         LinkScreens!Draw, LinkScreens!CancelSource, LinkScreens!Free, LinkScreens!vars,
         LinkScreens!registry, LinkScreens!appKit, LinkScreens!StartDisplayLink,
         LinkScreens!Unsubscribe, LinkScreens!coreVideo, LinkScreens!Do, LinkScreens!DropSource,
         LinkScreens!At, LinkScreens!Rest, LinkScreens!Arg, LinkScreens!Subscribe,
         LinkScreens!CreateFails, LinkScreens!Subscribers, Other!Link!Next, Other!Link!Main,
         Other!Link!AllFreed, Other!Link!OutputCallback, Other!Link!DidChangeOcclusion,
         Other!Link!DidChangeScreen, Other!Link!DisplayLayer, Other!Link!Step,
         Other!Link!DropWindow, Other!Link!Dealloc, Other!Link!Occlude, Other!Link!Move,
         Other!Link!StopLink, Other!Link!StartLink, Other!Link!StartLinkFails,
         Other!Link!LookElsewhere, Other!Link!Look, Other!Link!Restart, Other!Link!StepDone,
         Other!Link!Draw, Other!Link!CancelSource, Other!Link!Free, Other!Link!vars,
         Other!Link!registry, Other!Link!appKit, Other!Link!StartDisplayLink,
         Other!Link!Unsubscribe, Other!Link!coreVideo, Other!Link!Do, Other!Link!DropSource,
         Other!Link!At, Other!Link!Rest, Other!Link!Arg, Other!Link!Subscribe,
         Other!Link!CreateFails, Other!Link!Subscribers
<1>4. (UNCHANGED linkVars) => UNCHANGED Other!Link!vars
  BY DEF linkVars, Other!Link!vars, Other!Link!registry, Other!Link!coreVideo, Other!Link!appKit
<1>5. Other!Link!TypeOK <=> LinkScreens!TypeOK
  BY DEF LinkScreens!TypeOK, Other!Link!TypeOK
<1>6. Other!Link!PacedByItsScreen <=> LinkScreens!PacedByItsScreen
  BY DEF LinkScreens!PacedByItsScreen, Other!Link!PacedByItsScreen
<1>7. Other!Link!LinkRunsIffSubscribed <=> LinkScreens!LinkRunsIffSubscribed
  BY DEF LinkScreens!LinkRunsIffSubscribed, LinkScreens!Subscribers,
         Other!Link!LinkRunsIffSubscribed, Other!Link!Subscribers
<1>8. Other!Link!SubscribedIsRegistered <=> LinkScreens!SubscribedIsRegistered
  BY DEF LinkScreens!SubscribedIsRegistered, Other!Link!SubscribedIsRegistered
<1>9. Other!Link!FreedIsQuiet <=> LinkScreens!FreedIsQuiet
  BY DEF LinkScreens!FreedIsQuiet, Other!Link!FreedIsQuiet
<1> QED
  BY <1>1, <1>2, <1>3, <1>4, <1>5, <1>6, <1>7, <1>8, <1>9, Other!LinkInductive

-----------------------------------------------------------------------------
(* The composition                                                         *)

\* The inductive invariant: of each part, the one of its component.
PlatformInv ==
    /\ part = "tree" => Base!TreeInv
    /\ part = "reentrant" => Other!TreeInv
    /\ part = "keys" => Base!InputInv
    /\ part = "text" => Other!InputInv
    /\ part = "pointer" => Pointing!InputInv
    /\ Pointing!DragInv
    /\ Base!SizeInv
    /\ Base!SerialInv
    /\ part = "link" => Base!LinkInv
    /\ part = "screens" => Other!LinkInv

LEMMA PlatformInit == Init => PlatformInv
  BY TreePart, TreeReentrantPart, SeatKeysPart, SeatTextPart, SeatPointerPart, DragPart, SizePart,
     SerialPart, LinkPart, LinkScreensPart DEF Init, PlatformInv

LEMMA PlatformStep == PlatformInv /\ [Next]_vars => PlatformInv'
<1> SUFFICES ASSUME PlatformInv, [Next]_vars PROVE PlatformInv'
  OBVIOUS
<1>0. part' = part
  BY DEF Next, vars
<1>1. /\ part = "tree" => [Tree!Next]_treeVars
      /\ part = "reentrant" => [TreeReentrant!Next]_treeVars
  BY DEF Next, vars
<1>2. /\ part = "keys" => [SeatKeys!Next]_seatVars
      /\ part = "text" => [SeatText!Next]_seatVars
      /\ part = "pointer" => [SeatPointer!Next]_seatVars
  BY DEF Next, vars
<1>3. [Drag!Next]_dragVars /\ [Serial!Next]_serialVars /\ [Size!Next]_sizeVars
  BY DEF Next, vars
<1>5. /\ part = "link" => [Link!Next]_linkVars
      /\ part = "screens" => [LinkScreens!Next]_linkVars
  BY DEF Next, vars
<1>6. (part = "tree" => Base!TreeInv)' /\ (part = "reentrant" => Other!TreeInv)'
  BY <1>0, <1>1, TreePart, TreeReentrantPart DEF PlatformInv
<1>7. (part = "keys" => Base!InputInv)' /\ (part = "text" => Other!InputInv)'
  BY <1>0, <1>2, SeatKeysPart, SeatTextPart DEF PlatformInv
<1>8. (part = "pointer" => Pointing!InputInv)'
  BY <1>0, <1>2, SeatPointerPart DEF PlatformInv
<1>9. Pointing!DragInv'
  BY <1>3, DragPart DEF PlatformInv
<1>10. Base!SizeInv' /\ Base!SerialInv'
  BY <1>3, SizePart, SerialPart DEF PlatformInv
<1>11. (part = "link" => Base!LinkInv)' /\ (part = "screens" => Other!LinkInv)'
  BY <1>0, <1>5, LinkPart, LinkScreensPart DEF PlatformInv
<1> QED
  BY <1>6, <1>7, <1>8, <1>9, <1>10, <1>11 DEF PlatformInv

LEMMA PlatformInvariant == Spec => []PlatformInv
  BY PlatformInit, PlatformStep, PTL DEF Spec

\* Nothing in the tree of Wayland windows outlives what it refers to, however many windows there
\* are, however deep they are nested, and in whatever order the compositor and the application close
\* them: an entry in a parent's children has a surface, the focus is registered, a drop task finds
\* its window once, and no dialog or popup outlives its parent's registration unless the application
\* opens or removes windows in close callbacks.
THEOREM NothingDangles == Spec => []NoDanglingWindow
<1>1. PlatformInv => NoDanglingWindow
  BY TreePart, TreeReentrantPart DEF PlatformInv, NoDanglingWindow
<1> QED
  BY <1>1, PlatformInvariant, PTL

\* What is typed stays where it was typed, for any number of windows and keys, although a repeat
\* timer checks neither the key nor the window: a key repeats only while it is held and only in the
\* window it was pressed in, by one timer; composed text goes to the window it was composed in and is
\* marked only where the keyboard is, while no window closes or gets a dialog.
THEOREM TypedInputStays == Spec => []InputStaysInItsWindow
<1>1. PlatformInv => InputStaysInItsWindow
  BY SeatKeysPart, SeatTextPart DEF PlatformInv, InputStaysInItsWindow
<1> QED
  BY <1>1, PlatformInvariant, PTL

\* A press goes to a window that is open and unblocked after the callbacks that end its composition,
\* a button that a window believes pressed is down, the hidden cursor is the one under the pointer, and
\* its position is known wherever the handlers unwrap it: for any windows and buttons.
THEOREM PressesAreAdmitted == Spec => []PressIsAdmitted
<1>1. PlatformInv => PressIsAdmitted
  BY SeatPointerPart DEF PlatformInv, PressIsAdmitted
<1> QED
  BY <1>1, PlatformInvariant, PTL

\* No read that ends late brings back a drag that has left, was dropped or was followed by another,
\* and the offer of a drag whose paths were read is destroyed once the drag is over; files or a drag
\* of our own stay behind only in a window that did not hear the end, closed or behind its dialog:
\* for any number of windows and of offers, in whatever order reads, drags and dialogs end.
THEOREM DragsAreCurrent == Spec => []DragIsCurrent
<1>1. PlatformInv => DragIsCurrent
  BY DragPart DEF PlatformInv, DragIsCurrent
<1> QED
  BY <1>1, PlatformInvariant, PTL

\* A window settles on the size that the compositor asked for last, whatever throttling dropped
\* before, and the destination on the screen fits the buffer on the screen unless the last commit
\* attached no buffer, after a failed draw or for an input region: for any sizes, decorations and
\* number of configures.
THEOREM SizeSettles == Spec => []SettlesOnConfigured
<1>1. PlatformInv => SettlesOnConfigured
  BY SizePart DEF PlatformInv, SettlesOnConfigured
<1> QED
  BY <1>1, PlatformInvariant, PTL

\* A popup's grab cites the press that came last, although it compares the serials of the two kinds
\* of press by size, unless a rollover separates them or the serial is 0; set_selection, which keeps
\* the order of arrival, always does: for any number of serials before the counter rolls over.
THEOREM RequestsCiteLatestPress == Spec => []GrabCitesLatestPress
<1>1. PlatformInv => GrabCitesLatestPress
  BY SerialPart DEF PlatformInv, GrabCitesLatestPress
<1> QED
  BY <1>1, PlatformInvariant, PTL

\* The registry of display links is in step with CoreVideo and with the windows, however many
\* windows and displays there are, whatever starts fail, and although a link calls back between
\* any two steps of the main thread: a window whose notifications are delivered is paced by the
\* display it is on, a link runs for whom it has subscribers, a window is subscribed once and
\* nothing reaches a view that is gone.
THEOREM WindowsArePaced == Spec => []PacedByItsScreen
<1>1. PlatformInv => PacedByItsScreen
  BY LinkPart, LinkScreensPart DEF PlatformInv, PacedByItsScreen
<1> QED
  BY <1>1, PlatformInvariant, PTL
=============================================================================
