------------------------------ MODULE X11Read -------------------------------
(***************************************************************************)
(* Reading a selection of another client under X11 (x11/clipboard.rs,      *)
(* Inner::read): the formats are asked for with TARGETS, then the first    *)
(* usable one is converted; without an answer to TARGETS the formats are   *)
(* tried one after the other.  All conversions of a read go through one    *)
(* window and one property, large contents come in chunks (INCR), and each *)
(* conversion gives up after a time in which nothing came.                 *)
(*                                                                         *)
(* The owner of the selection and the X server are external.  The owner    *)
(* takes its events in order; a content is the sequence of its chunks.     *)
(***************************************************************************)
EXTENDS Naturals, Sequences, SequencesExt

CONSTANTS
    Large,       \* formats whose content comes in chunks
    Chunks       \* number of chunks of a large content

\* format_atoms of get_any, in the order of preference: images before texts.
Formats == <<"image/png", "UTF8_STRING", "STRING">>

\* What the constants have to be; the runs check it.
ConstantsAssumption ==
    /\ Large \subseteq Range(Formats)
    /\ Chunks \in Nat

VARIABLES
    supports,    \* the formats of this owner
    lists,       \* whether it answers TARGETS
    inbox,       \* events of the owner: conversions, and deletions of the property
    transfer,    \* its INCR transfer: format and chunks to come
    property,    \* ARBOARD_CLIPBOARD of the reader's window
    events,      \* events of the reader's window
    stage,       \* what read does: "targets", "chosen", "fallback", "done"
    index,       \* the format it tries
    target,      \* target_format of read_single
    using_incr,
    incr_data,
    result,      \* what read returns
    timeouts     \* number of conversions that timed out

ownervars == <<supports, lists, transfer>>
vars == <<ownervars, inbox, property, events, stage, index, target, using_incr, incr_data,
          result, timeouts>>

TARGETS == "TARGETS"
NoProperty == [type |-> "None", value |-> <<>>]
NoTransfer == [format |-> "None", rest |-> <<>>]
Failed == [ok |-> FALSE, format |-> "None", bytes |-> <<>>]
Pending == [ok |-> FALSE, format |-> "Pending", bytes |-> <<>>]
Ok(f, b) == [ok |-> TRUE, format |-> f, bytes |-> b]

\* The chunks of a content, each known by its format and its place.
Content(f) == [i \in 1..(IF f \in Large THEN Chunks ELSE 1) |-> <<f, i>>]

Convert(t) == [type |-> "convert", target |-> t]
Deleted == [type |-> "deleted", target |-> "None"]
SelNotify(t, ok) == [type |-> "SelectionNotify", target |-> t, ok |-> ok]
PropNotify == [type |-> "PropertyNotify", target |-> "None", ok |-> TRUE]

Init ==
    /\ supports \in SUBSET Range(Formats)
    /\ lists \in BOOLEAN
    /\ inbox = <<Convert(TARGETS)>>
    /\ transfer = NoTransfer
    /\ property = NoProperty
    /\ events = <<>>
    /\ stage = "targets"
    /\ index = 1
    /\ target = TARGETS
    /\ using_incr = FALSE
    /\ incr_data = <<>>
    /\ result = Pending
    /\ timeouts = 0

-----------------------------------------------------------------------------
(* The owner.                                                              *)

\* It answers a conversion: refused, written whole, or announced as INCR.
OwnerConverts ==
    /\ inbox # <<>>
    /\ Head(inbox).type = "convert"
    /\ inbox' = Tail(inbox)
    /\ LET t == Head(inbox).target
           Answer(p) == /\ property' = p
                        /\ events' = events \o <<PropNotify, SelNotify(t, TRUE)>>
       IN CASE t = TARGETS /\ lists ->
                 Answer([type |-> "ATOM", value |-> <<supports>>]) /\ UNCHANGED transfer
            [] t \in supports \ Large ->
                 Answer([type |-> t, value |-> Content(t)]) /\ UNCHANGED transfer
            [] t \in supports \cap Large ->
                 /\ Answer([type |-> "INCR", value |-> <<>>])
                 /\ transfer' = [format |-> t, rest |-> Content(t)]
            [] OTHER ->
                 /\ events' = Append(events, SelNotify(t, FALSE))
                 /\ UNCHANGED <<property, transfer>>
    /\ UNCHANGED <<supports, lists, stage, index, target, using_incr, incr_data, result, timeouts>>

\* The property was deleted: the next chunk, an empty one after the last.
OwnerSendsChunk ==
    /\ inbox # <<>>
    /\ Head(inbox) = Deleted
    /\ inbox' = Tail(inbox)
    /\ IF transfer = NoTransfer
       THEN UNCHANGED <<property, events, transfer>>
       ELSE /\ property' = [type |-> transfer.format, value |-> IF transfer.rest = <<>> THEN <<>>
                                                          ELSE <<Head(transfer.rest)>>]
            /\ events' = Append(events, PropNotify)
            /\ transfer' = IF transfer.rest = <<>> THEN NoTransfer
                           ELSE [transfer EXCEPT !.rest = Tail(@)]
    /\ UNCHANGED <<supports, lists, stage, index, target, using_incr, incr_data, result, timeouts>>

-----------------------------------------------------------------------------
(* The reader.                                                             *)

\* Deleting a property that is there tells the owner.
DeletionOf(p) == IF p = NoProperty THEN <<>> ELSE <<Deleted>>

\* read_single: the property is deleted and the selection converted to another target.
ReadSingle(t, in, p) ==
    /\ inbox' = in \o DeletionOf(p) \o <<Convert(t)>>
    /\ property' = NoProperty
    /\ target' = t
    /\ using_incr' = FALSE
    /\ incr_data' = <<>>

\* read returns.
Return(r, in, p) ==
    /\ result' = r
    /\ stage' = "done"
    /\ inbox' = in
    /\ property' = p
    /\ UNCHANGED <<index, target, using_incr, incr_data>>

\* The first format of the preference that the owner lists.
FirstListed(listed) == SelectInSeq(Formats, LAMBDA f : f \in listed)

\* The fallback of read: each format in turn, those that failed are skipped.
Fallback(i, in, p) ==
    IF i > Len(Formats)
    THEN Return(Failed, in, p)
    ELSE /\ stage' = "fallback"
         /\ index' = i
         /\ ReadSingle(Formats[i], in, p)
         /\ UNCHANGED result

\* read_single returned ContentNotAvailable.
SingleFails(in, p) ==
    CASE stage = "targets" -> Fallback(1, in, p)
      [] stage = "chosen" -> Return(Failed, in, p)
      [] stage = "fallback" -> Fallback(index + 1, in, p)

\* read_single returned data of some format.
SingleReturns(format, bytes, in, p) ==
    CASE stage = "targets" ->
           LET i == IF format = "ATOM" THEN FirstListed(bytes[1]) ELSE 0
           IN IF i = 0 THEN Fallback(1, in, p)
              ELSE /\ stage' = "chosen"
                   /\ index' = i
                   /\ ReadSingle(Formats[i], in, p)
                   /\ UNCHANGED result
      [] stage = "chosen" ->
           Return(IF format \in Range(Formats) THEN Ok(format, bytes) ELSE Failed, in, p)
      [] stage = "fallback" ->
           IF format \in Range(Formats) THEN Return(Ok(format, bytes), in, p)
           ELSE Fallback(index + 1, in, p)

TakeEvent(type) ==
    /\ stage # "done"
    /\ events # <<>>
    /\ Head(events).type = type
    /\ events' = Tail(events)

\* handle_read_selection_notify: an answer to another conversion counts as a failure, INCR
\* starts with the deletion of the property.
SelectionNotify ==
    /\ TakeEvent("SelectionNotify")
    /\ LET e == Head(events)
       IN IF ~e.ok \/ e.target # target
          THEN SingleFails(inbox, property)
          ELSE IF using_incr THEN UNCHANGED <<inbox, property, stage, index, target, using_incr,
                                              incr_data, result>>
          ELSE IF property.type = "INCR"
          THEN /\ using_incr' = TRUE
               /\ inbox' = Append(inbox, Deleted)
               /\ property' = NoProperty
               /\ UNCHANGED <<stage, index, target, incr_data, result>>
          ELSE SingleReturns(property.type, property.value, inbox \o DeletionOf(property), NoProperty)
    /\ UNCHANGED <<ownervars, timeouts>>

\* The type under which a chunk is read.
ChunkType == IF target = TARGETS THEN "ATOM" ELSE target

\* handle_read_property_notify: a chunk, deleted as it is read; a property of another type
\* reads as empty, and stays.
ReadChunk ==
    LET match == property.type = ChunkType
        value == IF match THEN property.value ELSE <<>>
        in == IF match THEN Append(inbox, Deleted) ELSE inbox
        p == IF match THEN NoProperty ELSE property
    IN IF value = <<>>
       THEN SingleReturns(target, incr_data, in, p)
       ELSE /\ incr_data' = incr_data \o value
            /\ inbox' = in
            /\ property' = p
            /\ UNCHANGED <<stage, index, target, using_incr, result>>

PropertyNotify ==
    /\ TakeEvent("PropertyNotify")
    /\ IF using_incr THEN ReadChunk
       ELSE UNCHANGED <<inbox, property, stage, index, target, using_incr, incr_data, result>>
    /\ UNCHANGED <<ownervars, timeouts>>

\* timeout_end is reached: 4 s after the request, 10 ms after the last chunk.
Timeout ==
    /\ stage # "done"
    /\ timeouts' = timeouts + 1
    /\ SingleFails(inbox, property)
    /\ UNCHANGED <<ownervars, events>>

Reader == SelectionNotify \/ PropertyNotify \/ Timeout

Done == stage = "done" /\ UNCHANGED vars

Next == OwnerConverts \/ OwnerSendsChunk \/ Reader \/ Done

Spec == Init /\ [][Next]_vars

-----------------------------------------------------------------------------
(* Properties.                                                             *)

TypeOK ==
    /\ supports \in SUBSET Range(Formats)
    /\ stage \in {"targets", "chosen", "fallback", "done"}
    /\ index \in DOMAIN Formats
    /\ target \in Range(Formats) \cup {TARGETS}
    /\ using_incr \in BOOLEAN
    /\ timeouts \in 0..(Len(Formats) + 1)
    /\ property.type \in Range(Formats) \cup {"None", "ATOM", "INCR"}
    /\ \A i \in DOMAIN inbox : inbox[i].type \in {"convert", "deleted"}

\* What read returns is one content, whole and of the format it names, however the answers to
\* conversions that timed out come in between: late chunks, late notifications, a property
\* that the owner overwrote (read_single, handle_read_property_notify).
ReturnsWhole == result.ok => result.format \in supports /\ result.bytes = Content(result.format)

IsPreferred(f) ==
    f \in supports /\ \A i, j \in DOMAIN Formats :
        Formats[j] = f /\ i < j => Formats[i] \notin supports

\* An owner that is never late is read: the format is the first of the preference that it
\* supports, whether or not it answers TARGETS, and read fails only if there is none (read).
PromptOwnerIsRead ==
    stage = "done" /\ timeouts = 0 =>
        IF supports = {} THEN ~result.ok ELSE result.ok /\ IsPreferred(result.format)

\* A read ends, if the owner falls silent in the middle of a transfer too (read_single).
ReadEnds == <>(stage = "done")
=============================================================================
