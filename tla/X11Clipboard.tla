---------------------------- MODULE X11Clipboard ----------------------------
(***************************************************************************)
(* The selection that the application owns under X11 (x11/clipboard.rs):   *)
(* the application thread writes texts and, when the clipboard is dropped, *)
(* hands the text to the clipboard manager; a thread of its own serves the *)
(* events of the server window.  The X server, the other clients and the   *)
(* clipboard manager are external.  A text is the number of its write.     *)
(***************************************************************************)
EXTENDS Naturals, Sequences

CONSTANTS
    None,            \* no text
    Requesters,      \* clients that convert the selection: "manager" and "peer"
    ManagerTargets,  \* targets the clipboard manager may ask for
    MaxWrites,       \* bound on the texts written
    MaxLosses,       \* bound on the times another client takes the selection
    MaxRequests      \* bound on the requests of the peer

\* What the constants have to be; the runs check it.
ConstantsAssumption ==
    /\ {MaxWrites, MaxLosses, MaxRequests} \subseteq Nat
    /\ None \notin Nat
    /\ Requesters \subseteq {"manager", "peer"}
    /\ ManagerTargets \subseteq {"UTF8_STRING", "UTF8_MIME_0"}

VARIABLES
    owner,     \* the X server's owner of the selection
    queue,     \* events of the server window that are not yet read
    data,      \* Selection::data: the text stored as UTF8_STRING
    app,       \* where the application thread is
    text,      \* the text written last
    stored,    \* the last text whose write has returned
    losses,    \* number of times another client took the selection
    safe,      \* it did not since the last write returned, and the serving thread knew of
               \* every time before
    asked,     \* number of requests of the peer
    handover,  \* handover_state
    lock,      \* holder of its mutex
    serve,     \* where the serving thread is
    request,   \* the request it handled last
    written,   \* its local flags
    notified,
    pending,   \* messages the clipboard manager has yet to send
    reply,     \* the last answer to a request
    handled,   \* messages of the manager that the serving thread is done with
    saved      \* the text the manager holds

appvars == <<app, text, stored>>
lossvars == <<losses, safe>>
servevars == <<serve, request, written, notified>>
observed == <<reply, handled, saved>>
vars == <<owner, queue, data, appvars, lossvars, asked, handover, lock, servevars, pending,
          observed>>

TARGETS == "TARGETS"
Targets == {TARGETS, "UTF8_STRING", "UTF8_MIME_0"}
Request == [from : {"manager", "peer"}, target : Targets, safe : BOOLEAN, stored : Nat]
Event == [type : {"SelectionClear", "SelectionRequest", "SelectionNotify", "DestroyNotify"},
          event : Request]
NoRequest == [from |-> "peer", target |-> TARGETS, safe |-> FALSE, stored |-> 0]
NoReply == [text |-> None, of |-> NoRequest]

Init ==
    /\ owner = "none"
    /\ queue = <<>>
    /\ data = None
    /\ app = "idle"
    /\ text = 0
    /\ stored = 0
    /\ losses = 0
    /\ safe = FALSE
    /\ asked = 0
    /\ handover = "Idle"
    /\ lock = "free"
    /\ serve = "waiting"
    /\ request = NoRequest
    /\ written = FALSE
    /\ notified = FALSE
    /\ pending = {}
    /\ reply = NoReply
    /\ handled = {}
    /\ saved = None

Send(type, event) == queue' = Append(queue, [type |-> type, event |-> event])

-----------------------------------------------------------------------------
(* The X server and the other clients.                                     *)

\* Another client takes the selection; the owner is told.
TakeSelection ==
    /\ losses < MaxLosses
    /\ owner = "us"
    /\ owner' = "other"
    /\ losses' = losses + 1
    /\ safe' = FALSE
    /\ Send("SelectionClear", NoRequest)
    /\ UNCHANGED <<data, appvars, asked, handover, lock, servevars, pending, observed>>

\* A client asks the owner for the selection.
Convert(from, target) ==
    /\ owner = "us"
    /\ Send("SelectionRequest",
            [from |-> from, target |-> target, safe |-> safe, stored |-> stored])

PeerRequests(target) ==
    /\ "peer" \in Requesters
    /\ asked < MaxRequests
    /\ asked' = asked + 1
    /\ Convert("peer", target)
    /\ UNCHANGED <<owner, data, appvars, lossvars, handover, lock, servevars, pending, observed>>

\* Asked to save, the manager requests the contents and says that it is done, some say so
\* first.
ManagerRequests(target) ==
    /\ "contents" \in pending
    /\ pending' = pending \ {"contents"}
    /\ Convert("manager", target)
    /\ UNCHANGED <<owner, data, appvars, lossvars, asked, handover, lock, servevars, observed>>

ManagerNotifies ==
    /\ "notify" \in pending
    /\ app \notin {"joining", "gone"}   \* the window exists
    /\ pending' = pending \ {"notify"}
    /\ Send("SelectionNotify", NoRequest)
    /\ UNCHANGED <<owner, data, appvars, lossvars, asked, handover, lock, servevars, observed>>

-----------------------------------------------------------------------------
(* The application thread.                                                 *)

\* Inner::write: the server window is made the owner ...
Write ==
    /\ app = "idle"
    /\ text < MaxWrites
    /\ serve = "waiting" \/ serve = "locking"    \* serve_stopped is not set
    /\ text' = text + 1
    /\ owner' = "us"
    /\ app' = "storing"
    /\ UNCHANGED <<queue, data, stored, lossvars, asked, handover, lock, servevars, pending,
                   observed>>

\* The serving thread has been told of every loss.
KnowsLosses == \A i \in DOMAIN queue : queue[i].type # "SelectionClear"

\* Mutant: a store keeps a text that is there.
StoreFirst ==
    /\ app = "storing"
    /\ data' = IF data = None THEN text ELSE data
    /\ stored' = text
    /\ safe' = KnowsLosses
    /\ app' = "idle"
    /\ UNCHANGED <<owner, queue, text, losses, asked, handover, lock, servevars, pending, observed>>

\* ... and then the text is stored for the serving thread.
Store ==
    /\ app = "storing"
    /\ data' = text
    /\ stored' = text
    /\ safe' = KnowsLosses
    /\ app' = "idle"
    /\ UNCHANGED <<owner, queue, text, losses, asked, handover, lock, servevars, pending, observed>>

\* Clipboard::drop and ask_clipboard_manager_to_request_our_data up to the lock: without the
\* third owner, the serving thread, nothing is destroyed, and only an owner with data asks.
Drop ==
    /\ app = "idle"
    /\ app' = IF serve = "stopped" THEN "gone"
              ELSE IF owner = "us" /\ data # None THEN "asking" ELSE "destroying"
    /\ UNCHANGED <<owner, queue, data, text, stored, lossvars, asked, handover, lock, servevars,
                   pending, observed>>

LockHandover ==
    /\ app = "asking"
    /\ lock = "free"
    /\ lock' = "app"
    /\ app' = "sending"
    /\ UNCHANGED <<owner, queue, data, text, stored, lossvars, asked, handover, servevars, pending,
                   observed>>

\* The request to the manager, which may not exist and may answer in part.
AskManager(messages) ==
    /\ app = "sending"
    /\ pending' = messages
    /\ app' = "asked"
    /\ UNCHANGED <<owner, queue, data, text, stored, lossvars, asked, handover, lock, servevars,
                   observed>>

\* InProgress, and wait_for releases the lock.
WaitForHandover ==
    /\ app = "asked"
    /\ lock \in {"app", "free"}
    /\ handover' = "InProgress"
    /\ lock' = "free"
    /\ app' = "waitingHandover"
    /\ UNCHANGED <<owner, queue, data, text, stored, lossvars, asked, servevars, pending, observed>>

\* The condition variable is notified, or 100 ms are over.
HandoverEnds ==
    /\ app = "waitingHandover"
    /\ lock = "free"
    /\ app' = "destroying"
    /\ UNCHANGED <<owner, queue, data, text, stored, lossvars, asked, handover, lock, servevars,
                   pending, observed>>

\* Mutant: the serving thread is joined without destroying its window.
DestroyWindowNot ==
    /\ app = "destroying"
    /\ app' = "joining"
    /\ UNCHANGED <<owner, queue, data, text, stored, lossvars, asked, handover, lock, servevars,
                   pending, observed>>

\* destroy_window
DestroyWindow ==
    /\ app = "destroying"
    /\ owner' = IF owner = "us" THEN "none" ELSE owner
    /\ Send("DestroyNotify", NoRequest)
    /\ app' = "joining"
    /\ UNCHANGED <<data, text, stored, lossvars, asked, handover, lock, servevars, pending, observed>>

\* server_handle.join
Join ==
    /\ app = "joining"
    /\ serve = "stopped"
    /\ app' = "gone"
    /\ UNCHANGED <<owner, queue, data, text, stored, lossvars, asked, handover, lock, servevars,
                   pending, observed>>

-----------------------------------------------------------------------------
(* The serving thread.                                                     *)

NextIs(type) ==
    /\ serve = "waiting"
    /\ queue # <<>>
    /\ Head(queue).type = type
    /\ queue' = Tail(queue)

SelectionClear ==
    /\ NextIs("SelectionClear")
    /\ data' = None
    /\ UNCHANGED <<owner, appvars, lossvars, asked, handover, lock, servevars, pending, observed>>

\* Whether a request for the contents finds data of that format.
Found(target) == data # None /\ target = "UTF8_STRING"

\* handle_selection_request: the targets or the data are written to the requestor's property, or
\* it is told that there is none.
SelectionRequest ==
    /\ NextIs("SelectionRequest")
    /\ LET r == Head(queue).event
           found == Found(r.target)
       IN /\ reply' = [text |-> IF found THEN data ELSE None, of |-> r]
          /\ saved' = IF r.from = "manager" /\ found THEN data ELSE saved
          /\ request' = r
    /\ serve' = "locking"
    /\ UNCHANGED <<owner, data, appvars, lossvars, asked, handover, lock, written, notified,
                   pending, handled>>

\* After a request: whether the contents were handed over.
RequestDone ==
    /\ serve = "locking"
    /\ lock = "free"
    /\ LET content == handover = "InProgress" /\ request.target # TARGETS
       IN /\ written' = (written \/ content)
          /\ handover' = IF content /\ notified THEN "Finished" ELSE handover
    /\ handled' = IF request.from = "manager" THEN handled \cup {"contents"} ELSE handled
    /\ serve' = "waiting"
    /\ UNCHANGED <<owner, queue, data, appvars, lossvars, asked, lock, request, notified, pending,
                   reply, saved>>

\* The manager says that it is done.
SelectionNotify ==
    /\ NextIs("SelectionNotify")
    /\ lock = "free"
    /\ notified' = (notified \/ handover = "InProgress")
    /\ handover' = IF handover = "InProgress" /\ written THEN "Finished" ELSE handover
    /\ handled' = handled \cup {"notify"}
    /\ UNCHANGED <<owner, data, appvars, lossvars, asked, lock, serve, request, written, pending,
                   reply, saved>>

DestroyNotify ==
    /\ NextIs("DestroyNotify")
    /\ serve' = "returning"
    /\ UNCHANGED <<owner, data, appvars, lossvars, asked, handover, lock, request, written, notified,
                   pending, observed>>

\* wait_for_event or an answer fails.
ServeFails ==
    /\ serve = "waiting"
    /\ serve' = "returning"
    /\ UNCHANGED <<owner, queue, data, appvars, lossvars, asked, handover, lock, request, written,
                   notified, pending, observed>>

\* serve_stopped is set; the thread lets go of Inner as it returns.
Return ==
    /\ serve = "returning"
    /\ serve' = "stopped"
    /\ UNCHANGED <<owner, queue, data, appvars, lossvars, asked, handover, lock, request, written,
                   notified, pending, observed>>

Serve == SelectionClear \/ SelectionRequest \/ RequestDone \/ SelectionNotify \/ DestroyNotify
         \/ Return
App == Store \/ LockHandover \/ WaitForHandover \/ HandoverEnds \/ DestroyWindow \/ Join
       \/ \E messages \in SUBSET {"contents", "notify"} : AskManager(messages)

\* The application is over.
Gone == app = "gone" /\ UNCHANGED vars

Next ==
    \/ TakeSelection
    \/ \E t \in Targets : PeerRequests(t)
    \/ \E t \in ManagerTargets : ManagerRequests(t)
    \/ ManagerNotifies
    \/ Write
    \/ Drop
    \/ App
    \/ Serve
    \/ ServeFails
    \/ Gone

Spec == Init /\ [][Next]_vars

-----------------------------------------------------------------------------
(* Properties.                                                             *)

TypeOK ==
    /\ owner \in {"none", "us", "other"}
    /\ queue \in Seq(Event)
    /\ data \in {None} \cup 1..MaxWrites
    /\ app \in {"idle", "storing", "asking", "sending", "asked", "waitingHandover",
                "destroying", "joining", "gone"}
    /\ text \in 0..MaxWrites /\ stored \in 0..text
    /\ losses \in 0..MaxLosses /\ safe \in BOOLEAN /\ asked \in 0..MaxRequests
    /\ handover \in {"Idle", "InProgress", "Finished"}
    /\ lock \in {"free", "app"}
    /\ serve \in {"waiting", "locking", "returning", "stopped"}
    /\ request \in Request
    /\ written \in BOOLEAN /\ notified \in BOOLEAN
    /\ pending \subseteq {"contents", "notify"}

\* Whoever asks for the contents gets the text of a write that had returned when it asked, or
\* a later one, never an older one; and it gets one, unless the serving thread was still to be told
\* of an earlier loss of the selection when the write returned (write, handle_selection_request,
\* serve_requests: "so it is notifying us that we should delete our data now"; told late, it
\* deletes the text that was written since, although the selection is ours again).
ServedIsNotOlder ==
    /\ reply.text # None => reply.text >= reply.of.stored
    /\ reply.of.target = "UTF8_STRING" /\ reply.of.safe => reply.text # None

\* When the serving thread is done with both messages of the clipboard manager the handover
\* is finished: neither can come between the request to the manager and the wait for its
\* answer, which would then last the whole timeout (ask_clipboard_manager_to_request_our_data,
\* serve_requests).
HandoverNotMissed == handled = {"contents", "notify"} => handover = "Finished"

\* A handover that finished left the manager with the text written last, if that text could not
\* be lost as above (serve_requests: "The contents were written to the clipboard manager.").
FinishedMeansSaved == handover = "Finished" /\ safe => saved = text

\* All of them; the last while the manager alone asks, and for the format the text is stored in
\* (serve_requests counts the paste of another client, and a request for a format it does not have,
\* as what the manager was to be given, and may then end the handover early).
ClipboardIsWhole ==
    /\ ServedIsNotOlder /\ HandoverNotMissed
    /\ "peer" \notin Requesters /\ ManagerTargets = {"UTF8_STRING"} => FinishedMeansSaved

\* Dropping the clipboard ends, whatever the manager, the other clients and the serving
\* thread do: the handover and the join wait for nobody for ever (Clipboard::drop).
DropEnds == (app \notin {"idle", "storing"}) ~> (app = "gone")
=============================================================================
