----------------------------- MODULE FrameDemand -----------------------------
(***************************************************************************)
(* What a demand-driven frame loop promises its windows, whatever wakes it *)
(* uses: frames are produced one window at a time, a window sleeps only    *)
(* when it owes no frame, demand raised while it sleeps arms it, and an    *)
(* armed window is eventually ticked or closed.  FrameLoop implements it.  *)
(***************************************************************************)

CONSTANT Windows

VARIABLES
    state,   \* new (not configured), asleep, armed, ticking or closed
    owes     \* the window has something to put on screen

vars == <<state, owes>>

Init ==
    /\ state = [w \in Windows |-> "new"]
    /\ owes = [w \in Windows |-> TRUE]

\* Demand arms a sleeping window; an armed or ticking one will see it.
Raise(w) ==
    /\ state[w] # "closed"
    /\ owes' = [owes EXCEPT ![w] = TRUE]
    /\ state' = [state EXCEPT ![w] = IF @ = "asleep" THEN "armed" ELSE @]

\* One window at a time runs its tick.
Wake(w) ==
    /\ state[w] \in {"new", "armed"}
    /\ \A v \in Windows : state[v] # "ticking"
    /\ state' = [state EXCEPT ![w] = "ticking"]
    /\ UNCHANGED owes

\* The tick puts on screen what the window owed.
Serve(w) ==
    /\ state[w] = "ticking"
    /\ owes' = [owes EXCEPT ![w] = FALSE]
    /\ UNCHANGED state

\* A tick ends asleep only if nothing is owed.
Rest(w) ==
    /\ state[w] = "ticking"
    /\ \/ state' = [state EXCEPT ![w] = "armed"]
       \/ ~owes[w] /\ state' = [state EXCEPT ![w] = "asleep"]
    /\ UNCHANGED owes

Close(w) ==
    /\ state[w] # "closed"
    /\ state' = [state EXCEPT ![w] = "closed"]
    /\ \E o \in BOOLEAN : owes' = [owes EXCEPT ![w] = o]

Next == \E w \in Windows : Raise(w) \/ Wake(w) \/ Serve(w) \/ Rest(w) \/ Close(w)

Spec == Init /\ [][Next]_vars

\* An armed window is ticked although other windows keep ticking, and every
\* tick ends.
Fairness ==
    \A w \in Windows :
        /\ SF_vars(state[w] = "armed" /\ Wake(w))
        /\ WF_vars(state[w] = "ticking" /\ (Rest(w) \/ Close(w)))

FairSpec == Spec /\ Fairness
=============================================================================
