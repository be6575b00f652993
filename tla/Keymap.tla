------------------------------- MODULE Keymap -------------------------------
(***************************************************************************)
(* The keymap (gpui/src/keymap.rs): bindings in the order in which they    *)
(* were added, which of them match the keystrokes typed so far in a stack  *)
(* of key contexts, whether longer input might match, and which of them    *)
(* are shown for an action (gpui/src/key_dispatch.rs).                     *)
(*                                                                         *)
(* A context predicate is the name of one context, or none.  The kind of a *)
(* binding says whether it is bound to the action it names, to NoAction,   *)
(* or to Unbind of the action it names.                                    *)
(***************************************************************************)
EXTENDS Naturals, Sequences, FiniteSetsExt

CONSTANTS
    Keys,         \* keystrokes
    MaxStrokes,   \* bound on the keystrokes of a binding
    Contexts,     \* names of contexts that predicates use
    NoContext,    \* a binding without a predicate
    Kinds,        \* kinds of bindings: "Action", "NoAction", "Unbind"
    Names,        \* names of actions
    Metas,        \* sources of bindings, the strongest is 0
    MaxBindings   \* bound on the bindings

\* What the constants have to be; the runs check it.
ConstantsAssumption ==
    /\ {MaxStrokes, MaxBindings} \subseteq Nat
    /\ NoContext \notin Contexts
    /\ Kinds \subseteq {"Action", "NoAction", "Unbind"}
    /\ Metas \subseteq Nat

VARIABLE bindings   \* Keymap::bindings

Strokes == UNION {[1..n -> Keys] : n \in 1..MaxStrokes}
Binding == [keystrokes : Strokes, context : Contexts \cup {NoContext}, kind : Kinds,
            name : Names, meta : Metas]

\* binding_enabled: the depth at which a binding matches a stack, the whole stack for one
\* without a predicate.
Enabled(b, stack) == b.context = NoContext \/ b.context \in Range(stack)
Depth(b, stack) ==
    IF b.context = NoContext THEN Len(stack) ELSE Max({i \in DOMAIN stack : stack[i] = b.context})

\* match_keystrokes: the bindings that the input completes, and those it begins.
Begins(input, keystrokes) ==
    Len(input) < Len(keystrokes) /\ input = SubSeq(keystrokes, 1, Len(input))
Matched(input, stack) ==
    {i \in DOMAIN bindings : Enabled(bindings[i], stack) /\ bindings[i].keystrokes = input}
Begun(input, stack) ==
    {i \in DOMAIN bindings : /\ Enabled(bindings[i], stack)
                             /\ Begins(input, bindings[i].keystrokes)}

\* The precedence among matched bindings: the deeper first, then the one added later.
Precedes(i, j, stack) ==
    LET di == Depth(bindings[i], stack)
        dj == Depth(bindings[j], stack)
    IN di > dj \/ (di = dj /\ i > j)

\* A NoAction hides the bindings it precedes whose source is not stronger.
Hidden(j, matched, stack) ==
    \E i \in matched : /\ bindings[i].kind = "NoAction"
                       /\ Precedes(i, j, stack)
                       /\ bindings[j].meta >= bindings[i].meta

\* binding_is_unbound, by an Unbind that is not itself hidden.
Unbound(j, matched, stack) ==
    \E i \in matched : /\ bindings[i].kind = "Unbind"
                       /\ bindings[i].name = bindings[j].name
                       /\ Precedes(i, j, stack)
                       /\ ~Hidden(i, matched, stack)

\* The bindings that bindings_for_input returns, as indices.
Found(input, stack) ==
    LET matched == Matched(input, stack)
    IN {j \in matched : /\ bindings[j].kind = "Action"
                        /\ ~Hidden(j, matched, stack)
                        /\ ~Unbound(j, matched, stack)}

\* The first of them, 0 if there is none.
First(input, stack) ==
    LET found == Found(input, stack)
    IN IF found = {} THEN 0
       ELSE CHOOSE i \in found : \A j \in found \ {i} : Precedes(i, j, stack)

\* Mutant: longer input is looked for before the binding that matched first.
PendingEarlier(input, stack) ==
    {bindings[i].keystrokes : i \in {k \in Begun(input, stack) : k < First(input, stack)}}

\* Keystrokes that might match if the input was longer: those of a binding added after the first
\* match, unless a later one with the same keystrokes disables it, whatever their depths.
PendingStrokes(input, stack) ==
    {bindings[i].keystrokes : i \in {k \in Begun(input, stack) :
        /\ k > First(input, stack)
        /\ bindings[k].kind = "Action"
        /\ \A j \in Begun(input, stack) :
            j > k /\ bindings[j].keystrokes = bindings[k].keystrokes => bindings[j].kind = "Action"}}

IsPending(input, stack) == PendingStrokes(input, stack) # {}

\* disabled_binding_matches_context, for predicates that are names.
DisablesContext(d, b) == d.context = NoContext \/ d.context = b.context

\* Keymap::bindings_for_action: the bindings shown for an action.
Shown(name) ==
    {i \in DOMAIN bindings :
        /\ bindings[i].kind = "Action" /\ bindings[i].name = name
        /\ ~\E d \in DOMAIN bindings :
            /\ d > i
            /\ bindings[d].keystrokes = bindings[i].keystrokes
            /\ DisablesContext(bindings[d], bindings[i])
            /\ \/ bindings[d].kind = "NoAction"
               \/ bindings[d].kind = "Unbind" /\ bindings[d].name = name}

\* DispatchTree::bindings_for_action: of these, those that their keystrokes run.
ShownIn(name, stack) ==
    {i \in Shown(name) :
        LET first == First(bindings[i].keystrokes, stack)
        IN first # 0 /\ bindings[first].name = name}

Init == bindings = <<>>

\* add_bindings with one binding.  Sources are added from the weakest to the strongest.
AddBinding(b) ==
    /\ Len(bindings) < MaxBindings
    /\ \A i \in DOMAIN bindings : b.meta <= bindings[i].meta
    /\ bindings' = Append(bindings, b)

\* clear
Clear ==
    /\ bindings # <<>>
    /\ bindings' = <<>>

Next == Clear \/ \E b \in Binding : AddBinding(b)

Spec == Init /\ [][Next]_bindings

-----------------------------------------------------------------------------
(* Properties, in the stack of an editor in a workspace and in that of the *)
(* workspace alone.                                                        *)

Stacks == {<<"workspace">>, <<"workspace", "editor">>}

TypeOK == bindings \in Seq(Binding) /\ Len(bindings) <= MaxBindings

\* The disabled bindings of these keystrokes come after what they disable, by position as by
\* precedence, and disable all of it. PendingStrokes goes by position alone and does not ask which
\* action an Unbind names, so that without this it may differ from Found either way.
DisabledInOrder(keystrokes, stack) ==
    LET matched == Matched(keystrokes, stack)
    IN \A d, i \in matched :
           bindings[d].kind # "Action" /\ bindings[i].kind = "Action" =>
               /\ d > i <=> Precedes(d, i, stack)
               /\ bindings[d].kind = "Unbind" => /\ bindings[d].name = bindings[i].name
                                                 /\ ~Hidden(d, matched, stack)

\* Input waits for longer keystrokes exactly if these would run a binding added after what the
\* input itself would run, provided that their disabled bindings are in order (bindings_for_input:
\* "whether or not more bindings might match if the input was longer", "Disabled bindings are
\* evaluated with the same precedence rules"; the loop over pending_bindings evaluates them by
\* position, so that both directions fail where a null of one context comes before or after a
\* binding of another).
ReachableIsPending ==
    \A stack \in Stacks, s, l \in Strokes :
        Begins(s, l) /\ DisabledInOrder(l, stack) =>
            (l \in PendingStrokes(s, stack) <=> \E i \in Found(l, stack) : i > First(s, stack))

\* A binding that its keystrokes run is also shown for its action: the two evaluations of the
\* disabled bindings, by precedence (bindings_for_input) and by position and context
\* (bindings_for_action), agree.
RunningIsShown ==
    \A stack \in Stacks, s \in Strokes :
        LET first == First(s, stack)
        IN first # 0 => first \in ShownIn(bindings[first].name, stack)

\* A null of a weaker source leaves a user's binding alone, wherever both apply (the comment
\* on bindings_for_input: "user bindings still apply").
UserBindingApplies ==
    \A stack \in Stacks, i \in DOMAIN bindings :
        /\ bindings[i].kind = "Action"
        /\ Enabled(bindings[i], stack)
        /\ \A j \in DOMAIN bindings :
            bindings[j].kind # "Action" =>
                bindings[j].kind = "NoAction" /\ bindings[j].meta > bindings[i].meta
        => i \in Found(bindings[i].keystrokes, stack)
=============================================================================
