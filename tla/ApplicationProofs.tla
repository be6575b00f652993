------------------------- MODULE ApplicationProofs -------------------------
(***************************************************************************)
(* Invariants and action properties of MCApplication, proved for every     *)
(* value of its constants that PartsAssumption admits.                     *)
(***************************************************************************)
EXTENDS MCApplication, SequenceTheorems, FiniteSetTheorems, WellFoundedInduction, TLAPS

-----------------------------------------------------------------------------
(* Least and greatest numbers                                              *)

\* By the well-foundedness of the naturals; inductions below are on a least counterexample.
LEMMA LeastExists ==
    ASSUME NEW T \in SUBSET Nat, T # {}
    PROVE  \E m \in T : \A k \in T : m <= k
<1> DEFINE R == OpToRel(<, Nat)
<1>1. IsWellFoundedOn(R, Nat)
  BY NatLessThanWellFounded
<1>2. \A x, y \in Nat : <<y, x>> \in R <=> y < x
  BY DEF OpToRel
<1> HIDE DEF R
<1>3. PICK x \in T : \A y \in T : ~(<<y, x>> \in R)
  BY <1>1, WFMin
<1>4. ASSUME NEW y \in T PROVE x <= y
  <2>1. ~(y < x)
    BY <1>2, <1>3
  <2> QED
    BY <2>1
<1> QED
  BY <1>4

\* The same from above, within bounds.
LEMMA GreatestExists ==
    ASSUME NEW N \in Nat, NEW T \in SUBSET (0..N), T # {}
    PROVE  \E m \in T : \A k \in T : k <= m
<1> DEFINE U == {N - k : k \in T}
<1>1. U \in SUBSET Nat /\ U # {}
  <2>1. \A k \in 0..N : N - k \in Nat
    OBVIOUS
  <2> QED
    BY <2>1
<1> HIDE DEF U
<1>2. PICK m \in U : \A k \in U : m <= k
  BY <1>1, LeastExists
<1>3. PICK j \in T : m = N - j
  BY DEF U
<1>4. ASSUME NEW k \in T PROVE k <= j
  <2>1. N - j <= N - k
    BY <1>2, <1>3 DEF U
  <2> QED
    BY <2>1
<1> QED
  BY <1>4

-----------------------------------------------------------------------------
(* The keymap without nulls: part "sequences"                              *)

LEMMA SequenceInit == Sequence!Init => Sequence!TypeOK
  BY PartsAssumption
     DEF PartsAssumption, Sequence!ConstantsAssumption, Sequence!Init, Sequence!TypeOK

LEMMA SequenceStep == Sequence!TypeOK /\ [Sequence!Next]_keymapVars => Sequence!TypeOK'
<1> SUFFICES ASSUME Sequence!TypeOK, [Sequence!Next]_keymapVars PROVE Sequence!TypeOK'
  OBVIOUS
<1> DEFINE B == Sequence!Binding
<1>0. keymap_bindings \in Seq(B) /\ Len(keymap_bindings) <= MaxBindings /\ MaxBindings \in Nat
  BY PartsAssumption DEF PartsAssumption, Sequence!ConstantsAssumption, Sequence!TypeOK
<1>1. CASE Sequence!Clear
  BY <1>0, <1>1 DEF Sequence!Clear, Sequence!TypeOK
<1>2. ASSUME NEW b \in B, Sequence!AddBinding(b) PROVE Sequence!TypeOK'
  <2>1. keymap_bindings' = Append(keymap_bindings, b) /\ Len(keymap_bindings) < MaxBindings
    BY <1>2 DEF Sequence!AddBinding
  <2> HIDE DEF B
  <2>2. keymap_bindings' \in Seq(B) /\ Len(keymap_bindings') <= MaxBindings
    BY <1>0, <2>1
  <2> QED
    BY <2>2 DEF Sequence!TypeOK, B
<1>3. CASE UNCHANGED keymapVars
  BY <1>3 DEF keymapVars, Sequence!TypeOK
<1> QED
  BY <1>1, <1>2, <1>3 DEF Sequence!Next

\* Where there are only actions, nothing is disabled.
LEMMA SequencesAreReachable == Sequence!TypeOK => Sequence!ReachableIsPending
<1> SUFFICES ASSUME Sequence!TypeOK,
                    NEW ctx \in Sequence!Stacks, NEW s \in Sequence!Strokes,
                    NEW l \in Sequence!Strokes, Sequence!Begins(s, l)
             PROVE  l \in Sequence!PendingStrokes(s, ctx) <=>
                        \E i \in Sequence!Found(l, ctx) : i > Sequence!First(s, ctx)
  BY DEF Sequence!ReachableIsPending
<1> DEFINE matched == Sequence!Matched(l, ctx)
           begun == Sequence!Begun(s, ctx)
           first == Sequence!First(s, ctx)
<1>1. \A j \in DOMAIN keymap_bindings : keymap_bindings[j].kind = "Action"
  <2>1. \A j \in DOMAIN keymap_bindings : keymap_bindings[j] \in Sequence!Binding
    BY DEF Sequence!TypeOK
  <2> QED
    BY <2>1 DEF Sequence!Binding
<1>2. matched \subseteq DOMAIN keymap_bindings /\ begun \subseteq DOMAIN keymap_bindings
  BY DEF Sequence!Matched, Sequence!Begun
<1>3. Sequence!Found(l, ctx) = matched
  BY <1>1, <1>2 DEF Sequence!Found, Sequence!Hidden, Sequence!Unbound
<1>4. matched = {i \in begun : keymap_bindings[i].keystrokes = l}
  BY DEF Sequence!Matched, Sequence!Begun
<1>5. Sequence!PendingStrokes(s, ctx) =
          {keymap_bindings[i].keystrokes : i \in {k \in begun : k > first}}
  BY <1>1, <1>2 DEF Sequence!PendingStrokes
<1> HIDE DEF matched, begun, first
<1>6. l \in Sequence!PendingStrokes(s, ctx) <=> \E i \in matched : i > first
  BY <1>4, <1>5
<1> QED
  BY <1>3, <1>6 DEF first

-----------------------------------------------------------------------------
(* The keymap with nulls: part "nulls"                                     *)

\* Sources are added from the weakest to the strongest.
StrongerLater ==
    \A i, j \in DOMAIN keymap_bindings :
        i < j => keymap_bindings[j].meta <= keymap_bindings[i].meta

\* The inductive invariant.
NullInv == Null!TypeOK /\ StrongerLater

LEMMA NullInit == Null!Init => NullInv
  BY PartsAssumption
     DEF PartsAssumption, Null!ConstantsAssumption, Null!Init, Null!TypeOK, NullInv, StrongerLater

LEMMA NullStep == NullInv /\ [Null!Next]_keymapVars => NullInv'
<1> SUFFICES ASSUME NullInv, [Null!Next]_keymapVars PROVE NullInv'
  OBVIOUS
<1> DEFINE B == Null!Binding
<1>0. keymap_bindings \in Seq(B) /\ Len(keymap_bindings) <= MaxBindings /\ MaxBindings \in Nat
  BY PartsAssumption DEF PartsAssumption, Null!ConstantsAssumption, NullInv, Null!TypeOK
<1>1. CASE Null!Clear
  BY <1>0, <1>1 DEF Null!Clear, Null!TypeOK, NullInv, StrongerLater
<1>2. ASSUME NEW b \in B, Null!AddBinding(b) PROVE NullInv'
  <2>1. /\ keymap_bindings' = Append(keymap_bindings, b) /\ Len(keymap_bindings) < MaxBindings
        /\ \A i \in DOMAIN keymap_bindings : b.meta <= keymap_bindings[i].meta
    BY <1>2 DEF Null!AddBinding
  <2> HIDE DEF B
  <2>2. /\ keymap_bindings' \in Seq(B) /\ Len(keymap_bindings') <= MaxBindings
        /\ DOMAIN keymap_bindings' = 1..(Len(keymap_bindings) + 1)
        /\ \A i \in 1..(Len(keymap_bindings) + 1) :
               keymap_bindings'[i] = IF i <= Len(keymap_bindings) THEN keymap_bindings[i] ELSE b
    BY <1>0, <2>1
  <2>3. StrongerLater'
    BY <1>0, <2>1, <2>2 DEF NullInv, StrongerLater
  <2> QED
    BY <2>2, <2>3 DEF NullInv, Null!TypeOK, B
<1>3. CASE UNCHANGED keymapVars
  BY <1>3 DEF keymapVars, Null!TypeOK, NullInv, StrongerLater
<1> QED
  BY <1>1, <1>2, <1>3 DEF Null!Next

LEMMA NullBindings ==
    ASSUME NullInv, NEW i \in DOMAIN keymap_bindings
    PROVE  /\ keymap_bindings[i].kind \in {"Action", "NoAction", "Unbind"}
           /\ keymap_bindings[i].meta \in Nat
           /\ i \in 1..Len(keymap_bindings)
           /\ Len(keymap_bindings) \in Nat
<1>1. /\ keymap_bindings[i] \in Null!Binding /\ Len(keymap_bindings) \in Nat
      /\ i \in 1..Len(keymap_bindings)
  BY DEF NullInv, Null!TypeOK
<1>2. NullMetas \subseteq Nat
  BY PartsAssumption DEF PartsAssumption, Null!ConstantsAssumption
<1> QED
  BY <1>1, <1>2 DEF Null!Binding

\* A binding that is enabled has a depth in the stack, and none is deeper than one without a
\* context.
LEMMA DepthInStack ==
    ASSUME NEW ctx \in Null!Stacks, NEW b, Null!Enabled(b, ctx)
    PROVE  /\ Null!Depth(b, ctx) \in 1..Len(ctx)
           /\ Len(ctx) \in {1, 2}
<1>1. Len(ctx) \in {1, 2} /\ DOMAIN ctx = 1..Len(ctx)
  BY DEF Null!Stacks
<1>2. CASE b.context = NoContext
  BY <1>1, <1>2 DEF Null!Depth
<1>3. CASE b.context # NoContext
  <2> DEFINE D == {i \in DOMAIN ctx : ctx[i] = b.context}
  <2>1. D # {}
    BY <1>3 DEF Null!Enabled, Null!Range
  <2>2. D \subseteq 0..2 /\ D \subseteq 1..Len(ctx)
    BY <1>1
  <2>3. Null!Depth(b, ctx) = Null!Max(D)
    BY <1>3 DEF Null!Depth
  <2> HIDE DEF D
  <2>4. \E m \in D : \A k \in D : k <= m
    BY <2>1, <2>2, GreatestExists
  <2>5. \E m \in D : \A k \in D : m >= k
    BY <2>2, <2>4
  <2>6. Null!Max(D) \in D
    BY <2>5 DEF Null!Max
  <2> QED
    BY <1>1, <2>2, <2>3, <2>6
<1> QED
  BY <1>2, <1>3

\* The bindings that input runs have a first one.
LEMMA FirstIsFound ==
    ASSUME NullInv, NEW ctx \in Null!Stacks, NEW s, Null!Found(s, ctx) # {}
    PROVE  Null!First(s, ctx) \in Null!Found(s, ctx)
<1> DEFINE found == Null!Found(s, ctx)
           D(i) == Null!Depth(keymap_bindings[i], ctx)
<1>1. /\ found \subseteq 1..Len(keymap_bindings) /\ Len(keymap_bindings) \in Nat
      /\ found # {}
  BY NullBindings DEF Null!Found, Null!Matched
<1>2. ASSUME NEW i \in found PROVE D(i) \in {1, 2}
  <2>1. Null!Enabled(keymap_bindings[i], ctx)
    BY DEF Null!Found, Null!Matched
  <2>2. D(i) \in 1..Len(ctx) /\ Len(ctx) \in {1, 2}
    BY <2>1, DepthInStack
  <2> HIDE DEF D
  <2>3. CASE Len(ctx) = 1
    BY <2>2, <2>3
  <2>4. CASE Len(ctx) = 2
    BY <2>2, <2>4
  <2> QED
    BY <2>2, <2>3, <2>4
<1>3. \A i, j \in found : Null!Precedes(i, j, ctx) <=> D(i) > D(j) \/ (D(i) = D(j) /\ i > j)
  BY DEF Null!Precedes
<1>4. Null!First(s, ctx) = CHOOSE i \in found : \A j \in found \ {i} : Null!Precedes(i, j, ctx)
  BY <1>1 DEF Null!First
<1> HIDE DEF found, D
<1>5. \E d \in {1, 2} : (\E i \in found : D(i) = d) /\ \A i \in found : D(i) <= d
  <2>1. CASE \E i \in found : D(i) = 2
    <3>1. \A i \in found : D(i) <= 2
      BY <1>2
    <3> QED
      BY <2>1, <3>1
  <2>2. CASE ~\E i \in found : D(i) = 2
    <3>1. \A i \in found : D(i) = 1
      BY <1>2, <2>2
    <3>2. \A i \in found : D(i) <= 1
      BY <3>1
    <3>3. \E i \in found : D(i) = 1
      BY <1>1, <3>1
    <3> QED
      BY <3>2, <3>3
  <2> QED
    BY <2>1, <2>2
<1>6. PICK d \in {1, 2} : (\E i \in found : D(i) = d) /\ \A i \in found : D(i) <= d
  BY <1>5
<1> DEFINE deep == {i \in found : D(i) = d}
<1>7. PICK m \in deep : \A k \in deep : k <= m
  <2>1. deep \subseteq found /\ deep # {}
    BY <1>6
  <2> HIDE DEF deep
  <2> QED
    BY <1>1, <2>1, GreatestExists, 1..Len(keymap_bindings) \subseteq 0..Len(keymap_bindings)
<1>8. \A j \in found \ {m} : Null!Precedes(m, j, ctx)
  <2> SUFFICES ASSUME NEW j \in found \ {m} PROVE Null!Precedes(m, j, ctx)
    OBVIOUS
  <2>1. m \in Nat /\ j \in Nat /\ D(m) = d /\ D(j) \in {1, 2} /\ D(j) <= d
    BY <1>1, <1>2, <1>6, <1>7
  <2>2. D(j) = d => j < m
    BY <1>7, <2>1
  <2> QED
    BY <1>3, <1>7, <2>1, <2>2
<1> QED
  BY <1>4, <1>7, <1>8 DEF found

\* A null that disables a binding by position and context also precedes it.
LEMMA DisablingPrecedes ==
    ASSUME NullInv, NEW ctx \in Null!Stacks, NEW i \in DOMAIN keymap_bindings,
           NEW d \in DOMAIN keymap_bindings, d > i,
           Null!Enabled(keymap_bindings[i], ctx),
           Null!DisablesContext(keymap_bindings[d], keymap_bindings[i])
    PROVE  Null!Enabled(keymap_bindings[d], ctx) /\ Null!Precedes(d, i, ctx)
<1>1. Null!Enabled(keymap_bindings[d], ctx)
  BY DEF Null!Enabled, Null!DisablesContext
<1>2. /\ Null!Depth(keymap_bindings[i], ctx) \in 1..Len(ctx)
      /\ Null!Depth(keymap_bindings[d], ctx) \in 1..Len(ctx)
      /\ Len(ctx) \in Nat
  BY <1>1, DepthInStack
<1>3. \/ Null!Depth(keymap_bindings[d], ctx) = Len(ctx)
      \/ Null!Depth(keymap_bindings[d], ctx) = Null!Depth(keymap_bindings[i], ctx)
  BY DEF Null!Depth, Null!DisablesContext
<1> QED
  BY <1>1, <1>2, <1>3, NullBindings DEF Null!Precedes

LEMMA PrecedesTransitive ==
    ASSUME NullInv, NEW ctx \in Null!Stacks, NEW i \in DOMAIN keymap_bindings,
           NEW j \in DOMAIN keymap_bindings, NEW k \in DOMAIN keymap_bindings,
           Null!Enabled(keymap_bindings[i], ctx), Null!Enabled(keymap_bindings[j], ctx),
           Null!Enabled(keymap_bindings[k], ctx),
           Null!Precedes(i, j, ctx), Null!Precedes(j, k, ctx)
    PROVE  Null!Precedes(i, k, ctx)
<1>1. /\ Null!Depth(keymap_bindings[i], ctx) \in 1..Len(ctx)
      /\ Null!Depth(keymap_bindings[j], ctx) \in 1..Len(ctx)
      /\ Null!Depth(keymap_bindings[k], ctx) \in 1..Len(ctx)
      /\ Len(ctx) \in Nat
  BY DepthInStack
<1>2. i \in Nat /\ j \in Nat /\ k \in Nat
  BY NullBindings
<1> QED
  BY <1>1, <1>2 DEF Null!Precedes

\* A binding that runs is shown: nothing added later disables it.
LEMMA FoundIsShown ==
    ASSUME NullInv, NEW ctx \in Null!Stacks, NEW s, NEW i \in Null!Found(s, ctx)
    PROVE  i \in Null!Shown(keymap_bindings[i].name)
<1> DEFINE matched == Null!Matched(s, ctx)
<1>1. /\ i \in matched /\ keymap_bindings[i].kind = "Action"
      /\ ~Null!Hidden(i, matched, ctx) /\ ~Null!Unbound(i, matched, ctx)
  BY DEF Null!Found
<1>2. /\ i \in DOMAIN keymap_bindings /\ keymap_bindings[i].keystrokes = s
      /\ Null!Enabled(keymap_bindings[i], ctx)
  BY <1>1 DEF Null!Matched
<1>3. ASSUME NEW d \in DOMAIN keymap_bindings, d > i,
             keymap_bindings[d].keystrokes = keymap_bindings[i].keystrokes,
             Null!DisablesContext(keymap_bindings[d], keymap_bindings[i]),
             \/ keymap_bindings[d].kind = "NoAction"
             \/ keymap_bindings[d].kind = "Unbind"
                /\ keymap_bindings[d].name = keymap_bindings[i].name
      PROVE  FALSE
  <2>1. Null!Enabled(keymap_bindings[d], ctx) /\ Null!Precedes(d, i, ctx)
    BY <1>2, <1>3, DisablingPrecedes
  <2>2. d \in matched
    BY <1>2, <1>3, <2>1 DEF Null!Matched
  <2>3. keymap_bindings[d].meta <= keymap_bindings[i].meta
    BY <1>2, <1>3, NullBindings DEF NullInv, StrongerLater
  <2>4. keymap_bindings[d].meta \in Nat /\ keymap_bindings[i].meta \in Nat
    BY <1>2, NullBindings
  <2>5. CASE keymap_bindings[d].kind = "NoAction"
    BY <1>1, <2>1, <2>2, <2>3, <2>4, <2>5 DEF Null!Hidden
  <2>6. CASE keymap_bindings[d].kind = "Unbind"
    <3>1. Null!Hidden(d, matched, ctx)
      BY <1>1, <1>3, <2>1, <2>2, <2>6 DEF Null!Unbound
    <3>2. PICK h \in matched : /\ keymap_bindings[h].kind = "NoAction"
                               /\ Null!Precedes(h, d, ctx)
                               /\ keymap_bindings[d].meta >= keymap_bindings[h].meta
      BY <3>1 DEF Null!Hidden
    <3>3. h \in DOMAIN keymap_bindings /\ Null!Enabled(keymap_bindings[h], ctx)
      BY DEF Null!Matched
    <3>4. Null!Precedes(h, i, ctx)
      BY <1>2, <2>1, <3>2, <3>3, PrecedesTransitive
    <3>5. keymap_bindings[h].meta \in Nat
      BY <3>3, NullBindings
    <3>6. keymap_bindings[i].meta >= keymap_bindings[h].meta
      BY <2>3, <2>4, <3>2, <3>5
    <3> QED
      BY <1>1, <3>2, <3>4, <3>6 DEF Null!Hidden
  <2> QED
    BY <1>3, <2>5, <2>6
<1> QED
  BY <1>1, <1>2, <1>3 DEF Null!Shown

\* Where disabled bindings are in order, going by position is going by precedence.
LEMMA NullsInOrder == NullInv => Null!ReachableIsPending
<1> SUFFICES ASSUME NullInv,
                    NEW ctx \in Null!Stacks, NEW s \in Null!Strokes, NEW l \in Null!Strokes,
                    Null!Begins(s, l), Null!DisabledInOrder(l, ctx)
             PROVE  l \in Null!PendingStrokes(s, ctx) <=>
                        \E i \in Null!Found(l, ctx) : i > Null!First(s, ctx)
  BY DEF Null!ReachableIsPending
<1> DEFINE matched == Null!Matched(l, ctx)
           begun == Null!Begun(s, ctx)
           first == Null!First(s, ctx)
<1>1. matched \subseteq DOMAIN keymap_bindings /\ begun \subseteq DOMAIN keymap_bindings
  BY DEF Null!Matched, Null!Begun
<1>2. matched = {i \in begun : keymap_bindings[i].keystrokes = l}
  BY DEF Null!Matched, Null!Begun
<1>3. \A d, i \in matched :
          keymap_bindings[d].kind # "Action" /\ keymap_bindings[i].kind = "Action" =>
              /\ d > i <=> Null!Precedes(d, i, ctx)
              /\ keymap_bindings[d].kind = "Unbind" =>
                     /\ keymap_bindings[d].name = keymap_bindings[i].name
                     /\ ~Null!Hidden(d, matched, ctx)
  BY DEF Null!DisabledInOrder
<1>4. l \in Null!PendingStrokes(s, ctx) <=>
          \E i \in matched : /\ i > first /\ keymap_bindings[i].kind = "Action"
                             /\ \A j \in matched : j > i => keymap_bindings[j].kind = "Action"
  BY <1>2 DEF Null!PendingStrokes
<1> HIDE DEF matched, begun, first
<1>5. ASSUME NEW i \in matched, keymap_bindings[i].kind = "Action",
             \A j \in matched : j > i => keymap_bindings[j].kind = "Action"
      PROVE  i \in Null!Found(l, ctx)
  <2>1. \A d \in matched : keymap_bindings[d].kind # "Action" => ~Null!Precedes(d, i, ctx)
    BY <1>3, <1>5
  <2>2. ~Null!Hidden(i, matched, ctx) /\ ~Null!Unbound(i, matched, ctx)
    BY <2>1 DEF Null!Hidden, Null!Unbound
  <2> QED
    BY <1>5, <2>2 DEF Null!Found, matched
<1>6. ASSUME NEW i \in Null!Found(l, ctx), NEW j \in matched, j > i,
             keymap_bindings[j].kind # "Action"
      PROVE  FALSE
  <2>1. /\ i \in matched /\ keymap_bindings[i].kind = "Action"
        /\ ~Null!Hidden(i, matched, ctx) /\ ~Null!Unbound(i, matched, ctx)
    BY DEF Null!Found, matched
  <2>2. Null!Precedes(j, i, ctx)
    BY <1>3, <1>6, <2>1
  <2>3. /\ keymap_bindings[i].meta >= keymap_bindings[j].meta
        /\ keymap_bindings[j].kind \in {"NoAction", "Unbind"}
    <3>1. i \in DOMAIN keymap_bindings /\ j \in DOMAIN keymap_bindings
      BY <1>1, <2>1
    <3>2. /\ i \in Nat /\ j \in Nat /\ keymap_bindings[i].meta \in Nat
          /\ keymap_bindings[j].meta \in Nat
          /\ keymap_bindings[j].kind \in {"Action", "NoAction", "Unbind"}
      BY <3>1, NullBindings
    <3>3. keymap_bindings[j].meta <= keymap_bindings[i].meta
      BY <1>6, <3>1, <3>2 DEF NullInv, StrongerLater
    <3> QED
      BY <1>6, <3>2, <3>3
  <2>4. CASE keymap_bindings[j].kind = "NoAction"
    BY <2>1, <2>2, <2>3, <2>4 DEF Null!Hidden
  <2>5. CASE keymap_bindings[j].kind = "Unbind"
    BY <1>3, <1>6, <2>1, <2>2, <2>5 DEF Null!Unbound
  <2> QED
    BY <2>3, <2>4, <2>5
<1>7. Null!Found(l, ctx) \subseteq {i \in matched : keymap_bindings[i].kind = "Action"}
  BY DEF Null!Found, matched
<1>8. (\E i \in matched : /\ i > first /\ keymap_bindings[i].kind = "Action"
                          /\ \A j \in matched : j > i => keymap_bindings[j].kind = "Action")
          <=> \E i \in Null!Found(l, ctx) : i > first
  BY <1>5, <1>6, <1>7
<1> QED
  BY <1>4, <1>8 DEF first

LEMMA NullsAgree ==
    NullInv => /\ Null!TypeOK /\ Null!ReachableIsPending
               /\ Null!RunningIsShown /\ Null!UserBindingApplies
<1> SUFFICES ASSUME NullInv PROVE Null!RunningIsShown /\ Null!UserBindingApplies
  BY NullsInOrder DEF NullInv
<1>1. ASSUME NEW ctx \in Null!Stacks, NEW s \in Null!Strokes, Null!First(s, ctx) # 0
      PROVE  Null!First(s, ctx) \in
                 Null!ShownIn(keymap_bindings[Null!First(s, ctx)].name, ctx)
  <2> DEFINE first == Null!First(s, ctx)
  <2>1. first \in Null!Found(s, ctx)
    BY <1>1, FirstIsFound DEF Null!First
  <2>2. keymap_bindings[first].keystrokes = s
    BY <2>1 DEF Null!Found, Null!Matched
  <2>3. first \in Null!Shown(keymap_bindings[first].name)
    BY <2>1, FoundIsShown
  <2> QED
    BY <1>1, <2>2, <2>3 DEF Null!ShownIn
<1>2. ASSUME NEW ctx \in Null!Stacks, NEW i \in DOMAIN keymap_bindings,
             keymap_bindings[i].kind = "Action", Null!Enabled(keymap_bindings[i], ctx),
             \A j \in DOMAIN keymap_bindings :
                 keymap_bindings[j].kind # "Action" =>
                     /\ keymap_bindings[j].kind = "NoAction"
                     /\ keymap_bindings[j].meta > keymap_bindings[i].meta
      PROVE  i \in Null!Found(keymap_bindings[i].keystrokes, ctx)
  <2> DEFINE matched == Null!Matched(keymap_bindings[i].keystrokes, ctx)
  <2>1. i \in matched /\ matched \subseteq DOMAIN keymap_bindings
    BY <1>2 DEF Null!Matched
  <2>2. ASSUME NEW j \in matched, keymap_bindings[j].kind = "NoAction",
               keymap_bindings[i].meta >= keymap_bindings[j].meta
        PROVE  FALSE
    <3>1. keymap_bindings[j].meta > keymap_bindings[i].meta
      BY <1>2, <2>1, <2>2
    <3>2. keymap_bindings[j].meta \in Nat /\ keymap_bindings[i].meta \in Nat
      BY <2>1, NullBindings
    <3> QED
      BY <2>2, <3>1, <3>2
  <2>3. ~Null!Hidden(i, matched, ctx)
    BY <2>2 DEF Null!Hidden
  <2>4. ~Null!Unbound(i, matched, ctx)
    BY <1>2, <2>1 DEF Null!Unbound
  <2> QED
    BY <1>2, <2>1, <2>3, <2>4 DEF Null!Found
<1> QED
  BY <1>1, <1>2 DEF Null!RunningIsShown, Null!UserBindingApplies

-----------------------------------------------------------------------------
(* Recursive functions                                                     *)

\* g is given on Stop, and elsewhere its value depends on its value at next[n].
Solves(g, D, S, Stop, base, next, F) ==
    /\ g \in [D -> S]
    /\ \A n \in D : g[n] = IF n \in Stop THEN base[n] ELSE F[<<n, g[next[n]]>>]

\* Such a function exists if next[n] has a rank below that of n.
IsRecursion(D, S, Stop, rank, base, next, F) ==
    /\ Stop \subseteq D /\ rank \in [D -> Nat] /\ base \in [Stop -> S]
    /\ next \in [D \ Stop -> D] /\ F \in [(D \ Stop) \X S -> S]
    /\ \A n \in D \ Stop : rank[next[n]] < rank[n]

LEMMA RecursionExists ==
    ASSUME NEW D, NEW S, NEW Stop, NEW rank, NEW base, NEW next, NEW F,
           IsRecursion(D, S, Stop, rank, base, next, F)
    PROVE  \E g : Solves(g, D, S, Stop, base, next, F)
<1> USE DEF IsRecursion
<1> DEFINE Below(k) == {n \in D : rank[n] < k}
           Partial(k, g) ==
               /\ g \in [Below(k) -> S]
               /\ \A n \in Below(k) : g[n] = IF n \in Stop THEN base[n] ELSE F[<<n, g[next[n]]>>]
           T == {k \in Nat : ~\E g : Partial(k, g)}
<1>1. \A n \in D : rank[n] \in Nat
  OBVIOUS
<1>2. Partial(0, [n \in {} |-> n])
  <2>1. Below(0) = {}
    BY <1>1
  <2> QED
    BY <2>1
<1>3. ASSUME NEW k \in Nat, NEW g, Partial(k, g) PROVE \E h : Partial(k + 1, h)
  <2> DEFINE h == [n \in Below(k + 1) |-> IF n \in Stop THEN base[n] ELSE F[<<n, g[next[n]]>>]]
  <2>1. \A n \in Below(k + 1) : n \in D /\ (n \notin Stop => next[n] \in Below(k))
    BY <1>1
  <2>2. Below(k) \subseteq Below(k + 1)
    BY <1>1
  <2>3. h \in [Below(k + 1) -> S]
    <3>1. ASSUME NEW n \in Below(k + 1) PROVE h[n] \in S
      <4>1. CASE n \in Stop
        BY <4>1
      <4>2. CASE n \notin Stop
        <5>1. g[next[n]] \in S /\ n \in D \ Stop
          BY <1>3, <2>1, <4>2
        <5> QED
          BY <4>2, <5>1
      <4> QED
        BY <4>1, <4>2
    <3> QED
      BY <3>1
  <2>4. ASSUME NEW n \in Below(k) PROVE h[n] = g[n]
    BY <1>3, <2>2
  <2>5. ASSUME NEW n \in Below(k + 1)
        PROVE  h[n] = IF n \in Stop THEN base[n] ELSE F[<<n, h[next[n]]>>]
    <3>1. CASE n \in Stop
      BY <3>1
    <3>2. CASE n \notin Stop
      <4>1. h[next[n]] = g[next[n]]
        BY <2>1, <2>4, <3>2
      <4>2. h[n] = F[<<n, g[next[n]]>>]
        BY <3>2
      <4> QED
        BY <3>2, <4>1, <4>2
    <3> QED
      BY <3>1, <3>2
  <2>6. Partial(k + 1, h)
    BY <2>3, <2>5
  <2> QED
    BY <2>6
<1> HIDE DEF Partial
<1>4. T = {}
  <2> SUFFICES ASSUME T # {} PROVE FALSE
    OBVIOUS
  <2>1. T \in SUBSET Nat
    OBVIOUS
  <2> HIDE DEF T
  <2>2. PICK k \in T : \A j \in T : k <= j
    BY <2>1, LeastExists
  <2>3. k \in Nat /\ k # 0 /\ ~\E g : Partial(k, g)
    BY <1>2, <2>2 DEF T
  <2>4. k - 1 \in Nat /\ k - 1 \notin T /\ (k - 1) + 1 = k
    BY <2>2, <2>3
  <2>5. \E g : Partial(k - 1, g)
    BY <2>4 DEF T
  <2> QED
    BY <1>3, <2>3, <2>4, <2>5
<1>5. \A k \in Nat : \E g : Partial(k, g)
  BY <1>4
<1> DEFINE V == [k \in Nat |-> CHOOSE g : Partial(k, g)]
<1>6. \A k \in Nat : Partial(k, V[k])
  BY <1>5
<1>7. ASSUME NEW k \in Nat, NEW j \in Nat, j <= k, NEW n \in Below(j)
      PROVE  n \in Below(k) /\ V[j][n] = V[k][n]
  <2> DEFINE Wrong == {r \in Nat : \E m \in Below(j) : rank[m] = r /\ V[j][m] # V[k][m]}
  <2>1. \A m \in Below(j) : m \in Below(k)
    BY <1>1, <1>7
  <2>2. Partial(j, V[j]) /\ Partial(k, V[k])
    BY <1>6
  <2> HIDE DEF V
  <2>3. Wrong = {}
    <3> SUFFICES ASSUME Wrong # {} PROVE FALSE
      OBVIOUS
    <3>1. Wrong \in SUBSET Nat
      OBVIOUS
    <3> HIDE DEF Wrong
    <3>2. PICK r \in Wrong : \A q \in Wrong : r <= q
      BY <3>1, LeastExists
    <3>3. PICK m \in Below(j) : rank[m] = r /\ V[j][m] # V[k][m]
      BY <3>2 DEF Wrong
    <3>4. /\ V[j][m] = IF m \in Stop THEN base[m] ELSE F[<<m, V[j][next[m]]>>]
          /\ V[k][m] = IF m \in Stop THEN base[m] ELSE F[<<m, V[k][next[m]]>>]
      BY <2>1, <2>2 DEF Partial
    <3>5. m \notin Stop /\ V[j][next[m]] # V[k][next[m]]
      BY <3>3, <3>4
    <3>6. next[m] \in D /\ rank[next[m]] < r /\ rank[next[m]] \in Nat /\ r \in Nat /\ r < j
      BY <1>1, <3>3, <3>5
    <3>7. next[m] \in Below(j)
      BY <3>6
    <3>8. rank[next[m]] \in Wrong
      BY <3>5, <3>6, <3>7 DEF Wrong
    <3> QED
      BY <3>2, <3>6, <3>8
  <2> QED
    BY <1>1, <2>1, <2>3
<1> DEFINE g == [n \in D |-> V[rank[n] + 1][n]]
<1>8. ASSUME NEW n \in D PROVE n \in Below(rank[n] + 1)
  BY <1>1
<1>9. ASSUME NEW n \in D
      PROVE  g[n] \in S /\ g[n] = IF n \in Stop THEN base[n] ELSE F[<<n, g[next[n]]>>]
  <2> DEFINE k == rank[n] + 1
  <2>1. k \in Nat /\ n \in Below(k) /\ Partial(k, V[k])
    BY <1>1, <1>6, <1>8
  <2> HIDE DEF V
  <2>2. V[k][n] \in S /\ V[k][n] = IF n \in Stop THEN base[n] ELSE F[<<n, V[k][next[n]]>>]
    BY <2>1 DEF Partial
  <2>3. ASSUME n \notin Stop PROVE V[k][next[n]] = g[next[n]]
    <3>1. next[n] \in D /\ rank[next[n]] + 1 <= k /\ rank[next[n]] + 1 \in Nat
      BY <1>1, <2>3
    <3>2. next[n] \in Below(rank[next[n]] + 1)
      BY <1>8, <3>1
    <3>3. V[rank[next[n]] + 1][next[n]] = V[k][next[n]]
      BY <1>7, <2>1, <3>1, <3>2
    <3> QED
      BY <3>1, <3>3
  <2> QED
    BY <2>2, <2>3
<1> HIDE DEF V
<1>10. g \in [D -> S]
  BY <1>9
<1>11. Solves(g, D, S, Stop, base, next, F)
  BY <1>9, <1>10 DEF Solves
<1> QED
  BY <1>11

-----------------------------------------------------------------------------
(* Pending input: what is replayed                                         *)

ReplaySet == [length : Nat, found : SUBSET DOMAIN input_bindings]

LEMMA TotalsExist ==
    ASSUME NEW q \in Seq(ReplaySet)
    PROVE  \E g \in [0..Len(q) -> Nat] :
               /\ g = [i \in 0..Len(q) |-> IF i = 0 THEN 0 ELSE g[i - 1] + q[i].length]
               /\ Pending!Replayed(q) = g[Len(q)]
<1> DEFINE D == 0..Len(q)
           Stop == {0}
           rank == [i \in D |-> i]
           base == [i \in Stop |-> 0]
           next == [i \in D \ Stop |-> i - 1]
           F == [x \in (D \ Stop) \X Nat |-> x[2] + q[x[1]].length]
<1>1. Len(q) \in Nat /\ \A i \in 1..Len(q) : q[i].length \in Nat
  <2>1. Len(q) \in Nat /\ \A i \in 1..Len(q) : q[i] \in ReplaySet
    OBVIOUS
  <2> QED
    BY <2>1 DEF ReplaySet
<1>2. /\ rank \in [D -> Nat] /\ base \in [Stop -> Nat] /\ Stop \subseteq D
      /\ next \in [D \ Stop -> D]
      /\ \A n \in D \ Stop : rank[next[n]] < rank[n]
  BY <1>1
<1>3. F \in [(D \ Stop) \X Nat -> Nat]
  BY <1>1
<1>4. IsRecursion(D, Nat, Stop, rank, base, next, F)
  BY <1>2, <1>3 DEF IsRecursion
<1>5. /\ base[0] = 0
      /\ \A i \in 1..Len(q) : next[i] = i - 1 /\ \A x \in Nat : F[<<i, x>>] = x + q[i].length
  BY <1>1
<1>6. PICK g : Solves(g, D, Nat, Stop, base, next, F)
  <2> HIDE DEF D, Stop, rank, base, next, F
  <2> QED
    BY <1>4, RecursionExists
<1> HIDE DEF rank, base, next, F
<1>7. ASSUME NEW i \in D
      PROVE  g[i] \in Nat /\ g[i] = IF i = 0 THEN 0 ELSE g[i - 1] + q[i].length
  <2>1. /\ g \in [D -> Nat]
        /\ \A n \in D : g[n] = IF n \in Stop THEN base[n] ELSE F[<<n, g[next[n]]>>]
    BY <1>6 DEF Solves
  <2>2. CASE i = 0
    BY <1>5, <2>1, <2>2
  <2>3. CASE i # 0
    <3>1. i \in 1..Len(q) /\ i - 1 \in D /\ g[i - 1] \in Nat
      BY <1>1, <2>1, <2>3
    <3>2. F[<<i, g[i - 1]>>] = g[i - 1] + q[i].length /\ next[i] = i - 1
      BY <1>5, <3>1
    <3> QED
      BY <2>1, <2>3, <3>2
  <2> QED
    BY <2>2, <2>3
<1>8. g = [i \in 0..Len(q) |-> IF i = 0 THEN 0 ELSE g[i - 1] + q[i].length]
  BY <1>6, <1>7 DEF Solves
<1>9. \E h : /\ h = [i \in 0..Len(q) |-> IF i = 0 THEN 0 ELSE h[i - 1] + q[i].length]
             /\ Pending!Replayed(q) = h[Len(q)]
  BY <1>8, Zenon DEF Pending!Replayed
<1>10. PICK h : /\ h = [i \in 0..Len(q) |-> IF i = 0 THEN 0 ELSE h[i - 1] + q[i].length]
                /\ Pending!Replayed(q) = h[Len(q)]
  BY <1>9
<1>11. h \in [D -> Nat]
  <2> DEFINE T == {i \in Nat : i \in D /\ h[i] \notin Nat}
  <2>1. T \in SUBSET Nat
    OBVIOUS
  <2>2. \A i \in D : h[i] = IF i = 0 THEN 0 ELSE h[i - 1] + q[i].length
    BY <1>10
  <2> HIDE DEF T
  <2>3. T = {}
    <3> SUFFICES ASSUME T # {} PROVE FALSE
      OBVIOUS
    <3>1. PICK i \in T : \A k \in T : i <= k
      BY <2>1, LeastExists
    <3>2. i \in Nat /\ i \in D /\ h[i] \notin Nat /\ i # 0
      BY <2>2, <3>1 DEF T
    <3>3. i - 1 \in Nat /\ i - 1 \in D /\ i - 1 \notin T
      BY <1>1, <3>1, <3>2
    <3>4. h[i - 1] \in Nat
      BY <3>3 DEF T
    <3> QED
      BY <1>1, <2>2, <3>2, <3>4
  <2>4. \A i \in D : h[i] \in Nat
    BY <1>1, <2>3 DEF T
  <2>5. DOMAIN h = D /\ h = [i \in D |-> h[i]]
    BY <1>10
  <2> QED
    BY <2>4, <2>5
<1> QED
  BY <1>10, <1>11

LEMMA ReplayedNone == Pending!Replayed(<<>>) = 0
<1>1. <<>> \in Seq(ReplaySet) /\ Len(<<>>) = 0
  OBVIOUS
<1>2. PICK g \in [0..0 -> Nat] :
          /\ g = [i \in 0..0 |-> IF i = 0 THEN 0 ELSE g[i - 1] + <<>>[i].length]
          /\ Pending!Replayed(<<>>) = g[0]
  BY <1>1, TotalsExist
<1> QED
  BY <1>2

LEMMA ReplayedCons ==
    ASSUME NEW p \in ReplaySet, NEW q \in Seq(ReplaySet)
    PROVE  /\ <<p>> \o q \in Seq(ReplaySet) /\ Pending!Replayed(q) \in Nat
           /\ Pending!Replayed(<<p>> \o q) = p.length + Pending!Replayed(q)
<1> DEFINE r == <<p>> \o q
           N == Len(q)
<1>1. /\ r \in Seq(ReplaySet) /\ N \in Nat /\ Len(r) = N + 1 /\ p.length \in Nat
      /\ r[1] = p /\ \A i \in 1..N : r[i + 1] = q[i]
  BY DEF ReplaySet
<1> HIDE DEF r
<1>2. PICK g \in [0..Len(q) -> Nat] :
          /\ g = [i \in 0..Len(q) |-> IF i = 0 THEN 0 ELSE g[i - 1] + q[i].length]
          /\ Pending!Replayed(q) = g[Len(q)]
  BY TotalsExist
<1>3. PICK h \in [0..Len(r) -> Nat] :
          /\ h = [i \in 0..Len(r) |-> IF i = 0 THEN 0 ELSE h[i - 1] + r[i].length]
          /\ Pending!Replayed(r) = h[Len(r)]
  BY <1>1, TotalsExist
<1>4. /\ \A i \in 0..N : g[i] \in Nat /\ g[i] = IF i = 0 THEN 0 ELSE g[i - 1] + q[i].length
      /\ \A i \in 0..(N + 1) : h[i] = IF i = 0 THEN 0 ELSE h[i - 1] + r[i].length
  BY <1>1, <1>2, <1>3
<1> DEFINE T == {i \in Nat : i <= N /\ h[i + 1] # p.length + g[i]}
<1>5. T \in SUBSET Nat
  OBVIOUS
<1> HIDE DEF T
<1>6. T = {}
  <2> SUFFICES ASSUME T # {} PROVE FALSE
    OBVIOUS
  <2>1. PICK i \in T : \A k \in T : i <= k
    BY <1>5, LeastExists
  <2>2. i \in Nat /\ i <= N /\ h[i + 1] # p.length + g[i]
    BY <2>1 DEF T
  <2>3. i # 0
    <3>1. g[0] = 0 /\ h[0] = 0 /\ h[1] = h[0] + r[1].length
      BY <1>1, <1>4
    <3> QED
      BY <1>1, <2>2, <3>1
  <2>4. i - 1 \in Nat /\ i - 1 <= N /\ i - 1 \notin T
    BY <1>1, <2>1, <2>2, <2>3
  <2>5. h[i] = p.length + g[i - 1]
    BY <2>2, <2>4 DEF T
  <2>6. h[i + 1] = h[i] + q[i].length /\ g[i] = g[i - 1] + q[i].length
    <3>1. i + 1 \in 0..(N + 1) /\ i + 1 # 0 /\ (i + 1) - 1 = i /\ i \in 0..N /\ i \in 1..N
      BY <1>1, <2>2, <2>3
    <3> QED
      BY <1>1, <1>4, <2>3, <3>1
  <2>7. q[i].length \in Nat /\ g[i - 1] \in Nat
    <3>1. i \in 1..N /\ i - 1 \in 0..N
      BY <1>1, <2>2, <2>3
    <3>2. q[i] \in ReplaySet
      BY <3>1
    <3> QED
      BY <1>2, <1>4, <3>1, <3>2 DEF ReplaySet
  <2>8. h[i + 1] = p.length + g[i]
    BY <1>1, <2>5, <2>6, <2>7
  <2> QED
    BY <2>2, <2>8
<1>7. h[N + 1] = p.length + g[N]
  <2>1. N \in Nat /\ N <= N /\ N \notin T
    BY <1>1, <1>6
  <2> QED
    BY <2>1 DEF T
<1>8. g[Len(q)] \in Nat /\ h[Len(r)] = p.length + g[Len(q)]
  BY <1>1, <1>4, <1>7
<1>9. Pending!Replayed(q) \in Nat /\ Pending!Replayed(r) = p.length + Pending!Replayed(q)
  BY <1>2, <1>3, <1>8
<1> QED
  BY <1>1, <1>9 DEF r

\* Replays leave the focus alone where no binding moves it.
LEMMA FocusReplayed ==
    ASSUME NEW q \in Seq(ReplaySet), NEW f, NEW ctx
    PROVE  /\ Pending!FocusAfterReplay(q, f, ctx) \in {f, "panel"}
           /\ (\A i \in DOMAIN input_bindings : input_bindings[i].name # "Focus") =>
                  Pending!FocusAfterReplay(q, f, ctx) = f
<1> DEFINE D == 0..Len(q)
           S == {f, "panel"}
           Stop == {0}
           rank == [i \in D |-> i]
           base == [i \in Stop |-> f]
           next == [i \in D \ Stop |-> i - 1]
           F == [x \in (D \ Stop) \X S |-> Pending!FocusAfter(q[x[1]].found, x[2], ctx)]
<1>1. Len(q) \in Nat /\ \A i \in 1..Len(q) : q[i] \in ReplaySet
  OBVIOUS
<1>2. /\ rank \in [D -> Nat] /\ base \in [Stop -> S] /\ Stop \subseteq D
      /\ next \in [D \ Stop -> D]
      /\ \A n \in D \ Stop : rank[next[n]] < rank[n]
  BY <1>1
<1>3. \A found, x : Pending!FocusAfter(found, x, ctx) \in {x, "panel"}
  BY DEF Pending!FocusAfter
<1>4. F \in [(D \ Stop) \X S -> S]
  BY <1>3
<1>5. IsRecursion(D, S, Stop, rank, base, next, F)
  BY <1>2, <1>4 DEF IsRecursion
<1>6. /\ base[0] = f
      /\ \A i \in 1..Len(q) :
             /\ next[i] = i - 1
             /\ \A x \in S : F[<<i, x>>] = Pending!FocusAfter(q[i].found, x, ctx)
  BY <1>1
<1>7. PICK g : Solves(g, D, S, Stop, base, next, F)
  <2> HIDE DEF D, S, Stop, rank, base, next, F
  <2> QED
    BY <1>5, RecursionExists
<1> HIDE DEF S, rank, base, next, F
<1>8. ASSUME NEW i \in D
      PROVE  g[i] = IF i = 0 THEN f ELSE Pending!FocusAfter(q[i].found, g[i - 1], ctx)
  <2>1. /\ g \in [D -> S]
        /\ \A n \in D : g[n] = IF n \in Stop THEN base[n] ELSE F[<<n, g[next[n]]>>]
    BY <1>7 DEF Solves
  <2>2. CASE i = 0
    BY <1>6, <2>1, <2>2
  <2>3. CASE i # 0
    <3>1. i \in 1..Len(q) /\ i - 1 \in D /\ g[i - 1] \in S
      BY <1>1, <2>1, <2>3
    <3>2. F[<<i, g[i - 1]>>] = Pending!FocusAfter(q[i].found, g[i - 1], ctx) /\ next[i] = i - 1
      BY <1>6, <3>1
    <3> QED
      BY <2>1, <2>3, <3>2
  <2> QED
    BY <2>2, <2>3
<1>9. g = [i \in 0..Len(q) |->
              IF i = 0 THEN f ELSE Pending!FocusAfter(q[i].found, g[i - 1], ctx)]
  BY <1>7, <1>8 DEF Solves
<1>10. \E h : /\ h = [i \in 0..Len(q) |->
                        IF i = 0 THEN f ELSE Pending!FocusAfter(q[i].found, h[i - 1], ctx)]
              /\ Pending!FocusAfterReplay(q, f, ctx) = h[Len(q)]
  BY <1>9, Zenon DEF Pending!FocusAfterReplay
<1>11. PICK h : /\ h = [i \in 0..Len(q) |->
                        IF i = 0 THEN f ELSE Pending!FocusAfter(q[i].found, h[i - 1], ctx)]
                /\ Pending!FocusAfterReplay(q, f, ctx) = h[Len(q)]
  BY <1>10
<1>12. \A i \in D : h[i] = IF i = 0 THEN f ELSE Pending!FocusAfter(q[i].found, h[i - 1], ctx)
  BY <1>11
<1> DEFINE Unfocused == \A i \in DOMAIN input_bindings : input_bindings[i].name # "Focus"
           Right(x) == x \in {f, "panel"} /\ (Unfocused => x = f)
           T == {i \in Nat : i \in D /\ ~Right(h[i])}
<1>13. ASSUME NEW i \in 1..Len(q), NEW x, Right(x)
       PROVE  Right(Pending!FocusAfter(q[i].found, x, ctx))
  <2>1. \A j \in q[i].found : j \in DOMAIN input_bindings
    BY <1>1 DEF ReplaySet
  <2>2. Unfocused => Pending!FocusAfter(q[i].found, x, ctx) = x
    BY <2>1 DEF Pending!FocusAfter
  <2> QED
    BY <1>3, <1>13, <2>2
<1>14. Right(f)
  OBVIOUS
<1>15. T \in SUBSET Nat
  OBVIOUS
<1> HIDE DEF T, Right
<1>16. T = {}
  <2> SUFFICES ASSUME T # {} PROVE FALSE
    OBVIOUS
  <2>1. PICK i \in T : \A k \in T : i <= k
    BY <1>15, LeastExists
  <2>2. i \in Nat /\ i \in D /\ ~Right(h[i])
    BY <2>1 DEF T
  <2>3. i # 0
    BY <1>12, <1>14, <2>2
  <2>4. i - 1 \in Nat /\ i - 1 \in D /\ i \in 1..Len(q) /\ i - 1 \notin T
    BY <1>1, <2>1, <2>2, <2>3
  <2>5. Right(h[i - 1])
    BY <2>4 DEF T
  <2>6. h[i] = Pending!FocusAfter(q[i].found, h[i - 1], ctx)
    BY <1>12, <2>2, <2>3
  <2> QED
    BY <1>13, <2>2, <2>4, <2>5, <2>6
<1>17. Right(h[Len(q)])
  <2>1. Len(q) \in Nat /\ Len(q) \in D /\ Len(q) \notin T
    BY <1>1, <1>16
  <2> QED
    BY <2>1 DEF T
<1> QED
  BY <1>11, <1>17 DEF Right

LEMMA AfterFits ==
    ASSUME NEW input \in Seq(InputKeys), NEW n \in 0..Len(input)
    PROVE  /\ Pending!After(input, n) \in Seq(InputKeys)
           /\ Len(Pending!After(input, n)) = Len(input) - n
           /\ Len(input) \in Nat
<1>1. Len(input) \in Nat /\ \A i \in 1..Len(input) : input[i] \in InputKeys
  OBVIOUS
<1>2. n + 1 \in 1..(Len(input) + 1) /\ Len(input) \in n..Len(input)
  BY <1>1
<1> QED
  BY <1>1, <1>2 DEF Pending!After

LEMMA FoundIsBound ==
    ASSUME NEW input, NEW ctx
    PROVE  Pending!K!Found(input, ctx) \subseteq DOMAIN input_bindings
  BY DEF Pending!K!Found, Pending!K!Matched

\* A replay takes at least one keystroke and no more than there are.
LEMMA PrefixFits ==
    ASSUME NEW input \in Seq(InputKeys), NEW ctx, Len(input) > 0
    PROVE  /\ Pending!ReplayPrefix(input, ctx) \in ReplaySet
           /\ Pending!ReplayPrefix(input, ctx).length \in 1..Len(input)
<1> DEFINE bound == {n \in 1..Len(input) : Pending!K!Found(SubSeq(input, 1, n), ctx) # {}}
           n == IF bound = {} THEN 1 ELSE Pending!Max(bound)
<1>1. Pending!ReplayPrefix(input, ctx)
          = [length |-> n, found |-> Pending!K!Found(SubSeq(input, 1, n), ctx)]
  BY DEF Pending!ReplayPrefix
<1>2. Len(input) \in Nat /\ bound \subseteq 1..Len(input) /\ bound \in SUBSET (0..Len(input))
  OBVIOUS
<1> HIDE DEF bound
<1>3. n \in 1..Len(input)
  <2>1. CASE bound = {}
    BY <1>2, <2>1
  <2>2. CASE bound # {}
    <3>1. PICK m \in bound : \A k \in bound : k <= m
      BY <1>2, <2>2, GreatestExists
    <3>2. \A k \in bound : m >= k
      BY <1>2, <3>1
    <3>3. Pending!Max(bound) \in bound
      BY <3>2 DEF Pending!Max
    <3> QED
      BY <1>2, <2>2, <3>3
  <2> QED
    BY <2>1, <2>2
<1> HIDE DEF n
<1>4. Pending!K!Found(SubSeq(input, 1, n), ctx) \subseteq DOMAIN input_bindings
  BY FoundIsBound
<1> QED
  BY <1>1, <1>2, <1>3, <1>4 DEF ReplaySet

ResultSet == [pending : Seq(InputKeys), has : BOOLEAN, found : SUBSET DOMAIN input_bindings,
              used : Nat, replays : Seq(ReplaySet)]

\* What dispatch_key makes of so many keystrokes: each is pending, used or replayed, and what is
\* pending might be completed.
Accounts(r, ctx, keystrokes) ==
    /\ r \in ResultSet
    /\ Pending!Replayed(r.replays) \in Nat
    /\ Pending!Replayed(r.replays) + r.used + Len(r.pending) = keystrokes
    /\ r.pending # <<>> => /\ Pending!K!IsPending(r.pending, ctx)
                           /\ r.has <=> Pending!K!Found(r.pending, ctx) # {}

LEMMA SettleAccounts ==
    ASSUME NEW full \in Seq(InputKeys), NEW ctx
    PROVE  Accounts(Pending!Settle(full, ctx), ctx, Len(full))
<1> DEFINE found == Pending!K!Found(full, ctx)
           r == Pending!Settle(full, ctx)
<1>1. found \subseteq DOMAIN input_bindings /\ Len(full) \in Nat
  BY FoundIsBound
<1>2. <<>> \in Seq(ReplaySet) /\ <<>> \in Seq(InputKeys) /\ Len(<<>>) = 0
  OBVIOUS
<1>3. CASE Pending!K!IsPending(full, ctx)
  <2>1. r = [pending |-> full, has |-> found # {}, found |-> {}, used |-> 0, replays |-> <<>>]
    BY <1>3 DEF Pending!Settle
  <2>2. r \in ResultSet
    BY <1>1, <1>2, <2>1 DEF ResultSet
  <2>3. Pending!Replayed(r.replays) = 0 /\ r.used = 0 /\ r.pending = full
    BY <2>1, ReplayedNone
  <2>4. r.has <=> found # {}
    <3>1. CASE found # {}
      <4>1. r = [pending |-> full, has |-> TRUE, found |-> {}, used |-> 0, replays |-> <<>>]
        BY <1>3, <3>1 DEF Pending!Settle
      <4> QED
        BY <3>1, <4>1
    <3>2. CASE found = {}
      <4>1. r = [pending |-> full, has |-> FALSE, found |-> {}, used |-> 0, replays |-> <<>>]
        BY <1>3, <3>2 DEF Pending!Settle
      <4> QED
        BY <3>2, <4>1
    <3> QED
      BY <3>1, <3>2
  <2> QED
    BY <1>1, <1>3, <2>2, <2>3, <2>4 DEF Accounts
<1>4. CASE ~Pending!K!IsPending(full, ctx)
  <2>1. r = [pending |-> <<>>, has |-> FALSE, found |-> found, used |-> Len(full),
             replays |-> <<>>]
    BY <1>4 DEF Pending!Settle
  <2>2. r \in ResultSet
    BY <1>1, <1>2, <2>1 DEF ResultSet
  <2>3. Pending!Replayed(r.replays) = 0 /\ r.used = Len(full) /\ r.pending = <<>>
    BY <2>1, ReplayedNone
  <2> QED
    BY <1>1, <1>2, <2>2, <2>3 DEF Accounts
<1> QED
  BY <1>3, <1>4

LEMMA ReplayingAccounts ==
    ASSUME NEW p \in ReplaySet, NEW ctx, NEW r, NEW n \in Nat, Accounts(r, ctx, n)
    PROVE  Accounts(Pending!Replaying(p, r), ctx, p.length + n)
<1> DEFINE s == Pending!Replaying(p, r)
<1>1. /\ r \in ResultSet /\ r.replays \in Seq(ReplaySet) /\ r.used \in Nat
      /\ Len(r.pending) \in Nat /\ p.length \in Nat
  BY DEF Accounts, ResultSet, ReplaySet
<1>2. /\ <<p>> \o r.replays \in Seq(ReplaySet)
      /\ Pending!Replayed(r.replays) \in Nat
      /\ Pending!Replayed(<<p>> \o r.replays) = p.length + Pending!Replayed(r.replays)
  BY <1>1, ReplayedCons
<1>3. /\ s.pending = r.pending /\ s.has = r.has /\ s.used = r.used
      /\ s.replays = <<p>> \o r.replays /\ s \in ResultSet
  BY <1>1, <1>2 DEF Pending!Replaying, ResultSet
<1> HIDE DEF s
<1>4. Pending!Replayed(s.replays) + s.used + Len(s.pending) = p.length + n
  <2>1. PICK a \in Nat : a = Pending!Replayed(r.replays)
    BY <1>2
  <2>2. a + r.used + Len(r.pending) = n
    BY <2>1 DEF Accounts
  <2>3. Pending!Replayed(s.replays) = p.length + a /\ s.used = r.used /\ s.pending = r.pending
    BY <1>2, <1>3, <2>1
  <2> QED
    BY <1>1, <2>2, <2>3
<1>5. Pending!Replayed(s.replays) \in Nat
  BY <1>1, <1>2, <1>3
<1>6. Accounts(s, ctx, p.length + n)
  BY <1>3, <1>4, <1>5 DEF Accounts
<1> QED
  BY <1>6 DEF s

\* dispatch_key as a function of how much was replayed.
DispatchStep(g, input, k, ctx, n) ==
    IF Pending!Settled(Append(Pending!After(input, n), k), ctx)
    THEN Pending!Settle(Append(Pending!After(input, n), k), ctx)
    ELSE Pending!Replaying(Pending!ReplayPrefix(Pending!After(input, n), ctx),
                           g[n + Pending!ReplayPrefix(Pending!After(input, n), ctx).length])

LEMMA DispatchAccounts ==
    ASSUME NEW input \in Seq(InputKeys), NEW k \in InputKeys, NEW ctx
    PROVE  Accounts(Pending!dispatch_key(input, k, ctx), ctx, Len(input) + 1)
<1> DEFINE L == Len(input)
           D == 0..L
           full(n) == Append(Pending!After(input, n), k)
           p(n) == Pending!ReplayPrefix(Pending!After(input, n), ctx)
           S == ResultSet
           Stop == {n \in D : Pending!Settled(full(n), ctx)}
           rank == [n \in D |-> L - n]
           base == [n \in Stop |-> Pending!Settle(full(n), ctx)]
           next == [n \in D \ Stop |-> n + p(n).length]
           F == [x \in (D \ Stop) \X S |-> Pending!Replaying(p(x[1]), x[2])]
<1>1. L \in Nat
  OBVIOUS
<1>2. ASSUME NEW n \in D PROVE full(n) \in Seq(InputKeys) /\ Len(full(n)) = L - n + 1
  <2>1. Pending!After(input, n) \in Seq(InputKeys) /\ Len(Pending!After(input, n)) = L - n
    BY AfterFits
  <2> QED
    BY <1>1, <2>1
<1>3. ASSUME NEW n \in D \ Stop
      PROVE  p(n) \in ReplaySet /\ p(n).length \in 1..(L - n) /\ n + p(n).length \in D
  <2>1. Pending!After(input, n) \in Seq(InputKeys) /\ Len(Pending!After(input, n)) = L - n
    BY AfterFits
  <2>2. L - n > 0
    <3>1. Len(full(n)) # 1
      BY DEF Pending!Settled
    <3> QED
      BY <1>1, <1>2, <3>1
  <2>3. p(n) \in ReplaySet /\ p(n).length \in 1..(L - n)
    BY <2>1, <2>2, PrefixFits
  <2> QED
    BY <1>1, <2>3
<1>4. ASSUME NEW n \in Stop PROVE Accounts(Pending!Settle(full(n), ctx), ctx, L - n + 1)
  <2>1. n \in D
    OBVIOUS
  <2>2. full(n) \in Seq(InputKeys) /\ Len(full(n)) = L - n + 1
    BY <1>2, <2>1
  <2> HIDE DEF full
  <2>3. Accounts(Pending!Settle(full(n), ctx), ctx, Len(full(n)))
    BY <2>2, SettleAccounts
  <2> QED
    BY <2>2, <2>3
<1>5. ASSUME NEW n \in D \ Stop, NEW r \in S PROVE Pending!Replaying(p(n), r) \in S
  <2>1. p(n) \in ReplaySet /\ r.replays \in Seq(ReplaySet)
    BY <1>3 DEF ResultSet
  <2> HIDE DEF p
  <2>2. <<p(n)>> \o r.replays \in Seq(ReplaySet)
    BY <2>1, ReplayedCons
  <2> QED
    BY <2>2 DEF Pending!Replaying, ResultSet
<1> HIDE DEF full, p, S, L
<1>6. \E g : g = [n \in D |-> DispatchStep(g, input, k, ctx, n)]
  <2>1. \A n \in D : L - n \in Nat
    BY <1>1
  <2>2. /\ Stop \subseteq D /\ rank \in [D -> Nat] /\ base \in [Stop -> S]
        /\ next \in [D \ Stop -> D] /\ F \in [(D \ Stop) \X S -> S]
    BY <1>3, <1>4, <1>5, <2>1 DEF Accounts, S
  <2>3. \A n \in D \ Stop : rank[next[n]] < rank[n]
    <3>1. ASSUME NEW n \in D \ Stop PROVE rank[next[n]] < rank[n]
      <4>1. n + p(n).length \in D /\ p(n).length \in 1..(L - n) /\ n \in D
        BY <1>3
      <4>2. rank[next[n]] = L - (n + p(n).length) /\ rank[n] = L - n
        BY <4>1
      <4> QED
        BY <1>1, <4>1, <4>2
    <3> QED
      BY <3>1
  <2>4. IsRecursion(D, S, Stop, rank, base, next, F)
    BY <2>2, <2>3 DEF IsRecursion
  <2>5. PICK g : Solves(g, D, S, Stop, base, next, F)
    <3> HIDE DEF D, Stop, rank, base, next, F
    <3> QED
      BY <2>4, RecursionExists
  <2>6. /\ g \in [D -> S]
        /\ \A n \in D : g[n] = IF n \in Stop THEN base[n] ELSE F[<<n, g[next[n]]>>]
    BY <2>5 DEF Solves
  <2>7. ASSUME NEW n \in D PROVE g[n] = DispatchStep(g, input, k, ctx, n)
    <3>1. CASE n \in Stop
      <4>1. g[n] = Pending!Settle(full(n), ctx)
        BY <2>6, <3>1
      <4> QED
        BY <3>1, <4>1 DEF DispatchStep, full
    <3>2. CASE n \notin Stop
      <4>1. next[n] = n + p(n).length /\ next[n] \in D /\ g[next[n]] \in S
        BY <1>3, <2>6, <3>2
      <4>2. F[<<n, g[next[n]]>>] = Pending!Replaying(p(n), g[next[n]])
        BY <3>2, <4>1
      <4>3. g[n] = Pending!Replaying(p(n), g[n + p(n).length])
        BY <2>6, <3>2, <4>1, <4>2
      <4> QED
        BY <3>2, <4>3 DEF DispatchStep, full, p
    <3> QED
      BY <3>1, <3>2
  <2>8. g = [n \in D |-> DispatchStep(g, input, k, ctx, n)]
    BY <2>6, <2>7
  <2> QED
    BY <2>8
<1>7. \E h : /\ h = [n \in 0..Len(input) |-> DispatchStep(h, input, k, ctx, n)]
             /\ Pending!dispatch_key(input, k, ctx) = h[0]
  BY <1>6, Zenon DEF Pending!dispatch_key, DispatchStep, L
<1>8. PICK h : /\ h = [n \in 0..Len(input) |-> DispatchStep(h, input, k, ctx, n)]
               /\ Pending!dispatch_key(input, k, ctx) = h[0]
  BY <1>7
<1>9. ASSUME NEW n \in D
      PROVE  h[n] = IF n \in Stop THEN Pending!Settle(full(n), ctx)
                    ELSE Pending!Replaying(p(n), h[n + p(n).length])
  <2>1. h[n] = DispatchStep(h, input, k, ctx, n)
    BY <1>8 DEF L
  <2> QED
    BY <2>1 DEF DispatchStep, full, p
<1> DEFINE T == {n \in D : ~Accounts(h[n], ctx, L - n + 1)}
<1>10. T \in SUBSET (0..L)
  OBVIOUS
<1> HIDE DEF T
<1>11. T = {}
  <2> SUFFICES ASSUME T # {} PROVE FALSE
    OBVIOUS
  <2>1. PICK n \in T : \A j \in T : j <= n
    BY <1>1, <1>10, GreatestExists
  <2>2. n \in D /\ ~Accounts(h[n], ctx, L - n + 1)
    BY <2>1 DEF T
  <2>3. n \notin Stop
    BY <1>4, <1>9, <2>2
  <2>4. PICK m \in D : m = n + p(n).length
    BY <1>3, <2>2, <2>3
  <2>5. p(n) \in ReplaySet /\ p(n).length \in Nat /\ m > n /\ m \notin T
    BY <1>1, <1>3, <2>1, <2>2, <2>3, <2>4
  <2>6. Accounts(h[m], ctx, L - m + 1) /\ L - m + 1 \in Nat
    <3>1. Accounts(h[m], ctx, L - m + 1)
      BY <2>4, <2>5 DEF T
    <3>2. L - m + 1 \in Nat
      BY <1>1, <2>4
    <3> QED
      BY <3>1, <3>2
  <2>7. Accounts(Pending!Replaying(p(n), h[m]), ctx, p(n).length + (L - m + 1))
    BY <2>5, <2>6, ReplayingAccounts
  <2>8. p(n).length + (L - m + 1) = L - n + 1
    BY <1>1, <2>2, <2>4, <2>5
  <2>9. h[n] = Pending!Replaying(p(n), h[m])
    BY <1>9, <2>2, <2>3, <2>4
  <2> QED
    BY <2>2, <2>7, <2>8, <2>9
<1>12. Accounts(h[0], ctx, L + 1)
  <2>1. 0 \in D /\ 0 \notin T /\ L - 0 + 1 = L + 1
    BY <1>1, <1>11
  <2> QED
    BY <2>1 DEF T
<1> QED
  BY <1>8, <1>12 DEF L

\* flush_dispatch replays all of the input.
LEMMA FlushAccounts ==
    ASSUME NEW input \in Seq(InputKeys), NEW ctx
    PROVE  /\ Pending!flush_dispatch(input, ctx) \in Seq(ReplaySet)
           /\ Pending!Replayed(Pending!flush_dispatch(input, ctx)) = Len(input)
<1> DEFINE L == Len(input)
           D == 0..L
           p(n) == Pending!ReplayPrefix(Pending!After(input, n), ctx)
           S == Seq(ReplaySet)
           Stop == {L}
           rank == [n \in D |-> L - n]
           base == [n \in Stop |-> <<>>]
           next == [n \in D \ Stop |-> n + p(n).length]
           F == [x \in (D \ Stop) \X S |-> <<p(x[1])>> \o x[2]]
<1>1. L \in Nat
  OBVIOUS
<1>2. ASSUME NEW n \in D \ Stop
      PROVE  p(n) \in ReplaySet /\ p(n).length \in 1..(L - n) /\ n + p(n).length \in D
  <2>1. Pending!After(input, n) \in Seq(InputKeys) /\ Len(Pending!After(input, n)) = L - n
    BY AfterFits
  <2>2. L - n > 0
    BY <1>1
  <2>3. p(n) \in ReplaySet /\ p(n).length \in 1..(L - n)
    BY <2>1, <2>2, PrefixFits
  <2> QED
    BY <1>1, <2>3
<1>3. ASSUME NEW n \in D \ Stop, NEW q \in S PROVE <<p(n)>> \o q \in S
  <2>1. p(n) \in ReplaySet
    BY <1>2
  <2> QED
    BY <2>1, ReplayedCons
<1>4. <<>> \in S
  OBVIOUS
<1> HIDE DEF p, S, L
<1>5. \E g : g = [n \in D |-> IF n = L THEN <<>> ELSE <<p(n)>> \o g[n + p(n).length]]
  <2>1. \A n \in D : L - n \in Nat
    BY <1>1
  <2>2. /\ Stop \subseteq D /\ rank \in [D -> Nat] /\ base \in [Stop -> S]
        /\ next \in [D \ Stop -> D] /\ F \in [(D \ Stop) \X S -> S]
    BY <1>1, <1>2, <1>3, <1>4, <2>1
  <2>3. \A n \in D \ Stop : rank[next[n]] < rank[n]
    <3>1. ASSUME NEW n \in D \ Stop PROVE rank[next[n]] < rank[n]
      <4>1. n + p(n).length \in D /\ p(n).length \in 1..(L - n) /\ n \in D
        BY <1>2
      <4>2. rank[next[n]] = L - (n + p(n).length) /\ rank[n] = L - n
        BY <4>1
      <4> QED
        BY <1>1, <4>1, <4>2
    <3> QED
      BY <3>1
  <2>4. IsRecursion(D, S, Stop, rank, base, next, F)
    BY <2>2, <2>3 DEF IsRecursion
  <2>5. PICK g : Solves(g, D, S, Stop, base, next, F)
    <3> HIDE DEF D, Stop, rank, base, next, F
    <3> QED
      BY <2>4, RecursionExists
  <2>6. /\ g \in [D -> S]
        /\ \A n \in D : g[n] = IF n \in Stop THEN base[n] ELSE F[<<n, g[next[n]]>>]
    BY <2>5 DEF Solves
  <2>7. ASSUME NEW n \in D
        PROVE  g[n] = IF n = L THEN <<>> ELSE <<p(n)>> \o g[n + p(n).length]
    <3>1. CASE n = L
      BY <2>6, <3>1
    <3>2. CASE n # L
      <4>1. next[n] = n + p(n).length /\ next[n] \in D /\ g[next[n]] \in S
        BY <1>2, <2>6, <3>2
      <4>2. F[<<n, g[next[n]]>>] = <<p(n)>> \o g[next[n]]
        BY <3>2, <4>1
      <4> QED
        BY <2>6, <3>2, <4>1, <4>2
    <3> QED
      BY <3>1, <3>2
  <2>8. g = [n \in D |-> IF n = L THEN <<>> ELSE <<p(n)>> \o g[n + p(n).length]]
    BY <2>6, <2>7
  <2> QED
    BY <2>8
<1>6. \E h : /\ h = [n \in D |-> IF n = L THEN <<>> ELSE <<p(n)>> \o h[n + p(n).length]]
             /\ Pending!flush_dispatch(input, ctx) = h[0]
  BY <1>5, Zenon DEF Pending!flush_dispatch, p, L
<1>7. PICK h : /\ h = [n \in D |-> IF n = L THEN <<>> ELSE <<p(n)>> \o h[n + p(n).length]]
               /\ Pending!flush_dispatch(input, ctx) = h[0]
  BY <1>6
<1>8. \A n \in D : h[n] = IF n = L THEN <<>> ELSE <<p(n)>> \o h[n + p(n).length]
  BY <1>7
<1> DEFINE Flushes(n) == h[n] \in S /\ Pending!Replayed(h[n]) = L - n
           T == {n \in D : ~Flushes(n)}
<1>9. Flushes(L)
  <2>0. L \in D
    BY <1>1
  <2> HIDE DEF D
  <2>1. h[L] = <<>>
    BY <1>8, <2>0
  <2> QED
    BY <1>1, <1>4, <2>1, ReplayedNone
<1>10. ASSUME NEW n \in D, n # L, Flushes(n + p(n).length) PROVE Flushes(n)
  <2>1. p(n) \in ReplaySet /\ p(n).length \in 1..(L - n)
    BY <1>2, <1>10
  <2>2. PICK m \in D : m = n + p(n).length
    BY <1>2, <1>10
  <2>3. h[n] = <<p(n)>> \o h[m] /\ h[m] \in Seq(ReplaySet) /\ Pending!Replayed(h[m]) = L - m
    BY <1>8, <1>10, <2>2 DEF S
  <2>4. h[n] \in S /\ Pending!Replayed(h[n]) = p(n).length + (L - m)
    BY <2>1, <2>3, ReplayedCons DEF S
  <2>5. p(n).length + (L - m) = L - n
    BY <1>1, <2>1, <2>2
  <2> QED
    BY <2>4, <2>5
<1>11. T \in SUBSET (0..L)
  OBVIOUS
<1> HIDE DEF T, Flushes
<1>12. T = {}
  <2> SUFFICES ASSUME T # {} PROVE FALSE
    OBVIOUS
  <2>1. PICK n \in T : \A j \in T : j <= n
    BY <1>1, <1>11, GreatestExists
  <2>2. n \in D /\ ~Flushes(n)
    BY <2>1 DEF T
  <2>3. n # L
    BY <1>9, <2>2
  <2>4. n + p(n).length \in D /\ n + p(n).length > n
    BY <1>1, <1>2, <2>2, <2>3
  <2>5. n + p(n).length \notin T
    BY <1>1, <2>1, <2>2, <2>4
  <2>6. Flushes(n + p(n).length)
    BY <2>4, <2>5 DEF T
  <2> QED
    BY <1>10, <2>2, <2>3, <2>6
<1>13. Flushes(0)
  <2>1. 0 \in D /\ 0 \notin T
    BY <1>1, <1>12
  <2> QED
    BY <2>1 DEF T
<1>14. h[0] \in S /\ Pending!Replayed(h[0]) = L
  BY <1>1, <1>13 DEF Flushes
<1> QED
  BY <1>7, <1>14 DEF L, S

-----------------------------------------------------------------------------
(* Pending input: parts "ambiguous", "focusing" and "modifiers"            *)

BindingsOK == DOMAIN input_bindings = 1..Len(input_bindings)
              /\ \A i \in DOMAIN input_bindings : input_bindings[i] \in Pending!K!Binding

PendingSet == [keystrokes : Seq(InputKeys), focus : Pending!Foci \cup {"none"},
               timeout : {"none", "running"} \cup Owners]

\* While one modifier is down and nothing else was pressed, it is all that was pressed.
TapOK ==
    /\ modifiers \subseteq ModifierKeys /\ saw_other_input \in BOOLEAN
    /\ modifiers = {} => since = {}
    /\ modifiers # {} /\ ~saw_other_input => since = modifiers /\ \E m : modifiers = {m}
    /\ \E m : tapped \subseteq {m}

\* What is pending, and where no binding moves the focus: that it can be completed there.
CompletesOK ==
    /\ \A i \in DOMAIN input_bindings : input_bindings[i].name # "Focus"
    /\ pending # Pending!NoPending =>
           Pending!K!IsPending(pending.keystrokes, Pending!Stack(focus))
    /\ Pending!AmbiguousHasTimeout

\* The inductive invariant: of the keystrokes and what they wait for, and of the modifiers.
HeldOK ==
    /\ BindingsOK
    /\ pending \in PendingSet /\ focus \in Pending!Foci /\ alive \subseteq Owners
    /\ {typed, consumed, dropped} \subseteq Nat
    /\ pending.keystrokes = <<>> <=> pending = Pending!NoPending
    /\ Pending!PauseOwnerAlive /\ Pending!PendingHasFocus /\ Pending!KeystrokesAccounted
    /\ part # "focusing" => CompletesOK

InputInv == HeldOK /\ TapOK

LEMMA PendingCompletes ==
    ASSUME BindingsOK, NEW input, NEW ctx, Pending!K!IsPending(input, ctx)
    PROVE  \E s \in Pending!K!PendingStrokes(input, ctx) :
               Pending!K!DisabledInOrder(s, ctx) => Pending!K!Found(s, ctx) # {}
<1> DEFINE begun == Pending!K!Begun(input, ctx)
<1>1. PICK i \in begun :
          /\ input_bindings[i].kind = "Action"
          /\ input_bindings[i].keystrokes \in Pending!K!PendingStrokes(input, ctx)
          /\ \A j \in begun : j > i /\ input_bindings[j].keystrokes = input_bindings[i].keystrokes
                                  => input_bindings[j].kind = "Action"
  BY DEF Pending!K!IsPending, Pending!K!PendingStrokes
<1> DEFINE s == input_bindings[i].keystrokes
           matched == Pending!K!Matched(s, ctx)
<1>2. i \in matched /\ \A j \in matched : j \in begun /\ input_bindings[j].keystrokes = s
  BY <1>1 DEF Pending!K!Matched, Pending!K!Begun
<1>3. ASSUME Pending!K!DisabledInOrder(s, ctx) PROVE i \in Pending!K!Found(s, ctx)
  <2>1. \A d \in matched : input_bindings[d].kind # "Action" =>
            (d > i <=> Pending!K!Precedes(d, i, ctx))
    BY <1>1, <1>2, <1>3 DEF Pending!K!DisabledInOrder
  <2> HIDE DEF matched, begun
  <2>2. \A d \in matched : input_bindings[d].kind # "Action" => ~Pending!K!Precedes(d, i, ctx)
    BY <1>1, <1>2, <2>1
  <2>3. ~Pending!K!Hidden(i, matched, ctx) /\ ~Pending!K!Unbound(i, matched, ctx)
    BY <2>2 DEF Pending!K!Hidden, Pending!K!Unbound
  <2> QED
    BY <1>1, <1>2, <2>3 DEF Pending!K!Found, matched
<1> QED
  BY <1>1, <1>3

LEMMA InputConstants ==
    /\ ModifierKeys \subseteq InputKeys /\ IsFiniteSet(ModifierKeys)
    /\ "none" \notin Owners /\ "running" \notin Owners
    /\ \A S : Pending!Cardinality(S) = Cardinality(S)
<1>1. \A S : Pending!IsFiniteSet(S) = IsFiniteSet(S)
  BY DEF Pending!IsFiniteSet, IsFiniteSet
<1>2. \A S : Pending!Cardinality(S) = Cardinality(S)
  BY Zenon DEF Pending!Cardinality, Cardinality
<1> QED
  BY <1>1, <1>2, PartsAssumption DEF PartsAssumption, Pending!ConstantsAssumption

LEMMA InputImplies ==
    ASSUME InputInv
    PROVE  /\ Pending!TypeOK /\ Pending!PauseOwnerAlive /\ Pending!PendingHasFocus
           /\ Pending!KeystrokesAccounted /\ Pending!TapIsAlone
           /\ part # "focusing" => Pending!StillCompletes /\ Pending!AmbiguousHasTimeout
<1>1. Pending!TypeOK
  BY DEF InputInv, HeldOK, PendingSet, TapOK, Pending!TypeOK
<1>2. Pending!TapIsAlone
  <2>1. PICK m : tapped \subseteq {m}
    BY DEF InputInv, TapOK
  <2>2. tapped = {} \/ tapped = {m}
    BY <2>1
  <2>3. Cardinality(tapped) \in {0, 1}
    BY <2>2, FS_EmptySet, FS_Singleton
  <2> QED
    BY <2>3, InputConstants DEF Pending!TapIsAlone
<1>3. ASSUME part # "focusing" PROVE Pending!StillCompletes /\ Pending!AmbiguousHasTimeout
  BY <1>3, PendingCompletes DEF InputInv, HeldOK, CompletesOK, Pending!StillCompletes
<1> QED
  BY <1>1, <1>2, <1>3 DEF InputInv, HeldOK

LEMMA InputInit ==
    ASSUME Init, part \in {"ambiguous", "focusing", "modifiers"}
    PROVE  InputInv
<1> USE DEF Init, Pending!Init
<1>1. BindingsOK
  <2>1. PICK n \in 0..InputBindings : input_bindings \in [1..n -> Pending!K!Binding]
    OBVIOUS
  <2>2. n \in Nat
    BY <2>1, PartsAssumption DEF PartsAssumption, Pending!ConstantsAssumption
  <2>3. Len(input_bindings) = n
    BY <2>1, <2>2
  <2> QED
    BY <2>1, <2>3 DEF BindingsOK
<1>2. pending \in PendingSet /\ pending = Pending!NoPending /\ pending.timeout = "none"
      /\ pending.keystrokes = <<>> /\ Len(pending.keystrokes) = 0
  BY DEF Pending!NoPending, PendingSet
<1>3. TapOK
  BY DEF TapOK
<1>4. ASSUME part # "focusing" PROVE CompletesOK
  BY <1>2, <1>4 DEF CompletesOK, AreBound, Pending!AmbiguousHasTimeout
<1>5. /\ Pending!PauseOwnerAlive /\ Pending!PendingHasFocus /\ Pending!KeystrokesAccounted
      /\ focus \in Pending!Foci
  BY <1>2, InputConstants DEF Pending!PauseOwnerAlive, Pending!PendingHasFocus,
     Pending!KeystrokesAccounted, Pending!Foci
<1> QED
  BY <1>1, <1>2, <1>3, <1>4, <1>5 DEF InputInv, HeldOK

\* What the keymap says does not depend on the other variables.
LEMMA KeymapRests ==
    ASSUME input_bindings' = input_bindings
    PROVE  /\ BindingsOK => BindingsOK'
           /\ \A input, ctx : /\ Pending!K!Found(input, ctx)' = Pending!K!Found(input, ctx)
                              /\ Pending!K!IsPending(input, ctx)' <=> Pending!K!IsPending(input, ctx)
  BY DEF BindingsOK, Pending!K!Found, Pending!K!Matched, Pending!K!Precedes, Pending!K!Depth,
     Pending!K!Hidden, Pending!K!Unbound, Pending!K!IsPending, Pending!K!PendingStrokes,
     Pending!K!Begun, Pending!K!First

\* What is pending completes, if it does where the focus is.
LEMMA Completes ==
    ASSUME input_bindings' = input_bindings, CompletesOK,
           pending' # Pending!NoPending =>
               /\ Pending!K!IsPending(pending'.keystrokes, Pending!Stack(focus'))
               /\ Pending!K!Found(pending'.keystrokes, Pending!Stack(focus')) # {} =>
                      pending'.timeout # "none"
    PROVE  CompletesOK'
<1>1. PICK k, ctx : k = pending'.keystrokes /\ ctx = Pending!Stack(focus')
  OBVIOUS
<1>2. /\ Pending!K!Found(k, ctx)' = Pending!K!Found(k, ctx)
      /\ Pending!K!IsPending(k, ctx)' <=> Pending!K!IsPending(k, ctx)
  BY KeymapRests
<1>3. Pending!Stack(focus)' = ctx /\ (pending.keystrokes)' = k /\ Pending!NoPending' = Pending!NoPending
  BY <1>1 DEF Pending!Stack, Pending!NoPending
<1>4. pending' # Pending!NoPending => /\ Pending!K!IsPending(k, ctx)'
                                      /\ Pending!K!Found(k, ctx)' # {} => pending'.timeout # "none"
  BY <1>1, <1>2
<1> QED
  BY <1>3, <1>4 DEF CompletesOK, Pending!AmbiguousHasTimeout

LEMMA HeldRests ==
    ASSUME HeldOK, part' = part,
           UNCHANGED <<input_bindings, focus, pending, alive, typed, consumed, dropped>>
    PROVE  HeldOK'
<1>1. BindingsOK'
  BY KeymapRests DEF HeldOK
<1>2. CompletesOK => CompletesOK'
  BY Completes DEF CompletesOK, Pending!AmbiguousHasTimeout
<1> QED
  BY <1>1, <1>2 DEF HeldOK, Pending!PauseOwnerAlive, Pending!PendingHasFocus,
     Pending!KeystrokesAccounted

\* dispatch_key_event keeps what is pending where the focus is after the replays.
LEMMA DispatchHeld ==
    ASSUME HeldOK, part' = part, NEW k \in InputKeys, NEW text \in BOOLEAN, NEW prefer \in BOOLEAN,
           Pending!DispatchKeystroke(k, text, prefer)
    PROVE  HeldOK'
<1> DEFINE ctx == Pending!Stack(focus)
           r == Pending!dispatch_key(pending.keystrokes, k, ctx)
           f == Pending!FocusAfterReplay(r.replays, focus, ctx)
<1>1. /\ typed' = typed + 1 /\ dropped' = dropped /\ alive' = alive
      /\ input_bindings' = input_bindings
      /\ consumed' = consumed + Pending!Replayed(r.replays) + r.used
  BY DEF Pending!DispatchKeystroke, Pending!Dispatched
<1>2. /\ r.pending # <<>> =>
             /\ pending' = [keystrokes |-> r.pending, focus |-> f,
                            timeout |-> Pending!TimeoutOf(r.has, text)]
             /\ focus' = f
      /\ r.pending = <<>> =>
             /\ pending' = Pending!NoPending
             /\ focus' = Pending!FocusAfter(IF prefer THEN {} ELSE r.found, f, ctx)
  BY DEF Pending!DispatchKeystroke, Pending!Dispatched
<1>3. /\ pending \in PendingSet /\ pending.keystrokes \in Seq(InputKeys)
      /\ Len(pending.keystrokes) \in Nat /\ pending.timeout \in {"none", "running"} \cup Owners
      /\ typed \in Nat /\ consumed \in Nat /\ dropped \in Nat /\ focus \in Pending!Foci
      /\ typed = consumed + dropped + Len(pending.keystrokes)
  BY DEF HeldOK, PendingSet, Pending!KeystrokesAccounted
<1>4. Accounts(r, ctx, Len(pending.keystrokes) + 1)
  BY <1>3, DispatchAccounts
<1> HIDE DEF r
<1>5. /\ r \in ResultSet /\ r.pending \in Seq(InputKeys) /\ r.replays \in Seq(ReplaySet)
      /\ r.used \in Nat /\ r.found \subseteq DOMAIN input_bindings
      /\ Len(r.pending) \in Nat /\ Pending!Replayed(r.replays) \in Nat
      /\ Pending!Replayed(r.replays) + r.used + Len(r.pending) = Len(pending.keystrokes) + 1
  BY <1>4 DEF Accounts, ResultSet
<1>6. /\ {typed', consumed', dropped'} \subseteq Nat
      /\ typed' = consumed' + dropped' + Len(r.pending)
  <2>1. PICK a \in Nat, u \in Nat, l \in Nat, m \in Nat :
            /\ a = Pending!Replayed(r.replays) /\ u = r.used
            /\ l = Len(r.pending) /\ m = Len(pending.keystrokes)
    BY <1>3, <1>5
  <2>2. /\ a + u + l = m + 1 /\ typed = consumed + dropped + m
        /\ consumed' = consumed + a + u /\ typed' = typed + 1 /\ dropped' = dropped
    BY <1>1, <1>3, <1>5, <2>1
  <2>3. typed' = consumed' + dropped' + l
    BY <1>3, <2>2
  <2>4. typed' \in Nat /\ consumed' \in Nat /\ dropped' \in Nat
    BY <1>3, <2>2
  <2> QED
    BY <2>1, <2>3, <2>4
<1>7. /\ f \in {focus, "panel"}
      /\ CompletesOK => f = focus
  BY <1>5, FocusReplayed DEF CompletesOK
<1> HIDE DEF f
<1>8. /\ Pending!TimeoutOf(r.has, text) \in {"none", "running"} \cup Owners
      /\ Pending!TimeoutOf(r.has, text) \in Owners => pending.timeout = Pending!TimeoutOf(r.has, text)
      /\ r.has => Pending!TimeoutOf(r.has, text) # "none"
  BY <1>3, InputConstants DEF Pending!TimeoutOf
<1> DEFINE timeout == Pending!TimeoutOf(r.has, text)
<1> HIDE DEF timeout
<1>9. Pending!NoPending \in PendingSet /\ Pending!NoPending.keystrokes = <<>>
      /\ Pending!NoPending.timeout = "none"
  BY DEF Pending!NoPending, PendingSet
<1>10. CASE r.pending # <<>>
  <2>1. /\ pending' = [keystrokes |-> r.pending, focus |-> f, timeout |-> timeout]
        /\ focus' = f
    BY <1>2, <1>10 DEF timeout
  <2>2. f \in Pending!Foci
    BY <1>3, <1>7 DEF Pending!Foci
  <2>3. /\ pending' \in PendingSet /\ pending'.keystrokes = r.pending /\ pending'.focus = f
        /\ pending'.timeout = timeout
    BY <1>5, <1>8, <2>1, <2>2 DEF PendingSet, timeout
  <2>4. pending' # Pending!NoPending
    BY <1>9, <1>10, <2>3
  <2>5. Pending!KeystrokesAccounted'
    BY <1>6, <2>3 DEF Pending!KeystrokesAccounted
  <2>6. Pending!PauseOwnerAlive'
    BY <1>1, <1>8, <2>3 DEF Pending!PauseOwnerAlive, HeldOK, timeout
  <2>7. Pending!PendingHasFocus'
    BY <2>1, <2>3 DEF Pending!PendingHasFocus
  <2>8. ASSUME part # "focusing" PROVE CompletesOK'
    <3>1. CompletesOK /\ f = focus
      BY <1>7, <2>8 DEF HeldOK
    <3>2. /\ Pending!K!IsPending(r.pending, ctx)
          /\ Pending!K!Found(r.pending, ctx) # {} => r.has
      BY <1>4, <1>10 DEF Accounts
    <3>3. /\ Pending!K!IsPending(pending'.keystrokes, Pending!Stack(focus'))
          /\ Pending!K!Found(pending'.keystrokes, Pending!Stack(focus')) # {} =>
                 pending'.timeout # "none"
      BY <1>8, <2>1, <2>3, <3>1, <3>2 DEF timeout
    <3> QED
      BY <1>1, <3>1, <3>3, Completes
  <2>9. {typed', consumed', dropped'} \subseteq Nat
    BY <1>6
  <2>10. BindingsOK' /\ Pending!NoPending' = Pending!NoPending /\ alive' \subseteq Owners
    BY <1>1, KeymapRests DEF HeldOK, Pending!NoPending
  <2> QED
    BY <1>10, <2>1, <2>2, <2>3, <2>4, <2>5, <2>6, <2>7, <2>8, <2>9, <2>10 DEF HeldOK
<1>11. CASE r.pending = <<>>
  <2>1. pending' = Pending!NoPending /\ Len(r.pending) = 0
    BY <1>2, <1>11
  <2>2. focus' \in Pending!Foci
    <3>1. f \in Pending!Foci /\ "panel" \in Pending!Foci
      BY <1>3, <1>7 DEF Pending!Foci
    <3>2. \A found, x : Pending!FocusAfter(found, x, ctx) \in {x, "panel"}
      BY DEF Pending!FocusAfter
    <3> QED
      BY <1>2, <1>11, <3>1, <3>2
  <2>3. Pending!KeystrokesAccounted'
    <3>1. Len(pending'.keystrokes) = 0
      BY <1>9, <2>1
    <3> QED
      BY <1>6, <2>1, <3>1 DEF Pending!KeystrokesAccounted
  <2>4. Pending!PauseOwnerAlive' /\ Pending!PendingHasFocus'
    BY <1>9, <2>1, InputConstants
       DEF Pending!PauseOwnerAlive, Pending!PendingHasFocus, Pending!NoPending
  <2>5. ASSUME part # "focusing" PROVE CompletesOK'
    BY <1>1, <2>1, <2>5, Completes DEF HeldOK
  <2>6. {typed', consumed', dropped'} \subseteq Nat
    BY <1>6
  <2>7. BindingsOK' /\ Pending!NoPending' = Pending!NoPending /\ alive' \subseteq Owners
    BY <1>1, KeymapRests DEF HeldOK, Pending!NoPending
  <2> QED
    BY <1>9, <2>1, <2>2, <2>3, <2>4, <2>5, <2>6, <2>7 DEF HeldOK
<1> QED
  BY <1>10, <1>11

\* Input that is dropped, with the focus or without it.
LEMMA ForgetHeld ==
    ASSUME HeldOK, part' = part, focus' \in Pending!Foci, Pending!Forget
    PROVE  HeldOK'
<1>1. /\ pending' = Pending!NoPending /\ input_bindings' = input_bindings /\ alive' = alive
      /\ typed' = typed /\ consumed' = consumed
      /\ dropped' = dropped + Len(pending.keystrokes)
  BY DEF Pending!Forget
<1>2. /\ Pending!NoPending \in PendingSet /\ Pending!NoPending.keystrokes = <<>>
      /\ Pending!NoPending.timeout = "none" /\ Len(<<>>) = 0
      /\ Pending!NoPending' = Pending!NoPending
  BY DEF Pending!NoPending, PendingSet
<1>3. pending.keystrokes \in Seq(InputKeys) /\ {typed, consumed, dropped} \subseteq Nat
      /\ typed = consumed + dropped + Len(pending.keystrokes)
  BY DEF HeldOK, PendingSet, Pending!KeystrokesAccounted
<1>4. PICK m \in Nat : m = Len(pending.keystrokes)
  BY <1>3
<1>5. /\ typed' = consumed' + dropped' /\ typed' \in Nat /\ consumed' \in Nat /\ dropped' \in Nat
  BY <1>1, <1>3, <1>4
<1>6. Pending!KeystrokesAccounted'
  BY <1>1, <1>2, <1>5 DEF Pending!KeystrokesAccounted
<1>7. Pending!PauseOwnerAlive' /\ Pending!PendingHasFocus'
  BY <1>1, <1>2, InputConstants DEF Pending!PauseOwnerAlive, Pending!PendingHasFocus
<1>8. ASSUME part # "focusing" PROVE CompletesOK'
  BY <1>1, <1>8, Completes DEF HeldOK
<1>9. BindingsOK' /\ alive' \subseteq Owners
  BY <1>1, KeymapRests DEF HeldOK
<1> QED
  BY <1>1, <1>2, <1>5, <1>6, <1>7, <1>8, <1>9 DEF HeldOK

LEMMA TimeoutHeld ==
    ASSUME HeldOK, part' = part, Pending!TimeoutEnds
    PROVE  HeldOK'
<1> DEFINE ctx == Pending!Stack(focus)
           replays == Pending!flush_dispatch(pending.keystrokes, ctx)
<1>1. /\ pending' = Pending!NoPending /\ input_bindings' = input_bindings /\ alive' = alive
      /\ typed' = typed /\ dropped' = dropped
      /\ consumed' = consumed + Pending!Replayed(replays)
      /\ focus' = Pending!FocusAfterReplay(replays, focus, ctx)
  BY DEF Pending!TimeoutEnds
<1>2. /\ Pending!NoPending \in PendingSet /\ Pending!NoPending.keystrokes = <<>>
      /\ Pending!NoPending.timeout = "none" /\ Len(<<>>) = 0
      /\ Pending!NoPending' = Pending!NoPending
  BY DEF Pending!NoPending, PendingSet
<1>3. pending.keystrokes \in Seq(InputKeys) /\ {typed, consumed, dropped} \subseteq Nat
      /\ typed = consumed + dropped + Len(pending.keystrokes)
  BY DEF HeldOK, PendingSet, Pending!KeystrokesAccounted
<1>4. PICK m \in Nat : m = Len(pending.keystrokes)
  BY <1>3
<1>5. replays \in Seq(ReplaySet) /\ Pending!Replayed(replays) = m
  BY <1>3, <1>4, FlushAccounts
<1> HIDE DEF replays
<1>6. /\ typed' = consumed' + dropped' /\ typed' \in Nat /\ consumed' \in Nat /\ dropped' \in Nat
  BY <1>1, <1>3, <1>4, <1>5
<1>7. focus' \in Pending!Foci
  BY <1>1, <1>5, FocusReplayed DEF HeldOK, Pending!Foci
<1>8. Pending!KeystrokesAccounted'
  BY <1>1, <1>2, <1>6 DEF Pending!KeystrokesAccounted
<1>9. Pending!PauseOwnerAlive' /\ Pending!PendingHasFocus'
  BY <1>1, <1>2, InputConstants DEF Pending!PauseOwnerAlive, Pending!PendingHasFocus
<1>10. ASSUME part # "focusing" PROVE CompletesOK'
  BY <1>1, <1>10, Completes DEF HeldOK
<1>11. BindingsOK' /\ alive' \subseteq Owners
  BY <1>1, KeymapRests DEF HeldOK
<1> QED
  BY <1>1, <1>2, <1>6, <1>7, <1>8, <1>9, <1>10, <1>11 DEF HeldOK

\* A timeout that is paused or resumed stays a timeout.
LEMMA PauseHeld ==
    ASSUME HeldOK, part' = part, NEW o \in Owners,
           Pending!Pause(o) \/ Pending!Resume(o) \/ Pending!Release(o)
    PROVE  HeldOK'
<1>1. /\ input_bindings' = input_bindings /\ focus' = focus
      /\ typed' = typed /\ consumed' = consumed /\ dropped' = dropped
  BY DEF Pending!Pause, Pending!Resume, Pending!Release, Pending!counters
<1>2. /\ pending \in PendingSet
      /\ pending = [keystrokes |-> pending.keystrokes, focus |-> pending.focus,
                    timeout |-> pending.timeout]
  BY DEF HeldOK, PendingSet
<1>3. \/ pending' = pending /\ (pending.timeout \in Owners => pending.timeout \in alive')
      \/ /\ pending.timeout \in {"running", o} /\ pending'.timeout \in {"running", o}
         /\ pending' = [pending EXCEPT !.timeout = pending'.timeout]
         /\ pending'.timeout = o => o \in alive'
  BY <1>2, InputConstants
     DEF Pending!Pause, Pending!Resume, Pending!Release, PendingSet, HeldOK,
         Pending!PauseOwnerAlive
<1>4. /\ pending' \in PendingSet /\ pending'.keystrokes = pending.keystrokes
      /\ pending'.focus = pending.focus
      /\ pending'.timeout = "none" <=> pending.timeout = "none"
      /\ pending'.timeout \in Owners => pending'.timeout \in alive'
  BY <1>2, <1>3, InputConstants DEF PendingSet
<1>5. pending' = Pending!NoPending <=> pending = Pending!NoPending
  <2>1. pending'.timeout = "none" => pending' = pending
    BY <1>3, <1>4, InputConstants
  <2>2. pending.timeout = "none" => pending' = pending
    BY <1>3, <1>4, InputConstants
  <2>3. Pending!NoPending.timeout = "none"
    BY DEF Pending!NoPending
  <2> QED
    BY <2>1, <2>2, <2>3
<1>6. ASSUME part # "focusing" PROVE CompletesOK'
  <2>1. CompletesOK
    BY <1>6 DEF HeldOK
  <2> QED
    BY <1>1, <1>4, <1>5, <2>1, Completes DEF CompletesOK, Pending!AmbiguousHasTimeout
<1>7. BindingsOK' /\ Pending!NoPending' = Pending!NoPending
  BY <1>1, KeymapRests DEF HeldOK, Pending!NoPending
<1>8. alive' \subseteq Owners
  BY DEF HeldOK, Pending!Pause, Pending!Resume, Pending!Release
<1>9. /\ Pending!PauseOwnerAlive' /\ Pending!PendingHasFocus' /\ Pending!KeystrokesAccounted'
  BY <1>1, <1>4, <1>5, <1>7
     DEF HeldOK, Pending!PauseOwnerAlive, Pending!PendingHasFocus, Pending!KeystrokesAccounted
<1> QED
  BY <1>1, <1>4, <1>5, <1>6, <1>7, <1>8, <1>9 DEF HeldOK

\* Modifiers: the last one that is released was alone unless something else was pressed.
LEMMA ModifiersTap ==
    ASSUME TapOK, NEW new \in SUBSET ModifierKeys, Pending!ModifiersChanged(new)
    PROVE  TapOK'
<1>1. /\ Cardinality((new \ modifiers) \cup (modifiers \ new)) = 1
      /\ modifiers' = new /\ saw_other_input' = Pending!SawOther(new)
      /\ since' = IF new = {} THEN {} ELSE since \cup new
      /\ tapped' = IF Pending!Tapped(new) = {} THEN tapped ELSE since
  BY InputConstants DEF Pending!ModifiersChanged
<1>2. /\ IsFiniteSet(new) /\ Cardinality(new) \in Nat /\ IsFiniteSet(modifiers)
      /\ Cardinality(modifiers) \in Nat
  BY FS_Subset, FS_CardinalityType, InputConstants DEF TapOK
<1>3. \A S : IsFiniteSet(S) /\ Cardinality(S) = 1 => \E m : S = {m}
  BY FS_Singleton
<1>4. saw_other_input' \in BOOLEAN
  BY <1>1 DEF Pending!SawOther, TapOK
<1>5. \E m : tapped' \subseteq {m}
  <2>1. CASE Pending!Tapped(new) = {}
    BY <1>1, <2>1 DEF TapOK
  <2>2. CASE Pending!Tapped(new) # {}
    <3>1. modifiers # {} /\ ~saw_other_input
      BY <2>2 DEF Pending!Tapped
    <3> QED
      BY <1>1, <2>2, <3>1 DEF TapOK
  <2> QED
    BY <2>1, <2>2
<1>6. ASSUME new # {}, ~saw_other_input' PROVE since' = new /\ \E m : new = {m}
  <2>1. CASE modifiers = {}
    <3>1. (new \ modifiers) \cup (modifiers \ new) = new
      BY <2>1
    <3>2. \E m : new = {m}
      BY <1>1, <1>2, <1>3, <3>1
    <3> QED
      BY <1>1, <1>6, <2>1, <3>2 DEF TapOK
  <2>2. CASE modifiers # {}
    <3>1. ~saw_other_input /\ ~(Cardinality(new) > 1)
      BY <1>1, <1>6, <2>2, InputConstants DEF Pending!SawOther, TapOK
    <3>2. PICK m : modifiers = {m} /\ since = {m}
      BY <2>2, <3>1 DEF TapOK
    <3>3. Cardinality(new) = 1
      <4>1. Cardinality(new) # 0
        BY <1>2, <1>6, FS_EmptySet
      <4> QED
        BY <1>2, <3>1, <4>1
    <3>4. PICK n : new = {n}
      BY <1>2, <1>3, <3>3
    <3>5. n = m
      <4> SUFFICES ASSUME n # m PROVE FALSE
        OBVIOUS
      <4>1. (new \ modifiers) \cup (modifiers \ new) = {n, m}
        BY <3>2, <3>4
      <4>2. IsFiniteSet({n}) /\ Cardinality({n}) = 1 /\ {n, m} = {n} \cup {m} /\ m \notin {n}
        BY FS_Singleton
      <4>3. Cardinality({n} \cup {m}) = Cardinality({n}) + 1
        BY <4>2, FS_AddElement
      <4> QED
        BY <1>1, <4>1, <4>2, <4>3
    <3> QED
      BY <1>1, <1>6, <3>2, <3>4, <3>5
  <2> QED
    BY <2>1, <2>2
<1> QED
  BY <1>1, <1>4, <1>5, <1>6 DEF TapOK

LEMMA InputStep ==
    ASSUME InputInv, part' = part, [Pending!Next]_inputVars
    PROVE  InputInv'
<1>1. CASE UNCHANGED inputVars
  <2>1. HeldOK'
    BY <1>1, HeldRests DEF InputInv, inputVars
  <2> QED
    BY <1>1, <2>1 DEF InputInv, inputVars, TapOK
<1>2. ASSUME NEW k \in InputKeys \ ModifierKeys, NEW text \in BOOLEAN, NEW prefer \in BOOLEAN,
             Pending!KeyDown(k, text, prefer)
      PROVE  InputInv'
  <2>1. HeldOK'
    <3>1. CASE Pending!Intercepted
      BY <3>1, HeldRests DEF InputInv, Pending!Intercepted, Pending!counters
    <3>2. CASE Pending!DispatchKeystroke(k, text, prefer)
      BY <3>2, DispatchHeld DEF InputInv
    <3> QED
      BY <1>2, <3>1, <3>2 DEF Pending!KeyDown
  <2>2. TapOK'
    BY <1>2 DEF InputInv, TapOK, Pending!KeyDown
  <2> QED
    BY <2>1, <2>2 DEF InputInv
<1>3. ASSUME NEW new \in SUBSET ModifierKeys, Pending!ModifiersChanged(new) PROVE InputInv'
  <2>1. CASE Pending!Tapped(new) = {}
    BY <1>3, <2>1, HeldRests, ModifiersTap
       DEF InputInv, Pending!ModifiersChanged, Pending!counters
  <2>2. CASE Pending!Tapped(new) # {}
    <3>1. PICK m \in Pending!Tapped(new) :
              Pending!Intercepted \/ Pending!DispatchKeystroke(m, FALSE, FALSE)
      BY <1>3, <2>2 DEF Pending!ModifiersChanged
    <3>2. m \in InputKeys
      BY InputConstants DEF Pending!Tapped, InputInv, TapOK
    <3>3. CASE Pending!Intercepted
      BY <1>3, <3>3, HeldRests, ModifiersTap DEF InputInv, Pending!Intercepted, Pending!counters
    <3>4. CASE Pending!DispatchKeystroke(m, FALSE, FALSE)
      BY <1>3, <3>2, <3>4, DispatchHeld, ModifiersTap DEF InputInv
    <3> QED
      BY <3>1, <3>3, <3>4
  <2> QED
    BY <2>1, <2>2
<1>4. ASSUME UNCHANGED Pending!modifiervars PROVE TapOK'
  BY <1>4 DEF InputInv, TapOK, Pending!modifiervars
<1>5. CASE (\E f \in {"editor", "panel"} : Pending!Focus(f)) \/ Pending!Blur \/ Pending!ClearPending
  <2>1. focus' \in Pending!Foci /\ Pending!Forget
    BY <1>5 DEF InputInv, HeldOK, Pending!Focus, Pending!Blur, Pending!ClearPending, Pending!Foci
  <2>2. UNCHANGED Pending!modifiervars
    BY <2>1 DEF Pending!Forget
  <2> QED
    BY <1>4, <2>1, <2>2, ForgetHeld DEF InputInv
<1>6. CASE Pending!TimeoutEnds
  <2>1. UNCHANGED Pending!modifiervars
    BY <1>6 DEF Pending!TimeoutEnds
  <2> QED
    BY <1>4, <1>6, <2>1, TimeoutHeld DEF InputInv
<1>7. ASSUME NEW o \in Owners, Pending!Pause(o) \/ Pending!Resume(o) \/ Pending!Release(o)
      PROVE  InputInv'
  <2>1. UNCHANGED Pending!modifiervars
    BY <1>7 DEF Pending!Pause, Pending!Resume, Pending!Release
  <2> QED
    BY <1>4, <1>7, <2>1, PauseHeld DEF InputInv
<1> QED
  BY <1>1, <1>2, <1>3, <1>5, <1>6, <1>7 DEF Pending!Next

-----------------------------------------------------------------------------
(* Effects, subscriptions and entities: parts "entity" and "owners"        *)

EffectKinds == {"notify", "emit", "activate", "defer", "created"}

EffectSet == [kind : EffectKinds, emitter : Entities \cup {None}, n : Nat, in_window : BOOLEAN]

SubSet == [kind : {"observer", "listener", "release"}, emitter : Entities,
           owner : Entities \cup {None}, since : Nat, active : BOOLEAN, dropped : BOOLEAN,
           where : {"map", "taken", "gone"}]

IterSet == [kind : {"", "observer", "listener"}, emitter : Entities \cup {None}, stamp : Nat,
            left : SUBSET Nat, sub : Nat]

\* The types of everything, and where effects and iterations point.
EffectTypes ==
    /\ Cycle!TypeOK
    /\ pending_effects \in Seq(EffectSet)
    /\ subs \in Seq(SubSet)
    /\ Len(subs) <= MaxSubs
    /\ iter \in IterSet
    /\ dropped_entity_ids \in Seq(Entities)
    /\ batch \in Seq(Entities)
    /\ got \in [Cycle!SubIds -> Seq(Nat)]
    /\ applied \subseteq [kind : {"observer", "listener"}, emitter : Entities, n : Nat]

Queue == 1..Len(pending_effects)

\* A notification or an event: the effects that subscribers hear.
Stamped(i) == pending_effects[i].kind \in {"notify", "emit"}

Queued(i, kind, e) == pending_effects[i].kind = kind /\ pending_effects[i].emitter = e

Activates(i, s) == pending_effects[i].kind = "activate" /\ pending_effects[i].n = s

\* Every effect but an activation is about an entity or a closure and carries the number of its call.
EffectsOK ==
    \A i \in Queue :
        /\ pending_effects[i].kind \in {"notify", "emit", "created"} =>
              pending_effects[i].emitter \in Entities
        /\ Stamped(i) => pending_effects[i].n < calls
        /\ \A j \in Queue : Stamped(i) /\ Stamped(j) /\ i < j =>
              pending_effects[i].n < pending_effects[j].n

\* One Notify per emitter, exactly for the emitters that are marked.
NotifyOK ==
    /\ \A e \in Entities : e \in pending_notifications <=> \E i \in Queue : Queued(i, "notify", e)
    /\ \A i, j \in Queue : \A e \in Entities :
          Queued(i, "notify", e) /\ Queued(j, "notify", e) => i = j

\* A subscription that is not active yet is activated by one effect in the queue, before everything
\* raised after it subscribed and behind everything raised before.
ActivationOK ==
    /\ \A i \in Queue : pending_effects[i].kind = "activate" =>
          pending_effects[i].n \in DOMAIN subs
    /\ \A s \in DOMAIN subs :
        /\ subs[s].since < calls
        /\ ~subs[s].active => \E k \in Queue : Activates(k, s)
        /\ subs[s].kind # "release" =>
            \A i \in Queue : Stamped(i) =>
                /\ pending_effects[i].n # subs[s].since
                /\ pending_effects[i].n > subs[s].since <=>
                      subs[s].active \/ \E k \in Queue : k < i /\ Activates(k, s)

Iterating == phase \in {"retain", "callback"}

\* The effect being delivered came before those queued, and after the subscription of whoever is
\* active.
StampOK ==
    Iterating =>
        /\ iter.kind \in {"observer", "listener"}
        /\ iter.emitter \in Entities
        /\ iter.stamp < calls
        /\ \A i \in Queue : Stamped(i) => iter.stamp < pending_effects[i].n
        /\ \A s \in DOMAIN subs : subs[s].kind # "release" =>
              /\ iter.stamp # subs[s].since
              /\ iter.stamp > subs[s].since <=> subs[s].active

\* What a subscriber has heard is older than what is queued, and older than what is being delivered
\* if it is yet to be called.
GotOK ==
    /\ \A s \in Cycle!SubIds : s \notin DOMAIN subs => got[s] = <<>>
    /\ Cycle!HeardInOrder
    /\ \A s \in DOMAIN subs : \A i \in 1..Len(got[s]) :
        /\ got[s][i] < calls
        /\ \A j \in Queue : Stamped(j) => got[s][i] < pending_effects[j].n
        /\ Iterating => got[s][i] <= iter.stamp
        /\ Iterating /\ s \in iter.left => got[s][i] < iter.stamp

Heard(s, n) == \E i \in 1..Len(got[s]) : got[s][i] = n

\* What is applied was raised, and what is being delivered is heard by whoever is not left to be called.
AppliedOK ==
    /\ Cycle!NoneMissed
    /\ \A a \in applied : a.n < calls
    /\ Iterating => \A s \in DOMAIN subs :
          (/\ subs[s].kind = iter.kind
           /\ subs[s].emitter = iter.emitter
           /\ iter.stamp > subs[s].since
           /\ subs[s].where # "gone"
           /\ ~subs[s].dropped)
          => s \in iter.left \/ Heard(s, iter.stamp)

\* The subscribers that an iteration has yet to call are of its kind and emitter; those taken out
\* for a release are all yet to be called.
IterOK ==
    /\ phase \in {"retain", "callback", "release", "releasing"} =>
          \A s \in iter.left : s \in DOMAIN subs /\ subs[s].emitter = iter.emitter
    /\ Iterating => \A s \in iter.left : subs[s].kind = iter.kind /\ subs[s].where = "taken"
    /\ phase \in {"release", "releasing", "dropping"} =>
          /\ batch # <<>>
          /\ iter.emitter \in Entities
          /\ slot[iter.emitter] = "released"
          /\ \A s \in DOMAIN subs : subs[s].where = "taken" => s \in iter.left
    /\ phase = "dropping" => iter.left = {}
    /\ phase \in {"callback", "releasing"} => iter.sub \in DOMAIN subs
    /\ phase = "callback" => subs[iter.sub].emitter = iter.emitter /\ iter.sub \notin iter.left
    /\ phase = "created" => iter.emitter \in Entities

\* Subscribers are lost with their entities only, and entities that are subscribed to or for exist.
SubsOK ==
    /\ Cycle!NoSubscriberLost
    /\ \A s \in DOMAIN subs :
        /\ slot[subs[s].emitter] # "unused"
        /\ subs[s].owner # None => slot[subs[s].owner] # "unused"

\* The handles on the stack of the flush.
OnStack(e) ==
    CASE phase = "callback"  -> Cycle!Two(iter.emitter, subs[iter.sub].owner)[e]
      [] phase = "created"   -> Cycle!Two(iter.emitter, None)[e]
      [] phase = "releasing" -> Cycle!Two(subs[iter.sub].owner, None)[e]
      [] OTHER -> 0

InQueue(e) == IF \E i \in Queue : Queued(i, "created", e) THEN 1 ELSE 0

\* An entity has the handles the flush holds, and others while it is live; each created effect is
\* of another entity.
HandlesOK ==
    /\ \A i, j \in Queue : \A e \in Entities :
          Queued(i, "created", e) /\ Queued(j, "created", e) => i = j
    /\ \A e \in Entities :
        /\ handles[e] >= InQueue(e) + OnStack(e)
        /\ handles[e] > 0 <=> slot[e] = "live"

\* An entity waits for its release once, from its last handle on until it is taken.
DroppedOK ==
    /\ \A e \in Entities : slot[e] = "dropped" <=>
          \E i \in 1..Len(dropped_entity_ids) : dropped_entity_ids[i] = e
    /\ \A i, j \in 1..Len(dropped_entity_ids) :
          dropped_entity_ids[i] = dropped_entity_ids[j] => i = j
    /\ \A i \in 1..Len(batch) : slot[batch[i]] = "released"

\* The inductive invariant.
EffectsInv ==
    /\ EffectTypes /\ EffectsOK /\ NotifyOK /\ ActivationOK /\ StampOK /\ GotOK /\ AppliedOK
    /\ IterOK /\ SubsOK /\ HandlesOK /\ DroppedOK /\ Cycle!FlushedWhenOutside

-----------------------------------------------------------------------------
(* Lemmas about effects                                                    *)

\* First picks an element: the identifiers of subscriptions are well ordered.
LEMMA FirstIsIn == ASSUME NEW S \in SUBSET Nat, S # {} PROVE Cycle!First(S) \in S
  BY LeastExists DEF Cycle!First

\* A set with at most one element has as many as it looks.
LEMMA AtMostOne ==
    ASSUME NEW S, \A x, y \in S : x = y
    PROVE  Cardinality(S) = IF S = {} THEN 0 ELSE 1
<1>1. CASE S = {}
  BY <1>1, FS_EmptySet
<1>2. CASE S # {}
  <2>1. PICK x \in S : TRUE
    BY <1>2
  <2>2. S = {x}
    BY <2>1
  <2> QED
    BY <1>2, <2>2, FS_Singleton
<1> QED
  BY <1>1, <1>2

\* A function on the indices of a sequence is a sequence.
LEMMA FunctionIsSeq ==
    ASSUME NEW S, NEW n \in Nat, NEW f \in [1..n -> S]
    PROVE  f \in Seq(S) /\ Len(f) = n
  OBVIOUS

LEMMA EffectsConstants ==
    /\ None \notin Entities /\ MaxSubs \in Nat /\ MaxCalls \in Nat
    /\ Cycle!SubIds = 1..MaxSubs
  BY PartsAssumption DEF PartsAssumption, Cycle!ConstantsAssumption, Cycle!SubIds

\* Effects counts as FiniteSets does.
LEMMA CountsAlike == \A S : Cycle!Cardinality(S) = Cardinality(S)
  BY DEF Cycle!Cardinality, Cardinality

LEMMA SubsFacts ==
    ASSUME EffectTypes
    PROVE  /\ Len(subs) \in Nat /\ DOMAIN subs = 1..Len(subs) /\ DOMAIN subs \subseteq Cycle!SubIds
           /\ \A s \in DOMAIN subs : subs[s] \in SubSet
           /\ subs \in [1..Len(subs) -> SubSet]
  BY LenProperties, EffectsConstants DEF EffectTypes

-----------------------------------------------------------------------------
(* The initial state, and what the invariant says *)

LEMMA EffectsInit ==
    ASSUME NEW existing \in SUBSET Entities, NEW open \in BOOLEAN, Cycle!Starts(existing, open)
    PROVE  EffectsInv
<1> USE DEF Cycle!Starts
<1>1. Len(<<>>) = 0 /\ DOMAIN <<>> = {} /\ \A S : <<>> \in Seq(S)
  OBVIOUS
<1>2. EffectTypes
  <2>1. Cycle!TypeOK
    BY <1>1, EffectsConstants DEF Cycle!TypeOK
  <2>2. iter \in IterSet
    BY DEF IterSet, Cycle!NoIter
  <2>3. got \in [Cycle!SubIds -> Seq(Nat)]
    BY <1>1
  <2> QED
    BY <1>1, <2>1, <2>2, <2>3, EffectsConstants DEF EffectTypes
<1>3. Queue = {} /\ DOMAIN subs = {} /\ ~Iterating
  BY <1>1 DEF Queue, Iterating
<1>4. EffectsOK /\ NotifyOK /\ ActivationOK /\ StampOK
  BY <1>3 DEF EffectsOK, NotifyOK, ActivationOK, StampOK
<1>5. GotOK /\ AppliedOK
  BY <1>3 DEF GotOK, Cycle!HeardInOrder, AppliedOK, Cycle!NoneMissed
<1>6. IterOK /\ SubsOK
  BY <1>3 DEF IterOK, Iterating, SubsOK, Cycle!NoSubscriberLost
<1>7. HandlesOK /\ DroppedOK /\ Cycle!FlushedWhenOutside
  BY <1>1, <1>3 DEF HandlesOK, InQueue, OnStack, DroppedOK, Cycle!FlushedWhenOutside
<1> QED
  BY <1>2, <1>4, <1>5, <1>6, <1>7 DEF EffectsInv

LEMMA EffectsImplies ==
    ASSUME EffectsInv
    PROVE  /\ Cycle!TypeOK /\ Cycle!ReleasedOnce /\ Cycle!FlushedWhenOutside
           /\ Cycle!NoneMissed /\ Cycle!HeardInOrder /\ Cycle!NoSubscriberLost /\ Cycle!NotifyOnce
<1>1. /\ Cycle!TypeOK /\ Cycle!FlushedWhenOutside /\ Cycle!NoneMissed /\ Cycle!HeardInOrder
      /\ Cycle!NoSubscriberLost
  BY DEF EffectsInv, EffectTypes, GotOK, AppliedOK, SubsOK
<1>2. Cycle!ReleasedOnce
  <2> SUFFICES ASSUME NEW e \in Entities
               PROVE  /\ Cycle!Gone(e) => handles[e] = 0
                      /\ slot[e] = "live" => handles[e] > 0
                      /\ Cardinality({i \in DOMAIN dropped_entity_ids : dropped_entity_ids[i] = e})
                            = IF slot[e] = "dropped" THEN 1 ELSE 0
    BY CountsAlike DEF Cycle!ReleasedOnce
  <2> DEFINE D == {i \in DOMAIN dropped_entity_ids : dropped_entity_ids[i] = e}
  <2>1. handles[e] \in Nat /\ (handles[e] > 0 <=> slot[e] = "live")
    BY DEF EffectsInv, EffectTypes, Cycle!TypeOK, HandlesOK
  <2>2. DOMAIN dropped_entity_ids = 1..Len(dropped_entity_ids)
    BY DEF EffectsInv, EffectTypes
  <2>3. (\A x, y \in D : x = y) /\ (D = {} <=> slot[e] # "dropped")
    BY <2>2 DEF EffectsInv, DroppedOK
  <2>4. Cardinality(D) = IF D = {} THEN 0 ELSE 1
    BY <2>3, AtMostOne
  <2> QED
    BY <2>1, <2>3, <2>4 DEF Cycle!Gone
<1>3. Cycle!NotifyOnce
  <2> SUFFICES ASSUME NEW e \in Entities
               PROVE  Cardinality({i \in DOMAIN pending_effects :
                                      /\ pending_effects[i].kind = "notify"
                                      /\ pending_effects[i].emitter = e})
                          = IF e \in pending_notifications THEN 1 ELSE 0
    BY CountsAlike DEF Cycle!NotifyOnce
  <2> DEFINE D == {i \in DOMAIN pending_effects : /\ pending_effects[i].kind = "notify"
                                                  /\ pending_effects[i].emitter = e}
  <2>2. DOMAIN pending_effects = Queue
    BY DEF EffectsInv, EffectTypes, Queue
  <2>3. (\A x, y \in D : x = y) /\ (D = {} <=> e \notin pending_notifications)
    BY <2>2 DEF EffectsInv, NotifyOK, Queued
  <2>4. Cardinality(D) = IF D = {} THEN 0 ELSE 1
    BY <2>3, AtMostOne
  <2> QED
    BY <2>3, <2>4
<1> QED
  BY <1>1, <1>2, <1>3

\* The handles the flush holds, without counting.
LEMMA HeldIs ==
    ASSUME EffectsInv, NEW e \in Entities
    PROVE  Cycle!Held(e) = InQueue(e) + OnStack(e)
<1> DEFINE D == {i \in DOMAIN pending_effects : /\ pending_effects[i].kind = "created"
                                                /\ pending_effects[i].emitter = e}
<1>1. DOMAIN pending_effects = Queue
  BY DEF EffectsInv, EffectTypes, Queue
<1>2. \A x, y \in D : x = y
  BY <1>1 DEF EffectsInv, HandlesOK, Queued
<1>3. Cardinality(D) = InQueue(e)
  BY <1>1, <1>2, AtMostOne DEF InQueue, Queued
<1> QED
  BY <1>3, CountsAlike DEF Cycle!Held, OnStack

-----------------------------------------------------------------------------
(* What an action leaves alone                                             *)

\* Subscriptions may end, nothing else of them changes.
SubsAlike ==
    /\ DOMAIN subs' = DOMAIN subs
    /\ \A s \in DOMAIN subs :
        /\ subs'[s].kind = subs[s].kind
        /\ subs'[s].emitter = subs[s].emitter
        /\ subs'[s].owner = subs[s].owner
        /\ subs'[s].since = subs[s].since
        /\ subs'[s].active = subs[s].active
        /\ subs[s].dropped => subs'[s].dropped
        /\ subs[s].where = "gone" => subs'[s].where = "gone"

LEMMA SubsRest == UNCHANGED subs => SubsAlike
  BY DEF SubsAlike

LEMMA SubsTyped ==
    ASSUME EffectTypes, SubsAlike, subs' = [s \in DOMAIN subs |-> subs'[s]],
           \A s \in DOMAIN subs : subs'[s] \in SubSet
    PROVE  subs' \in Seq(SubSet) /\ Len(subs') = Len(subs)
<1>1. Len(subs) \in Nat /\ DOMAIN subs = 1..Len(subs)
  BY SubsFacts
<1>2. subs' \in [1..Len(subs) -> SubSet]
  BY <1>1
<1> QED
  BY <1>1, <1>2, FunctionIsSeq

LEMMA QueueRests ==
    ASSUME EffectsInv, SubsAlike, UNCHANGED <<pending_effects, pending_notifications, calls>>
    PROVE  EffectsOK' /\ NotifyOK' /\ ActivationOK'
<1>1. EffectsOK' /\ NotifyOK'
  BY DEF EffectsInv, EffectsOK, NotifyOK, Queue, Stamped, Queued
<1>2. ActivationOK'
  BY DEF EffectsInv, ActivationOK, SubsAlike, Queue, Stamped, Activates
<1> QED
  BY <1>1, <1>2

LEMMA HearingRests ==
    ASSUME EffectsInv, SubsAlike, UNCHANGED <<pending_effects, calls, got, applied>>,
           Iterating' => Iterating /\ UNCHANGED iter
    PROVE  StampOK' /\ GotOK' /\ AppliedOK'
<1>1. StampOK'
  BY DEF EffectsInv, StampOK, SubsAlike, Queue, Stamped
<1>2. GotOK'
  BY DEF EffectsInv, GotOK, Cycle!HeardInOrder, SubsAlike, Queue, Stamped
<1>3. AppliedOK'
  <2>1. Cycle!NoneMissed'
    BY DEF EffectsInv, AppliedOK, Cycle!NoneMissed, SubsAlike
  <2> QED
    BY <2>1 DEF EffectsInv, AppliedOK, Heard, SubsAlike
<1> QED
  BY <1>1, <1>2, <1>3

LEMMA EffectsRest == EffectsInv /\ UNCHANGED effectVars => EffectsInv'
<1> SUFFICES ASSUME EffectsInv, UNCHANGED effectVars PROVE EffectsInv'
  OBVIOUS
<1> USE DEF effectVars
<1>1. EffectsOK' /\ NotifyOK' /\ ActivationOK'
  BY SubsRest, QueueRests
<1>2. StampOK' /\ GotOK' /\ AppliedOK'
  BY SubsRest, HearingRests DEF Iterating
<1>3. EffectTypes'
  BY DEF EffectsInv, EffectTypes, Cycle!TypeOK
<1>4. IterOK' /\ SubsOK'
  BY DEF EffectsInv, IterOK, SubsOK, Iterating, Cycle!NoSubscriberLost, Cycle!Gone
<1>5. HandlesOK' /\ DroppedOK' /\ Cycle!FlushedWhenOutside'
  BY DEF EffectsInv, HandlesOK, DroppedOK, Cycle!FlushedWhenOutside, InQueue, OnStack, Cycle!Two,
         Queue, Queued
<1> QED
  BY <1>1, <1>2, <1>3, <1>4, <1>5 DEF EffectsInv

\* The flush moves on, or an update begins: nothing but the phase changes.
LEMMA PhaseStep ==
    ASSUME EffectsInv,
           \/ Cycle!BeginUpdate \/ Cycle!FinishUpdate \/ Cycle!ReleaseDrop \/ Cycle!DeferredReturn
           \/ Cycle!FlushDone \/ Cycle!RemoveWindow
    PROVE  EffectsInv'
<1>1. /\ UNCHANGED <<pending_effects, pending_notifications, handles, slot, dropped_entity_ids,
                     batch, subs, iter, calls, got, applied>>
      /\ \/ phase = "outside" /\ phase' = "update"
         \/ phase = "update" /\ phase' = "flush"
         \/ phase = "release" /\ phase' = "dropping" /\ iter.left = {}
         \/ phase = "deferred" /\ phase' = "flush"
         \/ /\ phase = "flush" /\ phase' = "outside"
            /\ pending_effects = <<>> /\ batch = <<>>
         \/ phase' = phase
  BY DEF Cycle!BeginUpdate, Cycle!FinishUpdate, Cycle!ReleaseDrop, Cycle!DeferredReturn,
         Cycle!FlushDone, Cycle!RemoveWindow
<1>2. EffectsOK' /\ NotifyOK' /\ ActivationOK'
  BY <1>1, SubsRest, QueueRests
<1>3. Iterating' => Iterating
  BY <1>1 DEF Iterating
<1>4. StampOK' /\ GotOK' /\ AppliedOK'
  BY <1>1, <1>3, SubsRest, HearingRests
<1>5. EffectTypes'
  BY <1>1 DEF EffectsInv, EffectTypes, Cycle!TypeOK
<1>6. IterOK'
  BY <1>1, <1>3 DEF EffectsInv, IterOK, Iterating
<1>7. SubsOK'
  <2>1. ASSUME NEW s \in DOMAIN subs, subs[s].where = "taken"
        PROVE  phase' \in {"retain", "callback", "release", "releasing"}
    <3>1. phase \in {"retain", "callback", "release", "releasing"}
      BY <2>1 DEF EffectsInv, SubsOK, Cycle!NoSubscriberLost
    <3>2. ~(phase = "release" /\ iter.left = {})
      BY <2>1 DEF EffectsInv, IterOK
    <3> QED
      BY <1>1, <3>1, <3>2
  <2> QED
    BY <1>1, <2>1 DEF EffectsInv, SubsOK, Cycle!NoSubscriberLost, Cycle!Gone
<1>8. HandlesOK' /\ DroppedOK'
  <2>1. \A e \in Entities : OnStack(e)' = OnStack(e) /\ InQueue(e)' = InQueue(e)
    BY <1>1 DEF OnStack, InQueue, Queue, Queued, Cycle!Two
  <2> QED
    BY <1>1, <2>1 DEF EffectsInv, HandlesOK, DroppedOK, Queue, Queued
<1>9. Cycle!FlushedWhenOutside'
  <2>1. CASE phase = "flush" /\ phase' = "outside"
    <3>1. pending_effects = <<>> /\ batch = <<>>
      BY <1>1, <2>1
    <3>2. pending_notifications \subseteq Entities /\ Queue = {}
      BY <3>1 DEF EffectsInv, EffectTypes, Cycle!TypeOK, Queue
    <3>3. pending_notifications = {}
      BY <3>2 DEF EffectsInv, NotifyOK
    <3> QED
      BY <1>1, <3>1, <3>3 DEF Cycle!FlushedWhenOutside
  <2>2. CASE ~(phase = "flush" /\ phase' = "outside")
    BY <1>1, <2>2 DEF EffectsInv, Cycle!FlushedWhenOutside
  <2> QED
    BY <2>1, <2>2
<1> QED
  BY <1>2, <1>4, <1>5, <1>6, <1>7, <1>8, <1>9 DEF EffectsInv

-----------------------------------------------------------------------------
(* Handles are dropped                                                     *)

Distinct(ids) == \A i, j \in 1..Len(ids) : ids[i] = ids[j] => i = j
Among(ids, x) == \E i \in 1..Len(ids) : ids[i] = x

LEMMA OneMore ==
    ASSUME NEW ids \in Seq(Entities), Distinct(ids), NEW x \in Entities, ~Among(ids, x)
    PROVE  /\ ids \o <<x>> \in Seq(Entities)
           /\ Distinct(ids \o <<x>>)
           /\ \A y : Among(ids \o <<x>>, y) <=> Among(ids, y) \/ y = x
<1> DEFINE more == ids \o <<x>>
<1>1. /\ more \in Seq(Entities) /\ Len(more) = Len(ids) + 1 /\ Len(ids) \in Nat
      /\ \A i \in 1..Len(ids) : more[i] = ids[i]
      /\ more[Len(ids) + 1] = x
  OBVIOUS
<1>2. 1..Len(more) = (1..Len(ids)) \cup {Len(ids) + 1}
  BY <1>1
<1> HIDE DEF more
<1>3. Distinct(more)
  BY <1>1, <1>2 DEF Distinct, Among
<1>4. ASSUME NEW y PROVE Among(more, y) <=> Among(ids, y) \/ y = x
  BY <1>1, <1>2 DEF Among
<1> QED
  BY <1>1, <1>3, <1>4 DEF more

LEMMA NoneMore ==
    ASSUME NEW ids \in Seq(Entities)
    PROVE  ids \o <<>> = ids
  OBVIOUS

\* Live entities lose handles, and those without are queued for release, each once.
LEMMA HandlesDropped ==
    ASSUME EffectsInv, UNCHANGED batch,
           NEW e \in Entities \cup {None}, NEW o \in Entities \cup {None},
           Cycle!DropHandles(e, o),
           \A x \in Entities : handles[x] >= Cycle!Two(e, o)[x]
    PROVE  /\ handles' \in [Entities -> Nat]
           /\ \A x \in Entities : handles'[x] = handles[x] - Cycle!Two(e, o)[x]
           /\ slot' \in [Entities -> {"unused", "live", "dropped", "released"}]
           /\ \A x \in Entities : /\ handles'[x] > 0 <=> slot'[x] = "live"
                                  /\ \/ slot'[x] = slot[x]
                                     \/ slot[x] = "live" /\ slot'[x] = "dropped"
           /\ dropped_entity_ids' \in Seq(Entities)
           /\ DroppedOK'
<1> DEFINE two(x) == (IF x = e THEN 1 ELSE 0) + (IF x = o THEN 1 ELSE 0)
           last(x) == x # None /\ handles[x] = Cycle!Two(e, o)[x]
           one == dropped_entity_ids \o (IF last(e) THEN <<e>> ELSE <<>>)
           both == one \o (IF o # e /\ last(o) THEN <<o>> ELSE <<>>)
<1>0. /\ handles \in [Entities -> Nat]
      /\ slot \in [Entities -> {"unused", "live", "dropped", "released"}]
      /\ dropped_entity_ids \in Seq(Entities)
      /\ batch \in Seq(Entities)
      /\ None \notin Entities
      /\ \A x \in Entities : handles[x] > 0 <=> slot[x] = "live"
  BY EffectsConstants DEF EffectsInv, EffectTypes, Cycle!TypeOK, HandlesOK
<1>1. \A x \in Entities : Cycle!Two(e, o)[x] = two(x) /\ two(x) \in 0..2
  BY DEF Cycle!Two
<1>2. /\ handles' = [x \in Entities |-> handles[x] - Cycle!Two(e, o)[x]]
      /\ slot' = [x \in Entities |-> IF x \in {e, o} /\ last(x) THEN "dropped" ELSE slot[x]]
      /\ dropped_entity_ids' = both
  BY DEF Cycle!DropHandles
<1> HIDE DEF one, both
<1>3. ASSUME NEW x \in Entities
      PROVE  /\ handles'[x] \in Nat
             /\ handles'[x] = handles[x] - Cycle!Two(e, o)[x]
             /\ handles'[x] > 0 <=> slot'[x] = "live"
             /\ slot'[x] \in {"unused", "live", "dropped", "released"}
             /\ \/ slot'[x] = slot[x]
                \/ slot[x] = "live" /\ slot'[x] = "dropped"
             /\ slot'[x] = "dropped" <=> slot[x] = "dropped" \/ (x \in {e, o} /\ last(x))
             /\ slot'[x] = "released" <=> slot[x] = "released"
             /\ x \in {e, o} /\ last(x) => slot[x] = "live"
  <2>1. handles[x] \in Nat /\ (handles[x] > 0 <=> slot[x] = "live")
    BY <1>0
  <2>2. two(x) \in 0..2 /\ two(x) <= handles[x] /\ (x \in {e, o} <=> two(x) > 0)
    BY <1>1
  <2>3. /\ handles'[x] = handles[x] - two(x)
        /\ slot'[x] = IF x \in {e, o} /\ handles[x] = two(x) THEN "dropped" ELSE slot[x]
        /\ last(x) <=> handles[x] = two(x)
    BY <1>0, <1>1, <1>2
  <2>4. slot[x] \in {"unused", "live", "dropped", "released"}
    BY <1>0
  <2> HIDE DEF two, last
  <2> QED
    BY <1>1, <2>1, <2>2, <2>3, <2>4
<1>4. /\ Distinct(dropped_entity_ids)
      /\ \A x \in Entities : slot[x] = "dropped" <=> Among(dropped_entity_ids, x)
  BY DEF EffectsInv, DroppedOK, Distinct, Among
<1>5. /\ one \in Seq(Entities) /\ Distinct(one)
      /\ \A x \in Entities : Among(one, x) <=> slot[x] = "dropped" \/ (x = e /\ last(e))
  <2>1. CASE last(e)
    <3>1. e \in Entities /\ ~Among(dropped_entity_ids, e)
      BY <1>3, <1>4, <2>1
    <3>2. one = dropped_entity_ids \o <<e>>
      BY <2>1 DEF one
    <3> QED
      BY <1>0, <1>4, <2>1, <3>1, <3>2, OneMore
  <2>2. CASE ~last(e)
    <3>1. one = dropped_entity_ids
      BY <1>0, <2>2, NoneMore DEF one
    <3> QED
      BY <1>0, <1>4, <2>2, <3>1
  <2> QED
    BY <2>1, <2>2
<1>6. /\ both \in Seq(Entities) /\ Distinct(both)
      /\ \A x \in Entities : Among(both, x) <=> slot[x] = "dropped" \/ (x \in {e, o} /\ last(x))
  <2>1. CASE o # e /\ last(o)
    <3>1. o \in Entities /\ ~Among(one, o)
      BY <1>3, <1>5, <2>1
    <3>2. both = one \o <<o>>
      BY <2>1 DEF both
    <3> QED
      BY <1>5, <2>1, <3>1, <3>2, OneMore
  <2>2. CASE ~(o # e /\ last(o))
    <3>1. both = one
      BY <1>5, <2>2, NoneMore DEF both
    <3> QED
      BY <1>5, <2>2, <3>1
  <2> QED
    BY <2>1, <2>2
<1>7. DroppedOK'
  <2>1. \A x \in Entities : slot'[x] = "dropped" <=> Among(dropped_entity_ids', x)
    BY <1>2, <1>3, <1>6
  <2>2. \A i \in 1..Len(batch) : slot'[batch[i]] = "released"
    <3>1. \A i \in 1..Len(batch) : batch[i] \in Entities /\ slot[batch[i]] = "released"
      BY <1>0 DEF EffectsInv, DroppedOK
    <3> QED
      BY <1>3, <3>1
  <2> QED
    BY <1>2, <1>6, <2>1, <2>2 DEF DroppedOK, Distinct, Among
<1> HIDE DEF two, last
<1>8. handles' \in [Entities -> Nat] /\ slot' \in [Entities -> {"unused", "live", "dropped", "released"}]
  BY <1>2, <1>3
<1> QED
  BY <1>2, <1>3, <1>6, <1>7, <1>8

LEMMA NoIterTyped == Cycle!NoIter \in IterSet
  BY DEF Cycle!NoIter, IterSet

LEMMA TwoIs ==
    ASSUME NEW a, NEW b, NEW x \in Entities
    PROVE  /\ Cycle!Two(a, b)[x] = (IF x = a THEN 1 ELSE 0) + (IF x = b THEN 1 ELSE 0)
           /\ Cycle!Two(a, b)[x] \in 0..2
  BY DEF Cycle!Two

LEMMA HeldInRange == \A x \in Entities : InQueue(x) \in 0..1 /\ OnStack(x) \in 0..2
<1> SUFFICES ASSUME NEW x \in Entities PROVE InQueue(x) \in 0..1 /\ OnStack(x) \in 0..2
  OBVIOUS
<1>1. InQueue(x) \in 0..1
  BY DEF InQueue
<1>2. OnStack(x) \in 0..2
  BY TwoIs DEF OnStack
<1> QED
  BY <1>1, <1>2

\* What the queue holds rests with it.
LEMMA QueueHolds ==
    ASSUME UNCHANGED pending_effects
    PROVE  /\ Queue' = Queue
           /\ \A x \in Entities : InQueue(x)' = InQueue(x)
           /\ \A i : \A x \in Entities : Queued(i, "created", x)' = Queued(i, "created", x)
  BY DEF Queue, InQueue, Queued

\* Subscriptions may end with the entities they are about.
LEMMA SubsEnd ==
    ASSUME EffectsInv, UNCHANGED subs,
           \A x \in Entities : \/ slot'[x] = slot[x]
                               \/ slot[x] = "live" /\ slot'[x] = "dropped",
           \A s \in DOMAIN subs : subs[s].where = "taken" =>
               phase' \in {"retain", "callback", "release", "releasing"}
    PROVE  SubsOK'
<1>1. \A s \in DOMAIN subs : subs[s].emitter \in Entities /\ subs[s].owner \in Entities \cup {None}
  BY SubsFacts DEF EffectsInv, SubSet
<1>2. \A x \in Entities : /\ slot[x] # "unused" => slot'[x] # "unused"
                          /\ Cycle!Gone(x) => Cycle!Gone(x)'
  BY DEF Cycle!Gone
<1>3. Cycle!NoSubscriberLost'
  BY <1>1, <1>2 DEF EffectsInv, SubsOK, Cycle!NoSubscriberLost
<1> QED
  BY <1>1, <1>2, <1>3 DEF EffectsInv, SubsOK

LEMMA DropHandleStep ==
    ASSUME EffectsInv, NEW e \in Entities, Cycle!DropHandle(e)
    PROVE  EffectsInv'
<1>1. /\ UNCHANGED <<phase, pending_effects, pending_notifications, batch, subs, iter, calls, got,
                     applied>>
      /\ handles[e] > Cycle!Held(e)
      /\ Cycle!DropHandles(e, None)
  BY DEF Cycle!DropHandle
<1>2. \A x \in Entities : /\ handles[x] \in Nat
                          /\ handles[x] >= InQueue(x) + OnStack(x)
                          /\ InQueue(x) \in 0..1 /\ OnStack(x) \in 0..2
                          /\ Cycle!Two(e, None)[x] = IF x = e THEN 1 ELSE 0
  <2>1. \A x \in Entities : handles[x] \in Nat
    BY DEF EffectsInv, EffectTypes, Cycle!TypeOK
  <2>2. \A x \in Entities : handles[x] >= InQueue(x) + OnStack(x)
    BY DEF EffectsInv, HandlesOK
  <2>3. \A x \in Entities : Cycle!Two(e, None)[x] = IF x = e THEN 1 ELSE 0
    BY TwoIs, EffectsConstants
  <2> QED
    BY <2>1, <2>2, <2>3, HeldInRange
<1>3. handles[e] > InQueue(e) + OnStack(e)
  BY <1>1, HeldIs
<1>4. \A x \in Entities : handles[x] >= Cycle!Two(e, None)[x]
  BY <1>2, <1>3
<1>5. /\ handles' \in [Entities -> Nat]
      /\ \A x \in Entities : handles'[x] = handles[x] - Cycle!Two(e, None)[x]
      /\ slot' \in [Entities -> {"unused", "live", "dropped", "released"}]
      /\ \A x \in Entities : /\ handles'[x] > 0 <=> slot'[x] = "live"
                             /\ \/ slot'[x] = slot[x]
                                \/ slot[x] = "live" /\ slot'[x] = "dropped"
      /\ dropped_entity_ids' \in Seq(Entities)
      /\ DroppedOK'
  BY <1>1, <1>4, HandlesDropped
<1>6. EffectsOK' /\ NotifyOK' /\ ActivationOK'
  BY <1>1, SubsRest, QueueRests
<1>7. StampOK' /\ GotOK' /\ AppliedOK'
  BY <1>1, SubsRest, HearingRests DEF Iterating
<1>8. EffectTypes'
  BY <1>1, <1>5 DEF EffectsInv, EffectTypes, Cycle!TypeOK
<1>9. IterOK'
  BY <1>1, <1>5 DEF EffectsInv, IterOK, Iterating
<1>10. SubsOK'
  <2>1. \A s \in DOMAIN subs : subs[s].where = "taken" =>
            phase' \in {"retain", "callback", "release", "releasing"}
    BY <1>1 DEF EffectsInv, SubsOK, Cycle!NoSubscriberLost
  <2> QED
    BY <1>1, <1>5, <2>1, SubsEnd
<1>11. HandlesOK'
  <2>1. \A x \in Entities : OnStack(x)' = OnStack(x)
    BY <1>1 DEF OnStack, Cycle!Two
  <2>2. \A x \in Entities : handles'[x] >= InQueue(x) + OnStack(x)
    BY <1>2, <1>3, <1>5
  <2> QED
    BY <1>1, <1>5, <2>1, <2>2, QueueHolds DEF EffectsInv, HandlesOK
<1>12. Cycle!FlushedWhenOutside'
  BY <1>1 DEF EffectsInv, Cycle!FlushedWhenOutside
<1> QED
  BY <1>5, <1>6, <1>7, <1>8, <1>9, <1>10, <1>11, <1>12 DEF EffectsInv

\* A callback of a release or of a new entity returns: what it held is dropped.
LEMMA ReturnStep ==
    ASSUME EffectsInv, Cycle!ReleaseReturn \/ Cycle!CreatedReturn
    PROVE  EffectsInv'
<1> DEFINE e == IF phase = "releasing" THEN subs[iter.sub].owner ELSE iter.emitter
<1>1. /\ UNCHANGED <<pending_effects, pending_notifications, batch, subs, calls, got, applied>>
      /\ \/ phase = "releasing" /\ phase' = "release" /\ UNCHANGED iter
         \/ phase = "created" /\ phase' = "flush" /\ iter' = Cycle!NoIter
      /\ Cycle!DropHandles(e, None)
  BY DEF Cycle!ReleaseReturn, Cycle!CreatedReturn
<1>2. e \in Entities \cup {None}
  BY <1>1, SubsFacts DEF EffectsInv, IterOK, SubSet
<1>3. \A x \in Entities : OnStack(x) = Cycle!Two(e, None)[x] /\ OnStack(x)' = 0
  BY <1>1 DEF OnStack
<1> HIDE DEF e
<1>4. \A x \in Entities : /\ handles[x] \in Nat
                          /\ handles[x] >= InQueue(x) + OnStack(x)
                          /\ InQueue(x) \in 0..1 /\ OnStack(x) \in 0..2
  BY HeldInRange DEF EffectsInv, EffectTypes, Cycle!TypeOK, HandlesOK
<1>5. \A x \in Entities : handles[x] >= Cycle!Two(e, None)[x]
  BY <1>3, <1>4
<1>6. /\ handles' \in [Entities -> Nat]
      /\ \A x \in Entities : handles'[x] = handles[x] - Cycle!Two(e, None)[x]
      /\ slot' \in [Entities -> {"unused", "live", "dropped", "released"}]
      /\ \A x \in Entities : /\ handles'[x] > 0 <=> slot'[x] = "live"
                             /\ \/ slot'[x] = slot[x]
                                \/ slot[x] = "live" /\ slot'[x] = "dropped"
      /\ dropped_entity_ids' \in Seq(Entities)
      /\ DroppedOK'
  BY <1>1, <1>2, <1>5, HandlesDropped
<1>7. EffectsOK' /\ NotifyOK' /\ ActivationOK'
  BY <1>1, SubsRest, QueueRests
<1>8. StampOK' /\ GotOK' /\ AppliedOK'
  <2>1. ~Iterating'
    BY <1>1 DEF Iterating
  <2> QED
    BY <1>1, <2>1, SubsRest, HearingRests
<1>9. EffectTypes'
  <2>1. iter' \in IterSet
    BY <1>1, NoIterTyped DEF EffectsInv, EffectTypes
  <2> QED
    BY <1>1, <1>6, <2>1 DEF EffectsInv, EffectTypes, Cycle!TypeOK
<1>10. IterOK'
  BY <1>1, <1>6 DEF EffectsInv, IterOK, Iterating
<1>11. SubsOK'
  <2>1. \A s \in DOMAIN subs : subs[s].where = "taken" =>
            phase' \in {"retain", "callback", "release", "releasing"}
    BY <1>1 DEF EffectsInv, SubsOK, Cycle!NoSubscriberLost
  <2> QED
    BY <1>1, <1>6, <2>1, SubsEnd
<1>12. HandlesOK'
  <2>1. \A x \in Entities : handles'[x] >= InQueue(x)
    BY <1>3, <1>4, <1>6
  <2>2. \A x \in Entities : handles'[x] >= InQueue(x)' + OnStack(x)'
    BY <1>1, <1>3, <1>4, <2>1, QueueHolds
  <2> QED
    BY <1>1, <1>6, <2>2, QueueHolds DEF EffectsInv, HandlesOK
<1>13. Cycle!FlushedWhenOutside'
  BY <1>1 DEF Cycle!FlushedWhenOutside
<1> QED
  BY <1>6, <1>7, <1>8, <1>9, <1>10, <1>11, <1>12, <1>13 DEF EffectsInv

\* A callback returns, and its subscriber goes if it was dropped meanwhile.
LEMMA CallbackReturnStep == ASSUME EffectsInv, Cycle!CallbackReturn PROVE EffectsInv'
<1> DEFINE s == iter.sub
           e == subs[s].emitter
           o == subs[s].owner
<1>1. /\ UNCHANGED <<pending_effects, pending_notifications, batch, iter, calls, got, applied>>
      /\ phase = "callback" /\ phase' = "retain"
      /\ subs' = [subs EXCEPT ![s].where = IF subs[s].dropped THEN "gone" ELSE @]
      /\ Cycle!DropHandles(e, o)
  BY DEF Cycle!CallbackReturn
<1>2. /\ s \in DOMAIN subs /\ e \in Entities /\ o \in Entities \cup {None} /\ iter.emitter = e
      /\ \A t \in DOMAIN subs : subs[t] \in SubSet
  BY <1>1, SubsFacts DEF EffectsInv, IterOK, SubSet
<1>3. \A x \in Entities : OnStack(x) = Cycle!Two(e, o)[x] /\ OnStack(x)' = 0
  BY <1>1, <1>2 DEF OnStack
<1>4. /\ SubsAlike
      /\ \A t \in DOMAIN subs : /\ subs'[t] \in SubSet
                                /\ subs'[t].dropped = subs[t].dropped
                                /\ \/ subs'[t].where = subs[t].where
                                   \/ subs'[t].where = "gone" /\ subs[t].dropped
  BY <1>1, <1>2 DEF SubsAlike, SubSet
<1>5. subs' \in Seq(SubSet) /\ Len(subs') = Len(subs)
  BY <1>1, <1>4, SubsTyped DEF EffectsInv
<1> HIDE DEF e, o, s
<1>6. \A x \in Entities : /\ handles[x] \in Nat
                          /\ handles[x] >= InQueue(x) + OnStack(x)
                          /\ InQueue(x) \in 0..1 /\ OnStack(x) \in 0..2
  BY HeldInRange DEF EffectsInv, EffectTypes, Cycle!TypeOK, HandlesOK
<1>7. \A x \in Entities : handles[x] >= Cycle!Two(e, o)[x]
  BY <1>3, <1>6
<1>8. /\ handles' \in [Entities -> Nat]
      /\ \A x \in Entities : handles'[x] = handles[x] - Cycle!Two(e, o)[x]
      /\ slot' \in [Entities -> {"unused", "live", "dropped", "released"}]
      /\ \A x \in Entities : /\ handles'[x] > 0 <=> slot'[x] = "live"
                             /\ \/ slot'[x] = slot[x]
                                \/ slot[x] = "live" /\ slot'[x] = "dropped"
      /\ dropped_entity_ids' \in Seq(Entities)
      /\ DroppedOK'
  BY <1>1, <1>2, <1>7, HandlesDropped
<1>9. EffectsOK' /\ NotifyOK' /\ ActivationOK'
  BY <1>1, <1>4, QueueRests
<1>10. StampOK' /\ GotOK' /\ AppliedOK'
  BY <1>1, <1>4, HearingRests DEF Iterating
<1>11. EffectTypes'
  BY <1>1, <1>4, <1>5, <1>8 DEF EffectsInv, EffectTypes, Cycle!TypeOK, SubSet
<1>12. IterOK'
  <2>1. \A t \in iter.left : /\ t \in DOMAIN subs /\ subs[t].where = "taken" /\ t # s
                            /\ subs[t].kind = iter.kind /\ subs[t].emitter = iter.emitter
    BY <1>1 DEF EffectsInv, IterOK, Iterating, s
  <2>2. \A t \in DOMAIN subs : t # s => subs'[t].where = subs[t].where
    BY <1>1
  <2> QED
    BY <1>1, <1>4, <2>1, <2>2 DEF IterOK, SubsAlike
<1>13. SubsOK'
  <2>1. \A x \in Entities : /\ slot[x] # "unused" => slot'[x] # "unused"
                            /\ Cycle!Gone(x) => Cycle!Gone(x)'
    BY <1>8 DEF Cycle!Gone
  <2>2. \A t \in DOMAIN subs : subs[t].emitter \in Entities /\ subs[t].owner \in Entities \cup {None}
    BY <1>2 DEF SubSet
  <2>3. Cycle!NoSubscriberLost'
    BY <1>1, <1>4, <2>1, <2>2 DEF EffectsInv, SubsOK, Cycle!NoSubscriberLost, SubsAlike
  <2> QED
    BY <1>4, <2>1, <2>2, <2>3 DEF EffectsInv, SubsOK, SubsAlike
<1>14. HandlesOK'
  <2>1. \A x \in Entities : handles'[x] >= InQueue(x)
    BY <1>3, <1>6, <1>8
  <2>2. \A x \in Entities : handles'[x] >= InQueue(x)' + OnStack(x)'
    BY <1>1, <1>3, <1>6, <2>1, QueueHolds
  <2> QED
    BY <1>1, <1>8, <2>2, QueueHolds DEF EffectsInv, HandlesOK
<1>15. Cycle!FlushedWhenOutside'
  BY <1>1 DEF Cycle!FlushedWhenOutside
<1> QED
  BY <1>8, <1>9, <1>10, <1>11, <1>12, <1>13, <1>14, <1>15 DEF EffectsInv

-----------------------------------------------------------------------------
(* Subscriptions end and entities are released                             *)

LEMMA UnsubscribeStep ==
    ASSUME EffectsInv, NEW s \in DOMAIN subs, Cycle!Unsubscribe(s)
    PROVE  EffectsInv'
<1>1. /\ UNCHANGED <<phase, pending_effects, pending_notifications, handles, slot,
                     dropped_entity_ids, batch, iter, calls, got, applied>>
      /\ subs' = [subs EXCEPT ![s].dropped = TRUE,
                              ![s].where = IF @ = "map" THEN "gone" ELSE @]
  BY DEF Cycle!Unsubscribe
<1>2. \A t \in DOMAIN subs : subs[t] \in SubSet
  BY SubsFacts DEF EffectsInv
<1>3. /\ SubsAlike
      /\ \A t \in DOMAIN subs : /\ subs'[t] \in SubSet
                                /\ subs'[t].where = "taken" <=> subs[t].where = "taken"
                                /\ \/ subs'[t] = subs[t]
                                   \/ subs'[t].dropped
  BY <1>1, <1>2 DEF SubsAlike, SubSet
<1>4. subs' \in Seq(SubSet) /\ Len(subs') = Len(subs)
  BY <1>1, <1>3, SubsTyped DEF EffectsInv
<1>5. EffectsOK' /\ NotifyOK' /\ ActivationOK'
  BY <1>1, <1>3, QueueRests
<1>6. StampOK' /\ GotOK' /\ AppliedOK'
  BY <1>1, <1>3, HearingRests DEF Iterating
<1>7. EffectTypes'
  BY <1>1, <1>3, <1>4 DEF EffectsInv, EffectTypes, Cycle!TypeOK, SubSet
<1>8. IterOK'
  BY <1>1, <1>3 DEF EffectsInv, IterOK, Iterating, SubsAlike
<1>9. SubsOK'
  <2>1. Cycle!NoSubscriberLost'
    BY <1>1, <1>3 DEF EffectsInv, SubsOK, Cycle!NoSubscriberLost, Cycle!Gone, SubsAlike
  <2> QED
    BY <1>1, <1>3, <2>1 DEF EffectsInv, SubsOK, SubsAlike
<1>10. HandlesOK'
  <2>1. phase \in {"callback", "releasing"} => iter.sub \in DOMAIN subs
    BY DEF EffectsInv, IterOK
  <2>2. \A x \in Entities : OnStack(x)' = OnStack(x)
    BY <1>1, <1>3, <2>1 DEF OnStack, Cycle!Two, SubsAlike
  <2> QED
    BY <1>1, <2>2, QueueHolds DEF EffectsInv, HandlesOK
<1>11. DroppedOK' /\ Cycle!FlushedWhenOutside'
  BY <1>1 DEF EffectsInv, DroppedOK, Cycle!FlushedWhenOutside
<1> QED
  BY <1>5, <1>6, <1>7, <1>8, <1>9, <1>10, <1>11 DEF EffectsInv

LEMMA TakeDroppedStep == ASSUME EffectsInv, Cycle!TakeDropped PROVE EffectsInv'
<1>1. /\ UNCHANGED <<phase, pending_effects, pending_notifications, handles, subs, iter, calls,
                     got, applied>>
      /\ phase = "flush"
      /\ batch' = dropped_entity_ids
      /\ dropped_entity_ids' = <<>>
      /\ slot' = [e \in Entities |->
                    IF \E i \in DOMAIN dropped_entity_ids : dropped_entity_ids[i] = e
                    THEN "released" ELSE slot[e]]
  BY DEF Cycle!TakeDropped
<1>2. /\ dropped_entity_ids \in Seq(Entities)
      /\ DOMAIN dropped_entity_ids = 1..Len(dropped_entity_ids)
      /\ slot \in [Entities -> {"unused", "live", "dropped", "released"}]
  BY DEF EffectsInv, EffectTypes, Cycle!TypeOK
<1>3. \A e \in Entities : slot'[e] = IF slot[e] = "dropped" THEN "released" ELSE slot[e]
  BY <1>1, <1>2 DEF EffectsInv, DroppedOK
<1>4. EffectsOK' /\ NotifyOK' /\ ActivationOK'
  BY <1>1, SubsRest, QueueRests
<1>5. StampOK' /\ GotOK' /\ AppliedOK'
  BY <1>1, SubsRest, HearingRests DEF Iterating
<1>6. EffectTypes'
  <2>1. slot' \in [Entities -> {"unused", "live", "dropped", "released"}]
    BY <1>1, <1>2
  <2>2. dropped_entity_ids' \in Seq(Entities)
    BY <1>1
  <2> QED
    BY <1>1, <1>2, <2>1, <2>2 DEF EffectsInv, EffectTypes, Cycle!TypeOK
<1>7. IterOK'
  BY <1>1 DEF IterOK, Iterating
<1>8. SubsOK'
  <2>1. \A s \in DOMAIN subs : subs[s].emitter \in Entities /\ subs[s].owner \in Entities \cup {None}
    BY SubsFacts DEF EffectsInv, SubSet
  <2>2. \A x \in Entities : /\ slot[x] # "unused" => slot'[x] # "unused"
                            /\ Cycle!Gone(x) => Cycle!Gone(x)'
    BY <1>3 DEF Cycle!Gone
  <2>3. Cycle!NoSubscriberLost'
    BY <1>1, <2>1, <2>2 DEF EffectsInv, SubsOK, Cycle!NoSubscriberLost
  <2> QED
    BY <1>1, <2>1, <2>2, <2>3 DEF EffectsInv, SubsOK
<1>9. HandlesOK'
  <2>1. \A x \in Entities : OnStack(x)' = OnStack(x)
    BY <1>1 DEF OnStack
  <2> QED
    BY <1>1, <1>3, <2>1, QueueHolds DEF EffectsInv, HandlesOK
<1>10. DroppedOK'
  <2>1. Len(dropped_entity_ids') = 0
    BY <1>1
  <2>2. \A i \in 1..Len(batch') : batch'[i] \in Entities /\ slot[batch'[i]] = "dropped"
    BY <1>1, <1>2 DEF EffectsInv, DroppedOK
  <2>3. \A e \in Entities : slot'[e] # "dropped"
    BY <1>3
  <2> QED
    BY <1>3, <2>1, <2>2, <2>3 DEF DroppedOK
<1>11. Cycle!FlushedWhenOutside'
  BY <1>1 DEF Cycle!FlushedWhenOutside
<1> QED
  BY <1>4, <1>5, <1>6, <1>7, <1>8, <1>9, <1>10, <1>11 DEF EffectsInv

LEMMA ReleaseEntityStep == ASSUME EffectsInv, Cycle!ReleaseEntity PROVE EffectsInv'
<1> DEFINE e == Head(batch)
           release == {s \in DOMAIN subs : /\ subs[s].kind = "release"
                                           /\ subs[s].emitter = e
                                           /\ subs[s].where = "map"}
<1>1. /\ UNCHANGED <<pending_effects, pending_notifications, handles, slot, dropped_entity_ids,
                     batch, calls, got, applied>>
      /\ phase = "flush" /\ phase' = "release" /\ batch # <<>>
      /\ subs' = [s \in DOMAIN subs |->
                    IF s \in release THEN [subs[s] EXCEPT !.where = "taken"]
                    ELSE IF subs[s].emitter = e THEN [subs[s] EXCEPT !.where = "gone"]
                    ELSE subs[s]]
      /\ iter' = [Cycle!NoIter EXCEPT !.emitter = e, !.left = release]
  BY DEF Cycle!ReleaseEntity
<1>2. /\ \A t \in DOMAIN subs : subs[t] \in SubSet /\ subs[t].where # "taken"
      /\ release \subseteq DOMAIN subs /\ DOMAIN subs \subseteq Nat
  BY <1>1, SubsFacts DEF EffectsInv, SubsOK, Cycle!NoSubscriberLost
<1>3. e \in Entities /\ slot[e] = "released"
  <2>1. batch \in Seq(Entities) /\ Len(batch) >= 1 /\ e = batch[1]
    BY <1>1 DEF EffectsInv, EffectTypes
  <2> QED
    BY <2>1 DEF EffectsInv, DroppedOK
<1>4. /\ SubsAlike
      /\ \A t \in DOMAIN subs : /\ subs'[t] \in SubSet
                                /\ subs'[t].dropped = subs[t].dropped
                                /\ subs'[t].where = "taken" <=> t \in release
                                /\ subs'[t].where = subs[t].where \/ subs[t].emitter = e
  BY <1>1, <1>2 DEF SubsAlike, SubSet
<1>5. subs' \in Seq(SubSet) /\ Len(subs') = Len(subs)
  BY <1>1, <1>4, SubsTyped DEF EffectsInv
<1>6. /\ iter' \in IterSet
      /\ iter'.emitter = e /\ iter'.left = release
  <2> HIDE DEF e, release
  <2>1. iter' = [kind |-> "", emitter |-> e, stamp |-> 0, left |-> release, sub |-> 0]
    BY <1>1 DEF Cycle!NoIter
  <2> QED
    BY <1>2, <1>3, <2>1 DEF IterSet
<1>7. EffectsOK' /\ NotifyOK' /\ ActivationOK'
  BY <1>1, <1>4, QueueRests
<1>8. StampOK' /\ GotOK' /\ AppliedOK'
  BY <1>1, <1>4, HearingRests DEF Iterating
<1>9. EffectTypes'
  BY <1>1, <1>4, <1>5, <1>6 DEF EffectsInv, EffectTypes, Cycle!TypeOK, SubSet
<1>10. IterOK'
  <2>1. \A s \in release : subs'[s].emitter = e
    BY <1>4 DEF SubsAlike
  <2> HIDE DEF e, release
  <2> QED
    BY <1>1, <1>2, <1>3, <1>4, <1>6, <2>1 DEF IterOK, Iterating, SubsAlike
<1>11. SubsOK'
  <2> HIDE DEF release
  <2>1. Cycle!NoSubscriberLost'
    BY <1>1, <1>3, <1>4 DEF EffectsInv, SubsOK, Cycle!NoSubscriberLost, Cycle!Gone, SubsAlike
  <2> QED
    BY <1>1, <1>4, <2>1 DEF EffectsInv, SubsOK, SubsAlike
<1>12. HandlesOK'
  <2>1. \A x \in Entities : OnStack(x)' = 0 /\ OnStack(x) = 0
    BY <1>1 DEF OnStack
  <2> QED
    BY <1>1, <2>1, QueueHolds DEF EffectsInv, HandlesOK
<1>13. DroppedOK' /\ Cycle!FlushedWhenOutside'
  BY <1>1 DEF EffectsInv, DroppedOK, Cycle!FlushedWhenOutside
<1> QED
  BY <1>7, <1>8, <1>9, <1>10, <1>11, <1>12, <1>13 DEF EffectsInv

LEMMA CallReleaseStep == ASSUME EffectsInv, Cycle!CallRelease PROVE EffectsInv'
<1> DEFINE s == Cycle!First(iter.left)
           o == subs[s].owner
           runs == o # None => handles[o] > 0
<1>1. /\ UNCHANGED <<pending_effects, pending_notifications, slot, dropped_entity_ids, batch,
                     calls, got, applied>>
      /\ phase = "release" /\ iter.left # {}
      /\ phase' = IF runs THEN "releasing" ELSE "release"
      /\ subs' = [subs EXCEPT ![s].where = "gone"]
      /\ iter' = [iter EXCEPT !.left = @ \ {s}, !.sub = s]
      /\ handles' = [x \in Entities |-> IF runs /\ x = o THEN handles[x] + 1 ELSE handles[x]]
  BY DEF Cycle!CallRelease
<1>2. s \in iter.left
  BY <1>1, FirstIsIn DEF EffectsInv, EffectTypes, IterSet
<1>3. /\ s \in DOMAIN subs /\ s \in Nat /\ subs[s].emitter = iter.emitter
      /\ iter.emitter \in Entities /\ slot[iter.emitter] = "released"
      /\ iter \in IterSet
  BY <1>1, <1>2, SubsFacts DEF EffectsInv, EffectTypes, IterOK
<1>4. /\ \A t \in DOMAIN subs : subs[t] \in SubSet
      /\ o \in Entities \cup {None}
  BY <1>3, SubsFacts DEF EffectsInv, SubSet
<1> HIDE DEF s
<1>5. /\ SubsAlike
      /\ \A t \in DOMAIN subs : /\ subs'[t] \in SubSet
                                /\ subs'[t].dropped = subs[t].dropped
                                /\ subs'[t].where = IF t = s THEN "gone" ELSE subs[t].where
  BY <1>1, <1>3, <1>4 DEF SubsAlike, SubSet
<1>6. subs' \in Seq(SubSet) /\ Len(subs') = Len(subs)
  BY <1>1, <1>5, SubsTyped DEF EffectsInv
<1>7. /\ iter' \in IterSet
      /\ iter'.emitter = iter.emitter /\ iter'.left = iter.left \ {s} /\ iter'.sub = s
  BY <1>1, <1>3 DEF IterSet
<1>8. EffectsOK' /\ NotifyOK' /\ ActivationOK'
  BY <1>1, <1>5, QueueRests
<1>9. StampOK' /\ GotOK' /\ AppliedOK'
  BY <1>1, <1>5, HearingRests DEF Iterating
<1>10. handles \in [Entities -> Nat]
  BY DEF EffectsInv, EffectTypes, Cycle!TypeOK
<1>11. \A x \in Entities : handles[x] \in Nat /\ handles'[x] \in Nat
                           /\ handles'[x] = handles[x] + (IF runs /\ x = o THEN 1 ELSE 0)
  BY <1>1, <1>10
<1>12. EffectTypes'
  <2>1. handles' \in [Entities -> Nat]
    BY <1>1, <1>11
  <2>2. phase' \in {"releasing", "release"}
    BY <1>1
  <2> QED
    BY <1>1, <1>5, <1>6, <1>7, <2>1, <2>2 DEF EffectsInv, EffectTypes, Cycle!TypeOK, SubSet
<1>13. IterOK'
  <2>1. phase' \in {"releasing", "release"}
    BY <1>1
  <2>2. \A t \in DOMAIN subs : subs'[t].where = "taken" => t \in iter'.left
    BY <1>1, <1>5, <1>7 DEF EffectsInv, IterOK
  <2>3. \A t \in iter'.left : t \in DOMAIN subs /\ subs[t].emitter = iter.emitter
    BY <1>1, <1>7 DEF EffectsInv, IterOK
  <2>4. batch # <<>>
    BY <1>1 DEF EffectsInv, IterOK
  <2> QED
    BY <1>1, <1>3, <1>5, <1>7, <2>1, <2>2, <2>3, <2>4 DEF IterOK, Iterating, SubsAlike
<1>14. SubsOK'
  <2>1. phase' \in {"releasing", "release"}
    BY <1>1
  <2>2. Cycle!NoSubscriberLost'
    BY <1>1, <1>3, <1>5, <2>1 DEF EffectsInv, SubsOK, Cycle!NoSubscriberLost, Cycle!Gone, SubsAlike
  <2> QED
    BY <1>1, <1>5, <2>2 DEF EffectsInv, SubsOK, SubsAlike
<1>15. HandlesOK'
  <2>1. \A x \in Entities : OnStack(x) = 0 /\ OnStack(x)' = IF runs /\ x = o THEN 1 ELSE 0
    <3> SUFFICES ASSUME NEW x \in Entities
                 PROVE  OnStack(x) = 0 /\ OnStack(x)' = IF runs /\ x = o THEN 1 ELSE 0
      OBVIOUS
    <3>1. OnStack(x) = 0
      BY <1>1 DEF OnStack
    <3>2. subs'[iter'.sub].owner = o
      BY <1>3, <1>5, <1>7 DEF SubsAlike
    <3>3. CASE runs
      <4>1. OnStack(x)' = Cycle!Two(o, None)[x]
        BY <1>1, <3>2, <3>3 DEF OnStack, Cycle!Two
      <4> QED
        BY <3>1, <3>3, <4>1, TwoIs, EffectsConstants
    <3>4. CASE ~runs
      BY <1>1, <3>1, <3>4 DEF OnStack
    <3> QED
      BY <3>3, <3>4
  <2>2. \A x \in Entities : handles'[x] > 0 <=> handles[x] > 0
    <3>1. \A x \in Entities : runs /\ x = o => handles[x] > 0
      BY EffectsConstants
    <3> HIDE DEF runs, o
    <3> QED
      BY <1>11, <3>1
  <2>3. \A x \in Entities : InQueue(x) \in 0..1 /\ handles[x] >= InQueue(x) + OnStack(x)
    BY HeldInRange DEF EffectsInv, HandlesOK
  <2> HIDE DEF runs, o
  <2>4. \A x \in Entities : handles'[x] >= InQueue(x)' + OnStack(x)'
    BY <1>1, <1>11, <2>1, <2>3, QueueHolds
  <2> QED
    BY <1>1, <2>2, <2>4, QueueHolds DEF EffectsInv, HandlesOK
<1>16. DroppedOK' /\ Cycle!FlushedWhenOutside'
  BY <1>1 DEF EffectsInv, DroppedOK, Cycle!FlushedWhenOutside
<1> QED
  BY <1>8, <1>9, <1>12, <1>13, <1>14, <1>15, <1>16 DEF EffectsInv

LEMMA ReleaseNextStep == ASSUME EffectsInv, Cycle!ReleaseNext PROVE EffectsInv'
<1>1. /\ UNCHANGED <<pending_effects, pending_notifications, handles, slot, dropped_entity_ids,
                     subs, calls, got, applied>>
      /\ phase = "dropping" /\ phase' = "flush"
      /\ batch' = Tail(batch)
      /\ iter' = Cycle!NoIter
  BY DEF Cycle!ReleaseNext
<1>2. /\ batch \in Seq(Entities) /\ batch # <<>>
      /\ \A t \in DOMAIN subs : subs[t].where # "taken"
  BY <1>1 DEF EffectsInv, EffectTypes, IterOK, SubsOK, Cycle!NoSubscriberLost
<1>3. /\ batch' \in Seq(Entities) /\ Len(batch) \in Nat
      /\ \A i \in 1..Len(batch') : i + 1 \in 1..Len(batch) /\ batch'[i] = batch[i + 1]
  BY <1>1, <1>2
<1>4. EffectsOK' /\ NotifyOK' /\ ActivationOK'
  BY <1>1, SubsRest, QueueRests
<1>5. StampOK' /\ GotOK' /\ AppliedOK'
  BY <1>1, SubsRest, HearingRests DEF Iterating
<1>6. EffectTypes'
  BY <1>1, <1>3, NoIterTyped DEF EffectsInv, EffectTypes, Cycle!TypeOK
<1>7. IterOK'
  BY <1>1 DEF IterOK, Iterating
<1>8. SubsOK'
  BY <1>1, <1>2 DEF EffectsInv, SubsOK, Cycle!NoSubscriberLost, Cycle!Gone
<1>9. HandlesOK'
  <2>1. \A x \in Entities : OnStack(x)' = 0 /\ OnStack(x) = 0
    BY <1>1 DEF OnStack
  <2> QED
    BY <1>1, <2>1, QueueHolds DEF EffectsInv, HandlesOK
<1>10. DroppedOK'
  <2>1. \A i \in 1..Len(batch') : slot[batch'[i]] = "released"
    BY <1>3 DEF EffectsInv, DroppedOK
  <2> QED
    BY <1>1, <2>1 DEF EffectsInv, DroppedOK
<1>11. Cycle!FlushedWhenOutside'
  BY <1>1 DEF Cycle!FlushedWhenOutside
<1> QED
  BY <1>4, <1>5, <1>6, <1>7, <1>8, <1>9, <1>10, <1>11 DEF EffectsInv

-----------------------------------------------------------------------------
(* Effects are raised                                                      *)

LEMMA Pushed ==
    ASSUME EffectsInv, NEW x \in EffectSet, pending_effects' = Append(pending_effects, x)
    PROVE  /\ pending_effects' \in Seq(EffectSet) /\ Len(pending_effects) \in Nat
           /\ Queue' = Queue \cup {Len(pending_effects) + 1}
           /\ \A i \in Queue : /\ i \in Nat /\ i < Len(pending_effects) + 1
                               /\ pending_effects'[i] = pending_effects[i]
           /\ pending_effects'[Len(pending_effects) + 1] = x
<1>1. pending_effects \in Seq(EffectSet) /\ Len(pending_effects) \in Nat
  BY DEF EffectsInv, EffectTypes
<1>2. /\ pending_effects' \in Seq(EffectSet) /\ Len(pending_effects') = Len(pending_effects) + 1
      /\ \A i \in 1..Len(pending_effects) : pending_effects'[i] = pending_effects[i]
      /\ pending_effects'[Len(pending_effects) + 1] = x
  BY <1>1
<1>3. Queue' = Queue \cup {Len(pending_effects) + 1}
  BY <1>1, <1>2 DEF Queue
<1> QED
  BY <1>1, <1>2, <1>3 DEF Queue

LEMMA PushedOne ==
    ASSUME EffectsInv, NEW x \in EffectSet, pending_effects' = Append(pending_effects, x)
    PROVE  \E m \in Nat : /\ Queue' = Queue \cup {m} /\ m \notin Queue
                          /\ \A i \in Queue : pending_effects'[i] = pending_effects[i]
                          /\ pending_effects'[m] = x
                          /\ pending_effects' \in Seq(EffectSet)
<1>1. PICK m \in Nat : m = Len(pending_effects) + 1
  BY DEF EffectsInv, EffectTypes
<1>2. /\ Queue' = Queue \cup {m}
      /\ \A i \in Queue : i \in Nat /\ i < m /\ pending_effects'[i] = pending_effects[i]
      /\ pending_effects'[m] = x
      /\ pending_effects' \in Seq(EffectSet)
  BY <1>1, Pushed
<1>3. m \notin Queue
  BY <1>2
<1> QED
  BY <1>2, <1>3

LEMMA EffectSetKinds ==
    ASSUME NEW q \in Seq(EffectSet)
    PROVE  \A i \in DOMAIN q : q[i].kind \in {"notify", "emit", "activate", "defer", "created"}
<1>1. \A i \in DOMAIN q : q[i] \in EffectSet
  OBVIOUS
<1> QED
  BY <1>1 DEF EffectSet, EffectKinds

LEMMA CountedOK ==
    ASSUME EffectsInv
    PROVE  /\ calls \in Nat
           /\ \A s \in DOMAIN subs : subs[s].since \in Nat
           /\ \A i \in Queue : pending_effects[i].n \in Nat /\ pending_effects[i] \in EffectSet
           /\ iter.stamp \in Nat
           /\ \A s \in DOMAIN subs : got[s] \in Seq(Nat)
           /\ \A s \in DOMAIN subs : \A i \in 1..Len(got[s]) : got[s][i] \in Nat
<1>1. calls \in Nat
  BY EffectsConstants DEF EffectsInv, EffectTypes, Cycle!TypeOK
<1>2. \A s \in DOMAIN subs : subs[s].since \in Nat
  BY SubsFacts DEF EffectsInv, SubSet
<1>3. \A i \in Queue : pending_effects[i] \in EffectSet
  BY DEF EffectsInv, EffectTypes, Queue
<1>4. iter.stamp \in Nat
  BY DEF EffectsInv, EffectTypes, IterSet
<1>5. \A s \in DOMAIN subs : got[s] \in Seq(Nat)
  BY SubsFacts DEF EffectsInv, EffectTypes
<1> QED
  BY <1>1, <1>2, <1>3, <1>4, <1>5 DEF EffectSet

\* A call that raises an effect about an entity or a closure: it is the last of the queue, and later
\* than all that subscribers heard or are hearing.
LEMMA RaisedIsLast ==
    ASSUME EffectsInv, UNCHANGED <<phase, subs, iter, got, applied>>,
           calls' = calls + 1,
           NEW x \in EffectSet, x.n = calls, x.kind # "activate", x.kind # "defer" => x.emitter \in Entities,
           pending_effects' = Append(pending_effects, x)
    PROVE  EffectsOK' /\ ActivationOK' /\ StampOK' /\ GotOK' /\ AppliedOK'
<1>0. PICK m \in Nat : m = Len(pending_effects) + 1
  BY DEF EffectsInv, EffectTypes
<1>1. /\ Queue' = Queue \cup {m}
      /\ \A i \in Queue : i \in Nat /\ i < m /\ pending_effects'[i] = pending_effects[i]
      /\ pending_effects'[m] = x
  BY <1>0, Pushed
<1>2. /\ calls \in Nat /\ iter.stamp \in Nat
      /\ \A s \in DOMAIN subs : subs[s].since \in Nat
      /\ \A i \in Queue : pending_effects[i].n \in Nat
      /\ \A s \in DOMAIN subs : \A i \in 1..Len(got[s]) : got[s][i] \in Nat
  BY CountedOK
<1>3. /\ \A i \in Queue : Stamped(i)' <=> Stamped(i)
      /\ \A i \in Queue : \A s : Activates(i, s)' <=> Activates(i, s)
      /\ \A s : ~Activates(m, s)'
  BY <1>1 DEF Stamped, Activates
<1>4. EffectsOK'
  <2>1. \A i \in Queue : Stamped(i) => pending_effects[i].n < calls
    BY DEF EffectsInv, EffectsOK
  <2>2. \A i \in Queue' : /\ pending_effects'[i].kind \in {"notify", "emit", "created"} =>
                                pending_effects'[i].emitter \in Entities
                          /\ Stamped(i)' => pending_effects'[i].n < calls'
    <3> SUFFICES ASSUME NEW i \in Queue'
                 PROVE  /\ pending_effects'[i].kind \in {"notify", "emit", "created"} =>
                               pending_effects'[i].emitter \in Entities
                        /\ Stamped(i)' => pending_effects'[i].n < calls'
      OBVIOUS
    <3>1. CASE i = m
      <4>1. pending_effects'[i] = x
        BY <1>1, <3>1
      <4>2. x.n < calls'
        BY <1>2
      <4>3. x.kind \in {"notify", "emit", "created"} => x.emitter \in Entities
        OBVIOUS
      <4> QED
        BY <4>1, <4>2, <4>3
    <3>2. CASE i \in Queue
      <4>1. pending_effects'[i] = pending_effects[i] /\ (Stamped(i)' <=> Stamped(i))
        BY <1>1, <1>3, <3>2
      <4>2. /\ pending_effects[i].kind \in {"notify", "emit", "created"} =>
                   pending_effects[i].emitter \in Entities
            /\ Stamped(i) => pending_effects[i].n < calls
            /\ pending_effects[i].n \in Nat
        BY <1>2, <2>1, <3>2 DEF EffectsInv, EffectsOK
      <4> QED
        BY <1>2, <4>1, <4>2
    <3> QED
      BY <1>1, <3>1, <3>2
  <2>3. ASSUME NEW i \in Queue', NEW j \in Queue', Stamped(i)', Stamped(j)', i < j
        PROVE  pending_effects'[i].n < pending_effects'[j].n
    <3>1. i \in Queue
      BY <1>1, <2>3
    <3>2. CASE j = m
      BY <1>1, <1>3, <2>1, <2>3, <3>1, <3>2
    <3>3. CASE j \in Queue
      BY <1>1, <1>3, <2>3, <3>1, <3>3 DEF EffectsInv, EffectsOK
    <3> QED
      BY <1>1, <3>2, <3>3
  <2> QED
    BY <2>2, <2>3 DEF EffectsOK
<1>5. ActivationOK'
  <2>1. \A i \in Queue' : pending_effects'[i].kind = "activate" =>
            pending_effects'[i].n \in DOMAIN subs'
    BY <1>1 DEF EffectsInv, ActivationOK
  <2>2. ASSUME NEW s \in DOMAIN subs
        PROVE  /\ subs[s].since < calls'
               /\ ~subs[s].active => \E k \in Queue' : Activates(k, s)'
    BY <1>1, <1>2, <1>3 DEF EffectsInv, ActivationOK
  <2>3. ASSUME NEW s \in DOMAIN subs, subs[s].kind # "release", NEW i \in Queue', Stamped(i)'
        PROVE  /\ pending_effects'[i].n # subs[s].since
               /\ pending_effects'[i].n > subs[s].since <=>
                      subs[s].active \/ \E k \in Queue' : k < i /\ Activates(k, s)'
    <3>1. CASE i = m
      <4>1. calls > subs[s].since
        BY <1>2 DEF EffectsInv, ActivationOK
      <4>2. subs[s].active \/ \E k \in Queue : Activates(k, s)
        BY DEF EffectsInv, ActivationOK
      <4>3. subs[s].active \/ \E k \in Queue' : k < i /\ Activates(k, s)'
        BY <1>1, <1>3, <3>1, <4>2
      <4>4. pending_effects'[i] = x
        BY <1>1, <3>1
      <4>5. pending_effects'[i].n = calls
        BY <4>4
      <4>6. calls # subs[s].since
        BY <1>2, <4>1
      <4> QED
        BY <4>1, <4>3, <4>5, <4>6
    <3>2. CASE i \in Queue
      <4>1. (\E k \in Queue' : k < i /\ Activates(k, s)') <=> \E k \in Queue : k < i /\ Activates(k, s)
        BY <1>1, <1>3
      <4>2. Stamped(i) /\ pending_effects'[i].n = pending_effects[i].n
        BY <1>1, <1>3, <2>3, <3>2
      <4> QED
        BY <2>3, <3>2, <4>1, <4>2 DEF EffectsInv, ActivationOK
    <3> QED
      BY <1>1, <3>1, <3>2
  <2> QED
    BY <2>1, <2>2, <2>3 DEF ActivationOK
<1>6. StampOK'
  <2> SUFFICES ASSUME Iterating PROVE StampOK'
    BY DEF StampOK, Iterating
  <2>1. /\ iter.kind \in {"observer", "listener"} /\ iter.emitter \in Entities
        /\ iter.stamp < calls
        /\ \A i \in Queue : Stamped(i) => iter.stamp < pending_effects[i].n
        /\ \A s \in DOMAIN subs : subs[s].kind # "release" =>
              /\ iter.stamp # subs[s].since
              /\ iter.stamp > subs[s].since <=> subs[s].active
    BY DEF EffectsInv, StampOK
  <2>2. \A i \in Queue' : Stamped(i)' => iter.stamp < pending_effects'[i].n
    BY <1>1, <1>3, <2>1
  <2>3. iter.stamp < calls'
    BY <1>2, <2>1
  <2> QED
    BY <2>1, <2>2, <2>3 DEF StampOK
<1>7. GotOK'
  <2>1. Cycle!HeardInOrder'
    BY DEF EffectsInv, GotOK, Cycle!HeardInOrder
  <2>2. ASSUME NEW s \in DOMAIN subs, NEW i \in 1..Len(got[s])
        PROVE  /\ got[s][i] < calls'
               /\ \A j \in Queue' : Stamped(j)' => got[s][i] < pending_effects'[j].n
    <3>1. got[s][i] < calls /\ got[s][i] \in Nat
      BY <1>2 DEF EffectsInv, GotOK
    <3>2. \A j \in Queue : Stamped(j) => got[s][i] < pending_effects[j].n
      BY DEF EffectsInv, GotOK
    <3>3. \A j \in Queue' : Stamped(j)' => got[s][i] < pending_effects'[j].n
      BY <1>1, <1>3, <3>1, <3>2
    <3>4. got[s][i] < calls'
      BY <1>2, <3>1
    <3> QED
      BY <3>3, <3>4
  <2> QED
    BY <2>1, <2>2 DEF EffectsInv, GotOK, Iterating
<1>8. AppliedOK'
  <2>1. Cycle!NoneMissed'
    BY DEF EffectsInv, AppliedOK, Cycle!NoneMissed
  <2>2. \A a \in applied : a.n < calls'
    <3>1. \A a \in applied : a.n < calls /\ a.n \in Nat
      BY DEF EffectsInv, AppliedOK, EffectTypes
    <3> QED
      BY <1>2, <3>1
  <2> QED
    BY <2>1, <2>2 DEF EffectsInv, AppliedOK, Heard, Iterating
<1> QED
  BY <1>4, <1>5, <1>6, <1>7, <1>8

\* The effects that Notify, Emit, Defer and New raise.
LEMMA EffectTyped ==
    ASSUME NEW kind \in EffectKinds, NEW e \in Entities \cup {None}, NEW n \in Nat,
           NEW w \in BOOLEAN
    PROVE  /\ Cycle!Effect(kind, e, n, w) \in EffectSet
           /\ Cycle!Effect(kind, e, n, w).kind = kind
           /\ Cycle!Effect(kind, e, n, w).emitter = e
           /\ Cycle!Effect(kind, e, n, w).n = n
  BY DEF Cycle!Effect, EffectSet

\* Notify, Emit and Defer
LEMMA RaiseStep ==
    ASSUME EffectsInv,
           Cycle!Defer \/ \E e \in Entities : Cycle!Notify(e) \/ Cycle!Emit(e)
    PROVE  EffectsInv'
<1>0. calls \in Nat /\ calls \in 0..MaxCalls /\ MaxCalls \in Nat
  BY CountedOK, EffectsConstants DEF EffectsInv, EffectTypes, Cycle!TypeOK
<1>1. PICK kind \in {"notify", "emit", "defer"}, e \in Entities \cup {None} :
          /\ pending_effects' = Append(pending_effects, Cycle!Effect(kind, e, calls, FALSE))
          /\ kind # "defer" => e \in Entities
          /\ IF kind = "notify"
             THEN /\ e \notin pending_notifications
                  /\ pending_notifications' = pending_notifications \cup {e}
             ELSE UNCHANGED pending_notifications
          /\ phase \in {"update", "callback", "deferred", "created", "releasing"}
          /\ calls < MaxCalls /\ calls' = calls + 1
          /\ UNCHANGED <<phase, handles, slot, dropped_entity_ids, batch, subs, iter, got, applied>>
  <2>1. CASE Cycle!Defer
    BY <2>1 DEF Cycle!Defer, Cycle!AppCode, Cycle!Numbered
  <2>2. ASSUME NEW e \in Entities, Cycle!Notify(e)
        PROVE  /\ pending_effects' = Append(pending_effects, Cycle!Effect("notify", e, calls, FALSE))
               /\ e \notin pending_notifications
               /\ pending_notifications' = pending_notifications \cup {e}
               /\ phase \in {"update", "callback", "deferred", "created", "releasing"}
               /\ calls < MaxCalls /\ calls' = calls + 1
               /\ UNCHANGED <<phase, handles, slot, dropped_entity_ids, batch, subs, iter, got,
                              applied>>
    BY <2>2 DEF Cycle!Notify, Cycle!AppCode, Cycle!Numbered
  <2>3. ASSUME NEW e \in Entities, Cycle!Emit(e)
        PROVE  /\ pending_effects' = Append(pending_effects, Cycle!Effect("emit", e, calls, FALSE))
               /\ UNCHANGED pending_notifications
               /\ phase \in {"update", "callback", "deferred", "created", "releasing"}
               /\ calls < MaxCalls /\ calls' = calls + 1
               /\ UNCHANGED <<phase, handles, slot, dropped_entity_ids, batch, subs, iter, got,
                              applied>>
    BY <2>3 DEF Cycle!Emit, Cycle!AppCode, Cycle!Numbered
  <2> QED
    BY <2>1, <2>2, <2>3
<1> DEFINE x == Cycle!Effect(kind, e, calls, FALSE)
<1>2. x \in EffectSet /\ x.kind = kind /\ x.emitter = e /\ x.n = calls
  <2>1. kind \in EffectKinds /\ FALSE \in BOOLEAN
    BY DEF EffectKinds
  <2> QED
    BY <1>0, <2>1 DEF Cycle!Effect, EffectSet
<1> HIDE DEF x
<1>3. EffectsOK' /\ ActivationOK' /\ StampOK' /\ GotOK' /\ AppliedOK'
  BY <1>1, <1>2, RaisedIsLast DEF x
<1>4. PICK m \in Nat :
          /\ Queue' = Queue \cup {m} /\ m \notin Queue
          /\ \A i \in Queue : pending_effects'[i] = pending_effects[i]
          /\ pending_effects'[m] = x
          /\ pending_effects' \in Seq(EffectSet)
  BY <1>1, <1>2, PushedOne DEF x
<1>5. NotifyOK'
  <2>1. /\ \A i \in Queue : \A y : Queued(i, "notify", y)' <=> Queued(i, "notify", y)
        /\ \A y : Queued(m, "notify", y)' <=> kind = "notify" /\ y = e
    BY <1>2, <1>4 DEF Queued
  <2>2. \A y \in Entities :
            y \in pending_notifications' <=> y \in pending_notifications \/ (kind = "notify" /\ y = e)
    BY <1>1
  <2>3. \A y \in Entities : y \in pending_notifications' <=> \E i \in Queue' : Queued(i, "notify", y)'
    BY <1>4, <2>1, <2>2 DEF EffectsInv, NotifyOK
  <2>4. ASSUME NEW i \in Queue', NEW j \in Queue', NEW y \in Entities,
               Queued(i, "notify", y)', Queued(j, "notify", y)'
        PROVE  i = j
    <3>1. CASE i = m /\ j \in Queue
      BY <1>1, <2>1, <2>4, <3>1 DEF EffectsInv, NotifyOK
    <3>2. CASE j = m /\ i \in Queue
      BY <1>1, <2>1, <2>4, <3>2 DEF EffectsInv, NotifyOK
    <3>3. CASE i \in Queue /\ j \in Queue
      BY <2>1, <2>4, <3>3 DEF EffectsInv, NotifyOK
    <3> QED
      BY <1>4, <3>1, <3>2, <3>3
  <2> QED
    BY <2>3, <2>4 DEF NotifyOK
<1>6. EffectTypes'
  <2>1. DOMAIN pending_effects' = Queue'
    BY <1>4 DEF Queue
  <2>2. \A i \in DOMAIN pending_effects' :
            pending_effects'[i].kind \in {"notify", "emit", "activate", "defer", "created"}
    BY <1>4, EffectSetKinds
  <2>3. pending_notifications' \subseteq Entities
    BY <1>1 DEF EffectsInv, EffectTypes, Cycle!TypeOK
  <2>4. calls' \in 0..MaxCalls
    BY <1>0, <1>1
  <2> QED
    BY <1>1, <1>4, <2>2, <2>3, <2>4 DEF EffectsInv, EffectTypes, Cycle!TypeOK
<1>7. IterOK' /\ SubsOK'
  BY <1>1 DEF EffectsInv, IterOK, Iterating, SubsOK, Cycle!NoSubscriberLost, Cycle!Gone
<1>8. HandlesOK'
  <2>1. /\ \A i \in Queue : \A y : Queued(i, "created", y)' <=> Queued(i, "created", y)
        /\ \A y : ~Queued(m, "created", y)'
    BY <1>2, <1>4 DEF Queued
  <2>2. \A y \in Entities : InQueue(y)' = InQueue(y)
    BY <1>4, <2>1 DEF InQueue
  <2>3. \A y \in Entities : OnStack(y)' = OnStack(y)
    BY <1>1 DEF OnStack, Cycle!Two
  <2> QED
    BY <1>1, <1>4, <2>1, <2>2, <2>3 DEF EffectsInv, HandlesOK
<1>9. DroppedOK'
  BY <1>1 DEF EffectsInv, DroppedOK
<1>10. Cycle!FlushedWhenOutside'
  BY <1>1 DEF Cycle!FlushedWhenOutside
<1> QED
  BY <1>3, <1>5, <1>6, <1>7, <1>8, <1>9, <1>10 DEF EffectsInv

LEMMA NewStep ==
    ASSUME EffectsInv, NEW e \in Entities, NEW w \in BOOLEAN, Cycle!New(e, w)
    PROVE  EffectsInv'
<1>0. /\ calls \in Nat /\ calls \in 0..MaxCalls /\ MaxCalls \in Nat
      /\ handles \in [Entities -> Nat]
      /\ slot \in [Entities -> {"unused", "live", "dropped", "released"}]
  BY CountedOK, EffectsConstants DEF EffectsInv, EffectTypes, Cycle!TypeOK
<1> DEFINE x == Cycle!Effect("created", e, calls, w)
<1>1. /\ phase \in {"update", "callback", "deferred", "created", "releasing"}
      /\ slot[e] = "unused"
      /\ calls < MaxCalls /\ calls' = calls + 1
      /\ slot' = [slot EXCEPT ![e] = "live"]
      /\ handles' = [handles EXCEPT ![e] = 2]
      /\ pending_effects' = Append(pending_effects, x)
      /\ UNCHANGED <<phase, pending_notifications, dropped_entity_ids, batch, subs, iter, got,
                     applied>>
  BY DEF Cycle!New, Cycle!AppCode, Cycle!Numbered
<1>2. x \in EffectSet /\ x.kind = "created" /\ x.emitter = e /\ x.n = calls
  BY <1>0, EffectTyped DEF EffectKinds
<1> HIDE DEF x
<1>3. EffectsOK' /\ ActivationOK' /\ StampOK' /\ GotOK' /\ AppliedOK'
  BY <1>1, <1>2, RaisedIsLast
<1>4. PICK m \in Nat :
          /\ Queue' = Queue \cup {m} /\ m \notin Queue
          /\ \A i \in Queue : pending_effects'[i] = pending_effects[i]
          /\ pending_effects'[m] = x
          /\ pending_effects' \in Seq(EffectSet)
  BY <1>1, <1>2, PushedOne
<1>5. NotifyOK'
  <2>1. /\ \A i \in Queue : \A y : Queued(i, "notify", y)' <=> Queued(i, "notify", y)
        /\ \A y : ~Queued(m, "notify", y)'
    BY <1>2, <1>4 DEF Queued
  <2> QED
    BY <1>1, <1>4, <2>1 DEF EffectsInv, NotifyOK
<1>6. EffectTypes'
  <2>1. DOMAIN pending_effects' = Queue'
    BY <1>4 DEF Queue
  <2>2. \A i \in DOMAIN pending_effects' :
            pending_effects'[i].kind \in {"notify", "emit", "activate", "defer", "created"}
    BY <1>4, EffectSetKinds
  <2>3. /\ handles' \in [Entities -> Nat]
        /\ slot' \in [Entities -> {"unused", "live", "dropped", "released"}]
    BY <1>0, <1>1
  <2>4. calls' \in 0..MaxCalls
    BY <1>0, <1>1
  <2> QED
    BY <1>1, <1>4, <2>2, <2>3, <2>4 DEF EffectsInv, EffectTypes, Cycle!TypeOK
<1>7. \A y \in Entities : /\ slot'[y] = IF y = e THEN "live" ELSE slot[y]
                          /\ handles'[y] = IF y = e THEN 2 ELSE handles[y]
  BY <1>0, <1>1
<1>8. SubsOK'
  <2>1. \A s \in DOMAIN subs : subs[s].emitter \in Entities /\ subs[s].owner \in Entities \cup {None}
    BY SubsFacts DEF EffectsInv, SubSet
  <2>2. \A y \in Entities : /\ slot[y] # "unused" => slot'[y] # "unused"
                            /\ Cycle!Gone(y) => Cycle!Gone(y)'
    BY <1>1, <1>7 DEF Cycle!Gone
  <2>3. Cycle!NoSubscriberLost'
    BY <1>1, <2>1, <2>2 DEF EffectsInv, SubsOK, Cycle!NoSubscriberLost
  <2> QED
    BY <1>1, <2>1, <2>2, <2>3 DEF EffectsInv, SubsOK
<1>9. IterOK'
  BY <1>1, <1>7 DEF EffectsInv, IterOK, Iterating
<1>10. HandlesOK'
  <2>0. \A y \in Entities : /\ handles[y] \in Nat /\ handles[y] >= InQueue(y) + OnStack(y)
                            /\ InQueue(y) \in 0..1 /\ OnStack(y) \in 0..2
                            /\ handles[y] > 0 <=> slot[y] = "live"
    BY <1>0, HeldInRange DEF EffectsInv, HandlesOK
  <2>1. InQueue(e) = 0 /\ OnStack(e) = 0
    BY <1>1, <2>0
  <2>2. \A i \in Queue : ~Queued(i, "created", e)
    BY <2>1 DEF InQueue
  <2>3. /\ \A i \in Queue : \A y : Queued(i, "created", y)' <=> Queued(i, "created", y)
        /\ \A y : Queued(m, "created", y)' <=> y = e
    BY <1>2, <1>4 DEF Queued
  <2>4. \A y \in Entities : InQueue(y)' = IF y = e THEN 1 ELSE InQueue(y)
    BY <1>4, <2>3 DEF InQueue
  <2>5. \A y \in Entities : OnStack(y)' = OnStack(y)
    BY <1>1 DEF OnStack, Cycle!Two
  <2>6. \A i, j \in Queue' : \A y \in Entities :
            Queued(i, "created", y)' /\ Queued(j, "created", y)' => i = j
    BY <1>4, <2>2, <2>3 DEF EffectsInv, HandlesOK
  <2>7. \A y \in Entities : /\ handles'[y] >= InQueue(y)' + OnStack(y)'
                            /\ handles'[y] > 0 <=> slot'[y] = "live"
    BY <1>7, <2>0, <2>1, <2>4, <2>5
  <2> QED
    BY <2>6, <2>7 DEF HandlesOK
<1>11. DroppedOK'
  <2>1. \A y \in Entities : /\ slot'[y] = "dropped" <=> slot[y] = "dropped"
                            /\ slot'[y] = "released" <=> slot[y] = "released"
    BY <1>1, <1>7
  <2>2. \A i \in 1..Len(batch) : batch[i] \in Entities
    BY DEF EffectsInv, EffectTypes
  <2> QED
    BY <1>1, <2>1, <2>2 DEF EffectsInv, DroppedOK
<1>12. Cycle!FlushedWhenOutside'
  BY <1>1 DEF Cycle!FlushedWhenOutside
<1> QED
  BY <1>3, <1>5, <1>6, <1>8, <1>9, <1>10, <1>11, <1>12 DEF EffectsInv

-----------------------------------------------------------------------------
(* Subscriptions are made                                                  *)

\* A subscription is the last, and the queue is as it was or ends with its activation.
LEMMA InsertedStep ==
    ASSUME EffectsInv,
           NEW kind \in {"observer", "listener", "release"}, NEW e \in Entities,
           NEW o \in Entities \cup {None}, NEW active \in BOOLEAN,
           Cycle!Inserted(kind, e, o, active),
           \/ kind = "release" /\ active = TRUE /\ UNCHANGED pending_effects
           \/ /\ kind # "release" /\ active = FALSE
              /\ pending_effects' =
                     Append(pending_effects, Cycle!Effect("activate", None, Len(subs) + 1, FALSE))
    PROVE  EffectsInv'
<1> DEFINE new == [kind |-> kind, emitter |-> e, owner |-> o, since |-> calls,
                   active |-> active, dropped |-> FALSE, where |-> "map"]
           x == Cycle!Effect("activate", None, Len(subs) + 1, FALSE)
<1>0. /\ calls \in Nat /\ calls \in 0..MaxCalls /\ MaxCalls \in Nat /\ MaxSubs \in Nat
      /\ subs \in Seq(SubSet) /\ Len(subs) \in Nat /\ DOMAIN subs = 1..Len(subs)
      /\ \A s \in DOMAIN subs : subs[s] \in SubSet
  BY CountedOK, SubsFacts, EffectsConstants DEF EffectsInv, EffectTypes, Cycle!TypeOK
<1>1. /\ phase \in {"update", "callback", "deferred", "created", "releasing"}
      /\ handles[e] > 0 /\ (o # None => handles[o] > 0)
      /\ Len(subs) < MaxSubs
      /\ calls < MaxCalls /\ calls' = calls + 1
      /\ subs' = Append(subs, new)
      /\ UNCHANGED <<phase, pending_notifications, handles, slot, dropped_entity_ids, batch, iter,
                     got, applied>>
  BY DEF Cycle!Inserted, Cycle!AppCode, Cycle!Numbered
<1>2. PICK t \in Nat : t = Len(subs) + 1
  BY <1>0
<1>3. new \in SubSet
  BY <1>0 DEF SubSet
<1>4. /\ new.kind = kind /\ new.emitter = e /\ new.owner = o /\ new.since = calls
      /\ new.active = active /\ new.dropped = FALSE /\ new.where = "map"
  OBVIOUS
<1> HIDE DEF new
<1>5. /\ subs' \in Seq(SubSet) /\ Len(subs') = t
      /\ DOMAIN subs' = DOMAIN subs \cup {t} /\ t \notin DOMAIN subs
      /\ \A s \in DOMAIN subs : subs'[s] = subs[s]
      /\ subs'[t] = new
  BY <1>0, <1>1, <1>2, <1>3
<1>6. x \in EffectSet /\ x.kind = "activate" /\ x.n = t
  BY <1>0, <1>2 DEF Cycle!Effect, EffectSet, EffectKinds
<1> HIDE DEF x
<1>7. /\ pending_effects' \in Seq(EffectSet)
      /\ Queue \subseteq Queue'
      /\ \A i \in Queue : pending_effects'[i] = pending_effects[i]
      /\ \A i \in Queue' \ Queue : pending_effects'[i] = x
      /\ \A i \in Queue' \ Queue : \A j \in Queue : j < i
      /\ kind # "release" => \E i \in Queue' : i \notin Queue
      /\ kind = "release" => Queue' = Queue
  <2>1. CASE kind = "release"
    <3>1. UNCHANGED pending_effects
      BY <2>1
    <3> QED
      BY <2>1, <3>1 DEF EffectsInv, EffectTypes, Queue
  <2>2. CASE kind # "release"
    <3>1. pending_effects' = Append(pending_effects, x)
      BY <2>2 DEF x
    <3>2. PICK m \in Nat : m = Len(pending_effects) + 1
      BY DEF EffectsInv, EffectTypes
    <3>3. /\ Queue' = Queue \cup {m}
          /\ \A i \in Queue : i \in Nat /\ i < m /\ pending_effects'[i] = pending_effects[i]
          /\ pending_effects'[m] = x
          /\ pending_effects' \in Seq(EffectSet)
      BY <1>6, <3>1, <3>2, Pushed
    <3>4. m \notin Queue
      BY <3>3
    <3> QED
      BY <2>2, <3>3, <3>4
  <2> QED
    BY <2>1, <2>2
<1>8. /\ \A i \in Queue : Stamped(i)' <=> Stamped(i)
      /\ \A i \in Queue' : Stamped(i)' => i \in Queue
      /\ \A i \in Queue : \A s : Activates(i, s)' <=> Activates(i, s)
      /\ \A i \in Queue' \ Queue : \A s : Activates(i, s)' <=> s = t
  BY <1>6, <1>7 DEF Stamped, Activates
<1>9. EffectsOK'
  <2>1. \A i \in Queue' : pending_effects'[i].kind \in {"notify", "emit", "created"} =>
            pending_effects'[i].emitter \in Entities
    BY <1>6, <1>7 DEF EffectsInv, EffectsOK
  <2>2. \A i \in Queue' : Stamped(i)' => pending_effects'[i].n < calls'
    <3>1. \A i \in Queue : Stamped(i) => pending_effects[i].n < calls /\ pending_effects[i].n \in Nat
      BY CountedOK DEF EffectsInv, EffectsOK
    <3> QED
      BY <1>0, <1>1, <1>7, <1>8, <3>1
  <2>3. \A i, j \in Queue' : Stamped(i)' /\ Stamped(j)' /\ i < j =>
            pending_effects'[i].n < pending_effects'[j].n
    BY <1>7, <1>8 DEF EffectsInv, EffectsOK
  <2> QED
    BY <2>1, <2>2, <2>3 DEF EffectsOK
<1>10. NotifyOK'
  <2>1. /\ \A i \in Queue : \A y : Queued(i, "notify", y)' <=> Queued(i, "notify", y)
        /\ \A i \in Queue' \ Queue : \A y : ~Queued(i, "notify", y)'
    BY <1>6, <1>7 DEF Queued
  <2> QED
    BY <1>1, <1>7, <2>1 DEF EffectsInv, NotifyOK
<1>11. ActivationOK'
  <2>1. \A i \in Queue' : pending_effects'[i].kind = "activate" =>
            pending_effects'[i].n \in DOMAIN subs'
    BY <1>5, <1>6, <1>7 DEF EffectsInv, ActivationOK
  <2>2. ASSUME NEW s \in DOMAIN subs'
        PROVE  /\ subs'[s].since < calls'
               /\ ~subs'[s].active => \E k \in Queue' : Activates(k, s)'
    <3>1. CASE s = t
      <4>1. subs'[s].since = calls /\ subs'[s].active = active
        BY <1>4, <1>5, <3>1
      <4>2. ~active => \E k \in Queue' : Activates(k, s)'
        BY <1>7, <1>8, <3>1
      <4> QED
        BY <1>0, <1>1, <4>1, <4>2
    <3>2. CASE s \in DOMAIN subs
      <4>1. subs[s].since < calls /\ subs[s].since \in Nat
        BY <3>2, CountedOK DEF EffectsInv, ActivationOK
      <4>2. ~subs[s].active => \E k \in Queue : Activates(k, s)
        BY <3>2 DEF EffectsInv, ActivationOK
      <4>3. ~subs[s].active => \E k \in Queue' : Activates(k, s)'
        BY <1>7, <1>8, <4>2
      <4> QED
        BY <1>0, <1>1, <1>5, <3>2, <4>1, <4>3
    <3> QED
      BY <1>5, <3>1, <3>2
  <2>3. ASSUME NEW s \in DOMAIN subs', subs'[s].kind # "release", NEW i \in Queue', Stamped(i)'
        PROVE  /\ pending_effects'[i].n # subs'[s].since
               /\ pending_effects'[i].n > subs'[s].since <=>
                      subs'[s].active \/ \E k \in Queue' : k < i /\ Activates(k, s)'
    <3>0. i \in Queue /\ Stamped(i) /\ pending_effects'[i].n = pending_effects[i].n
      BY <1>7, <1>8, <2>3
    <3>1. CASE s = t
      <4>1. subs'[s].since = calls /\ subs'[s].active = active /\ kind # "release"
        BY <1>4, <1>5, <2>3, <3>1
      <4>2. pending_effects[i].n < calls /\ pending_effects[i].n \in Nat
        BY <3>0, CountedOK DEF EffectsInv, EffectsOK
      <4>3. \A k \in Queue : ~Activates(k, s)
        BY <1>5, <3>1 DEF EffectsInv, ActivationOK, Activates
      <4>4. ~\E k \in Queue' : k < i /\ Activates(k, s)'
        <5>1. \A k \in Queue' : k < i => k \in Queue
          <6>1. \A k \in Queue' \ Queue : i < k
            BY <1>7, <3>0
          <6>2. \A k \in Queue' : k \in Int /\ i \in Int
            BY DEF Queue
          <6> QED
            BY <6>1, <6>2
        <5> QED
          BY <1>8, <4>3, <5>1
      <4>5. subs'[s].active = FALSE
        BY <4>1
      <4> QED
        BY <1>0, <3>0, <4>1, <4>2, <4>4, <4>5
    <3>2. CASE s \in DOMAIN subs
      <4>1. (\E k \in Queue' : k < i /\ Activates(k, s)') <=> \E k \in Queue : k < i /\ Activates(k, s)
        BY <1>5, <1>7, <1>8, <3>2
      <4> QED
        BY <1>5, <2>3, <3>0, <3>2, <4>1 DEF EffectsInv, ActivationOK
    <3> QED
      BY <1>5, <3>1, <3>2
  <2> QED
    BY <2>1, <2>2, <2>3 DEF ActivationOK
<1>12. StampOK'
  <2> SUFFICES ASSUME Iterating PROVE StampOK'
    BY <1>1 DEF StampOK, Iterating
  <2>1. /\ iter.kind \in {"observer", "listener"} /\ iter.emitter \in Entities
        /\ iter.stamp < calls /\ iter.stamp \in Nat
        /\ \A i \in Queue : Stamped(i) => iter.stamp < pending_effects[i].n
        /\ \A s \in DOMAIN subs : subs[s].kind # "release" =>
              /\ iter.stamp # subs[s].since
              /\ iter.stamp > subs[s].since <=> subs[s].active
    BY CountedOK DEF EffectsInv, StampOK
  <2>2. \A i \in Queue' : Stamped(i)' => iter.stamp < pending_effects'[i].n
    BY <1>7, <1>8, <2>1
  <2>3. iter.stamp < calls' /\ iter.stamp # calls /\ ~(iter.stamp > calls)
    BY <1>0, <1>1, <2>1
  <2>4. subs'[t].kind # "release" =>
            /\ iter.stamp # subs'[t].since
            /\ iter.stamp > subs'[t].since <=> subs'[t].active
    BY <1>4, <1>5, <2>3
  <2>5. \A s \in DOMAIN subs' : subs'[s].kind # "release" =>
            /\ iter.stamp # subs'[s].since
            /\ iter.stamp > subs'[s].since <=> subs'[s].active
    BY <1>5, <2>1, <2>4
  <2> QED
    BY <1>1, <2>1, <2>2, <2>3, <2>5 DEF StampOK
<1>13. t \in Cycle!SubIds /\ got[t] = <<>>
  BY <1>0, <1>1, <1>2, <1>5, EffectsConstants DEF EffectsInv, GotOK
<1>14. GotOK'
  <2>1. \A s \in DOMAIN subs' : \A i \in 1..Len(got[s]) : s \in DOMAIN subs
    BY <1>5, <1>13
  <2>2. \A s \in DOMAIN subs' : DOMAIN got[s] = 1..Len(got[s])
    <3>1. \A s \in DOMAIN subs : got[s] \in Seq(Nat)
      BY CountedOK
    <3> QED
      BY <1>5, <1>13, <3>1
  <2>3. Cycle!HeardInOrder'
    BY <1>1, <1>5, <2>1, <2>2 DEF EffectsInv, GotOK, Cycle!HeardInOrder
  <2>4. ASSUME NEW s \in DOMAIN subs, NEW i \in 1..Len(got[s])
        PROVE  /\ got[s][i] < calls'
               /\ \A j \in Queue' : Stamped(j)' => got[s][i] < pending_effects'[j].n
    <3>1. got[s][i] < calls /\ got[s][i] \in Nat
      BY CountedOK DEF EffectsInv, GotOK
    <3>2. \A j \in Queue : Stamped(j) => got[s][i] < pending_effects[j].n
      BY DEF EffectsInv, GotOK
    <3>3. \A j \in Queue' : Stamped(j)' => got[s][i] < pending_effects'[j].n
      BY <1>7, <1>8, <3>2
    <3>4. got[s][i] < calls'
      BY <1>0, <1>1, <3>1
    <3> QED
      BY <3>3, <3>4
  <2> QED
    BY <1>1, <1>5, <2>1, <2>3, <2>4 DEF EffectsInv, GotOK, Iterating
<1>15. AppliedOK'
  <2>1. \A a \in applied : a.n < calls /\ a.n \in Nat
    BY DEF EffectsInv, AppliedOK, EffectTypes
  <2>2. \A a \in applied : a.n < calls' /\ ~(a.n > calls)
    BY <1>0, <1>1, <2>1
  <2>3. Cycle!NoneMissed'
    BY <1>1, <1>4, <1>5, <2>2 DEF EffectsInv, AppliedOK, Cycle!NoneMissed
  <2>4. Iterating => ~(iter.stamp > calls)
    BY <1>0, CountedOK DEF EffectsInv, StampOK
  <2>5. Iterating => \A s \in DOMAIN subs' :
          (/\ subs'[s].kind = iter.kind
           /\ subs'[s].emitter = iter.emitter
           /\ iter.stamp > subs'[s].since
           /\ subs'[s].where # "gone"
           /\ ~subs'[s].dropped)
          => s \in iter.left \/ Heard(s, iter.stamp)
    BY <1>4, <1>5, <2>4 DEF EffectsInv, AppliedOK
  <2> QED
    BY <1>1, <2>2, <2>3, <2>5 DEF AppliedOK, Iterating, Heard
<1>16. EffectTypes'
  <2>1. \A i \in DOMAIN pending_effects' :
            pending_effects'[i].kind \in {"notify", "emit", "activate", "defer", "created"}
    BY <1>7, EffectSetKinds
  <2>2. calls' \in 0..MaxCalls /\ Len(subs') <= MaxSubs
    BY <1>0, <1>1, <1>2, <1>5
  <2>3. \A s \in DOMAIN subs' : subs'[s].where \in {"map", "taken", "gone"}
    BY <1>0, <1>3, <1>5 DEF SubSet
  <2> QED
    BY <1>1, <1>5, <1>7, <2>1, <2>2, <2>3 DEF EffectsInv, EffectTypes, Cycle!TypeOK
<1>17. IterOK'
  BY <1>1, <1>4, <1>5 DEF EffectsInv, IterOK, Iterating
<1>18. SubsOK'
  <2>1. slot[e] = "live" /\ (o # None => slot[o] = "live")
    BY <1>1 DEF EffectsInv, HandlesOK
  <2>2. Cycle!NoSubscriberLost'
    BY <1>1, <1>4, <1>5 DEF EffectsInv, SubsOK, Cycle!NoSubscriberLost, Cycle!Gone
  <2> QED
    BY <1>1, <1>4, <1>5, <2>1, <2>2 DEF EffectsInv, SubsOK
<1>19. HandlesOK'
  <2>1. /\ \A i \in Queue : \A y : Queued(i, "created", y)' <=> Queued(i, "created", y)
        /\ \A i \in Queue' \ Queue : \A y : ~Queued(i, "created", y)'
    BY <1>6, <1>7 DEF Queued
  <2>2. \A y \in Entities : InQueue(y)' = InQueue(y)
    BY <1>7, <2>1 DEF InQueue
  <2>3. phase \in {"callback", "releasing"} => iter.sub \in DOMAIN subs
    BY DEF EffectsInv, IterOK
  <2>4. \A y \in Entities : OnStack(y)' = OnStack(y)
    BY <1>1, <1>5, <2>3 DEF OnStack, Cycle!Two
  <2>5. \A i, j \in Queue' : \A y \in Entities :
            Queued(i, "created", y)' /\ Queued(j, "created", y)' => i = j
    BY <1>7, <2>1 DEF EffectsInv, HandlesOK
  <2> QED
    BY <1>1, <2>2, <2>4, <2>5 DEF EffectsInv, HandlesOK
<1>20. DroppedOK'
  BY <1>1 DEF EffectsInv, DroppedOK
<1>21. Cycle!FlushedWhenOutside'
  BY <1>1 DEF Cycle!FlushedWhenOutside
<1> QED
  BY <1>9, <1>10, <1>11, <1>12, <1>14, <1>15, <1>16, <1>17, <1>18, <1>19, <1>20, <1>21
     DEF EffectsInv

-----------------------------------------------------------------------------
(* Effects are applied                                                     *)

LEMMA Popped ==
    ASSUME EffectsInv, NEW kind, Cycle!Ready(kind)
    PROVE  /\ phase = "flush" /\ batch = <<>>
           /\ pending_effects' \in Seq(EffectSet)
           /\ 1 \in Queue /\ pending_effects[1] = Head(pending_effects)
           /\ pending_effects[1] \in EffectSet /\ pending_effects[1].kind = kind
           /\ \A i \in Queue' : /\ i \in Nat /\ i + 1 \in Queue /\ i + 1 > 1
                                /\ pending_effects'[i] = pending_effects[i + 1]
           /\ \A i \in Queue : i # 1 => /\ i \in Nat /\ i > 1 /\ i - 1 \in Queue'
                                        /\ pending_effects'[i - 1] = pending_effects[i]
<1>1. /\ phase = "flush" /\ batch = <<>> /\ pending_effects # <<>>
      /\ Head(pending_effects).kind = kind
      /\ pending_effects' = Tail(pending_effects)
  BY DEF Cycle!Ready
<1>2. pending_effects \in Seq(EffectSet) /\ Len(pending_effects) \in Nat
  BY DEF EffectsInv, EffectTypes
<1>3. /\ Len(pending_effects) >= 1 /\ Head(pending_effects) = pending_effects[1]
      /\ pending_effects' \in Seq(EffectSet) /\ Len(pending_effects') = Len(pending_effects) - 1
      /\ \A i \in 1..(Len(pending_effects) - 1) : pending_effects'[i] = pending_effects[i + 1]
  BY <1>1, <1>2
<1>4. 1 \in Queue /\ pending_effects[1] \in EffectSet
  BY <1>2, <1>3 DEF Queue
<1>5. ASSUME NEW i \in Queue'
      PROVE  /\ i \in Nat /\ i + 1 \in Queue /\ i + 1 > 1
             /\ pending_effects'[i] = pending_effects[i + 1]
  BY <1>2, <1>3 DEF Queue
<1>6. ASSUME NEW i \in Queue, i # 1
      PROVE  /\ i \in Nat /\ i > 1 /\ i - 1 \in Queue'
             /\ pending_effects'[i - 1] = pending_effects[i]
  <2>1. i - 1 \in 1..(Len(pending_effects) - 1) /\ (i - 1) + 1 = i
    BY <1>2, <1>6 DEF Queue
  <2>2. pending_effects'[i - 1] = pending_effects[(i - 1) + 1]
    BY <1>3, <2>1
  <2> QED
    BY <1>2, <1>3, <1>6, <2>1, <2>2 DEF Queue
<1> QED
  BY <1>1, <1>3, <1>4, <1>5, <1>6

\* The effects behind the one that is applied, one place further ahead.
LEMMA PoppedEffects ==
    ASSUME EffectsInv, NEW kind, Cycle!Ready(kind)
    PROVE  /\ \A i \in Queue' : /\ Stamped(i)' <=> Stamped(i + 1)
                                /\ \A s : Activates(i, s)' <=> Activates(i + 1, s)
                                /\ \A k, y : Queued(i, k, y)' <=> Queued(i + 1, k, y)
           /\ Stamped(1) <=> kind \in {"notify", "emit"}
           /\ \A s : Activates(1, s) <=> kind = "activate" /\ pending_effects[1].n = s
           /\ \A k, y : Queued(1, k, y) <=> kind = k /\ pending_effects[1].emitter = y
  BY Popped DEF Stamped, Activates, Queued

LEMMA PoppedOK ==
    ASSUME EffectsInv, NEW kind, Cycle!Ready(kind), UNCHANGED <<calls, got>>, SubsAlike
    PROVE  /\ EffectsOK'
           /\ \A s \in Cycle!SubIds : s \notin DOMAIN subs' => got'[s] = <<>>
           /\ Cycle!HeardInOrder'
           /\ \A s \in DOMAIN subs' : \A i \in 1..Len(got'[s]) :
                  /\ got'[s][i] < calls'
                  /\ \A j \in Queue' : Stamped(j)' => got'[s][i] < pending_effects'[j].n
                  /\ Stamped(1) => got'[s][i] < pending_effects[1].n
           /\ \A i \in Queue' : Stamped(1) /\ Stamped(i)' => pending_effects[1].n < pending_effects'[i].n
<1>1. /\ \A i \in Queue' : /\ i \in Nat /\ i + 1 \in Queue /\ i + 1 > 1
                           /\ pending_effects'[i] = pending_effects[i + 1]
                           /\ Stamped(i)' <=> Stamped(i + 1)
      /\ 1 \in Queue
  BY Popped, PoppedEffects
<1>2. EffectsOK'
  <2>1. \A i \in Queue' :
            /\ pending_effects'[i].kind \in {"notify", "emit", "created"} =>
                  pending_effects'[i].emitter \in Entities
            /\ Stamped(i)' => pending_effects'[i].n < calls
    BY <1>1 DEF EffectsInv, EffectsOK
  <2>2. ASSUME NEW i \in Queue', NEW j \in Queue', Stamped(i)', Stamped(j)', i < j
        PROVE  pending_effects'[i].n < pending_effects'[j].n
    <3>1. i + 1 < j + 1 /\ Stamped(i + 1) /\ Stamped(j + 1)
      BY <1>1, <2>2
    <3>2. pending_effects[i + 1].n < pending_effects[j + 1].n
      BY <1>1, <3>1 DEF EffectsInv, EffectsOK
    <3> QED
      BY <1>1, <3>2
  <2> QED
    BY <2>1, <2>2 DEF EffectsOK
<1>3. /\ \A s \in Cycle!SubIds : s \notin DOMAIN subs' => got'[s] = <<>>
      /\ Cycle!HeardInOrder'
  BY DEF EffectsInv, GotOK, Cycle!HeardInOrder, SubsAlike
<1>4. ASSUME NEW s \in DOMAIN subs', NEW i \in 1..Len(got'[s])
      PROVE  /\ got'[s][i] < calls'
             /\ \A j \in Queue' : Stamped(j)' => got'[s][i] < pending_effects'[j].n
             /\ Stamped(1) => got'[s][i] < pending_effects[1].n
  <2>1. /\ got[s][i] < calls
        /\ \A j \in Queue : Stamped(j) => got[s][i] < pending_effects[j].n
    BY <1>4 DEF EffectsInv, GotOK, SubsAlike
  <2> QED
    BY <1>1, <2>1
<1>5. ASSUME NEW i \in Queue', Stamped(1), Stamped(i)'
      PROVE  pending_effects[1].n < pending_effects'[i].n
  BY <1>1, <1>5 DEF EffectsInv, EffectsOK
<1> QED
  BY <1>2, <1>3, <1>4, <1>5

\* Marks of notifications that are not the one applied.
LEMMA PoppedNotify ==
    ASSUME EffectsInv, NEW kind, Cycle!Ready(kind),
           pending_notifications' = pending_notifications \
               (IF kind = "notify" THEN {pending_effects[1].emitter} ELSE {})
    PROVE  NotifyOK'
<1>1. /\ \A i \in Queue' : /\ i \in Nat /\ i + 1 \in Queue /\ i + 1 > 1
                           /\ \A y : Queued(i, "notify", y)' <=> Queued(i + 1, "notify", y)
      /\ \A i \in Queue : i # 1 => i \in Nat /\ i - 1 \in Queue' /\ (i - 1) + 1 = i
      /\ 1 \in Queue
      /\ \A y : Queued(1, "notify", y) <=> kind = "notify" /\ pending_effects[1].emitter = y
  BY Popped, PoppedEffects
<1>2. ASSUME NEW y \in Entities
      PROVE  y \in pending_notifications' <=> \E i \in Queue' : Queued(i, "notify", y)'
  <2>1. y \in pending_notifications' <=> y \in pending_notifications /\ ~Queued(1, "notify", y)
    BY <1>1
  <2>2. y \in pending_notifications <=> \E i \in Queue : Queued(i, "notify", y)
    BY DEF EffectsInv, NotifyOK
  <2>3. \A i \in Queue : Queued(1, "notify", y) /\ Queued(i, "notify", y) => i = 1
    BY <1>1 DEF EffectsInv, NotifyOK
  <2>4. (\E i \in Queue' : Queued(i, "notify", y)') =>
            (\E i \in Queue : Queued(i, "notify", y)) /\ ~Queued(1, "notify", y)
    <3> SUFFICES ASSUME NEW i \in Queue', Queued(i, "notify", y)'
                 PROVE  (\E j \in Queue : Queued(j, "notify", y)) /\ ~Queued(1, "notify", y)
      OBVIOUS
    <3>1. Queued(i + 1, "notify", y) /\ i + 1 \in Queue /\ i + 1 # 1
      BY <1>1
    <3> QED
      BY <2>3, <3>1
  <2>5. ASSUME NEW i \in Queue, Queued(i, "notify", y), ~Queued(1, "notify", y)
        PROVE  \E j \in Queue' : Queued(j, "notify", y)'
    <3>1. i # 1
      BY <2>5
    <3>2. i - 1 \in Queue' /\ (i - 1) + 1 = i
      BY <1>1, <3>1
    <3>3. Queued(i - 1, "notify", y)'
      BY <1>1, <2>5, <3>2
    <3> QED
      BY <3>2, <3>3
  <2> QED
    BY <2>1, <2>2, <2>4, <2>5
<1>3. ASSUME NEW i \in Queue', NEW j \in Queue', NEW y \in Entities,
             Queued(i, "notify", y)', Queued(j, "notify", y)'
      PROVE  i = j
  <2>1. i + 1 = j + 1
    BY <1>1, <1>3 DEF EffectsInv, NotifyOK
  <2> QED
    BY <1>1, <2>1
<1> QED
  BY <1>2, <1>3 DEF NotifyOK

\* Activations that are not the one applied.
LEMMA PoppedActivation ==
    ASSUME EffectsInv, NEW kind, Cycle!Ready(kind), kind # "activate", UNCHANGED calls, SubsAlike
    PROVE  ActivationOK'
<1>1. /\ \A i \in Queue' : /\ i \in Nat /\ i + 1 \in Queue /\ i + 1 > 1
                           /\ pending_effects'[i] = pending_effects[i + 1]
                           /\ Stamped(i)' <=> Stamped(i + 1)
                           /\ \A s : Activates(i, s)' <=> Activates(i + 1, s)
      /\ \A i \in Queue : i # 1 => i \in Nat /\ i - 1 \in Queue' /\ (i - 1) + 1 = i
      /\ \A s : ~Activates(1, s)
  BY Popped, PoppedEffects
<1>2. \A i \in Queue' : pending_effects'[i].kind = "activate" => pending_effects'[i].n \in DOMAIN subs'
  BY <1>1 DEF EffectsInv, ActivationOK, SubsAlike
<1>3. ASSUME NEW s \in DOMAIN subs, NEW k \in Queue, Activates(k, s)
      PROVE  k - 1 \in Queue' /\ Activates(k - 1, s)' /\ k \in Nat
  <2>1. k # 1
    BY <1>1, <1>3
  <2>2. k \in Nat /\ k - 1 \in Queue' /\ (k - 1) + 1 = k
    BY <1>1, <2>1
  <2> QED
    BY <1>1, <1>3, <2>2
<1>4. ASSUME NEW s \in DOMAIN subs'
      PROVE  /\ subs'[s].since < calls'
             /\ ~subs'[s].active => \E k \in Queue' : Activates(k, s)'
  <2>1. /\ s \in DOMAIN subs /\ subs'[s].since = subs[s].since /\ subs'[s].active = subs[s].active
    BY DEF SubsAlike
  <2>2. subs[s].since < calls /\ (~subs[s].active => \E k \in Queue : Activates(k, s))
    BY <2>1 DEF EffectsInv, ActivationOK
  <2> QED
    BY <1>3, <2>1, <2>2
<1>5. ASSUME NEW s \in DOMAIN subs', subs'[s].kind # "release", NEW i \in Queue', Stamped(i)'
      PROVE  /\ pending_effects'[i].n # subs'[s].since
             /\ pending_effects'[i].n > subs'[s].since <=>
                    subs'[s].active \/ \E k \in Queue' : k < i /\ Activates(k, s)'
  <2>1. /\ s \in DOMAIN subs /\ subs'[s].since = subs[s].since /\ subs'[s].active = subs[s].active
        /\ subs[s].kind # "release"
    BY <1>5 DEF SubsAlike
  <2>2. i \in Nat /\ i + 1 \in Queue /\ Stamped(i + 1) /\ pending_effects'[i] = pending_effects[i + 1]
    BY <1>1, <1>5
  <2>3. /\ pending_effects[i + 1].n # subs[s].since
        /\ pending_effects[i + 1].n > subs[s].since <=>
               subs[s].active \/ \E k \in Queue : k < i + 1 /\ Activates(k, s)
    BY <2>1, <2>2 DEF EffectsInv, ActivationOK
  <2>4. ASSUME NEW k \in Queue, k < i + 1, Activates(k, s)
        PROVE  \E l \in Queue' : l < i /\ Activates(l, s)'
    <3>1. k - 1 \in Queue' /\ Activates(k - 1, s)' /\ k \in Nat
      BY <1>3, <2>1, <2>4
    <3>2. k - 1 < i
      BY <2>2, <2>4, <3>1
    <3> QED
      BY <3>1, <3>2
  <2>5. ASSUME NEW k \in Queue', k < i, Activates(k, s)'
        PROVE  \E l \in Queue : l < i + 1 /\ Activates(l, s)
    <3>1. k + 1 \in Queue /\ Activates(k + 1, s) /\ k \in Nat
      BY <1>1, <2>5
    <3>2. k + 1 < i + 1
      BY <2>2, <2>5, <3>1
    <3> QED
      BY <3>1, <3>2
  <2> QED
    BY <2>1, <2>2, <2>3, <2>4, <2>5
<1> QED
  BY <1>2, <1>4, <1>5 DEF ActivationOK

\* The handle of a created effect is the flush's from the queue on.
LEMMA PoppedHandles ==
    ASSUME EffectsInv, NEW kind, Cycle!Ready(kind)
    PROVE  /\ \A i, j \in Queue' : \A e \in Entities :
                  Queued(i, "created", e)' /\ Queued(j, "created", e)' => i = j
           /\ \A e \in Entities :
                  InQueue(e) = InQueue(e)' + (IF Queued(1, "created", e) THEN 1 ELSE 0)
<1>1. /\ \A i \in Queue' : /\ i \in Nat /\ i + 1 \in Queue /\ i + 1 > 1
                           /\ \A y : Queued(i, "created", y)' <=> Queued(i + 1, "created", y)
      /\ \A i \in Queue : i # 1 => i \in Nat /\ i - 1 \in Queue' /\ (i - 1) + 1 = i
      /\ 1 \in Queue
  BY Popped, PoppedEffects
<1>2. ASSUME NEW i \in Queue', NEW j \in Queue', NEW y \in Entities,
             Queued(i, "created", y)', Queued(j, "created", y)'
      PROVE  i = j
  <2>1. i + 1 = j + 1
    BY <1>1, <1>2 DEF EffectsInv, HandlesOK
  <2> QED
    BY <1>1, <2>1
<1>3. ASSUME NEW y \in Entities
      PROVE  InQueue(y) = InQueue(y)' + (IF Queued(1, "created", y) THEN 1 ELSE 0)
  <2>1. \A i \in Queue : Queued(1, "created", y) /\ Queued(i, "created", y) => i = 1
    BY <1>1 DEF EffectsInv, HandlesOK
  <2>2. CASE Queued(1, "created", y)
    <3>1. \A i \in Queue' : ~Queued(i, "created", y)'
      BY <1>1, <2>1, <2>2
    <3>2. InQueue(y) = 1 /\ InQueue(y)' = 0
      BY <1>1, <2>2, <3>1 DEF InQueue
    <3> QED
      BY <2>2, <3>2
  <2>3. CASE ~Queued(1, "created", y)
    <3>1. ASSUME NEW i \in Queue, Queued(i, "created", y)
          PROVE  i - 1 \in Queue' /\ Queued(i - 1, "created", y)'
      <4>1. i # 1
        BY <2>3, <3>1
      <4>2. i - 1 \in Queue' /\ (i - 1) + 1 = i
        BY <1>1, <4>1
      <4> QED
        BY <1>1, <3>1, <4>2
    <3>2. (\E i \in Queue : Queued(i, "created", y)) <=> \E i \in Queue' : Queued(i, "created", y)'
      BY <1>1, <3>1
    <3>3. InQueue(y) = InQueue(y)' /\ InQueue(y) \in 0..1
      BY <3>2 DEF InQueue
    <3> QED
      BY <2>3, <3>3
  <2> QED
    BY <2>2, <2>3
<1> QED
  BY <1>2, <1>3

LEMMA PoppedTypes ==
    ASSUME EffectsInv, NEW kind, Cycle!Ready(kind),
           UNCHANGED <<handles, slot, dropped_entity_ids, batch, calls, got, applied>>,
           pending_notifications' \subseteq Entities,
           phase' \in {"flush", "retain", "deferred", "created", "panicked"},
           subs' \in Seq(SubSet), Len(subs') = Len(subs), iter' \in IterSet
    PROVE  EffectTypes'
<1>1. pending_effects' \in Seq(EffectSet)
  BY Popped
<1>2. \A i \in DOMAIN pending_effects' :
          pending_effects'[i].kind \in {"notify", "emit", "activate", "defer", "created"}
  BY <1>1, EffectSetKinds
<1>3. \A s \in DOMAIN subs' : subs'[s].where \in {"map", "taken", "gone"}
  <2>1. \A s \in DOMAIN subs' : subs'[s] \in SubSet
    OBVIOUS
  <2> QED
    BY <2>1 DEF SubSet
<1> QED
  BY <1>1, <1>2, <1>3 DEF EffectsInv, EffectTypes, Cycle!TypeOK

\* A notification or an event is applied: its subscribers are taken out to be called.
LEMMA StartRetainStep ==
    ASSUME EffectsInv, Cycle!ApplyNotify \/ Cycle!ApplyEmit
    PROVE  EffectsInv'
<1> DEFINE eff == Head(pending_effects)
<1>1. PICK kind \in {"notify", "emit"} :
          /\ Cycle!Ready(kind)
          /\ Cycle!StartRetain(IF kind = "notify" THEN "observer" ELSE "listener", eff)
          /\ pending_notifications' = pending_notifications \
                 (IF kind = "notify" THEN {eff.emitter} ELSE {})
          /\ UNCHANGED <<handles, slot, dropped_entity_ids, batch, calls, got, applied>>
  <2>1. CASE Cycle!ApplyNotify
    BY <2>1 DEF Cycle!ApplyNotify
  <2>2. CASE Cycle!ApplyEmit
    BY <2>2 DEF Cycle!ApplyEmit
  <2> QED
    BY <2>1, <2>2
<1>2. PICK to \in {"observer", "listener"} : to = IF kind = "notify" THEN "observer" ELSE "listener"
  OBVIOUS
<1> DEFINE taken == Cycle!Taken(to, eff.emitter)
<1>3. /\ phase = "flush" /\ phase' = "retain"
      /\ subs' = [s \in DOMAIN subs |->
                    IF s \in taken THEN [subs[s] EXCEPT !.where = "taken"] ELSE subs[s]]
      /\ iter' = [kind |-> to, emitter |-> eff.emitter, stamp |-> eff.n, left |-> taken, sub |-> 0]
  BY <1>1, <1>2, Popped DEF Cycle!StartRetain
<1>4. /\ eff = pending_effects[1] /\ eff \in EffectSet /\ eff.kind = kind
      /\ 1 \in Queue /\ Stamped(1)
  BY <1>1, Popped, PoppedEffects
<1>5. eff.emitter \in Entities /\ eff.n \in Nat /\ eff.n < calls
  <2>1. eff.n \in Nat
    BY <1>4 DEF EffectSet
  <2> QED
    BY <1>4, <2>1 DEF EffectsInv, EffectsOK
<1> HIDE DEF eff
<1>6. \A s : s \in taken <=> /\ s \in DOMAIN subs /\ subs[s].kind = to
                             /\ subs[s].emitter = eff.emitter /\ subs[s].where = "map"
  BY DEF Cycle!Taken
<1>7. /\ \A s \in DOMAIN subs : subs[s] \in SubSet /\ subs[s].where # "taken"
      /\ DOMAIN subs \subseteq Nat
  BY <1>3, SubsFacts DEF EffectsInv, SubsOK, Cycle!NoSubscriberLost
<1> HIDE DEF taken
<1>8. /\ SubsAlike
      /\ \A s \in DOMAIN subs : /\ subs'[s] \in SubSet
                                /\ subs'[s].dropped = subs[s].dropped
                                /\ subs'[s].where = IF s \in taken THEN "taken" ELSE subs[s].where
  BY <1>3, <1>6, <1>7 DEF SubsAlike, SubSet
<1>9. subs' \in Seq(SubSet) /\ Len(subs') = Len(subs)
  BY <1>3, <1>8, SubsTyped DEF EffectsInv
<1>10. /\ iter' \in IterSet /\ iter'.kind = to /\ iter'.emitter = eff.emitter
       /\ iter'.stamp = eff.n /\ iter'.left = taken
  <2>1. taken \in SUBSET Nat
    BY <1>6, <1>7
  <2> QED
    BY <1>3, <1>5, <2>1 DEF IterSet
<1>11. Iterating'
  BY <1>3 DEF Iterating
<1>12. /\ EffectsOK'
       /\ \A s \in Cycle!SubIds : s \notin DOMAIN subs' => got'[s] = <<>>
       /\ Cycle!HeardInOrder'
       /\ \A s \in DOMAIN subs' : \A i \in 1..Len(got'[s]) :
              /\ got'[s][i] < calls'
              /\ \A j \in Queue' : Stamped(j)' => got'[s][i] < pending_effects'[j].n
              /\ got'[s][i] < eff.n
       /\ \A i \in Queue' : Stamped(i)' => eff.n < pending_effects'[i].n
  BY <1>1, <1>4, <1>8, PoppedOK
<1>13. NotifyOK'
  BY <1>1, <1>4, PoppedNotify
<1>14. ActivationOK'
  BY <1>1, <1>8, PoppedActivation
<1>15. StampOK'
  <2>1. ASSUME NEW s \in DOMAIN subs, subs[s].kind # "release"
        PROVE  eff.n # subs[s].since /\ (eff.n > subs[s].since <=> subs[s].active)
    <3>1. \A k \in Queue : ~(k < 1)
      BY DEF Queue
    <3> QED
      BY <1>4, <2>1, <3>1 DEF EffectsInv, ActivationOK
  <2>2. \A s \in DOMAIN subs' : subs'[s].kind # "release" =>
            eff.n # subs'[s].since /\ (eff.n > subs'[s].since <=> subs'[s].active)
    BY <1>8, <2>1 DEF SubsAlike
  <2> QED
    BY <1>1, <1>5, <1>10, <1>12, <2>2 DEF StampOK
<1>16. GotOK'
  <2>1. \A s \in DOMAIN subs' : \A i \in 1..Len(got'[s]) : got'[s][i] <= iter'.stamp
    <3>1. \A s \in DOMAIN subs' : \A i \in 1..Len(got'[s]) : got'[s][i] \in Nat
      BY <1>1, <1>8, CountedOK DEF SubsAlike
    <3> QED
      BY <1>5, <1>10, <1>12, <3>1
  <2> QED
    BY <1>10, <1>12, <2>1 DEF GotOK
<1>17. AppliedOK'
  <2>1. Cycle!NoneMissed'
    BY <1>1, <1>8 DEF EffectsInv, AppliedOK, Cycle!NoneMissed, SubsAlike
  <2>2. \A a \in applied' : a.n < calls'
    BY <1>1 DEF EffectsInv, AppliedOK
  <2>3. ASSUME NEW s \in DOMAIN subs', subs'[s].kind = iter'.kind,
               subs'[s].emitter = iter'.emitter, subs'[s].where # "gone"
        PROVE  s \in iter'.left
    <3>1. /\ s \in DOMAIN subs /\ subs[s].kind = to /\ subs[s].emitter = eff.emitter
          /\ subs[s].where # "gone"
      BY <1>8, <1>10, <2>3 DEF SubsAlike
    <3>2. subs[s].where \in {"map", "taken", "gone"}
      BY <1>7, <3>1 DEF SubSet
    <3> QED
      BY <1>6, <1>7, <1>10, <3>1, <3>2
  <2> QED
    BY <2>1, <2>2, <2>3 DEF AppliedOK
<1>18. EffectTypes'
  <2>1. pending_notifications' \subseteq Entities
    BY <1>1 DEF EffectsInv, EffectTypes, Cycle!TypeOK
  <2> QED
    BY <1>1, <1>3, <1>9, <1>10, <2>1, PoppedTypes
<1>19. IterOK'
  <2>1. \A s \in iter'.left : /\ s \in DOMAIN subs' /\ subs'[s].emitter = iter'.emitter
                              /\ subs'[s].kind = iter'.kind /\ subs'[s].where = "taken"
    BY <1>6, <1>8, <1>10 DEF SubsAlike
  <2> QED
    BY <1>3, <2>1 DEF IterOK
<1>20. SubsOK'
  <2>1. Cycle!NoSubscriberLost'
    BY <1>1, <1>3, <1>8 DEF EffectsInv, SubsOK, Cycle!NoSubscriberLost, Cycle!Gone, SubsAlike
  <2> QED
    BY <1>1, <1>8, <2>1 DEF EffectsInv, SubsOK, SubsAlike
<1>21. HandlesOK'
  <2>1. \A e \in Entities : OnStack(e) = 0 /\ OnStack(e)' = 0
    BY <1>3 DEF OnStack
  <2>2. \A e \in Entities : ~Queued(1, "created", e)
    BY <1>1, PoppedEffects
  <2>3. \A e \in Entities : InQueue(e) \in 0..1 /\ InQueue(e)' \in 0..1
    BY DEF InQueue
  <2>4. \A e \in Entities : InQueue(e)' = InQueue(e)
    BY <1>1, <2>2, <2>3, PoppedHandles
  <2> QED
    BY <1>1, <2>1, <2>4, PoppedHandles DEF EffectsInv, HandlesOK
<1>22. DroppedOK'
  BY <1>1 DEF EffectsInv, DroppedOK
<1>23. Cycle!FlushedWhenOutside'
  BY <1>3 DEF Cycle!FlushedWhenOutside
<1> QED
  BY <1>12, <1>13, <1>14, <1>15, <1>16, <1>17, <1>18, <1>19, <1>20, <1>21, <1>22, <1>23
     DEF EffectsInv

\* A deferred closure or a new entity is applied.
LEMMA CalledStep ==
    ASSUME EffectsInv, Cycle!ApplyDefer \/ Cycle!ApplyCreated
    PROVE  EffectsInv'
<1> DEFINE eff == Head(pending_effects)
<1>1. PICK kind \in {"defer", "created"} :
          /\ Cycle!Ready(kind)
          /\ UNCHANGED <<pending_notifications, handles, slot, dropped_entity_ids, batch, subs,
                         calls, got, applied>>
          /\ \/ kind = "defer" /\ phase' = "deferred" /\ UNCHANGED iter
             \/ /\ kind = "created" /\ phase' \in {"created", "panicked"}
                /\ iter' = [Cycle!NoIter EXCEPT !.emitter = eff.emitter]
  <2>1. CASE Cycle!ApplyDefer
    BY <2>1 DEF Cycle!ApplyDefer
  <2>2. CASE Cycle!ApplyCreated
    BY <2>2 DEF Cycle!ApplyCreated
  <2> QED
    BY <2>1, <2>2
<1>2. phase = "flush" /\ ~Iterating'
  BY <1>1, Popped DEF Iterating
<1>3. /\ eff = pending_effects[1] /\ 1 \in Queue /\ eff.kind = kind
      /\ kind = "created" => eff.emitter \in Entities
  <2>1. eff = pending_effects[1] /\ 1 \in Queue /\ eff.kind = kind
    BY <1>1, Popped
  <2> QED
    BY <2>1 DEF EffectsInv, EffectsOK
<1> HIDE DEF eff
<1>4. SubsAlike
  BY <1>1, SubsRest
<1>5. /\ EffectsOK'
      /\ \A s \in Cycle!SubIds : s \notin DOMAIN subs' => got'[s] = <<>>
      /\ Cycle!HeardInOrder'
      /\ \A s \in DOMAIN subs' : \A i \in 1..Len(got'[s]) :
             /\ got'[s][i] < calls'
             /\ \A j \in Queue' : Stamped(j)' => got'[s][i] < pending_effects'[j].n
  BY <1>1, <1>4, PoppedOK
<1>6. NotifyOK'
  <2>1. pending_notifications' = pending_notifications \ {}
    BY <1>1
  <2> QED
    BY <1>1, <2>1, PoppedNotify
<1>7. ActivationOK'
  BY <1>1, <1>4, PoppedActivation
<1>8. StampOK' /\ GotOK'
  BY <1>2, <1>5 DEF StampOK, GotOK
<1>9. AppliedOK'
  <2>1. Cycle!NoneMissed'
    BY <1>1 DEF EffectsInv, AppliedOK, Cycle!NoneMissed
  <2> QED
    BY <1>1, <1>2, <2>1 DEF EffectsInv, AppliedOK
<1>10. iter' \in IterSet /\ (kind = "created" => iter'.emitter = eff.emitter)
  <2>1. CASE kind = "defer"
    BY <1>1, <2>1 DEF EffectsInv, EffectTypes
  <2>2. CASE kind = "created"
    <3>1. iter' = [kind |-> "", emitter |-> eff.emitter, stamp |-> 0, left |-> {}, sub |-> 0]
      BY <1>1, <2>2 DEF Cycle!NoIter
    <3>2. eff.emitter \in Entities
      BY <1>3, <2>2
    <3> QED
      BY <3>1, <3>2 DEF IterSet
  <2> QED
    BY <2>1, <2>2
<1>11. EffectTypes'
  <2>1. pending_notifications' \subseteq Entities /\ subs' \in Seq(SubSet) /\ Len(subs') = Len(subs)
    BY <1>1 DEF EffectsInv, EffectTypes, Cycle!TypeOK
  <2>2. phase' \in {"flush", "retain", "deferred", "created", "panicked"}
    BY <1>1
  <2> QED
    BY <1>1, <1>10, <2>1, <2>2, PoppedTypes
<1>12. IterOK'
  BY <1>1, <1>2, <1>3, <1>10 DEF IterOK
<1>13. SubsOK'
  BY <1>1, <1>2 DEF EffectsInv, SubsOK, Cycle!NoSubscriberLost, Cycle!Gone
<1>14. HandlesOK'
  <2>1. \A e \in Entities : OnStack(e) = 0
    BY <1>2 DEF OnStack
  <2>2. \A e \in Entities : OnStack(e)' \in 0..1 /\ (OnStack(e)' = 1 => Queued(1, "created", e))
    <3> SUFFICES ASSUME NEW e \in Entities
                 PROVE  OnStack(e)' \in 0..1 /\ (OnStack(e)' = 1 => Queued(1, "created", e))
      OBVIOUS
    <3>1. CASE phase' = "created"
      <4>0. kind = "created"
        BY <1>1, <3>1
      <4>1. OnStack(e)' = Cycle!Two(eff.emitter, None)[e]
        BY <1>10, <3>1, <4>0 DEF OnStack, Cycle!Two
      <4>2. OnStack(e)' = IF e = eff.emitter THEN 1 ELSE 0
        BY <4>1, TwoIs, EffectsConstants
      <4> QED
        BY <1>1, <1>3, <4>0, <4>2, PoppedEffects
    <3>2. CASE phase' # "created"
      BY <1>1, <3>2 DEF OnStack
    <3> QED
      BY <3>1, <3>2
  <2>3. \A e \in Entities : /\ InQueue(e) \in 0..1 /\ InQueue(e)' \in 0..1
                            /\ InQueue(e) = InQueue(e)' + (IF Queued(1, "created", e) THEN 1 ELSE 0)
                            /\ handles[e] >= InQueue(e) + OnStack(e) /\ handles[e] \in Nat
    <3>1. \A e \in Entities : InQueue(e) \in 0..1 /\ InQueue(e)' \in 0..1
      BY DEF InQueue
    <3>2. \A e \in Entities : handles[e] >= InQueue(e) + OnStack(e) /\ handles[e] \in Nat
      BY DEF EffectsInv, HandlesOK, EffectTypes, Cycle!TypeOK
    <3> QED
      BY <1>1, <3>1, <3>2, PoppedHandles
  <2>4. \A e \in Entities : handles[e] >= InQueue(e)' + OnStack(e)'
    BY <2>1, <2>2, <2>3
  <2> QED
    BY <1>1, <2>4, PoppedHandles DEF EffectsInv, HandlesOK
<1>15. DroppedOK'
  BY <1>1 DEF EffectsInv, DroppedOK
<1>16. Cycle!FlushedWhenOutside'
  BY <1>1 DEF Cycle!FlushedWhenOutside
<1> QED
  BY <1>5, <1>6, <1>7, <1>8, <1>9, <1>11, <1>12, <1>13, <1>14, <1>15, <1>16 DEF EffectsInv

\* A subscription is activated: what is queued behind was raised after it, and it hears that.
LEMMA ActivateStep == ASSUME EffectsInv, Cycle!ApplyActivate PROVE EffectsInv'
<1> DEFINE t == Head(pending_effects).n
<1>1. /\ Cycle!Ready("activate")
      /\ subs' = [subs EXCEPT ![t].active = TRUE]
      /\ UNCHANGED <<phase, pending_notifications, handles, slot, dropped_entity_ids, batch, iter,
                     calls, got, applied>>
  BY DEF Cycle!ApplyActivate
<1>2. phase = "flush" /\ ~Iterating' /\ ~Iterating
  BY <1>1, Popped DEF Iterating
<1>3. /\ 1 \in Queue /\ t = pending_effects[1].n /\ t \in DOMAIN subs
      /\ \A s : Activates(1, s) <=> s = t
  <2>1. 1 \in Queue /\ t = pending_effects[1].n /\ pending_effects[1].kind = "activate"
    BY <1>1, Popped
  <2>2. \A s : Activates(1, s) <=> s = t
    BY <1>1, <2>1, PoppedEffects
  <2> QED
    BY <2>1, <2>2 DEF EffectsInv, ActivationOK
<1> HIDE DEF t
<1>4. \A s \in DOMAIN subs : subs[s] \in SubSet
  BY SubsFacts DEF EffectsInv
<1>5. /\ DOMAIN subs' = DOMAIN subs
      /\ \A s \in DOMAIN subs :
            /\ subs'[s] \in SubSet
            /\ subs'[s].kind = subs[s].kind /\ subs'[s].emitter = subs[s].emitter
            /\ subs'[s].owner = subs[s].owner /\ subs'[s].since = subs[s].since
            /\ subs'[s].dropped = subs[s].dropped /\ subs'[s].where = subs[s].where
            /\ subs'[s].active <=> subs[s].active \/ s = t
  BY <1>1, <1>3, <1>4 DEF SubSet
<1>6. subs' \in Seq(SubSet) /\ Len(subs') = Len(subs)
  <2>1. Len(subs) \in Nat /\ DOMAIN subs = 1..Len(subs)
    BY SubsFacts DEF EffectsInv
  <2>2. subs' \in [1..Len(subs) -> SubSet]
    BY <1>1, <1>5, <2>1
  <2> QED
    BY <2>1, <2>2, FunctionIsSeq
<1>7. /\ \A i \in Queue' : /\ i \in Nat /\ i + 1 \in Queue /\ i + 1 > 1
                           /\ pending_effects'[i] = pending_effects[i + 1]
                           /\ Stamped(i)' <=> Stamped(i + 1)
                           /\ \A s : Activates(i, s)' <=> Activates(i + 1, s)
      /\ \A i \in Queue : i # 1 => i \in Nat /\ i - 1 \in Queue' /\ (i - 1) + 1 = i
  BY <1>1, Popped, PoppedEffects
<1>8. EffectsOK'
  <2>1. \A i \in Queue' :
            /\ pending_effects'[i].kind \in {"notify", "emit", "created"} =>
                  pending_effects'[i].emitter \in Entities
            /\ Stamped(i)' => pending_effects'[i].n < calls'
    BY <1>1, <1>7 DEF EffectsInv, EffectsOK
  <2>2. ASSUME NEW i \in Queue', NEW j \in Queue', Stamped(i)', Stamped(j)', i < j
        PROVE  pending_effects'[i].n < pending_effects'[j].n
    <3>1. i + 1 < j + 1 /\ Stamped(i + 1) /\ Stamped(j + 1)
      BY <1>7, <2>2
    <3> QED
      BY <1>7, <3>1 DEF EffectsInv, EffectsOK
  <2> QED
    BY <2>1, <2>2 DEF EffectsOK
<1>9. NotifyOK'
  <2>1. pending_notifications' = pending_notifications \ {}
    BY <1>1
  <2> QED
    BY <1>1, <2>1, PoppedNotify
<1>10. ActivationOK'
  <2>1. \A i \in Queue' : pending_effects'[i].kind = "activate" =>
            pending_effects'[i].n \in DOMAIN subs'
    BY <1>5, <1>7 DEF EffectsInv, ActivationOK
  <2>2. ASSUME NEW s \in DOMAIN subs, s # t, NEW k \in Queue, Activates(k, s)
        PROVE  k - 1 \in Queue' /\ Activates(k - 1, s)' /\ k \in Nat
    <3>1. k # 1
      BY <1>3, <2>2
    <3>2. k \in Nat /\ k - 1 \in Queue' /\ (k - 1) + 1 = k
      BY <1>7, <3>1
    <3> QED
      BY <1>7, <2>2, <3>2
  <2>3. ASSUME NEW s \in DOMAIN subs'
        PROVE  /\ subs'[s].since < calls'
               /\ ~subs'[s].active => \E k \in Queue' : Activates(k, s)'
    <3>1. subs[s].since < calls /\ (~subs[s].active => \E k \in Queue : Activates(k, s))
      BY <1>5 DEF EffectsInv, ActivationOK
    <3> QED
      BY <1>1, <1>5, <2>2, <3>1
  <2>4. ASSUME NEW s \in DOMAIN subs', subs'[s].kind # "release", NEW i \in Queue', Stamped(i)'
        PROVE  /\ pending_effects'[i].n # subs'[s].since
               /\ pending_effects'[i].n > subs'[s].since <=>
                      subs'[s].active \/ \E k \in Queue' : k < i /\ Activates(k, s)'
    <3>1. s \in DOMAIN subs /\ subs[s].kind # "release" /\ subs'[s].since = subs[s].since
      BY <1>5, <2>4
    <3>2. /\ i \in Nat /\ i + 1 \in Queue /\ Stamped(i + 1)
          /\ pending_effects'[i] = pending_effects[i + 1]
      BY <1>7, <2>4
    <3>3. /\ pending_effects[i + 1].n # subs[s].since
          /\ pending_effects[i + 1].n > subs[s].since <=>
                 subs[s].active \/ \E k \in Queue : k < i + 1 /\ Activates(k, s)
      BY <3>1, <3>2 DEF EffectsInv, ActivationOK
    <3>4. ASSUME NEW k \in Queue', k < i, Activates(k, s)'
          PROVE  \E l \in Queue : l < i + 1 /\ Activates(l, s)
      <4>1. k + 1 \in Queue /\ Activates(k + 1, s) /\ k \in Nat
        BY <1>7, <3>4
      <4>2. k + 1 < i + 1
        BY <3>2, <3>4, <4>1
      <4> QED
        BY <4>1, <4>2
    <3>5. CASE s = t
      <4>1. 1 < i + 1 /\ Activates(1, s)
        BY <1>3, <1>7, <3>5
      <4>2. \E k \in Queue : k < i + 1 /\ Activates(k, s)
        BY <1>3, <4>1
      <4>3. subs'[s].active
        BY <1>5, <3>1, <3>5
      <4> QED
        BY <3>1, <3>2, <3>3, <4>2, <4>3
    <3>6. CASE s # t
      <4>1. ASSUME NEW k \in Queue, k < i + 1, Activates(k, s)
            PROVE  \E l \in Queue' : l < i /\ Activates(l, s)'
        <5>1. k - 1 \in Queue' /\ Activates(k - 1, s)' /\ k \in Nat
          BY <2>2, <3>1, <3>6, <4>1
        <5>2. k - 1 < i
          BY <3>2, <4>1, <5>1
        <5> QED
          BY <5>1, <5>2
      <4>2. subs'[s].active <=> subs[s].active
        BY <1>5, <3>1, <3>6
      <4> QED
        BY <3>1, <3>2, <3>3, <3>4, <4>1, <4>2
    <3> QED
      BY <3>5, <3>6
  <2> QED
    BY <2>1, <2>3, <2>4 DEF ActivationOK
<1>11. StampOK'
  BY <1>2 DEF StampOK
<1>12. GotOK'
  <2>1. Cycle!HeardInOrder'
    BY <1>1, <1>5 DEF EffectsInv, GotOK, Cycle!HeardInOrder
  <2>2. ASSUME NEW s \in DOMAIN subs, NEW i \in 1..Len(got[s])
        PROVE  /\ got[s][i] < calls
               /\ \A j \in Queue' : Stamped(j)' => got[s][i] < pending_effects'[j].n
    <3>1. /\ got[s][i] < calls
          /\ \A j \in Queue : Stamped(j) => got[s][i] < pending_effects[j].n
      BY DEF EffectsInv, GotOK
    <3> QED
      BY <1>7, <3>1
  <2>3. \A s \in Cycle!SubIds : s \notin DOMAIN subs => got[s] = <<>>
    BY DEF EffectsInv, GotOK
  <2> QED
    BY <1>1, <1>2, <1>5, <2>1, <2>2, <2>3 DEF GotOK
<1>13. AppliedOK'
  <2>1. Cycle!NoneMissed'
    BY <1>1, <1>5 DEF EffectsInv, AppliedOK, Cycle!NoneMissed
  <2> QED
    BY <1>1, <1>2, <2>1 DEF EffectsInv, AppliedOK
<1>14. EffectTypes'
  <2>1. pending_notifications' \subseteq Entities /\ iter' \in IterSet
    BY <1>1 DEF EffectsInv, EffectTypes, Cycle!TypeOK
  <2> QED
    BY <1>1, <1>2, <1>6, <2>1, PoppedTypes
<1>15. IterOK'
  BY <1>1, <1>2 DEF IterOK
<1>16. SubsOK'
  <2>1. Cycle!NoSubscriberLost'
    BY <1>1, <1>5 DEF EffectsInv, SubsOK, Cycle!NoSubscriberLost, Cycle!Gone
  <2> QED
    BY <1>1, <1>5, <2>1 DEF EffectsInv, SubsOK
<1>17. HandlesOK'
  <2>1. \A e \in Entities : OnStack(e) = 0 /\ OnStack(e)' = 0
    BY <1>1, <1>2 DEF OnStack
  <2>2. \A e \in Entities : ~Queued(1, "created", e)
    BY <1>1, PoppedEffects
  <2>3. \A e \in Entities : InQueue(e) \in 0..1 /\ InQueue(e)' \in 0..1
    BY DEF InQueue
  <2>4. \A e \in Entities : InQueue(e)' = InQueue(e)
    BY <1>1, <2>2, <2>3, PoppedHandles
  <2> QED
    BY <1>1, <2>1, <2>4, PoppedHandles DEF EffectsInv, HandlesOK
<1>18. DroppedOK'
  BY <1>1 DEF EffectsInv, DroppedOK
<1>19. Cycle!FlushedWhenOutside'
  BY <1>1, <1>2 DEF Cycle!FlushedWhenOutside
<1> QED
  BY <1>8, <1>9, <1>10, <1>11, <1>12, <1>13, <1>14, <1>15, <1>16, <1>17, <1>18, <1>19
     DEF EffectsInv

-----------------------------------------------------------------------------
(* Subscribers are called                                                  *)

\* The next subscriber is skipped, removed or called; a call is of one that is active and not
\* dropped.
LEMMA RetainNextStep ==
    ASSUME EffectsInv, Cycle!RetainNext
    PROVE  EffectsInv' /\ Cycle!NotCalledAfterDrop
<1>1. PICK s : s = Cycle!First(iter.left)
  OBVIOUS
<1>2. /\ phase = "retain" /\ iter.left # {}
      /\ iter' = [iter EXCEPT !.left = @ \ {s}, !.sub = s]
      /\ IF ~subs[s].active \/ subs[s].dropped THEN Cycle!Skip(s) ELSE Cycle!Invoke(s)
      /\ UNCHANGED <<pending_effects, pending_notifications, slot, dropped_entity_ids, batch,
                     calls, applied>>
  BY <1>1 DEF Cycle!RetainNext
<1>3. Iterating
  BY <1>2 DEF Iterating
<1>4. s \in iter.left /\ iter \in IterSet
  BY <1>1, <1>2, FirstIsIn DEF EffectsInv, EffectTypes, IterSet
<1>5. /\ s \in DOMAIN subs /\ s \in Nat /\ s \in Cycle!SubIds /\ subs[s] \in SubSet
      /\ subs[s].kind = iter.kind /\ subs[s].emitter = iter.emitter /\ subs[s].where = "taken"
      /\ \A t \in DOMAIN subs : subs[t] \in SubSet
  BY <1>2, <1>3, <1>4, SubsFacts DEF EffectsInv, IterOK
<1>6. /\ iter' \in IterSet
      /\ iter'.kind = iter.kind /\ iter'.emitter = iter.emitter /\ iter'.stamp = iter.stamp
      /\ iter'.left = iter.left \ {s} /\ iter'.sub = s
  BY <1>2, <1>4, <1>5 DEF IterSet
<1>7. /\ iter.kind \in {"observer", "listener"} /\ iter.emitter \in Entities
      /\ iter.stamp < calls /\ iter.stamp \in Nat
      /\ iter.stamp > subs[s].since <=> subs[s].active
  BY <1>3, <1>5, CountedOK DEF EffectsInv, StampOK
<1>8. PICK o \in Entities \cup {None} : o = subs[s].owner
  BY <1>5 DEF SubSet
<1>9. PICK runs \in BOOLEAN :
          runs <=> /\ subs[s].active /\ ~subs[s].dropped
                   /\ handles[subs[s].emitter] > 0 /\ (o # None => handles[o] > 0)
  OBVIOUS
<1>10. CASE runs
  <2>1. /\ phase' = "callback" /\ UNCHANGED subs
        /\ handles' = [x \in Entities |-> handles[x] + Cycle!Two(iter.emitter, o)[x]]
        /\ got' = [got EXCEPT ![s] = Append(@, iter.stamp)]
    BY <1>2, <1>5, <1>8, <1>9, <1>10 DEF Cycle!Invoke
  <2>2. SubsAlike /\ Iterating'
    BY <2>1, SubsRest DEF Iterating
  <2>3. EffectsOK' /\ NotifyOK' /\ ActivationOK'
    BY <1>2, <2>2, QueueRests
  <2>4. Queue' = Queue /\ \A i : Stamped(i)' <=> Stamped(i)
    BY <1>2 DEF Queue, Stamped
  <2>5. StampOK'
    BY <1>2, <1>3, <1>6, <2>1, <2>4 DEF EffectsInv, StampOK
  <2>6. /\ got \in [Cycle!SubIds -> Seq(Nat)] /\ got[s] \in Seq(Nat) /\ Len(got[s]) \in Nat
    BY <1>5 DEF EffectsInv, EffectTypes
  <2>7. /\ got' \in [Cycle!SubIds -> Seq(Nat)]
        /\ \A t \in Cycle!SubIds : t # s => got'[t] = got[t]
        /\ got'[s] = Append(got[s], iter.stamp)
    BY <1>5, <1>7, <2>1, <2>6
  <2>8. /\ Len(got'[s]) = Len(got[s]) + 1
        /\ \A i \in 1..Len(got[s]) : got'[s][i] = got[s][i]
        /\ got'[s][Len(got[s]) + 1] = iter.stamp
        /\ DOMAIN got'[s] = 1..(Len(got[s]) + 1) /\ DOMAIN got[s] = 1..Len(got[s])
    BY <1>7, <2>6, <2>7
  <2>9. ASSUME NEW i \in 1..Len(got[s])
        PROVE  /\ got[s][i] < iter.stamp /\ got[s][i] \in Nat
    BY <1>3, <1>4, <1>5, CountedOK DEF EffectsInv, GotOK
  <2>10. \A t \in DOMAIN subs : t \in Cycle!SubIds
    BY SubsFacts DEF EffectsInv
  <2>11. Cycle!HeardInOrder'
    <3>1. ASSUME NEW t \in DOMAIN subs, t # s
          PROVE  /\ \A i \in DOMAIN got'[t] : got'[t][i] > subs[t].since
                 /\ \A i, j \in DOMAIN got'[t] : i < j => got'[t][i] < got'[t][j]
      BY <2>7, <2>10, <3>1 DEF EffectsInv, GotOK, Cycle!HeardInOrder
    <3>2. ASSUME NEW i \in DOMAIN got'[s]
          PROVE  got'[s][i] > subs[s].since
      <4>1. CASE i = Len(got[s]) + 1
        BY <1>7, <1>9, <1>10, <2>8, <4>1
      <4>2. CASE i \in 1..Len(got[s])
        BY <1>5, <2>8, <4>2 DEF EffectsInv, GotOK, Cycle!HeardInOrder
      <4> QED
        BY <2>6, <2>8, <3>2, <4>1, <4>2
    <3>3. ASSUME NEW i \in DOMAIN got'[s], NEW j \in DOMAIN got'[s], i < j
          PROVE  got'[s][i] < got'[s][j]
      <4>0. i \in 1..Len(got[s])
        BY <2>6, <2>8, <3>3
      <4>1. CASE j = Len(got[s]) + 1
        BY <2>8, <2>9, <4>0, <4>1
      <4>2. CASE j \in 1..Len(got[s])
        BY <1>5, <2>8, <3>3, <4>0, <4>2 DEF EffectsInv, GotOK, Cycle!HeardInOrder
      <4> QED
        BY <2>6, <2>8, <3>3, <4>1, <4>2
    <3> QED
      BY <2>1, <3>1, <3>2, <3>3 DEF Cycle!HeardInOrder
  <2>12. GotOK'
    <3>1. \A t \in Cycle!SubIds : t \notin DOMAIN subs => got'[t] = <<>>
      BY <1>5, <2>7 DEF EffectsInv, GotOK
    <3>2. ASSUME NEW t \in DOMAIN subs, NEW i \in 1..Len(got'[t])
          PROVE  /\ got'[t][i] < calls
                 /\ \A j \in Queue : Stamped(j) => got'[t][i] < pending_effects[j].n
                 /\ got'[t][i] <= iter.stamp
                 /\ t \in iter'.left => got'[t][i] < iter.stamp
      <4>1. CASE t = s /\ i = Len(got[s]) + 1
        <5>1. got'[t][i] = iter.stamp
          BY <2>8, <4>1
        <5>2. \A j \in Queue : Stamped(j) => iter.stamp < pending_effects[j].n
          BY <1>3 DEF EffectsInv, StampOK
        <5>3. t \notin iter'.left
          BY <1>6, <4>1
        <5> QED
          BY <1>7, <5>1, <5>2, <5>3
      <4>2. CASE t # s \/ i \in 1..Len(got[s])
        <5>1. i \in 1..Len(got[t]) /\ got'[t][i] = got[t][i]
          <6>1. CASE t # s
            BY <2>7, <2>10, <6>1
          <6>2. CASE t = s
            BY <2>8, <4>2, <6>2
          <6> QED
            BY <6>1, <6>2
        <5>2. t \in iter'.left => t \in iter.left
          BY <1>6
        <5> QED
          BY <1>3, <5>1, <5>2 DEF EffectsInv, GotOK
      <4> QED
        BY <2>6, <2>8, <4>1, <4>2
    <3> QED
      BY <1>2, <1>6, <2>1, <2>4, <2>11, <3>1, <3>2 DEF GotOK
  <2>13. \A t \in DOMAIN subs : \A n : Heard(t, n) => Heard(t, n)'
    <3> SUFFICES ASSUME NEW t \in DOMAIN subs, NEW n, NEW i \in 1..Len(got[t]), got[t][i] = n
                 PROVE  \E j \in 1..Len(got'[t]) : got'[t][j] = n
      BY DEF Heard
    <3>1. CASE t = s
      <4>1. i \in 1..Len(got'[t]) /\ got'[t][i] = n
        BY <2>6, <2>8, <3>1
      <4> QED
        BY <4>1
    <3>2. CASE t # s
      BY <2>7, <2>10, <3>2
    <3> QED
      BY <3>1, <3>2
  <2>14. Heard(s, iter.stamp)'
    <3>1. Len(got[s]) + 1 \in 1..Len(got'[s]) /\ got'[s][Len(got[s]) + 1] = iter'.stamp
      BY <1>6, <2>6, <2>8
    <3> QED
      BY <3>1 DEF Heard
  <2>15. AppliedOK'
    <3>1. \A t \in DOMAIN subs : DOMAIN got[t] = 1..Len(got[t]) /\ DOMAIN got'[t] = 1..Len(got'[t])
      BY <2>6, <2>7, <2>10
    <3>2. Cycle!NoneMissed'
      <4> SUFFICES ASSUME NEW t \in DOMAIN subs, NEW a \in applied,
                          a.kind = subs[t].kind, a.emitter = subs[t].emitter, a.n > subs[t].since,
                          subs[t].where # "gone", ~subs[t].dropped
                   PROVE  \E i \in DOMAIN got'[t] : got'[t][i] = a.n
        BY <1>2, <2>1 DEF Cycle!NoneMissed
      <4>1. \E i \in DOMAIN got[t] : got[t][i] = a.n
        BY DEF EffectsInv, AppliedOK, Cycle!NoneMissed
      <4>2. Heard(t, a.n)
        BY <3>1, <4>1 DEF Heard
      <4>3. Heard(t, a.n)'
        BY <2>13, <4>2
      <4> QED
        BY <1>2, <3>1, <4>3 DEF Heard
    <3>3. ASSUME NEW t \in DOMAIN subs, subs[t].kind = iter.kind, subs[t].emitter = iter.emitter,
                 iter.stamp > subs[t].since, subs[t].where # "gone", ~subs[t].dropped
          PROVE  t \in iter'.left \/ Heard(t, iter.stamp)'
      <4>1. t \in iter.left \/ Heard(t, iter.stamp)
        BY <1>3, <3>3 DEF EffectsInv, AppliedOK
      <4>2. CASE t = s
        BY <2>14, <4>2
      <4>3. CASE t # s
        BY <1>6, <2>13, <4>1, <4>3
      <4> QED
        BY <4>2, <4>3
    <3> QED
      BY <1>2, <1>6, <2>1, <3>2, <3>3 DEF EffectsInv, AppliedOK
  <2>16. \A x \in Entities : /\ handles[x] \in Nat /\ Cycle!Two(iter.emitter, o)[x] \in 0..2
                             /\ handles'[x] = handles[x] + Cycle!Two(iter.emitter, o)[x]
                             /\ Cycle!Two(iter.emitter, o)[x] > 0 => handles[x] > 0
    <3>1. handles \in [Entities -> Nat]
      BY DEF EffectsInv, EffectTypes, Cycle!TypeOK
    <3>2. handles[iter.emitter] > 0 /\ (o # None => handles[o] > 0)
      BY <1>5, <1>9, <1>10
    <3>3. \A x \in Entities : /\ Cycle!Two(iter.emitter, o)[x] \in 0..2
                              /\ Cycle!Two(iter.emitter, o)[x] > 0 => x = iter.emitter \/ x = o
      BY TwoIs
    <3> QED
      BY <2>1, <3>1, <3>2, <3>3, EffectsConstants
  <2>17. EffectTypes'
    <3>1. handles' \in [Entities -> Nat]
      BY <2>1, <2>16
    <3> QED
      BY <1>2, <1>6, <2>1, <2>7, <3>1 DEF EffectsInv, EffectTypes, Cycle!TypeOK
  <2>18. IterOK'
    BY <1>2, <1>3, <1>5, <1>6, <2>1 DEF EffectsInv, IterOK
  <2>19. SubsOK'
    BY <1>2, <2>1 DEF EffectsInv, SubsOK, Cycle!NoSubscriberLost, Cycle!Gone
  <2>20. HandlesOK'
    <3>1. \A x \in Entities : OnStack(x) = 0 /\ OnStack(x)' = Cycle!Two(iter.emitter, o)[x]
      BY <1>2, <1>6, <1>8, <2>1 DEF OnStack, Cycle!Two
    <3>2. \A x \in Entities : /\ InQueue(x) \in 0..1 /\ handles[x] >= InQueue(x) + OnStack(x)
                              /\ handles[x] > 0 <=> slot[x] = "live"
      BY HeldInRange DEF EffectsInv, HandlesOK
    <3>3. \A x \in Entities : /\ handles'[x] >= InQueue(x) + OnStack(x)'
                              /\ handles'[x] > 0 <=> slot[x] = "live"
      BY <2>16, <3>1, <3>2
    <3> QED
      BY <1>2, <3>3, QueueHolds DEF EffectsInv, HandlesOK
  <2>21. DroppedOK' /\ Cycle!FlushedWhenOutside'
    BY <1>2, <2>1 DEF EffectsInv, DroppedOK, Cycle!FlushedWhenOutside
  <2>22. Cycle!NotCalledAfterDrop
    BY <1>6, <1>9, <1>10 DEF Cycle!NotCalledAfterDrop
  <2> QED
    BY <2>3, <2>5, <2>12, <2>15, <2>17, <2>18, <2>19, <2>20, <2>21, <2>22 DEF EffectsInv
<1>11. CASE ~runs
  <2>1. /\ phase' = phase /\ UNCHANGED <<handles, got>>
        /\ \/ subs' = [subs EXCEPT ![s].where = "taken"] /\ ~subs[s].active
           \/ /\ subs' = [subs EXCEPT ![s].where = "gone"]
              /\ \/ subs[s].dropped
                 \/ ~(handles[subs[s].emitter] > 0 /\ (o # None => handles[o] > 0))
    <3>1. CASE ~subs[s].active \/ subs[s].dropped
      BY <1>2, <3>1 DEF Cycle!Skip
    <3>2. CASE ~(~subs[s].active \/ subs[s].dropped)
      BY <1>2, <1>8, <1>9, <1>11, <3>2 DEF Cycle!Invoke
    <3> QED
      BY <3>1, <3>2
  <2>2. /\ SubsAlike
        /\ \A t \in DOMAIN subs : /\ subs'[t] \in SubSet
                                  /\ subs'[t].dropped = subs[t].dropped
                                  /\ t # s => subs'[t].where = subs[t].where
        /\ \/ subs'[s].where = "taken" /\ ~subs[s].active
           \/ /\ subs'[s].where = "gone"
              /\ \/ subs[s].dropped
                 \/ ~(handles[subs[s].emitter] > 0 /\ (o # None => handles[o] > 0))
    BY <1>5, <2>1 DEF SubsAlike, SubSet
  <2>3. subs' \in Seq(SubSet) /\ Len(subs') = Len(subs)
    BY <2>1, <2>2, SubsTyped DEF EffectsInv
  <2>4. EffectsOK' /\ NotifyOK' /\ ActivationOK'
    BY <1>2, <2>2, QueueRests
  <2>5. Queue' = Queue /\ \A i : Stamped(i)' <=> Stamped(i)
    BY <1>2 DEF Queue, Stamped
  <2>6. StampOK'
    BY <1>2, <1>3, <1>6, <2>2, <2>5 DEF EffectsInv, StampOK, SubsAlike
  <2>7. GotOK'
    <3>1. Cycle!HeardInOrder'
      BY <2>1, <2>2 DEF EffectsInv, GotOK, Cycle!HeardInOrder, SubsAlike
    <3>2. \A t \in iter'.left : t \in iter.left
      BY <1>6
    <3> QED
      BY <1>2, <1>3, <1>6, <2>1, <2>2, <2>5, <3>1, <3>2 DEF EffectsInv, GotOK, SubsAlike
  <2>8. AppliedOK'
    <3>1. Cycle!NoneMissed'
      BY <1>2, <2>1, <2>2 DEF EffectsInv, AppliedOK, Cycle!NoneMissed, SubsAlike
    <3>2. ASSUME NEW t \in DOMAIN subs, subs[t].kind = iter.kind, subs[t].emitter = iter.emitter,
                 iter.stamp > subs[t].since, subs'[t].where # "gone", ~subs[t].dropped
          PROVE  t \in iter'.left \/ Heard(t, iter.stamp)
      <4>1. subs[t].where # "gone"
        BY <2>2, <3>2 DEF SubsAlike
      <4>2. t \in iter.left \/ Heard(t, iter.stamp)
        BY <1>3, <3>2, <4>1 DEF EffectsInv, AppliedOK
      <4>3. t # s
        <5>1. CASE t = s
          <6>1. subs[s].active
            BY <1>7, <3>2, <5>1
          <6>2. subs'[s].where = "gone"
            BY <2>2, <6>1
          <6> QED
            BY <3>2, <5>1, <6>2
        <5> QED
          BY <5>1
      <4> QED
        BY <1>6, <4>2, <4>3
    <3> QED
      BY <1>2, <1>6, <2>1, <2>2, <3>1, <3>2 DEF EffectsInv, AppliedOK, Heard, SubsAlike
  <2>9. EffectTypes'
    BY <1>2, <1>6, <2>1, <2>2, <2>3 DEF EffectsInv, EffectTypes, Cycle!TypeOK, SubSet, SubsAlike
  <2>10. IterOK'
    <3>1. \A t \in iter'.left : /\ t \in DOMAIN subs /\ subs[t].where = "taken" /\ t # s
                                /\ subs[t].kind = iter.kind /\ subs[t].emitter = iter.emitter
      BY <1>2, <1>3, <1>6 DEF EffectsInv, IterOK
    <3> QED
      BY <1>2, <1>6, <2>1, <2>2, <3>1 DEF IterOK, SubsAlike
  <2>11. SubsOK'
    <3>1. subs'[s].where = "gone" =>
              \/ subs[s].dropped
              \/ Cycle!Gone(subs[s].emitter)
              \/ subs[s].owner # None /\ Cycle!Gone(subs[s].owner)
      <4> SUFFICES ASSUME subs'[s].where = "gone", ~subs[s].dropped
                   PROVE  \/ Cycle!Gone(subs[s].emitter)
                          \/ subs[s].owner # None /\ Cycle!Gone(subs[s].owner)
        OBVIOUS
      <4>1. ~(handles[subs[s].emitter] > 0 /\ (o # None => handles[o] > 0))
        BY <2>2
      <4>2. /\ slot[subs[s].emitter] # "unused" /\ subs[s].emitter \in Entities
            /\ o # None => slot[o] # "unused" /\ o \in Entities
        BY <1>5, <1>7, <1>8 DEF EffectsInv, SubsOK
      <4>3. \A x \in Entities : slot[x] # "unused" /\ ~(handles[x] > 0) => Cycle!Gone(x)
        BY DEF EffectsInv, HandlesOK, EffectTypes, Cycle!TypeOK, Cycle!Gone
      <4> QED
        BY <1>8, <4>1, <4>2, <4>3
    <3>2. Cycle!NoSubscriberLost'
      BY <1>2, <2>1, <2>2, <3>1 DEF EffectsInv, SubsOK, Cycle!NoSubscriberLost, Cycle!Gone, SubsAlike
    <3> QED
      BY <1>2, <2>2, <3>2 DEF EffectsInv, SubsOK, SubsAlike
  <2>12. HandlesOK'
    <3>1. \A x \in Entities : OnStack(x) = 0 /\ OnStack(x)' = 0
      BY <1>2, <2>1 DEF OnStack
    <3> QED
      BY <1>2, <2>1, <3>1, QueueHolds DEF EffectsInv, HandlesOK
  <2>13. DroppedOK' /\ Cycle!FlushedWhenOutside'
    BY <1>2, <2>1 DEF EffectsInv, DroppedOK, Cycle!FlushedWhenOutside
  <2>14. Cycle!NotCalledAfterDrop
    BY <1>2, <2>1 DEF Cycle!NotCalledAfterDrop
  <2> QED
    BY <2>4, <2>6, <2>7, <2>8, <2>9, <2>10, <2>11, <2>12, <2>13, <2>14 DEF EffectsInv
<1> QED
  BY <1>10, <1>11

\* All subscribers were called: the effect is applied and those that are left are put back.
LEMMA RetainEndStep == ASSUME EffectsInv, Cycle!RetainEnd PROVE EffectsInv'
<1> DEFINE a == [kind |-> iter.kind, emitter |-> iter.emitter, n |-> iter.stamp]
<1>1. /\ phase = "retain" /\ phase' = "flush" /\ iter.left = {}
      /\ subs' = [s \in DOMAIN subs |->
                    [subs[s] EXCEPT !.where = IF @ = "taken" THEN "map" ELSE @]]
      /\ applied' = applied \cup {a}
      /\ iter' = Cycle!NoIter
      /\ UNCHANGED <<pending_effects, pending_notifications, handles, slot, dropped_entity_ids,
                     batch, calls, got>>
  BY DEF Cycle!RetainEnd
<1>2. Iterating /\ ~Iterating'
  BY <1>1 DEF Iterating
<1>3. /\ iter.kind \in {"observer", "listener"} /\ iter.emitter \in Entities
      /\ iter.stamp < calls /\ iter.stamp \in Nat
  BY <1>2, CountedOK DEF EffectsInv, StampOK
<1>4. /\ a \in [kind : {"observer", "listener"}, emitter : Entities, n : Nat]
      /\ a.kind = iter.kind /\ a.emitter = iter.emitter /\ a.n = iter.stamp
  BY <1>3
<1> HIDE DEF a
<1>5. \A s \in DOMAIN subs : subs[s] \in SubSet
  BY SubsFacts DEF EffectsInv
<1>6. /\ SubsAlike
      /\ \A s \in DOMAIN subs : /\ subs'[s] \in SubSet
                                /\ subs'[s].dropped = subs[s].dropped
                                /\ subs'[s].where # "taken"
                                /\ subs'[s].where = "gone" <=> subs[s].where = "gone"
  BY <1>1, <1>5 DEF SubsAlike, SubSet
<1>7. subs' \in Seq(SubSet) /\ Len(subs') = Len(subs)
  BY <1>1, <1>6, SubsTyped DEF EffectsInv
<1>8. EffectsOK' /\ NotifyOK' /\ ActivationOK'
  BY <1>1, <1>6, QueueRests
<1>9. StampOK'
  BY <1>2 DEF StampOK
<1>10. GotOK'
  <2>1. Cycle!HeardInOrder'
    BY <1>1, <1>6 DEF EffectsInv, GotOK, Cycle!HeardInOrder, SubsAlike
  <2>2. Queue' = Queue /\ \A i : Stamped(i)' <=> Stamped(i)
    BY <1>1 DEF Queue, Stamped
  <2> QED
    BY <1>1, <1>2, <1>6, <2>1, <2>2 DEF EffectsInv, GotOK, SubsAlike
<1>11. AppliedOK'
  <2>1. ASSUME NEW s \in DOMAIN subs, NEW b \in applied', b.kind = subs[s].kind,
               b.emitter = subs[s].emitter, b.n > subs[s].since, subs[s].where # "gone",
               ~subs[s].dropped
        PROVE  \E i \in DOMAIN got[s] : got[s][i] = b.n
    <3>1. CASE b \in applied
      BY <2>1, <3>1 DEF EffectsInv, AppliedOK, Cycle!NoneMissed
    <3>2. CASE b = a
      <4>1. s \in iter.left \/ Heard(s, iter.stamp)
        BY <1>2, <1>4, <2>1, <3>2 DEF EffectsInv, AppliedOK
      <4>2. got[s] \in Seq(Nat)
        BY CountedOK
      <4> QED
        BY <1>1, <1>4, <3>2, <4>1, <4>2 DEF Heard
    <3> QED
      BY <1>1, <2>1, <3>1, <3>2
  <2>2. Cycle!NoneMissed'
    BY <1>1, <1>6, <2>1 DEF Cycle!NoneMissed, SubsAlike
  <2>3. \A b \in applied' : b.n < calls'
    BY <1>1, <1>3, <1>4 DEF EffectsInv, AppliedOK
  <2> QED
    BY <1>2, <2>2, <2>3 DEF AppliedOK
<1>12. EffectTypes'
  <2>1. applied' \subseteq [kind : {"observer", "listener"}, emitter : Entities, n : Nat]
    BY <1>1, <1>4 DEF EffectsInv, EffectTypes
  <2> QED
    BY <1>1, <1>6, <1>7, <2>1, NoIterTyped DEF EffectsInv, EffectTypes, Cycle!TypeOK, SubSet, SubsAlike
<1>13. IterOK'
  BY <1>1, <1>2 DEF IterOK
<1>14. SubsOK'
  <2>1. Cycle!NoSubscriberLost'
    BY <1>1, <1>6 DEF EffectsInv, SubsOK, Cycle!NoSubscriberLost, Cycle!Gone, SubsAlike
  <2>2. DOMAIN subs' = DOMAIN subs /\ slot' = slot
    BY <1>1, <1>6 DEF SubsAlike
  <2>3. ASSUME NEW t \in DOMAIN subs
        PROVE  /\ slot[subs'[t].emitter] # "unused"
               /\ subs'[t].owner # None => slot[subs'[t].owner] # "unused"
    <3>1. subs'[t].emitter = subs[t].emitter /\ subs'[t].owner = subs[t].owner
      BY <1>6 DEF SubsAlike
    <3>2. /\ slot[subs[t].emitter] # "unused"
          /\ subs[t].owner # None => slot[subs[t].owner] # "unused"
      BY DEF EffectsInv, SubsOK
    <3> QED
      BY <3>1, <3>2
  <2> QED
    BY <2>1, <2>2, <2>3 DEF SubsOK
<1>15. HandlesOK'
  <2>1. \A x \in Entities : OnStack(x) = 0 /\ OnStack(x)' = 0
    BY <1>1 DEF OnStack
  <2> QED
    BY <1>1, <2>1, QueueHolds DEF EffectsInv, HandlesOK
<1>16. DroppedOK' /\ Cycle!FlushedWhenOutside'
  BY <1>1 DEF EffectsInv, DroppedOK, Cycle!FlushedWhenOutside
<1> QED
  BY <1>8, <1>9, <1>10, <1>11, <1>12, <1>13, <1>14, <1>15, <1>16 DEF EffectsInv

-----------------------------------------------------------------------------
(* The effect cycle                                                        *)

LEMMA EffectsStep == ASSUME EffectsInv, [Cycle!Next]_effectVars PROVE EffectsInv'
<1>1. CASE UNCHANGED effectVars
  BY <1>1, EffectsRest
<1>2. CASE Cycle!Application
  <2>1. CASE Cycle!BeginUpdate \/ Cycle!RemoveWindow
    BY <2>1, PhaseStep
  <2>2. ASSUME NEW e \in Entities, NEW w \in BOOLEAN, Cycle!New(e, w) PROVE EffectsInv'
    BY <2>2, NewStep
  <2>3. CASE Cycle!Defer \/ \E e \in Entities : Cycle!Notify(e) \/ Cycle!Emit(e)
    BY <2>3, RaiseStep
  <2>4. ASSUME NEW e \in Entities, Cycle!DropHandle(e) PROVE EffectsInv'
    BY <2>4, DropHandleStep
  <2>5. ASSUME NEW e \in Entities, NEW o \in Entities \cup {None},
               NEW kind \in {"observer", "listener"}, Cycle!Subscribe(kind, e, o)
        PROVE  EffectsInv'
    <3>1. /\ kind # "release" /\ Cycle!Inserted(kind, e, o, FALSE)
          /\ pending_effects' =
                 Append(pending_effects, Cycle!Effect("activate", None, Len(subs) + 1, FALSE))
      BY <2>5 DEF Cycle!Subscribe
    <3> QED
      BY <3>1, InsertedStep
  <2>6. ASSUME NEW e \in Entities, NEW o \in Entities \cup {None}, Cycle!ObserveRelease(e, o)
        PROVE  EffectsInv'
    <3>1. Cycle!Inserted("release", e, o, TRUE) /\ UNCHANGED pending_effects
      BY <2>6 DEF Cycle!ObserveRelease
    <3> QED
      BY <3>1, InsertedStep
  <2>7. ASSUME NEW s \in DOMAIN subs, Cycle!Unsubscribe(s) PROVE EffectsInv'
    BY <2>7, UnsubscribeStep
  <2> QED
    BY <1>2, <2>1, <2>2, <2>3, <2>4, <2>5, <2>6, <2>7 DEF Cycle!Application
<1>3. CASE Cycle!Flush
  <2>1. CASE Cycle!FinishUpdate \/ Cycle!ReleaseDrop \/ Cycle!DeferredReturn \/ Cycle!FlushDone
    BY <2>1, PhaseStep
  <2>2. CASE Cycle!TakeDropped
    BY <2>2, TakeDroppedStep
  <2>3. CASE Cycle!ReleaseEntity
    BY <2>3, ReleaseEntityStep
  <2>4. CASE Cycle!CallRelease
    BY <2>4, CallReleaseStep
  <2>5. CASE Cycle!ReleaseNext
    BY <2>5, ReleaseNextStep
  <2>6. CASE Cycle!ReleaseReturn \/ Cycle!CreatedReturn
    BY <2>6, ReturnStep
  <2>7. CASE Cycle!ApplyNotify \/ Cycle!ApplyEmit
    BY <2>7, StartRetainStep
  <2>8. CASE Cycle!ApplyActivate
    BY <2>8, ActivateStep
  <2>9. CASE Cycle!ApplyDefer \/ Cycle!ApplyCreated
    BY <2>9, CalledStep
  <2>10. CASE Cycle!RetainNext
    BY <2>10, RetainNextStep
  <2>11. CASE Cycle!CallbackReturn
    BY <2>11, CallbackReturnStep
  <2>12. CASE Cycle!RetainEnd
    BY <2>12, RetainEndStep
  <2> QED
    BY <1>3, <2>1, <2>2, <2>3, <2>4, <2>5, <2>6, <2>7, <2>8, <2>9, <2>10, <2>11, <2>12
       DEF Cycle!Flush
<1>4. CASE Cycle!Panicked
  <2>1. UNCHANGED effectVars
    BY <1>4 DEF Cycle!Panicked, Cycle!vars, effectVars
  <2> QED
    BY <2>1, EffectsRest
<1> QED
  BY <1>1, <1>2, <1>3, <1>4 DEF Cycle!Next

\* Only the next subscriber of an iteration is called.
LEMMA CallsAreLive == ASSUME EffectsInv, [Cycle!Next]_effectVars PROVE Cycle!NotCalledAfterDrop
<1>1. CASE Cycle!RetainNext
  BY <1>1, RetainNextStep
<1>2. CASE ~Cycle!RetainNext
  <2>1. ~(phase = "retain" /\ phase' = "callback")
    <3> SUFFICES ASSUME phase = "retain" PROVE phase' # "callback"
      OBVIOUS
    <3>1. CASE UNCHANGED effectVars
      BY <3>1 DEF effectVars
    <3>2. CASE Cycle!Application
      BY <3>2 DEF Cycle!Application, Cycle!BeginUpdate, Cycle!New, Cycle!Notify, Cycle!Emit,
                  Cycle!DropHandle, Cycle!Defer, Cycle!Subscribe, Cycle!ObserveRelease,
                  Cycle!Inserted, Cycle!Unsubscribe, Cycle!RemoveWindow, Cycle!AppCode
    <3>3. CASE Cycle!Flush
      BY <1>2, <3>3
         DEF Cycle!Flush, Cycle!FinishUpdate, Cycle!TakeDropped, Cycle!ReleaseEntity,
             Cycle!CallRelease, Cycle!ReleaseReturn, Cycle!ReleaseDrop, Cycle!ReleaseNext,
             Cycle!ApplyNotify, Cycle!ApplyEmit, Cycle!ApplyActivate, Cycle!ApplyDefer,
             Cycle!ApplyCreated, Cycle!Ready, Cycle!CallbackReturn, Cycle!RetainEnd,
             Cycle!DeferredReturn, Cycle!CreatedReturn, Cycle!FlushDone
    <3>4. CASE Cycle!Panicked
      BY <3>4 DEF Cycle!Panicked
    <3> QED
      BY <3>1, <3>2, <3>3, <3>4 DEF Cycle!Next
  <2> QED
    BY <2>1 DEF Cycle!NotCalledAfterDrop
<1> QED
  BY <1>1, <1>2

-----------------------------------------------------------------------------
(* The application                                                         *)

\* The parts that do not run rest, so what holds of effects holds whichever part runs.
ApplicationInv ==
    /\ EffectsInv
    /\ part = "sequences" => Sequence!TypeOK
    /\ part = "nulls" => NullInv
    /\ part \in {"ambiguous", "focusing", "modifiers"} => InputInv

LEMMA ApplicationInit == Init => ApplicationInv
<1> SUFFICES ASSUME Init PROVE ApplicationInv
  OBVIOUS
<1>1. EffectsInv
  <2>1. CASE Cycle!Starts(Entities, FALSE)
    BY <2>1, EffectsInit
  <2>2. CASE Cycle!Starts({}, TRUE)
    BY <2>2, EffectsInit
  <2> QED
    BY <2>1, <2>2 DEF Init
<1>2. part = "sequences" => Sequence!TypeOK
  BY SequenceInit DEF Init
<1>3. part = "nulls" => NullInv
  BY NullInit DEF Init
<1> QED
  BY <1>1, <1>2, <1>3, InputInit DEF ApplicationInv

\* What a step of the application is for its effects and for its keymap.
LEMMA EachPart ==
    ASSUME [Next]_vars
    PROVE  /\ part' = part
           /\ [Cycle!Next]_effectVars
           /\ part = "sequences" => [Sequence!Next]_keymapVars
           /\ part = "nulls" => [Null!Next]_keymapVars
           /\ part \in {"ambiguous", "focusing", "modifiers"} => [Pending!Next]_inputVars
<1>1. CASE UNCHANGED vars
  BY <1>1 DEF vars
<1>2. CASE Next
  <2>1. part' = part /\ [Cycle!Next]_effectVars
    BY <1>2 DEF Next
  <2>2. ASSUME part = "sequences" PROVE [Sequence!Next]_keymapVars
    BY <1>2, <2>2 DEF Next
  <2>3. ASSUME part = "nulls" PROVE [Null!Next]_keymapVars
    BY <1>2, <2>3 DEF Next
  <2>4. ASSUME part \in {"ambiguous", "focusing", "modifiers"} PROVE [Pending!Next]_inputVars
    BY <1>2, <2>4 DEF Next
  <2> QED
    BY <2>1, <2>2, <2>3, <2>4
<1> QED
  BY <1>1, <1>2

LEMMA ApplicationStep == ApplicationInv /\ [Next]_vars => ApplicationInv'
<1> SUFFICES ASSUME ApplicationInv, [Next]_vars PROVE ApplicationInv'
  OBVIOUS
<1>1. EffectsInv'
  BY EachPart, EffectsStep DEF ApplicationInv
<1>2. part' = "sequences" => Sequence!TypeOK'
  BY EachPart, SequenceStep DEF ApplicationInv
<1>3. part' = "nulls" => NullInv'
  BY EachPart, NullStep DEF ApplicationInv
<1>4. part' \in {"ambiguous", "focusing", "modifiers"} => InputInv'
  BY EachPart, InputStep DEF ApplicationInv
<1> QED
  BY <1>1, <1>2, <1>3, <1>4 DEF ApplicationInv

LEMMA ApplicationInvariant == Spec => []ApplicationInv
  BY ApplicationInit, ApplicationStep, PTL DEF Spec

\* Keymaps of any number of bindings, nulls and unbinds, of any length and from any sources: input
\* waits for longer keystrokes exactly if these would run a binding added after what the input would
\* run itself, whenever the nulls and unbinds of the longer keystrokes come after what they disable
\* by position as by depth, and so always if there are none; what keystrokes run is shown for its
\* action, although the two evaluations of the disabled bindings differ; and a null leaves the
\* bindings of a stronger source alone (bindings_for_input, bindings_for_action). It is not claimed
\* for nulls out of that order: there bindings_for_input may wait for nothing, and may not wait.
THEOREM KeymapAgrees == Spec => []ReachableIsPending
<1>1. ApplicationInv => ReachableIsPending
  BY SequencesAreReachable, NullsAgree DEF ApplicationInv, ReachableIsPending
<1> QED
  BY <1>1, ApplicationInvariant, PTL

\* Any actions, nulls and unbinds, of any length, and any number of keystrokes, modifiers, changes of
\* focus, timeouts and owners that pause them: no keystroke is lost or used twice, whatever of the
\* input is pending, replayed or dropped; pending input is for the focus, its timeout is paused only
\* for an owner that lives, and a tapped modifier was alone; and unless bindings move the focus,
\* pending input has a timeout if it could already run something, and can still complete a binding
\* where the focus is, if the nulls and unbinds of that binding's keystrokes come after what they
\* disable by position as by depth (dispatch_key, replay_prefix, flush_dispatch, dispatch_key_event).
\* A null of a deeper context that was added earlier may leave input pending that completes nothing.
THEOREM KeystrokesKept == Spec => []StillCompletes
<1>1. ApplicationInv => StillCompletes
  BY InputImplies DEF ApplicationInv, StillCompletes
<1> QED
  BY <1>1, ApplicationInvariant, PTL

\* Any number of entities, windows' releases, subscriptions and nested callbacks: an entity is
\* released once, when its last handle is gone, and an update returns only when everything it
\* raised has been applied (release_dropped_entities, flush_effects, finish_update).
THEOREM EntitiesReleased == Spec => []ReleasedOnce
<1>1. ApplicationInv => ReleasedOnce
  BY EffectsImplies DEF ApplicationInv, ReleasedOnce
<1> QED
  BY <1>1, ApplicationInvariant, PTL

\* After every step a subscriber has heard what was raised since it subscribed and was applied, all
\* of it, once and in order, is in its set or in the iteration's hands, and an entity has at most
\* one notification in the queue; and no step calls a subscriber that was dropped, although the
\* callbacks before it in the same iteration may have dropped it (SubscriberSet::retain,
\* SubscriberSet::insert, apply_notify_effect, apply_emit_effect).
THEOREM SubscribersHear == Spec => NoneMissed
<1> DEFINE Hear == /\ Cycle!NoneMissed /\ Cycle!HeardInOrder /\ Cycle!NoSubscriberLost
                   /\ Cycle!NotifyOnce
<1>1. ApplicationInv => Hear
  BY EffectsImplies DEF ApplicationInv
<1>2. Spec => []Hear
  BY <1>1, ApplicationInvariant, PTL
<1>3. ApplicationInv /\ [Next]_vars => Cycle!NotCalledAfterDrop
  BY EachPart, CallsAreLive DEF ApplicationInv
<1>4. ApplicationInv /\ Hear' /\ [Next]_vars =>
        [/\ Cycle!NoneMissed' /\ Cycle!HeardInOrder' /\ Cycle!NoSubscriberLost'
         /\ Cycle!NotifyOnce' /\ Cycle!NotCalledAfterDrop]_effectVars
  BY <1>3
<1> QED
  BY <1>2, <1>4, ApplicationInvariant, PTL DEF Spec, NoneMissed
=============================================================================
