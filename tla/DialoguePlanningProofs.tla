----------------------- MODULE DialoguePlanningProofs -----------------------
(***************************************************************************)
(* What reaches the speech provider, for every text, every answer of the   *)
(* verifier and every limit: the requests say the published text, every    *)
(* word once, in order, by its speaker; they keep to the limits of the     *)
(* profile; and the text is one the verifier passed.                       *)
(*                                                                         *)
(* Parsing, counting and joining go through sequences of any length, so    *)
(* the proof needs induction.  The theorems on well-founded relations give *)
(* it in a form the provers can use: a set that has 0, and with a number   *)
(* the next one, has all numbers.  From it follow induction on sequences,  *)
(* what FlattenSeq and FoldLeft yield, what a text is read as, and what    *)
(* is heard of it.  Then every step of the planning only moves what is     *)
(* said from one sequence to the next.                                     *)
(***************************************************************************)
EXTENDS DialoguePlanning, SequenceTheorems, WellFoundedInduction, TLAPS

-----------------------------------------------------------------------------
(***************************************************************************)
(* The invariant.                                                          *)
(***************************************************************************)

Turn == [role : Roles, words : Trimmed]

\* u is the end of w.
EndOf(u, w) ==
  \E k \in 0 .. Len(w) : Len(u) = Len(w) - k /\ \A i \in 1 .. Len(u) : u[i] = w[k + i]

DialogueTypes ==
  /\ strategy \in Strategies /\ draft \in Drafts
  /\ text \in Seq(Line)
  /\ turns \in Seq(Turn) /\ open \in Seq(Turn) /\ plans \in Seq(Seq(Turn))
  /\ step \in {"verify", "plan", "turns", "planned", "refused"}

TextIsPublished ==
  /\ step = "verify" => text = NoText
  /\ step \in {"plan", "turns", "planned"} => text # NoText
  /\ text # NoText => Parses(text)

TextIsVerified ==
  text # NoText =>
    /\ verdict.outcome \in {"accepted", "corrected"}
    /\ text = verdict.text \/ (text = draft /\ verdict.outcome = "accepted")

RefusalIsExplained ==
  text # NoText /\ step = "refused" =>
    \/ /\ error = "tts_turn_too_long"
       /\ \E t \in Range(Turns(text)) : Len(t.words) > MaxSceneCharacters
    \/ /\ error = "tts_unsplittable_token"
       /\ \E t \in Range(Turns(text)) : \E i \in DOMAIN t.words :
            /\ i + MaxFragmentCharacters <= Len(t.words)
            /\ t.words[i] # "space"
            /\ \A j \in i + 1 .. i + MaxFragmentCharacters :
                 /\ t.words[j] # "mark"
                 /\ t.words[i] = "letter" => t.words[j] # "space"

NothingPlannedYet ==
  step \in {"verify", "plan"} => turns = <<>> /\ open = <<>> /\ plans = <<>>

\* Work in hand, or work done.
PlanningGoesOn ==
  /\ step = "turns" => turns # <<>> \/ open # <<>> \/ plans # <<>>
  /\ step = "planned" => turns = <<>> /\ open = <<>> /\ plans # <<>>

SaysTheText ==
  step \in {"turns", "planned"} =>
    HeardIn(FlattenSeq(plans) \o open \o turns) = HeardOf(text)

TurnsAreOfText == Range(turns) \subseteq Range(Turns(text))

\* The scene being packed has room, the rest being split is of one turn.
OpenFits ==
  /\ strategy = "text_to_dialogue_v3" =>
       Len(open) <= MaxSceneTurns /\ Size(open) <= MaxSceneCharacters
  /\ strategy = "stitched_text_to_speech" /\ open # <<>> =>
       /\ Len(open) = 1
       /\ \E t \in Range(Turns(text)) : EndOf(open[1].words, t.words)

DialogueInv ==
  /\ DialogueTypes /\ TextIsPublished /\ TextIsVerified /\ RefusalIsExplained
  /\ NothingPlannedYet /\ PlanningGoesOn /\ SaysTheText /\ TurnsAreOfText
  /\ OpenFits /\ RequestsAreWithinLimits

-----------------------------------------------------------------------------
(***************************************************************************)
(* Induction on numbers, with a set for the predicate.                     *)
(***************************************************************************)

\* Every set of numbers that is not empty has a least one.
LEMMA Least ==
  ASSUME NEW T \in SUBSET Nat, T # {}
  PROVE  \E x \in T : \A y \in T : x <= y
<1> DEFINE R == OpToRel(<, Nat)
<1>1. IsWellFoundedOn(R, Nat)
  BY NatLessThanWellFounded
<1>2. \A x, y \in Nat : y < x => <<y, x>> \in R
  BY DEF OpToRel
<1> HIDE DEF R
<1>3. PICK x \in T : \A y \in T : ~(<<y, x>> \in R)
  BY <1>1, WFMin
<1>4. ASSUME NEW y \in T PROVE x <= y
  <2>1. x \in Nat /\ y \in Nat /\ ~(<<y, x>> \in R)
    BY <1>3
  <2>2. ~(y < x)
    BY <1>2, <2>1
  <2> QED BY <2>1, <2>2
<1> QED BY <1>4

\* A set that has 0, and with each number the next one, has all of them.
LEMMA Induction ==
  ASSUME NEW T \in SUBSET Nat, 0 \in T, \A n \in T : n + 1 \in T
  PROVE  T = Nat
<1> SUFFICES ASSUME Nat \ T # {} PROVE FALSE
  OBVIOUS
<1>1. PICK x \in Nat \ T : \A y \in Nat \ T : x <= y
  BY Least
<1>2. x - 1 \in Nat
  BY <1>1
<1>3. x - 1 \in T
  BY <1>1, <1>2
<1>4. (x - 1) + 1 \in T
  BY <1>3
<1> QED BY <1>1, <1>4

\* Max and Min, which CHOOSE, are in the set and at its ends.
LEMMA Greatest ==
  ASSUME NEW n \in Nat, NEW T \in SUBSET (0 .. n), T # {}
  PROVE  Max(T) \in T /\ \A y \in T : y <= Max(T)
<1> DEFINE D == {n - y : y \in T}
<1>0. D \in SUBSET Nat /\ D # {}
  <2>1. \A y \in T : n - y \in Nat /\ n - y \in D
    OBVIOUS
  <2> QED BY <2>1
<1> HIDE DEF D
<1>1. PICK d \in D : \A e \in D : d <= e
  BY <1>0, Least
<1> USE DEF D
<1>2. n - d \in T /\ \A y \in T : n - d >= y
  BY <1>1
<1>3. \E x \in T : \A y \in T : x >= y
  BY <1>2
<1> QED BY <1>3 DEF Max

LEMMA Smallest ==
  ASSUME NEW T \in SUBSET Nat, T # {}
  PROVE  Min(T) \in T /\ \A y \in T : Min(T) <= y
<1>1. \E x \in T : \A y \in T : x <= y
  BY Least
<1> QED BY <1>1 DEF Min

Steps(n, X) == [(1 .. n) \X X -> X]

IsChain(f, X, b, n, G) ==
  f \in [0 .. n -> X] /\ f[0] = b /\ \A i \in 1 .. n : f[i] = G[<<i, f[i - 1]>>]

\* A chain of values, each made from the one before.
LEMMA Chain ==
  ASSUME NEW X, NEW b \in X, NEW n \in Nat, NEW G \in Steps(n, X)
  PROVE  \E f : IsChain(f, X, b, n, G)
<1> DEFINE Links(f, k) == f[0] = b /\ \A i \in 1 .. k : f[i] = G[<<i, f[i - 1]>>]
           T == {k \in Nat : k <= n => \E f \in [0 .. k -> X] : Links(f, k)}
<1>1. 0 \in T
  <2>1. [i \in 0 .. 0 |-> b] \in [0 .. 0 -> X] /\ Links([i \in 0 .. 0 |-> b], 0)
    OBVIOUS
  <2> QED BY <2>1
<1>2. ASSUME NEW k \in T PROVE k + 1 \in T
  <2> SUFFICES ASSUME k + 1 <= n PROVE \E f \in [0 .. k + 1 -> X] : Links(f, k + 1)
    OBVIOUS
  <2>1. PICK f \in [0 .. k -> X] : Links(f, k)
    OBVIOUS
  <2>2. G[<<k + 1, f[k]>>] \in X
    <3>1. k + 1 \in 1 .. n /\ f[k] \in X
      OBVIOUS
    <3> QED BY <3>1 DEF Steps
  <2> DEFINE g == [i \in 0 .. k + 1 |-> IF i = k + 1 THEN G[<<k + 1, f[k]>>] ELSE f[i]]
  <2>3. g \in [0 .. k + 1 -> X]
    BY <2>2
  <2>4. g[0] = b
    BY <2>1
  <2>5. ASSUME NEW i \in 1 .. k + 1 PROVE g[i] = G[<<i, g[i - 1]>>]
    <3>1. CASE i = k + 1
      <4>1. i - 1 = k /\ g[i] = G[<<k + 1, f[k]>>] /\ g[k] = f[k]
        BY <3>1
      <4> QED BY <3>1, <4>1
    <3>2. CASE i # k + 1
      <4>1. i \in 1 .. k /\ g[i] = f[i] /\ g[i - 1] = f[i - 1]
        BY <3>2
      <4> QED BY <2>1, <4>1
    <3> QED BY <3>1, <3>2
  <2> QED BY <2>3, <2>4, <2>5
<1> HIDE DEF T
<1>3. T = Nat
  <2>1. T \in SUBSET Nat
    BY DEF T
  <2> QED BY <1>1, <1>2, <2>1, Induction
<1>4. n \in T
  BY <1>3
<1> QED BY <1>4 DEF T, IsChain

-----------------------------------------------------------------------------
(***************************************************************************)
(* FlattenSeq.                                                             *)
(***************************************************************************)

\* What FlattenSeq chooses: the concatenations of the first sequences.
LEMMA Flattened ==
  ASSUME NEW S, NEW ss \in Seq(Seq(S)), ss # <<>>
  PROVE  \E f \in [1 .. Len(ss) -> Seq(S)] :
           /\ f[1] = ss[1]
           /\ \A i \in 2 .. Len(ss) : f[i] = f[i - 1] \o ss[i]
           /\ FlattenSeq(ss) = f[Len(ss)]
<1> DEFINE n == Len(ss)
           Body(f) == [i \in 1 .. n |-> IF i = 1 THEN ss[i] ELSE f[i - 1] \o ss[i]]
           G == [p \in (1 .. n) \X Seq(S) |-> p[2] \o ss[p[1]]]
<1>1. n \in Nat /\ n # 0 /\ \A i \in 1 .. n : ss[i] \in Seq(S)
  BY LenProperties, EmptySeq, ElementOfSeq
<1>2. G \in Steps(n, Seq(S))
  BY <1>1, ConcatProperties DEF Steps
<1> DEFINE e == <<>>
<1>3. e \in Seq(S)
  BY EmptySeq
<1>4. \A i \in 1 .. n, t \in Seq(S) : G[<<i, t>>] = t \o ss[i]
  OBVIOUS
<1> HIDE DEF n, G, e
<1>18. PICK g : IsChain(g, Seq(S), e, n, G)
  BY <1>1, <1>2, <1>3, Chain
<1> USE DEF IsChain
<1>5. \A i \in 1 .. n : g[i] = g[i - 1] \o ss[i]
  <2> TAKE i \in 1 .. n
  <2>1. g[i - 1] \in Seq(S)
    BY <1>1, <1>18
  <2> QED BY <1>18, <1>4, <2>1
<1>6. g[1] = ss[1]
  <2>1. 1 \in 1 .. n /\ 1 - 1 = 0
    BY <1>1
  <2>2. g[1] = g[0] \o ss[1]
    BY <1>5, <2>1
  <2>3. <<>> \o ss[1] = ss[1]
    BY <1>1, <2>1, ConcatEmptySeq
  <2> QED BY <1>18, <2>2, <2>3 DEF e
<1> DEFINE h == [i \in 1 .. n |-> g[i]]
<1>7. h = Body(h)
  <2>1. ASSUME NEW i \in 1 .. n
        PROVE  h[i] = IF i = 1 THEN ss[i] ELSE h[i - 1] \o ss[i]
    <3>1. CASE i = 1
      BY <1>6, <3>1
    <3>2. CASE i # 1
      <4>1. i - 1 \in 1 .. n
        BY <1>1, <3>2
      <4> QED BY <1>5, <3>2, <4>1
    <3> QED BY <3>1, <3>2
  <2> HIDE DEF h
  <2>2. h = [i \in 1 .. n |-> h[i]]
    BY DEF h
  <2> QED BY <2>1, <2>2
<1> HIDE DEF h
<1> DEFINE f == CHOOSE f : f = Body(f)
<1>8. f = Body(f)
  BY <1>7
<1>9. FlattenSeq(ss) = f[n]
  BY <1>1 DEF FlattenSeq, n
<1> HIDE DEF f
<1>10. \A i \in 1 .. n : f[i] = IF i = 1 THEN ss[i] ELSE f[i - 1] \o ss[i]
  BY <1>8
<1> DEFINE T == {k \in Nat : \A i \in 1 .. n : i <= k => f[i] \in Seq(S)}
<1>11. 0 \in T
  BY <1>1
<1>12. ASSUME NEW k \in T PROVE k + 1 \in T
  <2> SUFFICES ASSUME NEW i \in 1 .. n, i <= k + 1 PROVE f[i] \in Seq(S)
    OBVIOUS
  <2>1. CASE i = 1
    BY <1>1, <1>10, <2>1
  <2>2. CASE i # 1
    <3>1. i - 1 \in 1 .. n /\ i - 1 <= k
      BY <1>1, <2>2
    <3>2. f[i - 1] \in Seq(S) /\ ss[i] \in Seq(S)
      BY <1>1, <3>1
    <3>3. f[i] = f[i - 1] \o ss[i]
      BY <1>10, <2>2
    <3> QED BY <3>2, <3>3, ConcatProperties
  <2> QED BY <2>1, <2>2
<1>13. T = Nat
  <2> HIDE DEF T
  <2>1. T \in SUBSET Nat
    BY DEF T
  <2> QED BY <1>11, <1>12, <2>1, Induction
<1>14. \A i \in 1 .. n : f[i] \in Seq(S)
  <2> TAKE i \in 1 .. n
  <2>1. n \in T
    BY <1>1, <1>13
  <2> QED BY <1>1, <2>1
<1>15. f \in [1 .. n -> Seq(S)]
  BY <1>8, <1>14
<1>16. f[1] = ss[1]
  <2>1. 1 \in 1 .. n
    BY <1>1
  <2> QED BY <1>10, <2>1
<1>17. ASSUME NEW i \in 2 .. n PROVE f[i] = f[i - 1] \o ss[i]
  <2>1. i \in 1 .. n /\ i # 1
    BY <1>1
  <2> QED BY <1>10, <2>1
<1> QED BY <1>9, <1>15, <1>16, <1>17 DEF n

\* Induction on sequences, from the end.
LEMMA SeqInduction ==
  ASSUME NEW S, NEW T, <<>> \in T, \A s \in Seq(S), e \in S : s \in T => Append(s, e) \in T
  PROVE  Seq(S) \subseteq T
<1> DEFINE K == {k \in Nat : \A s \in Seq(S) : Len(s) = k => s \in T}
<1>1. 0 \in K
  <2> SUFFICES ASSUME NEW s \in Seq(S), Len(s) = 0 PROVE s \in T
    OBVIOUS
  <2>1. s = <<>>
    BY EmptySeq
  <2> QED BY <2>1
<1>2. ASSUME NEW k \in K PROVE k + 1 \in K
  <2> SUFFICES ASSUME NEW s \in Seq(S), Len(s) = k + 1 PROVE s \in T
    OBVIOUS
  <2>1. s # <<>>
    BY EmptySeq
  <2>2. PICK u \in Seq(S), e \in S : s = Append(u, e)
    BY <2>1, SequenceEmptyOrAppend
  <2>3. Len(u) \in Nat /\ Len(s) = Len(u) + 1
    BY <2>2, AppendProperties, LenProperties
  <2>4. u \in T
    BY <2>3
  <2> QED BY <2>2, <2>4
<1> HIDE DEF K
<1>3. K = Nat
  <2>1. K \in SUBSET Nat
    BY DEF K
  <2> QED BY <1>1, <1>2, <2>1, Induction
<1>4. ASSUME NEW s \in Seq(S) PROVE s \in T
  <2>1. Len(s) \in K
    BY <1>3, LenProperties
  <2> QED BY <2>1 DEF K
<1> QED BY <1>4

\* FlattenSeq is a homomorphism.
LEMMA FlattenEmpty == FlattenSeq(<<>>) = <<>>
BY DEF FlattenSeq

LEMMA FlattenAppend ==
  ASSUME NEW S, NEW ss \in Seq(Seq(S)), NEW s \in Seq(S)
  PROVE  /\ FlattenSeq(ss) \in Seq(S)
         /\ FlattenSeq(Append(ss, s)) = FlattenSeq(ss) \o s
<1> DEFINE tt == Append(ss, s)
           n  == Len(ss)
<1>1. /\ tt \in Seq(Seq(S)) /\ tt # <<>> /\ Len(tt) = n + 1 /\ n \in Nat
      /\ (\A i \in 1 .. n : tt[i] = ss[i]) /\ tt[n + 1] = s
  BY AppendProperties, LenProperties
<1> HIDE DEF tt
<1>2. PICK g \in [1 .. Len(tt) -> Seq(S)] :
        /\ g[1] = tt[1]
        /\ \A i \in 2 .. Len(tt) : g[i] = g[i - 1] \o tt[i]
        /\ FlattenSeq(tt) = g[Len(tt)]
  BY <1>1, Flattened
<1>3. CASE ss = <<>>
  <2>1. n = 0 /\ FlattenSeq(ss) = <<>> /\ <<>> \in Seq(S) /\ <<>> \o s = s
    BY <1>3, FlattenEmpty, EmptySeq, ConcatEmptySeq
  <2> QED BY <1>1, <1>2, <2>1 DEF tt
<1>4. CASE ss # <<>>
  <2>1. n # 0
    BY <1>4, EmptySeq
  <2>2. PICK f \in [1 .. Len(ss) -> Seq(S)] :
          /\ f[1] = ss[1]
          /\ \A i \in 2 .. Len(ss) : f[i] = f[i - 1] \o ss[i]
          /\ FlattenSeq(ss) = f[Len(ss)]
    BY <1>4, Flattened
  <2> DEFINE K == {k \in Nat : \A i \in 1 .. n : i <= k => f[i] = g[i]}
  <2>3. 0 \in K
    OBVIOUS
  <2>4. ASSUME NEW k \in K PROVE k + 1 \in K
    <3> SUFFICES ASSUME NEW i \in 1 .. n, i <= k + 1 PROVE f[i] = g[i]
      OBVIOUS
    <3>1. CASE i = 1
      <4>1. 1 \in 1 .. n
        BY <3>1
      <4> QED BY <1>1, <1>2, <2>2, <3>1, <4>1
    <3>2. CASE i # 1
      <4>1. i - 1 \in 1 .. n /\ i - 1 <= k /\ i \in 2 .. n /\ i \in 2 .. Len(tt)
        BY <1>1, <3>2
      <4>2. f[i - 1] = g[i - 1]
        BY <4>1
      <4>3. f[i] = f[i - 1] \o ss[i]
        BY <2>2, <4>1
      <4>4. g[i] = g[i - 1] \o tt[i]
        BY <1>2, <4>1
      <4>5. tt[i] = ss[i]
        BY <1>1
      <4> QED BY <4>2, <4>3, <4>4, <4>5
    <3> QED BY <3>1, <3>2
  <2> HIDE DEF K
  <2>5. K = Nat
    <3>1. K \in SUBSET Nat
      BY DEF K
    <3> QED BY <2>3, <2>4, <3>1, Induction
  <2>6. f[n] = g[n]
    <3>1. n \in K /\ n \in 1 .. n
      BY <1>1, <2>1, <2>5
    <3> QED BY <3>1 DEF K
  <2>7. n + 1 \in 2 .. Len(tt) /\ (n + 1) - 1 = n /\ n \in 1 .. n
    BY <1>1, <2>1
  <2>8. g[n + 1] = g[n] \o s
    BY <1>1, <1>2, <2>7
  <2> QED BY <1>1, <1>2, <2>2, <2>6, <2>7, <2>8 DEF tt
<1> QED BY <1>3, <1>4

LEMMA FlattenOne ==
  ASSUME NEW S, NEW s \in Seq(S)
  PROVE  FlattenSeq(<<s>>) = s
<1> DEFINE none == <<>>
<1>1. none \in Seq(Seq(S)) /\ Append(none, s) = <<s>> /\ FlattenSeq(none) = <<>> /\ <<>> \o s = s
  BY EmptySeq, FlattenEmpty, ConcatEmptySeq
<1> HIDE DEF none
<1> QED BY <1>1, FlattenAppend

LEMMA ConcatAppend ==
  ASSUME NEW S, NEW s \in Seq(S), NEW t \in Seq(S), NEW e \in S
  PROVE  s \o Append(t, e) = Append(s \o t, e)
<1>1. <<e>> \in Seq(S)
  OBVIOUS
<1>2. s \o t \in Seq(S)
  BY ConcatProperties
<1> QED BY <1>1, <1>2, AppendIsConcat, ConcatAssociative

LEMMA FlattenConcat ==
  ASSUME NEW S, NEW ss \in Seq(Seq(S))
  PROVE  \A tt \in Seq(Seq(S)) : FlattenSeq(ss \o tt) = FlattenSeq(ss) \o FlattenSeq(tt)
<1> DEFINE T == {tt \in Seq(Seq(S)) : FlattenSeq(ss \o tt) = FlattenSeq(ss) \o FlattenSeq(tt)}
<1>0. FlattenSeq(ss) \in Seq(S)
  <2>1. <<>> \in Seq(S)
    BY EmptySeq
  <2> QED BY <2>1, FlattenAppend
<1>1. <<>> \in T
  <2>1. ss \o <<>> = ss /\ FlattenSeq(ss) \o <<>> = FlattenSeq(ss) /\ <<>> \in Seq(Seq(S))
    BY <1>0, ConcatEmptySeq, EmptySeq
  <2> QED BY <2>1, FlattenEmpty
<1>2. ASSUME NEW tt \in Seq(Seq(S)), NEW s \in Seq(S), tt \in T
      PROVE  Append(tt, s) \in T
  <2>1. /\ Append(tt, s) \in Seq(Seq(S)) /\ ss \o tt \in Seq(Seq(S))
        /\ ss \o Append(tt, s) = Append(ss \o tt, s)
    BY AppendProperties, ConcatProperties, ConcatAppend
  <2>2. FlattenSeq(Append(ss \o tt, s)) = FlattenSeq(ss \o tt) \o s
    BY <2>1, FlattenAppend
  <2>3. FlattenSeq(Append(tt, s)) = FlattenSeq(tt) \o s /\ FlattenSeq(tt) \in Seq(S)
    BY FlattenAppend
  <2>4. FlattenSeq(ss \o tt) = FlattenSeq(ss) \o FlattenSeq(tt)
    BY <1>2
  <2>5. (FlattenSeq(ss) \o FlattenSeq(tt)) \o s = FlattenSeq(ss) \o (FlattenSeq(tt) \o s)
    BY <1>0, <2>3, ConcatAssociative
  <2> QED BY <2>1, <2>2, <2>3, <2>4, <2>5
<1> HIDE DEF T
<1>3. Seq(Seq(S)) \subseteq T
  BY <1>1, <1>2, SeqInduction
<1> QED BY <1>3 DEF T

-----------------------------------------------------------------------------
(***************************************************************************)
(* FoldLeft, which folds over the places of a sequence: a value for every  *)
(* set of places, made from the value without the last one.                *)
(***************************************************************************)

Folding(X, E) == [X \X E -> X]

IsFold(f, X, b, s, n, G) ==
  /\ f \in [SUBSET (1 .. n) -> X]
  /\ \A t \in SUBSET (1 .. n) :
       f[t] = IF t = {} THEN b ELSE G[<<f[t \ {Max(t)}], s[Max(t)]>>]

\* The last of some places, and the places before it.
LEMMA LastPlace ==
  ASSUME NEW n \in Nat, NEW t \in SUBSET (1 .. n), t # {}
  PROVE  /\ Max(t) \in t /\ t \ {Max(t)} \in SUBSET (1 .. n)
         /\ n \in t => Max(t) = n
<1>1. t \in SUBSET (0 .. n)
  OBVIOUS
<1>2. Max(t) \in t /\ \A y \in t : y <= Max(t)
  BY <1>1, Greatest
<1>3. Max(t) \in 1 .. n /\ t \ {Max(t)} \in SUBSET (1 .. n)
  BY <1>2
<1>4. ASSUME n \in t PROVE Max(t) = n
  <2>1. n <= Max(t)
    BY <1>2, <1>4
  <2> QED BY <1>3, <2>1
<1> QED BY <1>2, <1>3, <1>4

\* The function that FoldLeft chooses exists.
LEMMA FoldExists ==
  ASSUME NEW X, NEW b \in X, NEW E, NEW n \in Nat, NEW s, \A i \in 1 .. n : s[i] \in E,
         NEW G \in Folding(X, E)
  PROVE  \E f : IsFold(f, X, b, s, n, G)
<1> DEFINE T == {k \in Nat : k <= n => \E f : IsFold(f, X, b, s, k, G)}
<1>1. 0 \in T
  <2> DEFINE f == [t \in SUBSET (1 .. 0) |-> b]
  <2>1. \A t \in SUBSET (1 .. 0) : t = {}
    OBVIOUS
  <2>2. IsFold(f, X, b, s, 0, G)
    BY <2>1 DEF IsFold
  <2> QED BY <2>2
<1>2. ASSUME NEW k \in T PROVE k + 1 \in T
  <2> SUFFICES ASSUME k + 1 <= n PROVE \E f : IsFold(f, X, b, s, k + 1, G)
    OBVIOUS
  <2>1. PICK g : IsFold(g, X, b, s, k, G)
    OBVIOUS
  <2> DEFINE f == [t \in SUBSET (1 .. k + 1) |->
                     IF k + 1 \in t THEN G[<<g[t \ {k + 1}], s[k + 1]>>] ELSE g[t]]
  <2>2. s[k + 1] \in E
    OBVIOUS
  <2>3. ASSUME NEW t \in SUBSET (1 .. k + 1)
        PROVE  /\ t \ {k + 1} \in SUBSET (1 .. k)
               /\ k + 1 \notin t => t \in SUBSET (1 .. k)
    OBVIOUS
  <2>4. ASSUME NEW t \in SUBSET (1 .. k)
        PROVE  g[t] \in X /\ f[t] = g[t]
    <3>1. t \in SUBSET (1 .. k + 1) /\ k + 1 \notin t
      OBVIOUS
    <3> QED BY <2>1, <3>1 DEF IsFold
  <2>5. ASSUME NEW t \in SUBSET (1 .. k + 1)
        PROVE  /\ f[t] \in X
               /\ f[t] = IF t = {} THEN b ELSE G[<<f[t \ {Max(t)}], s[Max(t)]>>]
    <3>1. CASE k + 1 \in t
      <4>1. Max(t) = k + 1
        BY <3>1, LastPlace
      <4>2. f[t] = G[<<g[t \ {k + 1}], s[k + 1]>>]
        BY <3>1
      <4>3. g[t \ {k + 1}] \in X /\ f[t \ {k + 1}] = g[t \ {k + 1}]
        BY <2>3, <2>4
      <4>4. G[<<g[t \ {k + 1}], s[k + 1]>>] \in X
        BY <2>2, <4>3 DEF Folding
      <4> HIDE DEF f
      <4> QED BY <3>1, <4>1, <4>2, <4>3, <4>4
    <3>2. CASE k + 1 \notin t
      <4>1. t \in SUBSET (1 .. k)
        BY <2>3, <3>2
      <4>2. g[t] \in X /\ f[t] = g[t]
        BY <2>4, <4>1
      <4>3. g[t] = IF t = {} THEN b ELSE G[<<g[t \ {Max(t)}], s[Max(t)]>>]
        BY <2>1, <4>1 DEF IsFold
      <4>4. CASE t = {}
        BY <4>2, <4>3, <4>4
      <4>5. CASE t # {}
        <5>1. t \ {Max(t)} \in SUBSET (1 .. k)
          BY <4>1, <4>5, LastPlace
        <5>2. f[t \ {Max(t)}] = g[t \ {Max(t)}]
          BY <2>4, <5>1
        <5> HIDE DEF f
        <5> QED BY <4>2, <4>3, <4>5, <5>2
      <4> QED BY <4>4, <4>5
    <3> QED BY <3>1, <3>2
  <2>6. IsFold(f, X, b, s, k + 1, G)
    <3>1. f = [t \in SUBSET (1 .. k + 1) |-> f[t]]
      OBVIOUS
    <3> HIDE DEF f
    <3>2. f \in [SUBSET (1 .. k + 1) -> X]
      BY <2>5, <3>1
    <3> QED BY <2>5, <3>2 DEF IsFold
  <2> HIDE DEF f
  <2> QED BY <2>6
<1> HIDE DEF T
<1>3. T = Nat
  <2>1. T \in SUBSET Nat
    BY DEF T
  <2> QED BY <1>1, <1>2, <2>1, Induction
<1>4. n \in T
  BY <1>3
<1> QED BY <1>4 DEF T

\* A function that is made like a fold has its values.
StaysIn(f, X, n) ==
  /\ f[{}] \in X
  /\ \A t \in SUBSET (1 .. n) : t # {} /\ f[t \ {Max(t)}] \in X => f[t] \in X

LEMMA FoldTypes ==
  ASSUME NEW X, NEW n \in Nat, NEW f, StaysIn(f, X, n)
  PROVE  \A t \in SUBSET (1 .. n) : f[t] \in X
<1> DEFINE T == {k \in Nat : \A t \in SUBSET (1 .. n) : t \subseteq 1 .. k => f[t] \in X}
<1>1. 0 \in T
  <2>1. \A t : t \subseteq 1 .. 0 => t = {}
    OBVIOUS
  <2> QED BY <2>1 DEF StaysIn
<1>2. ASSUME NEW k \in T PROVE k + 1 \in T
  <2> SUFFICES ASSUME NEW t \in SUBSET (1 .. n), t \subseteq 1 .. k + 1 PROVE f[t] \in X
    OBVIOUS
  <2>1. CASE t = {}
    BY <2>1 DEF StaysIn
  <2>2. CASE t # {}
    <3>1. Max(t) \in t /\ t \ {Max(t)} \in SUBSET (1 .. n) /\ (k + 1 \in t => Max(t) = k + 1)
      <4>1. t \in SUBSET (1 .. k + 1) /\ k + 1 \in Nat
        OBVIOUS
      <4> QED BY <2>2, <4>1, LastPlace
    <3>2. t \ {Max(t)} \subseteq 1 .. k
      BY <3>1
    <3> QED BY <2>2, <3>1, <3>2 DEF StaysIn
  <2> QED BY <2>1, <2>2
<1> HIDE DEF T
<1>3. T = Nat
  <2>1. T \in SUBSET Nat
    BY DEF T
  <2> QED BY <1>1, <1>2, <2>1, Induction
<1>4. n \in T
  BY <1>3
<1> QED BY <1>4 DEF T

\* Two folds, over a sequence and over one that goes on with another place.
FoldsOn(f, g, X, b, s, r, n, m, G) ==
  /\ n \in Nat /\ m = n + 1 /\ \A i \in 1 .. n : s[i] = r[i]
  /\ IsFold(f, X, b, s, n, G) /\ IsFold(g, X, b, r, m, G)

OneMore(f, g, r, n, m, G) == g[1 .. m] = G[<<f[1 .. n], r[m]>>]

\* The value of the longer sequence is made from that of the shorter one.
LEMMA FoldAppends ==
  ASSUME NEW X, NEW b, NEW G, NEW s, NEW r, NEW f, NEW g, NEW n, NEW m,
         FoldsOn(f, g, X, b, s, r, n, m, G)
  PROVE  OneMore(f, g, r, n, m, G)
<1>0. /\ n \in Nat /\ m = n + 1 /\ (\A i \in 1 .. n : s[i] = r[i])
      /\ IsFold(f, X, b, s, n, G) /\ IsFold(g, X, b, r, m, G)
  BY DEF FoldsOn
<1> USE <1>0
<1>1. ASSUME NEW k \in 1 .. n + 1
      PROVE  /\ 1 .. k \in SUBSET (1 .. n + 1) /\ 1 .. k # {} /\ k \in 1 .. k
             /\ Max(1 .. k) = k /\ (1 .. k) \ {k} = 1 .. k - 1
  <2>1. 1 .. k \in SUBSET (1 .. k) /\ 1 .. k # {} /\ k \in 1 .. k /\ k \in Nat
    OBVIOUS
  <2>2. Max(1 .. k) = k
    BY <2>1, LastPlace
  <2>3. (1 .. k) \ {k} = 1 .. k - 1
    OBVIOUS
  <2> QED BY <2>1, <2>2, <2>3
<1>2. ASSUME NEW k \in 1 .. n + 1
      PROVE  g[1 .. k] = G[<<g[1 .. k - 1], r[k]>>]
  <2> PICK t : t = 1 .. k
    OBVIOUS
  <2>1. /\ t \in SUBSET (1 .. n + 1) /\ t # {}
        /\ Max(t) = k /\ t \ {k} = 1 .. k - 1
    BY <1>1
  <2>2. g[t] = G[<<g[t \ {Max(t)}], r[Max(t)]>>]
    BY <2>1 DEF IsFold
  <2> QED BY <2>1, <2>2
<1>3. ASSUME NEW k \in 1 .. n
      PROVE  f[1 .. k] = G[<<f[1 .. k - 1], s[k]>>]
  <2>0. k \in 1 .. n + 1 /\ 1 .. k \in SUBSET (1 .. n)
    OBVIOUS
  <2> PICK t : t = 1 .. k
    OBVIOUS
  <2>1. /\ t \in SUBSET (1 .. n) /\ t # {}
        /\ Max(t) = k /\ t \ {k} = 1 .. k - 1
    BY <1>1, <2>0
  <2>2. f[t] = G[<<f[t \ {Max(t)}], s[Max(t)]>>]
    BY <2>1 DEF IsFold
  <2> QED BY <2>1, <2>2
<1> DEFINE T == {k \in Nat : k <= n => f[1 .. k] = g[1 .. k]}
<1>4. 0 \in T
  <2>1. 1 .. 0 = {}
    OBVIOUS
  <2>2. f[{}] = b /\ g[{}] = b
    BY DEF IsFold
  <2> QED BY <2>1, <2>2
<1>5. ASSUME NEW k \in T PROVE k + 1 \in T
  <2> SUFFICES ASSUME k + 1 <= n PROVE f[1 .. k + 1] = g[1 .. k + 1]
    OBVIOUS
  <2>1. k + 1 \in 1 .. n /\ k + 1 \in 1 .. n + 1 /\ (k + 1) - 1 = k
    OBVIOUS
  <2>2. f[1 .. k + 1] = G[<<f[1 .. k], s[k + 1]>>]
    BY <1>3, <2>1
  <2>3. g[1 .. k + 1] = G[<<g[1 .. k], r[k + 1]>>]
    BY <1>2, <2>1
  <2> QED BY <2>1, <2>2, <2>3
<1> HIDE DEF T
<1>6. T = Nat
  <2>1. T \in SUBSET Nat
    BY DEF T
  <2> QED BY <1>4, <1>5, <2>1, Induction
<1>7. f[1 .. n] = g[1 .. n]
  <2>1. n \in T
    BY <1>6
  <2> QED BY <2>1 DEF T
<1>8. n + 1 \in 1 .. n + 1 /\ (n + 1) - 1 = n
  OBVIOUS
<1> QED BY <1>2, <1>7, <1>8 DEF OneMore

-----------------------------------------------------------------------------
(***************************************************************************)
(* Size and Turns, turn by turn and line by line.                          *)
(***************************************************************************)

\* Words are sequences, and not empty.
LEMMA TrimmedLen ==
  ASSUME NEW w \in Trimmed
  PROVE  w \in Seq(Characters) /\ Len(w) \in Nat /\ Len(w) > 0
<1>1. w \in Seq(Characters) /\ w # <<>>
  BY DEF Trimmed
<1> QED BY <1>1, EmptySeq, LenProperties

SizeStep == [p \in Nat \X Turn |-> p[1] + Len(p[2].words)]

\* Size is such a fold: of the lengths of the words.
LEMMA SizeIsFold ==
  ASSUME NEW s \in Seq(Turn)
  PROVE  \E f : IsFold(f, Nat, 0, s, Len(s), SizeStep) /\ Size(s) = f[1 .. Len(s)]
<1> DEFINE n == Len(s)
           Body(f) == [t \in SUBSET DOMAIN s |->
                         IF t = {} THEN 0 ELSE f[t \ {Max(t)}] + Len(s[Max(t)].words)]
<1>1. n \in Nat /\ DOMAIN s = 1 .. n /\ \A i \in 1 .. n : s[i] \in Turn
  BY LenProperties, ElementOfSeq
<1>2. ASSUME NEW i \in 1 .. n PROVE Len(s[i].words) \in Nat
  <2>1. s[i].words \in Trimmed
    BY <1>1 DEF Turn
  <2> QED BY <2>1, TrimmedLen
<1>3. SizeStep \in Folding(Nat, Turn)
  <2>1. ASSUME NEW p \in Nat \X Turn PROVE p[1] + Len(p[2].words) \in Nat
    <3>1. p[2].words \in Trimmed /\ p[1] \in Nat
      BY DEF Turn
    <3> QED BY <3>1, TrimmedLen
  <2> QED BY <2>1 DEF Folding, SizeStep
<1> HIDE DEF n
<1>4. PICK g : IsFold(g, Nat, 0, s, n, SizeStep)
  BY <1>1, <1>3, FoldExists
<1>5. ASSUME NEW t \in SUBSET (1 .. n), t # {}
      PROVE  Max(t) \in 1 .. n /\ t \ {Max(t)} \in SUBSET (1 .. n) /\ s[Max(t)] \in Turn
  <2>1. Max(t) \in t /\ t \ {Max(t)} \in SUBSET (1 .. n)
    BY <1>1, <1>5, LastPlace
  <2> QED BY <1>1, <2>1
<1>6. ASSUME NEW v \in Nat, NEW e \in Turn
      PROVE  SizeStep[<<v, e>>] = v + Len(e.words)
  BY DEF SizeStep
<1>7. g = Body(g)
  <2>1. ASSUME NEW t \in SUBSET (1 .. n)
        PROVE  g[t] = IF t = {} THEN 0 ELSE g[t \ {Max(t)}] + Len(s[Max(t)].words)
    <3>1. g[t] = IF t = {} THEN 0 ELSE SizeStep[<<g[t \ {Max(t)}], s[Max(t)]>>]
      BY <1>4 DEF IsFold
    <3>2. CASE t = {}
      BY <3>1, <3>2
    <3>3. CASE t # {}
      <4>1. g[t \ {Max(t)}] \in Nat
        BY <1>4, <1>5, <3>3 DEF IsFold
      <4> QED BY <1>5, <1>6, <3>1, <3>3, <4>1
    <3> QED BY <3>2, <3>3
  <2>2. g = [t \in SUBSET (1 .. n) |-> g[t]]
    BY <1>4 DEF IsFold
  <2> QED BY <1>1, <2>1, <2>2
<1> DEFINE f == CHOOSE f : f = Body(f)
<1>8. f = Body(f)
  BY <1>7
<1>9. Size(s) = f[1 .. n]
  BY <1>1 DEF Size, FoldLeft, MapThenFoldSet
<1> HIDE DEF f
<1>10. /\ f = [t \in SUBSET (1 .. n) |-> f[t]]
       /\ \A t \in SUBSET (1 .. n) :
            f[t] = IF t = {} THEN 0 ELSE f[t \ {Max(t)}] + Len(s[Max(t)].words)
  <2>1. \A t \in SUBSET (1 .. n) :
            f[t] = IF t = {} THEN 0 ELSE f[t \ {Max(t)}] + Len(s[Max(t)].words)
    BY <1>1, <1>8
  <2>2. f = [t \in SUBSET (1 .. n) |-> f[t]]
    <3>1. \E h : f = [t \in SUBSET (1 .. n) |->
                        IF t = {} THEN 0 ELSE h[t \ {Max(t)}] + Len(s[Max(t)].words)]
      BY <1>1, <1>8
    <3> QED BY <3>1
  <2> QED BY <2>1, <2>2
<1>11. f[{}] = 0
  <2>1. {} \in SUBSET (1 .. n)
    OBVIOUS
  <2> QED BY <1>10, <2>1
<1>12. ASSUME NEW t \in SUBSET (1 .. n), t # {}, f[t \ {Max(t)}] \in Nat
       PROVE  f[t] \in Nat
  <2>1. f[t] = f[t \ {Max(t)}] + Len(s[Max(t)].words)
    BY <1>10, <1>12
  <2>2. Len(s[Max(t)].words) \in Nat
    BY <1>2, <1>5, <1>12
  <2> QED BY <1>12, <2>1, <2>2
<1>13. \A t \in SUBSET (1 .. n) : f[t] \in Nat
  <2>1. StaysIn(f, Nat, n)
    BY <1>11, <1>12 DEF StaysIn
  <2> QED BY <1>1, <2>1, FoldTypes
<1>14. ASSUME NEW t \in SUBSET (1 .. n)
       PROVE  f[t] = IF t = {} THEN 0 ELSE SizeStep[<<f[t \ {Max(t)}], s[Max(t)]>>]
  <2>1. CASE t = {}
    BY <1>11, <2>1
  <2>2. CASE t # {}
    <3>1. f[t \ {Max(t)}] \in Nat
      BY <1>5, <1>13, <2>2
    <3> QED BY <1>5, <1>6, <1>10, <2>2, <3>1
  <2> QED BY <2>1, <2>2
<1>15. IsFold(f, Nat, 0, s, n, SizeStep)
  <2>1. f \in [SUBSET (1 .. n) -> Nat]
    BY <1>10, <1>13
  <2> QED BY <1>14, <2>1 DEF IsFold
<1> QED BY <1>9, <1>15 DEF n

\* So it is counted turn by turn.
LEMMA SizeEmpty == Size(<<>>) = 0
<1>1. <<>> \in Seq(Turn) /\ Len(<<>>) = 0
  BY EmptySeq
<1> DEFINE none == <<>>
<1> HIDE DEF none
<1>2. none \in Seq(Turn) /\ Len(none) = 0
  BY <1>1 DEF none
<1>3. PICK f : IsFold(f, Nat, 0, none, Len(none), SizeStep) /\ Size(none) = f[1 .. Len(none)]
  BY <1>2, SizeIsFold
<1>4. 1 .. Len(none) = {} /\ {} \in SUBSET (1 .. Len(none))
  BY <1>2
<1>5. f[{}] = 0
  BY <1>3, <1>4 DEF IsFold
<1> QED BY <1>3, <1>4, <1>5 DEF none

LEMMA SizeAppend ==
  ASSUME NEW s \in Seq(Turn), NEW e \in Turn
  PROVE  Size(s) \in Nat /\ Size(Append(s, e)) = Size(s) + Len(e.words)
<1> DEFINE r == Append(s, e)
<1>1. r \in Seq(Turn) /\ Len(r) = Len(s) + 1 /\ Len(s) \in Nat /\ r[Len(r)] = e
      /\ \A i \in 1 .. Len(s) : s[i] = r[i]
  BY AppendProperties, LenProperties
<1>2. PICK f : IsFold(f, Nat, 0, s, Len(s), SizeStep) /\ Size(s) = f[1 .. Len(s)]
  BY SizeIsFold
<1> HIDE DEF r
<1>3. PICK g : IsFold(g, Nat, 0, r, Len(r), SizeStep) /\ Size(r) = g[1 .. Len(r)]
  BY <1>1, SizeIsFold
<1>4. g[1 .. Len(r)] = SizeStep[<<f[1 .. Len(s)], r[Len(r)]>>]
  <2>1. FoldsOn(f, g, Nat, 0, s, r, Len(s), Len(r), SizeStep)
    BY <1>1, <1>2, <1>3 DEF FoldsOn
  <2>2. OneMore(f, g, r, Len(s), Len(r), SizeStep)
    BY <2>1, FoldAppends
  <2> QED BY <2>2 DEF OneMore
<1>5. f[1 .. Len(s)] \in Nat
  <2>1. 1 .. Len(s) \in SUBSET (1 .. Len(s))
    OBVIOUS
  <2> QED BY <1>2, <2>1 DEF IsFold
<1>6. SizeStep[<<f[1 .. Len(s)], e>>] = f[1 .. Len(s)] + Len(e.words)
  BY <1>5 DEF SizeStep
<1> QED BY <1>1, <1>2, <1>3, <1>4, <1>5, <1>6 DEF r

\* The kinds of lines.
LEMMA LineFacts ==
  ASSUME NEW l \in Line
  PROVE  \/ l.kind = "blank" /\ l.words = <<>>
         \/ l.kind = "plain" /\ l.words \in Trimmed
         \/ l.kind \in Roles /\ l.words \in Trimmed
BY DEF Line

\* Words joined by a space are words.
LEMMA JoinTrimmed ==
  ASSUME NEW u \in Trimmed, NEW w \in Trimmed
  PROVE  (u \o <<"space">>) \o w \in Trimmed
<1>1. /\ u \in Seq(Characters) /\ Len(u) \in Nat /\ Len(u) > 0
      /\ w \in Seq(Characters) /\ Len(w) \in Nat /\ Len(w) > 0
  BY TrimmedLen
<1>2. <<"space">> \in Seq(Characters) /\ Len(<<"space">>) = 1
  BY DEF Characters
<1> DEFINE v == u \o <<"space">>
           x == v \o w
<1>3. v \in Seq(Characters) /\ Len(v) = Len(u) + 1 /\ v[1] = u[1]
  BY <1>1, <1>2, ConcatProperties
<1> HIDE DEF v
<1>4. x \in Seq(Characters) /\ Len(x) = Len(v) + Len(w) /\ x[1] = v[1]
      /\ x[Len(v) + Len(w)] = w[Len(w)]
  <2>1. Len(v) + Len(w) \in 1 .. Len(v) + Len(w) /\ Len(v) + Len(w) > Len(v)
        /\ (Len(v) + Len(w)) - Len(v) = Len(w) /\ 1 \in 1 .. Len(v) + Len(w) /\ 1 <= Len(v)
    BY <1>1, <1>3
  <2>2. /\ x \in Seq(Characters) /\ Len(x) = Len(v) + Len(w)
        /\ \A i \in 1 .. Len(v) + Len(w) : x[i] = IF i <= Len(v) THEN v[i] ELSE w[i - Len(v)]
    BY <1>1, <1>3, ConcatProperties
  <2> HIDE DEF x
  <2>3. x[1] = v[1]
    BY <2>1, <2>2
  <2>4. x[Len(v) + Len(w)] = w[(Len(v) + Len(w)) - Len(v)]
    BY <1>1, <1>3, <2>1, <2>2
  <2> QED BY <2>1, <2>2, <2>3, <2>4
<1> HIDE DEF x
<1>5. x # <<>>
  BY <1>1, <1>3, <1>4, EmptySeq
<1>6. u[1] # "space" /\ w[Len(w)] # "space"
  BY DEF Trimmed
<1>7. x \in Trimmed
  BY <1>3, <1>4, <1>5, <1>6 DEF Trimmed
<1> QED BY <1>7 DEF v, x

\* A turn with other words.
LEMMA Reworded ==
  ASSUME NEW t \in Turn, NEW w
  PROVE  [t EXCEPT !.words = w] = [role |-> t.role, words |-> w]
BY DEF Turn

\* The elements of a sequence of turns.
LEMMA TurnFacts ==
  ASSUME NEW ts \in Seq(Turn)
  PROVE  /\ Len(ts) \in Nat /\ DOMAIN ts = 1 .. Len(ts)
         /\ \A i \in 1 .. Len(ts) : ts[i] \in Turn
BY LenProperties, ElementOfSeq

\* What a line does to the turns before it.
LEMMA WithLineIs ==
  ASSUME NEW ts \in Seq(Turn), NEW l \in Line
  PROVE  /\ l.kind = "blank" => WithLine(ts, l) = ts
         /\ l.kind = "plain" =>
              WithLine(ts, l) = [i \in 1 .. Len(ts) |->
                                   IF i = Len(ts)
                                   THEN [role |-> ts[i].role,
                                         words |-> (ts[i].words \o <<"space">>) \o l.words]
                                   ELSE ts[i]]
         /\ l.kind \in Roles =>
              WithLine(ts, l) = Append(ts, [role |-> l.kind, words |-> l.words])
<1>1. l.kind = "blank" => WithLine(ts, l) = ts
  BY DEF WithLine
<1>2. ASSUME l.kind = "plain"
      PROVE  WithLine(ts, l) = [i \in 1 .. Len(ts) |->
                                   IF i = Len(ts)
                                   THEN [role |-> ts[i].role,
                                         words |-> (ts[i].words \o <<"space">>) \o l.words]
                                   ELSE ts[i]]
  <2>1. WithLine(ts, l) =
          [ts EXCEPT ![Len(ts)].words = (@ \o <<"space">>) \o l.words]
    BY <1>2 DEF WithLine
  <2>2. ASSUME NEW i \in 1 .. Len(ts)
        PROVE [ts[i] EXCEPT !.words = (@ \o <<"space">>) \o l.words]
                = [role |-> ts[i].role, words |-> (ts[i].words \o <<"space">>) \o l.words]
    <3>1. ts[i] \in Turn
      BY TurnFacts
    <3> QED BY <3>1, Reworded
  <2>3. ts = [i \in 1 .. Len(ts) |-> ts[i]]
    BY TurnFacts
  <2> QED BY <2>1, <2>2, <2>3
<1>3. l.kind \in Roles =>
              WithLine(ts, l) = Append(ts, [role |-> l.kind, words |-> l.words])
  BY DEF WithLine, Roles
<1> QED BY <1>1, <1>2, <1>3

\* A line makes turns of turns.
LEMMA WithLineTypes ==
  ASSUME NEW ts \in Seq(Turn), NEW l \in Line
  PROVE  WithLine(ts, l) \in Seq(Turn)
<1>1. CASE l.kind = "blank"
  BY <1>1, WithLineIs
<1>2. CASE l.kind = "plain"
  <2>1. l.words \in Trimmed
    BY <1>2, LineFacts DEF Roles
  <2>2. ASSUME NEW i \in 1 .. Len(ts)
        PROVE  ts[i] \in Turn /\ [role |-> ts[i].role,
                                  words |-> (ts[i].words \o <<"space">>) \o l.words] \in Turn
    <3>1. ts[i] \in Turn
      BY TurnFacts
    <3>2. ts[i].words \in Trimmed /\ ts[i].role \in Roles
      BY <3>1 DEF Turn
    <3>3. (ts[i].words \o <<"space">>) \o l.words \in Trimmed
      BY <2>1, <3>2, JoinTrimmed
    <3> QED BY <3>1, <3>2, <3>3 DEF Turn
  <2>3. Len(ts) \in Nat
    BY TurnFacts
  <2> DEFINE G(i) == IF i = Len(ts)
                     THEN [role |-> ts[i].role,
                           words |-> (ts[i].words \o <<"space">>) \o l.words]
                     ELSE ts[i]
  <2>4. \A i \in 1 .. Len(ts) : G(i) \in Turn
    BY <2>2
  <2>5. WithLine(ts, l) = [i \in 1 .. Len(ts) |-> G(i)]
    BY <1>2, WithLineIs
  <2> HIDE DEF G
  <2>6. WithLine(ts, l) \in [1 .. Len(ts) -> Turn]
    BY <2>4, <2>5
  <2> QED BY <2>3, <2>6, SeqDef
<1>3. CASE l.kind \in Roles
  <2> DEFINE e == [role |-> l.kind, words |-> l.words]
  <2>1. e \in Turn
    BY <1>3, LineFacts DEF Turn, Roles
  <2>2. WithLine(ts, l) = Append(ts, e)
    BY <1>3, WithLineIs
  <2> HIDE DEF e
  <2> QED BY <2>1, <2>2, AppendProperties
<1> QED BY <1>1, <1>2, <1>3, LineFacts

TurnsStep == [p \in Seq(Turn) \X Line |-> WithLine(p[1], p[2])]

\* Turns is a fold: of the lines.
LEMMA TurnsIsFold ==
  ASSUME NEW s \in Seq(Line)
  PROVE  \E f : IsFold(f, Seq(Turn), <<>>, s, Len(s), TurnsStep) /\ Turns(s) = f[1 .. Len(s)]
<1> DEFINE n == Len(s)
           Body(f) == [t \in SUBSET DOMAIN s |->
                         IF t = {} THEN <<>> ELSE WithLine(f[t \ {Max(t)}], s[Max(t)])]
           e == <<>>
<1>1. n \in Nat /\ DOMAIN s = 1 .. n /\ \A i \in 1 .. n : s[i] \in Line
  BY LenProperties, ElementOfSeq
<1>2. e \in Seq(Turn)
  BY EmptySeq
<1>3. TurnsStep \in Folding(Seq(Turn), Line)
  <2>1. ASSUME NEW p \in Seq(Turn) \X Line PROVE WithLine(p[1], p[2]) \in Seq(Turn)
    <3>1. p[1] \in Seq(Turn) /\ p[2] \in Line
      OBVIOUS
    <3> QED BY <3>1, WithLineTypes
  <2> QED BY <2>1 DEF Folding, TurnsStep
<1> HIDE DEF n, e
<1>4. PICK g : IsFold(g, Seq(Turn), e, s, n, TurnsStep)
  BY <1>1, <1>2, <1>3, FoldExists
<1>5. ASSUME NEW t \in SUBSET (1 .. n), t # {}
      PROVE  Max(t) \in 1 .. n /\ t \ {Max(t)} \in SUBSET (1 .. n) /\ s[Max(t)] \in Line
  <2>1. Max(t) \in t /\ t \ {Max(t)} \in SUBSET (1 .. n)
    BY <1>1, <1>5, LastPlace
  <2> QED BY <1>1, <2>1
<1>6. ASSUME NEW v \in Seq(Turn), NEW l \in Line
      PROVE  TurnsStep[<<v, l>>] = WithLine(v, l)
  BY DEF TurnsStep
<1>7. g = Body(g)
  <2>1. ASSUME NEW t \in SUBSET (1 .. n)
        PROVE  g[t] = IF t = {} THEN e ELSE WithLine(g[t \ {Max(t)}], s[Max(t)])
    <3>1. g[t] = IF t = {} THEN e ELSE TurnsStep[<<g[t \ {Max(t)}], s[Max(t)]>>]
      BY <1>4 DEF IsFold
    <3>2. CASE t = {}
      BY <3>1, <3>2
    <3>3. CASE t # {}
      <4>1. g[t \ {Max(t)}] \in Seq(Turn)
        BY <1>4, <1>5, <3>3 DEF IsFold
      <4> QED BY <1>5, <1>6, <3>1, <3>3, <4>1
    <3> QED BY <3>2, <3>3
  <2>2. g = [t \in SUBSET (1 .. n) |-> g[t]]
    BY <1>4 DEF IsFold
  <2> QED BY <1>1, <2>1, <2>2 DEF e
<1> DEFINE f == CHOOSE f : f = Body(f)
<1>8. f = Body(f)
  BY <1>7
<1>9. Turns(s) = f[1 .. n]
  BY <1>1 DEF Turns, FoldLeft, MapThenFoldSet
<1> HIDE DEF f
<1>10. /\ f = [t \in SUBSET (1 .. n) |-> f[t]]
       /\ \A t \in SUBSET (1 .. n) :
            f[t] = IF t = {} THEN e ELSE WithLine(f[t \ {Max(t)}], s[Max(t)])
  <2>1. \A t \in SUBSET (1 .. n) :
            f[t] = IF t = {} THEN e ELSE WithLine(f[t \ {Max(t)}], s[Max(t)])
    BY <1>1, <1>8 DEF e
  <2>2. f = [t \in SUBSET (1 .. n) |-> f[t]]
    <3>1. \E h : f = [t \in SUBSET (1 .. n) |->
                        IF t = {} THEN <<>> ELSE WithLine(h[t \ {Max(t)}], s[Max(t)])]
      BY <1>1, <1>8
    <3> QED BY <3>1
  <2> QED BY <2>1, <2>2
<1>11. f[{}] = e
  <2>1. {} \in SUBSET (1 .. n)
    OBVIOUS
  <2> QED BY <1>10, <2>1
<1>12. ASSUME NEW t \in SUBSET (1 .. n), t # {}, f[t \ {Max(t)}] \in Seq(Turn)
       PROVE  f[t] \in Seq(Turn)
  <2>1. f[t] = WithLine(f[t \ {Max(t)}], s[Max(t)])
    BY <1>10, <1>12
  <2>2. s[Max(t)] \in Line
    BY <1>5, <1>12
  <2> QED BY <1>12, <2>1, <2>2, WithLineTypes
<1>13. \A t \in SUBSET (1 .. n) : f[t] \in Seq(Turn)
  <2>1. StaysIn(f, Seq(Turn), n)
    BY <1>2, <1>11, <1>12 DEF StaysIn
  <2> QED BY <1>1, <2>1, FoldTypes
<1>14. ASSUME NEW t \in SUBSET (1 .. n)
       PROVE  f[t] = IF t = {} THEN e ELSE TurnsStep[<<f[t \ {Max(t)}], s[Max(t)]>>]
  <2>1. CASE t = {}
    BY <1>11, <2>1
  <2>2. CASE t # {}
    <3>1. f[t \ {Max(t)}] \in Seq(Turn)
      BY <1>5, <1>13, <2>2
    <3> QED BY <1>5, <1>6, <1>10, <2>2, <3>1
  <2> QED BY <2>1, <2>2
<1>15. IsFold(f, Seq(Turn), e, s, n, TurnsStep)
  <2>1. f \in [SUBSET (1 .. n) -> Seq(Turn)]
    BY <1>10, <1>13
  <2> QED BY <1>14, <2>1 DEF IsFold
<1> QED BY <1>9, <1>15 DEF n, e

\* A text without lines has no turns.
LEMMA TurnsEmpty == Turns(<<>>) = <<>>
<1> DEFINE none == <<>>
<1>1. none \in Seq(Line) /\ Len(none) = 0
  BY EmptySeq
<1> HIDE DEF none
<1>3. PICK f : IsFold(f, Seq(Turn), <<>>, none, Len(none), TurnsStep)
                 /\ Turns(none) = f[1 .. Len(none)]
  BY <1>1, TurnsIsFold
<1>4. 1 .. Len(none) = {} /\ {} \in SUBSET (1 .. Len(none))
  BY <1>1
<1>5. f[{}] = <<>>
  BY <1>3, <1>4 DEF IsFold
<1> QED BY <1>3, <1>4, <1>5 DEF none

\* A text is read line by line.
LEMMA TurnsAppend ==
  ASSUME NEW s \in Seq(Line), NEW l \in Line
  PROVE  Turns(s) \in Seq(Turn) /\ Turns(Append(s, l)) = WithLine(Turns(s), l)
<1> DEFINE r == Append(s, l)
           e == <<>>
<1>1. r \in Seq(Line) /\ Len(r) = Len(s) + 1 /\ Len(s) \in Nat /\ r[Len(r)] = l
      /\ \A i \in 1 .. Len(s) : s[i] = r[i]
  BY AppendProperties, LenProperties
<1>2. PICK f : IsFold(f, Seq(Turn), e, s, Len(s), TurnsStep) /\ Turns(s) = f[1 .. Len(s)]
  BY TurnsIsFold
<1> HIDE DEF r
<1>3. PICK g : IsFold(g, Seq(Turn), e, r, Len(r), TurnsStep) /\ Turns(r) = g[1 .. Len(r)]
  BY <1>1, TurnsIsFold
<1> HIDE DEF e
<1>4. g[1 .. Len(r)] = TurnsStep[<<f[1 .. Len(s)], r[Len(r)]>>]
  <2>1. FoldsOn(f, g, Seq(Turn), e, s, r, Len(s), Len(r), TurnsStep)
    BY <1>1, <1>2, <1>3 DEF FoldsOn
  <2>2. OneMore(f, g, r, Len(s), Len(r), TurnsStep)
    BY <2>1, FoldAppends
  <2> QED BY <2>2 DEF OneMore
<1>5. f[1 .. Len(s)] \in Seq(Turn)
  <2>1. 1 .. Len(s) \in SUBSET (1 .. Len(s))
    OBVIOUS
  <2> QED BY <1>2, <2>1 DEF IsFold
<1>6. TurnsStep[<<f[1 .. Len(s)], l>>] = WithLine(f[1 .. Len(s)], l)
  BY <1>5 DEF TurnsStep
<1> QED BY <1>1, <1>2, <1>3, <1>4, <1>5, <1>6 DEF r

-----------------------------------------------------------------------------
(***************************************************************************)
(* What is heard of words and of turns.                                    *)
(***************************************************************************)

Sound == Roles \X Characters

Syllables(role, w) == [i \in DOMAIN w |-> IF w[i] = "space" THEN <<>> ELSE <<<<role, w[i]>>>>]

\* Two sequences, one of which is the concatenation of two others.
Joins(c, a, b) ==
  /\ Len(c) = Len(a) + Len(b)
  /\ \A i \in 1 .. Len(a) : c[i] = a[i]
  /\ \A i \in 1 .. Len(b) : c[Len(a) + i] = b[i]

LEMMA IsConcat ==
  ASSUME NEW S, NEW a \in Seq(S), NEW b \in Seq(S), NEW c \in Seq(S), Joins(c, a, b)
  PROVE  c = a \o b
<1> USE DEF Joins
<1>1. /\ Len(a) \in Nat /\ Len(b) \in Nat /\ a \o b \in Seq(S)
      /\ Len(a \o b) = Len(a) + Len(b)
      /\ \A i \in 1 .. Len(a) + Len(b) :
           (a \o b)[i] = IF i <= Len(a) THEN a[i] ELSE b[i - Len(a)]
  BY ConcatProperties, LenProperties
<1>2. ASSUME NEW i \in 1 .. Len(c) PROVE c[i] = (a \o b)[i]
  <2>1. CASE i <= Len(a)
    BY <1>1, <2>1
  <2>2. CASE ~(i <= Len(a))
    <3>1. i - Len(a) \in 1 .. Len(b) /\ Len(a) + (i - Len(a)) = i
      BY <1>1, <2>2
    <3>2. c[Len(a) + (i - Len(a))] = b[i - Len(a)]
      BY <3>1
    <3>3. (a \o b)[i] = b[i - Len(a)]
      BY <1>1, <2>2
    <3> QED BY <3>1, <3>2, <3>3
  <2> QED BY <2>1, <2>2
<1> QED BY <1>1, <1>2, SeqEqual

\* What is heard, character by character.
LEMMA SyllablesTypes ==
  ASSUME NEW role \in Roles, NEW w \in Seq(Characters)
  PROVE  /\ Syllables(role, w) \in Seq(Seq(Sound))
         /\ Len(Syllables(role, w)) = Len(w)
         /\ \A i \in 1 .. Len(w) :
              Syllables(role, w)[i] = IF w[i] = "space" THEN <<>> ELSE <<<<role, w[i]>>>>
<1>1. Len(w) \in Nat /\ DOMAIN w = 1 .. Len(w) /\ \A i \in 1 .. Len(w) : w[i] \in Characters
  BY LenProperties, ElementOfSeq
<1>2. ASSUME NEW i \in 1 .. Len(w)
      PROVE  (IF w[i] = "space" THEN <<>> ELSE <<<<role, w[i]>>>>) \in Seq(Sound)
  <2>1. <<role, w[i]>> \in Sound
    BY <1>1 DEF Sound
  <2> QED BY <2>1
<1>3. Syllables(role, w) \in [1 .. Len(w) -> Seq(Sound)]
  BY <1>1, <1>2 DEF Syllables
<1>4. Syllables(role, w) \in Seq(Seq(Sound))
  BY <1>1, <1>3, SeqDef
<1>5. Len(Syllables(role, w)) = Len(w)
  <2>1. DOMAIN Syllables(role, w) = 1 .. Len(w)
    BY <1>3
  <2> QED BY <1>1, <1>4, <2>1, LenProperties
<1>6. \A i \in 1 .. Len(w) :
        Syllables(role, w)[i] = IF w[i] = "space" THEN <<>> ELSE <<<<role, w[i]>>>>
  BY <1>1 DEF Syllables
<1> QED BY <1>4, <1>5, <1>6

LEMMA HeardIs ==
  ASSUME NEW role, NEW w
  PROVE  Heard(role, w) = FlattenSeq(Syllables(role, w))
BY DEF Heard, Syllables

LEMMA FlattenTypes ==
  ASSUME NEW S, NEW ss \in Seq(Seq(S))
  PROVE  FlattenSeq(ss) \in Seq(S)
<1>1. <<>> \in Seq(S)
  BY EmptySeq
<1> QED BY <1>1, FlattenAppend

LEMMA HeardTypes ==
  ASSUME NEW role \in Roles, NEW w \in Seq(Characters)
  PROVE  Heard(role, w) \in Seq(Sound)
BY HeardIs, SyllablesTypes, FlattenTypes

\* What is heard of words said one after the other.
LEMMA HeardConcat ==
  ASSUME NEW role \in Roles, NEW u \in Seq(Characters), NEW w \in Seq(Characters)
  PROVE  Heard(role, u \o w) = Heard(role, u) \o Heard(role, w)
<1> DEFINE v == u \o w
<1>1. /\ v \in Seq(Characters) /\ Len(v) = Len(u) + Len(w) /\ Len(u) \in Nat /\ Len(w) \in Nat
      /\ \A i \in 1 .. Len(u) + Len(w) : v[i] = IF i <= Len(u) THEN u[i] ELSE w[i - Len(u)]
  BY ConcatProperties, LenProperties
<1> HIDE DEF v
<1> DEFINE a == Syllables(role, u)
           b == Syllables(role, w)
           c == Syllables(role, v)
<1>2. /\ a \in Seq(Seq(Sound)) /\ Len(a) = Len(u)
      /\ b \in Seq(Seq(Sound)) /\ Len(b) = Len(w)
      /\ c \in Seq(Seq(Sound)) /\ Len(c) = Len(v)
  BY <1>1, SyllablesTypes
<1>3. ASSUME NEW i \in 1 .. Len(u) PROVE c[i] = a[i]
  <2>1. i \in 1 .. Len(v) /\ v[i] = u[i]
    BY <1>1
  <2>2. a[i] = IF u[i] = "space" THEN <<>> ELSE <<<<role, u[i]>>>>
    BY SyllablesTypes
  <2>3. c[i] = IF v[i] = "space" THEN <<>> ELSE <<<<role, v[i]>>>>
    BY <1>1, <2>1, SyllablesTypes
  <2> HIDE DEF a, c
  <2> QED BY <2>1, <2>2, <2>3
<1>4. ASSUME NEW i \in 1 .. Len(w) PROVE c[Len(u) + i] = b[i]
  <2>1. Len(u) + i \in 1 .. Len(v) /\ v[Len(u) + i] = w[i]
    <3>1. /\ Len(u) + i \in 1 .. Len(u) + Len(w)
          /\ ~(Len(u) + i <= Len(u)) /\ (Len(u) + i) - Len(u) = i
      BY <1>1
    <3>2. v[Len(u) + i] = w[(Len(u) + i) - Len(u)]
      BY <1>1, <3>1
    <3> QED BY <1>1, <3>1, <3>2
  <2>2. b[i] = IF w[i] = "space" THEN <<>> ELSE <<<<role, w[i]>>>>
    BY SyllablesTypes
  <2>3. c[Len(u) + i] = IF v[Len(u) + i] = "space" THEN <<>> ELSE <<<<role, v[Len(u) + i]>>>>
    BY <1>1, <2>1, SyllablesTypes
  <2> HIDE DEF b, c
  <2> QED BY <2>1, <2>2, <2>3
<1> HIDE DEF a, b, c
<1>5. c = a \o b
  <2>1. Joins(c, a, b)
    BY <1>1, <1>2, <1>3, <1>4 DEF Joins
  <2> QED BY <1>2, <2>1, IsConcat
<1>6. FlattenSeq(c) = FlattenSeq(a) \o FlattenSeq(b)
  BY <1>2, <1>5, FlattenConcat
<1> QED BY <1>6, HeardIs DEF a, b, c, v

\* Spaces are not heard.
LEMMA HeardSpaces ==
  ASSUME NEW role \in Roles, NEW w \in Seq(Characters),
         \A i \in 1 .. Len(w) : w[i] = "space"
  PROVE  Heard(role, w) = <<>>
<1> DEFINE T == {u \in Seq(Characters) :
                   (\A i \in 1 .. Len(u) : u[i] = "space") => Heard(role, u) = <<>>}
<1>1. <<>> \in T
  <2> DEFINE none == <<>>
  <2>1. none \in Seq(Characters) /\ Syllables(role, none) = <<>>
    <3>1. none \in Seq(Characters) /\ Len(none) = 0
      BY EmptySeq
    <3> HIDE DEF none
    <3>2. Syllables(role, none) \in Seq(Seq(Sound)) /\ Len(Syllables(role, none)) = 0
      BY <3>1, SyllablesTypes
    <3>3. Syllables(role, none) = <<>>
      BY <3>2, EmptySeq
    <3> QED BY <3>1, <3>3
  <2>2. Heard(role, none) = <<>>
    BY <2>1, HeardIs, FlattenEmpty
  <2> QED BY <2>1, <2>2
<1>2. ASSUME NEW u \in Seq(Characters), NEW c \in Characters, u \in T
      PROVE  Append(u, c) \in T
  <2> DEFINE v == Append(u, c)
  <2>1. /\ v \in Seq(Characters) /\ Len(v) = Len(u) + 1 /\ Len(u) \in Nat
        /\ (\A i \in 1 .. Len(u) : v[i] = u[i]) /\ v[Len(u) + 1] = c
        /\ v = u \o <<c>>
    BY AppendProperties, LenProperties, AppendIsConcat
  <2> HIDE DEF v
  <2> SUFFICES ASSUME \A i \in 1 .. Len(v) : v[i] = "space" PROVE Heard(role, v) = <<>>
    BY <2>1 DEF v
  <2>2. c = "space" /\ \A i \in 1 .. Len(u) : u[i] = "space"
    BY <2>1
  <2>3. Heard(role, u) = <<>>
    BY <1>2, <2>2
  <2> DEFINE o == <<c>>
  <2>4. o \in Seq(Characters) /\ Len(o) = 1 /\ o[1] = "space"
    BY <2>2
  <2>5. Heard(role, o) = <<>>
    <3> HIDE DEF o
    <3>1. /\ Syllables(role, o) \in Seq(Seq(Sound)) /\ Len(Syllables(role, o)) = 1
          /\ Syllables(role, o)[1] = <<>>
      <4>1. Syllables(role, o) \in Seq(Seq(Sound)) /\ Len(Syllables(role, o)) = Len(o)
            /\ \A i \in 1 .. Len(o) :
                 Syllables(role, o)[i] = IF o[i] = "space" THEN <<>> ELSE <<<<role, o[i]>>>>
        BY <2>4, SyllablesTypes
      <4>2. 1 \in 1 .. Len(o)
        BY <2>4
      <4>3. Syllables(role, o)[1] = <<>>
        BY <2>4, <4>1, <4>2
      <4> QED BY <2>4, <4>1, <4>3
    <3>2. Syllables(role, o) = << <<>> >>
      BY <3>1
    <3>3. FlattenSeq(<< <<>> >>) = <<>>
      <4> DEFINE none == <<>>
      <4>1. none \in Seq(Sound)
        BY EmptySeq
      <4> HIDE DEF none
      <4>2. FlattenSeq(<<none>>) = none
        BY <4>1, FlattenOne
      <4> QED BY <4>2 DEF none
    <3> QED BY <3>2, <3>3, HeardIs
  <2>6. Heard(role, v) = Heard(role, u) \o Heard(role, o)
    <3> HIDE DEF o
    <3>1. v = u \o o
      BY <2>1 DEF o
    <3> QED BY <2>4, <3>1, HeardConcat
  <2> QED BY <2>3, <2>5, <2>6
<1> HIDE DEF T
<1>3. Seq(Characters) \subseteq T
  BY <1>1, <1>2, SeqInduction
<1> QED BY <1>3 DEF T

-----------------------------------------------------------------------------
Voices(ts) == [i \in DOMAIN ts |-> Heard(ts[i].role, ts[i].words)]

\* What is heard, turn by turn.
LEMMA VoicesTypes ==
  ASSUME NEW ts \in Seq(Turn)
  PROVE  /\ Voices(ts) \in Seq(Seq(Sound)) /\ Len(Voices(ts)) = Len(ts)
         /\ \A i \in 1 .. Len(ts) : Voices(ts)[i] = Heard(ts[i].role, ts[i].words)
         /\ HeardIn(ts) = FlattenSeq(Voices(ts)) /\ HeardIn(ts) \in Seq(Sound)
<1>1. Len(ts) \in Nat /\ DOMAIN ts = 1 .. Len(ts) /\ \A i \in 1 .. Len(ts) : ts[i] \in Turn
  BY TurnFacts
<1>2. ASSUME NEW i \in 1 .. Len(ts)
      PROVE  Heard(ts[i].role, ts[i].words) \in Seq(Sound)
  <2>1. ts[i].role \in Roles /\ ts[i].words \in Seq(Characters)
    BY <1>1, TrimmedLen DEF Turn
  <2> QED BY <2>1, HeardTypes
<1>3. Voices(ts) \in [1 .. Len(ts) -> Seq(Sound)]
  BY <1>1, <1>2 DEF Voices
<1>4. Voices(ts) \in Seq(Seq(Sound))
  BY <1>1, <1>3, SeqDef
<1>5. Len(Voices(ts)) = Len(ts)
  <2>1. DOMAIN Voices(ts) = 1 .. Len(ts)
    BY <1>3
  <2> QED BY <1>1, <1>4, <2>1, LenProperties
<1>6. \A i \in 1 .. Len(ts) : Voices(ts)[i] = Heard(ts[i].role, ts[i].words)
  BY <1>1 DEF Voices
<1>7. HeardIn(ts) = FlattenSeq(Voices(ts))
  BY DEF HeardIn, Voices
<1> QED BY <1>4, <1>5, <1>6, <1>7, FlattenTypes

LEMMA HeardInEmpty == HeardIn(<<>>) = <<>>
<1> DEFINE none == <<>>
<1>1. none \in Seq(Turn) /\ Len(none) = 0
  BY EmptySeq
<1> HIDE DEF none
<1>2. Voices(none) \in Seq(Seq(Sound)) /\ Len(Voices(none)) = 0
  BY <1>1, VoicesTypes
<1>3. Voices(none) = <<>>
  BY <1>2, EmptySeq
<1>4. HeardIn(none) = <<>>
  BY <1>1, <1>3, VoicesTypes, FlattenEmpty
<1> QED BY <1>4 DEF none

LEMMA HeardInOne ==
  ASSUME NEW t \in Turn
  PROVE  HeardIn(<<t>>) = Heard(t.role, t.words)
<1> DEFINE ts == <<t>>
<1>1. ts \in Seq(Turn) /\ Len(ts) = 1 /\ ts[1] = t
  OBVIOUS
<1> HIDE DEF ts
<1> DEFINE h == Heard(t.role, t.words)
<1>2. h \in Seq(Sound)
  <2>1. t.role \in Roles /\ t.words \in Seq(Characters)
    BY TrimmedLen DEF Turn
  <2> QED BY <2>1, HeardTypes
<1>3. Voices(ts) \in Seq(Seq(Sound)) /\ Len(Voices(ts)) = 1 /\ Voices(ts)[1] = h
  BY <1>1, VoicesTypes
<1> HIDE DEF h
<1>4. Voices(ts) = <<h>>
  BY <1>3
<1>5. HeardIn(ts) = h
  BY <1>1, <1>2, <1>4, VoicesTypes, FlattenOne
<1> QED BY <1>5 DEF h, ts

\* What is heard of turns said one after the other.
LEMMA HeardInConcat ==
  ASSUME NEW u \in Seq(Turn), NEW w \in Seq(Turn)
  PROVE  HeardIn(u \o w) = HeardIn(u) \o HeardIn(w)
<1> DEFINE v == u \o w
<1>1. /\ v \in Seq(Turn) /\ Len(v) = Len(u) + Len(w) /\ Len(u) \in Nat /\ Len(w) \in Nat
      /\ \A i \in 1 .. Len(u) + Len(w) : v[i] = IF i <= Len(u) THEN u[i] ELSE w[i - Len(u)]
  BY ConcatProperties, LenProperties
<1> HIDE DEF v
<1> DEFINE a == Voices(u)
           b == Voices(w)
           c == Voices(v)
<1>2. /\ a \in Seq(Seq(Sound)) /\ Len(a) = Len(u)
      /\ b \in Seq(Seq(Sound)) /\ Len(b) = Len(w)
      /\ c \in Seq(Seq(Sound)) /\ Len(c) = Len(v)
  BY <1>1, VoicesTypes
<1>3. ASSUME NEW i \in 1 .. Len(u) PROVE c[i] = a[i]
  <2>1. i \in 1 .. Len(v) /\ v[i] = u[i]
    BY <1>1
  <2>2. a[i] = Heard(u[i].role, u[i].words)
    BY VoicesTypes
  <2>3. c[i] = Heard(v[i].role, v[i].words)
    BY <1>1, <2>1, VoicesTypes
  <2> HIDE DEF a, c
  <2> QED BY <2>1, <2>2, <2>3
<1>4. ASSUME NEW i \in 1 .. Len(w) PROVE c[Len(u) + i] = b[i]
  <2>1. Len(u) + i \in 1 .. Len(v) /\ v[Len(u) + i] = w[i]
    <3>1. /\ Len(u) + i \in 1 .. Len(u) + Len(w)
          /\ ~(Len(u) + i <= Len(u)) /\ (Len(u) + i) - Len(u) = i
      BY <1>1
    <3>2. v[Len(u) + i] = w[(Len(u) + i) - Len(u)]
      BY <1>1, <3>1
    <3> QED BY <1>1, <3>1, <3>2
  <2>2. b[i] = Heard(w[i].role, w[i].words)
    BY VoicesTypes
  <2>3. c[Len(u) + i] = Heard(v[Len(u) + i].role, v[Len(u) + i].words)
    BY <1>1, <2>1, VoicesTypes
  <2> HIDE DEF b, c
  <2> QED BY <2>1, <2>2, <2>3
<1> HIDE DEF a, b, c
<1>5. c = a \o b
  <2>1. Joins(c, a, b)
    BY <1>1, <1>2, <1>3, <1>4 DEF Joins
  <2> QED BY <1>2, <2>1, IsConcat
<1>6. FlattenSeq(c) = FlattenSeq(a) \o FlattenSeq(b)
  BY <1>2, <1>5, FlattenConcat
<1> QED BY <1>1, <1>6, VoicesTypes DEF a, b, c, v

-----------------------------------------------------------------------------
(***************************************************************************)
(* What a text says, and what the parser makes of it: line by line they    *)
(* agree, as whoever speaks goes on speaking until the next marker.        *)
(***************************************************************************)

Opens(t)  == \A i \in 1 .. Len(t) : t[i].kind = "plain" => \E j \in 1 .. i : t[j].kind \in Roles
Marks(t, i) == {j \in 1 .. i : t[j].kind \in Roles}
Marked(t) == Marks(t, Len(t)) # {}

\* The elements of a text.
LEMMA TextFacts ==
  ASSUME NEW t \in Seq(Line)
  PROVE  /\ Len(t) \in Nat /\ DOMAIN t = 1 .. Len(t)
         /\ \A i \in 1 .. Len(t) : t[i] \in Line
BY LenProperties, ElementOfSeq

\* The speaker of a line has the last marker at or above it.
LEMMA SpeakerIs ==
  ASSUME NEW t, NEW i \in Nat, Marks(t, i) # {}
  PROVE  /\ SpeakerOf(t, i) = t[Max(Marks(t, i))].kind
         /\ Max(Marks(t, i)) \in Marks(t, i)
         /\ \A j \in Marks(t, i) : j <= Max(Marks(t, i))
         /\ SpeakerOf(t, i) \in Roles
<1>1. Marks(t, i) \in SUBSET (0 .. i)
  BY DEF Marks
<1>2. Max(Marks(t, i)) \in Marks(t, i) /\ \A j \in Marks(t, i) : j <= Max(Marks(t, i))
  BY <1>1, Greatest
<1>3. SpeakerOf(t, i) = t[Max(Marks(t, i))].kind
  BY DEF SpeakerOf, Marks
<1>4. t[Max(Marks(t, i))].kind \in Roles
  BY <1>2 DEF Marks
<1> QED BY <1>2, <1>3, <1>4

\* In a text that parses no plain line comes before the first marker.
LEMMA ParsesOpens ==
  ASSUME NEW t \in Seq(Line), Parses(t)
  PROVE  Opens(t) /\ Marked(t)
<1>1. Len(t) \in Nat /\ DOMAIN t = 1 .. Len(t)
  BY TextFacts
<1>2. PICK m \in 1 .. Len(t) : t[m].kind \in Roles /\ \A j \in 1 .. m - 1 : t[j].kind = "blank"
  BY <1>1 DEF Parses
<1>3. ASSUME NEW i \in 1 .. Len(t), t[i].kind = "plain" PROVE m \in 1 .. i
  <2>1. ~(i \in 1 .. m - 1)
    BY <1>2, <1>3
  <2> QED BY <1>1, <2>1
<1>4. Opens(t)
  BY <1>2, <1>3 DEF Opens
<1> QED BY <1>2, <1>4 DEF Marked, Marks

AddsLine(r, s, l) == r = Append(s, l)

\* A text with one more line.
LEMMA Longer ==
  ASSUME NEW s \in Seq(Line), NEW l \in Line, NEW r, AddsLine(r, s, l)
  PROVE  /\ r \in Seq(Line) /\ Len(s) \in Nat /\ Len(r) = Len(s) + 1 /\ r[Len(s) + 1] = l
         /\ \A i \in 1 .. Len(s) : r[i] = s[i]
         /\ \A i \in 1 .. Len(s) : Marks(r, i) = Marks(s, i)
         /\ l.kind \in Roles => Marks(r, Len(s) + 1) = Marks(s, Len(s)) \cup {Len(s) + 1}
         /\ l.kind \notin Roles => Marks(r, Len(s) + 1) = Marks(s, Len(s))
         /\ Opens(r) => Opens(s)
<1>1. /\ r \in Seq(Line) /\ Len(s) \in Nat /\ Len(r) = Len(s) + 1 /\ r[Len(s) + 1] = l
      /\ \A i \in 1 .. Len(s) : r[i] = s[i]
  BY AppendProperties, LenProperties DEF AddsLine
<1>2. ASSUME NEW i \in 1 .. Len(s) PROVE Marks(r, i) = Marks(s, i)
  <2>1. \A j \in 1 .. i : j \in 1 .. Len(s)
    BY <1>1
  <2> QED BY <1>1, <2>1 DEF Marks
<1>3. \A j \in 1 .. Len(s) + 1 : j \in 1 .. Len(s) \/ j = Len(s) + 1
  BY <1>1
<1>4. l.kind \in Roles => Marks(r, Len(s) + 1) = Marks(s, Len(s)) \cup {Len(s) + 1}
  BY <1>1, <1>3 DEF Marks
<1>5. l.kind \notin Roles => Marks(r, Len(s) + 1) = Marks(s, Len(s))
  BY <1>1, <1>3 DEF Marks
<1>6. ASSUME Opens(r) PROVE Opens(s)
  <2> SUFFICES ASSUME NEW i \in 1 .. Len(s), s[i].kind = "plain"
               PROVE  \E j \in 1 .. i : s[j].kind \in Roles
    BY DEF Opens
  <2>1. i \in 1 .. Len(r) /\ r[i] = s[i]
    BY <1>1
  <2>2. PICK j \in 1 .. i : r[j].kind \in Roles
    BY <1>6, <2>1 DEF Opens
  <2>3. j \in 1 .. Len(s)
    BY <1>1
  <2> QED BY <1>1, <2>2, <2>3
<1> QED BY <1>1, <1>2, <1>4, <1>5, <1>6

\* One more line changes no speaker above it.
LEMMA SpeakerStays ==
  ASSUME NEW s \in Seq(Line), NEW l \in Line, NEW r, AddsLine(r, s, l),
         NEW i \in 1 .. Len(s), Marks(s, i) # {}
  PROVE  SpeakerOf(r, i) = SpeakerOf(s, i)
<1>1. Len(s) \in Nat /\ i \in Nat /\ i <= Len(s) /\ Marks(r, i) = Marks(s, i)
      /\ \A j \in 1 .. Len(s) : r[j] = s[j]
  BY Longer
<1> PICK m : m = Max(Marks(s, i))
  OBVIOUS
<1>2. m \in Marks(s, i) /\ SpeakerOf(s, i) = s[m].kind /\ SpeakerOf(r, i) = r[m].kind
  BY <1>1, SpeakerIs
<1>3. m \in 1 .. Len(s)
  BY <1>1, <1>2 DEF Marks
<1> QED BY <1>1, <1>2, <1>3

\* Whoever speaks goes on speaking until the next marker.
LEMMA SpeakerGoesOn ==
  ASSUME NEW s \in Seq(Line), NEW l \in Line, NEW r, AddsLine(r, s, l),
         l.kind \notin Roles, Marked(s)
  PROVE  SpeakerOf(r, Len(r)) = SpeakerOf(s, Len(s))
<1>1. Len(s) \in Nat /\ Len(r) = Len(s) + 1 /\ Marks(r, Len(r)) = Marks(s, Len(s))
      /\ \A j \in 1 .. Len(s) : r[j] = s[j]
  BY Longer
<1> PICK m : m = Max(Marks(s, Len(s)))
  OBVIOUS
<1>2. m \in Marks(s, Len(s)) /\ SpeakerOf(s, Len(s)) = s[m].kind
  BY <1>1, SpeakerIs DEF Marked
<1>3. SpeakerOf(r, Len(r)) = r[m].kind
  <2>1. Len(r) \in Nat /\ Marks(r, Len(r)) # {}
    BY <1>1 DEF Marked
  <2> QED BY <1>1, <2>1, SpeakerIs
<1>4. m \in 1 .. Len(s)
  BY <1>2 DEF Marks
<1> QED BY <1>1, <1>2, <1>3, <1>4

\* A marker names the speaker.
LEMMA SpeakerBegins ==
  ASSUME NEW s \in Seq(Line), NEW l \in Line, NEW r, AddsLine(r, s, l), l.kind \in Roles
  PROVE  SpeakerOf(r, Len(r)) = l.kind /\ Marked(r)
<1>1. /\ Len(s) \in Nat /\ Len(r) = Len(s) + 1 /\ r[Len(s) + 1] = l
      /\ Marks(r, Len(r)) = Marks(s, Len(s)) \cup {Len(s) + 1}
  BY Longer
<1>2. Len(r) \in Nat /\ Len(r) \in Marks(r, Len(r))
  BY <1>1
<1> PICK m : m = Max(Marks(r, Len(r)))
  OBVIOUS
<1>3. m \in Marks(r, Len(r)) /\ Len(r) <= m /\ SpeakerOf(r, Len(r)) = r[m].kind
  BY <1>2, SpeakerIs
<1>4. m = Len(s) + 1
  <2>1. m \in 1 .. Len(r)
    BY <1>3 DEF Marks
  <2> QED BY <1>1, <1>2, <1>3, <2>1
<1> QED BY <1>1, <1>2, <1>3, <1>4 DEF Marked

-----------------------------------------------------------------------------
HeardAt(t, i) == IF t[i].kind = "blank" THEN <<>> ELSE Heard(SpeakerOf(t, i), t[i].words)
Lines(t) == [i \in DOMAIN t |-> HeardAt(t, i)]

\* What is heard, line by line.
LEMMA LinesTypes ==
  ASSUME NEW t \in Seq(Line), Opens(t)
  PROVE  /\ Lines(t) \in Seq(Seq(Sound)) /\ Len(Lines(t)) = Len(t)
         /\ \A i \in 1 .. Len(t) : Lines(t)[i] = HeardAt(t, i) /\ HeardAt(t, i) \in Seq(Sound)
         /\ HeardOf(t) = FlattenSeq(Lines(t)) /\ HeardOf(t) \in Seq(Sound)
<1>1. Len(t) \in Nat /\ DOMAIN t = 1 .. Len(t) /\ \A i \in 1 .. Len(t) : t[i] \in Line
  BY TextFacts
<1>2. ASSUME NEW i \in 1 .. Len(t) PROVE HeardAt(t, i) \in Seq(Sound)
  <2>0. t[i] \in Line
    BY <1>1
  <2>1. CASE t[i].kind = "blank"
    <3> DEFINE none == <<>>
    <3>1. none \in Seq(Sound)
      BY EmptySeq
    <3> QED BY <2>1, <3>1 DEF HeardAt
  <2>2. CASE t[i].kind # "blank"
    <3>1. t[i].words \in Seq(Characters)
      BY <2>0, <2>2, LineFacts, TrimmedLen
    <3>2. Marks(t, i) # {}
      <4>1. CASE t[i].kind = "plain"
        BY <4>1 DEF Opens, Marks
      <4>2. CASE t[i].kind \in Roles
        <5>1. i \in 1 .. i
          BY <1>1
        <5> QED BY <4>2, <5>1 DEF Marks
      <4> QED BY <2>0, <2>2, <4>1, <4>2, LineFacts
    <3>3. SpeakerOf(t, i) \in Roles
      <4>1. i \in Nat
        OBVIOUS
      <4> QED BY <3>2, <4>1, SpeakerIs
    <3>4. Heard(SpeakerOf(t, i), t[i].words) \in Seq(Sound)
      BY <3>1, <3>3, HeardTypes
    <3> QED BY <2>2, <3>4 DEF HeardAt
  <2> QED BY <2>1, <2>2
<1>3. Lines(t) \in [1 .. Len(t) -> Seq(Sound)]
  BY <1>1, <1>2 DEF Lines
<1>4. Lines(t) \in Seq(Seq(Sound))
  BY <1>1, <1>3, SeqDef
<1>5. Len(Lines(t)) = Len(t)
  <2>1. DOMAIN Lines(t) = 1 .. Len(t)
    BY <1>3
  <2> QED BY <1>1, <1>4, <2>1, LenProperties
<1>6. \A i \in 1 .. Len(t) : Lines(t)[i] = HeardAt(t, i)
  BY <1>1 DEF Lines
<1>7. HeardOf(t) = FlattenSeq(Lines(t))
  BY DEF HeardOf, Lines, HeardAt
<1> QED BY <1>2, <1>4, <1>5, <1>6, <1>7, FlattenTypes

\* A text says what it said before, and then its last line.
LEMMA HeardOfAppend ==
  ASSUME NEW s \in Seq(Line), NEW l \in Line, NEW r, AddsLine(r, s, l), Opens(r)
  PROVE  HeardOf(r) = HeardOf(s) \o HeardAt(r, Len(r))
<1>1. /\ r \in Seq(Line) /\ Len(s) \in Nat /\ Len(r) = Len(s) + 1 /\ r[Len(s) + 1] = l
      /\ \A i \in 1 .. Len(s) : r[i] = s[i]
      /\ Opens(s)
  BY Longer
<1> DEFINE a == Lines(s)
           c == Lines(r)
           h == HeardAt(r, Len(r))
           b == <<h>>
<1>2. a \in Seq(Seq(Sound)) /\ Len(a) = Len(s) /\ HeardOf(s) = FlattenSeq(a)
      /\ \A i \in 1 .. Len(s) : a[i] = HeardAt(s, i)
  BY <1>1, LinesTypes
<1>3. c \in Seq(Seq(Sound)) /\ Len(c) = Len(r) /\ HeardOf(r) = FlattenSeq(c)
      /\ \A i \in 1 .. Len(r) : c[i] = HeardAt(r, i) /\ HeardAt(r, i) \in Seq(Sound)
  BY <1>1, LinesTypes
<1>4. Len(r) \in 1 .. Len(r)
  BY <1>1
<1>5. h \in Seq(Sound) /\ c[Len(r)] = h
  BY <1>3, <1>4
<1>6. ASSUME NEW i \in 1 .. Len(s) PROVE c[i] = a[i]
  <2>1. i \in 1 .. Len(r) /\ r[i] = s[i] /\ s[i] \in Line
    BY <1>1, TextFacts
  <2>2. HeardAt(r, i) = HeardAt(s, i)
    <3>1. CASE s[i].kind = "blank"
      BY <2>1, <3>1 DEF HeardAt
    <3>2. CASE s[i].kind # "blank"
      <4>1. Marks(s, i) # {}
        <5>1. CASE s[i].kind = "plain"
          BY <1>1, <5>1 DEF Opens, Marks
        <5>2. CASE s[i].kind \in Roles
          <6>1. i \in 1 .. i
            BY <1>1
          <6> QED BY <5>2, <6>1 DEF Marks
        <5> QED BY <2>1, <3>2, <5>1, <5>2, LineFacts
      <4>2. SpeakerOf(r, i) = SpeakerOf(s, i)
        BY <4>1, SpeakerStays
      <4> QED BY <2>1, <3>2, <4>2 DEF HeardAt
    <3> QED BY <3>1, <3>2
  <2> QED BY <1>2, <1>3, <2>1, <2>2
<1> HIDE DEF a, c, h
<1>7. b \in Seq(Seq(Sound)) /\ Len(b) = 1 /\ b[1] = h /\ FlattenSeq(b) = h
  BY <1>5, FlattenOne
<1> HIDE DEF b
<1>8. Joins(c, a, b)
  <2>1. \A i \in 1 .. Len(b) : i = 1
    BY <1>7
  <2>2. Len(c) = Len(a) + Len(b) /\ \A i \in 1 .. Len(a) : c[i] = a[i]
    BY <1>1, <1>2, <1>3, <1>6, <1>7
  <2>3. c[Len(a) + 1] = b[1]
    BY <1>1, <1>2, <1>5, <1>7
  <2> QED BY <2>1, <2>2, <2>3 DEF Joins
<1>9. c = a \o b
  BY <1>2, <1>3, <1>7, <1>8, IsConcat
<1>10. FlattenSeq(c) = FlattenSeq(a) \o FlattenSeq(b)
  BY <1>2, <1>7, <1>9, FlattenConcat
<1> QED BY <1>2, <1>3, <1>7, <1>10 DEF h

\* What the parser has made of the lines so far.
Agrees(t) ==
  /\ Turns(t) \in Seq(Turn)
  /\ Opens(t) => HeardIn(Turns(t)) = HeardOf(t)
  /\ Opens(t) /\ Marked(t) =>
       Turns(t) # <<>> /\ Turns(t)[Len(Turns(t))].role = SpeakerOf(t, Len(t))

LEMMA NothingHeard ==
  ASSUME NEW h \in Seq(Sound)
  PROVE  h \o <<>> = h
BY ConcatEmptySeq

\* The last of some turns.
LEMMA LastTurn ==
  ASSUME NEW ts \in Seq(Turn), ts # <<>>
  PROVE  \E u \in Seq(Turn), e \in Turn :
           /\ ts = Append(u, e) /\ Len(u) \in Nat /\ Len(ts) = Len(u) + 1
           /\ ts[Len(ts)] = e /\ \A i \in 1 .. Len(u) : ts[i] = u[i]
<1>1. PICK u \in Seq(Turn), e \in Turn : ts = Append(u, e)
  BY SequenceEmptyOrAppend
<1>2. /\ Len(u) \in Nat /\ Len(ts) = Len(u) + 1 /\ ts[Len(ts)] = e
      /\ \A i \in 1 .. Len(u) : ts[i] = u[i]
  BY <1>1, AppendProperties, LenProperties
<1> QED BY <1>1, <1>2

LEMMA HeardInAppend ==
  ASSUME NEW u \in Seq(Turn), NEW e \in Turn
  PROVE  HeardIn(Append(u, e)) = HeardIn(u) \o Heard(e.role, e.words)
<1> DEFINE w == <<e>>
<1>1. w \in Seq(Turn) /\ Append(u, e) = u \o w
  BY AppendIsConcat
<1>2. HeardIn(w) = Heard(e.role, e.words)
  BY HeardInOne
<1> HIDE DEF w
<1> QED BY <1>1, <1>2, HeardInConcat

\* Joined words are heard one after the other: the space between them is not.
LEMMA JoinHeard ==
  ASSUME NEW role \in Roles, NEW u \in Seq(Characters), NEW w \in Seq(Characters)
  PROVE  Heard(role, (u \o <<"space">>) \o w) = Heard(role, u) \o Heard(role, w)
<1> DEFINE o == <<"space">>
<1>1. o \in Seq(Characters) /\ Len(o) = 1 /\ o[1] = "space"
  BY DEF Characters
<1> HIDE DEF o
<1>2. \A i \in 1 .. Len(o) : o[i] = "space"
  BY <1>1
<1>3. Heard(role, o) = <<>>
  BY <1>1, <1>2, HeardSpaces
<1>4. u \o o \in Seq(Characters)
  BY <1>1, ConcatProperties
<1>5. Heard(role, (u \o o) \o w) = Heard(role, u \o o) \o Heard(role, w)
  BY <1>4, HeardConcat
<1>6. Heard(role, u \o o) = Heard(role, u) \o Heard(role, o)
  BY <1>1, HeardConcat
<1>7. Heard(role, u) \in Seq(Sound)
  BY HeardTypes
<1>8. Heard(role, u) \o Heard(role, o) = Heard(role, u)
  BY <1>3, <1>7, NothingHeard
<1> QED BY <1>5, <1>6, <1>8 DEF o

\* The parser agrees with the text after each kind of line.
LEMMA BlankAgrees ==
  ASSUME NEW s \in Seq(Line), NEW l \in Line, NEW r, AddsLine(r, s, l), Agrees(s),
         l.kind = "blank"
  PROVE  Agrees(r)
<1>0. l.kind \notin Roles
  BY DEF Roles
<1>1. /\ r \in Seq(Line) /\ Len(s) \in Nat /\ Len(r) = Len(s) + 1 /\ r[Len(r)] = l
      /\ Marks(r, Len(r)) = Marks(s, Len(s)) /\ (Opens(r) => Opens(s))
  BY <1>0, Longer
<1>2. Turns(r) = Turns(s) /\ Turns(r) \in Seq(Turn)
  <2>1. Turns(s) \in Seq(Turn) /\ Turns(r) = WithLine(Turns(s), l)
    BY TurnsAppend DEF AddsLine
  <2>2. WithLine(Turns(s), l) = Turns(s)
    BY <2>1, WithLineIs
  <2> QED BY <2>1, <2>2
<1>3. ASSUME Opens(r) PROVE HeardIn(Turns(r)) = HeardOf(r)
  <2>1. HeardOf(r) = HeardOf(s) \o HeardAt(r, Len(r))
    BY <1>3, HeardOfAppend
  <2>2. HeardAt(r, Len(r)) = <<>>
    BY <1>1 DEF HeardAt
  <2>3. HeardOf(s) \in Seq(Sound)
    BY <1>1, <1>3, LinesTypes
  <2>4. HeardOf(r) = HeardOf(s)
    BY <2>1, <2>2, <2>3, NothingHeard
  <2> QED BY <1>1, <1>2, <1>3, <2>4 DEF Agrees
<1>4. ASSUME Opens(r), Marked(r)
      PROVE  Turns(r) # <<>> /\ Turns(r)[Len(Turns(r))].role = SpeakerOf(r, Len(r))
  <2>1. Marked(s) /\ Opens(s)
    BY <1>1, <1>4 DEF Marked
  <2>2. SpeakerOf(r, Len(r)) = SpeakerOf(s, Len(s))
    BY <1>0, <2>1, SpeakerGoesOn
  <2> QED BY <1>2, <2>1, <2>2 DEF Agrees
<1> QED BY <1>2, <1>3, <1>4 DEF Agrees

LEMMA MarkerAgrees ==
  ASSUME NEW s \in Seq(Line), NEW l \in Line, NEW r, AddsLine(r, s, l), Agrees(s),
         l.kind \in Roles
  PROVE  Agrees(r)
<1>1. /\ r \in Seq(Line) /\ Len(s) \in Nat /\ Len(r) = Len(s) + 1 /\ r[Len(r)] = l
      /\ (Opens(r) => Opens(s))
  BY Longer
<1> DEFINE e == [role |-> l.kind, words |-> l.words]
<1>2. e \in Turn /\ l.words \in Trimmed
  BY LineFacts DEF Roles, Turn
<1>3. Turns(s) \in Seq(Turn) /\ Turns(r) = Append(Turns(s), e)
  BY TurnsAppend, WithLineIs DEF AddsLine
<1>4. e.role = l.kind /\ e.words = l.words
  OBVIOUS
<1> HIDE DEF e
<1>5. /\ Turns(r) \in Seq(Turn) /\ Turns(r) # <<>>
      /\ Turns(r)[Len(Turns(r))] = e
  <2>1. /\ Turns(r) \in Seq(Turn) /\ Len(Turns(r)) = Len(Turns(s)) + 1
        /\ Len(Turns(s)) \in Nat /\ Turns(r)[Len(Turns(s)) + 1] = e
    BY <1>2, <1>3, AppendProperties, LenProperties
  <2>2. Turns(r) # <<>>
    BY <2>1, EmptySeq
  <2> QED BY <2>1, <2>2
<1>6. SpeakerOf(r, Len(r)) = l.kind
  BY SpeakerBegins
<1>7. ASSUME Opens(r) PROVE HeardIn(Turns(r)) = HeardOf(r)
  <2>1. HeardOf(r) = HeardOf(s) \o HeardAt(r, Len(r))
    BY <1>7, HeardOfAppend
  <2>2. HeardAt(r, Len(r)) = Heard(l.kind, l.words)
    <3>1. l.kind # "blank"
      BY DEF Roles
    <3> QED BY <1>1, <1>6, <3>1 DEF HeardAt
  <2>3. HeardIn(Turns(r)) = HeardIn(Turns(s)) \o Heard(l.kind, l.words)
    BY <1>2, <1>3, <1>4, HeardInAppend
  <2>4. HeardIn(Turns(s)) = HeardOf(s)
    BY <1>1, <1>7 DEF Agrees
  <2> QED BY <2>1, <2>2, <2>3, <2>4
<1> QED BY <1>4, <1>5, <1>6, <1>7 DEF Agrees

LEMMA PlainAgrees ==
  ASSUME NEW s \in Seq(Line), NEW l \in Line, NEW r, AddsLine(r, s, l), Agrees(s),
         l.kind = "plain"
  PROVE  Agrees(r)
<1>0. l.kind \notin Roles /\ l.words \in Trimmed /\ l.words \in Seq(Characters)
  BY LineFacts, TrimmedLen DEF Roles
<1>1. /\ r \in Seq(Line) /\ Len(s) \in Nat /\ Len(r) = Len(s) + 1 /\ r[Len(r)] = l
      /\ Marks(r, Len(r)) = Marks(s, Len(s)) /\ (Opens(r) => Opens(s))
  BY <1>0, Longer
<1>2. Turns(s) \in Seq(Turn) /\ Turns(r) \in Seq(Turn) /\ Turns(r) = WithLine(Turns(s), l)
  BY TurnsAppend, WithLineTypes DEF AddsLine
<1>3. ASSUME Opens(r)
      PROVE  /\ HeardIn(Turns(r)) = HeardOf(r)
             /\ Turns(r) # <<>> /\ Turns(r)[Len(Turns(r))].role = SpeakerOf(r, Len(r))
  <2>1. Marked(s)
    <3>1. Len(r) \in 1 .. Len(r) /\ r[Len(r)].kind = "plain"
      BY <1>1
    <3>2. Marks(r, Len(r)) # {}
      BY <1>3, <3>1 DEF Opens, Marks
    <3> QED BY <1>1, <3>2 DEF Marked
  <2>2. /\ HeardIn(Turns(s)) = HeardOf(s) /\ Turns(s) # <<>>
        /\ Turns(s)[Len(Turns(s))].role = SpeakerOf(s, Len(s))
    BY <1>1, <1>3, <2>1 DEF Agrees
  <2>3. SpeakerOf(r, Len(r)) = SpeakerOf(s, Len(s))
    BY <1>0, <2>1, SpeakerGoesOn
  <2>4. PICK u \in Seq(Turn), e \in Turn :
           /\ Turns(s) = Append(u, e) /\ Len(u) \in Nat /\ Len(Turns(s)) = Len(u) + 1
           /\ Turns(s)[Len(Turns(s))] = e /\ \A i \in 1 .. Len(u) : Turns(s)[i] = u[i]
    BY <1>2, <2>2, LastTurn
  <2>5. e.words \in Trimmed /\ e.words \in Seq(Characters) /\ e.role \in Roles
    BY TrimmedLen DEF Turn
  <2> DEFINE x == (e.words \o <<"space">>) \o l.words
             d == [role |-> e.role, words |-> x]
  <2>6. x \in Trimmed
    BY <1>0, <2>5, JoinTrimmed
  <2>7. Heard(e.role, x) = Heard(e.role, e.words) \o Heard(e.role, l.words)
    BY <1>0, <2>5, JoinHeard
  <2>8. Turns(r) = [i \in 1 .. Len(Turns(s)) |->
                      IF i = Len(Turns(s))
                      THEN [role |-> Turns(s)[i].role,
                            words |-> (Turns(s)[i].words \o <<"space">>) \o l.words]
                      ELSE Turns(s)[i]]
    BY <1>2, WithLineIs
  <2>9. /\ \A i \in 1 .. Len(u) : Turns(r)[i] = u[i]
        /\ Turns(r)[Len(u) + 1] = d
        /\ DOMAIN Turns(r) = 1 .. Len(u) + 1
    <3>1. \A i \in 1 .. Len(u) : i \in 1 .. Len(Turns(s)) /\ i # Len(Turns(s))
      BY <2>4
    <3>2. Len(u) + 1 \in 1 .. Len(Turns(s)) /\ Len(u) + 1 = Len(Turns(s))
      BY <2>4
    <3> QED BY <2>4, <2>8, <3>1, <3>2
  <2> HIDE DEF x
  <2>10. d \in Turn /\ d.role = e.role /\ d.words = x
    BY <2>5, <2>6 DEF Turn
  <2> HIDE DEF d
  <2>11. Len(Turns(r)) = Len(u) + 1
    BY <1>2, <2>4, <2>9, LenProperties
  <2>12. Turns(r) = Append(u, d)
    <3>1. /\ Append(u, d) \in Seq(Turn) /\ Len(Append(u, d)) = Len(u) + 1
          /\ (\A i \in 1 .. Len(u) : Append(u, d)[i] = u[i]) /\ Append(u, d)[Len(u) + 1] = d
      BY <2>10, AppendProperties
    <3>2. \A i \in 1 .. Len(u) + 1 : i \in 1 .. Len(u) \/ i = Len(u) + 1
      BY <2>4
    <3>3. \A i \in 1 .. Len(Turns(r)) : Turns(r)[i] = Append(u, d)[i]
      BY <2>9, <2>11, <3>1, <3>2
    <3> QED BY <1>2, <2>11, <3>1, <3>3, SeqEqual
  <2>13. HeardIn(Turns(r)) = HeardIn(u) \o Heard(e.role, x)
    BY <2>10, <2>12, HeardInAppend
  <2>14. HeardIn(Turns(s)) = HeardIn(u) \o Heard(e.role, e.words)
    BY <2>4, HeardInAppend
  <2>15. HeardOf(r) = HeardOf(s) \o Heard(e.role, l.words)
    <3>1. HeardOf(r) = HeardOf(s) \o HeardAt(r, Len(r))
      BY <1>3, HeardOfAppend
    <3>2. HeardAt(r, Len(r)) = Heard(e.role, l.words)
      BY <1>1, <2>2, <2>3, <2>4 DEF HeardAt
    <3> QED BY <3>1, <3>2
  <2>16. /\ HeardIn(u) \in Seq(Sound) /\ Heard(e.role, e.words) \in Seq(Sound)
         /\ Heard(e.role, l.words) \in Seq(Sound)
    BY <1>0, <2>5, HeardTypes, VoicesTypes
  <2>17. (HeardIn(u) \o Heard(e.role, e.words)) \o Heard(e.role, l.words)
           = HeardIn(u) \o (Heard(e.role, e.words) \o Heard(e.role, l.words))
    BY <2>16, ConcatAssociative
  <2>18. HeardIn(Turns(r)) = HeardOf(r)
    BY <2>2, <2>7, <2>13, <2>14, <2>15, <2>17
  <2>19. Turns(r) # <<>>
    BY <2>4, <2>9
  <2>20. Turns(r)[Len(Turns(r))].role = SpeakerOf(r, Len(r))
    BY <2>2, <2>3, <2>4, <2>9, <2>10, <2>11
  <2> QED BY <2>18, <2>19, <2>20
<1> QED BY <1>2, <1>3 DEF Agrees

\* So it agrees with every text.
LEMMA AllAgree ==
  ASSUME NEW t \in Seq(Line)
  PROVE  Agrees(t)
<1> DEFINE T == {s \in Seq(Line) : Agrees(s)}
<1>1. <<>> \in T
  <2> DEFINE none == <<>>
  <2>1. none \in Seq(Line) /\ Len(none) = 0 /\ Turns(none) = <<>> /\ HeardIn(<<>>) = <<>>
        /\ <<>> \in Seq(Turn)
    BY EmptySeq, TurnsEmpty, HeardInEmpty
  <2> HIDE DEF none
  <2>2. Marks(none, Len(none)) = {}
    BY <2>1 DEF Marks
  <2>3. ASSUME Opens(none) PROVE HeardOf(none) = <<>>
    <3>1. Lines(none) \in Seq(Seq(Sound)) /\ Len(Lines(none)) = 0
          /\ HeardOf(none) = FlattenSeq(Lines(none))
      BY <2>1, <2>3, LinesTypes
    <3>2. Lines(none) = <<>>
      BY <3>1, EmptySeq
    <3> QED BY <3>1, <3>2, FlattenEmpty
  <2>4. Agrees(none)
    BY <2>1, <2>2, <2>3 DEF Agrees, Marked
  <2>5. none \in T
    BY <2>1, <2>4
  <2> QED BY <2>5 DEF none
<1>2. ASSUME NEW s \in Seq(Line), NEW l \in Line, s \in T
      PROVE  Append(s, l) \in T
  <2> PICK r : r = Append(s, l)
    OBVIOUS
  <2>1. AddsLine(r, s, l) /\ Agrees(s)
    BY <1>2 DEF AddsLine
  <2>2. r \in Seq(Line)
    BY AppendProperties
  <2>3. l.kind = "blank" \/ l.kind = "plain" \/ l.kind \in Roles
    BY LineFacts
  <2>4. Agrees(r)
    BY <2>1, <2>3, BlankAgrees, PlainAgrees, MarkerAgrees
  <2> QED BY <2>2, <2>4
<1> HIDE DEF T
<1>3. Seq(Line) \subseteq T
  BY <1>1, <1>2, SeqInduction
<1> QED BY <1>3 DEF T

\* The turns of a text say what the text says.
LEMMA TurnsSayTheText ==
  ASSUME NEW t \in Seq(Line), Parses(t)
  PROVE  /\ Turns(t) \in Seq(Turn) /\ Turns(t) # <<>>
         /\ HeardIn(Turns(t)) = HeardOf(t)
BY AllAgree, ParsesOpens DEF Agrees

-----------------------------------------------------------------------------
(***************************************************************************)
(* Cutting and stripping.                                                  *)
(***************************************************************************)

\* The part of w from place a to place z.
LEMMA Part ==
  ASSUME NEW w \in Seq(Characters), NEW a \in 1 .. Len(w), NEW z \in a .. Len(w)
  PROVE  /\ SubSeq(w, a, z) \in Seq(Characters)
         /\ Len(SubSeq(w, a, z)) = z - a + 1
         /\ \A i \in 1 .. z - a + 1 : SubSeq(w, a, z)[i] = w[a + i - 1]
<1>1. Len(w) \in Nat /\ a \in Int /\ z \in Int /\ a <= z /\ \A i \in a .. z : w[i] \in Characters
  <2>1. Len(w) \in Nat
    BY LenProperties
  <2>2. \A i \in a .. z : i \in 1 .. Len(w)
    BY <2>1
  <2> QED BY <2>1, <2>2, ElementOfSeq
<1> QED BY <1>1, SubSeqProperties

\* Words cut in two are heard one half after the other.
LEMMA HeardHalves ==
  ASSUME NEW role \in Roles, NEW w \in Seq(Characters), NEW k \in 0 .. Len(w)
  PROVE  /\ SubSeq(w, 1, k) \in Seq(Characters) /\ SubSeq(w, k + 1, Len(w)) \in Seq(Characters)
         /\ Heard(role, w) = Heard(role, SubSeq(w, 1, k)) \o Heard(role, SubSeq(w, k + 1, Len(w)))
<1>1. Len(w) \in Nat /\ \A i \in 1 .. Len(w) : w[i] \in Characters
  BY LenProperties, ElementOfSeq
<1>2. /\ 1 \in 1 .. Len(w) + 1 /\ k \in 1 - 1 .. Len(w) /\ Len(w) \in k .. Len(w)
      /\ k \in Int /\ k + 1 \in Int /\ Len(w) \in Int
      /\ \A i \in 1 .. k : i \in 1 .. Len(w)
      /\ \A i \in k + 1 .. Len(w) : i \in 1 .. Len(w)
  BY <1>1
<1>3. SubSeq(w, 1, k) \o SubSeq(w, k + 1, Len(w)) = w
  <2>1. SubSeq(w, 1, k) \o SubSeq(w, k + 1, Len(w)) = SubSeq(w, 1, Len(w))
    BY <1>2, ConcatAdjacentSubSeq
  <2>2. SubSeq(w, 1, Len(w)) = w
    BY SubSeqFull
  <2> QED BY <2>1, <2>2
<1>4. SubSeq(w, 1, k) \in Seq(Characters)
  BY <1>1, <1>2, SubSeqProperties
<1>5. SubSeq(w, k + 1, Len(w)) \in Seq(Characters)
  BY <1>1, <1>2, SubSeqProperties
<1> QED BY <1>3, <1>4, <1>5, HeardConcat

\* strip() takes the spaces at both ends.
Inked(w) == {i \in 1 .. Len(w) : w[i] # "space"}

LEMMA StripIs ==
  ASSUME NEW w \in Seq(Characters)
  PROVE  /\ Inked(w) = {} => Strip(w) = <<>>
         /\ Inked(w) # {} =>
              \E a \in 1 .. Len(w) : \E z \in a .. Len(w) :
                /\ Strip(w) = SubSeq(w, a, z) /\ a \in Inked(w) /\ z \in Inked(w)
                /\ \A i \in Inked(w) : a <= i /\ i <= z
<1>1. DOMAIN w = 1 .. Len(w) /\ Len(w) \in Nat
  BY LenProperties
<1>2. Strip(w) = IF Inked(w) = {} THEN <<>> ELSE SubSeq(w, Min(Inked(w)), Max(Inked(w)))
  BY <1>1 DEF Strip, Inked
<1>3. ASSUME Inked(w) # {}
      PROVE  \E a \in 1 .. Len(w) : \E z \in a .. Len(w) :
                /\ Strip(w) = SubSeq(w, a, z) /\ a \in Inked(w) /\ z \in Inked(w)
                /\ \A i \in Inked(w) : a <= i /\ i <= z
  <2>1. Inked(w) \in SUBSET Nat /\ Inked(w) \in SUBSET (0 .. Len(w))
        /\ Inked(w) \in SUBSET (1 .. Len(w))
    BY DEF Inked
  <2> PICK a : a = Min(Inked(w))
    OBVIOUS
  <2> PICK z : z = Max(Inked(w))
    OBVIOUS
  <2>2. a \in Inked(w) /\ \A i \in Inked(w) : a <= i
    BY <1>3, <2>1, Smallest
  <2>3. z \in Inked(w) /\ \A i \in Inked(w) : i <= z
    BY <1>1, <1>3, <2>1, Greatest
  <2>4. a \in 1 .. Len(w) /\ z \in 1 .. Len(w) /\ a <= z
    BY <2>1, <2>2, <2>3
  <2>5. z \in a .. Len(w)
    BY <1>1, <2>4
  <2>6. Strip(w) = SubSeq(w, a, z)
    BY <1>2, <1>3
  <2> QED BY <2>2, <2>3, <2>4, <2>5, <2>6
<1> QED BY <1>2, <1>3

LEMMA NothingBefore ==
  ASSUME NEW h \in Seq(Sound)
  PROVE  <<>> \o h = h
BY ConcatEmptySeq

\* What is stripped is trimmed or empty, and nothing heard is lost.
LEMMA StripHeard ==
  ASSUME NEW role \in Roles, NEW w \in Seq(Characters)
  PROVE  /\ Strip(w) = <<>> \/ Strip(w) \in Trimmed
         /\ Strip(w) \in Seq(Characters)
         /\ Heard(role, Strip(w)) = Heard(role, w)
<1>1. CASE Inked(w) = {}
  <2>1. Strip(w) = <<>>
    BY <1>1, StripIs
  <2>2. \A i \in 1 .. Len(w) : w[i] = "space"
    BY <1>1 DEF Inked
  <2>3. Heard(role, w) = <<>>
    BY <2>2, HeardSpaces
  <2> DEFINE none == <<>>
  <2>4. none \in Seq(Characters) /\ \A i \in 1 .. Len(none) : none[i] = "space"
    BY EmptySeq
  <2> HIDE DEF none
  <2>5. Heard(role, none) = <<>>
    BY <2>4, HeardSpaces
  <2> QED BY <2>1, <2>3, <2>4, <2>5 DEF none
<1>2. CASE Inked(w) # {}
  <2>0. Len(w) \in Nat
    BY LenProperties
  <2>1. PICK a \in 1 .. Len(w) : \E z \in a .. Len(w) :
                /\ Strip(w) = SubSeq(w, a, z) /\ a \in Inked(w) /\ z \in Inked(w)
                /\ \A i \in Inked(w) : a <= i /\ i <= z
    BY <1>2, StripIs
  <2>2. PICK z \in a .. Len(w) :
                /\ Strip(w) = SubSeq(w, a, z) /\ a \in Inked(w) /\ z \in Inked(w)
                /\ \A i \in Inked(w) : a <= i /\ i <= z
    BY <2>1
  <2> PICK s : s = Strip(w)
    OBVIOUS
  <2>3. /\ s \in Seq(Characters) /\ Len(s) = z - a + 1
        /\ \A i \in 1 .. z - a + 1 : s[i] = w[a + i - 1]
    BY <2>2, Part
  <2>4. s \in Trimmed
    <3>1. 1 \in 1 .. z - a + 1 /\ z - a + 1 \in 1 .. z - a + 1
          /\ a + 1 - 1 = a /\ a + (z - a + 1) - 1 = z /\ Len(s) # 0
      BY <2>0, <2>3
    <3>2. s[1] = w[a] /\ s[Len(s)] = w[z]
      BY <2>3, <3>1
    <3>3. s # <<>>
      BY <2>3, <3>1, EmptySeq
    <3> QED BY <2>2, <2>3, <3>2, <3>3 DEF Trimmed, Inked
  \* w is head, s and tail, and the head and the tail are spaces.
  <2>5. z \in 0 .. Len(w) /\ a - 1 \in 0 .. z
    BY <2>0
  <2> PICK p : p = SubSeq(w, 1, z)
    OBVIOUS
  <2> PICK q : q = SubSeq(w, z + 1, Len(w))
    OBVIOUS
  <2>6. /\ p \in Seq(Characters) /\ q \in Seq(Characters)
        /\ Heard(role, w) = Heard(role, p) \o Heard(role, q)
    BY <2>5, HeardHalves
  <2>7. Heard(role, q) = <<>>
    <3>1. CASE z = Len(w)
      <4>1. q = <<>>
        BY <2>0, <3>1, SubSeqEmpty
      <4>2. \A i \in 1 .. Len(q) : q[i] = "space"
        <5>1. Len(q) = 0
          BY <4>1, EmptySeq
        <5> QED BY <5>1
      <4> QED BY <2>6, <4>2, HeardSpaces
    <3>2. CASE z # Len(w)
      <4>1. z + 1 \in 1 .. Len(w) /\ Len(w) \in z + 1 .. Len(w)
        BY <2>0, <3>2
      <4>2. /\ Len(q) = Len(w) - (z + 1) + 1
            /\ \A i \in 1 .. Len(w) - (z + 1) + 1 : q[i] = w[(z + 1) + i - 1]
        BY <4>1, Part
      <4>3. ASSUME NEW i \in 1 .. Len(q) PROVE q[i] = "space"
        <5>1. q[i] = w[(z + 1) + i - 1]
          BY <4>2
        <5>2. (z + 1) + i - 1 \in 1 .. Len(w) /\ ~((z + 1) + i - 1 <= z)
          BY <2>0, <4>2
        <5> QED BY <2>2, <5>1, <5>2 DEF Inked
      <4> QED BY <2>6, <4>3, HeardSpaces
    <3> QED BY <3>1, <3>2
  <2>8. Len(p) = z /\ \A i \in 1 .. z : p[i] = w[i]
    <3>1. 1 \in 1 .. Len(w) /\ z \in 1 .. Len(w)
      BY <2>0
    <3>2. Len(p) = z - 1 + 1 /\ \A i \in 1 .. z - 1 + 1 : p[i] = w[1 + i - 1]
      BY <3>1, Part
    <3>3. z - 1 + 1 = z /\ \A i \in 1 .. z : 1 + i - 1 = i
      BY <3>1
    <3> QED BY <3>2, <3>3
  <2> PICK b : b = SubSeq(p, 1, a - 1)
    OBVIOUS
  <2> PICK t : t = SubSeq(p, (a - 1) + 1, Len(p))
    OBVIOUS
  <2>9. /\ b \in Seq(Characters) /\ t \in Seq(Characters)
        /\ Heard(role, p) = Heard(role, b) \o Heard(role, t)
    BY <2>5, <2>6, <2>8, HeardHalves
  <2>10. Heard(role, b) = <<>>
    <3>1. CASE a = 1
      <4>1. b = <<>>
        BY <3>1, SubSeqEmpty
      <4>2. \A i \in 1 .. Len(b) : b[i] = "space"
        <5>1. Len(b) = 0
          BY <4>1, EmptySeq
        <5> QED BY <5>1
      <4> QED BY <2>9, <4>2, HeardSpaces
    <3>2. CASE a # 1
      <4>1. 1 \in 1 .. Len(p) /\ a - 1 \in 1 .. Len(p)
        BY <2>0, <2>8, <3>2
      <4>2. Len(b) = (a - 1) - 1 + 1 /\ \A i \in 1 .. (a - 1) - 1 + 1 : b[i] = p[1 + i - 1]
        BY <2>6, <4>1, Part
      <4>3. ASSUME NEW i \in 1 .. Len(b) PROVE b[i] = "space"
        <5>1. i \in 1 .. z /\ 1 + i - 1 = i /\ i \in 1 .. Len(w) /\ ~(a <= i)
          BY <2>0, <4>2
        <5>2. b[i] = w[i]
          BY <2>8, <4>2, <5>1
        <5> QED BY <2>2, <5>1, <5>2 DEF Inked
      <4> QED BY <2>9, <4>3, HeardSpaces
    <3> QED BY <3>1, <3>2
  <2>11. t = s
    <3>1. (a - 1) + 1 = a /\ a \in 1 .. Len(p) /\ Len(p) \in a .. Len(p)
      BY <2>0, <2>8
    <3>2. Len(t) = z - a + 1 /\ \A i \in 1 .. z - a + 1 : t[i] = p[a + i - 1]
      BY <2>6, <2>8, <3>1, Part
    <3>3. ASSUME NEW i \in 1 .. Len(t) PROVE t[i] = s[i]
      <4>1. i \in 1 .. z - a + 1 /\ a + i - 1 \in 1 .. z
        BY <2>0, <3>2
      <4> QED BY <2>3, <2>8, <3>2, <4>1
    <3> QED BY <2>3, <2>9, <3>2, <3>3, SeqEqual
  <2>12. Heard(role, w) = Heard(role, s)
    <3>1. Heard(role, s) \in Seq(Sound) /\ Heard(role, p) \in Seq(Sound)
      BY <2>3, <2>6, HeardTypes
    <3>2. Heard(role, w) = Heard(role, p)
      BY <2>6, <2>7, <3>1, NothingHeard
    <3>3. Heard(role, p) = Heard(role, s)
      BY <2>9, <2>10, <2>11, <3>1, NothingBefore
    <3> QED BY <3>2, <3>3
  <2> QED BY <2>3, <2>4, <2>12
<1> QED BY <1>1, <1>2

\* The limits are positive.
LEMMA LimitFacts ==
  /\ MaxSceneTurns \in Nat /\ MaxSceneTurns > 0
  /\ MaxSceneCharacters \in Nat /\ MaxSceneCharacters > 0
  /\ MaxFragmentCharacters \in Nat /\ MaxFragmentCharacters > 0
BY Limits

\* The ends of words are not spaces.
LEMMA TrimmedFacts ==
  ASSUME NEW w \in Trimmed
  PROVE  /\ w \in Seq(Characters) /\ Len(w) \in Nat /\ Len(w) > 0
         /\ w[1] # "space" /\ w[Len(w)] # "space"
         /\ \A i \in 1 .. Len(w) : w[i] \in Characters
<1>1. w \in Seq(Characters) /\ Len(w) \in Nat /\ Len(w) > 0
  BY TrimmedLen
<1>2. w[1] # "space" /\ w[Len(w)] # "space"
  BY DEF Trimmed
<1> QED BY <1>1, <1>2, ElementOfSeq

\* The beginning of a trimmed word, stripped.
LEMMA StripFront ==
  ASSUME NEW w \in Trimmed, NEW b \in 1 .. Len(w), NEW f, f = Strip(SubSeq(w, 1, b))
  PROVE  /\ f \in Trimmed /\ Len(f) <= b
         /\ \A i \in 1 .. Len(f) : f[i] = w[i]
         /\ w[b] = "space" => Len(f) < b
         /\ w[b] # "space" => Len(f) = b
<1>0. w \in Seq(Characters) /\ Len(w) \in Nat /\ w[1] # "space"
  BY TrimmedFacts
<1> PICK p : p = SubSeq(w, 1, b)
  OBVIOUS
<1>1. p \in Seq(Characters) /\ Len(p) = b /\ \A i \in 1 .. b : p[i] = w[i]
  <2>1. 1 \in 1 .. Len(w) /\ b \in 1 .. Len(w)
    BY <1>0
  <2>2. p \in Seq(Characters) /\ Len(p) = b - 1 + 1 /\ \A i \in 1 .. b - 1 + 1 : p[i] = w[1 + i - 1]
    BY <1>0, <2>1, Part
  <2>3. b - 1 + 1 = b /\ \A i \in 1 .. b : 1 + i - 1 = i
    BY <1>0
  <2> QED BY <2>2, <2>3
<1>2. 1 \in Inked(p)
  <2>1. 1 \in 1 .. b
    BY <1>0
  <2> QED BY <1>0, <1>1, <2>1 DEF Inked
<1>3. PICK a \in 1 .. Len(p) : \E z \in a .. Len(p) :
                /\ Strip(p) = SubSeq(p, a, z) /\ a \in Inked(p) /\ z \in Inked(p)
                /\ \A i \in Inked(p) : a <= i /\ i <= z
  BY <1>1, <1>2, StripIs
<1>4. PICK z \in a .. Len(p) :
                /\ Strip(p) = SubSeq(p, a, z) /\ a \in Inked(p) /\ z \in Inked(p)
                /\ \A i \in Inked(p) : a <= i /\ i <= z
  BY <1>3
<1>5. a = 1
  BY <1>0, <1>1, <1>2, <1>4
<1>6. Len(f) = z /\ \A i \in 1 .. z : f[i] = p[i]
  <2>1. Len(f) = z - 1 + 1 /\ \A i \in 1 .. z - 1 + 1 : f[i] = p[1 + i - 1]
    <3>1. /\ Len(SubSeq(p, a, z)) = z - a + 1
          /\ \A i \in 1 .. z - a + 1 : SubSeq(p, a, z)[i] = p[a + i - 1]
      BY <1>1, <1>4, Part
    <3>2. f = SubSeq(p, a, z)
      BY <1>4
    <3> QED BY <1>5, <3>1, <3>2
  <2>2. z - 1 + 1 = z /\ \A i \in 1 .. z : 1 + i - 1 = i
    BY <1>0, <1>1, <1>4, <1>5
  <2> QED BY <2>1, <2>2
<1>7. z \in 1 .. b /\ z <= b
  BY <1>0, <1>1, <1>4, <1>5
<1>8. f \in Trimmed
  <2>1. f = <<>> \/ f \in Trimmed
    <3>1. "guest" \in Roles
      BY DEF Roles
    <3> QED BY <1>1, <3>1, StripHeard
  <2>2. f # <<>>
    <3>1. Len(f) # 0
      BY <1>0, <1>6, <1>7
    <3> QED BY <3>1, EmptySeq
  <2> QED BY <2>1, <2>2
<1>9. \A i \in 1 .. Len(f) : f[i] = w[i]
  <2>1. \A i \in 1 .. z : i \in 1 .. b
    BY <1>0, <1>7
  <2> QED BY <1>1, <1>6, <2>1
<1>10. ASSUME w[b] = "space" PROVE Len(f) < b
  <2>1. ~(b \in Inked(p)) /\ z \in Inked(p)
    BY <1>1, <1>4, <1>10 DEF Inked
  <2>2. z # b
    BY <2>1
  <2> QED BY <1>0, <1>6, <1>7, <2>2
<1>11. ASSUME w[b] # "space" PROVE Len(f) = b
  <2>1. b \in Inked(p)
    BY <1>0, <1>1, <1>11 DEF Inked
  <2>2. b <= z
    BY <1>4, <2>1
  <2> QED BY <1>0, <1>6, <1>7, <2>2
<1> QED BY <1>6, <1>7, <1>8, <1>9, <1>10, <1>11

\* Ends of words: the rest of the rest of a turn is of that turn.
LEMMA EndOfItself ==
  ASSUME NEW w \in Trimmed
  PROVE  EndOf(w, w)
<1>1. Len(w) \in Nat
  BY TrimmedFacts
<1>2. 0 \in 0 .. Len(w) /\ Len(w) = Len(w) - 0 /\ \A i \in 1 .. Len(w) : w[i] = w[0 + i]
  BY <1>1
<1> QED BY <1>2 DEF EndOf

LEMMA EndOfEnd ==
  ASSUME NEW u \in Trimmed, NEW v \in Trimmed, NEW w \in Trimmed, EndOf(u, v), EndOf(v, w)
  PROVE  EndOf(u, w)
<1>1. Len(u) \in Nat /\ Len(v) \in Nat /\ Len(w) \in Nat
  BY TrimmedFacts
<1>2. PICK k \in 0 .. Len(v) : Len(u) = Len(v) - k /\ \A i \in 1 .. Len(u) : u[i] = v[k + i]
  BY DEF EndOf
<1>3. PICK m \in 0 .. Len(w) : Len(v) = Len(w) - m /\ \A i \in 1 .. Len(v) : v[i] = w[m + i]
  BY DEF EndOf
<1>4. m + k \in 0 .. Len(w) /\ Len(u) = Len(w) - (m + k)
  BY <1>1, <1>2, <1>3
<1>5. ASSUME NEW i \in 1 .. Len(u) PROVE u[i] = w[(m + k) + i]
  <2>1. k + i \in 1 .. Len(v) /\ m + (k + i) = (m + k) + i
    BY <1>1, <1>2, <1>3
  <2>2. u[i] = v[k + i] /\ v[k + i] = w[m + (k + i)]
    BY <1>2, <1>3, <2>1
  <2> QED BY <2>1, <2>2
<1> QED BY <1>4, <1>5 DEF EndOf

\* The end of a trimmed word, stripped.
LEMMA StripBack ==
  ASSUME NEW w \in Trimmed, NEW b \in 1 .. Len(w), NEW r, r = Strip(SubSeq(w, b + 1, Len(w)))
  PROVE  r = <<>> \/ (r \in Trimmed /\ EndOf(r, w) /\ Len(r) <= Len(w) - b)
<1>0. w \in Seq(Characters) /\ Len(w) \in Nat /\ w[Len(w)] # "space"
  BY TrimmedFacts
<1> PICK q : q = SubSeq(w, b + 1, Len(w))
  OBVIOUS
<1>1. CASE b = Len(w)
  <2>1. q = <<>>
    BY <1>0, <1>1, SubSeqEmpty
  <2>2. q \in Seq(Characters) /\ Len(q) = 0
    BY <2>1, EmptySeq
  <2>3. Inked(q) = {}
    BY <2>2 DEF Inked
  <2> QED BY <2>2, <2>3, StripIs
<1>2. CASE b # Len(w)
  <2>1. b + 1 \in 1 .. Len(w) /\ Len(w) \in b + 1 .. Len(w)
    BY <1>0, <1>2
  <2>2. /\ q \in Seq(Characters) /\ Len(q) = Len(w) - b
        /\ \A i \in 1 .. Len(w) - b : q[i] = w[b + i]
    <3>1. /\ q \in Seq(Characters) /\ Len(q) = Len(w) - (b + 1) + 1
          /\ \A i \in 1 .. Len(w) - (b + 1) + 1 : q[i] = w[(b + 1) + i - 1]
      BY <1>0, <2>1, Part
    <3>2. Len(w) - (b + 1) + 1 = Len(w) - b
          /\ \A i \in 1 .. Len(w) - b : (b + 1) + i - 1 = b + i
      BY <1>0
    <3> QED BY <3>1, <3>2
  <2>3. Len(q) \in 1 .. Len(q) /\ q[Len(q)] = w[Len(w)]
    <3>1. Len(w) - b \in 1 .. Len(w) - b /\ b + (Len(w) - b) = Len(w)
      BY <1>0, <1>2
    <3> QED BY <2>2, <3>1
  <2>4. Len(q) \in Inked(q)
    BY <1>0, <2>3 DEF Inked
  <2>5. PICK a \in 1 .. Len(q) : \E z \in a .. Len(q) :
                /\ Strip(q) = SubSeq(q, a, z) /\ a \in Inked(q) /\ z \in Inked(q)
                /\ \A i \in Inked(q) : a <= i /\ i <= z
    BY <2>2, <2>4, StripIs
  <2>6. PICK z \in a .. Len(q) :
                /\ Strip(q) = SubSeq(q, a, z) /\ a \in Inked(q) /\ z \in Inked(q)
                /\ \A i \in Inked(q) : a <= i /\ i <= z
    BY <2>5
  <2>7. z = Len(q)
    BY <1>0, <2>2, <2>4, <2>6
  <2>8. Len(r) = Len(q) - a + 1 /\ \A i \in 1 .. Len(q) - a + 1 : r[i] = q[a + i - 1]
    <3>1. /\ Len(SubSeq(q, a, z)) = z - a + 1
          /\ \A i \in 1 .. z - a + 1 : SubSeq(q, a, z)[i] = q[a + i - 1]
      BY <2>2, <2>6, Part
    <3>2. r = SubSeq(q, a, z)
      BY <2>6
    <3> QED BY <2>7, <3>1, <3>2
  <2>9. r \in Trimmed
    <3>1. r = <<>> \/ r \in Trimmed
      <4>1. "guest" \in Roles
        BY DEF Roles
      <4> QED BY <2>2, <4>1, StripHeard
    <3>2. r # <<>>
      <4>1. Len(r) # 0
        BY <1>0, <2>2, <2>8
      <4> QED BY <4>1, EmptySeq
    <3> QED BY <3>1, <3>2
  <2>10. EndOf(r, w)
    <3> PICK k : k = b + (a - 1)
      OBVIOUS
    <3>1. k \in 0 .. Len(w) /\ Len(r) = Len(w) - k
      <4>1. a \in Int /\ b \in Int /\ 1 <= a /\ a <= Len(w) - b /\ 1 <= b /\ b <= Len(w)
        BY <1>0, <2>2
      <4>2. Len(r) = (Len(w) - b) - a + 1
        BY <2>2, <2>8
      <4> QED BY <1>0, <4>1, <4>2
    <3>2. ASSUME NEW i \in 1 .. Len(r) PROVE r[i] = w[k + i]
      <4>1. a + i - 1 \in 1 .. Len(w) - b /\ b + (a + i - 1) = k + i /\ i \in 1 .. Len(q) - a + 1
        BY <1>0, <2>2, <2>8
      <4>2. r[i] = q[a + i - 1] /\ q[a + i - 1] = w[b + (a + i - 1)]
        BY <2>2, <2>8, <4>1
      <4> QED BY <4>1, <4>2
    <3> QED BY <3>1, <3>2 DEF EndOf
  <2>11. Len(r) <= Len(w) - b
    BY <1>0, <2>2, <2>8
  <2> QED BY <2>9, <2>10, <2>11
<1> QED BY <1>1, <1>2

\* rfind finds the last place there is.
LEMMA LastOfIs ==
  ASSUME NEW w, NEW c
  PROVE  /\ LastOf(w, c) \in 0 .. MaxFragmentCharacters + 1
         /\ LastOf(w, c) > 0 => w[LastOf(w, c)] = c
         /\ \A i \in 1 .. MaxFragmentCharacters + 1 : w[i] = c => i <= LastOf(w, c)
<1> DEFINE T == {0} \cup {i \in 1 .. MaxFragmentCharacters + 1 : w[i] = c}
<1>1. /\ MaxFragmentCharacters + 1 \in Nat /\ T \in SUBSET (0 .. MaxFragmentCharacters + 1)
      /\ T # {}
  BY LimitFacts
<1>2. LastOf(w, c) = Max(T)
  BY DEF LastOf
<1> HIDE DEF T
<1>3. Max(T) \in T /\ \A y \in T : y <= Max(T)
  BY <1>1, Greatest
<1> QED BY <1>1, <1>2, <1>3 DEF T

\* Where a turn is cut, and why it is not.
LEMMA BoundaryIs ==
  ASSUME NEW w \in Trimmed, Len(w) > MaxFragmentCharacters
  PROVE  /\ Boundary(w) \in 0 .. MaxFragmentCharacters + 1
         /\ Boundary(w) > 1 => w[Boundary(w)] \in {"mark", "space"}
         /\ Boundary(w) <= 1 =>
              \A j \in 2 .. MaxFragmentCharacters + 1 :
                 w[j] # "mark" /\ (w[1] = "letter" => w[j] # "space")
<1> PICK m : m = LastOf(w, "mark")
  OBVIOUS
<1> PICK s : s = LastOf(w, "space")
  OBVIOUS
<1> PICK b : b = Boundary(w)
  OBVIOUS
<1>1. /\ m \in 0 .. MaxFragmentCharacters + 1 /\ (m > 0 => w[m] = "mark")
      /\ \A i \in 1 .. MaxFragmentCharacters + 1 : w[i] = "mark" => i <= m
  BY LastOfIs
<1>2. /\ s \in 0 .. MaxFragmentCharacters + 1 /\ (s > 0 => w[s] = "space")
      /\ \A i \in 1 .. MaxFragmentCharacters + 1 : w[i] = "space" => i <= s
  BY LastOfIs
<1>3. b = IF m > 0 THEN m ELSE s
  BY DEF Boundary
<1>4. b \in 0 .. MaxFragmentCharacters + 1
  BY <1>1, <1>2, <1>3
<1>5. ASSUME b > 1 PROVE w[b] \in {"mark", "space"}
  BY <1>1, <1>2, <1>3, <1>5, LimitFacts
<1>6. ASSUME b <= 1, NEW j \in 2 .. MaxFragmentCharacters + 1
      PROVE  w[j] # "mark" /\ (w[1] = "letter" => w[j] # "space")
  <2>1. j \in 1 .. MaxFragmentCharacters + 1 /\ ~(j <= 1) /\ m <= 1
    BY <1>1, <1>2, <1>3, <1>6, LimitFacts
  <2>2. w[j] # "mark"
    BY <1>1, <1>6, <2>1, LimitFacts
  <2>3. ASSUME w[1] = "letter" PROVE w[j] # "space"
    <3>1. m = 0
      <4>1. m # 1
        BY <1>1, <2>3
      <4> QED BY <1>1, <2>1, <4>1, LimitFacts
    <3>2. b = s
      BY <1>3, <3>1
    <3> QED BY <1>2, <1>6, <2>1, <3>2, LimitFacts
  <2> QED BY <2>2, <2>3
<1> QED BY <1>4, <1>5, <1>6

\* w is longer than a fragment may be, and cut at b into f and the rest r.
IsCut(w, b, f, r) ==
  /\ Len(w) > MaxFragmentCharacters /\ b = Boundary(w) /\ b > 1
  /\ f = Strip(SubSeq(w, 1, b)) /\ r = Strip(SubSeq(w, b + 1, Len(w)))

\* A cut loses nothing that is heard, and the fragment is short enough.
LEMMA CutIs ==
  ASSUME NEW role \in Roles, NEW w \in Trimmed, NEW b, NEW f, NEW r, IsCut(w, b, f, r)
  PROVE  /\ f \in Trimmed
         /\ \/ Len(f) <= MaxFragmentCharacters
            \/ Len(f) = MaxFragmentCharacters + 1 /\ f[Len(f)] = "mark"
         /\ r = <<>> \/ (r \in Trimmed /\ EndOf(r, w))
         /\ r \in Seq(Characters)
         /\ Heard(role, w) = Heard(role, f) \o Heard(role, r)
<1> USE DEF IsCut
<1>0. w \in Seq(Characters) /\ Len(w) \in Nat
  BY TrimmedFacts
<1>1. /\ b \in 0 .. MaxFragmentCharacters + 1 /\ w[b] \in {"mark", "space"}
  BY BoundaryIs
<1>2. b \in 1 .. Len(w) /\ b \in 0 .. Len(w) /\ b <= MaxFragmentCharacters + 1
  BY <1>0, <1>1, LimitFacts
<1>3. /\ f \in Trimmed /\ Len(f) <= b
      /\ \A i \in 1 .. Len(f) : f[i] = w[i]
      /\ w[b] = "space" => Len(f) < b
      /\ w[b] # "space" => Len(f) = b
  BY <1>2, StripFront
<1>4. Len(f) \in Nat /\ Len(f) > 0
  BY <1>3, TrimmedFacts
<1>5. \/ Len(f) <= MaxFragmentCharacters
      \/ Len(f) = MaxFragmentCharacters + 1 /\ f[Len(f)] = "mark"
  <2>1. CASE w[b] = "space"
    BY <1>2, <1>3, <1>4, <2>1, LimitFacts
  <2>2. CASE w[b] = "mark"
    <3>1. Len(f) = b /\ f[Len(f)] = "mark"
      <4>1. Len(f) = b
        BY <1>3, <2>2
      <4>2. Len(f) \in 1 .. Len(f)
        BY <1>4
      <4> QED BY <1>3, <2>2, <4>1, <4>2
    <3> QED BY <1>2, <1>4, <3>1, LimitFacts
  <2> QED BY <1>1, <2>1, <2>2
<1>6. r = <<>> \/ (r \in Trimmed /\ EndOf(r, w))
  BY <1>2, StripBack
<1>7. /\ SubSeq(w, 1, b) \in Seq(Characters) /\ SubSeq(w, b + 1, Len(w)) \in Seq(Characters)
      /\ Heard(role, w) = Heard(role, SubSeq(w, 1, b)) \o Heard(role, SubSeq(w, b + 1, Len(w)))
  BY <1>0, <1>2, HeardHalves
<1>8. Heard(role, f) = Heard(role, SubSeq(w, 1, b))
  BY <1>7, StripHeard
<1>9. Heard(role, r) = Heard(role, SubSeq(w, b + 1, Len(w))) /\ r \in Seq(Characters)
  BY <1>7, StripHeard
<1> QED BY <1>3, <1>5, <1>6, <1>7, <1>8, <1>9

-----------------------------------------------------------------------------
(***************************************************************************)
(* What is said, when sequences are moved around.                          *)
(***************************************************************************)

SayAll(P, o, t) == HeardIn(FlattenSeq(P) \o o \o t)

\* Concatenation is associative.
LEMMA Regroup ==
  ASSUME NEW a \in Seq(Sound), NEW b \in Seq(Sound), NEW c \in Seq(Sound)
  PROVE  (a \o b) \o c = a \o (b \o c)
BY ConcatAssociative

\* What is said in plans, in the open request and in the turns to come.
LEMMA SayIs ==
  ASSUME NEW P \in Seq(Seq(Turn)), NEW o \in Seq(Turn), NEW t \in Seq(Turn)
  PROVE  /\ FlattenSeq(P) \in Seq(Turn)
         /\ HeardIn(FlattenSeq(P)) \in Seq(Sound) /\ HeardIn(o) \in Seq(Sound)
         /\ HeardIn(t) \in Seq(Sound)
         /\ SayAll(P, o, t) = (HeardIn(FlattenSeq(P)) \o HeardIn(o)) \o HeardIn(t)
<1> PICK p : p = FlattenSeq(P)
  OBVIOUS
<1>1. p \in Seq(Turn)
  BY FlattenTypes
<1>2. p \o o \in Seq(Turn)
  BY <1>1, ConcatProperties
<1>3. HeardIn((p \o o) \o t) = HeardIn(p \o o) \o HeardIn(t)
  BY <1>2, HeardInConcat
<1>4. HeardIn(p \o o) = HeardIn(p) \o HeardIn(o)
  BY <1>1, HeardInConcat
<1>5. HeardIn(p) \in Seq(Sound) /\ HeardIn(o) \in Seq(Sound) /\ HeardIn(t) \in Seq(Sound)
  BY <1>1, VoicesTypes
<1> QED BY <1>1, <1>3, <1>4, <1>5 DEF SayAll

\* A request is added to the plans.
LEMMA OneMoreRequest ==
  ASSUME NEW P \in Seq(Seq(Turn)), NEW p \in Seq(Turn)
  PROVE  /\ Append(P, p) \in Seq(Seq(Turn)) /\ Append(P, p) # <<>>
         /\ HeardIn(FlattenSeq(Append(P, p))) = HeardIn(FlattenSeq(P)) \o HeardIn(p)
<1>1. FlattenSeq(P) \in Seq(Turn) /\ FlattenSeq(Append(P, p)) = FlattenSeq(P) \o p
  BY FlattenAppend
<1>2. HeardIn(FlattenSeq(P) \o p) = HeardIn(FlattenSeq(P)) \o HeardIn(p)
  BY <1>1, HeardInConcat
<1> QED BY <1>1, <1>2, AppendProperties

\* The next turn is taken.
LEMMA NextTurn ==
  ASSUME NEW t \in Seq(Turn), t # <<>>
  PROVE  /\ Head(t) \in Turn /\ Tail(t) \in Seq(Turn) /\ Head(t) \in Range(t)
         /\ Range(Tail(t)) \subseteq Range(t)
         /\ <<Head(t)>> \in Seq(Turn)
         /\ HeardIn(t) = HeardIn(<<Head(t)>>) \o HeardIn(Tail(t))
<1>1. /\ Head(t) \in Turn /\ Tail(t) \in Seq(Turn) /\ Len(Tail(t)) = Len(t) - 1
      /\ \A i \in 1 .. Len(Tail(t)) : Tail(t)[i] = t[i + 1]
  BY HeadTailProperties
<1>2. Len(t) \in Nat /\ Len(t) # 0 /\ DOMAIN t = 1 .. Len(t) /\ DOMAIN Tail(t) = 1 .. Len(Tail(t))
  BY <1>1, EmptySeq, LenProperties
<1>3. Head(t) = t[1] /\ 1 \in DOMAIN t
  <2>1. 1 \in 1 .. Len(t) /\ Len(t) \in 1 .. Len(t)
    BY <1>2
  <2>2. Head(SubSeq(t, 1, Len(t))) = t[1] /\ SubSeq(t, 1, Len(t)) = t
    BY <2>1, HeadTailOfSubSeq, SubSeqFull
  <2> QED BY <1>2, <2>1, <2>2
<1>4. \A i \in DOMAIN Tail(t) : i + 1 \in DOMAIN t
  BY <1>1, <1>2
<1>5. Head(t) \in Range(t) /\ Range(Tail(t)) \subseteq Range(t)
  BY <1>1, <1>2, <1>3, <1>4 DEF Range
<1> PICK h : h = <<Head(t)>>
  OBVIOUS
<1>6. h \in Seq(Turn) /\ Len(h) = 1 /\ h[1] = t[1]
  BY <1>1, <1>3
<1>7. Joins(t, h, Tail(t))
  <2>1. \A i \in 1 .. Len(h) : i = 1
    BY <1>6
  <2>2. Len(t) = Len(h) + Len(Tail(t))
    BY <1>1, <1>2, <1>6
  <2>3. \A i \in 1 .. Len(Tail(t)) : t[Len(h) + i] = Tail(t)[i]
    <3>1. \A i \in 1 .. Len(Tail(t)) : Len(h) + i = i + 1
      BY <1>6
    <3> QED BY <1>1, <3>1
  <2> QED BY <1>6, <2>1, <2>2, <2>3 DEF Joins
<1>8. t = h \o Tail(t)
  BY <1>1, <1>6, <1>7, IsConcat
<1>9. HeardIn(t) = HeardIn(h) \o HeardIn(Tail(t))
  BY <1>1, <1>6, <1>8, HeardInConcat
<1> QED BY <1>1, <1>5, <1>6, <1>9

\* The next turn joins the open request.
LEMMA PackSays ==
  ASSUME NEW P \in Seq(Seq(Turn)), NEW o \in Seq(Turn), NEW t \in Seq(Turn), t # <<>>
  PROVE  /\ Append(o, Head(t)) \in Seq(Turn) /\ Append(o, Head(t)) # <<>>
         /\ SayAll(P, Append(o, Head(t)), Tail(t)) = SayAll(P, o, t)
<1> DEFINE h == <<Head(t)>>
           u == Tail(t)
           q == Append(o, Head(t))
           A == HeardIn(FlattenSeq(P))
<1>1. h \in Seq(Turn) /\ u \in Seq(Turn) /\ HeardIn(t) = HeardIn(h) \o HeardIn(u)
  BY NextTurn
<1>2. q \in Seq(Turn) /\ q # <<>> /\ q = o \o h
  BY NextTurn, AppendProperties, AppendIsConcat
<1>3. HeardIn(q) = HeardIn(o) \o HeardIn(h)
  BY <1>1, <1>2, HeardInConcat
<1>4. A \in Seq(Sound) /\ HeardIn(o) \in Seq(Sound) /\ HeardIn(h) \in Seq(Sound)
      /\ HeardIn(u) \in Seq(Sound)
  BY <1>1, SayIs
<1>5. SayAll(P, q, u) = (A \o HeardIn(q)) \o HeardIn(u)
  BY <1>1, <1>2, SayIs
<1>6. SayAll(P, o, t) = (A \o HeardIn(o)) \o HeardIn(t)
  BY SayIs
<1>7. (A \o HeardIn(o)) \o (HeardIn(h) \o HeardIn(u))
        = ((A \o HeardIn(o)) \o HeardIn(h)) \o HeardIn(u)
  <2>1. A \o HeardIn(o) \in Seq(Sound)
    BY <1>4, ConcatProperties
  <2> QED BY <1>4, <2>1, Regroup
<1>8. (A \o HeardIn(o)) \o HeardIn(h) = A \o (HeardIn(o) \o HeardIn(h))
  BY <1>4, Regroup
<1>9. SayAll(P, q, u) = (A \o (HeardIn(o) \o HeardIn(h))) \o HeardIn(u)
  BY <1>3, <1>5
<1>10. SayAll(P, o, t) = (A \o HeardIn(o)) \o (HeardIn(h) \o HeardIn(u))
  BY <1>1, <1>6
<1>11. SayAll(P, q, u) = SayAll(P, o, t)
  BY <1>7, <1>8, <1>9, <1>10
<1> QED BY <1>2, <1>11

Divides(o, p, r) == HeardIn(o) = HeardIn(p) \o HeardIn(r)

AddsRequest(Q, P, p) == Q = Append(P, p)

\* A request is made of the beginning of what is open.
LEMMA CutSays ==
  ASSUME NEW P \in Seq(Seq(Turn)), NEW o \in Seq(Turn), NEW t \in Seq(Turn),
         NEW p \in Seq(Turn), NEW r \in Seq(Turn), NEW Q,
         Divides(o, p, r), AddsRequest(Q, P, p)
  PROVE  SayAll(Q, r, t) = SayAll(P, o, t)
<1> PICK A : A = HeardIn(FlattenSeq(P))
  OBVIOUS
<1>1. Q \in Seq(Seq(Turn)) /\ HeardIn(FlattenSeq(Q)) = A \o HeardIn(p)
  BY OneMoreRequest DEF AddsRequest
<1>2. A \in Seq(Sound) /\ HeardIn(p) \in Seq(Sound) /\ HeardIn(r) \in Seq(Sound)
  BY SayIs
<1>3. SayAll(Q, r, t) = (HeardIn(FlattenSeq(Q)) \o HeardIn(r)) \o HeardIn(t)
  BY <1>1, SayIs
<1>4. SayAll(P, o, t) = (A \o HeardIn(o)) \o HeardIn(t)
  BY SayIs
<1>5. (A \o HeardIn(p)) \o HeardIn(r) = A \o (HeardIn(p) \o HeardIn(r))
  BY <1>2, Regroup
<1> QED BY <1>1, <1>3, <1>4, <1>5 DEF Divides

LEMMA EmptyTurns ==
  /\ <<>> \in Seq(Turn) /\ <<>> \in Seq(Seq(Turn))
  /\ Range(<<>>) = {} /\ Len(<<>>) = 0
BY EmptySeq DEF Range

\* The open request is closed.
LEMMA EndSays ==
  ASSUME NEW P \in Seq(Seq(Turn)), NEW o \in Seq(Turn), NEW t \in Seq(Turn)
  PROVE  SayAll(Append(P, o), <<>>, t) = SayAll(P, o, t)
<1> DEFINE none == <<>>
<1>1. none \in Seq(Turn) /\ HeardIn(none) = <<>> /\ HeardIn(o) \in Seq(Sound)
  BY EmptyTurns, HeardInEmpty, VoicesTypes
<1> HIDE DEF none
<1>2. HeardIn(o) = HeardIn(o) \o HeardIn(none)
  BY <1>1, NothingHeard
<1>3. Divides(o, o, none)
  BY <1>2 DEF Divides
<1> PICK Q : Q = Append(P, o)
  OBVIOUS
<1>4. AddsRequest(Q, P, o)
  BY DEF AddsRequest
<1>5. SayAll(Q, none, t) = SayAll(P, o, t)
  BY <1>1, <1>3, <1>4, CutSays
<1> QED BY <1>5 DEF none

\* A scene is closed, and the next one begins with the next turn.
LEMMA CloseSays ==
  ASSUME NEW P \in Seq(Seq(Turn)), NEW o \in Seq(Turn), NEW t \in Seq(Turn), t # <<>>
  PROVE  SayAll(Append(P, o), <<Head(t)>>, Tail(t)) = SayAll(P, o, t)
<1> PICK Q : Q = Append(P, o)
  OBVIOUS
<1> PICK none : none = <<>>
  OBVIOUS
<1>1. Q \in Seq(Seq(Turn)) /\ none \in Seq(Turn)
  BY OneMoreRequest, EmptyTurns
<1>2. SayAll(Q, Append(none, Head(t)), Tail(t)) = SayAll(Q, none, t)
  BY <1>1, PackSays
<1>3. Append(none, Head(t)) = <<Head(t)>>
  OBVIOUS
<1>4. SayAll(Q, none, t) = SayAll(P, o, t)
  BY EndSays
<1> QED BY <1>2, <1>3, <1>4

\* Before the first request.
LEMMA NoneSays ==
  ASSUME NEW t \in Seq(Turn)
  PROVE  SayAll(<<>>, <<>>, t) = HeardIn(t)
<1> PICK none : none = <<>>
  OBVIOUS
<1>1. none \in Seq(Turn) /\ none \in Seq(Seq(Turn)) /\ FlattenSeq(none) = none
  BY EmptyTurns, FlattenEmpty
<1>2. SayAll(none, none, t) = (HeardIn(none) \o HeardIn(none)) \o HeardIn(t)
      /\ HeardIn(t) \in Seq(Sound)
  <2>1. SayAll(none, none, t) = (HeardIn(FlattenSeq(none)) \o HeardIn(none)) \o HeardIn(t)
        /\ HeardIn(t) \in Seq(Sound)
    BY <1>1, SayIs
  <2> QED BY <1>1, <2>1
<1>3. HeardIn(none) = <<>> /\ <<>> \o <<>> = <<>> /\ <<>> \in Seq(Sound)
  <2>1. <<>> \in Seq(Sound)
    BY EmptySeq
  <2> QED BY <2>1, HeardInEmpty, NothingHeard
<1>4. <<>> \o HeardIn(t) = HeardIn(t)
  BY <1>2, NothingBefore
<1> QED BY <1>2, <1>3, <1>4

\* The elements of a sequence with one more.
LEMMA RangeAppend ==
  ASSUME NEW S, NEW P \in Seq(S), NEW p \in S
  PROVE  Range(Append(P, p)) = Range(P) \cup {p}
<1> PICK Q : Q = Append(P, p)
  OBVIOUS
<1>1. /\ Len(P) \in Nat /\ DOMAIN P = 1 .. Len(P) /\ DOMAIN Q = 1 .. Len(P) + 1
      /\ (\A i \in 1 .. Len(P) : Q[i] = P[i]) /\ Q[Len(P) + 1] = p
  <2>1. Q \in Seq(S) /\ Len(Q) = Len(P) + 1 /\ (\A i \in 1 .. Len(P) : Q[i] = P[i])
        /\ Q[Len(P) + 1] = p
    BY AppendProperties
  <2> QED BY <2>1, LenProperties
<1>2. \A i \in 1 .. Len(P) + 1 : i \in 1 .. Len(P) \/ i = Len(P) + 1
  BY <1>1
<1>3. Len(P) + 1 \in 1 .. Len(P) + 1 /\ \A i \in 1 .. Len(P) : i \in 1 .. Len(P) + 1
  BY <1>1
<1>4. Range(Q) = Range(P) \cup {p}
  BY <1>1, <1>2, <1>3 DEF Range
<1> QED BY <1>4

\* The elements of a sequence of turns, as a set.
LEMMA TurnsInRange ==
  ASSUME NEW ts \in Seq(Turn), NEW t \in Range(ts)
  PROVE  t \in Turn /\ t.words \in Trimmed /\ t.role \in Roles /\ t.words # <<>>
<1>1. t \in Turn
  BY TurnFacts DEF Range
<1> QED BY <1>1 DEF Turn, Trimmed

\* What RequestsAreWithinLimits says of one request.
Fits(p) ==
  /\ p # <<>> /\ \A t \in Range(p) : t.words # <<>>
  /\ strategy = "text_to_dialogue_v3" =>
       Len(p) <= MaxSceneTurns /\ Size(p) <= MaxSceneCharacters
  /\ strategy = "stitched_text_to_speech" =>
       /\ Len(p) = 1
       /\ \/ Size(p) <= MaxFragmentCharacters
          \/ /\ Size(p) = MaxFragmentCharacters + 1
             /\ p[1].words[Size(p)] = "mark"

LEMMA WithinLimitsIs == RequestsAreWithinLimits <=> \A p \in Range(plans) : Fits(p)
BY DEF RequestsAreWithinLimits, Fits

\* A step that makes no request, and one that makes one.
LEMMA LimitsStay ==
  ASSUME RequestsAreWithinLimits, plans' = plans, strategy' = strategy
  PROVE  RequestsAreWithinLimits'
BY DEF RequestsAreWithinLimits

LEMMA OneMoreFits ==
  ASSUME RequestsAreWithinLimits, plans \in Seq(Seq(Turn)), strategy' = strategy,
         NEW p \in Seq(Turn), Fits(p), plans' = Append(plans, p)
  PROVE  RequestsAreWithinLimits' /\ plans' \in Seq(Seq(Turn)) /\ plans' # <<>>
<1>1. plans' \in Seq(Seq(Turn)) /\ plans' # <<>>
  BY AppendProperties
<1>2. Range(plans') = Range(plans) \cup {p}
  BY RangeAppend
<1>3. \A q \in Range(plans') : Fits(q)
  BY <1>2, WithinLimitsIs
<1>4. RequestsAreWithinLimits'
  <2>1. ASSUME NEW q PROVE Fits(q)' <=> Fits(q)
    BY DEF Fits
  <2>2. RequestsAreWithinLimits' <=> \A q \in Range(plans') : Fits(q)'
    BY DEF RequestsAreWithinLimits, Fits
  <2> QED BY <1>3, <2>1, <2>2
<1> QED BY <1>1, <1>4

\* A request of one turn.
LEMMA SizeOne ==
  ASSUME NEW e \in Turn
  PROVE  /\ <<e>> \in Seq(Turn) /\ Len(<<e>>) = 1 /\ <<e>>[1] = e /\ <<e>> # <<>>
         /\ Size(<<e>>) = Len(e.words)
<1> DEFINE none == <<>>
<1>1. none \in Seq(Turn) /\ Size(none) = 0 /\ Append(none, e) = <<e>>
  BY EmptyTurns, SizeEmpty
<1> HIDE DEF none
<1>2. Size(Append(none, e)) = Size(none) + Len(e.words)
  BY <1>1, SizeAppend
<1>3. Len(e.words) \in Nat
  BY TrimmedLen DEF Turn
<1>4. Size(Append(none, e)) = Len(e.words)
  BY <1>1, <1>2, <1>3
<1> QED BY <1>1, <1>4

-----------------------------------------------------------------------------
(***************************************************************************)
(* The gate.                                                               *)
(***************************************************************************)

\* What a step of the gate does: it refuses, or publishes a text that parses.
LEMMA VerifyEffect ==
  ASSUME DialogueTypes, Verify
  PROVE  /\ step = "verify"
         /\ UNCHANGED <<strategy, draft, turns, open, plans>>
         /\ \/ step' = "refused" /\ text' = text
            \/ /\ step' = "plan" /\ Parses(text') /\ text' \in Seq(Line)
               /\ verdict'.outcome \in {"accepted", "corrected"}
               /\ text' = verdict'.text \/ (text' = draft /\ verdict'.outcome = "accepted")
<1>1. step = "verify" /\ UNCHANGED <<strategy, draft, turns, open, plans>>
  BY DEF Verify
<1>2. PICK a \in Answers :
        /\ verdict' = Normalised(a)
        /\ \/ Refuse("structured_output_failure") /\ UNCHANGED text
           \/ Refuse("validation_failed") /\ UNCHANGED text
           \/ /\ WellFormed(Normalised(a)) /\ Normalised(a).outcome # "blocked"
              /\ IF Parses(Published(Normalised(a)))
                 THEN text' = Published(Normalised(a)) /\ step' = "plan" /\ UNCHANGED error
                 ELSE Refuse("invalid_dialogue_turn") /\ UNCHANGED text
  BY DEF Verify
<1> PICK v : v = Normalised(a)
  OBVIOUS
<1>3. v.text \in Seq(Line) /\ draft \in Seq(Line)
  <2>1. a.text \in {draft, NoText} \cup Rewrites
    BY DEF Answers
  <2>2. v.text = NoText \/ v.text = a.text
    BY DEF Normalised
  <2>3. NoText \in Seq(Line)
    BY EmptySeq DEF NoText
  <2>4. draft \in Seq(Line) /\ Rewrites \subseteq Seq(Line)
    BY TextsAreLines DEF DialogueTypes
  <2> QED BY <2>1, <2>2, <2>3, <2>4
<1>4. CASE step' = "refused" /\ text' = text
  BY <1>1, <1>4
<1>5. CASE /\ WellFormed(v) /\ v.outcome # "blocked" /\ Parses(Published(v))
           /\ text' = Published(v) /\ step' = "plan"
  <2>1. v.outcome \in {"accepted", "corrected"}
    BY <1>5 DEF WellFormed
  <2>2. Published(v) = v.text \/ (Published(v) = draft /\ v.outcome = "accepted")
    BY DEF Published
  <2>3. verdict' = v
    BY <1>2
  <2>4. text' \in Seq(Line) /\ Parses(text')
    BY <1>3, <1>5, <2>2
  <2> QED BY <1>1, <1>5, <2>1, <2>2, <2>3, <2>4
<1> QED BY <1>2, <1>4, <1>5 DEF Refuse

\* A text without lines does not parse.
LEMMA NothingParses == ~Parses(NoText)
BY EmptySeq DEF Parses, NoText

\* The gate keeps the invariant.
LEMMA VerifyKeeps ==
  ASSUME DialogueInv, Verify
  PROVE  DialogueInv'
<1>0. /\ DialogueTypes /\ TextIsPublished /\ NothingPlannedYet /\ TurnsAreOfText
      /\ OpenFits /\ RequestsAreWithinLimits
  BY DEF DialogueInv
<1>1. /\ step = "verify"
      /\ UNCHANGED <<strategy, draft, turns, open, plans>>
      /\ \/ step' = "refused" /\ text' = text
         \/ /\ step' = "plan" /\ Parses(text') /\ text' \in Seq(Line)
            /\ verdict'.outcome \in {"accepted", "corrected"}
            /\ text' = verdict'.text \/ (text' = draft /\ verdict'.outcome = "accepted")
  BY <1>0, VerifyEffect
<1>2. text = NoText /\ turns = <<>> /\ open = <<>> /\ plans = <<>>
  BY <1>0, <1>1 DEF TextIsPublished, NothingPlannedYet
<1>3. DialogueTypes'
  BY <1>0, <1>1 DEF DialogueTypes
<1>4. TextIsPublished'
  BY <1>1, <1>2, NothingParses DEF TextIsPublished
<1>5. TextIsVerified'
  BY <1>1, <1>2 DEF TextIsVerified
<1>6. RefusalIsExplained'
  BY <1>1, <1>2 DEF RefusalIsExplained
<1>7. NothingPlannedYet' /\ PlanningGoesOn' /\ SaysTheText'
  BY <1>1, <1>2 DEF NothingPlannedYet, PlanningGoesOn, SaysTheText
<1>8. TurnsAreOfText'
  <2>1. turns' = <<>>
    BY <1>1, <1>2
  <2>2. Range(turns') = {}
    BY <2>1, EmptyTurns
  <2> QED BY <2>2 DEF TurnsAreOfText
<1>9. OpenFits'
  BY <1>0, <1>1, <1>2 DEF OpenFits
<1>10. RequestsAreWithinLimits'
  BY <1>0, <1>1, LimitsStay
<1> QED BY <1>3, <1>4, <1>5, <1>6, <1>7, <1>8, <1>9, <1>10 DEF DialogueInv

-----------------------------------------------------------------------------
(***************************************************************************)
(* The planning.                                                           *)
(***************************************************************************)

\* What the steps of the planning leave alone.
TextStays == UNCHANGED <<strategy, draft, verdict, text>>

\* What the planning never touches.
LEMMA TextFactsStay ==
  ASSUME DialogueInv, TextStays, step \in {"plan", "turns"},
         step' \in {"turns", "planned", "refused"},
         turns' \in Seq(Turn), open' \in Seq(Turn), plans' \in Seq(Seq(Turn))
  PROVE  /\ DialogueTypes' /\ TextIsPublished' /\ TextIsVerified' /\ NothingPlannedYet'
         /\ Turns(text)' = Turns(text) /\ Turns(text) \in Seq(Turn)
         /\ text # NoText /\ Parses(text) /\ text \in Seq(Line)
<1>1. DialogueTypes'
  BY DEF DialogueInv, DialogueTypes, TextStays
<1>2. TextIsPublished'
  BY DEF DialogueInv, TextIsPublished, TextStays
<1>3. TextIsVerified'
  BY DEF DialogueInv, TextIsVerified, TextStays
<1>4. NothingPlannedYet'
  BY DEF NothingPlannedYet
<1>5. text' = text
  BY DEF TextStays
<1>6. text # NoText /\ Parses(text) /\ text \in Seq(Line)
  BY DEF DialogueInv, TextIsPublished, DialogueTypes
<1>7. Turns(text) \in Seq(Turn)
  BY <1>6, TurnsSayTheText
<1> QED BY <1>1, <1>2, <1>3, <1>4, <1>5, <1>6, <1>7

\* The parsed turns say the text, and there is at least one.
LEMMA PlanKeeps ==
  ASSUME DialogueInv, Plan
  PROVE  DialogueInv'
<1>1. step = "plan" /\ text # NoText /\ Parses(text) /\ text \in Seq(Line)
  BY DEF Plan, DialogueInv, TextIsPublished, DialogueTypes
<1>2. /\ step' = "turns" /\ turns' = Turns(text) /\ TextStays
      /\ open' = open /\ plans' = plans
  BY <1>1 DEF Plan, TextStays
<1>3. open = <<>> /\ plans = <<>>
  BY <1>1 DEF DialogueInv, NothingPlannedYet
<1>4. /\ Turns(text) \in Seq(Turn) /\ Turns(text) # <<>>
      /\ HeardIn(Turns(text)) = HeardOf(text)
  BY <1>1, TurnsSayTheText
<1>5. turns' \in Seq(Turn) /\ open' \in Seq(Turn) /\ plans' \in Seq(Seq(Turn))
  BY <1>2, <1>4 DEF DialogueInv, DialogueTypes
<1>6. DialogueTypes' /\ TextIsPublished' /\ TextIsVerified' /\ NothingPlannedYet'
  BY <1>1, <1>2, <1>5, TextFactsStay
<1>7. RefusalIsExplained'
  BY <1>2 DEF RefusalIsExplained
<1>8. PlanningGoesOn'
  BY <1>2, <1>4 DEF PlanningGoesOn
<1>9. SaysTheText'
  <2>1. SayAll(plans', open', turns') = HeardOf(text')
    <3>1. SayAll(<<>>, <<>>, Turns(text)) = HeardIn(Turns(text))
      BY <1>4, NoneSays
    <3>2. text' = text
      BY <1>2 DEF TextStays
    <3> QED BY <1>2, <1>3, <1>4, <3>1, <3>2
  <2> QED BY <2>1 DEF SaysTheText, SayAll
<1>10. TurnsAreOfText'
  BY <1>2 DEF TurnsAreOfText, TextStays
<1>11. OpenFits'
  <2>1. open' = <<>>
    BY <1>2, <1>3
  <2> QED BY <2>1, EmptyTurns, SizeEmpty, LimitFacts DEF OpenFits
<1>12. RequestsAreWithinLimits'
  BY <1>2, LimitsStay DEF DialogueInv, TextStays
<1> QED BY <1>6, <1>7, <1>8, <1>9, <1>10, <1>11, <1>12 DEF DialogueInv

LEMMA SaysIs == SaysTheText <=>
  (step \in {"turns", "planned"} => SayAll(plans, open, turns) = HeardOf(text))
BY DEF SaysTheText, SayAll

\* What is said stays what the text says when it is only moved.
LEMMA SaysStay ==
  ASSUME SaysTheText, step = "turns", TextStays,
         SayAll(plans', open', turns') = SayAll(plans, open, turns)
  PROVE  SaysTheText'
<1>1. SayAll(plans', open', turns') = HeardOf(text)
  BY SaysIs
<1>2. text' = text
  BY DEF TextStays
<1> QED BY <1>1, <1>2 DEF SaysTheText, SayAll

\* A turn that is longer than a scene may be ends the planning.
LEMMA PackRefuses ==
  ASSUME DialogueInv, PackTurn, Len(Head(turns).words) > MaxSceneCharacters
  PROVE  DialogueInv'
<1>1. /\ step = "turns" /\ turns # <<>> /\ TextStays
      /\ step' = "refused" /\ error' = "tts_turn_too_long"
      /\ turns' = turns /\ open' = open /\ plans' = plans
  BY DEF PackTurn, Refuse, TextStays
<1>2. turns \in Seq(Turn) /\ open \in Seq(Turn) /\ plans \in Seq(Seq(Turn))
  BY DEF DialogueInv, DialogueTypes
<1>3. /\ DialogueTypes' /\ TextIsPublished' /\ TextIsVerified' /\ NothingPlannedYet'
  BY <1>1, <1>2, TextFactsStay
<1>4. Head(turns) \in Range(Turns(text))
  BY <1>1, <1>2, NextTurn DEF DialogueInv, TurnsAreOfText
<1>5. RefusalIsExplained'
  <2>1. \E t \in Range(Turns(text)) : Len(t.words) > MaxSceneCharacters
    BY <1>4
  <2>2. text' = text
    BY <1>1 DEF TextStays
  <2> QED BY <1>1, <2>1, <2>2 DEF RefusalIsExplained
<1>6. PlanningGoesOn' /\ SaysTheText'
  BY <1>1 DEF PlanningGoesOn, SaysTheText
<1>7. TurnsAreOfText' /\ OpenFits'
  BY <1>1 DEF DialogueInv, TurnsAreOfText, OpenFits, TextStays
<1>8. RequestsAreWithinLimits'
  BY <1>1, LimitsStay DEF DialogueInv, TextStays
<1> QED BY <1>3, <1>5, <1>6, <1>7, <1>8 DEF DialogueInv

\* The turn fits into a scene of its own.
LEMMA PackFacts ==
  ASSUME DialogueInv, PackTurn, ~(Len(Head(turns).words) > MaxSceneCharacters)
  PROVE  /\ step = "turns" /\ turns # <<>> /\ strategy = "text_to_dialogue_v3" /\ TextStays
         /\ step' = step /\ turns' = Tail(turns)
         /\ turns \in Seq(Turn) /\ open \in Seq(Turn) /\ plans \in Seq(Seq(Turn))
         /\ Head(turns) \in Turn /\ turns' \in Seq(Turn)
         /\ Len(Head(turns).words) \in Nat /\ Len(Head(turns).words) <= MaxSceneCharacters
         /\ RefusalIsExplained' /\ TurnsAreOfText'
<1>1. /\ step = "turns" /\ turns # <<>> /\ strategy = "text_to_dialogue_v3" /\ TextStays
      /\ step' = step /\ turns' = Tail(turns)
  BY DEF PackTurn, TextStays
<1>2. turns \in Seq(Turn) /\ open \in Seq(Turn) /\ plans \in Seq(Seq(Turn))
  BY DEF DialogueInv, DialogueTypes
<1>3. Head(turns) \in Turn /\ turns' \in Seq(Turn) /\ Range(turns') \subseteq Range(turns)
  BY <1>1, <1>2, NextTurn
<1>4. Len(Head(turns).words) \in Nat
  BY <1>3, TrimmedLen DEF Turn
<1>5. Len(Head(turns).words) <= MaxSceneCharacters
  BY <1>4, LimitFacts
<1>6. RefusalIsExplained'
  BY <1>1 DEF RefusalIsExplained
<1>7. TurnsAreOfText'
  BY <1>1, <1>3 DEF DialogueInv, TurnsAreOfText, TextStays
<1> QED BY <1>1, <1>2, <1>3, <1>4, <1>5, <1>6, <1>7

\* What is open is a request.
LEMMA ScenesFit ==
  ASSUME DialogueInv, strategy = "text_to_dialogue_v3", open # <<>>
  PROVE  Fits(open)
<1>1. /\ open \in Seq(Turn)
      /\ Len(open) <= MaxSceneTurns /\ Size(open) <= MaxSceneCharacters
  BY DEF DialogueInv, DialogueTypes, OpenFits
<1>2. \A t \in Range(open) : t.words # <<>>
  BY <1>1, TurnsInRange
<1> QED BY <1>1, <1>2 DEF Fits

\* A full scene becomes a request, and the turn opens the next.
LEMMA PackCloses ==
  ASSUME DialogueInv, PackTurn, ~(Len(Head(turns).words) > MaxSceneCharacters),
         open # <<>>, Full(Head(turns))
  PROVE  DialogueInv'
<1>1. plans' = Append(plans, open) /\ open' = <<Head(turns)>>
  BY DEF PackTurn
<1>2. /\ step = "turns" /\ turns # <<>> /\ strategy = "text_to_dialogue_v3" /\ TextStays
      /\ step' = step /\ turns' = Tail(turns)
      /\ turns \in Seq(Turn) /\ open \in Seq(Turn) /\ plans \in Seq(Seq(Turn))
      /\ Head(turns) \in Turn /\ turns' \in Seq(Turn)
      /\ Len(Head(turns).words) \in Nat /\ Len(Head(turns).words) <= MaxSceneCharacters
      /\ RefusalIsExplained' /\ TurnsAreOfText'
  BY PackFacts
<1>3. RequestsAreWithinLimits' /\ plans' \in Seq(Seq(Turn)) /\ plans' # <<>>
  <2>1. Fits(open)
    BY <1>2, ScenesFit
  <2>2. RequestsAreWithinLimits /\ strategy' = strategy
    BY <1>2 DEF DialogueInv, TextStays
  <2> QED BY <1>1, <1>2, <2>1, <2>2, OneMoreFits
<1> PICK h : h = Head(turns)
  OBVIOUS
<1>4. /\ open' \in Seq(Turn) /\ Len(open') = 1 /\ open' # <<>>
      /\ Size(open') = Len(h.words)
  BY <1>1, <1>2, SizeOne
<1>5. DialogueTypes' /\ TextIsPublished' /\ TextIsVerified' /\ NothingPlannedYet'
  BY <1>2, <1>3, <1>4, TextFactsStay
<1>6. PlanningGoesOn'
  BY <1>2, <1>3 DEF PlanningGoesOn
<1>7. SaysTheText'
  <2>1. SayAll(Append(plans, open), <<Head(turns)>>, Tail(turns)) = SayAll(plans, open, turns)
    BY <1>2, CloseSays
  <2>2. SayAll(plans', open', turns') = SayAll(plans, open, turns)
    BY <1>1, <1>2, <2>1
  <2> QED BY <1>2, <2>2, SaysStay DEF DialogueInv
<1>8. OpenFits'
  <2>1. strategy' = "text_to_dialogue_v3"
    BY <1>2 DEF TextStays
  <2>2. Len(open') <= MaxSceneTurns /\ Size(open') <= MaxSceneCharacters
    BY <1>2, <1>4, LimitFacts
  <2> QED BY <2>1, <2>2 DEF OpenFits
<1> QED BY <1>2, <1>3, <1>5, <1>6, <1>7, <1>8 DEF DialogueInv

\* The turn joins a scene with room for it.
LEMMA PackAdds ==
  ASSUME DialogueInv, PackTurn, ~(Len(Head(turns).words) > MaxSceneCharacters),
         ~(open # <<>> /\ Full(Head(turns)))
  PROVE  DialogueInv'
<1>1. plans' = plans /\ open' = Append(open, Head(turns))
  BY DEF PackTurn
<1>2. /\ step = "turns" /\ turns # <<>> /\ strategy = "text_to_dialogue_v3" /\ TextStays
      /\ step' = step /\ turns' = Tail(turns)
      /\ turns \in Seq(Turn) /\ open \in Seq(Turn) /\ plans \in Seq(Seq(Turn))
      /\ Head(turns) \in Turn /\ turns' \in Seq(Turn)
      /\ Len(Head(turns).words) \in Nat /\ Len(Head(turns).words) <= MaxSceneCharacters
      /\ RefusalIsExplained' /\ TurnsAreOfText'
  BY PackFacts
<1>3. RequestsAreWithinLimits'
  BY <1>1, <1>2, LimitsStay DEF DialogueInv, TextStays
<1> PICK h : h = Head(turns)
  OBVIOUS
<1>4. /\ open' \in Seq(Turn) /\ open' # <<>>
      /\ SayAll(plans, open', Tail(turns)) = SayAll(plans, open, turns)
  BY <1>1, <1>2, PackSays
<1>5. DialogueTypes' /\ TextIsPublished' /\ TextIsVerified' /\ NothingPlannedYet'
  BY <1>1, <1>2, <1>4, TextFactsStay
<1>6. PlanningGoesOn'
  BY <1>2, <1>4 DEF PlanningGoesOn
<1>7. SaysTheText'
  <2>1. SayAll(plans', open', turns') = SayAll(plans, open, turns)
    BY <1>1, <1>2, <1>4
  <2> QED BY <1>2, <2>1, SaysStay DEF DialogueInv
<1>8. OpenFits'
  <2>1. strategy' = "text_to_dialogue_v3"
    BY <1>2 DEF TextStays
  <2>2. /\ Size(open) \in Nat /\ Size(open') = Size(open) + Len(h.words)
    BY <1>1, <1>2, SizeAppend
  <2>3. Len(open') = Len(open) + 1 /\ Len(open) \in Nat
    BY <1>1, <1>2, AppendProperties, LenProperties
  <2>4. Len(open') <= MaxSceneTurns /\ Size(open') <= MaxSceneCharacters
    <3>1. CASE open = <<>>
      <4>1. Len(open) = 0 /\ Size(open) = 0
        BY <3>1, EmptyTurns, SizeEmpty
      <4> QED BY <1>2, <2>2, <2>3, <4>1, LimitFacts
    <3>2. CASE open # <<>>
      <4>1. ~Full(h)
        BY <3>2
      <4>2. ~(Len(open) >= MaxSceneTurns) /\ ~(Size(open) + Len(h.words) > MaxSceneCharacters)
        BY <4>1 DEF Full
      <4> QED BY <1>2, <2>2, <2>3, <4>2, LimitFacts
    <3> QED BY <3>1, <3>2
  <2> QED BY <2>1, <2>4 DEF OpenFits
<1> QED BY <1>2, <1>3, <1>5, <1>6, <1>7, <1>8 DEF DialogueInv

\* A turn is taken to be split.
LEMMA TakeTurnKeeps ==
  ASSUME DialogueInv, TakeTurn
  PROVE  DialogueInv'
<1>1. /\ step = "turns" /\ strategy = "stitched_text_to_speech" /\ TextStays
      /\ turns # <<>> /\ open = <<>>
      /\ open' = <<Head(turns)>> /\ turns' = Tail(turns) /\ step' = step /\ plans' = plans
  BY DEF TakeTurn, TextStays
<1>2. turns \in Seq(Turn) /\ open \in Seq(Turn) /\ plans \in Seq(Seq(Turn))
  BY DEF DialogueInv, DialogueTypes
<1> PICK h : h = Head(turns)
  OBVIOUS
<1>3. /\ h \in Turn /\ turns' \in Seq(Turn) /\ h \in Range(turns)
      /\ Range(turns') \subseteq Range(turns)
  BY <1>1, <1>2, NextTurn
<1>4. open' \in Seq(Turn) /\ Len(open') = 1 /\ open' # <<>> /\ open'[1] = h
  BY <1>1, <1>3, SizeOne
<1>5. DialogueTypes' /\ TextIsPublished' /\ TextIsVerified' /\ NothingPlannedYet'
  BY <1>1, <1>2, <1>3, <1>4, TextFactsStay
<1>6. RefusalIsExplained' /\ PlanningGoesOn'
  BY <1>1, <1>4 DEF RefusalIsExplained, PlanningGoesOn
<1>7. SaysTheText'
  <2>1. SayAll(plans, Append(open, Head(turns)), Tail(turns)) = SayAll(plans, open, turns)
    BY <1>1, <1>2, PackSays
  <2>2. Append(open, Head(turns)) = <<Head(turns)>>
    BY <1>1
  <2>3. SayAll(plans', open', turns') = SayAll(plans, open, turns)
    BY <1>1, <2>1, <2>2
  <2> QED BY <1>1, <2>3, SaysStay DEF DialogueInv
<1>8. TurnsAreOfText'
  BY <1>1, <1>3 DEF DialogueInv, TurnsAreOfText, TextStays
<1>9. OpenFits'
  <2>1. h \in Range(Turns(text')) /\ strategy' = "stitched_text_to_speech"
    BY <1>1, <1>3 DEF DialogueInv, TurnsAreOfText, TextStays
  <2>2. EndOf(h.words, h.words)
    BY <1>3, EndOfItself DEF Turn
  <2>3. \E t \in Range(Turns(text')) : EndOf(open'[1].words, t.words)
    BY <1>4, <2>1, <2>2
  <2> QED BY <1>4, <2>1, <2>3 DEF OpenFits
<1>10. RequestsAreWithinLimits'
  BY <1>1, LimitsStay DEF DialogueInv, TextStays
<1> QED BY <1>5, <1>6, <1>7, <1>8, <1>9, <1>10 DEF DialogueInv

\* The last scene becomes a request.
LEMMA EndPlanKeeps ==
  ASSUME DialogueInv, EndPlan
  PROVE  DialogueInv'
<1>1. /\ step = "turns" /\ turns = <<>> /\ TextStays
      /\ open = <<>> \/ strategy = "text_to_dialogue_v3"
      /\ plans' = IF open = <<>> THEN plans ELSE Append(plans, open)
      /\ open' = <<>> /\ step' = "planned" /\ turns' = turns
  BY DEF EndPlan, TextStays
<1>2. turns \in Seq(Turn) /\ open \in Seq(Turn) /\ plans \in Seq(Seq(Turn))
  BY DEF DialogueInv, DialogueTypes
<1>3. RequestsAreWithinLimits' /\ plans' \in Seq(Seq(Turn)) /\ plans' # <<>>
  <2>0. RequestsAreWithinLimits /\ strategy' = strategy /\ PlanningGoesOn
    BY <1>1 DEF DialogueInv, TextStays
  <2>1. CASE open = <<>>
    <3>1. plans' = plans
      BY <1>1, <2>1
    <3>2. plans # <<>>
      BY <1>1, <2>0, <2>1 DEF PlanningGoesOn
    <3> QED BY <1>2, <2>0, <3>1, <3>2, LimitsStay
  <2>2. CASE open # <<>>
    <3>1. plans' = Append(plans, open) /\ strategy = "text_to_dialogue_v3"
      BY <1>1, <2>2
    <3>2. Fits(open)
      BY <2>2, <3>1, ScenesFit
    <3> QED BY <1>2, <2>0, <3>1, <3>2, OneMoreFits
  <2> QED BY <2>1, <2>2
<1>4. open' \in Seq(Turn) /\ turns' \in Seq(Turn)
  BY <1>1, <1>2, EmptyTurns
<1>5. DialogueTypes' /\ TextIsPublished' /\ TextIsVerified' /\ NothingPlannedYet'
  BY <1>1, <1>3, <1>4, TextFactsStay
<1>6. RefusalIsExplained'
  BY <1>1 DEF RefusalIsExplained
<1>7. PlanningGoesOn'
  BY <1>1, <1>3 DEF PlanningGoesOn
<1>8. SaysTheText'
  <2>1. SayAll(plans', open', turns') = SayAll(plans, open, turns)
    <3>1. CASE open = <<>>
      <4>1. plans' = plans /\ open' = open /\ turns' = turns
        BY <1>1, <3>1
      <4> QED BY <4>1
    <3>2. CASE open # <<>>
      <4>1. SayAll(Append(plans, open), <<>>, turns) = SayAll(plans, open, turns)
        BY <1>2, EndSays
      <4>2. plans' = Append(plans, open)
        BY <1>1, <3>2
      <4> QED BY <1>1, <4>1, <4>2
    <3> QED BY <3>1, <3>2
  <2> QED BY <1>1, <2>1, SaysStay DEF DialogueInv
<1>9. TurnsAreOfText'
  BY <1>1 DEF DialogueInv, TurnsAreOfText, TextStays
<1>10. OpenFits'
  BY <1>1, EmptyTurns, SizeEmpty, LimitFacts DEF OpenFits
<1> QED BY <1>3, <1>5, <1>6, <1>7, <1>8, <1>9, <1>10 DEF DialogueInv

\* What is split is the rest of one turn.
LEMMA SplitFacts ==
  ASSUME DialogueInv, Split
  PROVE  /\ step = "turns" /\ strategy = "stitched_text_to_speech" /\ TextStays
         /\ turns' = turns /\ RequestsAreWithinLimits
         /\ turns \in Seq(Turn) /\ open \in Seq(Turn) /\ plans \in Seq(Seq(Turn))
         /\ Head(open) \in Turn /\ open = <<Head(open)>>
         /\ Head(open).words \in Trimmed /\ Head(open).role \in Roles
         /\ \E t \in Range(Turns(text)) : EndOf(Head(open).words, t.words)
<1>1. /\ step = "turns" /\ strategy = "stitched_text_to_speech" /\ TextStays
      /\ open # <<>> /\ turns' = turns
  BY DEF Split, TextStays
<1>2. /\ turns \in Seq(Turn) /\ open \in Seq(Turn) /\ plans \in Seq(Seq(Turn))
      /\ RequestsAreWithinLimits
  BY DEF DialogueInv, DialogueTypes
<1>3. Len(open) = 1 /\ \E t \in Range(Turns(text)) : EndOf(open[1].words, t.words)
  BY <1>1 DEF DialogueInv, OpenFits
<1>4. Head(open) \in Turn
  BY <1>1, <1>2, NextTurn
<1>5. open = <<open[1]>>
  BY <1>2, <1>3
<1>6. Head(open) = open[1]
  BY <1>5
<1>7. Head(open).words \in Trimmed /\ Head(open).role \in Roles
  BY <1>4 DEF Turn
<1> QED BY <1>1, <1>2, <1>3, <1>4, <1>5, <1>6, <1>7

\* What holds whenever a fragment is cut off.
LEMMA FragmentKeeps ==
  ASSUME DialogueInv, Split, step' = step,
         NEW f \in Turn, NEW o \in Seq(Turn), plans' = Append(plans, <<f>>), open' = o,
         Divides(open, <<f>>, o), Fits(<<f>>),
         o = <<>> \/ (Len(o) = 1 /\ \E t \in Range(Turns(text)) : EndOf(o[1].words, t.words))
  PROVE  DialogueInv'
<1>1. /\ step = "turns" /\ strategy = "stitched_text_to_speech" /\ TextStays
      /\ turns' = turns /\ RequestsAreWithinLimits
      /\ turns \in Seq(Turn) /\ open \in Seq(Turn) /\ plans \in Seq(Seq(Turn))
  BY SplitFacts
<1> DEFINE p == <<f>>
<1>2. p \in Seq(Turn) /\ Fits(p) /\ plans' = Append(plans, p) /\ Divides(open, p, o)
  OBVIOUS
<1> HIDE DEF p
<1>3. RequestsAreWithinLimits' /\ plans' \in Seq(Seq(Turn)) /\ plans' # <<>>
  <2>1. strategy' = strategy
    BY <1>1 DEF TextStays
  <2> QED BY <1>1, <1>2, <2>1, OneMoreFits
<1>4. DialogueTypes' /\ TextIsPublished' /\ TextIsVerified' /\ NothingPlannedYet'
  BY <1>1, <1>3, TextFactsStay
<1>5. RefusalIsExplained'
  BY <1>1 DEF RefusalIsExplained
<1>6. PlanningGoesOn'
  BY <1>1, <1>3 DEF PlanningGoesOn
<1>7. SaysTheText'
  <2> PICK Q : Q = plans'
    OBVIOUS
  <2>1. AddsRequest(Q, plans, p) /\ Divides(open, p, o)
    BY <1>2 DEF AddsRequest
  <2>2. SayAll(Q, o, turns) = SayAll(plans, open, turns)
    BY <1>1, <1>2, <2>1, CutSays
  <2>3. SayAll(plans', open', turns') = SayAll(plans, open, turns)
    BY <1>1, <2>2
  <2> QED BY <1>1, <2>3, SaysStay DEF DialogueInv
<1>8. TurnsAreOfText'
  BY <1>1 DEF DialogueInv, TurnsAreOfText, TextStays
<1>9. OpenFits'
  <2>1. text' = text /\ strategy' = "stitched_text_to_speech"
    BY <1>1 DEF TextStays
  <2> QED BY <2>1 DEF OpenFits
<1> QED BY <1>3, <1>4, <1>5, <1>6, <1>7, <1>8, <1>9 DEF DialogueInv

\* A fragment of allowed length is a request.
LEMMA FragmentFits ==
  ASSUME strategy = "stitched_text_to_speech", NEW f \in Turn,
         \/ Len(f.words) <= MaxFragmentCharacters
         \/ Len(f.words) = MaxFragmentCharacters + 1 /\ f.words[Len(f.words)] = "mark"
  PROVE  Fits(<<f>>)
<1> PICK p : p = <<f>>
  OBVIOUS
<1>1. p \in Seq(Turn) /\ Len(p) = 1 /\ p[1] = f /\ p # <<>> /\ Size(p) = Len(f.words)
  BY SizeOne
<1>2. \A t \in Range(p) : t.words # <<>>
  BY <1>1, TurnsInRange
<1>3. Fits(p)
  BY <1>1, <1>2 DEF Fits
<1> QED BY <1>3

\* A rest without a place to cut it shows such a stretch in the text.
LEMMA SplitRefuses ==
  ASSUME DialogueInv, Split, NEW w, w = Head(open).words,
         Len(w) > MaxFragmentCharacters, Boundary(w) <= 1,
         Refuse("tts_unsplittable_token"), open' = open, plans' = plans
  PROVE  DialogueInv'
<1>1. /\ step = "turns" /\ strategy = "stitched_text_to_speech" /\ TextStays
      /\ turns' = turns /\ RequestsAreWithinLimits
      /\ turns \in Seq(Turn) /\ open \in Seq(Turn) /\ plans \in Seq(Seq(Turn))
      /\ w \in Trimmed
      /\ \E t \in Range(Turns(text)) : EndOf(w, t.words)
  BY SplitFacts
<1>2. step' = "refused" /\ error' = "tts_unsplittable_token"
  BY DEF Refuse
<1>3. DialogueTypes' /\ TextIsPublished' /\ TextIsVerified' /\ NothingPlannedYet'
      /\ Turns(text) \in Seq(Turn)
  BY <1>1, <1>2, TextFactsStay
<1>4. \E t \in Range(Turns(text)) : \E i \in DOMAIN t.words :
        /\ i + MaxFragmentCharacters <= Len(t.words)
        /\ t.words[i] # "space"
        /\ \A j \in i + 1 .. i + MaxFragmentCharacters :
             /\ t.words[j] # "mark"
             /\ t.words[i] = "letter" => t.words[j] # "space"
  <2>1. PICK t \in Range(Turns(text)) : EndOf(w, t.words)
    BY <1>1
  <2> PICK v : v = t.words
    OBVIOUS
  <2>2. v \in Trimmed
    BY <1>3, TurnsInRange
  <2>3. PICK k \in 0 .. Len(v) : Len(w) = Len(v) - k /\ \A i \in 1 .. Len(w) : w[i] = v[k + i]
    BY <2>1 DEF EndOf
  <2>4. /\ Len(v) \in Nat /\ Len(w) \in Nat /\ Len(w) > 0 /\ w[1] # "space"
        /\ DOMAIN v = 1 .. Len(v)
    BY <1>1, <2>2, TrimmedFacts, LenProperties
  <2>5. \A j \in 2 .. MaxFragmentCharacters + 1 :
                 w[j] # "mark" /\ (w[1] = "letter" => w[j] # "space")
    BY <1>1, BoundaryIs
  <2> PICK i : i = k + 1
    OBVIOUS
  <2>6. i \in DOMAIN v /\ i + MaxFragmentCharacters <= Len(v)
    BY <2>3, <2>4, LimitFacts
  <2>7. v[i] = w[1]
    <3>1. 1 \in 1 .. Len(w)
      BY <2>4
    <3> QED BY <2>3, <3>1
  <2>8. ASSUME NEW j \in i + 1 .. i + MaxFragmentCharacters
        PROVE  v[j] # "mark" /\ (v[i] = "letter" => v[j] # "space")
    <3>1. j - k \in 2 .. MaxFragmentCharacters + 1 /\ j - k \in 1 .. Len(w) /\ k + (j - k) = j
      BY <2>3, <2>4, LimitFacts
    <3>2. v[j] = w[j - k]
      BY <2>3, <3>1
    <3> QED BY <2>5, <2>7, <3>1, <3>2
  <2>9. /\ i \in DOMAIN t.words /\ i + MaxFragmentCharacters <= Len(t.words)
        /\ t.words[i] # "space"
        /\ \A j \in i + 1 .. i + MaxFragmentCharacters :
             /\ t.words[j] # "mark"
             /\ t.words[i] = "letter" => t.words[j] # "space"
    BY <2>4, <2>6, <2>7, <2>8
  <2> QED BY <2>9
<1>5. RefusalIsExplained'
  <2>1. text' = text
    BY <1>1 DEF TextStays
  <2> QED BY <1>2, <1>4, <2>1 DEF RefusalIsExplained
<1>6. PlanningGoesOn' /\ SaysTheText'
  BY <1>2 DEF PlanningGoesOn, SaysTheText
<1>7. TurnsAreOfText' /\ OpenFits'
  BY <1>1 DEF DialogueInv, TurnsAreOfText, OpenFits, TextStays
<1>8. RequestsAreWithinLimits'
  BY <1>1, LimitsStay DEF TextStays
<1> QED BY <1>3, <1>5, <1>6, <1>7, <1>8 DEF DialogueInv

\* One round of the loop: the last fragment, a refusal or a cut.
LEMMA SplitKeeps ==
  ASSUME DialogueInv, Split
  PROVE  DialogueInv'
<1> PICK e : e = Head(open)
  OBVIOUS
<1> PICK w : w = e.words
  OBVIOUS
<1> PICK b : b = Boundary(w)
  OBVIOUS
<1>1. /\ step = "turns" /\ strategy = "stitched_text_to_speech"
      /\ open \in Seq(Turn) /\ e \in Turn /\ open = <<e>>
      /\ w \in Trimmed /\ e.role \in Roles
      /\ \E t \in Range(Turns(text)) : EndOf(w, t.words)
      /\ Turns(text) \in Seq(Turn)
  <2>1. Turns(text) \in Seq(Turn)
    <3>1. text \in Seq(Line)
      BY DEF DialogueInv, DialogueTypes
    <3> QED BY <3>1, AllAgree DEF Agrees
  <2> QED BY <2>1, SplitFacts
<1>2. \/ /\ Len(w) <= MaxFragmentCharacters
         /\ plans' = Append(plans, <<[e EXCEPT !.words = w]>>)
         /\ open' = <<>> /\ step' = step
      \/ /\ Len(w) > MaxFragmentCharacters /\ b <= 1
         /\ Refuse("tts_unsplittable_token") /\ UNCHANGED <<open, plans>>
      \/ /\ Len(w) > MaxFragmentCharacters /\ b > 1
         /\ plans' = Append(plans, <<[e EXCEPT !.words = Strip(SubSeq(w, 1, b))]>>)
         /\ open' = IF Strip(SubSeq(w, b + 1, Len(w))) = <<>> THEN <<>>
                    ELSE <<[e EXCEPT !.words = Strip(SubSeq(w, b + 1, Len(w)))]>>
         /\ step' = step
  BY DEF Split
<1>3. HeardIn(open) = Heard(e.role, w) /\ Heard(e.role, w) \in Seq(Sound)
  BY <1>1, HeardInOne, HeardTypes, TrimmedLen
<1>4. CASE /\ Len(w) <= MaxFragmentCharacters
           /\ plans' = Append(plans, <<[e EXCEPT !.words = w]>>)
           /\ open' = <<>> /\ step' = step
  <2>1. [e EXCEPT !.words = w] = e
    BY <1>1 DEF Turn
  <2>2. Fits(<<e>>)
    BY <1>1, <1>4, FragmentFits
  <2> DEFINE none == <<>>
  <2>3. none \in Seq(Turn) /\ HeardIn(none) = <<>>
    BY EmptyTurns, HeardInEmpty
  <2>4. none = <<>>
    OBVIOUS
  <2> HIDE DEF none
  <2>5. Divides(open, <<e>>, none)
    <3>1. HeardIn(<<e>>) \o HeardIn(none) = HeardIn(<<e>>)
      BY <1>1, <1>3, <2>3, NothingHeard
    <3> QED BY <1>1, <3>1 DEF Divides
  <2>6. plans' = Append(plans, <<e>>) /\ open' = none /\ step' = step
    BY <1>4, <2>1, <2>4
  <2> QED BY <1>1, <2>2, <2>3, <2>4, <2>5, <2>6, FragmentKeeps
<1>5. CASE /\ Len(w) > MaxFragmentCharacters /\ b <= 1
           /\ Refuse("tts_unsplittable_token") /\ UNCHANGED <<open, plans>>
  BY <1>5, SplitRefuses
<1>6. CASE /\ Len(w) > MaxFragmentCharacters /\ b > 1
           /\ plans' = Append(plans, <<[e EXCEPT !.words = Strip(SubSeq(w, 1, b))]>>)
           /\ open' = IF Strip(SubSeq(w, b + 1, Len(w))) = <<>> THEN <<>>
                      ELSE <<[e EXCEPT !.words = Strip(SubSeq(w, b + 1, Len(w)))]>>
           /\ step' = step
  <2>8. PICK f : f = Strip(SubSeq(w, 1, b))
    OBVIOUS
  <2>9. PICK r : r = Strip(SubSeq(w, b + 1, Len(w)))
    OBVIOUS
  <2>1. /\ f \in Trimmed
        /\ \/ Len(f) <= MaxFragmentCharacters
           \/ Len(f) = MaxFragmentCharacters + 1 /\ f[Len(f)] = "mark"
        /\ r = <<>> \/ (r \in Trimmed /\ EndOf(r, w))
        /\ r \in Seq(Characters)
        /\ Heard(e.role, w) = Heard(e.role, f) \o Heard(e.role, r)
    <3>1. IsCut(w, b, f, r)
      BY <1>6, <2>8, <2>9 DEF IsCut
    <3> QED BY <1>1, <3>1, CutIs
  <2> PICK x : x = [role |-> e.role, words |-> f]
    OBVIOUS
  <2>2. x \in Turn /\ x.words = f /\ x.role = e.role
    BY <1>1, <2>1 DEF Turn
  <2>3. plans' = Append(plans, <<x>>)
    BY <1>1, <1>6, <2>8, Reworded
  <2>4. Fits(<<x>>)
    BY <1>1, <2>1, <2>2, FragmentFits
  <2>5. HeardIn(<<x>>) = Heard(e.role, f)
    BY <2>2, HeardInOne
  <2>6. CASE r = <<>>
    <3> DEFINE none == <<>>
    <3>1. none \in Seq(Turn) /\ HeardIn(none) = <<>>
      BY EmptyTurns, HeardInEmpty
    <3>2. none = <<>>
      OBVIOUS
    <3> HIDE DEF none
    <3>3. Heard(e.role, r) = <<>>
      <4>1. \A i \in 1 .. Len(r) : r[i] = "space"
        <5>1. Len(r) = 0
          BY <2>6, EmptySeq
        <5> QED BY <5>1
      <4> QED BY <1>1, <2>1, <4>1, HeardSpaces
    <3>4. Divides(open, <<x>>, none)
      BY <1>3, <2>1, <2>5, <3>1, <3>3 DEF Divides
    <3>5. open' = none /\ step' = step
      BY <1>6, <2>6, <2>9, <3>2
    <3> QED BY <2>2, <2>3, <2>4, <3>1, <3>2, <3>4, <3>5, FragmentKeeps
  <2>7. CASE r # <<>>
    <3> PICK y : y = [role |-> e.role, words |-> r]
      OBVIOUS
    <3> PICK o : o = <<y>>
      OBVIOUS
    <3>1. r \in Trimmed /\ EndOf(r, w)
      BY <2>1, <2>7
    <3>2. y \in Turn /\ y.words = r /\ y.role = e.role
      BY <1>1, <3>1 DEF Turn
    <3>3. o \in Seq(Turn) /\ Len(o) = 1 /\ o[1] = y
      BY <3>2
    <3>4. open' = o /\ step' = step
      BY <1>1, <1>6, <2>7, <2>9, Reworded
    <3>5. HeardIn(o) = Heard(e.role, r)
      BY <3>2, HeardInOne
    <3>6. Divides(open, <<x>>, o)
      BY <1>3, <2>1, <2>5, <3>5 DEF Divides
    <3>7. \E t \in Range(Turns(text)) : EndOf(o[1].words, t.words)
      <4>1. PICK t \in Range(Turns(text)) : EndOf(w, t.words)
        BY <1>1
      <4>2. t.words \in Trimmed
        BY <1>1, TurnsInRange
      <4>3. EndOf(r, t.words)
        BY <1>1, <3>1, <4>1, <4>2, EndOfEnd
      <4> QED BY <3>2, <3>3, <4>3
    <3> QED BY <2>2, <2>3, <2>4, <3>3, <3>4, <3>6, <3>7, FragmentKeeps
  <2> QED BY <2>6, <2>7
<1> QED BY <1>2, <1>4, <1>5, <1>6

-----------------------------------------------------------------------------
(***************************************************************************)
(* The theorems.                                                           *)
(***************************************************************************)

\* The invariant holds at the start, and when nothing happens.
LEMMA DialogueStarts ==
  ASSUME DialogueInit
  PROVE  DialogueInv
<1>1. /\ strategy \in Strategies /\ draft \in Drafts /\ text = <<>> /\ step = "verify"
      /\ turns = <<>> /\ open = <<>> /\ plans = <<>>
  BY DEF DialogueInit, NoText
<1>2. DialogueTypes
  <2>1. <<>> \in Seq(Line)
    BY EmptySeq
  <2> QED BY <1>1, <2>1, EmptyTurns DEF DialogueTypes
<1>3. TextIsPublished /\ TextIsVerified /\ RefusalIsExplained
  BY <1>1 DEF TextIsPublished, TextIsVerified, RefusalIsExplained, NoText
<1>4. NothingPlannedYet /\ PlanningGoesOn /\ SaysTheText
  BY <1>1 DEF NothingPlannedYet, PlanningGoesOn, SaysTheText
<1>5. TurnsAreOfText /\ RequestsAreWithinLimits
  <2>1. Range(turns) = {} /\ Range(plans) = {}
    BY <1>1, EmptyTurns
  <2> QED BY <2>1 DEF TurnsAreOfText, RequestsAreWithinLimits
<1>6. OpenFits
  BY <1>1, EmptyTurns, SizeEmpty, LimitFacts DEF OpenFits
<1> QED BY <1>2, <1>3, <1>4, <1>5, <1>6 DEF DialogueInv

LEMMA DialogueStutters ==
  ASSUME DialogueInv, UNCHANGED dialogueVars
  PROVE  DialogueInv'
<1>1. /\ strategy' = strategy /\ draft' = draft /\ verdict' = verdict /\ text' = text
      /\ step' = step /\ turns' = turns /\ open' = open /\ plans' = plans /\ error' = error
  BY DEF dialogueVars
<1>2. DialogueTypes' /\ TextIsPublished' /\ TextIsVerified' /\ RefusalIsExplained'
  BY <1>1 DEF DialogueInv, DialogueTypes, TextIsPublished, TextIsVerified, RefusalIsExplained
<1>3. NothingPlannedYet' /\ PlanningGoesOn' /\ SaysTheText' /\ TurnsAreOfText' /\ OpenFits'
  BY <1>1 DEF DialogueInv, NothingPlannedYet, PlanningGoesOn, SaysTheText, TurnsAreOfText, OpenFits
<1>4. RequestsAreWithinLimits'
  BY <1>1, LimitsStay DEF DialogueInv
<1> QED BY <1>2, <1>3, <1>4 DEF DialogueInv

\* The inductive invariant holds: every step of the gate and of the planning
\* keeps it.
THEOREM DialogueInvariant == DialogueSpec => []DialogueInv
<1>1. DialogueInit => DialogueInv
  BY DialogueStarts
<1>2. DialogueInv /\ [DialogueNext]_dialogueVars => DialogueInv'
  <2> SUFFICES ASSUME DialogueInv, [DialogueNext]_dialogueVars PROVE DialogueInv'
    OBVIOUS
  <2>1. CASE Verify
    BY <2>1, VerifyKeeps
  <2>2. CASE Plan
    BY <2>2, PlanKeeps
  <2>3. CASE PackTurn
    BY <2>3, PackRefuses, PackCloses, PackAdds
  <2>4. CASE TakeTurn
    BY <2>4, TakeTurnKeeps
  <2>5. CASE Split
    BY <2>5, SplitKeeps
  <2>6. CASE EndPlan
    BY <2>6, EndPlanKeeps
  <2>7. CASE UNCHANGED dialogueVars
    BY <2>7, DialogueStutters
  <2> QED BY <2>1, <2>2, <2>3, <2>4, <2>5, <2>6, <2>7 DEF DialogueNext
<1> QED BY <1>1, <1>2, PTL DEF DialogueSpec

\* RequestsSayTheText: plan_dialogue_requests drops, repeats, reorders or
\* misattributes no word of the published text, however it packs and cuts it.
THEOREM TextIsSaid == DialogueSpec => []RequestsSayTheText
<1>1. DialogueInv => RequestsSayTheText
  BY DEF DialogueInv, SaysTheText, PlanningGoesOn, RequestsSayTheText
<1> QED BY <1>1, DialogueInvariant, PTL

\* RequestsAreWithinLimits: no request is larger than the TTS profile allows, but
\* for a fragment that ends with a mark one place past the limit.
THEOREM LimitsAreKept == DialogueSpec => []RequestsAreWithinLimits
<1>1. DialogueInv => RequestsAreWithinLimits
  BY DEF DialogueInv
<1> QED BY <1>1, DialogueInvariant, PTL

\* OnlyVerifiedTextIsPlanned: what is spoken passed the verifier, and only the
\* length of a turn or a stretch without a place to cut can stop its planning.
THEOREM TextWasVerified == DialogueSpec => []OnlyVerifiedTextIsPlanned
<1>1. DialogueInv => OnlyVerifiedTextIsPlanned
  BY DEF DialogueInv, TextIsVerified, RefusalIsExplained, OnlyVerifiedTextIsPlanned
<1> QED BY <1>1, DialogueInvariant, PTL
=============================================================================
