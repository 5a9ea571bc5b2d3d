----------------------------- MODULE SumProofs -----------------------------
(***************************************************************************)
(* Lemmas about SumOver, the sum in which the contract's balances and       *)
(* events are stated: it is that of a finite set, whatever the order in     *)
(* which the elements are taken.                                            *)
(*                                                                          *)
(* SumOver recurses on the set, so these are facts about a recursive        *)
(* function.  They are proved from the smallest set for which they fail:    *)
(* strict inclusion is well-founded on finite sets.                         *)
(***************************************************************************)
EXTENDS EngSwap, FiniteSetTheorems, WellFoundedInduction, TLAPS

\* A family of finite sets has a member that contains no other.
LEMMA SmallestSet ==
    ASSUME NEW S, NEW F, F \subseteq FiniteSubsetsOf(S), F # {}
    PROVE  \E U \in F : \A V \in F : V \subseteq U => V = U
<1>1. IsWellFoundedOn(StrictSubsetOrdering(S), FiniteSubsetsOf(S))
  BY FS_StrictSubsetOrderingWellFounded
<1>2. PICK U \in F : \A V \in F : <<V, U>> \notin StrictSubsetOrdering(S)
  <2> HIDE DEF FiniteSubsetsOf, StrictSubsetOrdering
  <2> QED  BY <1>1, WFMin
<1>3. \A V \in F : V \in SUBSET S
  BY DEF FiniteSubsetsOf
<1>4. ASSUME NEW V \in F, V \subseteq U PROVE V = U
  BY <1>2, <1>3, <1>4 DEF StrictSubsetOrdering
<1> QED  BY <1>4

\* If a property of finite sets fails for S, there is a smallest subset of S
\* for which it fails: `Good` are the sets for which it holds.
LEMMA FiniteSetInduction ==
    ASSUME NEW S, IsFiniteSet(S), NEW Good,
           \A U \in SUBSET S : (\A V \in SUBSET U : V # U => V \in Good) => U \in Good
    PROVE  S \in Good
<1> DEFINE F == {U \in SUBSET S : U \notin Good}
<1>1. SUFFICES ASSUME S \notin Good PROVE FALSE
  OBVIOUS
<1>2. F # {} /\ F \subseteq FiniteSubsetsOf(S)
  BY <1>1, FS_FiniteSubsetsOfFinite
<1>3. PICK U \in F : \A V \in F : V \subseteq U => V = U
  <2> HIDE DEF F
  <2> QED  BY <1>2, SmallestSet
<1>4. \A V \in SUBSET U : V # U => V \in Good
  BY <1>3
<1> QED  BY <1>3, <1>4

-----------------------------------------------------------------------------
(* The recursion by which SumOver is defined. *)

Chosen(s) == CHOOSE x \in s : TRUE

Sums(f, S, g) ==
    g = [s \in SUBSET S |-> IF s = {} THEN 0 ELSE f[Chosen(s)] + g[s \ {Chosen(s)}]]

SumsOf(f, S) == CHOOSE g : Sums(f, S, g)

LEMMA SumOverRecursion == ASSUME NEW f, NEW S PROVE SumOver(f, S) = SumsOf(f, S)[S]
BY Zenon DEF SumOver, MapThenSumSet, MapThenFoldSet, SumsOf, Sums, Chosen

LEMMA ChosenIn == ASSUME NEW s, s # {} PROVE Chosen(s) \in s
BY DEF Chosen

\* What g says of the subsets of R.
Restricted(g, R) == [s \in SUBSET R |-> g[s]]

LEMMA SumsRestricted ==
    ASSUME NEW f, NEW S, NEW R \in SUBSET S, NEW g, Sums(f, S, g)
    PROVE  Sums(f, R, Restricted(g, R))
<1>1. \A s \in SUBSET R : g[s] = IF s = {} THEN 0 ELSE f[Chosen(s)] + g[s \ {Chosen(s)}]
  BY DEF Sums
<1> QED  BY <1>1 DEF Sums, Restricted

LEMMA SumsUnique ==
    ASSUME NEW f, NEW S, IsFiniteSet(S), NEW g, NEW h, Sums(f, S, g), Sums(f, S, h)
    PROVE  g = h
<1> DEFINE Good == {s \in SUBSET S : g[s] = h[s]}
<1>1. \A s \in SUBSET S : /\ g[s] = IF s = {} THEN 0 ELSE f[Chosen(s)] + g[s \ {Chosen(s)}]
                         /\ h[s] = IF s = {} THEN 0 ELSE f[Chosen(s)] + h[s \ {Chosen(s)}]
  BY DEF Sums
<1>2. ASSUME NEW R \in SUBSET S PROVE R \in Good
  <2>1. ASSUME NEW U \in SUBSET R, \A V \in SUBSET U : V # U => V \in Good PROVE U \in Good
    <3>1. CASE U = {}
      BY <1>1, <3>1
    <3>2. CASE U # {}
      <4>1. U \ {Chosen(U)} \in SUBSET U /\ U \ {Chosen(U)} # U
        BY <3>2, ChosenIn
      <4>2. g[U \ {Chosen(U)}] = h[U \ {Chosen(U)}]
        BY <2>1, <4>1
      <4> QED  BY <1>1, <3>2, <4>2
    <3> QED  BY <3>1, <3>2
  <2>2. IsFiniteSet(R)
    BY FS_Subset
  <2> HIDE DEF Good
  <2> QED  BY <2>1, <2>2, FiniteSetInduction
<1>3. g = [s \in SUBSET S |-> g[s]] /\ h = [s \in SUBSET S |-> h[s]]
  BY DEF Sums
<1> QED  BY <1>2, <1>3

LEMMA SumsOfPart ==
    ASSUME NEW f, NEW S, IsFiniteSet(S), NEW R \in SUBSET S,
           NEW g, Sums(f, S, g), NEW h, Sums(f, R, h)
    PROVE  h = Restricted(g, R)
<1>1. IsFiniteSet(R) /\ Sums(f, R, Restricted(g, R))
  BY SumsRestricted, FS_Subset
<1> QED  BY <1>1, SumsUnique

LEMMA SumsExist == ASSUME NEW f, NEW S, IsFiniteSet(S) PROVE Sums(f, S, SumsOf(f, S))
<1> DEFINE Good == {s \in SUBSET S : \E g : Sums(f, s, g)}
<1>1. ASSUME NEW U \in SUBSET S, \A V \in SUBSET U : V # U => V \in Good PROVE U \in Good
  <2> DEFINE value(s) == SumsOf(f, s)[s]
             g == [s \in SUBSET U |-> IF s = {} THEN 0
                                      ELSE f[Chosen(s)] + value(s \ {Chosen(s)})]
  <2>1. ASSUME NEW s \in SUBSET U, s # U, s # {}
        PROVE  value(s) = f[Chosen(s)] + value(s \ {Chosen(s)})
    <3> DEFINE r == s \ {Chosen(s)}
    <3>1. r \in SUBSET s /\ r # U
      BY <2>1
    <3>2. Sums(f, s, SumsOf(f, s)) /\ Sums(f, r, SumsOf(f, r))
      BY <1>1, <2>1, <3>1 DEF SumsOf
    <3>3. value(s) = f[Chosen(s)] + SumsOf(f, s)[r]
      <4> HIDE DEF SumsOf
      <4> QED  BY <2>1, <3>2 DEF Sums
    <3>4. SumsOf(f, r) = Restricted(SumsOf(f, s), r)
      <4> HIDE DEF SumsOf, r, g, value, Good
      <4>1. r \in SUBSET s /\ IsFiniteSet(s)
        BY <3>1, FS_Subset
      <4> QED  BY <3>2, <4>1, SumsOfPart
    <3> QED  BY <3>3, <3>4 DEF Restricted
  <2>2. value({}) = 0
    <3>1. CASE U = {}
      <4>1. Sums(f, {}, [s \in SUBSET {} |-> 0])
        BY DEF Sums
      <4>2. Sums(f, {}, SumsOf(f, {}))
        BY <4>1 DEF SumsOf
      <4> HIDE DEF SumsOf
      <4> QED  BY <4>2 DEF Sums
    <3>2. CASE U # {}
      <4>1. Sums(f, {}, SumsOf(f, {}))
        BY <1>1, <3>2 DEF SumsOf
      <4> HIDE DEF SumsOf
      <4> QED  BY <4>1 DEF Sums
    <3> QED  BY <3>1, <3>2
  <2>3. \A s \in SUBSET U : s # U => g[s] = value(s)
    <3> HIDE DEF value
    <3> QED  BY <2>1, <2>2
  <2>4. Sums(f, U, g)
    <3>1. \A s \in SUBSET U : s # {} => /\ s \ {Chosen(s)} \in SUBSET U
                                       /\ s \ {Chosen(s)} # U
      BY ChosenIn
    <3>2. \A s \in SUBSET U : s # {} => value(s \ {Chosen(s)}) = g[s \ {Chosen(s)}]
      <4> HIDE DEF g, value
      <4> QED  BY <2>3, <3>1
    <3>3. g = [s \in SUBSET U |-> IF s = {} THEN 0 ELSE f[Chosen(s)] + g[s \ {Chosen(s)}]]
      <4> HIDE DEF value
      <4> QED  BY <3>2
    <3> HIDE DEF g, value
    <3> QED  BY <3>3 DEF Sums
  <2> QED  BY <2>4
<1>2. S \in Good
  <2> HIDE DEF Good
  <2> QED  BY <1>1, FiniteSetInduction
<1> QED  BY <1>2 DEF SumsOf

-----------------------------------------------------------------------------
(* What the model's proofs use. *)

LEMMA SumEmpty == ASSUME NEW f PROVE SumOver(f, {}) = 0
<1>1. Sums(f, {}, SumsOf(f, {}))
  BY SumsExist, FS_EmptySet
<1> QED  BY <1>1, SumOverRecursion DEF Sums

LEMMA SumChosen ==
    ASSUME NEW f, NEW S, IsFiniteSet(S), S # {}
    PROVE  SumOver(f, S) = f[Chosen(S)] + SumOver(f, S \ {Chosen(S)})
<1> DEFINE R == S \ {Chosen(S)}
<1>1. Sums(f, S, SumsOf(f, S)) /\ Sums(f, R, SumsOf(f, R)) /\ IsFiniteSet(R)
  BY SumsExist, FS_Subset
<1>2. SumsOf(f, R) = Restricted(SumsOf(f, S), R)
  <2>1. R \in SUBSET S
    OBVIOUS
  <2> HIDE DEF R
  <2> QED  BY <1>1, <2>1, SumsOfPart
<1>3. SumsOf(f, S)[S] = f[Chosen(S)] + SumsOf(f, S)[R]
  BY <1>1 DEF Sums
<1> QED  BY <1>2, <1>3, SumOverRecursion DEF Restricted

LEMMA SumNat ==
    ASSUME NEW S, IsFiniteSet(S), NEW f, \A x \in S : f[x] \in Nat
    PROVE  SumOver(f, S) \in Nat
<1> DEFINE Good == {U \in SUBSET S : SumOver(f, U) \in Nat}
<1>1. ASSUME NEW U \in SUBSET S, \A V \in SUBSET U : V # U => V \in Good PROVE U \in Good
  <2>1. CASE U = {}
    BY <2>1, SumEmpty
  <2>2. CASE U # {}
    <3>1. SumOver(f, U) = f[Chosen(U)] + SumOver(f, U \ {Chosen(U)}) /\ Chosen(U) \in U
      BY <2>2, SumChosen, ChosenIn, FS_Subset
    <3>2. SumOver(f, U \ {Chosen(U)}) \in Nat
      BY <1>1, <3>1
    <3>3. f[Chosen(U)] \in Nat
      BY <3>1
    <3> QED  BY <3>1, <3>2, <3>3
  <2> QED  BY <2>1, <2>2
<1>2. S \in Good
  <2> HIDE DEF Good
  <2> QED  BY <1>1, FiniteSetInduction
<1> QED  BY <1>2

\* Any element may be taken first.
LEMMA SumRemove ==
    ASSUME NEW S, IsFiniteSet(S), NEW f, \A x \in S : f[x] \in Nat, NEW a \in S
    PROVE  SumOver(f, S) = f[a] + SumOver(f, S \ {a})
<1> DEFINE Good == {U \in SUBSET S : \A x \in U : SumOver(f, U) = f[x] + SumOver(f, U \ {x})}
<1>1. ASSUME NEW U \in SUBSET S, \A V \in SUBSET U : V # U => V \in Good,
             NEW x \in U
      PROVE  SumOver(f, U) = f[x] + SumOver(f, U \ {x})
  <2> DEFINE c == Chosen(U)
  <2>1. IsFiniteSet(U) /\ c \in U /\ SumOver(f, U) = f[c] + SumOver(f, U \ {c})
    BY SumChosen, ChosenIn, FS_Subset
  <2> HIDE DEF c
  <2>2. CASE c = x
    BY <2>1, <2>2
  <2>3. CASE c # x
    <3>1. SumOver(f, U \ {c}) = f[x] + SumOver(f, (U \ {c}) \ {x})
      BY <1>1, <2>1, <2>3
    <3>2. SumOver(f, U \ {x}) = f[c] + SumOver(f, (U \ {x}) \ {c})
      BY <1>1, <2>1, <2>3
    <3>3. (U \ {c}) \ {x} = (U \ {x}) \ {c}
      OBVIOUS
    <3>4. f[x] \in Nat /\ f[c] \in Nat /\ SumOver(f, (U \ {x}) \ {c}) \in Nat
      <4>1. IsFiniteSet((U \ {x}) \ {c}) /\ \A y \in (U \ {x}) \ {c} : f[y] \in Nat
        BY <2>1, FS_Subset
      <4> QED  BY <2>1, <4>1, SumNat
    <3> HIDE DEF Good
    <3> QED  BY <2>1, <3>1, <3>2, <3>3, <3>4
  <2> QED  BY <2>2, <2>3
<1>2. S \in Good
  <2>1. \A U \in SUBSET S : (\A V \in SUBSET U : V # U => V \in Good) => U \in Good
    BY <1>1
  <2> HIDE DEF Good
  <2> QED  BY <2>1, FiniteSetInduction
<1> QED  BY <1>2

LEMMA SumSame ==
    ASSUME NEW S, IsFiniteSet(S), NEW f, NEW g, \A x \in S : f[x] = g[x]
    PROVE  SumOver(f, S) = SumOver(g, S)
<1> DEFINE Good == {U \in SUBSET S : SumOver(f, U) = SumOver(g, U)}
<1>1. ASSUME NEW U \in SUBSET S, \A V \in SUBSET U : V # U => V \in Good PROVE U \in Good
  <2>1. CASE U = {}
    BY <2>1, SumEmpty
  <2>2. CASE U # {}
    <3>1. /\ SumOver(f, U) = f[Chosen(U)] + SumOver(f, U \ {Chosen(U)})
          /\ SumOver(g, U) = g[Chosen(U)] + SumOver(g, U \ {Chosen(U)})
          /\ Chosen(U) \in U
      BY <2>2, SumChosen, ChosenIn, FS_Subset
    <3>2. SumOver(f, U \ {Chosen(U)}) = SumOver(g, U \ {Chosen(U)})
      BY <1>1, <3>1
    <3> QED  BY <3>1, <3>2
  <2> QED  BY <2>1, <2>2
<1>2. S \in Good
  <2> HIDE DEF Good
  <2> QED  BY <1>1, FiniteSetInduction
<1> QED  BY <1>2

\* Changing one of the numbers changes the sum by as much.
LEMMA SumChanged ==
    ASSUME NEW S, IsFiniteSet(S), NEW f \in [S -> Nat], NEW g \in [S -> Nat],
           NEW a \in S, \A x \in S \ {a} : g[x] = f[x]
    PROVE  /\ SumOver(f, S) \in Nat /\ SumOver(g, S) \in Nat
           /\ SumOver(g, S) + f[a] = SumOver(f, S) + g[a]
<1> DEFINE R == S \ {a}
<1>1. IsFiniteSet(R) /\ \A x \in R : f[x] \in Nat
  BY FS_Subset
<1>2. SumOver(f, S) = f[a] + SumOver(f, R) /\ SumOver(g, S) = g[a] + SumOver(g, R)
  BY SumRemove
<1>3. SumOver(g, R) = SumOver(f, R) /\ SumOver(f, R) \in Nat
  <2>1. \A x \in R : g[x] = f[x]
    OBVIOUS
  <2> HIDE DEF R
  <2> QED  BY <1>1, <2>1, SumSame, SumNat
<1>4. f[a] \in Nat /\ g[a] \in Nat
  OBVIOUS
<1> QED  BY <1>2, <1>3, <1>4
=============================================================================
