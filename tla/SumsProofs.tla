----------------------------- MODULE SumsProofs -----------------------------
(***************************************************************************)
(* What SumOver computes for every finite set.                             *)
(*                                                                         *)
(* SumOver is a fold, that is, a function chosen to satisfy a recursive    *)
(* equation.  Induction takes the form of a smallest counterexample: a     *)
(* set of subsets of a finite set has a minimal member (Smallest).  From   *)
(* it follow that two solutions of the equation agree (SumsAgree), that    *)
(* there is one (SumExists), and so the equation (SumStep).  The rest of   *)
(* the module no longer looks at the definition.                           *)
(***************************************************************************)
EXTENDS Sums, FiniteSetTheorems, WellFoundedInduction, TLAPS

\* A set of subsets of a finite set has a member that includes no other.
LEMMA Smallest ==
  ASSUME NEW S, IsFiniteSet(S), NEW B \in SUBSET SUBSET S, B # {}
  PROVE  \E x \in B : \A y \in B : y \subseteq x => y = x
<1>1. IsWellFoundedOn(StrictSubsetOrdering(S), FiniteSubsetsOf(S))
  BY FS_StrictSubsetOrderingWellFounded, Zenon
<1>2. FiniteSubsetsOf(S) = SUBSET S
  BY FS_FiniteSubsetsOfFinite, Zenon
<1>3. \E x \in B : \A y \in B : ~ (<<y, x>> \in StrictSubsetOrdering(S))
  <2> DEFINE R == StrictSubsetOrdering(S)
  <2>1. IsWellFoundedOn(R, SUBSET S)
    BY <1>1, <1>2, Zenon
  <2> HIDE DEF R
  <2>2. \E x \in B : \A y \in B : ~ (<<y, x>> \in R)
    BY <2>1, WFMin, Zenon
  <2> QED
    BY <2>2, Zenon DEF R
<1> QED
  BY <1>3, Zenon DEF StrictSubsetOrdering

\* A set of numbers up to a bound has a least one.
LEMMA LeastNumber ==
  ASSUME NEW N \in Nat, NEW I \in SUBSET (0 .. N), I # {}
  PROVE  \E m \in I : \A n \in I : m <= n
<1> DEFINE D == 0 .. N
           upTo == [m \in D |-> {i \in D : i <= m}]
           B == {upTo[m] : m \in I}
<1>1. PICK x \in B : \A y \in B : y \subseteq x => y = x
  <2>1. IsFiniteSet(D)
    BY FS_Interval
  <2>2. B \in SUBSET SUBSET D /\ B # {}
    <3>1. \A m \in D : upTo[m] \in SUBSET D
      BY Zenon
    <3> HIDE DEF upTo
    <3> QED
      BY <3>1, Zenon
  <2> HIDE DEF D, B
  <2> QED
    BY <2>1, <2>2, Smallest
<1>2. PICK m \in I : x = upTo[m]
  BY Zenon
<1>3. ASSUME NEW n \in I PROVE m <= n
  <2>1. m \in D /\ n \in D /\ m \in Nat /\ n \in Nat
    OBVIOUS
  <2> SUFFICES ASSUME n < m PROVE FALSE
    BY <2>1
  <2>2. upTo[n] \subseteq upTo[m] /\ m \in upTo[m] /\ m \notin upTo[n]
    BY <2>1
  <2>3. upTo[n] \in B
    BY Zenon
  <2> QED
    BY <1>1, <1>2, <2>2, <2>3, Zenon
<1> QED
  BY <1>3, Zenon

\* The element FoldFunctionOnSet takes next, and the equation it iterates.
Pick(s) == CHOOSE x \in s : TRUE

IsSum(g, f, S) ==
  g = [s \in SUBSET S |-> IF s = {} THEN 0 ELSE f[Pick(s)] + g[s \ {Pick(s)}]]

\* SumOver is a solution of the equation, if there is one.
LEMMA SumOverDef ==
  ASSUME NEW f, NEW S
  PROVE  SumOver(f, S) = (CHOOSE g : IsSum(g, f, S))[S]
BY Zenon DEF SumOver, FoldFunctionOnSet, MapThenFoldSet, IsSum, Pick

\* A solution of the equation at one set.
LEMMA IsSumAt ==
  ASSUME NEW f, NEW S, NEW g, IsSum(g, f, S), NEW s \in SUBSET S
  PROVE  g[s] = IF s = {} THEN 0 ELSE f[Pick(s)] + g[s \ {Pick(s)}]
<1> DEFINE h == [t \in SUBSET S |-> IF t = {} THEN 0 ELSE f[Pick(t)] + g[t \ {Pick(t)}]]
<1>1. h[s] = IF s = {} THEN 0 ELSE f[Pick(s)] + g[s \ {Pick(s)}]
  BY Zenon
<1>2. g = h
  BY Zenon DEF IsSum
<1> QED
  BY <1>1, <1>2, Zenon

\* What is picked is a member.
LEMMA PickIn == ASSUME NEW s, s # {} PROVE Pick(s) \in s
BY Zenon DEF Pick

\* Two solutions agree wherever both are defined.
LEMMA SumsAgree ==
  ASSUME NEW f, NEW S, NEW T, IsFiniteSet(S), NEW g, NEW h, IsSum(g, f, S), IsSum(h, f, T),
         NEW u \in SUBSET (S \cap T)
  PROVE  g[u] = h[u]
<1> DEFINE B == {s \in SUBSET (S \cap T) : g[s] # h[s]}
<1> SUFFICES ASSUME B # {} PROVE FALSE
  BY Zenon
<1>1. PICK s \in B : \A y \in B : y \subseteq s => y = s
  <2>1. B \in SUBSET SUBSET S
    BY Zenon
  <2> HIDE DEF B
  <2> QED
    BY <2>1, Smallest
<1>2. s \in SUBSET S /\ s \in SUBSET T /\ g[s] # h[s]
  BY Zenon
<1>3. s # {}
  <2>1. g[{}] = 0 /\ h[{}] = 0
    BY IsSumAt, ZenonT(30)
  <2> QED
    BY <1>2, <2>1, Zenon
<1>4. s \ {Pick(s)} \notin B
  BY <1>1, <1>3, PickIn, Zenon
<1>5. g[s \ {Pick(s)}] = h[s \ {Pick(s)}]
  BY <1>4, Zenon
<1> QED
  BY <1>2, <1>3, <1>5, IsSumAt

\* There is a solution over every finite set: the smallest set without one
\* could be given one from those of its subsets.
LEMMA SumExists ==
  ASSUME NEW f, NEW S, IsFiniteSet(S)
  PROVE  \E g : IsSum(g, f, S)
<1> DEFINE B == {s \in SUBSET S : ~ \E g : IsSum(g, f, s)}
<1> SUFFICES ASSUME B # {} PROVE FALSE
  BY Zenon
<1>1. PICK s \in B : \A y \in B : y \subseteq s => y = s
  <2>1. B \in SUBSET SUBSET S
    BY Zenon
  <2> HIDE DEF B
  <2> QED
    BY <2>1, Smallest
<1>2. s \in SUBSET S /\ ~ \E g : IsSum(g, f, s)
  BY Zenon
<1>3. \A t \in SUBSET s : t # s => \E g : IsSum(g, f, t)
  BY <1>1, Zenon
<1> HIDE DEF B
<1> DEFINE G(t) == CHOOSE g : IsSum(g, f, t)
<1>4. ASSUME NEW t \in SUBSET s, t # s PROVE IsSum(G(t), f, t)
  BY <1>3, <1>4, Zenon
<1> DEFINE g == [t \in SUBSET s |-> IF t = {} THEN 0
                   ELSE f[Pick(t)] + G(t \ {Pick(t)})[t \ {Pick(t)}]]
<1> HIDE DEF G
<1>5. ASSUME NEW t \in SUBSET s, t # s PROVE g[t] = G(t)[t]
  <2>1. CASE t = {}
    BY <2>1, <1>4, <1>5, IsSumAt, ZenonT(30)
  <2>2. CASE t # {}
    <3> DEFINE r == t \ {Pick(t)}
    <3>0. r \in SUBSET s /\ r # s /\ r \in SUBSET (t \cap r) /\ IsFiniteSet(t)
      BY <2>2, PickIn, <1>2, FS_Subset, Zenon
    <3>1. G(t)[t] = f[Pick(t)] + G(t)[r]
      BY <1>4, <1>5, <2>2, IsSumAt
    <3>2. G(t)[r] = G(r)[r]
      BY <1>4, <1>5, <3>0, SumsAgree
    <3> QED
      BY <2>2, <3>1, <3>2, Zenon
  <2> QED
    BY <2>1, <2>2, Zenon
<1>6. \A t \in SUBSET s : t # {} => g[t \ {Pick(t)}] = G(t \ {Pick(t)})[t \ {Pick(t)}]
  <2> TAKE t \in SUBSET s
  <2> HAVE t # {}
  <2>1. t \ {Pick(t)} \in SUBSET s /\ t \ {Pick(t)} # s
    BY PickIn, Zenon
  <2> HIDE DEF g
  <2> QED
    BY <1>5, <2>1, Zenon
<1>7. g = [t \in SUBSET s |-> IF t = {} THEN 0 ELSE f[Pick(t)] + g[t \ {Pick(t)}]]
  BY <1>6, Zenon
<1> QED
  BY <1>2, <1>7, Zenon DEF IsSum

\* SumOver satisfies the equation.
LEMMA SumStep ==
  ASSUME NEW f, NEW S, IsFiniteSet(S)
  PROVE  SumOver(f, S) = IF S = {} THEN 0 ELSE f[Pick(S)] + SumOver(f, S \ {Pick(S)})
<1> DEFINE G(t) == CHOOSE g : IsSum(g, f, t)
<1> DEFINE r == S \ {Pick(S)}
<1>1. IsFiniteSet(r)
  BY FS_Subset, Zenon
<1>2. IsSum(G(S), f, S) /\ IsSum(G(r), f, r)
  BY <1>1, SumExists, Zenon
<1>3. SumOver(f, S) = G(S)[S] /\ SumOver(f, r) = G(r)[r]
  BY SumOverDef, Zenon
<1> HIDE DEF G
<1>4. G(S)[S] = IF S = {} THEN 0 ELSE f[Pick(S)] + G(S)[r]
  BY <1>2, IsSumAt
<1>5. G(S)[r] = G(r)[r]
  BY <1>2, SumsAgree
<1> QED
  BY <1>3, <1>4, <1>5, Zenon

-----------------------------------------------------------------------------
(* The facts the other proofs use                                          *)

\* The sum over no element.
LEMMA SumEmpty == ASSUME NEW f PROVE SumOver(f, {}) = 0
BY SumStep, FS_EmptySet, Zenon

\* A sum of natural numbers is one.
LEMMA SumNat ==
  ASSUME NEW f, NEW S, IsFiniteSet(S), \A x \in S : f[x] \in Nat
  PROVE  SumOver(f, S) \in Nat
<1> DEFINE B == {s \in SUBSET S : SumOver(f, s) \notin Nat}
<1> SUFFICES ASSUME B # {} PROVE FALSE
  BY Zenon
<1>1. B \in SUBSET SUBSET S
  BY Zenon
<1>2. PICK s \in B : \A y \in B : y \subseteq s => y = s
  <2> HIDE DEF B
  <2> QED
    BY <1>1, Smallest
<1>3. IsFiniteSet(s) /\ s \subseteq S /\ SumOver(f, s) \notin Nat
  BY FS_Subset, Zenon
<1>4. s # {}
  BY <1>3, SumEmpty
<1>5. Pick(s) \in s /\ f[Pick(s)] \in Nat
  BY <1>3, <1>4, PickIn, Zenon
<1>6. SumOver(f, s \ {Pick(s)}) \in Nat
  BY <1>2, <1>5
<1> QED
  BY <1>3, <1>4, <1>5, <1>6, SumStep

\* Any element may be taken out of the sum, not only the one picked.
LEMMA SumRemove ==
  ASSUME NEW f, NEW S, IsFiniteSet(S), \A x \in S : f[x] \in Nat, NEW a \in S
  PROVE  SumOver(f, S) = f[a] + SumOver(f, S \ {a})
<1> DEFINE B == {s \in SUBSET S : \E x \in s : SumOver(f, s) # f[x] + SumOver(f, s \ {x})}
<1> SUFFICES ASSUME B # {} PROVE FALSE
  BY Zenon
<1>1. B \in SUBSET SUBSET S
  BY Zenon
<1>2. PICK s \in B : \A y \in B : y \subseteq s => y = s
  <2> HIDE DEF B
  <2> QED
    BY <1>1, Smallest
<1>3. PICK x \in s : SumOver(f, s) # f[x] + SumOver(f, s \ {x})
  BY Zenon
<1> DEFINE p == Pick(s)
           t == s \ {p, x}
<1>4. IsFiniteSet(s) /\ s \subseteq S /\ p \in s
  BY FS_Subset, PickIn, Zenon
<1>5. SumOver(f, s) = f[p] + SumOver(f, s \ {p})
  BY <1>4, SumStep, Zenon
<1>6. p # x
  BY <1>3, <1>5, Zenon
<1>7. SumOver(f, s \ {p}) = f[x] + SumOver(f, t)
  <2>1. s \ {p} \notin B /\ x \in s \ {p} /\ (s \ {p}) \ {x} = t
    BY <1>2, <1>4, <1>6, Zenon
  <2> QED
    BY <2>1, <1>4, Zenon
<1>8. SumOver(f, s \ {x}) = f[p] + SumOver(f, t)
  <2>1. s \ {x} \notin B /\ p \in s \ {x} /\ (s \ {x}) \ {p} = t
    BY <1>2, <1>4, <1>6, Zenon
  <2> QED
    BY <2>1, <1>4, Zenon
<1>9. f[x] \in Nat /\ f[p] \in Nat /\ SumOver(f, t) \in Nat
  <2>1. IsFiniteSet(t) /\ t \subseteq S
    BY <1>4, FS_Subset, Zenon
  <2> QED
    BY <1>4, <2>1, SumNat, Zenon
<1> HIDE DEF p, t
<1> QED
  BY <1>3, <1>5, <1>7, <1>8, <1>9

\* An element joins the sum.
LEMMA SumInsert ==
  ASSUME NEW f, NEW S, IsFiniteSet(S), NEW a, a \notin S, \A x \in S \cup {a} : f[x] \in Nat
  PROVE  SumOver(f, S \cup {a}) = f[a] + SumOver(f, S)
<1>1. IsFiniteSet(S \cup {a}) /\ (S \cup {a}) \ {a} = S
  BY FS_AddElement, Zenon
<1> QED
  BY <1>1, SumRemove

\* Only the values on the set matter.
LEMMA SumSame ==
  ASSUME NEW f, NEW g, NEW S, IsFiniteSet(S), \A x \in S : f[x] = g[x]
  PROVE  SumOver(f, S) = SumOver(g, S)
<1> DEFINE B == {s \in SUBSET S : SumOver(f, s) # SumOver(g, s)}
<1> SUFFICES ASSUME B # {} PROVE FALSE
  BY Zenon
<1>1. B \in SUBSET SUBSET S
  BY Zenon
<1>2. PICK s \in B : \A y \in B : y \subseteq s => y = s
  <2> HIDE DEF B
  <2> QED
    BY <1>1, Smallest
<1>3. IsFiniteSet(s) /\ s \subseteq S /\ SumOver(f, s) # SumOver(g, s)
  BY FS_Subset, Zenon
<1>4. s # {}
  BY <1>3, SumEmpty, Zenon
<1>5. Pick(s) \in s /\ f[Pick(s)] = g[Pick(s)]
  BY <1>3, <1>4, PickIn, Zenon
<1>6. SumOver(f, s \ {Pick(s)}) = SumOver(g, s \ {Pick(s)})
  BY <1>2, <1>5
<1> QED
  BY <1>3, <1>4, <1>5, <1>6, SumStep

\* The sum of two functions is the sum of their sums.
LEMMA SumAdd ==
  ASSUME NEW f, NEW g, NEW h, NEW S, IsFiniteSet(S),
         \A x \in S : f[x] \in Nat /\ g[x] \in Nat /\ h[x] = f[x] + g[x]
  PROVE  SumOver(h, S) = SumOver(f, S) + SumOver(g, S)
<1> DEFINE B == {s \in SUBSET S : SumOver(h, s) # SumOver(f, s) + SumOver(g, s)}
<1> SUFFICES ASSUME B # {} PROVE FALSE
  BY Zenon
<1>1. B \in SUBSET SUBSET S
  BY Zenon
<1>2. PICK s \in B : \A y \in B : y \subseteq s => y = s
  <2> HIDE DEF B
  <2> QED
    BY <1>1, Smallest
<1>3. IsFiniteSet(s) /\ s \subseteq S /\ SumOver(h, s) # SumOver(f, s) + SumOver(g, s)
  BY FS_Subset, Zenon
<1>4. s # {}
  <2>1. SumOver(h, {}) = SumOver(f, {}) + SumOver(g, {})
    BY SumEmpty
  <2> QED
    BY <1>3, <2>1, Zenon
<1> DEFINE p == Pick(s)
           t == s \ {p}
<1>5. p \in s /\ p \in S /\ t \subseteq S /\ IsFiniteSet(t)
  BY <1>3, <1>4, PickIn, FS_Subset, Zenon
<1>6. SumOver(h, t) = SumOver(f, t) + SumOver(g, t)
  BY <1>2, <1>5
<1>7. SumOver(f, t) \in Nat /\ SumOver(g, t) \in Nat
  BY <1>5, SumNat, Zenon
<1>8. /\ SumOver(f, s) = f[p] + SumOver(f, t) /\ SumOver(g, s) = g[p] + SumOver(g, t)
      /\ SumOver(h, s) = h[p] + SumOver(h, t)
  BY <1>3, <1>4, SumStep, Zenon
<1> HIDE DEF p, t
<1> QED
  BY <1>3, <1>5, <1>6, <1>7, <1>8

\* A sum of nothing but zeros.
LEMMA SumZero ==
  ASSUME NEW f, NEW S, IsFiniteSet(S), \A x \in S : f[x] = 0
  PROVE  SumOver(f, S) = 0
<1>1. SumOver(f, S) = SumOver(f, S) + SumOver(f, S)
  BY SumAdd
<1> QED
  BY <1>1, SumNat

\* A sum over a set is that over a part of it and that over the rest.
LEMMA SumSplit ==
  ASSUME NEW f, NEW S, IsFiniteSet(S), \A x \in S : f[x] \in Nat, NEW T \in SUBSET S
  PROVE  SumOver(f, S) = SumOver(f, T) + SumOver(f, S \ T)
<1> DEFINE g == [x \in S |-> IF x \in T THEN f[x] ELSE 0]
           h == [x \in S |-> IF x \in T THEN 0 ELSE f[x]]
<1>1. SumOver(f, S) = SumOver(g, S) + SumOver(h, S)
  BY SumAdd
<1>2. ASSUME NEW u, NEW R \in SUBSET S, \A x \in S : u[x] \in Nat,
             \A x \in R : u[x] = f[x], \A x \in S \ R : u[x] = 0
      PROVE  SumOver(u, S) = SumOver(f, R)
  <2> DEFINE B == {s \in SUBSET (S \ R) : SumOver(u, R \cup s) # SumOver(f, R)}
  <2> SUFFICES ASSUME B # {} PROVE FALSE
    <3>1. S \ R \notin B => SumOver(u, R \cup (S \ R)) = SumOver(f, R)
      BY Zenon
    <3>2. R \cup (S \ R) = S
      BY Zenon
    <3> QED
      BY <3>1, <3>2, Zenon
  <2>1. B \in SUBSET SUBSET S
    BY Zenon
  <2>2. PICK s \in B : \A y \in B : y \subseteq s => y = s
    <3> HIDE DEF B
    <3> QED
      BY <2>1, Smallest
  <2>3. s \subseteq S \ R /\ SumOver(u, R \cup s) # SumOver(f, R) /\ IsFiniteSet(R \cup s)
    BY FS_Subset, Zenon
  <2>4. s # {}
    <3>1. SumOver(u, R) = SumOver(f, R)
      BY <1>2, FS_Subset, SumSame
    <3> QED
      BY <2>3, <3>1, Zenon
  <2>5. PICK x : x \in s
    BY <2>4, Zenon
  <2>6. (R \cup s) \ {x} = R \cup (s \ {x}) /\ u[x] = 0 /\ x \in R \cup s
    BY <1>2, <2>3, <2>5, Zenon
  <2>7. SumOver(u, R \cup s) = u[x] + SumOver(u, R \cup (s \ {x}))
    <3>1. \A y \in R \cup s : u[y] \in Nat
      BY <1>2, <2>3, Zenon
    <3> QED
      BY <2>3, <2>6, <3>1, SumRemove
  <2>8. SumOver(u, R \cup (s \ {x})) = SumOver(f, R)
    <3>1. s \ {x} \in SUBSET (S \ R) /\ s \ {x} \notin B
      BY <2>2, <2>3, <2>5, Zenon
    <3> QED
      BY <3>1, Zenon
  <2>9. SumOver(f, R) \in Nat
    BY FS_Subset, SumNat, Zenon
  <2> QED
    BY <2>3, <2>6, <2>7, <2>8, <2>9
<1>3. SumOver(g, S) = SumOver(f, T)
  <2>1. /\ \A x \in S : g[x] \in Nat
        /\ \A x \in T : g[x] = f[x]
        /\ \A x \in S \ T : g[x] = 0
    BY Zenon
  <2> HIDE DEF g
  <2> QED
    BY <1>2, <2>1, Zenon
<1>4. SumOver(h, S) = SumOver(f, S \ T)
  <2>1. /\ \A x \in S : h[x] \in Nat
        /\ \A x \in S \ T : h[x] = f[x]
        /\ \A x \in S \ (S \ T) : h[x] = 0
    BY Zenon
  <2> HIDE DEF h
  <2> QED
    BY <1>2, <2>1, Zenon
<1> QED
  BY <1>1, <1>3, <1>4, Zenon

\* Sums over disjoint sets add up.
LEMMA SumUnion ==
  ASSUME NEW f, NEW S, NEW T, IsFiniteSet(S), IsFiniteSet(T), S \cap T = {},
         \A x \in S \cup T : f[x] \in Nat
  PROVE  SumOver(f, S \cup T) = SumOver(f, S) + SumOver(f, T)
<1>1. IsFiniteSet(S \cup T) /\ (S \cup T) \ S = T /\ S \in SUBSET (S \cup T)
  BY FS_Union, Zenon
<1> QED
  BY <1>1, SumSplit

\* A part of the set has a sum that is no larger.
LEMMA SumSubset ==
  ASSUME NEW f, NEW S, IsFiniteSet(S), \A x \in S : f[x] \in Nat, NEW T \in SUBSET S
  PROVE  SumOver(f, T) <= SumOver(f, S)
<1>1. IsFiniteSet(T) /\ IsFiniteSet(S \ T)
  BY FS_Subset, Zenon
<1>2. SumOver(f, T) \in Nat /\ SumOver(f, S \ T) \in Nat
  BY <1>1, SumNat, Zenon
<1> QED
  BY <1>2, SumSplit

\* One value grows, and the sum by as much.
LEMMA SumBump ==
  ASSUME NEW f, NEW g, NEW S, IsFiniteSet(S), \A x \in S : f[x] \in Nat, NEW a \in S, NEW d \in Nat,
         g[a] = f[a] + d, \A x \in S \ {a} : g[x] = f[x]
  PROVE  SumOver(g, S) = SumOver(f, S) + d
<1>1. SumOver(f, S) = f[a] + SumOver(f, S \ {a})
  BY SumRemove
<1>2. \A x \in S : g[x] \in Nat
  OBVIOUS
<1>3. SumOver(g, S) = g[a] + SumOver(g, S \ {a})
  BY <1>2, SumRemove
<1>4. SumOver(g, S \ {a}) = SumOver(f, S \ {a}) /\ SumOver(f, S \ {a}) \in Nat
  BY FS_Subset, SumSame, SumNat
<1> QED
  BY <1>1, <1>3, <1>4
=============================================================================
