----------------------------- MODULE SumTheorems ----------------------------
(***************************************************************************)
(* Sums over finite sets, for the accounts of the contracts: what          *)
(* SumFunction returns, preserves and bounds.  SumFunctionOnSet chooses a  *)
(* function on the subsets of the indices that satisfies a recursion; that *)
(* one exists, and that any two agree where both are defined, is proved by *)
(* a smallest counterexample.                                              *)
(***************************************************************************)
EXTENDS FiniteSetsExt, Integers, FiniteSetTheorems, WellFoundedInduction, TLAPS

Picked(s) == CHOOSE x \in s : TRUE

(* h maps each subset of S to the sum of f over it, taken in the order in   *)
(* which elements are chosen.                                               *)
IsSum(h, f, S) ==
    h = [s \in SUBSET S |-> IF s = {} THEN 0
                            ELSE f[CHOOSE x \in s : TRUE] + h[s \ {CHOOSE x \in s : TRUE}]]

-----------------------------------------------------------------------------
LEMMA SmallestNumber ==
    ASSUME NEW T \in SUBSET Nat, T # {}
    PROVE  \E m \in T : \A n \in T : m <= n
<1> DEFINE R == {s \in Nat \X Nat : s[1] < s[2]}
<1>1. IsWellFoundedOn(R, Nat)
  BY NatLessThanWellFounded DEF OpToRel
<1>2. PICK m \in T : \A n \in T : <<n, m>> \notin R
  <2> HIDE DEF R
  <2> QED BY <1>1, WFMin
<1>3. ASSUME NEW n \in T PROVE m <= n
  <2>1. ~(n < m)
    BY <1>2
  <2> QED BY <2>1
<1> QED BY <1>3

(* A set of finite sets, if not empty, has a member of the fewest elements. *)
LEMMA SmallestSet ==
    ASSUME NEW C, C # {}, \A s \in C : IsFiniteSet(s)
    PROVE  \E s \in C : \A u \in C : Cardinality(s) <= Cardinality(u)
<1> DEFINE T == {Cardinality(s) : s \in C}
<1>1. T \in SUBSET Nat /\ T # {}
  BY FS_CardinalityType
<1>2. PICK m \in T : \A n \in T : m <= n
  <2> HIDE DEF T
  <2> QED BY <1>1, SmallestNumber
<1>3. PICK s \in C : m = Cardinality(s)
  OBVIOUS
<1>4. ASSUME NEW u \in C PROVE Cardinality(s) <= Cardinality(u)
  <2>1. Cardinality(u) \in T
    OBVIOUS
  <2> QED BY <2>1, <1>2, <1>3
<1> QED BY <1>4

LEMMA AnyOf == ASSUME NEW s, s # {} PROVE Picked(s) \in s
BY DEF Picked

LEMMA OneLess ==
    ASSUME NEW s, IsFiniteSet(s), NEW x \in s
    PROVE  /\ IsFiniteSet(s \ {x}) /\ s \ {x} \subseteq s
           /\ Cardinality(s \ {x}) < Cardinality(s)
<1>1. Cardinality(s) \in Nat
  BY FS_CardinalityType
<1>2. IsFiniteSet(s \ {x}) /\ Cardinality(s \ {x}) = Cardinality(s) - 1
  BY FS_RemoveElement
<1> QED BY <1>1, <1>2

LEMMA SumAt ==
    ASSUME NEW h, NEW f, NEW S, IsSum(h, f, S), NEW s \in SUBSET S
    PROVE  h[s] = IF s = {} THEN 0 ELSE f[Picked(s)] + h[s \ {Picked(s)}]
BY DEF IsSum, Picked

LEMMA SumsAgree ==
    ASSUME NEW f, NEW S, NEW U, NEW h, NEW g, IsSum(h, f, S), IsSum(g, f, U),
           NEW t \in SUBSET (S \cap U), IsFiniteSet(t)
    PROVE  h[t] = g[t]
<1> DEFINE C == {s \in SUBSET t : h[s] # g[s]}
<1> SUFFICES C = {}
  OBVIOUS
<1> SUFFICES ASSUME C # {} PROVE FALSE
  OBVIOUS
<1>1. \A s \in C : IsFiniteSet(s)
  BY FS_Subset
<1>2. PICK s \in C : \A u \in C : Cardinality(s) <= Cardinality(u)
  <2> HIDE DEF C
  <2> QED BY <1>1, SmallestSet
<1>3. s # {}
  <2>1. {} \in SUBSET S /\ {} \in SUBSET U
    OBVIOUS
  <2>2. h[{}] = 0 /\ g[{}] = 0
    BY <2>1, SumAt
  <2> QED BY <2>2
<1>4. Picked(s) \in s
  BY <1>3, AnyOf
<1> DEFINE r == s \ {Picked(s)}
<1>5. Cardinality(r) < Cardinality(s) /\ IsFiniteSet(r)
  BY <1>1, <1>4, OneLess
<1>6. r \notin C
  <2>1. Cardinality(r) \in Nat /\ Cardinality(s) \in Nat
    BY <1>1, <1>5, FS_CardinalityType
  <2>2. ~(Cardinality(s) <= Cardinality(r))
    BY <2>1, <1>5
  <2> QED BY <2>2, <1>2
<1>7. h[r] = g[r]
  BY <1>6
<1>8. s \in SUBSET S /\ s \in SUBSET U
  OBVIOUS
<1>9. h[s] = f[Picked(s)] + h[r] /\ g[s] = f[Picked(s)] + g[r]
  <2> HIDE DEF C
  <2>1. h[s] = IF s = {} THEN 0 ELSE f[Picked(s)] + h[s \ {Picked(s)}]
    BY <1>8, SumAt
  <2>2. g[s] = IF s = {} THEN 0 ELSE f[Picked(s)] + g[s \ {Picked(s)}]
    BY <1>8, SumAt
  <2> QED BY <1>3, <2>1, <2>2
<1> QED BY <1>7, <1>9

LEMMA SumsExist ==
    ASSUME NEW f, NEW S, IsFiniteSet(S)
    PROVE  \E h : IsSum(h, f, S)
<1> DEFINE C == {s \in SUBSET S : ~ \E h : IsSum(h, f, s)}
<1> SUFFICES ASSUME C # {} PROVE FALSE
  OBVIOUS
<1>1. \A s \in C : IsFiniteSet(s)
  BY FS_Subset
<1>2. PICK s \in C : \A u \in C : Cardinality(s) <= Cardinality(u)
  <2> HIDE DEF C
  <2> QED BY <1>1, SmallestSet
<1>3. ASSUME NEW u \in SUBSET s, u # s PROVE \E h : IsSum(h, f, u)
  <2>1. IsFiniteSet(s) /\ IsFiniteSet(u)
    BY <1>1, FS_Subset
  <2>2. Cardinality(u) < Cardinality(s)
    BY <2>1, <1>3, FS_Subset, FS_CardinalityType
  <2>3. ~(Cardinality(s) <= Cardinality(u))
    BY <2>1, <2>2, FS_CardinalityType
  <2> QED BY <2>3, <1>2
<1> DEFINE H(u) == CHOOSE h : IsSum(h, f, u)
           V(u) == IF u = {} THEN 0 ELSE f[Picked(u)] + H(u \ {Picked(u)})[u \ {Picked(u)}]
           h    == [u \in SUBSET s |-> V(u)]
<1>4. ASSUME NEW u \in SUBSET s, u # s PROVE IsSum(H(u), f, u)
  BY <1>3, <1>4
<1> HIDE DEF H
<1>5. ASSUME NEW u \in SUBSET s, u # {} PROVE h[u \ {Picked(u)}] = H(u \ {Picked(u)})[u \ {Picked(u)}]
  <2> DEFINE w == u \ {Picked(u)}
  <2>1. Picked(u) \in u
    BY <1>5, AnyOf
  <2>2. w \in SUBSET s /\ w # s
    BY <2>1
  <2>3. IsSum(H(w), f, w) /\ w \in SUBSET w
    BY <2>2, <1>4
  <2>4. H(w)[w] = IF w = {} THEN 0 ELSE f[Picked(w)] + H(w)[w \ {Picked(w)}]
    <3> HIDE DEF w
    <3> QED BY <2>3, SumAt
  <2>5. ASSUME w # {} PROVE H(w)[w \ {Picked(w)}] = H(w \ {Picked(w)})[w \ {Picked(w)}]
    <3> DEFINE z == w \ {Picked(w)}
    <3>1. Picked(w) \in w
      BY <2>5, AnyOf
    <3>2. z \in SUBSET s /\ z # s /\ z \in SUBSET (w \cap z)
      BY <3>1, <2>2
    <3>3. IsSum(H(z), f, z)
      <4> HIDE DEF z
      <4> QED BY <3>2, <1>4
    <3>4. IsFiniteSet(z)
      <4> HIDE DEF z
      <4> QED BY <3>2, <1>1, FS_Subset
    <3> HIDE DEF z, w
    <3>5. H(w)[z] = H(z)[z]
      BY <2>3, <3>2, <3>3, <3>4, SumsAgree
    <3> QED BY <3>5 DEF z
  <2>6. h[w] = V(w)
    BY <2>2
  <2> QED
    <3> HIDE DEF w, h
    <3>1. V(w) = H(w)[w]
      BY <2>4, <2>5
    <3> QED BY <3>1, <2>6 DEF w
<1>6. IsSum(h, f, s)
  <2>1. h = [u \in SUBSET s |-> IF u = {} THEN 0 ELSE f[Picked(u)] + h[u \ {Picked(u)}]]
    <3>1. ASSUME NEW u \in SUBSET s
          PROVE  h[u] = IF u = {} THEN 0 ELSE f[Picked(u)] + h[u \ {Picked(u)}]
      <4>1. h[u] = V(u)
        OBVIOUS
      <4> HIDE DEF h
      <4> QED BY <4>1, <1>5
    <3>2. h = [u \in SUBSET s |-> h[u]]
      OBVIOUS
    <3> HIDE DEF h
    <3> QED BY <3>1, <3>2
  <2> HIDE DEF h
  <2> QED BY <2>1 DEF IsSum, Picked
<1> QED
  <2> HIDE DEF h
  <2> QED BY <1>6, <1>2

LEMMA SumIs ==
    ASSUME NEW f, NEW S, IsFiniteSet(S)
    PROVE  \E h : IsSum(h, f, S) /\ SumFunctionOnSet(f, S) = h[S]
<1> DEFINE h == CHOOSE h : IsSum(h, f, S)
<1>1. IsSum(h, f, S)
  BY SumsExist
<1>2. SumFunctionOnSet(f, S) = h[S]
  BY DEF SumFunctionOnSet, FoldFunctionOnSet, MapThenFoldSet, IsSum
<1> HIDE DEF h
<1> QED BY <1>1, <1>2

-----------------------------------------------------------------------------
(* The recursion, with the element that is chosen and then with any one.    *)
LEMMA SumOfAny ==
    ASSUME NEW f, NEW S, IsFiniteSet(S)
    PROVE  SumFunctionOnSet(f, S) =
              IF S = {} THEN 0 ELSE f[Picked(S)] + SumFunctionOnSet(f, S \ {Picked(S)})
<1>1. PICK h : IsSum(h, f, S) /\ SumFunctionOnSet(f, S) = h[S]
  BY SumIs
<1>2. h[S] = IF S = {} THEN 0 ELSE f[Picked(S)] + h[S \ {Picked(S)}]
  BY <1>1, SumAt
<1>3. ASSUME S # {} PROVE h[S \ {Picked(S)}] = SumFunctionOnSet(f, S \ {Picked(S)})
  <2> DEFINE r == S \ {Picked(S)}
  <2>1. IsFiniteSet(r) /\ r \in SUBSET (S \cap r)
    BY <1>3, AnyOf, OneLess
  <2> HIDE DEF r
  <2>2. PICK g : IsSum(g, f, r) /\ SumFunctionOnSet(f, r) = g[r]
    BY <2>1, SumIs
  <2>3. h[r] = g[r]
    BY <1>1, <2>1, <2>2, SumsAgree
  <2> QED BY <2>2, <2>3 DEF r
<1> QED BY <1>1, <1>2, <1>3

LEMMA SumOfNone == ASSUME NEW f PROVE SumFunctionOnSet(f, {}) = 0
BY SumOfAny, FS_EmptySet

LEMMA SumInt ==
    ASSUME NEW f, NEW S, IsFiniteSet(S), \A x \in S : f[x] \in Int
    PROVE  SumFunctionOnSet(f, S) \in Int
<1> DEFINE C == {s \in SUBSET S : SumFunctionOnSet(f, s) \notin Int}
<1> SUFFICES ASSUME C # {} PROVE FALSE
  OBVIOUS
<1>1. \A s \in C : IsFiniteSet(s)
  BY FS_Subset
<1>2. PICK s \in C : \A u \in C : Cardinality(s) <= Cardinality(u)
  <2> HIDE DEF C
  <2> QED BY <1>1, SmallestSet
<1>3. s # {}
  BY SumOfNone
<1>4. Picked(s) \in s
  BY <1>3, AnyOf
<1> DEFINE r == s \ {Picked(s)}
<1>5. Cardinality(r) < Cardinality(s) /\ IsFiniteSet(r)
  BY <1>1, <1>4, OneLess
<1>6. r \notin C
  <2>1. ~(Cardinality(s) <= Cardinality(r))
    BY <1>1, <1>5, FS_CardinalityType
  <2> QED BY <2>1, <1>2
<1>7. SumFunctionOnSet(f, r) \in Int
  BY <1>6
<1>8. SumFunctionOnSet(f, s) = f[Picked(s)] + SumFunctionOnSet(f, r)
  BY <1>1, <1>3, SumOfAny
<1> QED BY <1>4, <1>7, <1>8

LEMMA SumOfOne ==
    ASSUME NEW f, NEW S, IsFiniteSet(S), \A x \in S : f[x] \in Int, NEW x \in S
    PROVE  SumFunctionOnSet(f, S) = f[x] + SumFunctionOnSet(f, S \ {x})
<1> DEFINE Sum(s) == SumFunctionOnSet(f, s)
           C == {s \in SUBSET S : \E y \in s : Sum(s) # f[y] + Sum(s \ {y})}
<1> SUFFICES ASSUME C # {} PROVE FALSE
  OBVIOUS
<1>1. \A s \in C : IsFiniteSet(s)
  BY FS_Subset
<1>2. PICK s \in C : \A u \in C : Cardinality(s) <= Cardinality(u)
  <2> HIDE DEF C
  <2> QED BY <1>1, SmallestSet
<1>3. PICK y \in s : Sum(s) # f[y] + Sum(s \ {y})
  OBVIOUS
<1>4. Picked(s) \in s
  BY <1>3, AnyOf
<1> DEFINE a == Picked(s)
           r == s \ {a}
<1>5. Sum(s) = f[a] + Sum(r)
  BY <1>1, <1>3, SumOfAny
<1>6. y # a
  BY <1>3, <1>5
<1>7. Cardinality(r) < Cardinality(s) /\ IsFiniteSet(r)
  BY <1>1, <1>4, OneLess
<1>8. r \notin C
  <2>1. ~(Cardinality(s) <= Cardinality(r))
    BY <1>1, <1>7, FS_CardinalityType
  <2> QED BY <2>1, <1>2
<1>9. Sum(r) = f[y] + Sum(r \ {y})
  BY <1>6, <1>8
<1>10. Cardinality(s \ {y}) < Cardinality(s) /\ IsFiniteSet(s \ {y})
  BY <1>1, <1>3, OneLess
<1>11. s \ {y} \notin C
  <2>1. ~(Cardinality(s) <= Cardinality(s \ {y}))
    BY <1>1, <1>10, FS_CardinalityType
  <2> QED BY <2>1, <1>2
<1>12. Sum(s \ {y}) = f[a] + Sum((s \ {y}) \ {a})
  BY <1>4, <1>6, <1>11
<1>13. (s \ {y}) \ {a} = r \ {y}
  OBVIOUS
<1>14. IsFiniteSet(r \ {y}) /\ r \ {y} \subseteq S
  BY <1>7, FS_Subset
<1>15. Sum(r \ {y}) \in Int
  BY <1>14, SumInt
<1>16. f[a] \in Int /\ f[y] \in Int
  BY <1>3, <1>4
<1>17. Sum(s \ {y}) = f[a] + Sum(r \ {y})
  BY <1>12, <1>13
<1>18. \A k, m, v \in Int : k + (m + v) = m + (k + v)
  OBVIOUS
<1>19. f[a] + (f[y] + Sum(r \ {y})) = f[y] + (f[a] + Sum(r \ {y}))
  <2> HIDE DEF Sum, r, a, C
  <2> QED BY <1>15, <1>16, <1>18
<1> QED
  <2> HIDE DEF Sum, r, a, C
  <2> QED BY <1>3, <1>5, <1>9, <1>17, <1>19

-----------------------------------------------------------------------------
LEMMA SumNat ==
    ASSUME NEW f, NEW S, IsFiniteSet(S), \A x \in S : f[x] \in Nat
    PROVE  SumFunctionOnSet(f, S) \in Nat
<1> DEFINE C == {s \in SUBSET S : SumFunctionOnSet(f, s) \notin Nat}
<1> SUFFICES ASSUME C # {} PROVE FALSE
  OBVIOUS
<1>1. \A s \in C : IsFiniteSet(s)
  BY FS_Subset
<1>2. PICK s \in C : \A u \in C : Cardinality(s) <= Cardinality(u)
  <2> HIDE DEF C
  <2> QED BY <1>1, SmallestSet
<1>3. s # {}
  BY SumOfNone
<1>4. Picked(s) \in s
  BY <1>3, AnyOf
<1> DEFINE r == s \ {Picked(s)}
<1>5. Cardinality(r) < Cardinality(s) /\ IsFiniteSet(r)
  BY <1>1, <1>4, OneLess
<1>6. r \notin C
  <2>1. ~(Cardinality(s) <= Cardinality(r))
    BY <1>1, <1>5, FS_CardinalityType
  <2> QED BY <2>1, <1>2
<1>7. SumFunctionOnSet(f, r) \in Nat
  BY <1>6
<1>8. SumFunctionOnSet(f, s) = f[Picked(s)] + SumFunctionOnSet(f, r)
  BY <1>1, <1>3, SumOfAny
<1> QED BY <1>4, <1>7, <1>8

(* Pointwise at most, hence at most; pointwise equal, hence equal.          *)
LEMMA SumAtMost ==
    ASSUME NEW f, NEW g, NEW S, IsFiniteSet(S),
           \A x \in S : f[x] \in Int /\ g[x] \in Int /\ f[x] <= g[x]
    PROVE  SumFunctionOnSet(f, S) <= SumFunctionOnSet(g, S)
<1> DEFINE C == {s \in SUBSET S : ~(SumFunctionOnSet(f, s) <= SumFunctionOnSet(g, s))}
<1> SUFFICES ASSUME C # {} PROVE FALSE
  OBVIOUS
<1>1. \A s \in C : IsFiniteSet(s)
  BY FS_Subset
<1>2. PICK s \in C : \A u \in C : Cardinality(s) <= Cardinality(u)
  <2> HIDE DEF C
  <2> QED BY <1>1, SmallestSet
<1>3. s # {}
  <2>1. SumFunctionOnSet(f, {}) = 0 /\ SumFunctionOnSet(g, {}) = 0
    BY SumOfNone
  <2>2. SumFunctionOnSet(f, {}) <= SumFunctionOnSet(g, {})
    BY <2>1
  <2> QED BY <2>2
<1>4. Picked(s) \in s
  BY <1>3, AnyOf
<1> DEFINE r == s \ {Picked(s)}
<1>5. Cardinality(r) < Cardinality(s) /\ IsFiniteSet(r)
  BY <1>1, <1>4, OneLess
<1>6. r \notin C
  <2>1. ~(Cardinality(s) <= Cardinality(r))
    BY <1>1, <1>5, FS_CardinalityType
  <2> QED BY <2>1, <1>2
<1>7. SumFunctionOnSet(f, r) <= SumFunctionOnSet(g, r)
  BY <1>6
<1>8. /\ SumFunctionOnSet(f, s) = f[Picked(s)] + SumFunctionOnSet(f, r)
      /\ SumFunctionOnSet(g, s) = g[Picked(s)] + SumFunctionOnSet(g, r)
  BY <1>1, <1>3, SumOfAny
<1>9. SumFunctionOnSet(f, r) \in Int /\ SumFunctionOnSet(g, r) \in Int
  BY <1>5, SumInt
<1>10. f[Picked(s)] \in Int /\ g[Picked(s)] \in Int /\ f[Picked(s)] <= g[Picked(s)]
  BY <1>4
<1>11. ~(SumFunctionOnSet(f, s) <= SumFunctionOnSet(g, s))
  BY <1>2
<1> HIDE DEF r
<1> QED BY <1>7, <1>8, <1>9, <1>10, <1>11

LEMMA SumSame ==
    ASSUME NEW f, NEW g, NEW S, IsFiniteSet(S), \A x \in S : f[x] \in Int /\ g[x] = f[x]
    PROVE  SumFunctionOnSet(g, S) = SumFunctionOnSet(f, S)
<1>1. SumFunctionOnSet(g, S) <= SumFunctionOnSet(f, S)
  BY SumAtMost
<1>2. SumFunctionOnSet(f, S) <= SumFunctionOnSet(g, S)
  BY SumAtMost
<1>3. SumFunctionOnSet(f, S) \in Int /\ SumFunctionOnSet(g, S) \in Int
  BY SumInt
<1> QED BY <1>1, <1>2, <1>3

(* The sum of a pointwise sum.                                              *)
LEMMA SumCombined ==
    ASSUME NEW f, NEW g, NEW h, NEW S, IsFiniteSet(S),
           \A x \in S : f[x] \in Int /\ g[x] \in Int /\ h[x] = f[x] + g[x]
    PROVE  SumFunctionOnSet(h, S) = SumFunctionOnSet(f, S) + SumFunctionOnSet(g, S)
<1> DEFINE C == {s \in SUBSET S :
                   SumFunctionOnSet(h, s) # SumFunctionOnSet(f, s) + SumFunctionOnSet(g, s)}
<1> SUFFICES ASSUME C # {} PROVE FALSE
  OBVIOUS
<1>1. \A s \in C : IsFiniteSet(s)
  BY FS_Subset
<1>2. PICK s \in C : \A u \in C : Cardinality(s) <= Cardinality(u)
  <2> HIDE DEF C
  <2> QED BY <1>1, SmallestSet
<1>3. s # {}
  <2>1. /\ SumFunctionOnSet(f, {}) = 0 /\ SumFunctionOnSet(g, {}) = 0
        /\ SumFunctionOnSet(h, {}) = 0
    BY SumOfNone
  <2>2. SumFunctionOnSet(h, {}) = SumFunctionOnSet(f, {}) + SumFunctionOnSet(g, {})
    BY <2>1
  <2> QED BY <2>2
<1>4. Picked(s) \in s
  BY <1>3, AnyOf
<1> DEFINE r == s \ {Picked(s)}
<1>5. Cardinality(r) < Cardinality(s) /\ IsFiniteSet(r)
  BY <1>1, <1>4, OneLess
<1>6. r \notin C
  <2>1. ~(Cardinality(s) <= Cardinality(r))
    BY <1>1, <1>5, FS_CardinalityType
  <2> QED BY <2>1, <1>2
<1>7. SumFunctionOnSet(h, r) = SumFunctionOnSet(f, r) + SumFunctionOnSet(g, r)
  BY <1>6
<1>8. /\ SumFunctionOnSet(f, s) = f[Picked(s)] + SumFunctionOnSet(f, r)
      /\ SumFunctionOnSet(g, s) = g[Picked(s)] + SumFunctionOnSet(g, r)
      /\ SumFunctionOnSet(h, s) = h[Picked(s)] + SumFunctionOnSet(h, r)
  BY <1>1, <1>3, SumOfAny
<1>9. SumFunctionOnSet(f, r) \in Int /\ SumFunctionOnSet(g, r) \in Int
  BY <1>5, SumInt
<1>10. f[Picked(s)] \in Int /\ g[Picked(s)] \in Int /\ h[Picked(s)] = f[Picked(s)] + g[Picked(s)]
  BY <1>4
<1>11. SumFunctionOnSet(h, s) # SumFunctionOnSet(f, s) + SumFunctionOnSet(g, s)
  BY <1>2
<1> HIDE DEF r
<1> QED BY <1>7, <1>8, <1>9, <1>10, <1>11

-----------------------------------------------------------------------------
(* The same of SumFunction, which sums over the whole domain.               *)
LEMMA SumsOverDomain ==
    ASSUME NEW f, NEW S, f = [x \in S |-> f[x]]
    PROVE  SumFunction(f) = SumFunctionOnSet(f, S)
<1>1. DOMAIN f = S
  OBVIOUS
<1> QED BY <1>1 DEF SumFunction

LEMMA TotalInt ==
    ASSUME NEW S, IsFiniteSet(S), NEW f \in [S -> Int]
    PROVE  SumFunction(f) \in Int
BY SumInt, SumsOverDomain

LEMMA TotalNat ==
    ASSUME NEW S, IsFiniteSet(S), NEW f \in [S -> Nat]
    PROVE  SumFunction(f) \in Nat
BY SumNat, SumsOverDomain

(* One value changes, and the total by as much.                             *)
LEMMA TotalChange ==
    ASSUME NEW S, IsFiniteSet(S), NEW f \in [S -> Int], NEW g \in [S -> Int], NEW x \in S,
           \A y \in S \ {x} : g[y] = f[y]
    PROVE  SumFunction(g) = SumFunction(f) + (g[x] - f[x])
<1> DEFINE r == S \ {x}
<1>1. IsFiniteSet(r)
  BY OneLess
<1>2. SumFunctionOnSet(g, r) = SumFunctionOnSet(f, r)
  BY <1>1, SumSame
<1>3. SumFunctionOnSet(f, r) \in Int
  BY <1>1, SumInt
<1>4. /\ SumFunctionOnSet(f, S) = f[x] + SumFunctionOnSet(f, r)
      /\ SumFunctionOnSet(g, S) = g[x] + SumFunctionOnSet(g, r)
  BY SumOfOne
<1>5. SumFunction(f) = SumFunctionOnSet(f, S) /\ SumFunction(g) = SumFunctionOnSet(g, S)
  BY SumsOverDomain
<1>6. f[x] \in Int /\ g[x] \in Int
  OBVIOUS
<1> HIDE DEF r
<1> QED BY <1>2, <1>3, <1>4, <1>5, <1>6

LEMMA TotalAtMost ==
    ASSUME NEW S, IsFiniteSet(S), NEW f \in [S -> Int], NEW g \in [S -> Int],
           \A x \in S : f[x] <= g[x]
    PROVE  SumFunction(f) <= SumFunction(g)
<1>1. SumFunctionOnSet(f, S) <= SumFunctionOnSet(g, S)
  BY SumAtMost
<1> QED BY <1>1, SumsOverDomain

LEMMA TotalCombined ==
    ASSUME NEW S, IsFiniteSet(S), NEW f \in [S -> Int], NEW g \in [S -> Int], NEW h \in [S -> Int],
           \A x \in S : h[x] = f[x] + g[x]
    PROVE  SumFunction(h) = SumFunction(f) + SumFunction(g)
<1>1. SumFunctionOnSet(h, S) = SumFunctionOnSet(f, S) + SumFunctionOnSet(g, S)
  BY SumCombined
<1> QED BY <1>1, SumsOverDomain

LEMMA TotalZero ==
    ASSUME NEW S, IsFiniteSet(S), NEW f \in [S -> Int], \A x \in S : f[x] = 0
    PROVE  SumFunction(f) = 0
<1>1. SumFunction(f) = SumFunction(f) + SumFunction(f)
  BY TotalCombined
<1> QED BY <1>1, TotalInt

(* A part is at most the total, when nothing is negative.                   *)
LEMMA TotalHasPart ==
    ASSUME NEW S, IsFiniteSet(S), NEW f \in [S -> Nat], NEW x \in S
    PROVE  f[x] <= SumFunction(f)
<1> DEFINE g == [y \in S |-> IF y = x THEN 0 ELSE f[y]]
<1>1. g \in [S -> Nat] /\ f \in [S -> Int] /\ g \in [S -> Int]
  OBVIOUS
<1>2. g[x] = 0 /\ \A y \in S \ {x} : g[y] = f[y]
  OBVIOUS
<1> HIDE DEF g
<1>3. SumFunction(g) = SumFunction(f) + (0 - f[x])
  BY <1>1, <1>2, TotalChange
<1>4. SumFunction(g) \in Nat /\ SumFunction(f) \in Nat
  BY <1>1, TotalNat
<1> QED BY <1>3, <1>4

(* Every value is multiplied.                                               *)
LEMMA TotalTimes ==
    ASSUME NEW S, IsFiniteSet(S), NEW f \in [S -> Int], NEW g \in [S -> Int], NEW k \in Int,
           \A x \in S : g[x] = k * f[x]
    PROVE  SumFunction(g) = k * SumFunction(f)
<1> DEFINE C == {s \in SUBSET S : SumFunctionOnSet(g, s) # k * SumFunctionOnSet(f, s)}
<1>1. ASSUME C # {} PROVE FALSE
  <2>1. \A s \in C : IsFiniteSet(s)
    BY FS_Subset
  <2>2. PICK s \in C : \A u \in C : Cardinality(s) <= Cardinality(u)
    <3> HIDE DEF C
    <3> QED BY <1>1, <2>1, SmallestSet
  <2>3. s # {}
    <3>1. SumFunctionOnSet(f, {}) = 0 /\ SumFunctionOnSet(g, {}) = 0
      BY SumOfNone
    <3>2. k * 0 = 0
      OBVIOUS
    <3> QED BY <3>1, <3>2
  <2>4. Picked(s) \in s
    BY <2>3, AnyOf
  <2> DEFINE r == s \ {Picked(s)}
  <2>5. Cardinality(r) < Cardinality(s) /\ IsFiniteSet(r)
    BY <2>1, <2>4, OneLess
  <2>6. r \notin C
    <3>1. ~(Cardinality(s) <= Cardinality(r))
      BY <2>1, <2>5, FS_CardinalityType
    <3> QED BY <3>1, <2>2
  <2>7. SumFunctionOnSet(g, r) = k * SumFunctionOnSet(f, r)
    BY <2>6
  <2>8. /\ SumFunctionOnSet(f, s) = f[Picked(s)] + SumFunctionOnSet(f, r)
        /\ SumFunctionOnSet(g, s) = g[Picked(s)] + SumFunctionOnSet(g, r)
    BY <2>1, <2>3, SumOfAny
  <2>9. SumFunctionOnSet(f, r) \in Int
    BY <2>5, SumInt
  <2>10. f[Picked(s)] \in Int /\ g[Picked(s)] = k * f[Picked(s)]
    BY <2>4
  <2>11. \A i, j \in Int : k * (i + j) = k * i + k * j
    OBVIOUS
  <2>12. SumFunctionOnSet(g, s) # k * SumFunctionOnSet(f, s)
    BY <2>2
  <2> HIDE DEF r
  <2> QED BY <2>7, <2>8, <2>9, <2>10, <2>11, <2>12
<1>2. SumFunctionOnSet(g, S) = k * SumFunctionOnSet(f, S)
  BY <1>1
<1> QED BY <1>2, SumsOverDomain

(* A number for each member of a part and nothing for the others.           *)
LEMMA TotalCount ==
    ASSUME NEW S, IsFiniteSet(S), NEW T \in SUBSET S, NEW f \in [S -> Int],
           \A x \in S : f[x] = IF x \in T THEN 1 ELSE 0
    PROVE  SumFunction(f) = Cardinality(T)
<1> DEFINE C == {s \in SUBSET S : SumFunctionOnSet(f, s) # Cardinality(s \cap T)}
<1>1. ASSUME C # {} PROVE FALSE
  <2>1. \A s \in C : IsFiniteSet(s)
    BY FS_Subset
  <2>2. PICK s \in C : \A u \in C : Cardinality(s) <= Cardinality(u)
    <3> HIDE DEF C
    <3> QED BY <1>1, <2>1, SmallestSet
  <2>3. s # {}
    <3>1. SumFunctionOnSet(f, {}) = 0 /\ {} \cap T = {} /\ Cardinality({}) = 0
      BY SumOfNone, FS_EmptySet
    <3> QED BY <3>1
  <2>4. Picked(s) \in s
    BY <2>3, AnyOf
  <2> DEFINE a == Picked(s)
             r == s \ {a}
  <2>5. Cardinality(r) < Cardinality(s) /\ IsFiniteSet(r)
    BY <2>1, <2>4, OneLess
  <2>6. r \notin C
    <3>1. ~(Cardinality(s) <= Cardinality(r))
      BY <2>1, <2>5, FS_CardinalityType
    <3> QED BY <3>1, <2>2
  <2>7. SumFunctionOnSet(f, r) = Cardinality(r \cap T)
    BY <2>6
  <2>8. SumFunctionOnSet(f, s) = f[a] + SumFunctionOnSet(f, r)
    BY <2>1, <2>3, SumOfAny
  <2>9. IsFiniteSet(r \cap T)
    BY <2>5, FS_Subset
  <2>10. Cardinality((r \cap T) \cup {a}) = Cardinality(r \cap T) + 1
    BY <2>9, FS_AddElement
  <2>11. a \in S /\ f[a] = IF a \in T THEN 1 ELSE 0
    BY <2>4
  <2>12. s \cap T = IF a \in T THEN (r \cap T) \cup {a} ELSE r \cap T
    BY <2>4
  <2>13. SumFunctionOnSet(f, s) # Cardinality(s \cap T)
    BY <2>2
  <2>14. Cardinality(r \cap T) \in Nat
    BY <2>9, FS_CardinalityType
  <2>15. Cardinality(s \cap T) = IF a \in T THEN Cardinality(r \cap T) + 1
                                             ELSE Cardinality(r \cap T)
    BY <2>10, <2>12
  <2> HIDE DEF r, a
  <2>16. SumFunctionOnSet(f, s) = Cardinality(s \cap T)
    <3>1. CASE a \in T
      BY <3>1, <2>7, <2>8, <2>11, <2>14, <2>15
    <3>2. CASE a \notin T
      BY <3>2, <2>7, <2>8, <2>11, <2>14, <2>15
    <3> QED BY <3>1, <3>2
  <2> QED BY <2>13, <2>16
<1>2. SumFunctionOnSet(f, S) = Cardinality(S \cap T)
  BY <1>1
<1>3. S \cap T = T
  OBVIOUS
<1> QED BY <1>2, <1>3, SumsOverDomain

LEMMA TotalShares ==
    ASSUME NEW S, IsFiniteSet(S), NEW T \in SUBSET S, NEW k \in Int, NEW f \in [S -> Int],
           \A x \in S : f[x] = IF x \in T THEN k ELSE 0
    PROVE  SumFunction(f) = k * Cardinality(T)
<1> DEFINE one == [x \in S |-> IF x \in T THEN 1 ELSE 0]
<1>1. one \in [S -> Int] /\ \A x \in S : one[x] = IF x \in T THEN 1 ELSE 0
  OBVIOUS
<1>2. \A x \in S : f[x] = k * one[x]
  OBVIOUS
<1> HIDE DEF one
<1>3. SumFunction(one) = Cardinality(T)
  BY <1>1, TotalCount
<1>4. SumFunction(f) = k * SumFunction(one)
  BY <1>1, <1>2, TotalTimes
<1> QED BY <1>3, <1>4

LEMMA TotalOfOne ==
    ASSUME NEW S, IsFiniteSet(S), NEW y \in S, NEW k \in Int, NEW f \in [S -> Int],
           \A x \in S : f[x] = IF x = y THEN k ELSE 0
    PROVE  SumFunction(f) = k
<1> DEFINE zero == [x \in S |-> 0]
<1>1. zero \in [S -> Int] /\ \A x \in S : zero[x] = 0
  OBVIOUS
<1> HIDE DEF zero
<1>2. SumFunction(zero) = 0
  BY <1>1, TotalZero
<1>3. \A x \in S \ {y} : f[x] = zero[x]
  BY <1>1
<1>4. zero \in [S -> Int] /\ f \in [S -> Int]
  BY <1>1
<1>5. SumFunction(f) = SumFunction(zero) + (f[y] - zero[y])
  BY <1>3, <1>4, TotalChange
<1>6. f[y] = k /\ zero[y] = 0
  BY <1>1
<1> QED BY <1>2, <1>5, <1>6

(* Division of the contracts: rounded down.                                 *)
LEMMA DivFacts ==
    ASSUME NEW n \in Nat, NEW d \in Nat \ {0}
    PROVE  /\ n \div d \in Nat /\ (n \div d) * d <= n /\ n < (n \div d) * d + d
  OBVIOUS

LEMMA TimesFacts ==
    ASSUME NEW i \in Int, NEW j \in Int, NEW k \in Int
    PROVE  /\ i * k \in Int /\ i * k = k * i
           /\ (i + j) * k = i * k + j * k
           /\ (i - j) * k = i * k - j * k
  OBVIOUS

LEMMA TimesNat ==
    ASSUME NEW i \in Nat, NEW j \in Nat, NEW k \in Nat
    PROVE  /\ i * k \in Nat
           /\ i <= j => i * k <= j * k
  OBVIOUS

(* Shares of X in proportion to f, each rounded down, are at most X in all. *)
LEMMA TotalFloors ==
    ASSUME NEW S, IsFiniteSet(S), NEW f \in [S -> Nat], NEW g \in [S -> Int], NEW X \in Nat,
           SumFunction(f) > 0,
           \A x \in S : g[x] = (f[x] * X) \div SumFunction(f)
    PROVE  SumFunction(g) <= X
<1> DEFINE W == SumFunction(f)
           u == [x \in S |-> W * g[x]]
           v == [x \in S |-> X * f[x]]
<1>1. W \in Nat \ {0}
  BY TotalNat
<1>2. \A x \in S : g[x] = (f[x] * X) \div W
  OBVIOUS
<1> HIDE DEF W
<1>3. ASSUME NEW x \in S
      PROVE  /\ W * g[x] \in Int /\ X * f[x] \in Int
             /\ W * g[x] <= X * f[x]
  <2>1. f[x] \in Nat /\ g[x] \in Int
    OBVIOUS
  <2>2. f[x] * X \in Nat /\ f[x] * X = X * f[x]
    BY <2>1, TimesNat, TimesFacts
  <2>3. g[x] = (f[x] * X) \div W
    BY <1>2
  <2> DEFINE p == f[x] * X
  <2> HIDE DEF p
  <2>4. p \in Nat /\ g[x] = p \div W
    BY <2>2, <2>3 DEF p
  <2>5. (p \div W) * W <= p
    BY <1>1, <2>4, DivFacts
  <2>6. g[x] * W = W * g[x] /\ W * g[x] \in Int
    BY <1>1, <2>1, TimesFacts
  <2>7. W * g[x] <= p
    BY <2>4, <2>5, <2>6
  <2> QED BY <2>2, <2>6, <2>7 DEF p
<1>4. u \in [S -> Int] /\ v \in [S -> Int] /\ \A x \in S : u[x] <= v[x]
  BY <1>3
<1>5. \A x \in S : u[x] = W * g[x] /\ v[x] = X * f[x]
  OBVIOUS
<1>6. f \in [S -> Int] /\ W \in Int /\ X \in Int
  BY <1>1
<1> HIDE DEF u, v
<1>7. SumFunction(u) = W * SumFunction(g)
  BY <1>4, <1>5, <1>6, TotalTimes
<1>8. SumFunction(v) = X * W
  BY <1>4, <1>5, <1>6, TotalTimes DEF W
<1>9. SumFunction(u) <= SumFunction(v)
  BY <1>4, TotalAtMost
<1> DEFINE G == SumFunction(g)
<1>10. G \in Int
  BY TotalInt
<1>11. SumFunction(u) = W * G
  BY <1>7
<1> HIDE DEF G
<1>12. W * G <= X * W
  BY <1>8, <1>9, <1>11
<1>13. SUFFICES ASSUME ~(G <= X) PROVE FALSE
  BY DEF G
<1>14. X + 1 \in Nat /\ G \in Nat /\ X + 1 <= G
  BY <1>10, <1>13
<1>15. (X + 1) * W <= G * W
  BY <1>1, <1>14, TimesNat
<1>16. (X + 1) * W = X * W + W /\ G * W = W * G /\ X * W \in Int /\ G * W \in Int
  <2>1. (X + 1) * W = X * W + 1 * W /\ 1 * W = W
    BY <1>6, TimesFacts
  <2> QED BY <1>6, <1>10, <2>1, TimesFacts
<1> QED BY <1>1, <1>12, <1>15, <1>16

(* The sum of a table by rows is its sum by columns.                        *)
LEMMA TotalSwap ==
    ASSUME NEW S, IsFiniteSet(S), NEW T, IsFiniteSet(T), NEW F \in [S -> [T -> Int]]
    PROVE  SumFunction([x \in S |-> SumFunction(F[x])])
              = SumFunction([y \in T |-> SumFunction([x \in S |-> F[x][y]])])
<1> DEFINE row    == [x \in S |-> SumFunction(F[x])]
           col(y) == [x \in S |-> F[x][y]]
           part(s) == [y \in T |-> SumFunctionOnSet(col(y), s)]
           C == {s \in SUBSET S : SumFunctionOnSet(row, s) # SumFunction(part(s))}
<1>1. \A s \in SUBSET S : IsFiniteSet(s)
  BY FS_Subset
<1>2. \A x \in S : row[x] \in Int
  <2>1. \A x \in S : F[x] \in [T -> Int]
    OBVIOUS
  <2> QED BY <2>1, TotalInt
<1>3. \A y \in T, x \in S : col(y)[x] = F[x][y] /\ F[x][y] \in Int
  OBVIOUS
<1>4. \A x \in S : row[x] = SumFunction(F[x])
  OBVIOUS
<1>5. ASSUME NEW s \in SUBSET S
      PROVE  /\ SumFunctionOnSet(row, s) \in Int
             /\ part(s) \in [T -> Int]
             /\ \A y \in T : part(s)[y] = SumFunctionOnSet(col(y), s)
             /\ SumFunction(part(s)) \in Int
  <2> HIDE DEF row, col
  <2>1. IsFiniteSet(s) /\ \A x \in s : row[x] \in Int
    BY <1>1, <1>2
  <2>2. SumFunctionOnSet(row, s) \in Int
    BY <2>1, SumInt
  <2>3. ASSUME NEW y \in T PROVE SumFunctionOnSet(col(y), s) \in Int
    <3>1. \A x \in s : col(y)[x] \in Int
      BY <1>3
    <3> QED BY <2>1, <3>1, SumInt
  <2>4. part(s) \in [T -> Int] /\ \A y \in T : part(s)[y] = SumFunctionOnSet(col(y), s)
    BY <2>3
  <2> HIDE DEF part
  <2> QED BY <2>2, <2>4, TotalInt
<1> HIDE DEF row, col, part
<1>6. SUFFICES ASSUME C # {} PROVE FALSE
  <2>1. S \in SUBSET S
    OBVIOUS
  <2>2. SumFunctionOnSet(row, S) = SumFunction(part(S))
    BY <1>6, <2>1
  <2>3. SumFunction(row) = SumFunctionOnSet(row, S)
    BY SumsOverDomain DEF row
  <2>4. \A y \in T : SumFunction(col(y)) = SumFunctionOnSet(col(y), S)
    BY SumsOverDomain DEF col
  <2>5. part(S) = [y \in T |-> SumFunction(col(y))]
    BY <2>4 DEF part
  <2>6. SumFunction(row) = SumFunction([y \in T |-> SumFunction(col(y))])
    BY <2>2, <2>3, <2>5
  <2> QED BY <2>6 DEF row, col
<1>7. PICK s \in C : \A t \in C : Cardinality(s) <= Cardinality(t)
  BY <1>1, <1>6, SmallestSet
<1>8. s \in SUBSET S /\ SumFunctionOnSet(row, s) # SumFunction(part(s)) /\ IsFiniteSet(s)
  BY <1>1, <1>7
<1>9. s # {}
  <2>1. ASSUME s = {} PROVE FALSE
    <3>1. SumFunctionOnSet(row, s) = 0 /\ \A y \in T : SumFunctionOnSet(col(y), s) = 0
      BY <2>1, SumOfNone
    <3>2. part(s) \in [T -> Int] /\ \A y \in T : part(s)[y] = 0
      BY <1>5, <1>8, <3>1
    <3>3. SumFunction(part(s)) = 0
      BY <3>2, TotalZero
    <3> QED BY <1>8, <3>1, <3>3
  <2> QED BY <2>1
<1> DEFINE a == Picked(s)
           r == s \ {a}
<1>10. a \in s /\ a \in S
  BY <1>8, <1>9, AnyOf
<1> HIDE DEF a
<1>11. /\ IsFiniteSet(r) /\ r \in SUBSET S /\ Cardinality(r) < Cardinality(s)
  BY <1>8, <1>10, OneLess
<1>12. r \notin C
  <2>1. Cardinality(r) \in Nat /\ Cardinality(s) \in Nat
    BY <1>8, <1>11, FS_CardinalityType
  <2> QED BY <1>7, <1>11, <2>1
<1>13. SumFunctionOnSet(row, r) = SumFunction(part(r))
  BY <1>11, <1>12
<1>14. SumFunctionOnSet(row, s) = SumFunction(F[a]) + SumFunctionOnSet(row, r)
  <2>1. \A x \in s : row[x] \in Int
    BY <1>2, <1>8
  <2>2. SumFunctionOnSet(row, s) = row[a] + SumFunctionOnSet(row, r)
    BY <1>8, <1>10, <2>1, SumOfOne
  <2> QED BY <1>4, <1>10, <2>2
<1>15. \A y \in T : part(s)[y] = F[a][y] + part(r)[y]
  <2>1. ASSUME NEW y \in T
        PROVE  SumFunctionOnSet(col(y), s) = F[a][y] + SumFunctionOnSet(col(y), r)
    <3>1. \A x \in s : col(y)[x] \in Int
      BY <1>3, <1>8
    <3>2. SumFunctionOnSet(col(y), s) = col(y)[a] + SumFunctionOnSet(col(y), r)
      BY <1>8, <1>10, <3>1, SumOfOne
    <3> QED BY <1>3, <1>10, <3>2
  <2> QED BY <1>5, <1>8, <1>11, <2>1
<1>16. SumFunction(part(s)) = SumFunction(F[a]) + SumFunction(part(r))
  <2> DEFINE u == F[a]
             v == part(r)
             w == part(s)
  <2>1. u \in [T -> Int] /\ v \in [T -> Int] /\ w \in [T -> Int]
    BY <1>5, <1>8, <1>10, <1>11
  <2>2. \A y \in T : w[y] = u[y] + v[y]
    BY <1>15
  <2> HIDE DEF u, v, w
  <2>3. SumFunction(w) = SumFunction(u) + SumFunction(v)
    BY <2>1, <2>2, TotalCombined
  <2> QED BY <2>3 DEF u, v, w
<1> QED BY <1>8, <1>13, <1>14, <1>16
=============================================================================
