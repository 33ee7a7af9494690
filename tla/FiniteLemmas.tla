---------------------------- MODULE FiniteLemmas ----------------------------
(***************************************************************************)
(* Facts about sets of numbers, finite sets and sums over them.  Induction *)
(* is argued from the least counterexample; the sums are those of the      *)
(* community module Functions, over a function whose domain may be larger. *)
(***************************************************************************)
EXTENDS Functions, FiniteSetTheorems, WellFoundedInduction, TLAPS

(***************************************************************************)
(* Sets of natural numbers.                                                *)
(***************************************************************************)

\* A nonempty set of natural numbers has a least element.
LEMMA LeastElement ==
    ASSUME NEW T \in SUBSET Nat, T # {}
    PROVE  \E x \in T : \A y \in T : x <= y
<1> DEFINE R == OpToRel(<, Nat)
<1>1. IsWellFoundedOn(R, Nat)
  BY NatLessThanWellFounded
<1>2. \A x, y \in Nat : x < y => <<x, y>> \in R
  BY DEF OpToRel
<1> HIDE DEF R
<1>3. PICK x \in T : \A y \in T : ~(<<y, x>> \in R)
  BY <1>1, WFMin
<1>4. \A y \in T : ~(y < x)
  BY <1>2, <1>3
<1>5. QED
  BY <1>4

\* A nonempty bounded set of natural numbers has a greatest element.
LEMMA GreatestElement ==
    ASSUME NEW n \in Nat, NEW T \in SUBSET (0..n), T # {}
    PROVE  \E x \in T : \A y \in T : y <= x
<1> DEFINE U == {n - x : x \in T}
<1>1. U \in SUBSET Nat /\ U # {}
  <2>1. \A x \in T : n - x \in Nat
    OBVIOUS
  <2>2. QED
    BY <2>1
<1>2. PICK u \in U : \A v \in U : u <= v
  BY <1>1, LeastElement
<1>3. PICK x \in T : u = n - x
  BY <1>2
<1>4. ASSUME NEW y \in T PROVE y <= x
  <2>1. n - y \in U
    OBVIOUS
  <2>2. n - x <= n - y
    BY <1>2, <1>3, <2>1
  <2>3. QED
    BY <2>2
<1>5. QED
  BY <1>4

\* A set of natural numbers closed under successor, with 0, is all of them.
LEMMA NatSetInduction ==
    ASSUME NEW F, 0 \in F, \A n \in Nat : n \in F => n + 1 \in F
    PROVE  Nat \subseteq F
<1> DEFINE Out == {n \in Nat : n \notin F}
<1> SUFFICES ASSUME Out # {} PROVE FALSE
  OBVIOUS
<1>1. PICK x \in Out : \A y \in Out : x <= y
  BY LeastElement
<1>2. x # 0 /\ x - 1 \in Nat /\ x - 1 \notin Out /\ (x - 1) + 1 = x
  BY <1>1
<1>3. QED
  BY <1>1, <1>2

\* A family with every subset of S all of whose subsets of one element less are in it
\* has every subset of S.
LEMMA FiniteInduction ==
    ASSUME NEW S, IsFiniteSet(S), NEW F,
           \A T \in SUBSET S : (\A x \in T : T \ {x} \in F) => T \in F
    PROVE  \A T \in SUBSET S : T \in F
<1> DEFINE Small == {n \in Nat : \A T \in SUBSET S : Cardinality(T) = n => T \in F}
<1>1. \A T \in SUBSET S : IsFiniteSet(T) /\ Cardinality(T) \in Nat
  BY FS_Subset, FS_CardinalityType
<1>2. 0 \in Small
  <2>1. \A T \in SUBSET S : Cardinality(T) = 0 => T = {}
    BY <1>1, FS_EmptySet
  <2>2. QED
    BY <2>1
<1>3. ASSUME NEW n \in Nat, n \in Small PROVE n + 1 \in Small
  <2> SUFFICES ASSUME NEW T \in SUBSET S, Cardinality(T) = n + 1, NEW x \in T
               PROVE  T \ {x} \in F
    OBVIOUS
  <2>1. IsFiniteSet(T)
    BY <1>1
  <2>2. Cardinality(T \ {x}) = Cardinality(T) - 1
    BY <2>1, FS_RemoveElement
  <2>3. QED
    BY <1>3, <2>2
<1> HIDE DEF Small
<1>4. Nat \subseteq Small
  BY <1>2, <1>3, NatSetInduction
<1>5. QED
  BY <1>1, <1>4 DEF Small

(***************************************************************************)
(* Sums.  Total is what SumFunctionOnSet unfolds to at each subset.        *)
(***************************************************************************)
Some(s) == CHOOSE x \in s : TRUE

IsTotal(g, f, S) ==
    g = [s \in SUBSET S |-> IF s = {} THEN 0 ELSE f[Some(s)] + g[s \ {Some(s)}]]

\* Every finite set has a function of its subsets that satisfies the recursion.
LEMMA TotalExists ==
    ASSUME NEW f, NEW S, IsFiniteSet(S)
    PROVE  \E g : IsTotal(g, f, S)
<1> DEFINE Upto(n) == {s \in SUBSET S : Cardinality(s) <= n}
           On(g, n) == g = [s \in Upto(n) |->
                            IF s = {} THEN 0 ELSE f[Some(s)] + g[s \ {Some(s)}]]
           Reached == {n \in Nat : \E g : On(g, n)}
<1>1. \A s \in SUBSET S : IsFiniteSet(s) /\ Cardinality(s) \in Nat
  BY FS_Subset, FS_CardinalityType
<1>2. \A s \in SUBSET S : s # {} =>
        /\ Some(s) \in s
        /\ Cardinality(s) # 0
        /\ Cardinality(s \ {Some(s)}) = Cardinality(s) - 1
  BY <1>1, FS_EmptySet, FS_RemoveElement DEF Some
<1>3. 0 \in Reached
  <2>1. \A s \in Upto(0) : s = {}
    BY <1>1, FS_EmptySet
  <2>2. On([s \in Upto(0) |-> 0], 0)
    BY <2>1
  <2>3. QED
    BY <2>2
<1>4. ASSUME NEW n \in Nat, n \in Reached PROVE n + 1 \in Reached
  <2>1. PICK g : On(g, n)
    BY <1>4
  <2> DEFINE next == [s \in Upto(n + 1) |-> IF s = {} THEN 0 ELSE f[Some(s)] + g[s \ {Some(s)}]]
  <2>2. \A s \in Upto(n) : s \in Upto(n + 1) /\ next[s] = g[s]
    <3> SUFFICES ASSUME NEW s \in Upto(n) PROVE s \in Upto(n + 1) /\ next[s] = g[s]
      OBVIOUS
    <3>1. s \in Upto(n + 1)
      BY <1>1
    <3>2. g[s] = IF s = {} THEN 0 ELSE f[Some(s)] + g[s \ {Some(s)}]
      BY <2>1
    <3>3. QED
      BY <3>1, <3>2
  <2>3. \A s \in Upto(n + 1) : s # {} => s \ {Some(s)} \in Upto(n)
    BY <1>1, <1>2
  <2>4. On(next, n + 1)
    BY <2>2, <2>3
  <2> HIDE DEF On
  <2>5. QED
    BY <2>4
<1> HIDE DEF Reached
<1>5. Nat \subseteq Reached
  BY <1>3, <1>4, NatSetInduction
<1>6. PICK g : On(g, Cardinality(S))
  BY <1>1, <1>5 DEF Reached
<1>7. Upto(Cardinality(S)) = SUBSET S
  BY <1>1, FS_Subset
<1>8. QED
  BY <1>6, <1>7 DEF IsTotal

\* Two such functions agree on the subsets they share.
LEMMA TotalsAgree ==
    ASSUME NEW f, NEW S, IsFiniteSet(S), NEW T \in SUBSET S,
           NEW g, IsTotal(g, f, S), NEW h, IsTotal(h, f, T)
    PROVE  g[T] = h[T]
<1> DEFINE F == {s \in SUBSET T : g[s] = h[s]}
<1>1. ASSUME NEW s \in SUBSET T, \A x \in s : s \ {x} \in F PROVE s \in F
  <2>1. /\ g[s] = IF s = {} THEN 0 ELSE f[Some(s)] + g[s \ {Some(s)}]
        /\ h[s] = IF s = {} THEN 0 ELSE f[Some(s)] + h[s \ {Some(s)}]
    BY DEF IsTotal
  <2>2. s # {} => Some(s) \in s
    BY DEF Some
  <2>3. QED
    BY <1>1, <2>1, <2>2
<1>2. IsFiniteSet(T)
  BY FS_Subset
<1> HIDE DEF F
<1>3. T \in F
  BY <1>1, <1>2, FiniteInduction
<1>4. QED
  BY <1>3 DEF F

\* The sum is the value of such a function.
LEMMA SumIsTotal ==
    ASSUME NEW f, NEW S, IsFiniteSet(S)
    PROVE  \E g : IsTotal(g, f, S) /\ SumFunctionOnSet(f, S) = g[S]
<1>1. SumFunctionOnSet(f, S) = (CHOOSE g : IsTotal(g, f, S))[S]
  BY DEF SumFunctionOnSet, FoldFunctionOnSet, MapThenFoldSet, IsTotal, Some
<1>2. QED
  BY <1>1, TotalExists

LEMMA SumEmpty ==
    ASSUME NEW f
    PROVE  SumFunctionOnSet(f, {}) = 0
<1>1. PICK g : IsTotal(g, f, {}) /\ SumFunctionOnSet(f, {}) = g[{}]
  BY SumIsTotal, FS_EmptySet
<1>2. QED
  BY <1>1 DEF IsTotal

\* The recursion of the sum, at the element it chooses.
LEMMA SumChosen ==
    ASSUME NEW f, NEW S, IsFiniteSet(S), S # {}
    PROVE  SumFunctionOnSet(f, S) = f[Some(S)] + SumFunctionOnSet(f, S \ {Some(S)})
<1>1. PICK g : IsTotal(g, f, S) /\ SumFunctionOnSet(f, S) = g[S]
  BY SumIsTotal
<1>2. IsFiniteSet(S \ {Some(S)})
  BY FS_Subset
<1>3. PICK h : IsTotal(h, f, S \ {Some(S)})
               /\ SumFunctionOnSet(f, S \ {Some(S)}) = h[S \ {Some(S)}]
  BY <1>2, SumIsTotal
<1>4. g[S \ {Some(S)}] = h[S \ {Some(S)}]
  BY <1>1, <1>3, TotalsAgree
<1>5. g[S] = f[Some(S)] + g[S \ {Some(S)}]
  BY <1>1 DEF IsTotal
<1>6. QED
  BY <1>1, <1>3, <1>4, <1>5

\* A sum of integers is an integer.
LEMMA SumIsInt ==
    ASSUME NEW f, NEW S, IsFiniteSet(S), \A x \in S : f[x] \in Int
    PROVE  SumFunctionOnSet(f, S) \in Int
<1> DEFINE F == {T \in SUBSET S : SumFunctionOnSet(f, T) \in Int}
<1>1. ASSUME NEW T \in SUBSET S, \A x \in T : T \ {x} \in F PROVE T \in F
  <2>1. CASE T = {}
    BY <2>1, SumEmpty
  <2>2. CASE T # {}
    <3>1. Some(T) \in T /\ IsFiniteSet(T)
      BY <2>2, FS_Subset DEF Some
    <3>2. SumFunctionOnSet(f, T) = f[Some(T)] + SumFunctionOnSet(f, T \ {Some(T)})
      BY <2>2, <3>1, SumChosen
    <3>3. QED
      BY <1>1, <3>1, <3>2
  <2>3. QED
    BY <2>1, <2>2
<1> HIDE DEF F
<1>2. \A T \in SUBSET S : T \in F
  BY <1>1, FiniteInduction
<1>3. QED
  BY <1>2 DEF F

\* Any element may be taken out of a sum.
LEMMA SumTakesOut ==
    ASSUME NEW f, NEW S, IsFiniteSet(S), \A x \in S : f[x] \in Int, NEW a \in S
    PROVE  SumFunctionOnSet(f, S) = f[a] + SumFunctionOnSet(f, S \ {a})
<1> DEFINE F == {T \in SUBSET S : \A x \in T :
                   SumFunctionOnSet(f, T) = f[x] + SumFunctionOnSet(f, T \ {x})}
<1>1. \A T \in SUBSET S : IsFiniteSet(T) /\ SumFunctionOnSet(f, T) \in Int
  BY FS_Subset, SumIsInt
<1>2. ASSUME NEW T \in SUBSET S, \A x \in T : T \ {x} \in F PROVE T \in F
  <2> SUFFICES ASSUME NEW x \in T
               PROVE  SumFunctionOnSet(f, T) = f[x] + SumFunctionOnSet(f, T \ {x})
    OBVIOUS
  <2>1. PICK c \in T : SumFunctionOnSet(f, T) = f[c] + SumFunctionOnSet(f, T \ {c})
    BY <1>1, SumChosen DEF Some
  <2>2. CASE x = c
    BY <2>1, <2>2
  <2>3. CASE x # c
    <3>1. SumFunctionOnSet(f, T \ {c}) = f[x] + SumFunctionOnSet(f, (T \ {c}) \ {x})
      BY <1>2, <2>3
    <3>2. SumFunctionOnSet(f, T \ {x}) = f[c] + SumFunctionOnSet(f, (T \ {x}) \ {c})
      BY <1>2, <2>3
    <3>3. (T \ {c}) \ {x} = (T \ {x}) \ {c}
      OBVIOUS
    <3>4. f[x] \in Int /\ f[c] \in Int /\ SumFunctionOnSet(f, (T \ {x}) \ {c}) \in Int
      BY <1>1
    <3> DEFINE rest == SumFunctionOnSet(f, (T \ {x}) \ {c})
    <3>5. f[c] + (f[x] + rest) = f[x] + (f[c] + rest)
      BY <3>4
    <3>6. QED
      BY <2>1, <3>1, <3>2, <3>3, <3>5
  <2>4. QED
    BY <2>2, <2>3
<1> HIDE DEF F
<1>3. \A T \in SUBSET S : T \in F
  BY <1>2, FiniteInduction
<1>4. QED
  BY <1>3 DEF F
\* Sums are added pointwise.
LEMMA SumOfSums ==
    ASSUME NEW f, NEW g, NEW h, NEW S, IsFiniteSet(S),
           \A x \in S : f[x] \in Int /\ g[x] \in Int /\ h[x] = f[x] + g[x]
    PROVE  SumFunctionOnSet(h, S) = SumFunctionOnSet(f, S) + SumFunctionOnSet(g, S)
<1> DEFINE F == {T \in SUBSET S : SumFunctionOnSet(h, T)
                                  = SumFunctionOnSet(f, T) + SumFunctionOnSet(g, T)}
<1>1. \A T \in SUBSET S : /\ IsFiniteSet(T)
                          /\ SumFunctionOnSet(f, T) \in Int
                          /\ SumFunctionOnSet(g, T) \in Int
  BY FS_Subset, SumIsInt
<1>2. ASSUME NEW T \in SUBSET S, \A x \in T : T \ {x} \in F PROVE T \in F
  <2>1. CASE T = {}
    BY <2>1, SumEmpty
  <2>2. CASE T # {}
    <3>1. PICK x : x \in T
      BY <2>2
    <3>2. /\ SumFunctionOnSet(f, T) = f[x] + SumFunctionOnSet(f, T \ {x})
          /\ SumFunctionOnSet(g, T) = g[x] + SumFunctionOnSet(g, T \ {x})
          /\ SumFunctionOnSet(h, T) = h[x] + SumFunctionOnSet(h, T \ {x})
      <4>1. \A y \in T : f[y] \in Int /\ g[y] \in Int /\ h[y] \in Int
        OBVIOUS
      <4>2. QED
        BY <1>1, <3>1, <4>1, SumTakesOut
    <3>3. SumFunctionOnSet(h, T \ {x})
          = SumFunctionOnSet(f, T \ {x}) + SumFunctionOnSet(g, T \ {x})
      BY <1>2, <3>1
    <3>4. /\ SumFunctionOnSet(f, T \ {x}) \in Int
          /\ SumFunctionOnSet(g, T \ {x}) \in Int
          /\ f[x] \in Int /\ g[x] \in Int /\ h[x] = f[x] + g[x]
      BY <1>1, <3>1
    <3>5. QED
      BY <3>2, <3>3, <3>4
  <2>3. QED
    BY <2>1, <2>2
<1> HIDE DEF F
<1>3. \A T \in SUBSET S : T \in F
  BY <1>2, FiniteInduction
<1>4. QED
  BY <1>3 DEF F

\* A sum of naturals is a natural.
LEMMA SumIsNat ==
    ASSUME NEW f, NEW S, IsFiniteSet(S), \A x \in S : f[x] \in Nat
    PROVE  SumFunctionOnSet(f, S) \in Nat
<1> DEFINE F == {T \in SUBSET S : SumFunctionOnSet(f, T) \in Nat}
<1>1. ASSUME NEW T \in SUBSET S, \A x \in T : T \ {x} \in F PROVE T \in F
  <2>1. CASE T = {}
    BY <2>1, SumEmpty
  <2>2. CASE T # {}
    <3>1. PICK x : x \in T
      BY <2>2
    <3>2. SumFunctionOnSet(f, T) = f[x] + SumFunctionOnSet(f, T \ {x})
      BY <3>1, FS_Subset, SumTakesOut
    <3>3. SumFunctionOnSet(f, T \ {x}) \in Nat /\ f[x] \in Nat
      BY <1>1, <3>1
    <3>4. QED
      BY <3>2, <3>3
  <2>3. QED
    BY <2>1, <2>2
<1> HIDE DEF F
<1>2. \A T \in SUBSET S : T \in F
  BY <1>1, FiniteInduction
<1>3. QED
  BY <1>2 DEF F

\* A sum of zeros is zero.
LEMMA SumOfZeros ==
    ASSUME NEW f, NEW S, IsFiniteSet(S), \A x \in S : f[x] = 0
    PROVE  SumFunctionOnSet(f, S) = 0
<1>1. SumFunctionOnSet(f, S) = SumFunctionOnSet(f, S) + SumFunctionOnSet(f, S)
  BY SumOfSums
<1>2. SumFunctionOnSet(f, S) \in Int
  BY SumIsInt
<1>3. \A n \in Int : n = n + n => n = 0
  OBVIOUS
<1>4. QED
  BY <1>1, <1>2, <1>3

\* Functions that agree on S have the same sum.
LEMMA SumAgrees ==
    ASSUME NEW f, NEW g, NEW S, IsFiniteSet(S),
           \A x \in S : f[x] \in Int /\ g[x] = f[x]
    PROVE  SumFunctionOnSet(g, S) = SumFunctionOnSet(f, S)
<1> DEFINE zero == [x \in S |-> 0]
<1>1. SumFunctionOnSet(zero, S) = 0
  BY SumOfZeros
<1>2. \A x \in S : zero[x] \in Int /\ g[x] = f[x] + zero[x]
  OBVIOUS
<1> HIDE DEF zero
<1>3. SumFunctionOnSet(g, S) = SumFunctionOnSet(f, S) + SumFunctionOnSet(zero, S)
  BY <1>2, SumOfSums
<1>4. SumFunctionOnSet(f, S) \in Int
  BY SumIsInt
<1>5. QED
  BY <1>1, <1>3, <1>4

\* What one element changes.
LEMMA SumChanges ==
    ASSUME NEW f, NEW g, NEW S, IsFiniteSet(S), NEW a \in S, g[a] \in Int,
           \A x \in S : f[x] \in Int /\ (x # a => g[x] = f[x])
    PROVE  SumFunctionOnSet(g, S) = SumFunctionOnSet(f, S) + (g[a] - f[a])
<1>1. IsFiniteSet(S \ {a})
  BY FS_Subset
<1>2. SumFunctionOnSet(f, S) = f[a] + SumFunctionOnSet(f, S \ {a})
  BY SumTakesOut
<1>3. SumFunctionOnSet(g, S) = g[a] + SumFunctionOnSet(g, S \ {a})
  <2>1. \A x \in S : g[x] \in Int
    OBVIOUS
  <2>2. QED
    BY <2>1, SumTakesOut
<1>4. SumFunctionOnSet(g, S \ {a}) = SumFunctionOnSet(f, S \ {a})
  BY <1>1, SumAgrees
<1>5. SumFunctionOnSet(f, S \ {a}) \in Int
  BY <1>1, SumIsInt
<1>6. QED
  BY <1>2, <1>3, <1>4, <1>5

\* The sum of a single amount.
LEMMA SumOfOne ==
    ASSUME NEW f, NEW S, IsFiniteSet(S), NEW a \in S, f[a] \in Int,
           \A x \in S : x # a => f[x] = 0
    PROVE  SumFunctionOnSet(f, S) = f[a]
<1>1. \A x \in S : f[x] \in Int
  OBVIOUS
<1>2. SumFunctionOnSet(f, S) = f[a] + SumFunctionOnSet(f, S \ {a})
  BY <1>1, SumTakesOut
<1>3. IsFiniteSet(S \ {a}) /\ \A x \in S \ {a} : f[x] = 0
  BY FS_Subset
<1>4. SumFunctionOnSet(f, S \ {a}) = 0
  BY <1>3, SumOfZeros
<1>5. QED
  BY <1>2, <1>4

\* The sum over two sets that have nothing in common.
LEMMA SumOverUnion ==
    ASSUME NEW f, NEW S, NEW T, IsFiniteSet(S), IsFiniteSet(T), S \cap T = {},
           \A x \in S \cup T : f[x] \in Int
    PROVE  SumFunctionOnSet(f, S \cup T) = SumFunctionOnSet(f, S) + SumFunctionOnSet(f, T)
<1> DEFINE F == {U \in SUBSET T : SumFunctionOnSet(f, S \cup U)
                                  = SumFunctionOnSet(f, S) + SumFunctionOnSet(f, U)}
<1>1. ASSUME NEW U \in SUBSET T, \A x \in U : U \ {x} \in F PROVE U \in F
  <2>0. IsFiniteSet(U) /\ IsFiniteSet(S \cup U) /\ SumFunctionOnSet(f, S) \in Int
    BY FS_Subset, FS_Union, SumIsInt
  <2>1. CASE U = {}
    <3>1. S \cup U = S
      BY <2>1
    <3>2. QED
      BY <2>0, <2>1, <3>1, SumEmpty
  <2>2. CASE U # {}
    <3>1. PICK x : x \in U
      BY <2>2
    <3>2. SumFunctionOnSet(f, U) = f[x] + SumFunctionOnSet(f, U \ {x})
      BY <2>0, <3>1, SumTakesOut
    <3>3. SumFunctionOnSet(f, S \cup U) = f[x] + SumFunctionOnSet(f, (S \cup U) \ {x})
      BY <2>0, <3>1, SumTakesOut
    <3>4. (S \cup U) \ {x} = S \cup (U \ {x})
      BY <3>1
    <3>5. SumFunctionOnSet(f, S \cup (U \ {x}))
          = SumFunctionOnSet(f, S) + SumFunctionOnSet(f, U \ {x})
      BY <1>1, <3>1
    <3>6. f[x] \in Int /\ SumFunctionOnSet(f, U \ {x}) \in Int
      BY <2>0, <3>1, FS_Subset, SumIsInt
    <3> DEFINE rest == SumFunctionOnSet(f, U \ {x})
    <3>7. f[x] + (SumFunctionOnSet(f, S) + rest) = SumFunctionOnSet(f, S) + (f[x] + rest)
      BY <2>0, <3>6
    <3>8. SumFunctionOnSet(f, S \cup U) = f[x] + (SumFunctionOnSet(f, S) + rest)
      BY <3>3, <3>4, <3>5
    <3> HIDE DEF rest
    <3>9. SumFunctionOnSet(f, S \cup U) = SumFunctionOnSet(f, S) + SumFunctionOnSet(f, U)
      BY <3>2, <3>7, <3>8 DEF rest
    <3>10. QED
      BY <3>9
  <2>3. QED
    BY <2>1, <2>2
<1> HIDE DEF F
<1>2. \A U \in SUBSET T : U \in F
  BY <1>1, FiniteInduction
<1>3. QED
  BY <1>2 DEF F

\* More terms, and greater ones, make a greater sum.
LEMMA SumGrows ==
    ASSUME NEW f, NEW g, NEW S, IsFiniteSet(S), NEW T \in SUBSET S,
           \A x \in T : f[x] \in Int /\ f[x] <= g[x],
           \A x \in S : g[x] \in Int, \A x \in S \ T : 0 <= g[x]
    PROVE  SumFunctionOnSet(f, T) <= SumFunctionOnSet(g, S)
<1> DEFINE more == [x \in S |-> IF x \in T THEN g[x] - f[x] ELSE g[x]]
           less == [x \in S |-> IF x \in T THEN f[x] ELSE 0]
<1>1. \A x \in S : more[x] \in Nat
  OBVIOUS
<1>2. \A x \in S : less[x] \in Int /\ more[x] \in Int /\ g[x] = less[x] + more[x]
  OBVIOUS
<1>3. SumFunctionOnSet(less, S) = SumFunctionOnSet(f, T)
  <2>1. IsFiniteSet(T) /\ IsFiniteSet(S \ T) /\ T \cap (S \ T) = {} /\ T \cup (S \ T) = S
    BY FS_Subset
  <2>2. \A x \in T : f[x] \in Int /\ less[x] = f[x]
    OBVIOUS
  <2>3. \A x \in S \ T : less[x] = 0
    OBVIOUS
  <2>4. \A x \in T \cup (S \ T) : less[x] \in Int
    BY <1>2
  <2> HIDE DEF less
  <2>5. SumFunctionOnSet(less, T) = SumFunctionOnSet(f, T)
    BY <2>1, <2>2, SumAgrees
  <2>6. SumFunctionOnSet(less, S \ T) = 0
    BY <2>1, <2>3, SumOfZeros
  <2>7. SumFunctionOnSet(less, T \cup (S \ T))
        = SumFunctionOnSet(less, T) + SumFunctionOnSet(less, S \ T)
    BY <2>1, <2>4, SumOverUnion
  <2>8. SumFunctionOnSet(f, T) \in Int
    BY <2>1, SumIsInt
  <2>9. SumFunctionOnSet(less, S) = SumFunctionOnSet(f, T) + 0
    BY <2>1, <2>5, <2>6, <2>7
  <2>10. QED
    BY <2>8, <2>9
<1> HIDE DEF more, less
<1>4. SumFunctionOnSet(g, S) = SumFunctionOnSet(less, S) + SumFunctionOnSet(more, S)
  BY <1>2, SumOfSums
<1>5. SumFunctionOnSet(more, S) \in Nat /\ SumFunctionOnSet(less, S) \in Int
  BY <1>1, <1>2, SumIsNat, SumIsInt
<1>6. QED
  BY <1>3, <1>4, <1>5
\* One more element adds its term.
LEMMA SumGains ==
    ASSUME NEW f, NEW g, NEW T, IsFiniteSet(T), NEW a, a \notin T, g[a] \in Int,
           \A x \in T : f[x] \in Int /\ g[x] = f[x]
    PROVE  SumFunctionOnSet(g, T \cup {a}) = SumFunctionOnSet(f, T) + g[a]
<1>1. IsFiniteSet(T \cup {a}) /\ a \in T \cup {a} /\ (T \cup {a}) \ {a} = T
  BY FS_AddElement
<1>2. \A x \in T \cup {a} : g[x] \in Int
  OBVIOUS
<1>3. SumFunctionOnSet(g, T \cup {a}) = g[a] + SumFunctionOnSet(g, T)
  BY <1>1, <1>2, SumTakesOut
<1>4. SumFunctionOnSet(g, T) = SumFunctionOnSet(f, T) /\ SumFunctionOnSet(f, T) \in Int
  BY SumAgrees, SumIsInt
<1>5. QED
  BY <1>3, <1>4

\* A sum over fewer and smaller terms that is as great leaves nothing out.
LEMMA SumLeavesNothingOut ==
    ASSUME NEW f, NEW g, NEW S, IsFiniteSet(S), NEW T \in SUBSET S,
           \A x \in T : f[x] \in Int /\ f[x] <= g[x],
           \A x \in S : g[x] \in Nat,
           SumFunctionOnSet(g, S) <= SumFunctionOnSet(f, T)
    PROVE  /\ \A x \in T : f[x] = g[x]
           /\ \A x \in S \ T : g[x] = 0
<1>1. IsFiniteSet(T) /\ \A a \in S : IsFiniteSet(S \ {a}) /\ IsFiniteSet(T \ {a})
  BY FS_Subset
<1>2. ASSUME NEW a \in S
      PROVE  /\ SumFunctionOnSet(g, S) = g[a] + SumFunctionOnSet(g, S \ {a})
             /\ SumFunctionOnSet(f, T \ {a}) <= SumFunctionOnSet(g, S \ {a})
             /\ SumFunctionOnSet(g, S \ {a}) \in Int
             /\ SumFunctionOnSet(f, T \ {a}) \in Int
  <2>1. /\ T \ {a} \in SUBSET (S \ {a})
        /\ \A x \in T \ {a} : f[x] \in Int /\ f[x] <= g[x]
        /\ \A x \in S \ {a} : g[x] \in Int
        /\ \A x \in (S \ {a}) \ (T \ {a}) : 0 <= g[x]
        /\ \A x \in S : g[x] \in Int
    OBVIOUS
  <2>2. SumFunctionOnSet(f, T \ {a}) <= SumFunctionOnSet(g, S \ {a})
    BY <1>1, <2>1, SumGrows
  <2>3. SumFunctionOnSet(g, S) = g[a] + SumFunctionOnSet(g, S \ {a})
    BY <2>1, SumTakesOut
  <2>4. SumFunctionOnSet(g, S \ {a}) \in Int /\ SumFunctionOnSet(f, T \ {a}) \in Int
    BY <1>1, <2>1, SumIsInt
  <2>5. QED
    BY <2>2, <2>3, <2>4
<1> DEFINE all == SumFunctionOnSet(g, S)
           part == SumFunctionOnSet(f, T)
<1> HIDE DEF all, part
<1>2a. part \in Int /\ all \in Int /\ all <= part
  BY <1>1, SumIsInt DEF all, part
<1>3. ASSUME NEW a \in T PROVE f[a] = g[a]
  <2>1. SumFunctionOnSet(f, T) = f[a] + SumFunctionOnSet(f, T \ {a})
    BY <1>1, SumTakesOut
  <2>2. f[a] \in Int /\ g[a] \in Int /\ f[a] <= g[a] /\ a \in S
    OBVIOUS
  <2> DEFINE allRest == SumFunctionOnSet(g, S \ {a})
             partRest == SumFunctionOnSet(f, T \ {a})
  <2> HIDE DEF allRest, partRest
  <2>3. /\ all = g[a] + allRest /\ part = f[a] + partRest /\ partRest <= allRest
        /\ allRest \in Int /\ partRest \in Int
    BY <1>2, <2>1, <2>2 DEF all, part, allRest, partRest
  <2>4. QED
    BY <1>2a, <2>2, <2>3
<1>4. ASSUME NEW a \in S \ T PROVE g[a] = 0
  <2> DEFINE allRest == SumFunctionOnSet(g, S \ {a})
  <2> HIDE DEF allRest
  <2>1. T \ {a} = T /\ g[a] \in Nat
    OBVIOUS
  <2>2. all = g[a] + allRest /\ allRest \in Int /\ part <= allRest
    BY <1>2, <2>1 DEF all, part, allRest
  <2>3. QED
    BY <1>2a, <2>1, <2>2
<1>5. QED
  BY <1>3, <1>4

(***************************************************************************)
(* Products.                                                               *)
(***************************************************************************)
LEMMA ProductGrows ==
    ASSUME NEW a \in Int, NEW b \in Int, NEW c \in Nat, a <= b
    PROVE  a * c <= b * c /\ c * a <= c * b
OBVIOUS
=============================================================================
