------------------------------ MODULE SumFacts ------------------------------
(***************************************************************************)
(* Sums over finite sets.  The books of the account service, of recharge    *)
(* and of withdrawals are stated with SumFunctionOnSet, a fold that is      *)
(* defined by recursion on the set; these lemmas say what it computes, so    *)
(* that proofs about the books never look into the recursion.  The library's *)
(* induction theorems take an operator as a parameter and cannot be cited;   *)
(* induction is done here with its minimal-element theorem, whose parameter  *)
(* is a set.                                                                 *)
(***************************************************************************)
EXTENDS Functions, Integers, FiniteSetTheorems, TLAPS

\* A set of finite sets has a minimal one.
LEMMA MinimalSubset ==
    ASSUME NEW S, NEW B, B \subseteq FiniteSubsetsOf(S), B # {}
    PROVE  \E T \in B : \A U \in B : <<U, T>> \notin StrictSubsetOrdering(S)
  <1>1. IsWellFoundedOn(StrictSubsetOrdering(S), FiniteSubsetsOf(S))
    BY FS_StrictSubsetOrderingWellFounded
  <1>2. QED BY <1>1, WFMin, Zenon

\* Induction over the subsets of a finite set, the property given as the set of
\* the subsets that have it.
LEMMA SubsetInduction ==
    ASSUME NEW S, IsFiniteSet(S), NEW P,
           \A T \in SUBSET S :
              (\A U \in SUBSET T : U # T => U \in P) => T \in P
    PROVE  \A T \in SUBSET S : T \in P
  <1> DEFINE Bad == {T \in SUBSET S : T \notin P}
  <1>1. SUFFICES ASSUME Bad # {} PROVE FALSE
    OBVIOUS
  <1>2. Bad \subseteq FiniteSubsetsOf(S)
    BY FS_Subset DEF FiniteSubsetsOf
  <1>3. PICK T \in Bad : \A U \in Bad : <<U, T>> \notin StrictSubsetOrdering(S)
    <2> HIDE DEF Bad
    <2>1. QED BY <1>1, <1>2, MinimalSubset
  <1>4. ASSUME NEW U \in SUBSET T, U # T PROVE U \in P
    <2>1. <<U, T>> \in StrictSubsetOrdering(S)
      BY <1>3, <1>4 DEF StrictSubsetOrdering
    <2>2. QED BY <1>3, <1>4, <2>1
  <1>5. QED BY <1>3, <1>4

-----------------------------------------------------------------------------
\* A function on the subsets of S that does what the fold does.
Sums(f, S, g) ==
    g = [s \in SUBSET S |-> IF s = {} THEN 0
                            ELSE f[CHOOSE x \in s : TRUE] + g[s \ {CHOOSE x \in s : TRUE}]]

LEMMA SumIsChosen ==
    ASSUME NEW f, NEW S
    PROVE  SumFunctionOnSet(f, S) = (CHOOSE g : Sums(f, S, g))[S]
  BY Zenon DEF SumFunctionOnSet, FoldFunctionOnSet, MapThenFoldSet, Sums

\* Two of them agree where both are defined.
LEMMA SumsAgree ==
    ASSUME NEW f, NEW S, NEW T, NEW g, NEW h, Sums(f, S, g), Sums(f, T, h),
           NEW U, U \subseteq S, U \subseteq T, IsFiniteSet(U)
    PROVE  g[U] = h[U]
  <1> DEFINE P == {s \in SUBSET U : g[s] = h[s]}
  <1>1. ASSUME NEW s \in SUBSET U, \A r \in SUBSET s : r # s => r \in P
        PROVE  s \in P
    <2>1. s \in SUBSET S /\ s \in SUBSET T
      OBVIOUS
    <2>2. CASE s = {}
      BY <2>1, <2>2 DEF Sums
    <2>3. CASE s # {}
      <3> DEFINE c == CHOOSE x \in s : TRUE
      <3>1. c \in s
        BY <2>3
      <3>2. g[s \ {c}] = h[s \ {c}]
        BY <1>1, <3>1
      <3>3. g[s] = f[c] + g[s \ {c}] /\ h[s] = f[c] + h[s \ {c}]
        BY <2>1, <2>3, Zenon DEF Sums
      <3>4. QED BY <3>2, <3>3
    <2>4. QED BY <2>2, <2>3
  <1>2. \A s \in SUBSET U : s \in P
    <2> HIDE DEF P
    <2>1. QED BY <1>1, SubsetInduction
  <1>3. QED BY <1>2

\* A part of one is one.
LEMMA SumsRestrict ==
    ASSUME NEW f, NEW S, NEW g, Sums(f, S, g), NEW T \in SUBSET S
    PROVE  Sums(f, T, [s \in SUBSET T |-> g[s]])
  <1> DEFINE h == [s \in SUBSET T |-> g[s]]
             c(s) == CHOOSE x \in s : TRUE
  <1>1. ASSUME NEW s \in SUBSET T
        PROVE  h[s] = IF s = {} THEN 0 ELSE f[c(s)] + h[s \ {c(s)}]
    <2>1. g[s] = IF s = {} THEN 0 ELSE f[c(s)] + g[s \ {c(s)}]
      BY DEF Sums
    <2>2. h[s] = g[s] /\ h[s \ {c(s)}] = g[s \ {c(s)}]
      OBVIOUS
    <2>3. QED BY <2>1, <2>2
  <1>2. QED BY <1>1 DEF Sums

\* There is one for every finite set.
LEMMA SumsExist ==
    ASSUME NEW f, NEW S, IsFiniteSet(S)
    PROVE  \E g : Sums(f, S, g)
  <1> DEFINE P == {T \in SUBSET S : \E g : Sums(f, T, g)}
  <1>1. ASSUME NEW T \in SUBSET S, \A U \in SUBSET T : U # T => U \in P
        PROVE  T \in P
    <2> DEFINE c(s) == CHOOSE x \in s : TRUE
               of(s) == CHOOSE g : Sums(f, s, g)
               g == [s \in SUBSET T |-> IF s = T /\ s # {}
                                        THEN f[c(s)] + of(s \ {c(s)})[s \ {c(s)}]
                                        ELSE IF s = {} THEN 0 ELSE of(s)[s]]
    <2>1. \A s \in SUBSET T : s # T => Sums(f, s, of(s))
      BY <1>1
    <2>2. ASSUME NEW s \in SUBSET T
          PROVE  g[s] = IF s = {} THEN 0 ELSE f[c(s)] + g[s \ {c(s)}]
      <3>1. CASE s = {}
        BY <3>1
      <3>2. CASE s # {}
        <4> DEFINE r == s \ {c(s)}
        <4>1. c(s) \in s
          BY <3>2
        <4>2. r \in SUBSET T /\ r # T /\ r # s /\ r \in SUBSET s
          BY <4>1
        <4>3. Sums(f, r, of(r))
          BY <2>1, <4>2
        <4>4. g[r] = of(r)[r]
          <5>1. CASE r = {}
            <6>1. of(r)[r] = 0
              BY <4>3, <5>1 DEF Sums
            <6>2. QED BY <6>1, <4>2, <5>1
          <5>2. CASE r # {}
            BY <4>2, <5>2
          <5>3. QED BY <5>1, <5>2
        <4>5. CASE s = T
          <5>1. g[s] = f[c(s)] + of(r)[r]
            BY <3>2, <4>5
          <5>2. QED BY <3>2, <4>4, <5>1
        <4>6. CASE s # T
          <5>1. Sums(f, s, of(s))
            BY <2>1, <4>6
          <5>2. of(s)[s] = f[c(s)] + of(s)[r]
            BY <3>2, <5>1, Zenon DEF Sums
          <5>3. IsFiniteSet(r)
            BY FS_Subset
          <5>4. of(s)[r] = of(r)[r]
            BY <4>2, <4>3, <5>1, <5>3, SumsAgree
          <5>5. g[s] = of(s)[s]
            BY <3>2, <4>6
          <5>6. QED BY <3>2, <4>4, <5>2, <5>4, <5>5
        <4>7. QED BY <4>5, <4>6
      <3>3. QED BY <3>1, <3>2
    <2>3. g = [s \in SUBSET T |-> IF s = {} THEN 0 ELSE f[c(s)] + g[s \ {c(s)}]]
      <3>1. g = [s \in SUBSET T |-> g[s]]
        OBVIOUS
      <3> HIDE DEF g, c
      <3>2. QED BY <2>2, <3>1
    <2>4. Sums(f, T, g)
      <3> HIDE DEF g
      <3>1. QED BY <2>3, Zenon DEF Sums
    <2>5. QED BY <2>4
  <1>2. \A T \in SUBSET S : T \in P
    <2> HIDE DEF P
    <2>1. QED BY <1>1, SubsetInduction
  <1>3. QED BY <1>2

\* The sum over a finite set takes one element off, the fold's choice.
LEMMA SumUnfolds ==
    ASSUME NEW f, NEW S, IsFiniteSet(S)
    PROVE  SumFunctionOnSet(f, S) =
              IF S = {} THEN 0
              ELSE f[CHOOSE x \in S : TRUE]
                   + SumFunctionOnSet(f, S \ {CHOOSE x \in S : TRUE})
  <1> DEFINE c == CHOOSE x \in S : TRUE
             r == S \ {c}
             of(s) == CHOOSE g : Sums(f, s, g)
  <1>1. IsFiniteSet(r)
    BY FS_Subset
  <1>2. Sums(f, S, of(S)) /\ Sums(f, r, of(r))
    BY <1>1, SumsExist
  <1>3. SumFunctionOnSet(f, S) = of(S)[S] /\ SumFunctionOnSet(f, r) = of(r)[r]
    BY SumIsChosen
  <1>4. of(S)[r] = of(r)[r]
    <2> HIDE DEF of
    <2>1. QED BY <1>1, <1>2, SumsAgree
  <1>5. of(S)[S] = IF S = {} THEN 0 ELSE f[c] + of(S)[r]
    <2> HIDE DEF of
    <2>1. QED BY <1>2, Zenon DEF Sums
  <1>6. QED BY <1>3, <1>4, <1>5, Zenon

LEMMA SumEmpty ==
    ASSUME NEW f
    PROVE  SumFunctionOnSet(f, {}) = 0
  BY FS_EmptySet, SumUnfolds

\* A sum of integers is an integer.
LEMMA SumInt ==
    ASSUME NEW f, NEW S, IsFiniteSet(S), \A x \in S : f[x] \in Int
    PROVE  SumFunctionOnSet(f, S) \in Int
  <1> DEFINE P == {T \in SUBSET S : SumFunctionOnSet(f, T) \in Int}
  <1>1. ASSUME NEW T \in SUBSET S, \A U \in SUBSET T : U # T => U \in P
        PROVE  T \in P
    <2> DEFINE c == CHOOSE x \in T : TRUE
    <2>1. IsFiniteSet(T)
      BY FS_Subset
    <2>2. CASE T = {}
      BY <2>2, SumEmpty
    <2>3. CASE T # {}
      <3>1. c \in T
        BY <2>3
      <3>2. SumFunctionOnSet(f, T) = f[c] + SumFunctionOnSet(f, T \ {c})
        BY <2>1, <2>3, SumUnfolds
      <3>3. SumFunctionOnSet(f, T \ {c}) \in Int /\ f[c] \in Int
        BY <1>1, <3>1
      <3>4. QED BY <3>2, <3>3
    <2>4. QED BY <2>2, <2>3
  <1>2. \A T \in SUBSET S : T \in P
    <2> HIDE DEF P
    <2>1. QED BY <1>1, SubsetInduction
  <1>3. QED BY <1>2

\* A sum of natural numbers is one.
LEMMA SumNat ==
    ASSUME NEW f, NEW S, IsFiniteSet(S), \A x \in S : f[x] \in Nat
    PROVE  SumFunctionOnSet(f, S) \in Nat
  <1> DEFINE P == {T \in SUBSET S : SumFunctionOnSet(f, T) \in Nat}
  <1>1. ASSUME NEW T \in SUBSET S, \A U \in SUBSET T : U # T => U \in P
        PROVE  T \in P
    <2> DEFINE c == CHOOSE x \in T : TRUE
    <2>1. IsFiniteSet(T)
      BY FS_Subset
    <2>2. CASE T = {}
      BY <2>2, SumEmpty
    <2>3. CASE T # {}
      <3>1. c \in T
        BY <2>3
      <3>2. SumFunctionOnSet(f, T) = f[c] + SumFunctionOnSet(f, T \ {c})
        BY <2>1, <2>3, SumUnfolds
      <3>3. SumFunctionOnSet(f, T \ {c}) \in Nat /\ f[c] \in Nat
        BY <1>1, <3>1
      <3>4. QED BY <3>2, <3>3
    <2>4. QED BY <2>2, <2>3
  <1>2. \A T \in SUBSET S : T \in P
    <2> HIDE DEF P
    <2>1. QED BY <1>1, SubsetInduction
  <1>3. QED BY <1>2

\* Any element may be taken off, not only the fold's choice.
LEMMA SumTakeOff ==
    ASSUME NEW f, NEW S, IsFiniteSet(S), \A x \in S : f[x] \in Int,
           NEW e \in S
    PROVE  SumFunctionOnSet(f, S) = f[e] + SumFunctionOnSet(f, S \ {e})
  <1> DEFINE Total(T) == SumFunctionOnSet(f, T)
             P == {T \in SUBSET S : \A x \in T : Total(T) = f[x] + Total(T \ {x})}
  <1>1. ASSUME NEW T \in SUBSET S, \A U \in SUBSET T : U # T => U \in P
        PROVE  T \in P
    <2> SUFFICES ASSUME NEW x \in T PROVE Total(T) = f[x] + Total(T \ {x})
      OBVIOUS
    <2> DEFINE c == CHOOSE y \in T : TRUE
    <2>1. IsFiniteSet(T) /\ IsFiniteSet(T \ {x}) /\ IsFiniteSet((T \ {c}) \ {x})
      BY FS_Subset
    <2>2. c \in T
      OBVIOUS
    <2>3. Total(T) = f[c] + Total(T \ {c})
      BY <2>1, SumUnfolds
    <2>4. CASE x = c
      BY <2>3, <2>4
    <2>5. CASE x # c
      <3>1. Total(T \ {c}) = f[x] + Total((T \ {c}) \ {x})
        BY <1>1, <2>2, <2>5
      <3>2. Total(T \ {x}) = f[c] + Total((T \ {x}) \ {c})
        BY <1>1, <2>2, <2>5
      <3>3. (T \ {c}) \ {x} = (T \ {x}) \ {c}
        OBVIOUS
      <3>4. f[x] \in Int /\ f[c] \in Int /\ Total((T \ {c}) \ {x}) \in Int
        BY <2>1, <2>2, SumInt
      <3> DEFINE l == f[x]
                 m == f[c]
                 n == Total((T \ {c}) \ {x})
                 all == Total(T)
                 rest == Total(T \ {x})
      <3>5. all = m + (l + n)
        BY <2>3, <3>1, Zenon
      <3>6. rest = m + n
        BY <3>2, <3>3, Zenon
      <3>7. l \in Int /\ m \in Int /\ n \in Int
        BY <3>4
      <3> HIDE DEF l, m, n, all, rest
      <3>8. all = l + rest
        BY <3>5, <3>6, <3>7
      <3> USE DEF l, all, rest
      <3>9. QED BY <3>8, Zenon
    <2>6. QED BY <2>4, <2>5
  <1>2. \A T \in SUBSET S : T \in P
    <2> HIDE DEF P
    <2>1. QED BY <1>1, SubsetInduction
  <1>3. QED BY <1>2

\* An element more adds its value.
LEMMA SumPutIn ==
    ASSUME NEW f, NEW S, IsFiniteSet(S), NEW e, e \notin S,
           \A x \in S \cup {e} : f[x] \in Int
    PROVE  SumFunctionOnSet(f, S \cup {e}) = SumFunctionOnSet(f, S) + f[e]
  <1>1. IsFiniteSet(S \cup {e})
    BY FS_AddElement
  <1>2. SumFunctionOnSet(f, S \cup {e}) = f[e] + SumFunctionOnSet(f, (S \cup {e}) \ {e})
    BY <1>1, SumTakeOff
  <1>3. (S \cup {e}) \ {e} = S
    OBVIOUS
  <1>4. SumFunctionOnSet(f, S) \in Int /\ f[e] \in Int
    BY SumInt
  <1>5. SumFunctionOnSet(f, S \cup {e}) = f[e] + SumFunctionOnSet(f, S)
    BY <1>2, <1>3, Zenon
  <1>6. \A m, n \in Int : m + n = n + m
    OBVIOUS
  <1>7. QED BY <1>4, <1>5, <1>6, Zenon

\* A sum depends on the values only.
LEMMA SumSame ==
    ASSUME NEW f, NEW g, NEW S, IsFiniteSet(S), \A x \in S : f[x] = g[x]
    PROVE  SumFunctionOnSet(f, S) = SumFunctionOnSet(g, S)
  <1> DEFINE P == {T \in SUBSET S : SumFunctionOnSet(f, T) = SumFunctionOnSet(g, T)}
  <1>1. ASSUME NEW T \in SUBSET S, \A U \in SUBSET T : U # T => U \in P
        PROVE  T \in P
    <2> DEFINE c == CHOOSE x \in T : TRUE
    <2>1. IsFiniteSet(T)
      BY FS_Subset
    <2>2. CASE T = {}
      BY <2>2, SumEmpty
    <2>3. CASE T # {}
      <3>1. c \in T
        BY <2>3
      <3>2. /\ SumFunctionOnSet(f, T) = f[c] + SumFunctionOnSet(f, T \ {c})
            /\ SumFunctionOnSet(g, T) = g[c] + SumFunctionOnSet(g, T \ {c})
        BY <2>1, <2>3, SumUnfolds
      <3>3. SumFunctionOnSet(f, T \ {c}) = SumFunctionOnSet(g, T \ {c}) /\ f[c] = g[c]
        BY <1>1, <3>1
      <3>4. QED BY <3>2, <3>3
    <2>4. QED BY <2>2, <2>3
  <1>2. \A T \in SUBSET S : T \in P
    <2> HIDE DEF P
    <2>1. QED BY <1>1, SubsetInduction
  <1>3. QED BY <1>2

\* Another value for one element changes the sum by the difference.
LEMMA SumChange ==
    ASSUME NEW f, NEW g, NEW S, IsFiniteSet(S), NEW e \in S,
           \A x \in S : f[x] \in Int /\ g[x] \in Int,
           \A x \in S : x # e => f[x] = g[x]
    PROVE  SumFunctionOnSet(g, S) = SumFunctionOnSet(f, S) - f[e] + g[e]
  <1>1. IsFiniteSet(S \ {e})
    BY FS_Subset
  <1>2. SumFunctionOnSet(f, S \ {e}) = SumFunctionOnSet(g, S \ {e})
    BY <1>1, SumSame
  <1>3. SumFunctionOnSet(f, S) = f[e] + SumFunctionOnSet(f, S \ {e})
    BY SumTakeOff
  <1>4. SumFunctionOnSet(g, S) = g[e] + SumFunctionOnSet(g, S \ {e})
    BY SumTakeOff
  <1>5. SumFunctionOnSet(f, S \ {e}) \in Int
    BY <1>1, SumInt
  <1>6. f[e] \in Int /\ g[e] \in Int
    OBVIOUS
  <1>7. QED BY <1>2, <1>3, <1>4, <1>5, <1>6

\* A sum over two sets without a common element is the sum of their sums.
LEMMA SumDisjoint ==
    ASSUME NEW f, NEW S, IsFiniteSet(S), NEW T, IsFiniteSet(T), S \cap T = {},
           \A x \in S \cup T : f[x] \in Int
    PROVE  SumFunctionOnSet(f, S \cup T) = SumFunctionOnSet(f, S) + SumFunctionOnSet(f, T)
  <1> DEFINE Total(U) == SumFunctionOnSet(f, U)
             P == {U \in SUBSET T : Total(S \cup U) = Total(S) + Total(U)}
  <1>0. Total(S) \in Int
    BY SumInt
  <1>1. ASSUME NEW V \in SUBSET T, \A U \in SUBSET V : U # V => U \in P
        PROVE  V \in P
    <2>1. IsFiniteSet(V) /\ IsFiniteSet(S \cup V)
      BY FS_Subset, FS_Union
    <2>2. CASE V = {}
      <3>1. S \cup V = S /\ Total(V) = 0
        BY <2>2, SumEmpty
      <3>2. \A n \in Int : n = n + 0
        OBVIOUS
      <3>3. Total(S \cup V) = Total(S) + Total(V)
        BY <1>0, <3>1, <3>2, Zenon
      <3>4. QED BY <3>3
    <2>3. CASE V # {}
      <3>1. PICK c \in V : TRUE
        BY <2>3
      <3>2. (S \cup V) \ {c} = S \cup (V \ {c})
        BY <3>1
      <3>3. Total(S \cup V) = f[c] + Total(S \cup (V \ {c}))
        BY <2>1, <3>1, <3>2, SumTakeOff
      <3>4. Total(V) = f[c] + Total(V \ {c})
        BY <2>1, <3>1, SumTakeOff
      <3>5. Total(S \cup (V \ {c})) = Total(S) + Total(V \ {c})
        BY <1>1, <3>1
      <3>6. f[c] \in Int /\ Total(V \ {c}) \in Int
        <4>1. IsFiniteSet(V \ {c})
          BY <2>1, FS_Subset
        <4>2. QED BY <3>1, <4>1, SumInt
      <3> DEFINE l == f[c]
                 m == Total(S)
                 n == Total(V \ {c})
                 all == Total(S \cup V)
                 rest == Total(V)
      <3>7. all = l + (m + n) /\ rest = l + n
        BY <3>3, <3>4, <3>5, Zenon
      <3>8. l \in Int /\ m \in Int /\ n \in Int
        BY <1>0, <3>6
      <3> HIDE DEF l, m, n, all, rest
      <3>9. all = m + rest
        BY <3>7, <3>8
      <3> USE DEF m, all, rest
      <3>10. Total(S \cup V) = Total(S) + Total(V)
        BY <3>9, Zenon
      <3>11. QED BY <3>10
    <2>4. QED BY <2>2, <2>3
  <1>2. \A V \in SUBSET T : V \in P
    <2> HIDE DEF P
    <2>1. QED BY <1>1, SubsetInduction
  <1>3. QED BY <1>2

\* A sum of nothing but zeroes.
LEMMA SumZero ==
    ASSUME NEW f, NEW S, IsFiniteSet(S), \A x \in S : f[x] = 0
    PROVE  SumFunctionOnSet(f, S) = 0
  <1> DEFINE P == {T \in SUBSET S : SumFunctionOnSet(f, T) = 0}
  <1>1. ASSUME NEW T \in SUBSET S, \A U \in SUBSET T : U # T => U \in P
        PROVE  T \in P
    <2>1. IsFiniteSet(T)
      BY FS_Subset
    <2>2. CASE T = {}
      BY <2>2, SumEmpty
    <2>3. CASE T # {}
      <3>1. PICK c \in T : TRUE
        BY <2>3
      <3>2. SumFunctionOnSet(f, T) = f[c] + SumFunctionOnSet(f, T \ {c})
        BY <2>1, <3>1, SumTakeOff
      <3>3. QED BY <1>1, <3>1, <3>2
    <2>4. QED BY <2>2, <2>3
  <1>2. \A T \in SUBSET S : T \in P
    <2> HIDE DEF P
    <2>1. QED BY <1>1, SubsetInduction
  <1>3. QED BY <1>2

\* Elements that add nothing may be left out.
LEMMA SumPart ==
    ASSUME NEW f, NEW g, NEW S, IsFiniteSet(S), NEW T \in SUBSET S,
           \A x \in S : f[x] \in Int, \A x \in S : f[x] = IF x \in T THEN g[x] ELSE 0
    PROVE  SumFunctionOnSet(f, S) = SumFunctionOnSet(g, T)
  <1>1. IsFiniteSet(T) /\ IsFiniteSet(S \ T)
    BY FS_Subset
  <1>2. SumFunctionOnSet(f, S \ T) = 0
    BY <1>1, SumZero
  <1>3. SumFunctionOnSet(f, T) = SumFunctionOnSet(g, T)
    BY <1>1, SumSame
  <1>4. SumFunctionOnSet(f, T) \in Int
    BY <1>1, SumInt
  <1>5. T \cup (S \ T) = S /\ T \cap (S \ T) = {} /\ \A x \in T \cup (S \ T) : f[x] \in Int
    OBVIOUS
  <1>6. SumFunctionOnSet(f, T \cup (S \ T)) = SumFunctionOnSet(f, T) + SumFunctionOnSet(f, S \ T)
    BY <1>1, <1>5, SumDisjoint
  <1>7. SumFunctionOnSet(f, S) = SumFunctionOnSet(f, T) + 0
    BY <1>2, <1>5, <1>6, Zenon
  <1>8. QED BY <1>3, <1>4, <1>7
=============================================================================
