------------------------------ MODULE SetSums ------------------------------
(***************************************************************************)
(* Sums over finite sets, SumFunctionOnSet of module Functions.  The       *)
(* library's induction principles take an operator and cannot be used, so  *)
(* every induction here looks at a least counterexample.                   *)
(***************************************************************************)
EXTENDS Integers, Functions, FiniteSetTheorems, WellFoundedInduction, TLAPS

\* A nonempty set of natural numbers has a least element.
LEMMA LeastNatural ==
    ASSUME NEW T \in SUBSET Nat, T # {}
    PROVE  \E n \in T : \A m \in T : n <= m
<1> DEFINE R == {ss \in Nat \X Nat : ss[1] < ss[2]}
<1>1. IsWellFoundedOn(R, Nat)
  BY NatLessThanWellFounded DEF OpToRel
<1>2. PICK n \in T : \A m \in T : ~(<<m, n>> \in R)
  BY <1>1, WFMin
<1>3. \A m \in T : n <= m
  <2> TAKE m \in T
  <2>1. <<m, n>> \in Nat \X Nat /\ <<m, n>>[1] = m /\ <<m, n>>[2] = n
    OBVIOUS
  <2> QED BY <1>2, <2>1
<1> QED BY <1>3

\* The order in which a sum takes the elements.
First(s) == CHOOSE x \in s : TRUE

\* g is the table of the sums of f over the sets of D.
Recurses(g, f, D) == g = [s \in D |-> IF s = {} THEN 0 ELSE f[First(s)] + g[s \ {First(s)}]]

SumTable(g, f, S) == Recurses(g, f, SUBSET S)

\* A set that is not empty has a first element.
LEMMA FirstIn == \A s : s # {} => First(s) \in s
BY DEF First

\* A sum is an entry of the table the definition chooses.
LEMMA SumIsTable ==
    ASSUME NEW f, NEW S
    PROVE  SumFunctionOnSet(f, S) = (CHOOSE g : SumTable(g, f, S))[S]
BY DEF SumFunctionOnSet, FoldFunctionOnSet, MapThenFoldSet, SumTable, Recurses, First

\* A finite set without one of its elements.
LEMMA RemoveOne ==
    ASSUME NEW S, IsFiniteSet(S), NEW x \in S
    PROVE  /\ IsFiniteSet(S \ {x}) /\ Cardinality(S) \in Nat /\ Cardinality(S) # 0
           /\ Cardinality(S \ {x}) = Cardinality(S) - 1
BY FS_RemoveElement, FS_CardinalityType, FS_EmptySet

\* Every finite set has a table of its subsets' sums, built up by their size.
LEMMA TableExists ==
    ASSUME NEW f, NEW S, IsFiniteSet(S)
    PROVE  \E g : SumTable(g, f, S)
<1> DEFINE D(n) == {s \in SUBSET S : Cardinality(s) <= n}
           Bad == {n \in Nat : ~\E g : Recurses(g, f, D(n))}
           Val(g, s) == IF s = {} THEN 0 ELSE f[First(s)] + g[s \ {First(s)}]
<1>1. \A s \in SUBSET S : IsFiniteSet(s) /\ Cardinality(s) \in Nat
  BY FS_Subset, FS_CardinalityType
<1>2. Bad = {}
  <2> SUFFICES ASSUME Bad # {} PROVE FALSE
    OBVIOUS
  <2>1. PICK n \in Bad : \A m \in Bad : n <= m
    BY LeastNatural
  <2>2. n # 0
    <3>1. \A s \in D(0) : s = {}
      BY <1>1, FS_EmptySet
    <3>2. Recurses([s \in D(0) |-> 0], f, D(0))
      BY <3>1 DEF Recurses
    <3> QED BY <3>2, <2>1
  <2>3. n - 1 \in Nat /\ n - 1 \notin Bad
    <3>1. n \in Nat
      OBVIOUS
    <3> HIDE DEF Bad
    <3> QED BY <2>1, <2>2, <3>1
  <2>4. PICK g : Recurses(g, f, D(n - 1))
    BY <2>3
  <2> DEFINE h == [s \in D(n) |-> Val(g, s)]
  <2>5. \A s \in D(n) : s # {} => s \ {First(s)} \in D(n - 1)
    BY <1>1, <2>1, FirstIn, RemoveOne
  <2>6. \A s \in D(n - 1) : s \in D(n) /\ g[s] = h[s]
    <3>1. \A s \in D(n - 1) : s \in D(n)
      BY <1>1, <2>1
    <3>2. \A s \in D(n - 1) : g[s] = Val(g, s)
      BY <2>4 DEF Recurses
    <3> QED BY <3>1, <3>2
  <2>7. h = [s \in D(n) |-> Val(h, s)]
    <3> HIDE DEF D
    <3>1. \A s \in D(n) : Val(g, s) = Val(h, s)
      BY <2>5, <2>6
    <3> QED BY <3>1
  <2>8. Recurses(h, f, D(n))
    BY <2>7 DEF Recurses
  <2> QED BY <2>1, <2>8
<1>3. Cardinality(S) \in Nat
  BY FS_CardinalityType
<1>4. \E g : Recurses(g, f, D(Cardinality(S)))
  BY <1>2, <1>3
<1>5. D(Cardinality(S)) = SUBSET S
  BY FS_Subset
<1> QED BY <1>4, <1>5 DEF SumTable

\* The tables of two sets agree where both have an entry.
LEMMA TableUnique ==
    ASSUME NEW f, NEW S, IsFiniteSet(S), NEW T, T \subseteq S,
           NEW g, SumTable(g, f, S), NEW h, SumTable(h, f, T)
    PROVE  g[T] = h[T]
<1> DEFINE Bad == {n \in Nat : \E s \in SUBSET T : Cardinality(s) = n /\ g[s] # h[s]}
<1>1. \A s \in SUBSET S : IsFiniteSet(s) /\ Cardinality(s) \in Nat
  BY FS_Subset, FS_CardinalityType
<1>2. Bad = {}
  <2> SUFFICES ASSUME Bad # {} PROVE FALSE
    OBVIOUS
  <2>1. PICK n \in Bad : \A m \in Bad : n <= m
    BY LeastNatural
  <2>2. PICK s \in SUBSET T : Cardinality(s) = n /\ g[s] # h[s]
    BY <2>1
  <2>3. s \in SUBSET S /\ IsFiniteSet(s)
    BY <1>1
  <2>4. /\ g[s] = IF s = {} THEN 0 ELSE f[First(s)] + g[s \ {First(s)}]
        /\ h[s] = IF s = {} THEN 0 ELSE f[First(s)] + h[s \ {First(s)}]
    BY <2>3 DEF SumTable, Recurses
  <2>5. s # {}
    BY <2>2, <2>4
  <2> DEFINE t == s \ {First(s)}
  <2>6. t \in SUBSET T /\ Cardinality(t) \in Nat /\ Cardinality(t) < n
    BY <1>1, <2>2, <2>3, <2>5, FirstIn, RemoveOne
  <2>7. g[t] = h[t]
    BY <2>1, <2>6
  <2> QED BY <2>2, <2>4, <2>5, <2>7
<1> QED BY <1>1, <1>2

\* Every table of a larger set holds the sum.
LEMMA SumInTable ==
    ASSUME NEW f, NEW S, IsFiniteSet(S), NEW T, T \in SUBSET S, NEW g, SumTable(g, f, S)
    PROVE  SumFunctionOnSet(f, T) = g[T]
<1>1. IsFiniteSet(T)
  BY FS_Subset
<1>2. PICK h : SumTable(h, f, T) /\ h = CHOOSE x : SumTable(x, f, T)
  BY <1>1, TableExists
<1>3. g[T] = h[T]
  BY <1>2, TableUnique
<1>4. SumFunctionOnSet(f, T) = (CHOOSE x : SumTable(x, f, T))[T]
  BY SumIsTable
<1> QED BY <1>2, <1>3, <1>4

\* What the definition means.
LEMMA SumStep ==
    ASSUME NEW f, NEW S, IsFiniteSet(S)
    PROVE  SumFunctionOnSet(f, S) = IF S = {} THEN 0
                ELSE f[First(S)] + SumFunctionOnSet(f, S \ {First(S)})
<1>1. PICK g : SumTable(g, f, S)
  BY TableExists
<1>2. S \in SUBSET S /\ S \ {First(S)} \in SUBSET S
  OBVIOUS
<1>3. SumFunctionOnSet(f, S) = g[S] /\ SumFunctionOnSet(f, S \ {First(S)}) = g[S \ {First(S)}]
  BY <1>1, <1>2, SumInTable
<1>4. g[S] = IF S = {} THEN 0 ELSE f[First(S)] + g[S \ {First(S)}]
  BY <1>1 DEF SumTable, Recurses
<1> QED BY <1>3, <1>4

\* The sum of nothing.
LEMMA SumEmpty == \A f : SumFunctionOnSet(f, {}) = 0
BY SumStep, FS_EmptySet

\* The sum splits at any element.
LEMMA SumSplit ==
    ASSUME NEW S, IsFiniteSet(S), NEW f, \A x \in S : f[x] \in Int
    PROVE  /\ SumFunctionOnSet(f, S) \in Int
           /\ \A x \in S : SumFunctionOnSet(f, S) = f[x] + SumFunctionOnSet(f, S \ {x})
<1> DEFINE Sum(s) == SumFunctionOnSet(f, s)
           Good(s) == Sum(s) \in Int /\ \A x \in s : Sum(s) = f[x] + Sum(s \ {x})
           Bad == {n \in Nat : \E s \in SUBSET S : Cardinality(s) = n /\ ~Good(s)}
<1>1. \A s \in SUBSET S : IsFiniteSet(s) /\ Cardinality(s) \in Nat
  BY FS_Subset, FS_CardinalityType
<1>2. Bad = {}
  <2> SUFFICES ASSUME Bad # {} PROVE FALSE
    OBVIOUS
  <2>1. PICK n \in Bad : \A m \in Bad : n <= m
    BY LeastNatural
  <2>2. PICK s \in SUBSET S : Cardinality(s) = n /\ ~Good(s)
    BY <2>1
  <2>3. IsFiniteSet(s)
    BY <1>1
  <2> DEFINE p == First(s)
  <2>4. \A t \in SUBSET s : t # s => Good(t)
    <3> SUFFICES ASSUME NEW t \in SUBSET s, t # s PROVE Good(t)
      OBVIOUS
    <3>1. t \in SUBSET S /\ Cardinality(t) \in Nat /\ Cardinality(t) < n
      BY <1>1, <2>2, <2>3, FS_Subset
    <3> HIDE DEF Good
    <3> QED BY <2>1, <3>1
  <2>5. Sum(s) = IF s = {} THEN 0 ELSE f[p] + Sum(s \ {p})
    BY <2>3, SumStep
  <2>6. s # {}
    BY <2>2, <2>5
  <2>7. p \in s /\ p \in S /\ f[p] \in Int
    BY <2>6, FirstIn
  <2> HIDE DEF p
  <2>8. Good(s \ {p})
    BY <2>4, <2>7
  <2>9. ASSUME NEW x \in s
        PROVE  Sum(s) = f[x] + Sum(s \ {x})
    <3>1. CASE x = p
      BY <2>5, <2>6, <3>1
    <3>2. CASE x # p
      <4>1. x \in s \ {p} /\ p \in s \ {x} /\ f[x] \in Int
        BY <2>7, <3>2
      <4>2. Good(s \ {x}) /\ Good((s \ {p}) \ {x})
        BY <2>4, <2>7
      <4>3. (s \ {p}) \ {x} = (s \ {x}) \ {p}
        OBVIOUS
      <4> HIDE DEF Sum
      <4>4. Sum(s \ {p}) = f[x] + Sum((s \ {p}) \ {x})
        BY <2>8, <4>1
      <4>5. Sum(s \ {x}) = f[p] + Sum((s \ {p}) \ {x})
        BY <4>1, <4>2, <4>3
      <4>6. Sum((s \ {p}) \ {x}) \in Int
        BY <4>2
      <4> QED BY <2>5, <2>6, <2>7, <4>1, <4>4, <4>5, <4>6
    <3> QED BY <3>1, <3>2
  <2>10. Sum(s) \in Int
    <3> HIDE DEF Sum
    <3> QED BY <2>5, <2>6, <2>7, <2>8
  <2> QED BY <2>2, <2>9, <2>10
<1>3. Good(S)
  BY <1>1, <1>2
<1> QED BY <1>3

\* It depends only on the values over S.
LEMMA SumSame ==
    ASSUME NEW S, IsFiniteSet(S), NEW f, NEW g, \A x \in S : f[x] = g[x]
    PROVE  SumFunctionOnSet(f, S) = SumFunctionOnSet(g, S)
<1> DEFINE Bad == {n \in Nat : \E s \in SUBSET S : /\ Cardinality(s) = n
                                  /\ SumFunctionOnSet(f, s) # SumFunctionOnSet(g, s)}
<1>1. \A s \in SUBSET S : IsFiniteSet(s) /\ Cardinality(s) \in Nat
  BY FS_Subset, FS_CardinalityType
<1>2. Bad = {}
  <2> SUFFICES ASSUME Bad # {} PROVE FALSE
    OBVIOUS
  <2>1. PICK n \in Bad : \A m \in Bad : n <= m
    BY LeastNatural
  <2>2. PICK s \in SUBSET S : /\ Cardinality(s) = n
                              /\ SumFunctionOnSet(f, s) # SumFunctionOnSet(g, s)
    BY <2>1
  <2> DEFINE p == First(s)
             t == s \ {p}
  <2>3. IsFiniteSet(s)
    BY <1>1
  <2>4. /\ SumFunctionOnSet(f, s) = IF s = {} THEN 0 ELSE f[p] + SumFunctionOnSet(f, t)
        /\ SumFunctionOnSet(g, s) = IF s = {} THEN 0 ELSE g[p] + SumFunctionOnSet(g, t)
    BY <2>3, SumStep
  <2>5. s # {} /\ p \in s
    BY <2>2, <2>4, FirstIn
  <2>6. t \in SUBSET S /\ Cardinality(t) \in Nat /\ Cardinality(t) < n
    BY <1>1, <2>2, <2>3, <2>5, RemoveOne
  <2>7. SumFunctionOnSet(f, t) = SumFunctionOnSet(g, t)
    BY <2>1, <2>6
  <2> QED BY <2>2, <2>4, <2>5, <2>7
<1> QED BY <1>1, <1>2

\* The sum of natural numbers is one, and at least as large as each of them.
LEMMA SumNat ==
    ASSUME NEW S, IsFiniteSet(S), NEW f, \A x \in S : f[x] \in Nat
    PROVE  /\ SumFunctionOnSet(f, S) \in Nat
           /\ \A x \in S : f[x] <= SumFunctionOnSet(f, S)
<1> DEFINE Sum(s) == SumFunctionOnSet(f, s)
           Bad == {n \in Nat : \E s \in SUBSET S : Cardinality(s) = n /\ Sum(s) \notin Nat}
<1>1. \A s \in SUBSET S : IsFiniteSet(s) /\ Cardinality(s) \in Nat
  BY FS_Subset, FS_CardinalityType
<1>2. Bad = {}
  <2> SUFFICES ASSUME Bad # {} PROVE FALSE
    OBVIOUS
  <2>1. PICK n \in Bad : \A m \in Bad : n <= m
    BY LeastNatural
  <2>2. PICK s \in SUBSET S : Cardinality(s) = n /\ Sum(s) \notin Nat
    BY <2>1
  <2> DEFINE p == First(s)
             t == s \ {p}
  <2>3. IsFiniteSet(s)
    BY <1>1
  <2>4. Sum(s) = IF s = {} THEN 0 ELSE f[p] + Sum(t)
    BY <2>3, SumStep
  <2>5. s # {} /\ p \in s
    BY <2>2, <2>4, FirstIn
  <2>6. t \in SUBSET S /\ Cardinality(t) \in Nat /\ Cardinality(t) < n
    BY <1>1, <2>2, <2>3, <2>5, RemoveOne
  <2>7. Sum(t) \in Nat
    BY <2>1, <2>6
  <2> HIDE DEF Sum, p, t
  <2>8. f[p] \in Nat
    BY <2>5
  <2> QED BY <2>2, <2>4, <2>5, <2>7, <2>8
<1>3. \A s \in SUBSET S : Sum(s) \in Nat
  BY <1>1, <1>2
<1>4. ASSUME NEW x \in S
      PROVE  f[x] <= Sum(S)
  <2>1. Sum(S) = f[x] + Sum(S \ {x})
    BY SumSplit
  <2>2. Sum(S \ {x}) \in Nat /\ f[x] \in Nat /\ Sum(S) \in Nat
    BY <1>3
  <2> HIDE DEF Sum
  <2> QED BY <2>1, <2>2
<1> QED BY <1>3, <1>4

\* A sum of smaller values is smaller.
LEMMA SumLeq ==
    ASSUME NEW S, IsFiniteSet(S), NEW f, NEW g,
           \A x \in S : f[x] \in Int /\ g[x] \in Int /\ f[x] <= g[x]
    PROVE  SumFunctionOnSet(f, S) <= SumFunctionOnSet(g, S)
<1> DEFINE F(s) == SumFunctionOnSet(f, s)
           G(s) == SumFunctionOnSet(g, s)
           Bad == {n \in Nat : \E s \in SUBSET S : Cardinality(s) = n /\ ~(F(s) <= G(s))}
<1>1. \A s \in SUBSET S : IsFiniteSet(s) /\ Cardinality(s) \in Nat
  BY FS_Subset, FS_CardinalityType
<1>2. Bad = {}
  <2> SUFFICES ASSUME Bad # {} PROVE FALSE
    OBVIOUS
  <2>1. PICK n \in Bad : \A m \in Bad : n <= m
    BY LeastNatural
  <2>2. PICK s \in SUBSET S : Cardinality(s) = n /\ ~(F(s) <= G(s))
    BY <2>1
  <2> DEFINE p == First(s)
             t == s \ {p}
  <2>3. IsFiniteSet(s)
    BY <1>1
  <2>4. /\ F(s) = IF s = {} THEN 0 ELSE f[p] + F(t)
        /\ G(s) = IF s = {} THEN 0 ELSE g[p] + G(t)
    BY <2>3, SumStep
  <2>5. s # {} /\ p \in s
    <3> HIDE DEF F, G, p, t
    <3>1. s # {}
      BY <2>2, <2>4
    <3> QED BY <3>1, FirstIn DEF p
  <2>6. t \in SUBSET S /\ IsFiniteSet(t) /\ Cardinality(t) \in Nat /\ Cardinality(t) < n
    BY <1>1, <2>2, <2>3, <2>5, RemoveOne
  <2>7. F(t) <= G(t)
    BY <2>1, <2>6
  <2>8. F(t) \in Int /\ G(t) \in Int
    BY <2>6, SumSplit
  <2> HIDE DEF F, G, p, t
  <2>9. f[p] \in Int /\ g[p] \in Int /\ f[p] <= g[p]
    BY <2>5
  <2> QED BY <2>2, <2>4, <2>5, <2>7, <2>8, <2>9
<1>3. F(S) <= G(S)
  BY <1>1, <1>2
<1> QED BY <1>3

\* One value changes.
LEMMA SumChange ==
    ASSUME NEW S, IsFiniteSet(S), NEW f, NEW g, NEW x \in S,
           \A y \in S : f[y] \in Int /\ g[y] \in Int,
           \A y \in S \ {x} : g[y] = f[y]
    PROVE  SumFunctionOnSet(g, S) = SumFunctionOnSet(f, S) - f[x] + g[x]
<1>1. SumFunctionOnSet(f, S \ {x}) = SumFunctionOnSet(g, S \ {x})
  BY SumSame, FS_RemoveElement
<1>2. /\ SumFunctionOnSet(f, S) = f[x] + SumFunctionOnSet(f, S \ {x})
      /\ SumFunctionOnSet(g, S) = g[x] + SumFunctionOnSet(g, S \ {x})
      /\ SumFunctionOnSet(f, S) \in Int /\ SumFunctionOnSet(g, S) \in Int
  BY SumSplit
<1>3. SumFunctionOnSet(f, S \ {x}) \in Int
  BY SumSplit, FS_RemoveElement
<1> QED BY <1>1, <1>2, <1>3

\* A sum of zeros.
LEMMA SumZero ==
    ASSUME NEW S, IsFiniteSet(S), NEW f, \A x \in S : f[x] = 0
    PROVE  SumFunctionOnSet(f, S) = 0
<1> DEFINE Bad == {n \in Nat : \E s \in SUBSET S : Cardinality(s) = n /\ SumFunctionOnSet(f, s) # 0}
<1>1. \A s \in SUBSET S : IsFiniteSet(s) /\ Cardinality(s) \in Nat
  BY FS_Subset, FS_CardinalityType
<1>2. Bad = {}
  <2> SUFFICES ASSUME Bad # {} PROVE FALSE
    OBVIOUS
  <2>1. PICK n \in Bad : \A m \in Bad : n <= m
    BY LeastNatural
  <2>2. PICK s \in SUBSET S : Cardinality(s) = n /\ SumFunctionOnSet(f, s) # 0
    BY <2>1
  <2> DEFINE t == s \ {First(s)}
  <2>3. IsFiniteSet(s)
    BY <1>1
  <2>4. SumFunctionOnSet(f, s) = IF s = {} THEN 0 ELSE f[First(s)] + SumFunctionOnSet(f, t)
    BY <2>3, SumStep
  <2>5. s # {} /\ First(s) \in s
    BY <2>2, <2>4, FirstIn
  <2>6. t \in SUBSET S /\ Cardinality(t) \in Nat /\ Cardinality(t) < n
    BY <1>1, <2>2, <2>3, <2>5, RemoveOne
  <2>7. SumFunctionOnSet(f, t) = 0
    BY <2>1, <2>6
  <2> QED BY <2>2, <2>4, <2>5, <2>7
<1> QED BY <1>1, <1>2

\* The sum of a set is that of a part and of the rest.
LEMMA SumPart ==
    ASSUME NEW S, IsFiniteSet(S), NEW f, \A x \in S : f[x] \in Int, NEW A, A \subseteq S
    PROVE  SumFunctionOnSet(f, S) = SumFunctionOnSet(f, A) + SumFunctionOnSet(f, S \ A)
<1> DEFINE Sum(s) == SumFunctionOnSet(f, s)
           Bad == {n \in Nat : \E s \in SUBSET A : Cardinality(s) = n
                                                   /\ Sum(S) # Sum(s) + Sum(S \ s)}
<1>1. \A s \in SUBSET S : IsFiniteSet(s) /\ Cardinality(s) \in Nat
  BY FS_Subset, FS_CardinalityType
<1>2. \A s \in SUBSET S : Sum(s) \in Int
  BY <1>1, SumSplit
<1>3. Bad = {}
  <2> SUFFICES ASSUME Bad # {} PROVE FALSE
    OBVIOUS
  <2>1. PICK n \in Bad : \A m \in Bad : n <= m
    BY LeastNatural
  <2>2. PICK s \in SUBSET A : Cardinality(s) = n /\ Sum(S) # Sum(s) + Sum(S \ s)
    BY <2>1
  <2>3. s # {}
    <3>1. Sum({}) = 0 /\ S \ {} = S /\ Sum(S) \in Int
      BY <1>2, SumEmpty
    <3> HIDE DEF Sum
    <3>2. Sum(S) = Sum({}) + Sum(S \ {})
      BY <3>1
    <3> QED BY <2>2, <3>2
  <2>4. PICK x \in s : TRUE
    BY <2>3
  <2> DEFINE t == s \ {x}
  <2>5. t \in SUBSET A /\ Cardinality(t) \in Nat /\ Cardinality(t) < n
    BY <1>1, <2>2, RemoveOne
  <2>6. Sum(S) = Sum(t) + Sum(S \ t)
    <3>1. Cardinality(t) \notin Bad
      <4>1. n \in Nat
        OBVIOUS
      <4> HIDE DEF Bad, t
      <4> QED BY <2>1, <2>5, <4>1
    <3> HIDE DEF Sum, t
    <3> QED BY <2>5, <3>1
  <2>7. Sum(S \ t) = f[x] + Sum(S \ s)
    <3>1. IsFiniteSet(S \ t) /\ x \in S \ t /\ (S \ t) \ {x} = S \ s
      BY <1>1
    <3>2. Sum(S \ t) = f[x] + Sum((S \ t) \ {x})
      BY <3>1, SumSplit
    <3> QED BY <3>1, <3>2
  <2>8. Sum(s) = f[x] + Sum(t)
    BY <1>1, SumSplit
  <2>9. Sum(t) \in Int /\ Sum(s) \in Int /\ Sum(S \ s) \in Int /\ f[x] \in Int
    BY <1>2
  <2> HIDE DEF Sum, t
  <2> QED BY <2>2, <2>6, <2>7, <2>8, <2>9
<1> QED BY <1>1, <1>3
=============================================================================
