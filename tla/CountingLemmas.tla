--------------------------- MODULE CountingLemmas ---------------------------
(* Facts about counting that the proofs share: lists without repetition,    *)
(* induction on naturals and on finite sets, and sums.  The voting pallets  *)
(* keep the voters of a proposal in a vector, push after a has_voted check  *)
(* and compare its length with a threshold; the ledgers keep totals that    *)
(* are adjusted by hand beside the values they are the sum of.              *)
EXTENDS Integers, Sequences, FiniteSets, Functions, FiniteSetTheorems, SequenceTheorems,
        WellFoundedInduction, TLAPS

(* A sequence without repetition has as many elements as positions.         *)
LEMMA DistinctCount ==
  ASSUME NEW S, NEW s \in Seq(S), IsInjective(s)
  PROVE  IsFiniteSet(Range(s)) /\ Cardinality(Range(s)) = Len(s)
<1>1. s \in [1..Len(s) -> Range(s)] /\ Len(s) \in Nat
  BY DEF Range
<1>2. s \in Bijection(1..Len(s), Range(s))
  BY <1>1 DEF Bijection, Injection, Surjection, Range
<1>3. ExistsBijection(1..Len(s), Range(s))
  BY <1>2 DEF ExistsBijection
<1> QED
  BY <1>1, <1>3, FS_CountingElements, FS_NatBijection

(* Appending a new element keeps a sequence free of repetition.             *)
LEMMA AppendDistinct ==
  ASSUME NEW S, NEW s \in Seq(S), NEW a \in S, IsInjective(s), a \notin Range(s)
  PROVE  /\ Append(s, a) \in Seq(S)
         /\ IsInjective(Append(s, a))
         /\ Range(Append(s, a)) = Range(s) \cup {a}
         /\ Len(Append(s, a)) = Len(s) + 1
<1> DEFINE t == Append(s, a)
<1>1. /\ t \in Seq(S)
      /\ Len(t) = Len(s) + 1
      /\ Len(s) \in Nat
      /\ DOMAIN t = 1..(Len(s) + 1)
      /\ DOMAIN s = 1..Len(s)
      /\ \A i \in 1..Len(s) : t[i] = s[i]
      /\ t[Len(s) + 1] = a
  OBVIOUS
<1> HIDE DEF t
<1>2. \A i \in 1..(Len(s) + 1) : i \in 1..Len(s) \/ i = Len(s) + 1
  BY <1>1
<1>3. \A i \in 1..Len(s) : s[i] # a
  BY <1>1 DEF Range
<1>4. IsInjective(t)
  BY <1>1, <1>2, <1>3 DEF IsInjective
<1>5. Range(t) = Range(s) \cup {a}
  <2>1. ASSUME NEW x \in Range(t) PROVE x \in Range(s) \cup {a}
    BY <1>1, <1>2 DEF Range
  <2>2. ASSUME NEW x \in Range(s) PROVE x \in Range(t)
    <3>1. PICK i \in 1..Len(s) : x = s[i]
      BY <1>1 DEF Range
    <3>2. i \in DOMAIN t /\ t[i] = x
      BY <1>1, <3>1
    <3> QED
      BY <3>2 DEF Range
  <2>3. a \in Range(t)
    <3>1. Len(s) + 1 \in DOMAIN t
      BY <1>1
    <3> QED
      BY <1>1, <3>1 DEF Range
  <2> QED
    BY <2>1, <2>2, <2>3
<1> QED
  BY <1>1, <1>4, <1>5 DEF t

-----------------------------------------------------------------------------
(* A set of naturals with 0 that is closed under successor holds them all.  *)
LEMMA NatSetInduction ==
  ASSUME NEW T, 0 \in T, \A n \in T \cap Nat : n + 1 \in T
  PROVE  Nat \subseteq T
<1> DEFINE Out == {n \in Nat : n \notin T}
<1> SUFFICES ASSUME Out # {} PROVE FALSE
  OBVIOUS
<1>1. PICK x \in Out : \A y \in Out : ~(<<y, x>> \in OpToRel(<, Nat))
  <2> Out \subseteq Nat
    OBVIOUS
  <2> QED
    BY WFMin, NatLessThanWellFounded
<1>2. x \in Nat /\ x # 0 /\ x - 1 \in Nat
  OBVIOUS
<1>3. x - 1 \in Out
  BY <1>2
<1>4. <<x - 1, x>> \in OpToRel(<, Nat)
  BY <1>2 DEF OpToRel
<1> QED
  BY <1>1, <1>3, <1>4

(* A family of subsets of a finite set that has the empty set, and every    *)
(* set whose removals of one element it has, has them all.                  *)
LEMMA SubsetInduction ==
  ASSUME NEW S, IsFiniteSet(S), NEW T, {} \in T,
         \A s \in SUBSET S : s # {} /\ (\A x \in s : s \ {x} \in T) => s \in T
  PROVE  SUBSET S \subseteq T
<1> DEFINE N == {n \in Nat : \A s \in SUBSET S : Cardinality(s) = n => s \in T}
<1>1. \A s \in SUBSET S : IsFiniteSet(s) /\ Cardinality(s) \in Nat
  BY FS_Subset, FS_CardinalityType
<1>2. 0 \in N
  BY <1>1, FS_EmptySet
<1>3. ASSUME NEW n \in N \cap Nat PROVE n + 1 \in N
  <2> SUFFICES ASSUME NEW s \in SUBSET S, Cardinality(s) = n + 1 PROVE s \in T
    OBVIOUS
  <2>1. s # {}
    BY FS_EmptySet
  <2>2. ASSUME NEW x \in s PROVE s \ {x} \in T
    <3>1. Cardinality(s \ {x}) = n
      BY <1>1, FS_RemoveElement
    <3> QED
      BY <3>1
  <2> QED
    BY <2>1, <2>2
<1> HIDE DEF N
<1>4. Nat \subseteq N
  BY <1>2, <1>3, NatSetInduction
<1> QED
  BY <1>1, <1>4 DEF N

-----------------------------------------------------------------------------
(* SumFunctionOnSet, the sum of the community modules, is a fold whose      *)
(* iteration is a recursive function on the subsets.                        *)
One(s) == CHOOSE x \in s : TRUE

SumStep(f, D, h) ==
  h = [s \in D |-> IF s = {} THEN 0 ELSE f[One(s)] + h[s \ {One(s)}]]

LEMMA SumUnfold ==
  ASSUME NEW f, NEW S
  PROVE SumFunctionOnSet(f, S) = (CHOOSE h : SumStep(f, SUBSET S, h))[S]
BY DEF SumFunctionOnSet, FoldFunctionOnSet, MapThenFoldSet, SumStep, One

LEMMA OneIn ==
  ASSUME NEW s, s # {}
  PROVE  One(s) \in s
BY DEF One

LEMMA SumStepExists ==
  ASSUME NEW f, NEW S, IsFiniteSet(S)
  PROVE  \E h : SumStep(f, SUBSET S, h)
<1> DEFINE D(n) == {s \in SUBSET S : Cardinality(s) <= n}
           N == {n \in Nat : \E h : SumStep(f, D(n), h)}
<1>1. \A s \in SUBSET S : IsFiniteSet(s) /\ Cardinality(s) \in Nat
  BY FS_Subset, FS_CardinalityType
<1>2. 0 \in N
  <2> DEFINE h == [s \in D(0) |-> 0]
  <2>1. \A s \in D(0) : s = {}
    BY <1>1, FS_EmptySet
  <2>2. h = [s \in D(0) |-> IF s = {} THEN 0 ELSE f[One(s)] + h[s \ {One(s)}]]
    BY <2>1
  <2> QED
    BY <2>2 DEF SumStep
<1>3. ASSUME NEW n \in N \cap Nat PROVE n + 1 \in N
  <2>1. PICK g : SumStep(f, D(n), g)
    OBVIOUS
  <2> DEFINE h == [s \in D(n + 1) |-> IF s = {} THEN 0 ELSE f[One(s)] + g[s \ {One(s)}]]
  <2>2. ASSUME NEW s \in D(n + 1), s # {} PROVE s \ {One(s)} \in D(n) /\ s \ {One(s)} \in D(n + 1)
    BY <1>1, <2>2, OneIn, FS_RemoveElement
  <2>3. \A s \in D(n) : s \in D(n + 1)
    BY <1>1
  <2> HIDE DEF D
  <2>4. \A s \in D(n) : h[s] = g[s]
    BY <2>1, <2>3 DEF SumStep
  <2>5. h = [s \in D(n + 1) |-> IF s = {} THEN 0 ELSE f[One(s)] + h[s \ {One(s)}]]
    BY <2>2, <2>4
  <2>6. SumStep(f, D(n + 1), h)
    BY <2>5 DEF SumStep
  <2> QED
    BY <2>6
<1>4. Cardinality(S) \in N
  <2> HIDE DEF N
  <2>1. Nat \subseteq N
    BY <1>2, <1>3, NatSetInduction
  <2> QED
    BY <1>1, <2>1
<1>5. D(Cardinality(S)) = SUBSET S
  BY FS_Subset, FS_CardinalityType
<1> QED
  BY <1>4, <1>5

LEMMA SumStepUnique ==
  ASSUME NEW f, NEW S, IsFiniteSet(S), NEW T, T \subseteq S
  PROVE  \A g, h : SumStep(f, SUBSET S, g) /\ SumStep(f, SUBSET T, h) => g[T] = h[T]
<1> SUFFICES ASSUME NEW g, SumStep(f, SUBSET S, g), NEW h, SumStep(f, SUBSET T, h)
             PROVE  g[T] = h[T]
  OBVIOUS
<1> DEFINE E == {s \in SUBSET T : g[s] = h[s]}
<1>1. {} \in E
  BY DEF SumStep
<1>2. ASSUME NEW s \in SUBSET T, s # {}, \A x \in s : s \ {x} \in E PROVE s \in E
  <2>1. One(s) \in s
    BY <1>2, OneIn
  <2>2. s \in SUBSET S /\ s \ {One(s)} \in SUBSET S /\ s \ {One(s)} \in SUBSET T
    OBVIOUS
  <2>3. g[s] = f[One(s)] + g[s \ {One(s)}] /\ h[s] = f[One(s)] + h[s \ {One(s)}]
    BY <1>2, <2>2 DEF SumStep
  <2> QED
    BY <1>2, <2>1, <2>3
<1>3. IsFiniteSet(T)
  BY FS_Subset
<1> HIDE DEF E
<1>4. SUBSET T \subseteq E
  BY <1>1, <1>2, <1>3, SubsetInduction
<1> QED
  BY <1>4 DEF E

(* A sum over nothing is 0.                                                 *)
LEMMA SumEmpty == \A f : SumFunctionOnSet(f, {}) = 0
<1> SUFFICES ASSUME NEW f PROVE SumFunctionOnSet(f, {}) = 0
  OBVIOUS
<1> DEFINE h == CHOOSE h : SumStep(f, SUBSET {}, h)
<1>1. SumStep(f, SUBSET {}, h)
  BY SumStepExists, FS_EmptySet
<1> HIDE DEF h
<1>2. h[{}] = 0
  BY <1>1 DEF SumStep
<1> QED
  BY <1>2, SumUnfold DEF h

LEMMA SumOne ==
  ASSUME NEW f, NEW S, IsFiniteSet(S), S # {}
  PROVE  SumFunctionOnSet(f, S) = f[One(S)] + SumFunctionOnSet(f, S \ {One(S)})
<1> DEFINE T == S \ {One(S)}
           g == CHOOSE i : SumStep(f, SUBSET S, i)
           h == CHOOSE i : SumStep(f, SUBSET T, i)
<1>1. T \subseteq S /\ IsFiniteSet(T)
  BY FS_Subset
<1>2. SumStep(f, SUBSET S, g)
  BY SumStepExists
<1> HIDE DEF T
<1>3. SumStep(f, SUBSET T, h)
  BY <1>1, SumStepExists
<1> HIDE DEF g, h
<1>4. g[T] = h[T]
  BY <1>1, <1>2, <1>3, SumStepUnique
<1>5. g[S] = f[One(S)] + g[T]
  BY <1>2 DEF SumStep, T
<1>6. SumFunctionOnSet(f, S) = g[S] /\ SumFunctionOnSet(f, T) = h[T]
  BY SumUnfold DEF g, h
<1> QED
  BY <1>4, <1>5, <1>6 DEF T

(* A sum of integers is an integer.                                         *)
LEMMA SumInt ==
  ASSUME NEW S, IsFiniteSet(S), NEW f, \A x \in S : f[x] \in Int
  PROVE  SumFunctionOnSet(f, S) \in Int
<1> DEFINE T == {s \in SUBSET S : SumFunctionOnSet(f, s) \in Int}
<1>1. {} \in T
  BY SumEmpty
<1>2. ASSUME NEW s \in SUBSET S, s # {}, \A x \in s : s \ {x} \in T PROVE s \in T
  <2>1. One(s) \in s /\ IsFiniteSet(s)
    BY <1>2, OneIn, FS_Subset
  <2>2. SumFunctionOnSet(f, s) = f[One(s)] + SumFunctionOnSet(f, s \ {One(s)})
    BY <1>2, <2>1, SumOne
  <2> QED
    BY <1>2, <2>1, <2>2
<1> HIDE DEF T
<1>3. SUBSET S \subseteq T
  BY <1>1, <1>2, SubsetInduction
<1> QED
  BY <1>3 DEF T

(* Any element can be taken out of a sum, not only the one the fold takes.  *)
LEMMA SumRemove ==
  ASSUME NEW S, IsFiniteSet(S), NEW f, \A x \in S : f[x] \in Int, NEW e \in S
  PROVE  SumFunctionOnSet(f, S) = f[e] + SumFunctionOnSet(f, S \ {e})
<1> DEFINE Sum(s) == SumFunctionOnSet(f, s)
           T == {s \in SUBSET S : \A x \in s : Sum(s) = f[x] + Sum(s \ {x})}
<1>1. {} \in T
  OBVIOUS
<1>2. ASSUME NEW s \in SUBSET S, s # {}, \A x \in s : s \ {x} \in T PROVE s \in T
  <2>1. One(s) \in s /\ IsFiniteSet(s)
    BY <1>2, OneIn, FS_Subset
  <2>2. Sum(s) = f[One(s)] + Sum(s \ {One(s)})
    BY <1>2, <2>1, SumOne
  <2>4. ASSUME NEW x \in s, x # One(s) PROVE Sum(s) = f[x] + Sum(s \ {x})
    <3> DEFINE r == (s \ {x}) \ {One(s)}
    <3>1. r = (s \ {One(s)}) \ {x}
      OBVIOUS
    <3>2. Sum(s \ {x}) = f[One(s)] + Sum(r)
      BY <1>2, <2>1, <2>4
    <3>3. Sum(s \ {One(s)}) = f[x] + Sum(r)
      BY <1>2, <2>1, <2>4, <3>1
    <3>4. Sum(r) \in Int
      BY FS_Subset, SumInt
    <3>5. f[x] \in Int /\ f[One(s)] \in Int
      BY <2>1
    <3> HIDE DEF Sum, r
    <3> QED
      BY <2>2, <3>2, <3>3, <3>4, <3>5
  <2> QED
    BY <2>2, <2>4
<1> HIDE DEF T
<1>3. SUBSET S \subseteq T
  BY <1>1, <1>2, SubsetInduction
<1> QED
  BY <1>3 DEF T

(* A sum depends only on the values at the elements.                        *)
LEMMA SumSame ==
  ASSUME NEW S, IsFiniteSet(S), NEW f, NEW g, \A x \in S : f[x] = g[x]
  PROVE  SumFunctionOnSet(f, S) = SumFunctionOnSet(g, S)
<1> DEFINE T == {s \in SUBSET S : SumFunctionOnSet(f, s) = SumFunctionOnSet(g, s)}
<1>1. {} \in T
  BY SumEmpty
<1>2. ASSUME NEW s \in SUBSET S, s # {}, \A x \in s : s \ {x} \in T PROVE s \in T
  <2>1. One(s) \in s /\ IsFiniteSet(s)
    BY <1>2, OneIn, FS_Subset
  <2>2. /\ SumFunctionOnSet(f, s) = f[One(s)] + SumFunctionOnSet(f, s \ {One(s)})
        /\ SumFunctionOnSet(g, s) = g[One(s)] + SumFunctionOnSet(g, s \ {One(s)})
    BY <1>2, <2>1, SumOne
  <2> QED
    BY <1>2, <2>1, <2>2
<1> HIDE DEF T
<1>3. SUBSET S \subseteq T
  BY <1>1, <1>2, SubsetInduction
<1> QED
  BY <1>3 DEF T

(* Values that are not smaller have a sum that is not smaller.              *)
LEMMA SumAtMost ==
  ASSUME NEW S, IsFiniteSet(S), NEW f, NEW g,
         \A x \in S : f[x] \in Int /\ g[x] \in Int /\ f[x] <= g[x]
  PROVE  SumFunctionOnSet(f, S) <= SumFunctionOnSet(g, S)
<1> DEFINE T == {s \in SUBSET S : SumFunctionOnSet(f, s) <= SumFunctionOnSet(g, s)}
<1>1. {} \in T
  BY SumEmpty
<1>2. ASSUME NEW s \in SUBSET S, s # {}, \A x \in s : s \ {x} \in T PROVE s \in T
  <2>1. One(s) \in s /\ IsFiniteSet(s) /\ IsFiniteSet(s \ {One(s)})
    BY <1>2, OneIn, FS_Subset
  <2>2. /\ SumFunctionOnSet(f, s) = f[One(s)] + SumFunctionOnSet(f, s \ {One(s)})
        /\ SumFunctionOnSet(g, s) = g[One(s)] + SumFunctionOnSet(g, s \ {One(s)})
    BY <1>2, <2>1, SumOne
  <2>3. /\ SumFunctionOnSet(f, s \ {One(s)}) \in Int
        /\ SumFunctionOnSet(g, s \ {One(s)}) \in Int
    BY <2>1, SumInt
  <2>4. SumFunctionOnSet(f, s \ {One(s)}) <= SumFunctionOnSet(g, s \ {One(s)})
    BY <1>2, <2>1
  <2>5. f[One(s)] \in Int /\ g[One(s)] \in Int /\ f[One(s)] <= g[One(s)]
    BY <2>1
  <2> QED
    BY <2>2, <2>3, <2>4, <2>5
<1> HIDE DEF T
<1>3. SUBSET S \subseteq T
  BY <1>1, <1>2, SubsetInduction
<1> QED
  BY <1>3 DEF T

(* Changing the value at one element changes the sum by as much.            *)
LEMMA SumChange ==
  ASSUME NEW S, IsFiniteSet(S), NEW f, NEW g, NEW e \in S,
         \A x \in S : f[x] \in Int /\ g[x] \in Int,
         \A x \in S \ {e} : g[x] = f[x]
  PROVE  SumFunctionOnSet(g, S) = SumFunctionOnSet(f, S) - f[e] + g[e]
<1>1. IsFiniteSet(S \ {e})
  BY FS_Subset
<1>2. SumFunctionOnSet(g, S \ {e}) = SumFunctionOnSet(f, S \ {e})
  BY <1>1, SumSame
<1>3. SumFunctionOnSet(f, S \ {e}) \in Int
  BY <1>1, SumInt
<1>4. SumFunctionOnSet(f, S) = f[e] + SumFunctionOnSet(f, S \ {e})
  BY SumRemove
<1>5. SumFunctionOnSet(g, S) = g[e] + SumFunctionOnSet(g, S \ {e})
  BY SumRemove
<1>6. f[e] \in Int /\ g[e] \in Int
  OBVIOUS
<1> QED
  BY <1>2, <1>3, <1>4, <1>5, <1>6

(* A sum of naturals is a natural, and no value is above it.                *)
LEMMA SumNat ==
  ASSUME NEW S, IsFiniteSet(S), NEW f, \A x \in S : f[x] \in Nat
  PROVE  /\ SumFunctionOnSet(f, S) \in Nat
         /\ \A x \in S : f[x] <= SumFunctionOnSet(f, S)
<1> DEFINE T == {s \in SUBSET S : SumFunctionOnSet(f, s) \in Nat}
<1>1. {} \in T
  BY SumEmpty
<1>2. ASSUME NEW s \in SUBSET S, s # {}, \A x \in s : s \ {x} \in T PROVE s \in T
  <2>1. One(s) \in s /\ IsFiniteSet(s)
    BY <1>2, OneIn, FS_Subset
  <2>2. SumFunctionOnSet(f, s) = f[One(s)] + SumFunctionOnSet(f, s \ {One(s)})
    BY <1>2, <2>1, SumOne
  <2> QED
    BY <1>2, <2>1, <2>2
<1> HIDE DEF T
<1>3. SUBSET S \subseteq T
  BY <1>1, <1>2, SubsetInduction
<1>4. ASSUME NEW x \in S PROVE f[x] <= SumFunctionOnSet(f, S)
  <2>1. SumFunctionOnSet(f, S) = f[x] + SumFunctionOnSet(f, S \ {x})
    BY SumRemove
  <2>2. SumFunctionOnSet(f, S \ {x}) \in Nat
    BY <1>3 DEF T
  <2> QED
    BY <2>1, <2>2
<1> QED
  BY <1>3, <1>4 DEF T

(* A sum of zeros is 0.                                                     *)
LEMMA SumZero ==
  ASSUME NEW S, IsFiniteSet(S), NEW f, \A x \in S : f[x] = 0
  PROVE  SumFunctionOnSet(f, S) = 0
<1> DEFINE T == {s \in SUBSET S : SumFunctionOnSet(f, s) = 0}
<1>1. {} \in T
  BY SumEmpty
<1>2. ASSUME NEW s \in SUBSET S, s # {}, \A x \in s : s \ {x} \in T PROVE s \in T
  <2>1. One(s) \in s /\ IsFiniteSet(s)
    BY <1>2, OneIn, FS_Subset
  <2>2. SumFunctionOnSet(f, s) = f[One(s)] + SumFunctionOnSet(f, s \ {One(s)})
    BY <1>2, <2>1, SumOne
  <2> QED
    BY <1>2, <2>1, <2>2
<1> HIDE DEF T
<1>3. SUBSET S \subseteq T
  BY <1>1, <1>2, SubsetInduction
<1> QED
  BY <1>3 DEF T

(* A sum in which the members of U count c each and the others nothing.     *)
LEMMA SumConstant ==
  ASSUME NEW S, IsFiniteSet(S), NEW U, NEW c \in Nat, NEW f,
         \A x \in S : f[x] = IF x \in U THEN c ELSE 0
  PROVE  SumFunctionOnSet(f, S) = c * Cardinality(S \cap U)
<1> DEFINE T == {s \in SUBSET S : SumFunctionOnSet(f, s) = c * Cardinality(s \cap U)}
<1>1. {} \in T
  <2>1. {} \cap U = {}
    OBVIOUS
  <2> QED
    BY <2>1, SumEmpty, FS_EmptySet
<1>2. ASSUME NEW s \in SUBSET S, s # {}, \A x \in s : s \ {x} \in T PROVE s \in T
  <2> DEFINE o == One(s)
             r == s \ {o}
  <2>1. o \in s /\ IsFiniteSet(s)
    BY <1>2, OneIn, FS_Subset
  <2>2. SumFunctionOnSet(f, s) = f[o] + SumFunctionOnSet(f, r)
    BY <1>2, <2>1, SumOne
  <2>3. SumFunctionOnSet(f, r) = c * Cardinality(r \cap U)
    BY <1>2, <2>1
  <2>4. IsFiniteSet(r \cap U) /\ Cardinality(r \cap U) \in Nat
    <3>1. r \cap U \subseteq s
      OBVIOUS
    <3> QED
      BY <2>1, <3>1, FS_Subset, FS_CardinalityType
  <2>5. CASE o \in U
    <3>1. s \cap U = (r \cap U) \cup {o} /\ o \notin r \cap U
      BY <2>1, <2>5
    <3> HIDE DEF o, r
    <3>2. Cardinality(s \cap U) = Cardinality(r \cap U) + 1
      BY <2>4, <3>1, FS_AddElement
    <3>3. f[o] = c
      BY <2>1, <2>5
    <3>4. SumFunctionOnSet(f, s) = c * Cardinality(s \cap U)
      BY <2>2, <2>3, <2>4, <3>2, <3>3
    <3> QED
      BY <3>4
  <2>6. CASE o \notin U
    <3>1. s \cap U = r \cap U
      BY <2>1, <2>6
    <3> HIDE DEF o, r
    <3>2. f[o] = 0
      BY <2>1, <2>6
    <3>3. Cardinality(s \cap U) = Cardinality(r \cap U)
      BY <3>1
    <3>4. SumFunctionOnSet(f, s) = c * Cardinality(s \cap U)
      BY <2>2, <2>3, <2>4, <3>2, <3>3
    <3> QED
      BY <3>4
  <2> QED
    BY <2>5, <2>6
<1> HIDE DEF T
<1>3. SUBSET S \subseteq T
  BY <1>1, <1>2, SubsetInduction
<1> QED
  BY <1>3 DEF T

(* The sum of f + c h is the sum of f and c times that of h.                *)
LEMMA SumLinear ==
  ASSUME NEW S, IsFiniteSet(S), NEW f, NEW g, NEW h, NEW c \in Int,
         \A x \in S : f[x] \in Int /\ h[x] \in Int /\ g[x] = f[x] + c * h[x]
  PROVE  SumFunctionOnSet(g, S) = SumFunctionOnSet(f, S) + c * SumFunctionOnSet(h, S)
<1> DEFINE T == {s \in SUBSET S :
                   SumFunctionOnSet(g, s) = SumFunctionOnSet(f, s) + c * SumFunctionOnSet(h, s)}
<1>1. {} \in T
  <2>1. SumFunctionOnSet(g, {}) = 0 /\ SumFunctionOnSet(f, {}) = 0 /\ SumFunctionOnSet(h, {}) = 0
    BY SumEmpty
  <2> QED
    BY <2>1
<1>2. ASSUME NEW s \in SUBSET S, s # {}, \A x \in s : s \ {x} \in T PROVE s \in T
  <2>1. One(s) \in s /\ IsFiniteSet(s) /\ IsFiniteSet(s \ {One(s)})
    BY <1>2, OneIn, FS_Subset
  <2>2. PICK e \in s : e = One(s)
    BY <2>1
  <2> DEFINE r == s \ {e}
             sf == SumFunctionOnSet(f, r)
             sh == SumFunctionOnSet(h, r)
  <2>3. /\ SumFunctionOnSet(g, s) = g[e] + SumFunctionOnSet(g, r)
        /\ SumFunctionOnSet(f, s) = f[e] + sf
        /\ SumFunctionOnSet(h, s) = h[e] + sh
    BY <1>2, <2>1, <2>2, SumOne
  <2>4. sf \in Int /\ sh \in Int
    BY <2>1, <2>2, SumInt
  <2>5. SumFunctionOnSet(g, r) = sf + c * sh
    BY <1>2
  <2>6. f[e] \in Int /\ h[e] \in Int /\ g[e] = f[e] + c * h[e] /\ e \in S
    OBVIOUS
  <2> HIDE DEF sf, sh, r, T
  <2>7. c * (h[e] + sh) = c * h[e] + c * sh
    BY <2>4, <2>6
  <2>8. SumFunctionOnSet(g, s) = SumFunctionOnSet(f, s) + c * SumFunctionOnSet(h, s)
    BY <2>3, <2>4, <2>5, <2>6, <2>7
  <2> QED
    BY <2>8 DEF T
<1> HIDE DEF T
<1>3. SUBSET S \subseteq T
  BY <1>1, <1>2, SubsetInduction
<1> QED
  BY <1>3 DEF T

(* A sum over a part of a set is the sum over all of it of the function     *)
(* that is zero elsewhere.                                                  *)
LEMMA SumPart ==
  ASSUME NEW S, IsFiniteSet(S), NEW A, A \subseteq S,
         NEW f, NEW g, \A x \in S : f[x] \in Int /\ g[x] \in Int,
         \A x \in A : g[x] = f[x], \A x \in S : x \notin A => g[x] = 0
  PROVE  SumFunctionOnSet(f, A) = SumFunctionOnSet(g, S)
<1> DEFINE T == {s \in SUBSET S : SumFunctionOnSet(f, s \cap A) = SumFunctionOnSet(g, s)}
<1>1. {} \in T
  <2>1. {} \cap A = {}
    OBVIOUS
  <2> QED
    BY <2>1, SumEmpty
<1>2. ASSUME NEW s \in SUBSET S, s # {}, \A x \in s : s \ {x} \in T PROVE s \in T
  <2>1. One(s) \in s /\ IsFiniteSet(s) /\ IsFiniteSet(s \ {One(s)}) /\ IsFiniteSet(s \cap A)
    BY <1>2, OneIn, FS_Subset
  <2>2. PICK e \in s : e = One(s)
    BY <2>1
  <2> DEFINE r == s \ {e}
  <2>3. SumFunctionOnSet(g, s) = g[e] + SumFunctionOnSet(g, r)
    BY <1>2, <2>1, <2>2, SumOne
  <2>4. SumFunctionOnSet(f, r \cap A) = SumFunctionOnSet(g, r)
    BY <1>2
  <2>5. /\ f[e] \in Int /\ g[e] = IF e \in A THEN f[e] ELSE 0
        /\ \A x \in s \cap A : f[x] \in Int
        /\ \A x \in r : g[x] \in Int
    OBVIOUS
  <2>6. SumFunctionOnSet(g, r) \in Int
    BY <2>1, <2>2, <2>5, SumInt
  <2> HIDE DEF T
  <2>7. CASE e \in A
    <3>1. e \in s \cap A /\ (s \cap A) \ {e} = r \cap A
      BY <2>7
    <3>2. SumFunctionOnSet(f, s \cap A) = f[e] + SumFunctionOnSet(f, r \cap A)
      BY <2>1, <2>5, <3>1, SumRemove
    <3> HIDE DEF r
    <3> QED
      BY <2>3, <2>4, <2>5, <2>7, <3>2 DEF T
  <2>8. CASE e \notin A
    <3>1. s \cap A = r \cap A
      BY <2>8
    <3>2. SumFunctionOnSet(f, s \cap A) = SumFunctionOnSet(f, r \cap A)
      BY <3>1
    <3> HIDE DEF r
    <3>3. SumFunctionOnSet(f, s \cap A) = SumFunctionOnSet(g, s)
      BY <2>3, <2>4, <2>5, <2>6, <2>8, <3>2
    <3> QED
      BY <3>3 DEF T
  <2> QED
    BY <2>7, <2>8
<1> HIDE DEF T
<1>3. SUBSET S \subseteq T
  BY <1>1, <1>2, SubsetInduction
<1>4. SumFunctionOnSet(f, S \cap A) = SumFunctionOnSet(g, S)
  BY <1>3 DEF T
<1>5. S \cap A = A
  OBVIOUS
<1> QED
  BY <1>4, <1>5

(* Summing over two parts of a set is summing over the set.                 *)
LEMMA SumSplit ==
  ASSUME NEW S, IsFiniteSet(S), NEW A, A \subseteq S, NEW f, \A x \in S : f[x] \in Int
  PROVE  SumFunctionOnSet(f, S) = SumFunctionOnSet(f, A) + SumFunctionOnSet(f, S \ A)
<1> DEFINE B == S \ A
           g == [x \in S |-> IF x \in A THEN f[x] ELSE 0]
           h == [x \in S |-> IF x \in B THEN f[x] ELSE 0]
<1>1. /\ \A x \in A : g[x] = f[x]
      /\ \A x \in S : x \notin A => g[x] = 0
      /\ \A x \in B : h[x] = f[x]
      /\ \A x \in S : x \notin B => h[x] = 0
      /\ \A x \in S : f[x] \in Int /\ g[x] \in Int
      /\ \A x \in S : f[x] \in Int /\ h[x] \in Int
      /\ B \subseteq S
  OBVIOUS
<1>2. PICK c \in Int : c = 1
  OBVIOUS
<1>3. \A x \in S : g[x] \in Int /\ h[x] \in Int /\ f[x] = g[x] + c * h[x]
  BY <1>2
<1> HIDE DEF B, g, h
<1>4. SumFunctionOnSet(f, A) = SumFunctionOnSet(g, S)
  BY <1>1, SumPart
<1>5. SumFunctionOnSet(f, B) = SumFunctionOnSet(h, S)
  BY <1>1, SumPart
<1>6. SumFunctionOnSet(f, S) = SumFunctionOnSet(g, S) + c * SumFunctionOnSet(h, S)
  BY <1>3, SumLinear
<1>7. SumFunctionOnSet(h, S) \in Int
  BY <1>1, SumInt
<1>8. SumFunctionOnSet(f, S) = SumFunctionOnSet(f, A) + SumFunctionOnSet(f, B)
  BY <1>2, <1>4, <1>5, <1>6, <1>7
<1> QED
  BY <1>8 DEF B

(* The same facts for SumFunction, the sum over the whole domain.           *)
LEMMA SumOfFunction ==
  ASSUME NEW S, NEW f, DOMAIN f = S
  PROVE  SumFunction(f) = SumFunctionOnSet(f, S)
BY DEF SumFunction


-----------------------------------------------------------------------------
(* Extrema.                                                                 *)

(* A finite set of integers that is not empty has a least and a greatest    *)
(* element, which Min and Max then are.                                     *)
LEMMA ExtremaExist ==
  ASSUME NEW S, IsFiniteSet(S), S # {}, S \subseteq Int
  PROVE  /\ \E x \in S : \A y \in S : x <= y
         /\ \E x \in S : \A y \in S : x >= y
<1> DEFINE T == {s \in SUBSET S : s = {} \/ ( /\ \E x \in s : \A y \in s : x <= y
                                            /\ \E x \in s : \A y \in s : x >= y )}
<1>1. {} \in T
  OBVIOUS
<1>2. ASSUME NEW s \in SUBSET S, s # {}, \A x \in s : s \ {x} \in T PROVE s \in T
  <2>1. PICK e \in s : TRUE
    BY <1>2
  <2>2. CASE s \ {e} = {}
    <3>1. \A y \in s : y = e
      BY <2>2
    <3> QED
      BY <2>1, <3>1
  <2>3. CASE s \ {e} # {}
    <3>1. PICK lo \in s \ {e} : \A y \in s \ {e} : lo <= y
      BY <1>2, <2>1, <2>3
    <3>2. PICK hi \in s \ {e} : \A y \in s \ {e} : hi >= y
      BY <1>2, <2>1, <2>3
    <3>3. \A y \in s : y \in Int /\ (y = e \/ y \in s \ {e})
      OBVIOUS
    <3>4. \E x \in s : \A y \in s : x <= y
      <4>1. CASE lo <= e
        BY <3>1, <3>3, <4>1
      <4>2. CASE e < lo
        BY <3>1, <3>3, <4>2
      <4> QED
        BY <3>3, <4>1, <4>2
    <3>5. \E x \in s : \A y \in s : x >= y
      <4>1. CASE hi >= e
        BY <3>2, <3>3, <4>1
      <4>2. CASE e > hi
        BY <3>2, <3>3, <4>2
      <4> QED
        BY <3>3, <4>1, <4>2
    <3> QED
      BY <3>4, <3>5
  <2> QED
    BY <2>2, <2>3
<1> HIDE DEF T
<1>3. SUBSET S \subseteq T
  BY <1>1, <1>2, SubsetInduction
<1> QED
  BY <1>3 DEF T

-----------------------------------------------------------------------------
(* Ledgers.                                                                 *)

(* Moving an amount from one account to another keeps every balance a       *)
(* natural and the sum of the balances as it was.                           *)
LEMMA MoveKeepsSum ==
  ASSUME NEW H, IsFiniteSet(H), NEW f \in [H -> Nat], NEW from \in H, NEW to \in H,
         from # to, NEW v \in Nat,
         f[from] >= v
  PROVE  LET g == [f EXCEPT ![from] = @ - v, ![to] = @ + v]
         IN  g \in [H -> Nat] /\ SumFunction(g) = SumFunction(f)
<1> DEFINE h == [f EXCEPT ![from] = @ - v]
           g == [f EXCEPT ![from] = @ - v, ![to] = @ + v]
<1>1. f[from] - v \in Nat /\ f[to] + v \in Nat
  OBVIOUS
<1>2. h \in [H -> Nat] /\ g \in [H -> Nat]
  BY <1>1
<1>3. /\ h[from] = f[from] - v /\ g[to] = f[to] + v /\ h[to] = f[to]
      /\ \A x \in H \ {from} : h[x] = f[x]
      /\ \A x \in H \ {to} : g[x] = h[x]
  OBVIOUS
<1> HIDE DEF h, g
<1>4. SumFunctionOnSet(h, H) = SumFunctionOnSet(f, H) - f[from] + h[from]
  BY <1>2, <1>3, SumChange
<1>5. SumFunctionOnSet(g, H) = SumFunctionOnSet(h, H) - h[to] + g[to]
  BY <1>2, <1>3, SumChange
<1>6. SumFunctionOnSet(f, H) \in Int /\ SumFunctionOnSet(h, H) \in Int
  BY <1>2, SumInt
<1>7. SumFunctionOnSet(g, H) = SumFunctionOnSet(f, H)
  <2>1. f[from] \in Int /\ f[to] \in Int /\ v \in Int
    OBVIOUS
  <2> QED
    BY <1>3, <1>4, <1>5, <1>6, <2>1
<1>8. g \in [H -> Nat] /\ SumFunction(g) = SumFunction(f)
  BY <1>2, <1>7, SumOfFunction
<1> QED
  BY <1>8 DEF g

-----------------------------------------------------------------------------
(* Multiplication and division.                                             *)

(* Multiplication by a natural is monotonic.                                *)
LEMMA MulMono ==
  ASSUME NEW a \in Nat, NEW b \in Nat, NEW c \in Nat, a <= b
  PROVE  a * c <= b * c
<1>1. \E d \in Nat : b = a + d
  <2>1. b - a \in Nat /\ b = a + (b - a)
    OBVIOUS
  <2> QED
    BY <2>1
<1>2. PICK d \in Nat : b = a + d
  BY <1>1
<1>3. b * c = a * c + d * c
  BY <1>2
<1>4. d * c >= 0 /\ a * c \in Nat
  OBVIOUS
<1> QED
  BY <1>3, <1>4

(* Integer division rounds down.                                            *)
LEMMA DivFloor ==
  ASSUME NEW a \in Nat, NEW c \in Nat \ {0}
  PROVE  /\ a \div c \in Nat
         /\ (a \div c) * c <= a
         /\ a < (a \div c + 1) * c
  OBVIOUS

(* A quotient is at most b when the dividend is at most b times the divisor. *)
LEMMA DivAtMost ==
  ASSUME NEW a \in Nat, NEW b \in Nat, NEW c \in Nat \ {0}, a <= b * c
  PROVE  a \div c <= b
<1> DEFINE q == a \div c
<1>1. q \in Nat /\ q * c <= a
  BY DivFloor
<1>2. SUFFICES ASSUME b + 1 <= q PROVE FALSE
  BY <1>1
<1>3. (b + 1) * c <= q * c
  BY <1>1, <1>2, MulMono
<1>4. (b + 1) * c = b * c + c
  OBVIOUS
<1>5. b * c \in Nat /\ q * c \in Nat
  BY <1>1
<1> HIDE DEF q
<1> QED
  BY <1>1, <1>3, <1>4, <1>5

=============================================================================
