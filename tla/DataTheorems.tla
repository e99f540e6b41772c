---------------------------- MODULE DataTheorems ---------------------------
(***************************************************************************)
(* What the proofs rest on that is not about the gateway.                  *)
(*                                                                         *)
(* First, SumFunctionOnSet of the community modules, the sum of a          *)
(* function's values over a finite set.  Its definition chooses the        *)
(* elements one by one in a recursive function; what is proved here does   *)
(* not depend on the choice.  Induction is by a smallest counterexample:   *)
(* of the subsets of a finite set that violate a claim, one has no proper  *)
(* subset that does.  That Min finds the least of a finite set of numbers  *)
(* follows in the same way.                                                *)
(*                                                                         *)
(* Then, induction over the numbers and the existence of recursive         *)
(* functions, both with sets in the place of operators: what is to be      *)
(* shown is a set of numbers, and one round of a recursion is a function   *)
(* of the recursive function.  FlattenSeq is the first use of the two.     *)
(***************************************************************************)
EXTENDS Integers, SequencesExt, FiniteSetTheorems, SequenceTheorems, TLAPS

(* The element that is taken first, and one round of the recursion.         *)
First(s) == CHOOSE x \in s: TRUE

Round(f, g, s) == IF s = {} THEN 0 ELSE f[First(s)] + g[s \ {First(s)}]

(* g is the recursive function that SumFunctionOnSet(f, S) applies to S.    *)
Unrolls(f, S, g) == g = [s \in SUBSET S |-> Round(f, g, s)]

(* The library's definition is the choice of such a function.               *)
LEMMA SumIsUnrolled ==
  ASSUME NEW f, NEW S
  PROVE  SumFunctionOnSet(f, S) = (CHOOSE g: Unrolls(f, S, g))[S]
BY DEF SumFunctionOnSet, FoldFunctionOnSet, MapThenFoldSet, Unrolls, Round, First

(* A set of subsets of a finite set has a smallest member.                  *)
LEMMA SmallestSubset ==
  ASSUME NEW S, IsFiniteSet(S), NEW T, T \subseteq SUBSET S, T # {}
  PROVE  \E s \in T: \A u \in T: u \subseteq s => u = s
<1> DEFINE R == StrictSubsetOrdering(S)
<1>1. IsWellFoundedOn(R, SUBSET S)
  BY FS_StrictSubsetOrderingWellFounded, FS_FiniteSubsetsOfFinite
<1>2. PICK s \in T: \A u \in T: ~(<<u, s>> \in R)
  <2> HIDE DEF R
  <2> QED BY <1>1, WFMin
<1>3. ASSUME NEW u \in T, u \subseteq s PROVE u = s
  BY <1>2, <1>3 DEF StrictSubsetOrdering
<1> QED
  BY <1>3

(* Two functions that unroll the same sum agree where both are defined.     *)
LEMMA UnrollUnique ==
  ASSUME NEW f, NEW S, IsFiniteSet(S), NEW U \in SUBSET S, NEW g, NEW h,
         Unrolls(f, S, g), Unrolls(f, U, h)
  PROVE  \A s \in SUBSET U: g[s] = h[s]
<1> DEFINE Bad == {s \in SUBSET U: g[s] # h[s]}
<1> SUFFICES ASSUME Bad # {} PROVE FALSE
  OBVIOUS
<1>1. PICK s \in Bad: \A u \in Bad: u \subseteq s => u = s
  <2>1. Bad \subseteq SUBSET S
    OBVIOUS
  <2> HIDE DEF Bad
  <2> QED BY <2>1, SmallestSubset
<1>2. g[s] = Round(f, g, s) /\ h[s] = Round(f, h, s)
  BY DEF Unrolls
<1>3. s # {}
  BY <1>1, <1>2 DEF Round
<1>4. First(s) \in s
  BY <1>3 DEF First
<1>5. s \ {First(s)} \in SUBSET U /\ s \ {First(s)} \notin Bad
  BY <1>1, <1>4
<1>6. g[s \ {First(s)}] = h[s \ {First(s)}]
  BY <1>5
<1> QED
  BY <1>1, <1>2, <1>6 DEF Round

(* There is such a function.                                                *)
LEMMA UnrollExists ==
  ASSUME NEW f, NEW S, IsFiniteSet(S)
  PROVE  \E g: Unrolls(f, S, g)
<1> DEFINE Bad == {s \in SUBSET S: ~\E g: Unrolls(f, s, g)}
<1> SUFFICES ASSUME Bad # {} PROVE FALSE
  OBVIOUS
<1>1. PICK s \in Bad: \A u \in Bad: u \subseteq s => u = s
  <2>1. Bad \subseteq SUBSET S
    OBVIOUS
  <2> HIDE DEF Bad
  <2> QED BY <2>1, SmallestSubset
<1> DEFINE Part(u) == CHOOSE g: Unrolls(f, u, g)
           Value(u) == Part(u)[u]
           Whole == [u \in SUBSET s |->
                       IF u # s THEN Value(u)
                       ELSE IF s = {} THEN 0
                       ELSE f[First(s)] + Value(s \ {First(s)})]
<1>2. ASSUME NEW u \in SUBSET s, u # s
      PROVE  Unrolls(f, u, Part(u))
  <2>1. u \in SUBSET S /\ u \notin Bad
    BY <1>1, <1>2
  <2>2. \E g: Unrolls(f, u, g)
    BY <2>1
  <2> QED BY <2>2
<1>3. ASSUME NEW u \in SUBSET s, u # {}
      PROVE  /\ First(u) \in u
             /\ u \ {First(u)} \in SUBSET s /\ u \ {First(u)} # s
  BY <1>3 DEF First
<1>4. ASSUME NEW u \in SUBSET s, u # s
      PROVE  Value(u) = IF u = {} THEN 0 ELSE f[First(u)] + Value(u \ {First(u)})
  <2> DEFINE v == u \ {First(u)}
  <2>1. Unrolls(f, u, Part(u))
    BY <1>2, <1>4
  <2>2. Part(u)[u] = Round(f, Part(u), u)
    <3> HIDE DEF Part
    <3> QED BY <2>1 DEF Unrolls
  <2>3. ASSUME u # {} PROVE Part(u)[v] = Part(v)[v]
    <3>1. v \in SUBSET u /\ v \in SUBSET s /\ v # s
      BY <1>3, <2>3
    <3>2. Unrolls(f, v, Part(v))
      BY <1>2, <3>1
    <3>3. IsFiniteSet(u)
      BY FS_Subset, <1>4
    <3> HIDE DEF Part, v
    <3> QED BY <2>1, <3>1, <3>2, <3>3, UnrollUnique
  <2> HIDE DEF Part
  <2> QED BY <2>2, <2>3 DEF Round
<1>5. Whole = [u \in SUBSET s |-> Round(f, Whole, u)]
  <2>1. ASSUME NEW u \in SUBSET s
        PROVE  Whole[u] = Round(f, Whole, u)
    <3> HIDE DEF Value
    <3>1. CASE u = {}
      <4>1. CASE s = {}
        BY <3>1, <4>1 DEF Round
      <4>2. CASE s # {}
        BY <1>4, <3>1, <4>2 DEF Round
      <4> QED BY <4>1, <4>2
    <3>2. CASE u # {}
      <4>1. /\ u \ {First(u)} \in SUBSET s /\ u \ {First(u)} # s
        BY <1>3, <3>2
      <4>2. Whole[u \ {First(u)}] = Value(u \ {First(u)})
        BY <4>1
      <4>3. Whole[u] = f[First(u)] + Value(u \ {First(u)})
        BY <1>4, <3>2
      <4> HIDE DEF Whole
      <4> QED BY <3>2, <4>2, <4>3 DEF Round
    <3> QED BY <3>1, <3>2
  <2> QED
    BY <2>1
<1>6. Unrolls(f, s, Whole)
  <2> HIDE DEF Whole
  <2> QED BY <1>5 DEF Unrolls
<1> QED
  BY <1>1, <1>6

(* A finite set that a relation orders totally has a least element.         *)
LEMMA LeastElement ==
  ASSUME NEW S, IsFiniteSet(S), S # {}, NEW R,
         \A x, y \in S: <<x, y>> \in R \/ <<y, x>> \in R,
         \A x, y, z \in S: <<x, y>> \in R /\ <<y, z>> \in R => <<x, z>> \in R
  PROVE  \E x \in S: \A y \in S: <<x, y>> \in R
<1> DEFINE HasLeast(s) == \E x \in s: \A y \in s: <<x, y>> \in R
           Bad == {s \in SUBSET S: s # {} /\ ~HasLeast(s)}
<1> SUFFICES ASSUME Bad # {} PROVE FALSE
  OBVIOUS
<1>1. PICK s \in Bad: \A u \in Bad: u \subseteq s => u = s
  <2>1. Bad \subseteq SUBSET S
    OBVIOUS
  <2> HIDE DEF Bad
  <2> QED BY <2>1, SmallestSubset
<1>2. s \in SUBSET S /\ s # {} /\ ~HasLeast(s)
  BY <1>1
<1>3. PICK x \in s: TRUE
  BY <1>2
<1>4. s \ {x} # {}
  <2> SUFFICES ASSUME s = {x} PROVE FALSE
    BY <1>3
  <2> QED BY <1>2, <1>3
<1>5. HasLeast(s \ {x})
  <2>1. s \ {x} \in SUBSET S /\ s \ {x} # s
    BY <1>2, <1>3
  <2>2. s \ {x} \notin Bad
    <3> HIDE DEF Bad
    <3> QED BY <1>1, <2>1
  <2> HIDE DEF HasLeast
  <2> QED BY <1>4, <2>1, <2>2
<1>6. PICK z \in s \ {x}: \A y \in s \ {x}: <<z, y>> \in R
  BY <1>5
<1>7. x \in S /\ z \in S /\ \A y \in s: y \in S
  BY <1>2, <1>3, <1>6
<1>8. CASE <<z, x>> \in R
  BY <1>2, <1>6, <1>8
<1>9. CASE <<x, z>> \in R
  <2>1. <<x, x>> \in R
    BY <1>7
  <2>2. \A y \in s: <<x, y>> \in R
    BY <1>6, <1>7, <1>9, <2>1
  <2> QED BY <1>2, <1>3, <2>2
<1> QED
  BY <1>7, <1>8, <1>9

(* Min chooses the least of a finite set of numbers.                        *)
THEOREM MinProperty ==
  ASSUME NEW S, IsFiniteSet(S), S \subseteq Int, S # {}
  PROVE  Min(S) \in S /\ \A x \in S: Min(S) <= x
<1> DEFINE R == {p \in Int \X Int: p[1] <= p[2]}
<1>1. \A x, y \in S: <<x, y>> \in R <=> x <= y
  OBVIOUS
<1>2. /\ \A x, y \in S: <<x, y>> \in R \/ <<y, x>> \in R
      /\ \A x, y, z \in S: <<x, y>> \in R /\ <<y, z>> \in R => <<x, z>> \in R
  <2>1. \A x \in S: x \in Int
    OBVIOUS
  <2> HIDE DEF R
  <2> QED BY <1>1, <2>1
<1>3. \E x \in S: \A y \in S: <<x, y>> \in R
  <2> HIDE DEF R
  <2> QED BY <1>2, LeastElement
<1>4. \E x \in S: \A y \in S: x <= y
  BY <1>1, <1>3
<1> QED
  BY <1>4 DEF Min

(* The elements of a finite set of numbers have different ranks in it: an   *)
(* index into a list that is kept in order names one element of it.         *)
THEOREM RankInjective ==
  ASSUME NEW S, IsFiniteSet(S), S \subseteq Int, NEW c \in S, NEW d \in S,
         Cardinality({x \in S: x < c}) = Cardinality({x \in S: x < d})
  PROVE  c = d
<1>1. ASSUME NEW a \in S, NEW b \in S, a < b
      PROVE  Cardinality({x \in S: x < a}) # Cardinality({x \in S: x < b})
  <2> DEFINE A == {x \in S: x < a}
             B == {x \in S: x < b}
  <2>1. A \subseteq B
    <3> SUFFICES ASSUME NEW x \in S, x < a PROVE x < b
      OBVIOUS
    <3>1. x \in Int /\ a \in Int /\ b \in Int
      OBVIOUS
    <3> QED BY <1>1, <3>1
  <2>2. a \in B /\ a \notin A
    BY <1>1
  <2>3. IsFiniteSet(B)
    BY FS_Subset
  <2> HIDE DEF A, B
  <2>4. Cardinality(A) # Cardinality(B)
    BY <2>1, <2>2, <2>3, FS_Subset
  <2> QED BY <2>4 DEF A, B
<1>2. c \in Int /\ d \in Int
  OBVIOUS
<1>3. ~(c < d) /\ ~(d < c)
  BY <1>1
<1> QED
  BY <1>2, <1>3

(* Every index below the length of the list names an element.               *)
THEOREM RankSurjective ==
  ASSUME NEW S, IsFiniteSet(S), S \subseteq Int,
         NEW i \in Nat, i < Cardinality(S)
  PROVE  \E c \in S: Cardinality({x \in S: x < c}) = i
<1> DEFINE n == Cardinality(S)
           rank == [c \in S |-> Cardinality({x \in S: x < c})]
<1>1. n \in Nat
  BY FS_CardinalityType
<1>2. ASSUME NEW c \in S
      PROVE  Cardinality({x \in S: x < c}) \in 0..(n - 1)
  <2> DEFINE B == {x \in S: x < c}
  <2>1. B \in SUBSET S /\ c \notin B
    <3>1. c \in Int
      OBVIOUS
    <3> QED BY <3>1
  <2> HIDE DEF B
  <2>2. IsFiniteSet(B) /\ Cardinality(B) <= n /\ Cardinality(B) # n
    BY <2>1, FS_Subset
  <2>3. Cardinality(B) \in Nat
    BY <2>2, FS_CardinalityType
  <2>4. Cardinality(B) \in 0..(n - 1)
    BY <1>1, <2>2, <2>3
  <2> QED BY <2>4 DEF B
<1>3. rank \in [S -> 0..(n - 1)]
  BY <1>2
<1>4. \A c, d \in S: rank[c] = rank[d] => c = d
  BY ZenonT(30), RankInjective
<1>5. rank \in Injection(S, 0..(n - 1))
  <2> HIDE DEF rank
  <2> QED BY <1>3, <1>4 DEF Injection, IsInjective
<1>6. IsFiniteSet(0..(n - 1)) /\ Cardinality(0..(n - 1)) = n
  <2>1. i < n
    OBVIOUS
  <2> HIDE DEF n
  <2>2. n - 1 \in Int /\ 0 \in Int /\ ~(0 > n - 1) /\ (n - 1) - 0 + 1 = n
    BY <1>1, <2>1
  <2>3. IsFiniteSet(0..(n - 1)) /\ Cardinality(0..(n - 1)) = (n - 1) - 0 + 1
    BY <2>2, FS_Interval
  <2> QED BY <2>2, <2>3
<1>7. rank \in Surjection(S, 0..(n - 1))
  <2> HIDE DEF rank, n
  <2>1. Cardinality(S) = Cardinality(0..(n - 1))
    BY <1>6 DEF n
  <2> QED BY <1>5, <1>6, <2>1, FS_Injection
<1>8. i \in 0..(n - 1)
  BY <1>1
<1>9. \E c \in S: rank[c] = i
  <2> HIDE DEF rank, n
  <2> QED BY <1>7, <1>8 DEF Surjection
<1> QED BY <1>9

-----------------------------------------------------------------------------
(* The recursion, with the sums of the smaller sets in it.                  *)
LEMMA SumRound ==
  ASSUME NEW f, NEW S, IsFiniteSet(S)
  PROVE  SumFunctionOnSet(f, S) =
           IF S = {} THEN 0
           ELSE f[First(S)] + SumFunctionOnSet(f, S \ {First(S)})
<1> DEFINE Part(u) == CHOOSE g: Unrolls(f, u, g)
           T == S \ {First(S)}
<1>1. Unrolls(f, S, Part(S))
  BY UnrollExists
<1>2. IsFiniteSet(T)
  BY FS_Subset
<1>3. Unrolls(f, T, Part(T))
  BY <1>2, UnrollExists
<1>4. SumFunctionOnSet(f, S) = Part(S)[S] /\ SumFunctionOnSet(f, T) = Part(T)[T]
  BY SumIsUnrolled
<1> HIDE DEF Part
<1>5. Part(S)[S] = Round(f, Part(S), S)
  BY <1>1 DEF Unrolls
<1>6. Part(S)[T] = Part(T)[T]
  <2>1. T \in SUBSET S /\ T \in SUBSET T
    OBVIOUS
  <2> HIDE DEF T
  <2> QED BY <1>1, <1>3, <2>1, UnrollUnique
<1> QED
  BY <1>4, <1>5, <1>6 DEF Round

(* Nothing adds up to 0: what a window, a day or a series starts with.      *)
THEOREM SumEmpty == \A f: SumFunctionOnSet(f, {}) = 0
BY SumRound, FS_EmptySet

(* Counts add up to a count.                                                *)
THEOREM SumType ==
  ASSUME NEW S, IsFiniteSet(S), NEW f, \A x \in S: f[x] \in Nat
  PROVE  SumFunctionOnSet(f, S) \in Nat
<1> DEFINE Bad == {s \in SUBSET S: SumFunctionOnSet(f, s) \notin Nat}
<1> SUFFICES ASSUME Bad # {} PROVE FALSE
  OBVIOUS
<1>1. PICK s \in Bad: \A u \in Bad: u \subseteq s => u = s
  <2>1. Bad \subseteq SUBSET S
    OBVIOUS
  <2> HIDE DEF Bad
  <2> QED BY <2>1, SmallestSubset
<1>2. IsFiniteSet(s)
  BY FS_Subset
<1>3. s # {}
  <2>1. SumFunctionOnSet(f, s) \notin Nat
    BY <1>1
  <2>2. SumFunctionOnSet(f, {}) \in Nat
    BY SumEmpty
  <2> QED BY <2>1, <2>2
<1>4. First(s) \in s
  BY <1>3 DEF First
<1>5. SumFunctionOnSet(f, s \ {First(s)}) \in Nat
  BY <1>1, <1>4
<1>6. SumFunctionOnSet(f, s) = f[First(s)] + SumFunctionOnSet(f, s \ {First(s)})
  BY <1>2, <1>3, SumRound
<1>7. f[First(s)] \in Nat
  BY <1>4
<1> QED
  BY <1>1, <1>5, <1>6, <1>7

(* Any element can be taken first.                                          *)
THEOREM SumRemove ==
  ASSUME NEW S, IsFiniteSet(S), NEW f, \A x \in S: f[x] \in Nat, NEW x \in S
  PROVE  SumFunctionOnSet(f, S) = f[x] + SumFunctionOnSet(f, S \ {x})
<1> DEFINE Sum(s) == SumFunctionOnSet(f, s)
           Bad == {s \in SUBSET S: \E y \in s: Sum(s) # f[y] + Sum(s \ {y})}
<1> SUFFICES ASSUME Bad # {} PROVE FALSE
  OBVIOUS
<1>1. PICK s \in Bad: \A u \in Bad: u \subseteq s => u = s
  <2>1. Bad \subseteq SUBSET S
    OBVIOUS
  <2> HIDE DEF Bad
  <2> QED BY <2>1, SmallestSubset
<1>2. PICK y \in s: Sum(s) # f[y] + Sum(s \ {y})
  BY <1>1
<1> DEFINE c == First(s)
<1>3. c \in s
  BY DEF First
<1>4. Sum(s) = f[c] + Sum(s \ {c})
  BY FS_Subset, SumRound
<1>5. y # c
  BY <1>2, <1>4
<1>6. ASSUME NEW u \in SUBSET S, u \subseteq s, u # s, NEW z \in u
      PROVE  Sum(u) = f[z] + Sum(u \ {z})
  BY <1>1, <1>6
<1>7. Sum(s \ {c}) = f[y] + Sum((s \ {c}) \ {y})
  BY <1>3, <1>5, <1>6
<1>8. Sum(s \ {y}) = f[c] + Sum((s \ {y}) \ {c})
  BY <1>3, <1>5, <1>6
<1>9. (s \ {c}) \ {y} = (s \ {y}) \ {c}
  OBVIOUS
<1>10. f[c] \in Nat /\ f[y] \in Nat /\ Sum((s \ {c}) \ {y}) \in Nat
  <2>1. IsFiniteSet((s \ {c}) \ {y})
    BY FS_Subset
  <2> QED BY <1>3, <2>1, SumType
<1> HIDE DEF Sum, c, Bad
<1> QED
  BY <1>2, <1>4, <1>7, <1>8, <1>9, <1>10

(* The sum is that of the values at the elements, and of nothing else.      *)
THEOREM SumSame ==
  ASSUME NEW S, IsFiniteSet(S), NEW f, NEW g, \A x \in S: f[x] = g[x]
  PROVE  SumFunctionOnSet(f, S) = SumFunctionOnSet(g, S)
<1> DEFINE Bad == {s \in SUBSET S: SumFunctionOnSet(f, s) # SumFunctionOnSet(g, s)}
<1> SUFFICES ASSUME Bad # {} PROVE FALSE
  OBVIOUS
<1>1. PICK s \in Bad: \A u \in Bad: u \subseteq s => u = s
  <2>1. Bad \subseteq SUBSET S
    OBVIOUS
  <2> HIDE DEF Bad
  <2> QED BY <2>1, SmallestSubset
<1>2. s \in SUBSET S /\ SumFunctionOnSet(f, s) # SumFunctionOnSet(g, s)
  BY <1>1
<1>3. s # {}
  BY <1>2, SumEmpty
<1>4. First(s) \in s
  BY <1>3 DEF First
<1>5. SumFunctionOnSet(f, s \ {First(s)}) = SumFunctionOnSet(g, s \ {First(s)})
  BY <1>1, <1>4
<1>6. IsFiniteSet(s)
  BY <1>2, FS_Subset
<1>7. f[First(s)] = g[First(s)]
  BY <1>2, <1>4
<1> QED
  BY <1>2, <1>3, <1>5, <1>6, <1>7, SumRound

(* One value changes, as when a counter is added to or reset.               *)
THEOREM SumChange ==
  ASSUME NEW S, IsFiniteSet(S), NEW f, NEW g, NEW x \in S,
         \A y \in S: f[y] \in Nat /\ g[y] \in Nat,
         \A y \in S \ {x}: g[y] = f[y]
  PROVE  SumFunctionOnSet(g, S) = SumFunctionOnSet(f, S) - f[x] + g[x]
<1>1. IsFiniteSet(S \ {x})
  BY FS_Subset
<1>2. SumFunctionOnSet(g, S \ {x}) = SumFunctionOnSet(f, S \ {x})
  BY <1>1, SumSame
<1>3. SumFunctionOnSet(f, S \ {x}) \in Nat
  BY <1>1, SumType
<1>4. /\ SumFunctionOnSet(f, S) = f[x] + SumFunctionOnSet(f, S \ {x})
      /\ SumFunctionOnSet(g, S) = g[x] + SumFunctionOnSet(g, S \ {x})
  BY SumRemove
<1> QED
  BY <1>2, <1>3, <1>4

(* One element more.                                                        *)
THEOREM SumAdd ==
  ASSUME NEW S, IsFiniteSet(S), NEW x, x \notin S, NEW f,
         f[x] \in Nat, \A y \in S: f[y] \in Nat
  PROVE  SumFunctionOnSet(f, S \cup {x}) = SumFunctionOnSet(f, S) + f[x]
<1>1. IsFiniteSet(S \cup {x})
  BY FS_AddElement
<1>2. (S \cup {x}) \ {x} = S /\ x \in S \cup {x}
  OBVIOUS
<1>3. \A y \in S \cup {x}: f[y] \in Nat
  OBVIOUS
<1> DEFINE T == S \cup {x}
<1> HIDE DEF T
<1>4. SumFunctionOnSet(f, T) = f[x] + SumFunctionOnSet(f, T \ {x})
  BY <1>1, <1>2, <1>3, SumRemove DEF T
<1>5. SumFunctionOnSet(f, S) \in Nat
  BY SumType
<1>6. T \ {x} = S
  BY <1>2 DEF T
<1>7. SumFunctionOnSet(f, T) = f[x] + SumFunctionOnSet(f, S)
  BY <1>4, <1>6
<1>8. SumFunctionOnSet(f, T) = SumFunctionOnSet(f, S) + f[x]
  BY <1>5, <1>7
<1> QED
  BY <1>8 DEF T

(* No value is larger than the sum.                                         *)
THEOREM SumElement ==
  ASSUME NEW S, IsFiniteSet(S), NEW f, \A y \in S: f[y] \in Nat, NEW x \in S
  PROVE  f[x] <= SumFunctionOnSet(f, S)
<1>1. SumFunctionOnSet(f, S) = f[x] + SumFunctionOnSet(f, S \ {x})
  BY SumRemove
<1>2. SumFunctionOnSet(f, S \ {x}) \in Nat
  BY FS_Subset, SumType
<1> QED
  BY <1>1, <1>2

(* More elements do not make the sum smaller.                               *)
THEOREM SumSubset ==
  ASSUME NEW S, IsFiniteSet(S), NEW f, \A y \in S: f[y] \in Nat, NEW T \in SUBSET S
  PROVE  SumFunctionOnSet(f, T) <= SumFunctionOnSet(f, S)
<1> DEFINE Sum(s) == SumFunctionOnSet(f, s)
           Bad == {s \in SUBSET S: T \subseteq s /\ ~(Sum(T) <= Sum(s))}
<1> SUFFICES ASSUME Bad # {} PROVE FALSE
  OBVIOUS
<1>1. PICK s \in Bad: \A u \in Bad: u \subseteq s => u = s
  <2>1. Bad \subseteq SUBSET S
    OBVIOUS
  <2> HIDE DEF Bad
  <2> QED BY <2>1, SmallestSubset
<1>2. s \in SUBSET S /\ T \subseteq s /\ ~(Sum(T) <= Sum(s))
  BY <1>1
<1>3. \A u \in SUBSET S: Sum(u) \in Nat
  <2> TAKE u \in SUBSET S
  <2>1. IsFiniteSet(u)
    BY FS_Subset
  <2> QED BY <2>1, SumType
<1>4. PICK x \in s: x \notin T
  <2>1. T # s
    BY <1>2, <1>3
  <2> QED BY <1>2, <2>1
<1>5. Sum(T) <= Sum(s \ {x})
  BY <1>1, <1>2, <1>4
<1>6. Sum(s) = f[x] + Sum(s \ {x})
  BY <1>2, FS_Subset, SumRemove
<1>7. f[x] \in Nat /\ Sum(s \ {x}) \in Nat /\ Sum(T) \in Nat
  BY <1>2, <1>3
<1> HIDE DEF Sum, Bad
<1> QED
  BY <1>2, <1>5, <1>6, <1>7

(* Nothing from everyone is nothing.                                        *)
THEOREM SumZero ==
  ASSUME NEW S, IsFiniteSet(S), NEW f, \A x \in S: f[x] = 0
  PROVE  SumFunctionOnSet(f, S) = 0
<1> DEFINE Bad == {s \in SUBSET S: SumFunctionOnSet(f, s) # 0}
<1>1. Bad \subseteq SUBSET S
  OBVIOUS
<1>2. Bad = {}
  <2> SUFFICES ASSUME Bad # {} PROVE FALSE
    OBVIOUS
  <2>1. PICK s \in Bad: \A u \in Bad: u \subseteq s => u = s
    <3> HIDE DEF Bad
    <3> QED BY <1>1, SmallestSubset
  <2>2. s \in SUBSET S /\ SumFunctionOnSet(f, s) # 0
    OBVIOUS
  <2>3. IsFiniteSet(s)
    BY <2>2, FS_Subset
  <2>4. PICK x \in s: TRUE
    BY <2>2, SumEmpty
  <2>5. s \ {x} \notin Bad /\ s \ {x} \in SUBSET S
    BY <2>1, <2>2, <2>4
  <2>6. SumFunctionOnSet(f, s \ {x}) = 0
    BY <2>5
  <2>7. \A y \in s: f[y] = 0 /\ f[y] \in Nat
    BY <2>2
  <2>8. SumFunctionOnSet(f, s) = f[x] + SumFunctionOnSet(f, s \ {x})
    BY <2>3, <2>4, <2>7, SumRemove
  <2>9. f[x] = 0
    BY <2>4, <2>7
  <2> QED BY <2>2, <2>6, <2>8, <2>9
<1> QED BY <1>2

-----------------------------------------------------------------------------
(* Induction and recursion over the natural numbers.                        *)

(* A set of numbers that contains a number whenever it contains all smaller *)
(* ones contains them all.                                                  *)
THEOREM Induction ==
  ASSUME NEW T, \A n \in Nat: (\A m \in Nat: m < n => m \in T) => n \in T
  PROVE  Nat \subseteq T
<1> DEFINE R == OpToRel(<, Nat)
           Bad == Nat \ T
<1> SUFFICES ASSUME Bad # {} PROVE FALSE
  OBVIOUS
<1>1. IsWellFoundedOn(R, Nat)
  BY NatLessThanWellFounded
<1>2. PICK n \in Bad: \A m \in Bad: ~(<<m, n>> \in R)
  <2>1. Bad \subseteq Nat
    OBVIOUS
  <2> HIDE DEF R, Bad
  <2> QED BY <1>1, <2>1, WFMin
<1>3. \A m \in Nat: m < n => m \in T
  BY <1>2 DEF OpToRel
<1> QED BY <1>2, <1>3

(* The form with a step from one number to the next.                        *)
THEOREM StepInduction ==
  ASSUME NEW T, 0 \in T, \A n \in Nat: n \in T => n + 1 \in T
  PROVE  Nat \subseteq T
<1>1. ASSUME NEW n \in Nat, \A m \in Nat: m < n => m \in T
      PROVE  n \in T
  <2>1. CASE n = 0
    BY <2>1
  <2>2. CASE n # 0
    <3>1. n - 1 \in Nat /\ n - 1 < n /\ (n - 1) + 1 = n
      BY <2>2
    <3>2. n - 1 \in T
      BY <1>1, <3>1
    <3> QED BY <3>1, <3>2
  <2> QED BY <2>1, <2>2
<1> QED BY <1>1, Induction

(* F says what a function g has at x, looking at g only at arguments of     *)
(* smaller measure.                                                         *)
Contracting(F, D, R, mu) ==
  /\ mu \in [D -> Nat]
  /\ F \in [D -> [[D -> R] -> R]]
  /\ \A x \in D: \A g, h \in [D -> R]:
       (\A y \in D: mu[y] < mu[x] => g[y] = h[y]) => F[x][g] = F[x][h]

(* g does what F says up to measure n.                                      *)
Solves(F, D, R, mu, n, g) ==
  /\ g \in [D -> R]
  /\ \A x \in D: mu[x] < n => g[x] = F[x][g]

(* Two solutions agree.                                                     *)
LEMMA SolutionsAgree ==
  ASSUME NEW F, NEW D, NEW R, NEW mu, Contracting(F, D, R, mu),
         NEW n \in Nat, NEW m \in Nat, NEW g, NEW h,
         Solves(F, D, R, mu, n, g), Solves(F, D, R, mu, m, h)
  PROVE  \A x \in D: mu[x] < n /\ mu[x] < m => g[x] = h[x]
<1> DEFINE T == {k \in Nat: \A x \in D: mu[x] = k /\ k < n /\ k < m => g[x] = h[x]}
<1>1. ASSUME NEW k \in Nat, \A j \in Nat: j < k => j \in T
      PROVE  k \in T
  <2> SUFFICES ASSUME NEW x \in D, mu[x] = k, k < n, k < m PROVE g[x] = h[x]
    OBVIOUS
  <2>1. \A y \in D: mu[y] \in Nat
    BY DEF Contracting
  <2>2. \A y \in D: mu[y] < mu[x] => g[y] = h[y]
    BY <1>1, <2>1
  <2>3. F[x][g] = F[x][h]
    BY <2>2 DEF Contracting, Solves
  <2> QED BY <2>3 DEF Solves
<1>2. Nat \subseteq T
  <2> HIDE DEF T
  <2> QED BY <1>1, Induction
<1> QED BY <1>2 DEF Contracting

(* There are solutions up to any measure.                                   *)
LEMMA SolutionsUpTo ==
  ASSUME NEW F, NEW D, NEW R, NEW mu, Contracting(F, D, R, mu), R # {}
  PROVE  \A n \in Nat: \E g: Solves(F, D, R, mu, n, g)
<1> DEFINE T == {n \in Nat: \E g: Solves(F, D, R, mu, n, g)}
<1>1. 0 \in T
  <2>1. PICK r \in R: TRUE
    OBVIOUS
  <2>2. [x \in D |-> r] \in [D -> R]
    OBVIOUS
  <2>3. \A x \in D: ~(mu[x] < 0)
    BY DEF Contracting
  <2> QED BY <2>2, <2>3 DEF Solves
<1>2. ASSUME NEW n \in Nat, n \in T PROVE n + 1 \in T
  <2>1. PICK g: Solves(F, D, R, mu, n, g)
    BY <1>2
  <2>2. PICK h: h = [x \in D |-> F[x][g]]
    OBVIOUS
  <2>3. g \in [D -> R] /\ h \in [D -> R] /\ \A x \in D: h[x] = F[x][g]
    BY <2>1, <2>2 DEF Solves, Contracting
  <2>4. ASSUME NEW x \in D, mu[x] < n + 1 PROVE h[x] = F[x][h]
    <3>1. mu[x] \in Nat /\ \A y \in D: mu[y] \in Nat
      BY DEF Contracting
    <3>2. \A y \in D: mu[y] < mu[x] => g[y] = h[y]
      <4> SUFFICES ASSUME NEW y \in D, mu[y] < mu[x] PROVE g[y] = h[y]
        OBVIOUS
      <4>1. mu[y] < n
        BY <2>4, <3>1
      <4> QED BY <2>1, <2>3, <4>1 DEF Solves
    <3> QED BY <2>3, <3>2 DEF Contracting
  <2>5. Solves(F, D, R, mu, n + 1, h)
    BY <2>3, <2>4 DEF Solves
  <2> QED BY <2>5
<1>3. Nat \subseteq T
  <2> HIDE DEF T
  <2> QED BY <1>1, <1>2, StepInduction
<1> QED BY <1>3

(* A recursive function whose recursion goes down is well defined.          *)
THEOREM Recursion ==
  ASSUME NEW F, NEW D, NEW R, NEW mu, Contracting(F, D, R, mu), R # {}
  PROVE  \E g \in [D -> R]: g = [x \in D |-> F[x][g]]
<1> DEFINE G(n) == CHOOSE g: Solves(F, D, R, mu, n, g)
<1>1. \A n \in Nat: Solves(F, D, R, mu, n, G(n))
  BY SolutionsUpTo
<1>2. \A x \in D: mu[x] \in Nat
  BY DEF Contracting
<1> HIDE DEF G
<1>3. PICK h: h = [x \in D |-> G(mu[x] + 1)[x]]
  OBVIOUS
<1>4. h \in [D -> R] /\ \A x \in D: h[x] = G(mu[x] + 1)[x]
  <2>1. \A x \in D: G(mu[x] + 1) \in [D -> R]
    BY <1>1, <1>2 DEF Solves
  <2> QED BY <1>3, <2>1
<1>5. ASSUME NEW x \in D PROVE h[x] = F[x][h]
  <2>0. PICK g: g = G(mu[x] + 1)
    OBVIOUS
  <2>1. PICK n \in Nat: n = mu[x] + 1 /\ g = G(n)
    BY <1>2, <2>0
  <2>2. Solves(F, D, R, mu, n, g)
    BY <1>1, <2>1
  <2>3. ASSUME NEW y \in D, mu[y] < mu[x] PROVE g[y] = h[y]
    <3>0. PICK k: k = G(mu[y] + 1)
      OBVIOUS
    <3>1. PICK m \in Nat: m = mu[y] + 1 /\ k = G(m)
      BY <1>2, <3>0
    <3>2. Solves(F, D, R, mu, m, k)
      BY <1>1, <3>1
    <3>3. mu[y] < n /\ mu[y] < m
      BY <1>2, <2>1, <2>3, <3>1
    <3>4. g[y] = k[y]
      BY <2>2, <3>2, <3>3, SolutionsAgree
    <3> QED BY <1>4, <3>1, <3>4
  <2>4. F[x][g] = F[x][h]
    BY <1>4, <2>2, <2>3 DEF Contracting, Solves
  <2>5. g[x] = F[x][g]
    BY <1>2, <2>1, <2>2 DEF Solves
  <2> QED BY <1>4, <2>1, <2>4, <2>5
<1>6. h = [x \in D |-> F[x][h]]
  BY <1>4, <1>5
<1> QED BY <1>4, <1>6

-----------------------------------------------------------------------------
(* FlattenSeq of the community modules.                                     *)

(* f is the recursive function that FlattenSeq(s) applies to Len(s).        *)
Flattens(s, f) ==
  f = [i \in 1..Len(s) |-> IF i = 1 THEN s[i] ELSE f[i - 1] \o s[i]]

flattening(s) == CHOOSE f: Flattens(s, f)

LEMMA FlattenIsChosen ==
  ASSUME NEW s
  PROVE  FlattenSeq(s) = IF Len(s) = 0 THEN s ELSE flattening(s)[Len(s)]
BY DEF FlattenSeq, Flattens, flattening

LEMMA FlattensExists ==
  ASSUME NEW S, NEW s \in Seq(Seq(S))
  PROVE  \E f \in [1..Len(s) -> Seq(S)]: Flattens(s, f)
<1> DEFINE D == 1..Len(s)
           R == Seq(S)
           Body(i, g) == IF i = 1 THEN s[i] ELSE g[i - 1] \o s[i]
           F == [i \in D |-> [g \in [D -> R] |-> Body(i, g)]]
           mu == [i \in D |-> i]
<1>1. ASSUME NEW i \in D, NEW g \in [D -> R] PROVE Body(i, g) \in R
  <2>1. s[i] \in R
    OBVIOUS
  <2>2. CASE i # 1
    <3>1. i - 1 \in D
      BY <2>2
    <3>2. g[i - 1] \in Seq(S)
      BY <3>1
    <3>3. g[i - 1] \o s[i] \in Seq(S)
      BY <2>1, <3>2, ConcatProperties
    <3> QED BY <2>2, <3>3
  <2> QED BY <2>1, <2>2
<1>2. mu \in [D -> Nat] /\ \A i \in D: mu[i] = i
  OBVIOUS
<1>3. ASSUME NEW i \in D, NEW g \in [D -> R], NEW h \in [D -> R],
             \A j \in D: mu[j] < mu[i] => g[j] = h[j]
      PROVE  Body(i, g) = Body(i, h)
  <2>1. CASE i # 1
    <3>1. i - 1 \in D /\ mu[i - 1] < mu[i]
      BY <2>1
    <3> QED BY <1>3, <3>1
  <2> QED BY <2>1
<1>4. F \in [D -> [[D -> R] -> R]] /\ \A i \in D: \A g \in [D -> R]: F[i][g] = Body(i, g)
  <2> HIDE DEF Body, R
  <2> QED BY <1>1
<1>5. Contracting(F, D, R, mu)
  <2> HIDE DEF F, mu, Body, D, R
  <2>1. ASSUME NEW i \in D, NEW g \in [D -> R], NEW h \in [D -> R],
               \A j \in D: mu[j] < mu[i] => g[j] = h[j]
        PROVE  F[i][g] = F[i][h]
    <3>1. Body(i, g) = Body(i, h)
      BY <1>3, <2>1
    <3> QED BY <1>4, <3>1
  <2> QED BY <1>2, <1>4, <2>1 DEF Contracting
<1>6. R # {}
  BY EmptySeq
<1>7. PICK f \in [D -> R]: f = [i \in D |-> F[i][f]]
  <2> HIDE DEF F, mu, D, R
  <2> QED BY <1>5, <1>6, Recursion
<1>8. f = [i \in D |-> Body(i, f)]
  <2> HIDE DEF F, Body, R, D
  <2> QED BY <1>4, <1>7
<1> QED BY <1>7, <1>8 DEF Flattens

(* Its value, one round at a time.                                          *)
THEOREM FlattenEmpty == FlattenSeq(<<>>) = <<>>
BY FlattenIsChosen

LEMMA FlattensAgree ==
  ASSUME NEW S, NEW s \in Seq(Seq(S)), NEW x \in Seq(S),
         NEW f, Flattens(s, f), NEW h, Flattens(Append(s, x), h)
  PROVE  \A i \in 1..Len(s): f[i] = h[i]
<1> DEFINE T == {k \in Nat: k \in 1..Len(s) => f[k] = h[k]}
<1>1. ASSUME NEW k \in Nat, \A j \in Nat: j < k => j \in T PROVE k \in T
  <2> SUFFICES ASSUME k \in 1..Len(s) PROVE f[k] = h[k]
    OBVIOUS
  <2>1. Append(s, x)[k] = s[k] /\ k \in 1..Len(Append(s, x))
    OBVIOUS
  <2>2. f[k] = IF k = 1 THEN s[k] ELSE f[k - 1] \o s[k]
    BY DEF Flattens
  <2>3. h[k] = IF k = 1 THEN s[k] ELSE h[k - 1] \o s[k]
    BY <2>1 DEF Flattens
  <2>4. CASE k # 1
    <3>1. k - 1 \in Nat /\ k - 1 < k /\ k - 1 \in 1..Len(s)
      BY <2>4
    <3>2. f[k - 1] = h[k - 1]
      BY <1>1, <3>1
    <3> QED BY <2>2, <2>3, <3>2
  <2> QED BY <2>2, <2>3, <2>4
<1>2. Nat \subseteq T
  <2> HIDE DEF T
  <2> QED BY <1>1, Induction
<1> QED BY <1>2

THEOREM FlattenAppend ==
  ASSUME NEW S, NEW s \in Seq(Seq(S)), NEW x \in Seq(S)
  PROVE  FlattenSeq(Append(s, x)) = FlattenSeq(s) \o x
<1>0. PICK t: t = Append(s, x)
  OBVIOUS
<1>1. PICK n \in Nat: n = Len(s) /\ t = Append(s, x)
  BY <1>0
<1>2. t \in Seq(Seq(S)) /\ Len(t) = n + 1 /\ t[n + 1] = x
  BY <1>1
<1>3. PICK f, h: f = flattening(s) /\ h = flattening(t)
  OBVIOUS
<1>4. Flattens(s, f) /\ Flattens(t, h)
  BY <1>2, <1>3, FlattensExists DEF flattening
<1>5. FlattenSeq(t) = h[n + 1]
  BY <1>2, <1>3, FlattenIsChosen
<1>6. h[n + 1] = IF n = 0 THEN x ELSE h[n] \o x
  <2>1. n + 1 \in 1..Len(t) /\ (n + 1) - 1 = n /\ (n + 1 = 1 <=> n = 0)
    BY <1>2
  <2>2. h[n + 1] = IF n + 1 = 1 THEN t[n + 1] ELSE h[(n + 1) - 1] \o t[n + 1]
    BY <1>4, <2>1 DEF Flattens
  <2> QED BY <1>2, <2>1, <2>2
<1>7. CASE n = 0
  <2>1. s = <<>>
    BY <1>1, <1>7, EmptySeq
  <2>2. FlattenSeq(s) \o x = x
    BY <2>1, FlattenEmpty, ConcatEmptySeq
  <2> QED BY <1>1, <1>5, <1>6, <1>7, <2>2
<1>8. CASE n # 0
  <2>1. FlattenSeq(s) = f[n]
    BY <1>1, <1>3, <1>8, FlattenIsChosen
  <2>2. Flattens(Append(s, x), h) /\ n \in 1..Len(s)
    BY <1>1, <1>4, <1>8
  <2>3. f[n] = h[n]
    BY <1>4, <2>2, FlattensAgree
  <2> QED BY <1>1, <1>5, <1>6, <1>8, <2>1, <2>3
<1> QED BY <1>7, <1>8

THEOREM FlattenType ==
  ASSUME NEW S, NEW s \in Seq(Seq(S))
  PROVE  FlattenSeq(s) \in Seq(S)
<1>1. CASE Len(s) = 0
  <2>1. s = <<>>
    BY <1>1
  <2> QED BY <2>1, FlattenEmpty, EmptySeq
<1>2. CASE Len(s) # 0
  <2>1. PICK f: f = flattening(s)
    OBVIOUS
  <2>2. Flattens(s, f) /\ FlattenSeq(s) = f[Len(s)]
    BY <1>2, <2>1, FlattenIsChosen, FlattensExists DEF flattening
  <2> DEFINE T == {k \in Nat: k \in 1..Len(s) => f[k] \in Seq(S)}
  <2>3. ASSUME NEW k \in Nat, \A j \in Nat: j < k => j \in T PROVE k \in T
    <3> SUFFICES ASSUME k \in 1..Len(s) PROVE f[k] \in Seq(S)
      OBVIOUS
    <3>1. f[k] = IF k = 1 THEN s[k] ELSE f[k - 1] \o s[k]
      BY <2>2 DEF Flattens
    <3>2. CASE k # 1
      <4>1. k - 1 \in Nat /\ k - 1 < k /\ k - 1 \in 1..Len(s)
        BY <3>2
      <4>2. f[k - 1] \in Seq(S)
        BY <2>3, <4>1
      <4> QED BY <3>1, <3>2, <4>2
    <3> QED BY <3>1, <3>2
  <2>4. Nat \subseteq T
    <3> HIDE DEF T
    <3> QED BY <2>3, Induction
  <2> QED BY <1>2, <2>2, <2>4
<1> QED BY <1>1, <1>2

LEMMA ConcatAssoc ==
  ASSUME NEW S, NEW a \in Seq(S), NEW b \in Seq(S), NEW c \in Seq(S)
  PROVE  (a \o b) \o c = a \o (b \o c)
BY ConcatAssociative

LEMMA FlattenConcatStep ==
  ASSUME NEW S, NEW s \in Seq(Seq(S)), NEW v \in Seq(Seq(S)), NEW x \in Seq(S),
         FlattenSeq(s \o v) = FlattenSeq(s) \o FlattenSeq(v)
  PROVE  FlattenSeq(s \o Append(v, x)) = FlattenSeq(s) \o FlattenSeq(Append(v, x))
<1>1. FlattenSeq(s) \in Seq(S) /\ FlattenSeq(v) \in Seq(S)
  BY FlattenType
<1>2. (FlattenSeq(s) \o FlattenSeq(v)) \o x = FlattenSeq(s) \o (FlattenSeq(v) \o x)
  BY <1>1, ConcatAssoc
<1>3. s \o Append(v, x) = Append(s \o v, x) /\ s \o v \in Seq(Seq(S))
  OBVIOUS
<1>4. FlattenSeq(s \o Append(v, x)) = FlattenSeq(s \o v) \o x
  BY <1>3, FlattenAppend
<1>5. FlattenSeq(Append(v, x)) = FlattenSeq(v) \o x
  BY FlattenAppend
<1> QED BY <1>2, <1>4, <1>5

(* Flattening goes through a concatenation.                                 *)
THEOREM FlattenConcat ==
  ASSUME NEW S, NEW s \in Seq(Seq(S)), NEW t \in Seq(Seq(S))
  PROVE  FlattenSeq(s \o t) = FlattenSeq(s) \o FlattenSeq(t)
<1> DEFINE T == {n \in Nat: \A u \in Seq(Seq(S)):
                   Len(u) = n => FlattenSeq(s \o u) = FlattenSeq(s) \o FlattenSeq(u)}
<1>1. 0 \in T
  <2> SUFFICES ASSUME NEW u \in Seq(Seq(S)), Len(u) = 0
               PROVE  FlattenSeq(s \o u) = FlattenSeq(s) \o FlattenSeq(u)
    OBVIOUS
  <2>1. u = <<>> /\ s \o <<>> = s
    BY ConcatEmptySeq
  <2> QED BY <2>1, FlattenEmpty, FlattenType, ConcatEmptySeq
<1>2. ASSUME NEW n \in Nat, n \in T PROVE n + 1 \in T
  <2> SUFFICES ASSUME NEW u \in Seq(Seq(S)), Len(u) = n + 1
               PROVE  FlattenSeq(s \o u) = FlattenSeq(s) \o FlattenSeq(u)
    OBVIOUS
  <2>0. u # <<>>
    OBVIOUS
  <2>1. PICK v \in Seq(Seq(S)), x \in Seq(S): u = Append(v, x)
    BY <2>0, SequenceEmptyOrAppend
  <2>2. Len(v) = n
    BY <2>1
  <2>3. FlattenSeq(s \o v) = FlattenSeq(s) \o FlattenSeq(v)
    BY <1>2, <2>2
  <2> HIDE DEF T
  <2> QED BY <2>1, <2>3, FlattenConcatStep
<1>3. Nat \subseteq T
  <2> HIDE DEF T
  <2> QED BY <1>1, <1>2, StepInduction
<1> QED BY <1>3

THEOREM FlattenOne ==
  ASSUME NEW S, NEW x \in Seq(S)
  PROVE  FlattenSeq(<<x>>) = x
<1>1. <<>> \in Seq(Seq(S)) /\ <<x>> = Append(<<>>, x)
  OBVIOUS
<1>2. FlattenSeq(<<x>>) = FlattenSeq(<<>>) \o x
  BY <1>1, FlattenAppend
<1> QED BY <1>2, FlattenEmpty, ConcatEmptySeq

(* A function on 1..n is a sequence.                                        *)
LEMMA FunctionIsSeq ==
  ASSUME NEW E, NEW n \in Nat, NEW p \in [1..n -> E]
  PROVE  p \in Seq(E) /\ Len(p) = n
OBVIOUS

(* A concatenation, position by position.                                   *)
LEMMA ConcatIs ==
  ASSUME NEW E, NEW a \in Seq(E), NEW b \in Seq(E), NEW p \in Seq(E),
         Len(p) = Len(a) + Len(b),
         \A i \in 1..Len(a): p[i] = a[i],
         \A i \in 1..Len(b): p[Len(a) + i] = b[i]
  PROVE  p = a \o b
<1>1. a \o b \in Seq(E) /\ Len(a \o b) = Len(p)
  OBVIOUS
<1>2. ASSUME NEW i \in 1..Len(p) PROVE p[i] = (a \o b)[i]
  <2>1. CASE i <= Len(a)
    BY <2>1
  <2>2. CASE ~(i <= Len(a))
    <3>1. PICK j \in 1..Len(b): i = Len(a) + j
      <4>1. i - Len(a) \in 1..Len(b) /\ i = Len(a) + (i - Len(a))
        BY <2>2
      <4> QED BY <4>1
    <3> QED BY <2>2, <3>1
  <2> QED BY <2>1, <2>2
<1> QED BY <1>1, <1>2, SeqEqual
=============================================================================
