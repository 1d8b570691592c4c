------------------------- MODULE ProcessData_proofs -------------------------
(***************************************************************************)
(* The process data: that the layout of the image is right (IOmap), and    *)
(* what a cycle of send and receive makes of it (ProcessData), for every   *)
(* network of slaves, every length they have, every depth of the index     *)
(* stack and every number of cycles.                                       *)
(*                                                                         *)
(* In this order: sums over finite sets, by the recursion that computes    *)
(* them; the mapping, step by step, with what holds while it is at work    *)
(* (MapInv); the frames of a cycle (PdInv), with one lemma per action and  *)
(* conjunct; the theorems.                                                 *)
(*                                                                         *)
(* The library's induction theorems take an operator, which none of the    *)
(* provers can instantiate.  Induction is used here for sets of numbers    *)
(* instead (Induction), from the least element that every set of them has; *)
(* the sums that the layout is made of are taken apart with it.            *)
(***************************************************************************)
EXTENDS ProcessData, FiniteSetTheorems, WellFoundedInduction, TLAPS

\* Induction over the natural numbers, for a set of them.
LEMMA Induction ==
  ASSUME NEW T, 0 \in T, \A n \in Nat : n \in T => n + 1 \in T
  PROVE  \A n \in Nat : n \in T
  <1> DEFINE R == {ss \in Nat \X Nat : ss[1] < ss[2]}
             B == {n \in Nat : n \notin T}
  <1>1. IsWellFoundedOn(R, Nat)
    BY NatLessThanWellFounded, Zenon DEF OpToRel
  <1> SUFFICES ASSUME B # {} PROVE FALSE
    OBVIOUS
  <1> HIDE DEF R, B
  <1>2. PICK x \in B : \A y \in B : ~ (<<y, x>> \in R)
    <2>1. B \subseteq Nat  BY DEF B
    <2> QED  BY <1>1, <2>1, WFMin, Zenon
  <1>3. x \in Nat /\ x \notin T  BY DEF B
  <1>4. x - 1 \in Nat  BY <1>3
  <1>5. x - 1 \notin B
    <2>1. <<x - 1, x>> \in R  BY <1>3, <1>4 DEF R
    <2> QED  BY <1>2, <2>1
  <1>6. x - 1 \in T  BY <1>4, <1>5 DEF B
  <1> QED  BY <1>3, <1>4, <1>6

\* The sum of a function over a finite set, and the recursion that computes it.
Sum(G, S) == MapThenSumSet(LAMBDA x : G[x], S)
Pick(T) == CHOOSE x \in T : TRUE
Step(G, S, f) == [T \in SUBSET S |->
    IF T = {} THEN 0 ELSE G[Pick(T)] + f[T \ {Pick(T)}]]
Iter(G, S) == CHOOSE f : f = Step(G, S, f)
IsIter(G, S, f) == f = Step(G, S, f)
Agree(G, H, R) == \A x \in R : G[x] = H[x]

\* A sum is the iterator's value at the whole set.
LEMMA SumIter == ASSUME NEW G, NEW S PROVE Sum(G, S) = Iter(G, S)[S]
  BY Zenon DEF Sum, MapThenSumSet, MapThenFoldSet, Iter, Step, Pick

\* What is picked is a member.
LEMMA PickIn == ASSUME NEW T, T # {} PROVE Pick(T) \in T
  BY DEF Pick

\* Picking takes one member away.
LEMMA Picked ==
  ASSUME NEW S, IsFiniteSet(S), NEW T \in SUBSET S, T # {}
  PROVE  /\ Pick(T) \in T /\ T \ {Pick(T)} \in SUBSET S
         /\ Cardinality(T) \in Nat /\ Cardinality(T \ {Pick(T)}) \in Nat
         /\ Cardinality(T \ {Pick(T)}) = Cardinality(T) - 1
  <1>1. Pick(T) \in T  BY PickIn
  <1>2. IsFiniteSet(T)  BY FS_Subset
  <1>3. Cardinality(T \ {Pick(T)}) = Cardinality(T) - 1  BY <1>1, <1>2, FS_RemoveElement
  <1>4. IsFiniteSet(T \ {Pick(T)})  BY <1>1, <1>2, FS_RemoveElement
  <1> QED  BY <1>1, <1>2, <1>3, <1>4, FS_CardinalityType

\* A finite set without members is empty.
LEMMA NoneIn ==
  ASSUME NEW S, IsFiniteSet(S), NEW T \in SUBSET S, Cardinality(T) <= 0
  PROVE  T = {}
  <1>1. IsFiniteSet(T)  BY FS_Subset
  <1>2. Cardinality(T) \in Nat  BY <1>1, FS_CardinalityType
  <1>3. Cardinality(T) = 0  BY <1>2
  <1> QED  BY <1>1, <1>3, FS_EmptySet

\* There is a function that the recursion describes,
LEMMA Exists ==
  ASSUME NEW S, IsFiniteSet(S), NEW G, \A x \in S : G[x] \in Nat
  PROVE  \E f \in [SUBSET S -> Nat] : f = Step(G, S, f)
  <1> DEFINE Good(f, n) == \A T \in SUBSET S : Cardinality(T) <= n => f[T] = Step(G, S, f)[T]
             N == {n \in Nat : \E f \in [SUBSET S -> Nat] : Good(f, n)}
  <1>1. 0 \in N
    <2> DEFINE f == [T \in SUBSET S |-> 0]
    <2>1. \A T \in SUBSET S : Cardinality(T) <= 0 => T = {}
      BY NoneIn
    <2>2. Good(f, 0)  BY <2>1 DEF Step
    <2>3. f \in [SUBSET S -> Nat]  OBVIOUS
    <2> QED  BY <2>2, <2>3
  <1>2. ASSUME NEW n \in Nat, n \in N PROVE n + 1 \in N
    <2> PICK f \in [SUBSET S -> Nat] : Good(f, n)  BY <1>2
    <2> DEFINE g == Step(G, S, f)
    <2>1. g \in [SUBSET S -> Nat]
      <3> SUFFICES ASSUME NEW T \in SUBSET S, T # {}
                   PROVE  G[Pick(T)] + f[T \ {Pick(T)}] \in Nat
        BY DEF Step
      <3> QED  BY Picked
    <2>2. Good(g, n + 1)
      <3> SUFFICES ASSUME NEW T \in SUBSET S, Cardinality(T) <= n + 1
                   PROVE  g[T] = Step(G, S, g)[T]
        OBVIOUS
      <3>1. CASE T = {}  BY <3>1 DEF Step
      <3>2. CASE T # {}
        <4> DEFINE U == T \ {Pick(T)}
        <4>1. U \in SUBSET S /\ Cardinality(U) <= n  BY <3>2, Picked
        <4>2. f[U] = g[U]  BY <4>1
        <4>3. g[T] = G[Pick(T)] + f[U]  BY <3>2 DEF Step
        <4>4. Step(G, S, g)[T] = G[Pick(T)] + g[U]
          <5> HIDE DEF g
          <5> QED  BY <3>2 DEF Step
        <4> QED  BY <4>2, <4>3, <4>4
      <3> QED  BY <3>1, <3>2
    <2> HIDE DEF g
    <2> QED  BY <2>1, <2>2
  <1>3. Cardinality(S) \in Nat  BY FS_CardinalityType
  <1>4. Cardinality(S) \in N
    <2> HIDE DEF N
    <2> QED  BY <1>1, <1>2, <1>3, Induction
  <1>5. PICK f \in [SUBSET S -> Nat] : Good(f, Cardinality(S))  BY <1>4
  <1>6. \A T \in SUBSET S : f[T] = Step(G, S, f)[T]
    <2> TAKE T \in SUBSET S
    <2>1. Cardinality(T) <= Cardinality(S)  BY FS_Subset
    <2> QED  BY <1>5, <2>1
  <1>7. f = Step(G, S, f)
    <2>1. f = [T \in SUBSET S |-> f[T]]  OBVIOUS
    <2> QED  BY <1>6, <2>1 DEF Step
  <1> QED  BY <1>7

\* and only one, also over a larger set.
LEMMA Unique ==
  ASSUME NEW S, IsFiniteSet(S), NEW R \in SUBSET S, NEW G, NEW H,
         Agree(G, H, R),
         NEW f, IsIter(G, R, f), NEW g, IsIter(H, S, g)
  PROVE  \A T \in SUBSET R : f[T] = g[T]
  <1> USE DEF IsIter, Agree
  <1> DEFINE N == {n \in Nat : \A T \in SUBSET R : Cardinality(T) = n => f[T] = g[T]}
  <1>0. IsFiniteSet(R)  BY FS_Subset
  <1>1. 0 \in N
    <2>1. \A T \in SUBSET R : Cardinality(T) = 0 => T = {}
      BY <1>0, NoneIn
    <2>2. f[{}] = 0 /\ g[{}] = 0
      <3>1. Step(G, R, f)[{}] = 0  BY DEF Step
      <3>2. Step(H, S, g)[{}] = 0  BY DEF Step
      <3> QED  BY <3>1, <3>2
    <2> QED  BY <2>1, <2>2
  <1>2. ASSUME NEW n \in Nat, n \in N PROVE n + 1 \in N
    <2> SUFFICES ASSUME NEW T \in SUBSET R, Cardinality(T) = n + 1
                 PROVE  f[T] = g[T]
      OBVIOUS
    <2>1. T # {}
      BY FS_EmptySet
    <2> DEFINE U == T \ {Pick(T)}
    <2>2. U \in SUBSET R /\ Cardinality(U) = n /\ Pick(T) \in R  BY <1>0, <2>1, Picked
    <2>3. f[U] = g[U]  BY <1>2, <2>2
    <2>4. Step(G, R, f)[T] = G[Pick(T)] + f[U]  BY <2>1 DEF Step
    <2>5. Step(H, S, g)[T] = H[Pick(T)] + g[U]  BY <2>1 DEF Step
    <2> QED  BY <2>2, <2>3, <2>4, <2>5
  <1>3. \A n \in Nat : n \in N
    <2> HIDE DEF N
    <2> QED  BY <1>1, <1>2, Induction
  <1> TAKE T \in SUBSET R
  <1>4. Cardinality(T) \in Nat  BY <1>0, FS_Subset, FS_CardinalityType
  <1> QED  BY <1>3, <1>4

\* The iterator is a function, and satisfies its equation.
LEMMA IterIs ==
  ASSUME NEW S, IsFiniteSet(S), NEW G, \A x \in S : G[x] \in Nat
  PROVE  Iter(G, S) \in [SUBSET S -> Nat] /\ Iter(G, S) = Step(G, S, Iter(G, S))
  <1>1. \E f : f = Step(G, S, f)  BY Exists
  <1>2. Iter(G, S) = Step(G, S, Iter(G, S))  BY <1>1, Zenon DEF Iter
  <1>3. PICK f \in [SUBSET S -> Nat] : f = Step(G, S, f)  BY Exists
  <1> DEFINE g == Iter(G, S)
  <1>4. \A T \in SUBSET S : f[T] = g[T]
    <2> HIDE DEF g
    <2>1. IsIter(G, S, g) /\ IsIter(G, S, f)  BY <1>2, <1>3 DEF g, IsIter
    <2>2. Agree(G, G, S)  BY DEF Agree
    <2> QED  BY <2>1, <2>2, Unique
  <1>5. g = [T \in SUBSET S |-> g[T]]
    <2>1. Step(G, S, g) = [T \in SUBSET S |-> Step(G, S, g)[T]]  BY DEF Step
    <2> QED  BY <1>2, <2>1
  <1> HIDE DEF g
  <1>6. g \in [SUBSET S -> Nat]  BY <1>4, <1>5
  <1> QED  BY <1>2, <1>6 DEF g

\* What a sum is: natural, zero over nothing, the same for functions that agree,
\* and one more element adds its value.
LEMMA SumNat ==
  ASSUME NEW S, IsFiniteSet(S), NEW G, \A x \in S : G[x] \in Nat
  PROVE  Sum(G, S) \in Nat
  BY IterIs, SumIter

\* The empty sum.
LEMMA SumEmpty == \A G : Sum(G, {}) = 0
  <1> TAKE G
  <1>1. IsFiniteSet({})  BY FS_EmptySet
  <1>2. Iter(G, {}) = Step(G, {}, Iter(G, {}))
    BY <1>1, IterIs
  <1>3. Step(G, {}, Iter(G, {}))[{}] = 0  BY DEF Step
  <1> QED  BY <1>2, <1>3, SumIter

\* The sum over a part, of a function that agrees on the part.
LEMMA SumWithin ==
  ASSUME NEW S, IsFiniteSet(S), NEW G, \A x \in S : G[x] \in Nat,
         NEW T \in SUBSET S, NEW H, \A x \in T : H[x] = G[x]
  PROVE  Sum(H, T) = Iter(G, S)[T]
  <1>1. IsFiniteSet(T) /\ \A x \in T : H[x] \in Nat  BY FS_Subset
  <1>2. Iter(H, T) = Step(H, T, Iter(H, T))  BY <1>1, IterIs
  <1>3. Iter(G, S) = Step(G, S, Iter(G, S))  BY IterIs
  <1>4. Iter(H, T)[T] = Iter(G, S)[T]
    <2> DEFINE f == Iter(H, T)
               g == Iter(G, S)
    <2>1. IsIter(H, T, f) /\ IsIter(G, S, g)  BY <1>2, <1>3 DEF IsIter
    <2> HIDE DEF f, g
    <2>2. Agree(H, G, T)  BY DEF Agree
    <2>3. \A U \in SUBSET T : f[U] = g[U]
      <3>1. IsFiniteSet(T) /\ T \in SUBSET S  BY <1>1
      <3> QED  BY <3>1, <2>1, <2>2, Unique, SMTT(60)
    <2> QED  BY <2>3 DEF f, g
  <1> QED  BY <1>4, SumIter

\* Functions that agree have the same sum.
LEMMA SumSame ==
  ASSUME NEW S, IsFiniteSet(S), NEW G, \A x \in S : G[x] \in Nat, NEW H, \A x \in S : H[x] = G[x]
  PROVE  Sum(H, S) = Sum(G, S)
  <1>1. S \in SUBSET S /\ \A x \in S : G[x] = G[x]  OBVIOUS
  <1>2. Sum(H, S) = Iter(G, S)[S]  BY <1>1, SumWithin
  <1> QED  BY <1>2, SumIter

\* One term of a sum taken out.
LEMMA SumAdds ==
  ASSUME NEW S, IsFiniteSet(S), NEW G, \A x \in S : G[x] \in Nat,
         NEW y \in S
  PROVE  Sum(G, S) = Sum(G, S \ {y}) + G[y]
  <1> DEFINE F == Iter(G, S)
             N == {n \in Nat : \A T \in SUBSET S : Cardinality(T) = n =>
                      \A x \in T : F[T] = F[T \ {x}] + G[x]}
  <1>1. F \in [SUBSET S -> Nat] /\ F = Step(G, S, F)  BY IterIs
  <1> HIDE DEF F
  <1>2. 0 \in N
    <2>1. \A T \in SUBSET S : Cardinality(T) = 0 => T = {}
      BY NoneIn
    <2> QED  BY <2>1
  <1>3. ASSUME NEW n \in Nat, n \in N PROVE n + 1 \in N
    <2> SUFFICES ASSUME NEW T \in SUBSET S, Cardinality(T) = n + 1, NEW x \in T
                 PROVE  F[T] = F[T \ {x}] + G[x]
      OBVIOUS
    <2> DEFINE c == Pick(T)
    <2>1. c \in T /\ T \ {c} \in SUBSET S /\ Cardinality(T \ {c}) = n  BY Picked
    <2> HIDE DEF c
    <2>2. F[T] = G[c] + F[T \ {c}]
      <3>1. Step(G, S, F)[T] = G[c] + F[T \ {c}]  BY DEF Step, c
      <3> QED  BY <1>1, <3>1
    <2>3. CASE x = c  BY <2>1, <2>2, <2>3, <1>1
    <2>4. CASE x # c
      <3>1. F[T \ {c}] = F[(T \ {c}) \ {x}] + G[x]  BY <1>3, <2>1, <2>4
      <3>2. Cardinality(T \ {x}) = n
        <4>1. IsFiniteSet(T)  BY FS_Subset
        <4>2. Cardinality(T \ {x}) = Cardinality(T) - 1  BY <4>1, FS_RemoveElement
        <4> QED  BY <4>2
      <3>3. F[T \ {x}] = F[(T \ {x}) \ {c}] + G[c]  BY <1>3, <2>1, <2>4, <3>2
      <3>4. (T \ {x}) \ {c} = (T \ {c}) \ {x}  OBVIOUS
      <3>5. F[(T \ {x}) \ {c}] \in Nat /\ G[c] \in Nat /\ G[x] \in Nat
        <4>1. c \in S /\ x \in S /\ (T \ {x}) \ {c} \in SUBSET S  BY <2>1
        <4> QED  BY <1>1, <4>1
      <3> DEFINE a == F[(T \ {x}) \ {c}]
      <3>6. F[T] = G[c] + (a + G[x]) /\ F[T \ {x}] = a + G[c]  BY <2>2, <3>1, <3>3, <3>4
      <3> HIDE DEF a
      <3> QED  BY <3>5, <3>6 DEF a
    <2> QED  BY <2>3, <2>4
  <1>4. Cardinality(S) \in N
    <2>1. Cardinality(S) \in Nat  BY FS_CardinalityType
    <2> HIDE DEF N
    <2> QED  BY <1>2, <1>3, <2>1, Induction
  <1>5. F[S] = F[S \ {y}] + G[y]  BY <1>4
  <1>6. Sum(G, S) = F[S] /\ Sum(G, S \ {y}) = F[S \ {y}]  BY SumWithin DEF F
  <1> QED  BY <1>5, <1>6

\* The least element of a set of natural numbers, and of two.
LEMMA MinIn ==
  ASSUME NEW S \in SUBSET Nat, S # {}
  PROVE  Min(S) \in S /\ \A y \in S : Min(S) <= y
  <1> DEFINE R == {ss \in Nat \X Nat : ss[1] < ss[2]}
  <1>1. IsWellFoundedOn(R, Nat)
    BY NatLessThanWellFounded, Zenon DEF OpToRel
  <1> HIDE DEF R
  <1>2. PICK x \in S : \A y \in S : ~ (<<y, x>> \in R)
    BY <1>1, WFMin, Zenon
  <1>3. \A y \in S : x <= y
    <2> TAKE y \in S
    <2>1. <<y, x>> \in Nat \X Nat /\ x \in Nat /\ y \in Nat  OBVIOUS
    <2>2. ~ (y < x)  BY <1>2, <2>1 DEF R
    <2> QED  BY <2>1, <2>2
  <1> QED  BY <1>3 DEF Min

\* The lesser of two.
LEMMA MinOfTwo ==
  ASSUME NEW a \in Int, NEW b \in Int
  PROVE  Min({a, b}) = IF a <= b THEN a ELSE b
  <1> DEFINE m == IF a <= b THEN a ELSE b
  <1>1. m \in {a, b} /\ \A y \in {a, b} : m <= y  OBVIOUS
  <1>2. \A x \in {a, b} : (\A y \in {a, b} : x <= y) => x = m  OBVIOUS
  <1> QED  BY <1>1, <1>2 DEF Min

\* The greater of two.
LEMMA MaxOfTwo ==
  ASSUME NEW a \in Int, NEW b \in Int
  PROVE  Max({a, b}) = IF a >= b THEN a ELSE b
  <1> DEFINE m == IF a >= b THEN a ELSE b
  <1>1. m \in {a, b} /\ \A y \in {a, b} : m >= y  OBVIOUS
  <1>2. \A x \in {a, b} : (\A y \in {a, b} : x >= y) => x = m  OBVIOUS
  <1> QED  BY <1>1, <1>2 DEF Max

-----------------------------------------------------------------------------
(* Sync managers.                                                          *)

\* What a slave may have in one direction.
Pdo(d) ==
    /\ d.bits \in Nat /\ Len(d.sms) \in Nat /\ DOMAIN d.sms = 1 .. Len(d.sms)
    /\ d.bits > 0 => Len(d.sms) > 0
    /\ \A k \in 1 .. Len(d.sms) : d.sms[k].len \in Nat

\* The sum of the lengths of sync managers is a sum of a function.
LEMMA SmSum ==
  ASSUME NEW d, Pdo(d), NEW a \in Nat \ {0}, NEW b \in 0 .. Len(d.sms)
  PROVE  /\ IsFiniteSet(a .. b)
         /\ \A k \in a .. b : d.sms[k].len \in Nat
         /\ SmBytes(d, a, b) = Sum([k \in 1 .. Len(d.sms) |-> d.sms[k].len], a .. b)
  <1> DEFINE S == a .. b
             G == [k \in 1 .. Len(d.sms) |-> d.sms[k].len]
             Own(f) == [T \in SUBSET S |->
                           IF T = {} THEN 0 ELSE d.sms[Pick(T)].len + f[T \ {Pick(T)}]]
             h == CHOOSE f : f = Own(f)
  <1>1. IsFiniteSet(S)
    <2>1. a \in Int /\ b \in Int  BY DEF Pdo
    <2> QED  BY <2>1, FS_Interval
  <1>2. \A k \in S : k \in 1 .. Len(d.sms) /\ G[k] = d.sms[k].len /\ G[k] \in Nat  BY DEF Pdo
  <1>3. \A f : Own(f) = Step(G, S, f)
    <2> TAKE f
    <2>1. \A T \in SUBSET S : T # {} => d.sms[Pick(T)].len = G[Pick(T)]
      BY <1>2, PickIn
    <2> HIDE DEF G, S
    <2> QED  BY <2>1 DEF Step
  <1>4. SmBytes(d, a, b) = h[S]
    BY Zenon DEF SmBytes, MapThenSumSet, MapThenFoldSet, Pick
  <1> HIDE DEF G, S, Own
  <1>5. \E f : f = Own(f)  BY <1>1, <1>2, <1>3, Exists
  <1>6. h = Own(h)  BY <1>5, Zenon
  <1>7. IsIter(G, S, h) /\ IsIter(G, S, Iter(G, S))
    BY <1>1, <1>2, <1>3, <1>6, IterIs DEF IsIter
  <1> HIDE DEF h
  <1>8. h[S] = Iter(G, S)[S]
    <2>1. Agree(G, G, S)  BY DEF Agree
    <2> QED  BY <1>1, <1>7, <2>1, Unique
  <1> QED  BY <1>1, <1>2, <1>4, <1>8, SumIter DEF G, S

\* The sum grows with every sync manager.
LEMMA SmFacts ==
  ASSUME NEW d, Pdo(d), NEW a \in Nat \ {0}, NEW b \in 0 .. Len(d.sms)
  PROVE  /\ SmBytes(d, a, b) \in Nat
         /\ b < a => SmBytes(d, a, b) = 0
         /\ a <= b => SmBytes(d, a, b) = SmBytes(d, a, b - 1) + d.sms[b].len
  <1> DEFINE G == [k \in 1 .. Len(d.sms) |-> d.sms[k].len]
  <1>1. \A k \in 1 .. Len(d.sms) : G[k] = d.sms[k].len /\ G[k] \in Nat  BY DEF Pdo
  <1>2. /\ IsFiniteSet(a .. b) /\ a .. b \subseteq 1 .. Len(d.sms)
        /\ SmBytes(d, a, b) = Sum(G, a .. b)
    <2>1. a .. b \subseteq 1 .. Len(d.sms)  BY DEF Pdo
    <2> QED  BY <2>1, SmSum
  <1>3. a <= b => /\ b \in a .. b /\ (a .. b) \ {b} = a .. b - 1
                  /\ SmBytes(d, a, b - 1) = Sum(G, a .. b - 1) /\ SmBytes(d, a, b - 1) \in Nat
    <2> SUFFICES ASSUME a <= b
                 PROVE  /\ b \in a .. b /\ (a .. b) \ {b} = a .. b - 1
                        /\ SmBytes(d, a, b - 1) = Sum(G, a .. b - 1)
                        /\ SmBytes(d, a, b - 1) \in Nat
      OBVIOUS
    <2>1. b - 1 \in 0 .. Len(d.sms) /\ b \in a .. b /\ (a .. b) \ {b} = a .. b - 1  BY DEF Pdo
    <2>2. IsFiniteSet(a .. b - 1) /\ SmBytes(d, a, b - 1) = Sum(G, a .. b - 1)  BY <2>1, SmSum
    <2>3. \A k \in a .. b - 1 : G[k] \in Nat  BY <1>1, <1>2, <2>1
    <2> HIDE DEF G
    <2> QED  BY <2>1, <2>2, <2>3, SumNat
  <1> HIDE DEF G
  <1>4. SmBytes(d, a, b) \in Nat  BY <1>1, <1>2, SumNat
  <1>5. b < a => a .. b = {}  BY DEF Pdo
  <1>6. b < a => SmBytes(d, a, b) = 0  BY <1>2, <1>5, SumEmpty
  <1>7. a <= b => SmBytes(d, a, b) = SmBytes(d, a, b - 1) + d.sms[b].len
    <2> SUFFICES ASSUME a <= b
                 PROVE  Sum(G, a .. b) = Sum(G, a .. b - 1) + d.sms[b].len
      BY <1>2, <1>3
    <2>1. \A k \in a .. b : G[k] \in Nat  BY <1>1, <1>2
    <2>2. Sum(G, a .. b) = Sum(G, (a .. b) \ {b}) + G[b]  BY <1>2, <1>3, <2>1, SumAdds
    <2> QED  BY <1>1, <1>2, <1>3, <2>2
  <1> QED  BY <1>1, <1>3, <1>4, <1>6, <1>7 DEF Pdo

LEMMA SmNat ==
  ASSUME NEW d, Pdo(d), NEW a \in Nat \ {0}, NEW b \in 0 .. Len(d.sms)
  PROVE  SmBytes(d, a, b) \in Nat
  BY SmFacts

LEMMA SmAdds ==
  ASSUME NEW d, Pdo(d), NEW a \in Nat \ {0}, NEW b \in 0 .. Len(d.sms), a <= b
  PROVE  SmBytes(d, a, b) = SmBytes(d, a, b - 1) + d.sms[b].len
  BY SmFacts

\* No sync managers hold nothing.
LEMMA SmNone == ASSUME NEW d, Pdo(d) PROVE SmBytes(d, 1, 0) = 0
  <1> DEFINE a == 1
             b == 0
  <1>1. a \in Nat \ {0} /\ b \in 0 .. Len(d.sms) /\ b < a  BY DEF Pdo
  <1> HIDE DEF a, b
  <1>2. SmBytes(d, a, b) = 0  BY <1>1, SmFacts
  <1> QED  BY <1>2 DEF a, b

\* The sums of adjacent runs of sync managers add up.
LEMMA SmJoin ==
  ASSUME NEW d, Pdo(d), NEW a \in Nat \ {0}, a <= Len(d.sms) + 1
  PROVE  \A b \in a - 1 .. Len(d.sms) :
             SmBytes(d, 1, b) = SmBytes(d, 1, a - 1) + SmBytes(d, a, b)
  <1> DEFINE N == {n \in Nat : a - 1 + n <= Len(d.sms) =>
                      SmBytes(d, 1, a - 1 + n) = SmBytes(d, 1, a - 1) + SmBytes(d, a, a - 1 + n)}
  <1>0. Len(d.sms) \in Nat /\ \A k \in 1 .. Len(d.sms) : d.sms[k].len \in Nat  BY DEF Pdo
  <1>1. 0 \in N
    <2> DEFINE c == a - 1
               o == 1
    <2>1. c \in 0 .. Len(d.sms) /\ c < a /\ c + 0 = c /\ o \in Nat \ {0}  BY <1>0
    <2> HIDE DEF c, o
    <2>2. SmBytes(d, a, c) = 0  BY <2>1, SmFacts
    <2>3. SmBytes(d, o, c) \in Nat  BY <2>1, SmNat
    <2>4. SmBytes(d, o, c + 0) = SmBytes(d, o, c) + SmBytes(d, a, c + 0)  BY <2>1, <2>2, <2>3
    <2> QED  BY <2>4 DEF c, o
  <1>2. ASSUME NEW n \in Nat, n \in N PROVE n + 1 \in N
    <2> SUFFICES ASSUME a + n <= Len(d.sms)
                 PROVE  SmBytes(d, 1, a + n) = SmBytes(d, 1, a - 1) + SmBytes(d, a, a + n)
      BY <1>0
    <2> DEFINE b == a + n
    <2>1. b \in 1 .. Len(d.sms) /\ b - 1 \in 0 .. Len(d.sms) /\ a <= b /\ 1 <= b
          /\ a - 1 \in 0 .. Len(d.sms) /\ b - 1 = a - 1 + n  BY <1>0
    <2>2. SmBytes(d, 1, b - 1) = SmBytes(d, 1, a - 1) + SmBytes(d, a, b - 1)  BY <1>2, <2>1, <1>0
    <2> HIDE DEF b, N
    <2>3. SmBytes(d, 1, b) = SmBytes(d, 1, b - 1) + d.sms[b].len
      <3> DEFINE o == 1
      <3>1. o \in Nat \ {0} /\ o <= b /\ b \in 0 .. Len(d.sms)  BY <1>0, <2>1
      <3> HIDE DEF o
      <3>2. SmBytes(d, o, b) = SmBytes(d, o, b - 1) + d.sms[b].len  BY <3>1, SmAdds
      <3> QED  BY <3>2 DEF o
    <2>4. SmBytes(d, a, b) = SmBytes(d, a, b - 1) + d.sms[b].len
      <3>1. b \in 0 .. Len(d.sms)  BY <1>0, <2>1
      <3> QED  BY <2>1, <3>1, SmAdds
    <2>5. SmBytes(d, a, b - 1) \in Nat /\ SmBytes(d, 1, a - 1) \in Nat /\ d.sms[b].len \in Nat
      <3>1. SmBytes(d, a, b - 1) \in Nat  BY <2>1, SmNat
      <3>2. SmBytes(d, 1, a - 1) \in Nat  BY <2>1, SmNat
      <3>3. d.sms[b].len \in Nat  BY <2>1, <1>0
      <3> QED  BY <3>1, <3>2, <3>3
    <2>6. SmBytes(d, 1, b) = SmBytes(d, 1, a - 1) + SmBytes(d, a, b)
      <3> DEFINE p == SmBytes(d, 1, b - 1)
                 q == SmBytes(d, a, b - 1)
                 r == SmBytes(d, 1, a - 1)
                 x == d.sms[b].len
      <3>1. p = r + q /\ SmBytes(d, 1, b) = p + x /\ SmBytes(d, a, b) = q + x
            /\ q \in Nat /\ r \in Nat /\ x \in Nat
        BY <2>2, <2>3, <2>4, <2>5
      <3> HIDE DEF p, q, r, x
      <3> QED  BY <3>1 DEF r
    <2> QED  BY <2>6 DEF b
  <1>3. \A n \in Nat : n \in N
    <2> HIDE DEF N
    <2> QED  BY <1>1, <1>2, Induction
  <1> TAKE b \in a - 1 .. Len(d.sms)
  <1> DEFINE n == b - (a - 1)
  <1>4. n \in Nat /\ a - 1 + n = b /\ b <= Len(d.sms)  BY <1>0
  <1> HIDE DEF n
  <1>5. SmBytes(d, 1, a - 1 + n) = SmBytes(d, 1, a - 1) + SmBytes(d, a, a - 1 + n)
    BY <1>3, <1>4
  <1> QED  BY <1>4, <1>5

\* As soon as the first sync manager holds something the sum does.
LEMMA SmFirst ==
  ASSUME NEW d, Pdo(d), d.sms[1].len > 0, NEW b \in 1 .. Len(d.sms)
  PROVE  SmBytes(d, 1, b) > 0
  <1>1. Len(d.sms) \in Nat /\ 1 \in 1 .. Len(d.sms) /\ d.sms[1].len \in Nat  BY DEF Pdo
  <1> DEFINE c == 1
             e == 2
  <1>2. c \in Nat \ {0} /\ c \in 0 .. Len(d.sms) /\ c <= c /\ c - 1 = 0  BY <1>1
  <1>3. SmBytes(d, c, c) = SmBytes(d, c, c - 1) + d.sms[c].len
    <2> HIDE DEF c
    <2> QED  BY <1>2, SmFacts
  <1>4. SmBytes(d, 1, 1) = d.sms[1].len  BY <1>1, <1>2, <1>3, SmNone
  <1>5. e \in Nat \ {0} /\ e <= Len(d.sms) + 1 /\ b \in e - 1 .. Len(d.sms) /\ e - 1 = 1
        /\ b \in 0 .. Len(d.sms)
    BY <1>1
  <1> HIDE DEF e
  <1>6. SmBytes(d, 1, b) = SmBytes(d, 1, e - 1) + SmBytes(d, e, b) /\ SmBytes(d, e, b) \in Nat
    BY <1>5, SmJoin, SmFacts
  <1> QED  BY <1>1, <1>4, <1>5, <1>6

\* An FMMU ends at a sync manager that there is, not before it starts.
LEMMA Joined ==
  ASSUME NEW d, Pdo(d), NEW c \in 1 .. Len(d.sms)
  PROVE  LastJoined(d, c) \in c .. Len(d.sms)
  <1> DEFINE S == {j \in c .. Len(d.sms) :
                     \/ 8 * SmBytes(d, 1, j) >= d.bits
                     \/ j = Len(d.sms)
                     \/ d.sms[j + 1].gap}
  <1>1. Len(d.sms) \in S /\ S \in SUBSET Nat  BY DEF Pdo
  <1>2. Min(S) \in S
    <2> HIDE DEF S
    <2> QED  BY <1>1, MinIn
  <1> QED  BY <1>2 DEF LastJoined

-----------------------------------------------------------------------------
(* What the mapping keeps, and what one FMMU does to it.                   *)

Dirs == {"O", "I"}
Fmmu == [slave : DOMAIN slaves, dir : Dirs, first : Nat, last : Nat, size : Nat \ {0},
         start : Nat, sbit : 0 .. 7, ebit : 0 .. 7]
Group == [Obytes : Nat, Ibytes : Nat, Isegment : Nat, Ioffset : Nat, nsegments : Nat,
          outputsWKC : Nat, inputsWKC : Nat, blockLRW : Nat]

\* The first and the last bit of an FMMU, and the first free one of the image.
FirstBit(f) == 8 * f.start + f.sbit
LastBit(f) == 8 * (f.start + f.size - 1) + f.ebit
Cursor == 8 * LogAddr + BitPos

Network ==
    /\ Len(slaves) \in Nat /\ DOMAIN slaves = 1 .. Len(slaves)
    /\ \A s \in DOMAIN slaves : Pdo(slaves[s].O) /\ Pdo(slaves[s].I) /\ slaves[s].blockLRW \in BOOLEAN

\* How far the mapping of one slave and direction is.
Loop ==
    /\ SMc \in Nat \ {0} /\ ByteCount \in Nat /\ FMMUdone \in Nat
    /\ phase \in Dirs /\ slave <= Len(slaves) =>
         /\ SMc <= Len(Pdos.sms) + 1
         /\ FMMUdone = 0 => ByteCount = 0 /\ (SMc = 1 \/ Bytes(Pdos) > 0)
         /\ FMMUdone > 0 => Pdos.bits > 0
         /\ Bytes(Pdos) > 0 => FMMUdone <= Bytes(Pdos) /\ (FMMUdone > 0 => ByteCount > 0)
         /\ Bytes(Pdos) = 0 /\ FMMUdone > 0 => FMMUdone >= NeedBytes(Pdos)
         /\ Bytes(Pdos) > 0 /\ (FMMUdone > 0 \/ SMc > 1) => BitPos = 0
         /\ FMMUdone < NeedBytes(Pdos) /\ SMc <= Len(Pdos.sms) =>
              /\ ByteCount = SmBytes(Pdos, 1, SMc - 1) /\ ByteCount <= FMMUdone
              /\ SMc <= 2 => FMMUdone = ByteCount
         /\ SMc > Len(Pdos.sms) /\ Pdos.bits > 0 => 8 * SmBytes(Pdos, 1, Len(Pdos.sms)) < Pdos.bits
    /\ ~(phase \in Dirs /\ slave <= Len(slaves)) => FMMUdone = 0 /\ SMc = 1 /\ ByteCount = 0

MapTyped ==
    /\ Network
    /\ phase \in Dirs \cup {"mapped"} /\ slave \in 1 .. Len(slaves) + 1 /\ overlap \in BOOLEAN
    /\ LogAddr \in Nat /\ BitPos \in 0 .. 7 /\ oLogAddr \in 0 .. LogAddr
    /\ ends \in [O : Nat, I : Nat]
    /\ IOsegment \in [0 .. MAXIOSEGMENTS - 1 -> Nat]
    /\ currentsegment \in 0 .. MAXIOSEGMENTS - 1 /\ segmentsize \in Nat
    /\ grp \in Group /\ (~overlap /\ phase = "I" => grp.Obytes <= LogAddr)
    /\ at \in [DOMAIN slaves -> [O : Int, I : Int]]
    /\ IsFiniteSet(fmmu) /\ \A f \in fmmu : f \in Fmmu

\* What the proofs need of the constants.
LEMMA Parameters == MAXIOSEGMENTS \in Nat /\ MAXIOSEGMENTS > 0 /\ LIMIT \in Nat /\ LIMIT > 0
  BY IOmapAssumption DEF IOmapAssumption

\* The slave and direction at hand.
LEMMA PdosPdo ==
  ASSUME Network, phase \in Dirs, slave \in 1 .. Len(slaves)
  PROVE  Pdo(Pdos) /\ Pdos.bits \in Nat
  BY DEF Network, Dirs, Pdos, Pdo

\* Bits and the bytes that hold them.
LEMMA Numbers8 ==
  ASSUME NEW d, d.bits \in Nat
  PROVE  /\ NeedBytes(d) \in Nat /\ Bytes(d) \in Nat
         /\ 8 * NeedBytes(d) >= d.bits /\ 8 * NeedBytes(d) < d.bits + 8
         /\ NeedBytes(d) > 0 <=> d.bits > 0
         /\ Bytes(d) > 0 => Bytes(d) = NeedBytes(d) /\ d.bits > 7
         /\ Bytes(d) = 0 => d.bits <= 7
  BY DEF NeedBytes, Bytes

\* Whole bytes and the rest.
LEMMA Division8 ==
  ASSUME NEW e \in Nat
  PROVE  e \div 8 \in Nat /\ e % 8 \in 0 .. 7 /\ 8 * (e \div 8) + (e % 8) = e
  OBVIOUS

\* One more FMMU.
Adds(n) ==
    /\ MapsFmmu /\ n \in Fmmu /\ n.slave = slave /\ n.dir = phase
    /\ n.first = SMc /\ n.last = LastJoined(Pdos, SMc)
    /\ fmmu' = fmmu \cup {n} /\ PointTo(FirstBit(n))
    /\ FirstBit(n) >= Cursor /\ LastBit(n) >= FirstBit(n) /\ Cursor' = LastBit(n) + 1
    /\ LogAddr' \in Nat /\ BitPos' \in 0 .. 7
    /\ FMMUdone' = FMMUdone + n.size
    /\ ByteCount' = ByteCount + SmBytes(Pdos, SMc, n.last)
    /\ NextSM /\ CountWKC
    /\ IF Bytes(Pdos) = 0
       THEN FirstBit(n) = Cursor /\ LastBit(n) = Cursor + Pdos.bits - 1
       ELSE /\ n.start = (IF BitPos > 0 THEN LogAddr + 1 ELSE LogAddr) /\ n.sbit = 0 /\ n.ebit = 7
            /\ n.size = Min({ByteCount', Bytes(Pdos) - FMMUdone})
            /\ BitPos' = 0 /\ ByteCount' > 0
    /\ UNCHANGED <<slaves, overlap, phase, slave, moved, empty, oLogAddr, ends, segs>>

\* While a slave is mapped it has a sync manager left.
LEMMA MapsPdo ==
  ASSUME MapTyped, Loop, MapsFmmu
  PROVE  /\ slave \in 1 .. Len(slaves) /\ Pdo(Pdos) /\ Pdos.bits \in Nat
         /\ Pdos.bits > 0 /\ SMc \in 1 .. Len(Pdos.sms)
         /\ LastJoined(Pdos, SMc) \in SMc .. Len(Pdos.sms)
         /\ SmBytes(Pdos, SMc, LastJoined(Pdos, SMc)) \in Nat
         /\ SmBytes(Pdos, 1, LastJoined(Pdos, SMc)) =
                SmBytes(Pdos, 1, SMc - 1) + SmBytes(Pdos, SMc, LastJoined(Pdos, SMc))
         /\ SmBytes(Pdos, 1, SMc - 1) \in Nat
  <1> DEFINE d == Pdos
             j == LastJoined(d, SMc)
  <1>1. slave \in 1 .. Len(slaves) /\ phase \in Dirs  BY DEF MapTyped, MapsFmmu, Network, Dirs
  <1>2. Pdo(d) /\ d.bits \in Nat  BY <1>1, PdosPdo DEF MapTyped
  <1>3. SMc \in 1 .. Len(d.sms) /\ Len(d.sms) \in Nat  BY <1>2 DEF MapsFmmu, Loop, Pdo
  <1>4. d.bits > 0  BY <1>2, Numbers8 DEF MapsFmmu, Loop
  <1> HIDE DEF d
  <1>5. j \in SMc .. Len(d.sms)  BY <1>2, <1>3, Joined
  <1> HIDE DEF j
  <1>6. SmBytes(d, SMc, j) \in Nat
    <2>1. SMc \in Nat \ {0} /\ j \in 0 .. Len(d.sms) /\ SMc <= j  BY <1>3, <1>5
    <2> QED  BY <1>2, <2>1, SmFacts
  <1>7. SmBytes(d, 1, j) = SmBytes(d, 1, SMc - 1) + SmBytes(d, SMc, j)
    <2>1. SMc \in Nat \ {0} /\ SMc <= Len(d.sms) + 1 /\ j \in SMc - 1 .. Len(d.sms)  BY <1>3, <1>5
    <2> QED  BY <1>2, <2>1, SmJoin
  <1>8. SmBytes(d, 1, SMc - 1) \in Nat
    <2>1. SMc - 1 \in 0 .. Len(d.sms)  BY <1>3
    <2> QED  BY <1>2, <2>1, SmNat
  <1> QED  BY <1>1, <1>2, <1>3, <1>4, <1>5, <1>6, <1>7, <1>8 DEF d, j

\* Both actions that set up an FMMU are Adds.
LEMMA MapBitsAdds ==
  ASSUME MapTyped, Loop, MapBits
  PROVE  \E n : Adds(n)
  <1> DEFINE b == Pdos.bits
             end == 8 * LogAddr + BitPos + b - 1
             n == [slave |-> slave, dir |-> phase, first |-> SMc,
                   last |-> LastJoined(Pdos, SMc), size |-> end \div 8 - LogAddr + 1,
                   start |-> LogAddr, sbit |-> BitPos, ebit |-> end % 8]
  <1>1. MapsFmmu /\ Bytes(Pdos) = 0  BY DEF MapBits
  <1>2. slave \in 1 .. Len(slaves) /\ b \in Nat /\ b > 0 /\ SMc \in Nat
        /\ LastJoined(Pdos, SMc) \in Nat
    BY <1>1, MapsPdo
  <1>3. phase \in Dirs /\ LogAddr \in Nat /\ BitPos \in 0 .. 7 /\ DOMAIN slaves = 1 .. Len(slaves)
    BY <1>1 DEF MapTyped, MapsFmmu, Dirs, Network
  <1>4. /\ fmmu' = fmmu \cup {n} /\ PointTo(8 * LogAddr + BitPos)
        /\ LogAddr' = (end + 1) \div 8 /\ BitPos' = (end + 1) % 8
        /\ FMMUdone' = FMMUdone + (end \div 8 - LogAddr + 1)
        /\ ByteCount' = ByteCount + SmBytes(Pdos, SMc, LastJoined(Pdos, SMc))
        /\ NextSM /\ CountWKC
        /\ UNCHANGED <<slaves, overlap, phase, slave, moved, empty, oLogAddr, ends, segs>>
    BY DEF MapBits, AddFmmu
  <1> HIDE DEF b
  <1>5. /\ end \in Nat /\ end >= 8 * LogAddr + BitPos /\ end \div 8 - LogAddr + 1 \in Nat \ {0}
        /\ end % 8 \in 0 .. 7 /\ end = 8 * (end \div 8) + (end % 8)
        /\ (end + 1) \div 8 \in Nat /\ (end + 1) % 8 \in 0 .. 7
        /\ 8 * ((end + 1) \div 8) + ((end + 1) % 8) = end + 1
    <2>1. end \in Nat /\ end + 1 \in Nat /\ end >= 8 * LogAddr + BitPos  BY <1>2, <1>3
    <2> HIDE DEF end
    <2>2. end \div 8 \in Nat /\ end % 8 \in 0 .. 7 /\ 8 * (end \div 8) + (end % 8) = end
      BY <2>1, Division8
    <2>3. (end + 1) \div 8 \in Nat /\ (end + 1) % 8 \in 0 .. 7
          /\ 8 * ((end + 1) \div 8) + ((end + 1) % 8) = end + 1
      BY <2>1, Division8
    <2>4. end \div 8 >= LogAddr  BY <1>3, <2>1, <2>2
    <2> QED  BY <1>3, <2>1, <2>2, <2>3, <2>4
  <1>6. n \in Fmmu  BY <1>2, <1>3, <1>5 DEF Fmmu
  <1>7. FirstBit(n) = 8 * LogAddr + BitPos /\ LastBit(n) = end
    BY <1>2, <1>3, <1>5 DEF FirstBit, LastBit
  <1>8. Cursor' = end + 1  BY <1>4, <1>5 DEF Cursor
  <1>9. Adds(n)
    <2>1. n.slave = slave /\ n.dir = phase /\ n.first = SMc /\ n.last = LastJoined(Pdos, SMc)
          /\ n.size = end \div 8 - LogAddr + 1
      OBVIOUS
    <2> HIDE DEF n
    <2>2. LogAddr' \in Nat /\ BitPos' \in 0 .. 7  BY <1>4, <1>5
    <2>3. FirstBit(n) = Cursor /\ LastBit(n) = Cursor + Pdos.bits - 1
          /\ LastBit(n) >= FirstBit(n) /\ Cursor' = LastBit(n) + 1
      <3> HIDE DEF end
      <3>1. end = 8 * LogAddr + BitPos + Pdos.bits - 1  BY DEF end, b
      <3> QED  BY <1>3, <1>5, <1>7, <1>8, <3>1 DEF Cursor
    <2>4. PointTo(FirstBit(n))  BY <1>4, <1>7
    <2>5. FirstBit(n) >= Cursor  BY <1>3, <2>3 DEF Cursor
    <2> HIDE DEF end
    <2> QED  BY <1>1, <1>4, <1>6, <2>1, <2>2, <2>3, <2>4, <2>5 DEF Adds
  <1> QED  BY <1>9

\* The same for a byte oriented slave.
LEMMA MapBytesAdds ==
  ASSUME MapTyped, Loop, MapBytes
  PROVE  \E n : Adds(n)
  <1> DEFINE start == IF BitPos > 0 THEN LogAddr + 1 ELSE LogAddr
             size == Min({ByteCount', Bytes(Pdos) - FMMUdone})
             n == [slave |-> slave, dir |-> phase, first |-> SMc,
                   last |-> LastJoined(Pdos, SMc), size |-> size,
                   start |-> start, sbit |-> 0, ebit |-> 7]
  <1>1. MapsFmmu /\ Bytes(Pdos) > 0  BY DEF MapBytes
  <1>2. /\ slave \in 1 .. Len(slaves) /\ Pdos.bits \in Nat /\ SMc \in Nat
        /\ LastJoined(Pdos, SMc) \in Nat
        /\ SmBytes(Pdos, SMc, LastJoined(Pdos, SMc)) \in Nat
    BY <1>1, MapsPdo
  <1>3. phase \in Dirs /\ LogAddr \in Nat /\ BitPos \in 0 .. 7 /\ DOMAIN slaves = 1 .. Len(slaves)
        /\ ByteCount \in Nat /\ FMMUdone \in Nat
    BY <1>1 DEF MapTyped, Loop, MapsFmmu, Dirs, Network
  <1>4. /\ fmmu' = fmmu \cup {n} /\ PointTo(8 * start + 0)
        /\ LogAddr' = start + size /\ BitPos' = 0
        /\ FMMUdone' = FMMUdone + size
        /\ ByteCount' = ByteCount + SmBytes(Pdos, SMc, LastJoined(Pdos, SMc)) /\ ByteCount' > 0
        /\ NextSM /\ CountWKC
        /\ UNCHANGED <<slaves, overlap, phase, slave, moved, empty, oLogAddr, ends, segs>>
    BY DEF MapBytes, AddFmmu
  <1>5. size \in Nat \ {0}
    <2>1. Bytes(Pdos) = NeedBytes(Pdos) /\ Bytes(Pdos) \in Nat  BY <1>1, <1>2, Numbers8
    <2>2. ByteCount' \in Nat \ {0} /\ Bytes(Pdos) - FMMUdone \in Nat \ {0}
      BY <1>1, <1>2, <1>3, <1>4, <2>1 DEF MapsFmmu
    <2> QED  BY <2>2, MinOfTwo
  <1>6. start \in Nat /\ 8 * start >= 8 * LogAddr + BitPos  BY <1>3
  <1>7. n.slave = slave /\ n.dir = phase /\ n.first = SMc /\ n.last = LastJoined(Pdos, SMc)
        /\ n.size = size /\ n.start = start /\ n.sbit = 0 /\ n.ebit = 7
    OBVIOUS
  <1>8. n \in Fmmu
    <2> HIDE DEF size, start
    <2> QED  BY <1>2, <1>3, <1>5, <1>6 DEF Fmmu
  <1>9. Adds(n)
    <2>0. start = IF BitPos > 0 THEN LogAddr + 1 ELSE LogAddr  OBVIOUS
    <2>1. size = Min({ByteCount', Bytes(Pdos) - FMMUdone})  OBVIOUS
    <2> HIDE DEF n, size, start
    <2>2. FirstBit(n) = 8 * start /\ LastBit(n) = 8 * (start + size) - 1 /\ 8 * start + 0 = 8 * start
      BY <1>5, <1>6, <1>7 DEF FirstBit, LastBit
    <2>3. Cursor' = 8 * (start + size)  BY <1>4, <1>5, <1>6 DEF Cursor
    <2>4. LogAddr' \in Nat /\ BitPos' \in 0 .. 7  BY <1>4, <1>5, <1>6
    <2>5. FirstBit(n) >= Cursor /\ LastBit(n) >= FirstBit(n) /\ Cursor' = LastBit(n) + 1
      BY <1>5, <1>6, <2>2, <2>3 DEF Cursor
    <2>6. PointTo(FirstBit(n))  BY <1>4, <2>2
    <2> QED  BY <1>1, <1>4, <1>7, <1>8, <2>0, <2>1, <2>4, <2>5, <2>6 DEF Adds
  <1> QED  BY <1>9

-----------------------------------------------------------------------------
(* Types.                                                                  *)

\* An FMMU leaves the loop over the sync managers in order.
LEMMA AddsLoop ==
  ASSUME MapTyped, Loop, NEW n, Adds(n)
  PROVE  Loop'
  <1> DEFINE d == Pdos
             j == LastJoined(d, SMc)
  <1>1. /\ slave \in 1 .. Len(slaves) /\ Pdo(d) /\ d.bits \in Nat /\ d.bits > 0
        /\ SMc \in 1 .. Len(d.sms) /\ j \in SMc .. Len(d.sms) /\ Len(d.sms) \in Nat
        /\ SmBytes(d, SMc, j) \in Nat
        /\ SmBytes(d, 1, j) = SmBytes(d, 1, SMc - 1) + SmBytes(d, SMc, j)
        /\ SmBytes(d, 1, SMc - 1) \in Nat
    BY MapsPdo DEF Adds, Pdo
  <1>2. d' = d /\ slave' = slave /\ phase' = phase /\ slaves' = slaves
    BY DEF Adds, Pdos
  <1>3. /\ FMMUdone' = FMMUdone + n.size /\ ByteCount' = ByteCount + SmBytes(d, SMc, j)
        /\ n.size \in Nat \ {0} /\ FMMUdone < NeedBytes(d) /\ phase \in Dirs
        /\ SMc' = IF 8 * SmBytes(d, 1, j) >= d.bits THEN j ELSE j + 1
    BY DEF Adds, Fmmu, MapsFmmu, NextSM, Dirs
  <1>4. /\ SMc \in Nat \ {0} /\ ByteCount \in Nat /\ FMMUdone \in Nat
        /\ ByteCount = SmBytes(d, 1, SMc - 1)
        /\ SMc <= 2 => FMMUdone = ByteCount
    BY <1>1, <1>3 DEF Loop
  <1>5. Bytes(d) # 0 => /\ n.size = Min({ByteCount', Bytes(d) - FMMUdone}) /\ BitPos' = 0
                        /\ ByteCount' > 0
    BY DEF Adds
  <1> HIDE DEF d, j
  <1>6. /\ NeedBytes(d) \in Nat /\ Bytes(d) \in Nat
        /\ 8 * NeedBytes(d) >= d.bits /\ 8 * NeedBytes(d) < d.bits + 8
        /\ Bytes(d) > 0 => Bytes(d) = NeedBytes(d)
        /\ Bytes(d) = 0 => d.bits <= 7
    BY <1>1, Numbers8
  <1>7. /\ ByteCount' = SmBytes(d, 1, j) /\ ByteCount' \in Nat
        /\ FMMUdone' \in Nat /\ FMMUdone' > 0 /\ n.size \in Nat /\ n.size > 0
        /\ j \in Nat /\ SMc' \in Nat /\ SMc' >= 1 /\ SMc' <= Len(d.sms) + 1
        /\ SMc' = j \/ SMc' = j + 1
    <2> DEFINE a == SmBytes(d, SMc, j)
               b == SmBytes(d, 1, SMc - 1)
               c == SmBytes(d, 1, j)
    <2>1. /\ a \in Nat /\ b \in Nat /\ c = b + a /\ ByteCount = b
          /\ ByteCount' = ByteCount + a
      BY <1>1, <1>3, <1>4
    <2> HIDE DEF a, b, c
    <2>2. ByteCount' = c /\ c \in Nat  BY <2>1
    <2>3. FMMUdone' \in Nat /\ FMMUdone' > 0 /\ n.size \in Nat /\ n.size > 0  BY <1>3, <1>4
    <2>4. SMc' = j \/ SMc' = j + 1  BY <1>3
    <2>5. j \in Nat /\ SMc' \in Nat /\ SMc' >= 1 /\ SMc' <= Len(d.sms) + 1  BY <1>1, <2>4
    <2> QED  BY <2>2, <2>3, <2>4, <2>5 DEF c
  <1>8. Bytes(d) > 0 =>
          /\ FMMUdone' <= Bytes(d) /\ BitPos' = 0 /\ ByteCount' > 0
          /\ FMMUdone' < Bytes(d) => n.size = ByteCount'
    <2> SUFFICES ASSUME Bytes(d) > 0
                 PROVE  /\ FMMUdone' <= Bytes(d) /\ BitPos' = 0 /\ ByteCount' > 0
                        /\ FMMUdone' < Bytes(d) => n.size = ByteCount'
      OBVIOUS
    <2>1. Bytes(d) - FMMUdone \in Int /\ ByteCount' \in Int  BY <1>4, <1>6, <1>7
    <2>2. n.size = IF ByteCount' <= Bytes(d) - FMMUdone THEN ByteCount' ELSE Bytes(d) - FMMUdone
      BY <1>5, <1>6, <2>1, MinOfTwo
    <2> QED  BY <1>3, <1>4, <1>5, <1>6, <1>7, <2>2
  <1>9. Bytes(d) = 0 => FMMUdone' >= NeedBytes(d)
    <2>1. Bytes(d) = 0 => NeedBytes(d) <= 1  BY <1>1, <1>6
    <2> QED  BY <1>6, <1>7, <2>1
  <1>10. FMMUdone' < NeedBytes(d) =>
           /\ ByteCount' = SmBytes(d, 1, SMc' - 1) /\ ByteCount' <= FMMUdone'
           /\ SMc' <= 2 => FMMUdone' = ByteCount'
    <2> SUFFICES ASSUME FMMUdone' < NeedBytes(d)
                 PROVE  /\ ByteCount' = SmBytes(d, 1, SMc' - 1) /\ ByteCount' <= FMMUdone'
                        /\ SMc' <= 2 => FMMUdone' = ByteCount'
      OBVIOUS
    <2>0. Bytes(d) > 0  BY <1>6, <1>7, <1>9
    <2>1. Bytes(d) = NeedBytes(d) /\ n.size = ByteCount'  BY <1>6, <1>8, <2>0
    <2>2. 8 * SmBytes(d, 1, j) < d.bits
      <3>1. ByteCount' <= FMMUdone'  BY <1>3, <1>4, <1>7, <2>1
      <3> DEFINE x == ByteCount'
                 y == FMMUdone'
                 z == NeedBytes(d)
                 w == d.bits
      <3>2. 8 * x < w
        <4>1. x \in Nat /\ y \in Nat  BY <1>7
        <4>2. z \in Nat /\ w \in Nat /\ 8 * z < w + 8  BY <1>1, <1>6
        <4>3. x <= y /\ y < z  BY <3>1
        <4> HIDE DEF x, y, z, w
        <4>4. x <= z - 1  BY <4>1, <4>2, <4>3
        <4> QED  BY <4>1, <4>2, <4>4
      <3> QED  BY <1>7, <3>2
    <2>3. SMc' = j + 1
      <3>1. SmBytes(d, 1, j) \in Nat  BY <1>7
      <3>2. ~ (8 * SmBytes(d, 1, j) >= d.bits)  BY <1>1, <2>2, <3>1
      <3> QED  BY <1>3, <3>2
    <2>4. SMc' - 1 = j  BY <1>1, <2>3
    <2>5. SMc' <= 2 => SMc = 1  BY <1>1, <2>3
    <2>6. SmBytes(d, 1, 0) = 0  BY <1>1, SmNone
    <2>7. SMc = 1 => FMMUdone = 0
      <3> SUFFICES ASSUME SMc = 1 PROVE FMMUdone = 0  OBVIOUS
      <3>1. SMc - 1 = 0  OBVIOUS
      <3> QED  BY <1>4, <2>6, <3>1
    <2> QED  BY <1>3, <1>4, <1>7, <2>1, <2>4, <2>5, <2>7
  <1>11. SMc' > Len(d.sms) => 8 * SmBytes(d, 1, Len(d.sms)) < d.bits
    <2> SUFFICES ASSUME SMc' > Len(d.sms) PROVE 8 * SmBytes(d, 1, Len(d.sms)) < d.bits
      OBVIOUS
    <2>1. SMc' = j + 1 /\ j = Len(d.sms)  BY <1>1, <1>7
    <2>2. 8 * SmBytes(d, 1, j) < d.bits
      <3> DEFINE x == SmBytes(d, 1, j)
                 w == d.bits
      <3>1. x \in Nat /\ w \in Nat  BY <1>1, <1>7
      <3>2. SMc' = IF 8 * x >= w THEN j ELSE j + 1  BY <1>3
      <3> HIDE DEF x, w
      <3>3. 8 * x < w  BY <1>7, <2>1, <3>1, <3>2
      <3> QED  BY <3>3 DEF x, w
    <2> QED  BY <2>1, <2>2
  <1>12. /\ phase' \in Dirs /\ slave' <= Len(slaves') /\ Pdos' = d
    <2>1. slave <= Len(slaves)  BY <1>1 DEF MapTyped, Network
    <2> QED  BY <1>2, <1>3, <2>1 DEF d
  <1>13. /\ SMc' \in Nat \ {0} /\ ByteCount' \in Nat /\ FMMUdone' \in Nat /\ d.bits > 0
         /\ SMc' <= Len(d.sms) + 1 /\ FMMUdone' # 0
         /\ Bytes(d) > 0 => FMMUdone' <= Bytes(d) /\ ByteCount' > 0 /\ BitPos' = 0
    BY <1>1, <1>7, <1>8
  <1> QED  BY <1>9, <1>10, <1>11, <1>12, <1>13 DEF Loop

\* What an FMMU of length 0 does: the mapping goes on behind its sync managers.
LEMMA EmptyEffect ==
  ASSUME MapTyped, Loop, MapEmpty
  PROVE  /\ MapsFmmu /\ phase \in Dirs /\ slave \in 1 .. Len(slaves) /\ slave \in DOMAIN slaves
         /\ Bytes(Pdos) > 0 /\ Pdos.bits > 0 /\ FMMUdone = 0 /\ FMMUdone' = 0 /\ ByteCount' = 0
         /\ SMc' \in Nat /\ SMc' > 1 /\ SMc' <= Len(Pdos.sms) + 1
         /\ SmBytes(Pdos, 1, SMc' - 1) = 0
         /\ LogAddr' = (IF BitPos > 0 THEN LogAddr + 1 ELSE LogAddr) /\ LogAddr' \in Nat
         /\ BitPos' = 0 /\ (SMc > 1 => BitPos = 0)
         /\ PointTo(Cursor') /\ Cursor' = 8 * LogAddr' /\ Cursor' >= Cursor
         /\ IF phase = "O" THEN CountWKC /\ empty' = empty + 1 ELSE grp' = grp /\ empty' = empty
         /\ UNCHANGED <<slaves, overlap, phase, slave, fmmu, moved, oLogAddr, ends, segs, Pdos>>
  <1> DEFINE d == Pdos
             j == LastJoined(d, SMc)
  <1>1. /\ MapsFmmu /\ Bytes(d) > 0 /\ BitPos' = 0
        /\ ByteCount' = ByteCount + SmBytes(d, SMc, j) /\ ByteCount' = 0
        /\ LogAddr' = (IF BitPos > 0 THEN LogAddr + 1 ELSE LogAddr)
        /\ PointTo(8 * LogAddr') /\ NextSM
        /\ IF phase = "O" THEN CountWKC /\ empty' = empty + 1 ELSE grp' = grp /\ empty' = empty
        /\ UNCHANGED <<slaves, overlap, phase, slave, FMMUdone, fmmu, moved, oLogAddr, ends, segs>>
    BY DEF MapEmpty
  <1>2. /\ slave \in 1 .. Len(slaves) /\ d.bits \in Nat /\ d.bits > 0
        /\ SMc \in 1 .. Len(d.sms) /\ j \in SMc .. Len(d.sms) /\ Len(d.sms) \in Nat
        /\ SmBytes(d, SMc, j) \in Nat
        /\ SmBytes(d, 1, j) = SmBytes(d, 1, SMc - 1) + SmBytes(d, SMc, j)
        /\ SmBytes(d, 1, SMc - 1) \in Nat
    BY <1>1, MapsPdo DEF Pdo
  <1>3. /\ phase \in Dirs /\ slave <= Len(slaves) /\ slave \in DOMAIN slaves
        /\ LogAddr \in Nat /\ BitPos \in 0 .. 7
        /\ FMMUdone < NeedBytes(d) /\ SMc <= Len(d.sms)
    BY <1>1 DEF MapsFmmu, MapTyped, Dirs, Network
  <1>4. /\ ByteCount \in Nat /\ FMMUdone \in Nat /\ ByteCount = SmBytes(d, 1, SMc - 1)
        /\ FMMUdone > 0 => ByteCount > 0
        /\ SMc > 1 => BitPos = 0
    BY <1>1, <1>3 DEF Loop
  <1>5. d' = d  BY <1>1 DEF Pdos
  <1>6. SMc' = IF 8 * SmBytes(d, 1, j) >= d.bits THEN j ELSE j + 1  BY <1>1 DEF NextSM
  <1> HIDE DEF d, j
  <1>7. ByteCount = 0 /\ FMMUdone = 0 /\ SmBytes(d, 1, j) = 0  BY <1>1, <1>2, <1>4
  <1>8. SMc' = j + 1
    <2>1. 8 * SmBytes(d, 1, j) = 0  BY <1>7
    <2>2. ~(0 >= d.bits)  BY <1>2
    <2> QED  BY <1>6, <2>1, <2>2
  <1>9. SMc' - 1 = j /\ SMc' \in Nat /\ SMc' > 1 /\ SMc' <= Len(d.sms) + 1  BY <1>2, <1>8
  <1>10. Cursor' = 8 * LogAddr' /\ LogAddr' \in Nat /\ Cursor' >= Cursor  BY <1>1, <1>3 DEF Cursor
  <1> QED  BY <1>1, <1>2, <1>3, <1>4, <1>5, <1>7, <1>9, <1>10 DEF d

\* It leaves the loop over the sync managers in order.
LEMMA EmptyLoop ==
  ASSUME MapTyped, Loop, MapEmpty
  PROVE  Loop'
  <1> DEFINE d == Pdos
  <1>1. /\ phase \in Dirs /\ slave \in 1 .. Len(slaves) /\ d' = d
        /\ Bytes(d) > 0 /\ d.bits > 0 /\ FMMUdone' = 0 /\ ByteCount' = 0 /\ BitPos' = 0
        /\ SMc' \in Nat /\ SMc' > 1 /\ SMc' <= Len(d.sms) + 1 /\ SmBytes(d, 1, SMc' - 1) = 0
        /\ slaves' = slaves /\ phase' = phase /\ slave' = slave
    BY EmptyEffect
  <1>2. Pdo(d) /\ d.bits \in Nat /\ Len(d.sms) \in Nat  BY <1>1, PdosPdo DEF MapTyped, Pdo
  <1>3. phase' \in Dirs /\ slave' <= Len(slaves') /\ Pdos' = d
    BY <1>1 DEF MapTyped, Network
  <1> HIDE DEF d
  <1>4. SMc' > Len(d.sms) => 8 * SmBytes(d, 1, Len(d.sms)) < d.bits
    <2>1. SMc' > Len(d.sms) => SMc' - 1 = Len(d.sms)  BY <1>1, <1>2
    <2> QED  BY <1>1, <1>2, <2>1
  <1>5. /\ SMc' \in Nat \ {0} /\ ByteCount' \in Nat /\ FMMUdone' \in Nat /\ SMc' <= Len(d.sms) + 1
        /\ FMMUdone' = 0 /\ ByteCount' = 0 /\ FMMUdone' <= Bytes(d) /\ BitPos' = 0
        /\ ByteCount' = SmBytes(d, 1, SMc' - 1) /\ ByteCount' <= FMMUdone'
    BY <1>1, <1>2, Numbers8
  <1> QED  BY <1>1, <1>3, <1>4, <1>5 DEF Loop

\* Only the pointer of the slave and direction at hand is set, and only once.
LEMMA PointToType ==
  ASSUME MapTyped, slave \in DOMAIN slaves, phase \in Dirs, NEW bit \in Int, PointTo(bit)
  PROVE  /\ at' \in [DOMAIN slaves -> [O : Int, I : Int]]
         /\ \A s \in DOMAIN slaves, dir \in Dirs :
              at'[s][dir] = IF s = slave /\ dir = phase /\ at[s][dir] = NULL THEN bit ELSE at[s][dir]
  BY DEF MapTyped, PointTo, Dirs

\* The record of the group, with one entry changed.
LEMMA GroupEntry ==
  ASSUME NEW g \in Group, NEW x \in Nat
  PROVE  /\ [g EXCEPT !.Obytes = x] \in Group /\ [g EXCEPT !.Ibytes = x] \in Group
         /\ [g EXCEPT !.Isegment = x] \in Group /\ [g EXCEPT !.Ioffset = x] \in Group
         /\ [g EXCEPT !.nsegments = x] \in Group /\ [g EXCEPT !.blockLRW = x] \in Group
         /\ [g EXCEPT !.outputsWKC = x] \in Group /\ [g EXCEPT !.inputsWKC = x] \in Group
  BY DEF Group

\* One work counter more, and nothing else of the group.
LEMMA CountType ==
  ASSUME MapTyped, phase \in Dirs, CountWKC
  PROVE  /\ grp' \in Group
         /\ grp'.outputsWKC = IF phase = "O" THEN grp.outputsWKC + 1 ELSE grp.outputsWKC
         /\ grp'.inputsWKC = IF phase = "I" THEN grp.inputsWKC + 1 ELSE grp.inputsWKC
         /\ grp'.Obytes = grp.Obytes /\ grp'.Ibytes = grp.Ibytes /\ grp'.nsegments = grp.nsegments
         /\ grp'.Isegment = grp.Isegment /\ grp'.Ioffset = grp.Ioffset
         /\ grp'.blockLRW = grp.blockLRW
  <1> DEFINE x == IF phase = "O" THEN grp.outputsWKC + 1 ELSE grp.outputsWKC
             y == IF phase = "I" THEN grp.inputsWKC + 1 ELSE grp.inputsWKC
             h == [grp EXCEPT !.outputsWKC = x]
  <1>1. grp \in Group /\ x \in Nat /\ y \in Nat  BY DEF MapTyped, Group
  <1>2. h \in Group
    <2> HIDE DEF x
    <2> QED  BY <1>1, GroupEntry
  <1>3. grp' = [h EXCEPT !.inputsWKC = y]
    BY <1>1 DEF CountWKC, Group
  <1> HIDE DEF x, y
  <1>4. h.outputsWKC = x /\ h.Obytes = grp.Obytes /\ h.Ibytes = grp.Ibytes
        /\ h.nsegments = grp.nsegments /\ h.Isegment = grp.Isegment /\ h.Ioffset = grp.Ioffset
        /\ h.blockLRW = grp.blockLRW
    BY <1>1 DEF Group
  <1> HIDE DEF h
  <1>5. grp' \in Group  BY <1>1, <1>2, <1>3, GroupEntry
  <1>6. grp'.outputsWKC = x /\ grp'.inputsWKC = y /\ grp'.Obytes = grp.Obytes
        /\ grp'.Ibytes = grp.Ibytes /\ grp'.nsegments = grp.nsegments
        /\ grp'.Isegment = grp.Isegment /\ grp'.Ioffset = grp.Ioffset
        /\ grp'.blockLRW = grp.blockLRW
    BY <1>2, <1>3, <1>4 DEF Group
  <1> QED  BY <1>5, <1>6 DEF x, y

\* An FMMU keeps the types.
LEMMA AddsTyped ==
  ASSUME MapTyped, Loop, NEW n, Adds(n)
  PROVE  MapTyped'
  <1>1. slave \in 1 .. Len(slaves) /\ slave \in DOMAIN slaves /\ phase \in Dirs
    BY MapsPdo DEF Adds, MapTyped, Network, MapsFmmu, Dirs
  <1>2. FirstBit(n) \in Nat /\ LastBit(n) \in Nat
    BY DEF Adds, Fmmu, FirstBit, LastBit
  <1>0. /\ LogAddr \in Nat /\ BitPos \in 0 .. 7 /\ oLogAddr \in 0 .. LogAddr
        /\ LogAddr' \in Nat /\ BitPos' \in 0 .. 7 /\ oLogAddr' = oLogAddr
        /\ FirstBit(n) >= Cursor /\ LastBit(n) >= FirstBit(n) /\ Cursor' = LastBit(n) + 1
    BY DEF Adds, MapTyped
  <1>3. at' \in [DOMAIN slaves -> [O : Int, I : Int]]
    BY <1>1, <1>2, PointToType DEF Adds
  <1>4. oLogAddr' \in 0 .. LogAddr'
    <2>1. 8 * LogAddr' + BitPos' = LastBit(n) + 1 /\ FirstBit(n) >= 8 * LogAddr + BitPos
      BY <1>0 DEF Cursor
    <2>2. LogAddr' \in Nat /\ BitPos' \in Nat /\ BitPos' <= 7 /\ LogAddr \in Nat /\ BitPos \in Nat
          /\ oLogAddr \in Nat /\ oLogAddr <= LogAddr
      BY <1>0
    <2>3. LogAddr <= LogAddr'  BY <1>0, <1>2, <2>1, <2>2
    <2> QED  BY <1>0, <2>2, <2>3
  <1>5. grp' \in Group
    BY <1>1, CountType DEF Adds
  <1>6. IsFiniteSet(fmmu') /\ \A f \in fmmu' : f \in Fmmu'
    <2>1. IsFiniteSet(fmmu \cup {n})  BY FS_AddElement DEF MapTyped
    <2> QED  BY <2>1 DEF Adds, MapTyped, Fmmu
  <1>7. Network'  BY DEF Adds, MapTyped, Network, Pdo
  <1>8. ~overlap /\ phase = "I" => grp'.Obytes <= LogAddr'
    <2>1. grp'.Obytes = grp.Obytes /\ grp.Obytes \in Nat
      BY <1>1, CountType DEF Adds, MapTyped, Group
    <2>2. 8 * LogAddr' + BitPos' = LastBit(n) + 1 /\ FirstBit(n) >= 8 * LogAddr + BitPos
      BY <1>0 DEF Cursor
    <2>3. LogAddr' >= LogAddr  BY <1>0, <1>2, <2>2
    <2> QED  BY <1>0, <2>1, <2>3 DEF MapTyped
  <1> QED  BY <1>3, <1>4, <1>5, <1>6, <1>7, <1>8 DEF Adds, MapTyped, segs

\* An FMMU of length 0 keeps the types.
LEMMA EmptyTyped ==
  ASSUME MapTyped, Loop, MapEmpty
  PROVE  MapTyped'
  <1>1. /\ phase \in Dirs /\ slave \in DOMAIN slaves
        /\ LogAddr' = (IF BitPos > 0 THEN LogAddr + 1 ELSE LogAddr) /\ LogAddr' \in Nat /\ BitPos' = 0
        /\ PointTo(Cursor') /\ Cursor' = 8 * LogAddr'
        /\ IF phase = "O" THEN CountWKC ELSE grp' = grp
        /\ UNCHANGED <<slaves, overlap, phase, slave, fmmu, oLogAddr, ends, segs>>
    BY EmptyEffect
  <1>2. at' \in [DOMAIN slaves -> [O : Int, I : Int]]
    <2>1. Cursor' \in Int  BY <1>1
    <2> QED  BY <1>1, <2>1, PointToType
  <1>3. grp' \in Group /\ grp'.Obytes = grp.Obytes  BY <1>1, CountType DEF MapTyped
  <1>4. LogAddr' >= LogAddr /\ oLogAddr' \in 0 .. LogAddr' /\ BitPos' \in 0 .. 7
        /\ (~overlap /\ phase = "I" => grp'.Obytes <= LogAddr')
    <2>1. LogAddr \in Nat /\ BitPos \in 0 .. 7 /\ oLogAddr \in 0 .. LogAddr /\ grp.Obytes \in Nat
          /\ (~overlap /\ phase = "I" => grp.Obytes <= LogAddr)
      BY DEF MapTyped, Group
    <2> QED  BY <1>1, <1>3, <2>1
  <1>5. Network'  BY <1>1 DEF MapTyped, Network, Pdo
  <1>6. IsFiniteSet(fmmu') /\ \A f \in fmmu' : f \in Fmmu'  BY <1>1 DEF MapTyped, Fmmu
  <1> QED  BY <1>1, <1>2, <1>3, <1>4, <1>5, <1>6 DEF MapTyped, segs

\* A slave begins.
LEMMA LoopBegins ==
  ASSUME Network', phase' \in Dirs \cup {"mapped"}, slave' \in 1 .. Len(slaves') + 1,
         SMc' = 1, ByteCount' = 0, FMMUdone' = 0
  PROVE  Loop'
  <1>1. CASE ~(phase' \in Dirs /\ slave' <= Len(slaves'))
    BY <1>1 DEF Loop
  <1>2. CASE phase' \in Dirs /\ slave' <= Len(slaves')
    <2> DEFINE d == Pdos'
    <2>1. Pdo(d)  BY <1>2 DEF Network, Dirs, Pdos, Pdo
    <2>2. /\ Len(d.sms) \in Nat /\ d.bits \in Nat /\ (d.bits > 0 => Len(d.sms) > 0)
          /\ SmBytes(d, 1, 0) = 0 /\ Bytes(d) \in Nat /\ NeedBytes(d) \in Nat
      <3> HIDE DEF d
      <3> QED  BY <2>1, SmNone, Numbers8 DEF Pdo
    <2> HIDE DEF d
    <2>3. /\ 1 <= Len(d.sms) + 1
          /\ Bytes(d) > 0 => FMMUdone' <= Bytes(d)
          /\ ByteCount' = SmBytes(d, 1, SMc' - 1) /\ ByteCount' <= FMMUdone' /\ FMMUdone' = ByteCount'
          /\ ~(SMc' > Len(d.sms) /\ d.bits > 0)
      BY <2>2
    <2> QED  BY <1>2, <2>3 DEF Loop, d
  <1> QED  BY <1>1, <1>2

\* A grown segment is in the table.
LEMMA GrowType ==
  ASSUME MapTyped, NEW diff \in Nat, Grow(diff)
  PROVE  /\ IOsegment' \in [0 .. MAXIOSEGMENTS - 1 -> Nat]
         /\ currentsegment' \in 0 .. MAXIOSEGMENTS - 1 /\ segmentsize' \in Nat
  <1>1. /\ IOsegment \in [0 .. MAXIOSEGMENTS - 1 -> Nat]
        /\ currentsegment \in 0 .. MAXIOSEGMENTS - 1 /\ segmentsize \in Nat
        /\ MAXIOSEGMENTS \in Nat /\ segmentsize + diff \in Nat
    BY Parameters DEF MapTyped
  <1>2. CASE segmentsize + diff > LIMIT
    <2>1. IOsegment' = [IOsegment EXCEPT ![currentsegment] = segmentsize]  BY <1>2 DEF Grow
    <2>2. CASE currentsegment < MAXIOSEGMENTS - 1
      <3>1. currentsegment' = currentsegment + 1 /\ segmentsize' = diff  BY <1>2, <2>2 DEF Grow
      <3> QED  BY <1>1, <2>1, <2>2, <3>1
    <2>3. CASE ~(currentsegment < MAXIOSEGMENTS - 1)
      <3>1. currentsegment' = currentsegment /\ segmentsize' = segmentsize  BY <1>2, <2>3 DEF Grow
      <3> QED  BY <1>1, <2>1, <3>1
    <2> QED  BY <2>2, <2>3
  <1>3. CASE ~(segmentsize + diff > LIMIT)
    <2>1. segmentsize' = segmentsize + diff /\ IOsegment' = IOsegment
          /\ currentsegment' = currentsegment
      BY <1>3 DEF Grow
    <2> QED  BY <1>1, <2>1
  <1> QED  BY <1>2, <1>3

\* Places of the table are numbers.
LEMMA InTable ==
  \A k \in 0 .. MAXIOSEGMENTS - 1 : k \in Nat /\ k + 1 \in Nat /\ k < MAXIOSEGMENTS
  BY Parameters

\* Counting a slave that blocks LRW changes nothing else of the group.
LEMMA BlockType ==
  ASSUME MapTyped
  PROVE  /\ BlockLRW \in Group /\ BlockLRW.Obytes = grp.Obytes /\ BlockLRW.Ibytes = grp.Ibytes
         /\ BlockLRW.Isegment = grp.Isegment /\ BlockLRW.Ioffset = grp.Ioffset
         /\ BlockLRW.nsegments = grp.nsegments
         /\ BlockLRW.outputsWKC = grp.outputsWKC /\ BlockLRW.inputsWKC = grp.inputsWKC
  <1>1. grp \in Group /\ grp.blockLRW + 1 \in Nat  BY DEF MapTyped, Group
  <1>2. [grp EXCEPT !.blockLRW = @ + 1] \in Group  BY <1>1 DEF Group
  <1> QED  BY <1>1, <1>2 DEF BlockLRW, Group

\* What stays as it is when no FMMU is added.
Fixed == UNCHANGED <<slaves, overlap, fmmu, at>>

\* What a step that adds no FMMU leaves alone keeps its type.
LEMMA FixedTyped ==
  ASSUME MapTyped, Fixed
  PROVE  /\ Network' /\ overlap' \in BOOLEAN /\ Len(slaves') = Len(slaves)
         /\ at' \in [DOMAIN slaves' -> [O : Int, I : Int]]
         /\ IsFiniteSet(fmmu') /\ \A f \in fmmu' : f \in Fmmu'
  BY DEF MapTyped, Fixed, Network, Pdo, Fmmu

\* The end of a slave keeps the types.
LEMMA EndSlaveTyped ==
  ASSUME MapTyped, Loop, EndSlave
  PROVE  MapTyped' /\ Loop'
  <1>1. /\ ~overlap /\ phase \in Dirs /\ phase' = phase /\ slave' = slave + 1
        /\ slave \in 1 .. Len(slaves)
        /\ SMc' = 1 /\ ByteCount' = 0 /\ FMMUdone' = 0
        /\ LogAddr' = LogAddr /\ BitPos' = BitPos /\ ends' = ends /\ overlap' = overlap
        /\ Fixed
    BY DEF EndSlave, SlaveMapped, Reset, MapTyped, Network, Dirs, Fixed, fmmus
  <1>2. /\ IOsegment' \in [0 .. MAXIOSEGMENTS - 1 -> Nat]
        /\ currentsegment' \in 0 .. MAXIOSEGMENTS - 1 /\ segmentsize' \in Nat
        /\ oLogAddr' \in 0 .. LogAddr'
    <2>1. CASE Pdos.bits > 0
      <3>1. LogAddr - oLogAddr \in Nat /\ Grow(LogAddr - oLogAddr) /\ oLogAddr' = LogAddr
        BY <2>1 DEF EndSlave, MapTyped
      <3>2. oLogAddr' \in 0 .. LogAddr'  BY <1>1, <3>1 DEF MapTyped
      <3> QED  BY <3>1, <3>2, GrowType
    <2>2. CASE ~(Pdos.bits > 0)
      BY <1>1, <2>2 DEF EndSlave, MapTyped, segs
    <2> QED  BY <2>1, <2>2
  <1>3. grp' \in Group /\ grp'.Obytes = grp.Obytes
    BY BlockType DEF EndSlave, MapTyped
  <1>4. /\ Network' /\ overlap' \in BOOLEAN /\ Len(slaves') = Len(slaves)
        /\ at' \in [DOMAIN slaves' -> [O : Int, I : Int]]
        /\ IsFiniteSet(fmmu') /\ \A f \in fmmu' : f \in Fmmu'
    BY <1>1, FixedTyped
  <1>5. slave' \in 1 .. Len(slaves') + 1  BY <1>1, <1>4 DEF MapTyped, Network
  <1>6. Loop'  BY <1>1, <1>4, <1>5, LoopBegins
  <1>7. MapTyped'
    BY <1>1, <1>2, <1>3, <1>4, <1>5 DEF MapTyped
  <1> QED  BY <1>6, <1>7

\* The end of the outputs keeps the types.
LEMMA EndOutputsTyped ==
  ASSUME MapTyped, Loop, EndOutputs
  PROVE  MapTyped' /\ Loop'
  <1>1. /\ ~overlap /\ phase = "O" /\ phase' = "I" /\ slave' = 1 /\ Fixed
        /\ SMc' = 1 /\ ByteCount' = 0 /\ FMMUdone' = 0 /\ ends' = ends /\ overlap' = overlap
    BY DEF EndOutputs, MapTyped, Network, Fixed, fmmus, Loop, loop
  <1>2. /\ IOsegment' \in [0 .. MAXIOSEGMENTS - 1 -> Nat]
        /\ currentsegment' \in 0 .. MAXIOSEGMENTS - 1 /\ segmentsize' \in Nat
        /\ LogAddr' \in Nat /\ BitPos' \in 0 .. 7 /\ oLogAddr' \in 0 .. LogAddr'
    <2>1. CASE BitPos > 0
      <3>1. LogAddr' = LogAddr + 1 /\ oLogAddr' = LogAddr' /\ BitPos' = 0 /\ Grow(1)
        BY <2>1 DEF EndOutputs, CloseByte
      <3>2. 1 \in Nat  OBVIOUS
      <3> QED  BY <3>1, <3>2, GrowType DEF MapTyped
    <2>2. CASE ~(BitPos > 0)
      BY <2>2 DEF EndOutputs, CloseByte, MapTyped, segs, cursor
    <2> QED  BY <2>1, <2>2
  <1>3. /\ grp' \in Group /\ grp'.Obytes = LogAddr' /\ grp'.nsegments = currentsegment' + 1
        /\ grp'.Isegment = currentsegment' /\ grp'.Ioffset = segmentsize'
        /\ grp'.outputsWKC = grp.outputsWKC /\ grp'.inputsWKC = grp.inputsWKC
    <2> DEFINE g1 == [grp EXCEPT !.Obytes = LogAddr']
               g2 == [g1 EXCEPT !.nsegments = currentsegment' + 1]
               g3 == [g2 EXCEPT !.Isegment = currentsegment']
               g4 == [g3 EXCEPT !.Ioffset = segmentsize']
    <2>1. currentsegment' + 1 \in Nat /\ currentsegment' \in Nat
      BY <1>2, InTable
    <2>2. grp' = g4  BY DEF EndOutputs
    <2>3. g1 \in Group /\ g1.Obytes = LogAddr' /\ g1.outputsWKC = grp.outputsWKC
          /\ g1.inputsWKC = grp.inputsWKC
      BY <1>2 DEF MapTyped, Group
    <2> HIDE DEF g1
    <2>4. g2 \in Group /\ g2.nsegments = currentsegment' + 1 /\ g2.Obytes = g1.Obytes
          /\ g2.outputsWKC = g1.outputsWKC /\ g2.inputsWKC = g1.inputsWKC
      BY <2>1, <2>3 DEF Group
    <2> HIDE DEF g2
    <2>5. g3 \in Group /\ g3.Isegment = currentsegment' /\ g3.Obytes = g2.Obytes
          /\ g3.nsegments = g2.nsegments
          /\ g3.outputsWKC = g2.outputsWKC /\ g3.inputsWKC = g2.inputsWKC
      BY <2>1, <2>4 DEF Group
    <2> HIDE DEF g3
    <2>6. g4 \in Group /\ g4.Ioffset = segmentsize' /\ g4.Obytes = g3.Obytes
          /\ g4.nsegments = g3.nsegments /\ g4.Isegment = g3.Isegment
          /\ g4.outputsWKC = g3.outputsWKC /\ g4.inputsWKC = g3.inputsWKC
      BY <1>2, <2>5 DEF Group
    <2> HIDE DEF g4
    <2> QED  BY <2>2, <2>3, <2>4, <2>5, <2>6
  <1>4. /\ Network' /\ overlap' \in BOOLEAN /\ Len(slaves') = Len(slaves)
        /\ at' \in [DOMAIN slaves' -> [O : Int, I : Int]]
        /\ IsFiniteSet(fmmu') /\ \A f \in fmmu' : f \in Fmmu'
    BY <1>1, FixedTyped
  <1>5. slave' \in 1 .. Len(slaves') + 1 /\ phase' \in Dirs
    BY <1>1, <1>4 DEF MapTyped, Network, Dirs
  <1>6. Loop'  BY <1>1, <1>4, <1>5, LoopBegins
  <1>7. MapTyped'
    BY <1>1, <1>2, <1>3, <1>4, <1>5 DEF MapTyped
  <1> QED  BY <1>6, <1>7

\* The last segment and the record of the group, when the inputs are mapped.
Finished(opens, size) ==
    /\ currentsegment' = IF opens THEN currentsegment + 1 ELSE currentsegment
    /\ segmentsize' = size
    /\ IOsegment' = [k \in DOMAIN IOsegment |->
                        IF k = currentsegment' THEN size
                        ELSE IF k = currentsegment THEN segmentsize ELSE IOsegment[k]]
    /\ opens => currentsegment < MAXIOSEGMENTS - 1

\* The table with its last segments written is a table.
LEMMA FinishedType ==
  ASSUME MapTyped, NEW opens \in BOOLEAN, NEW size \in Nat, Finished(opens, size)
  PROVE  /\ IOsegment' \in [0 .. MAXIOSEGMENTS - 1 -> Nat]
         /\ currentsegment' \in 0 .. MAXIOSEGMENTS - 1 /\ segmentsize' \in Nat
  BY Parameters DEF MapTyped, Finished

\* What the end of the inputs does, by the variables it changes.
LEMMA EndInputsEffect ==
  ASSUME MapTyped, Loop, EndInputs
  PROVE  /\ ~overlap /\ phase = "I" /\ phase' = "mapped" /\ Fixed /\ slave' = slave
         /\ slave > Len(slaves)
         /\ UNCHANGED <<loop, ends, overlap>>
         /\ LogAddr' = (IF BitPos > 0 THEN LogAddr + 1 ELSE LogAddr) /\ BitPos' = 0
         /\ oLogAddr' = (IF BitPos > 0 THEN LogAddr' ELSE oLogAddr) /\ oLogAddr' \in 0 .. LogAddr'
         /\ grp' \in Group /\ grp'.nsegments = currentsegment' + 1
         /\ grp'.Ibytes = LogAddr' - grp.Obytes /\ grp'.Obytes = grp.Obytes
         /\ grp'.Isegment = grp.Isegment /\ grp'.Ioffset = grp.Ioffset
         /\ grp'.outputsWKC = grp.outputsWKC /\ grp'.inputsWKC = grp.inputsWKC
         /\ \E opens \in BOOLEAN, size \in Nat :
              /\ Finished(opens, size)
              /\ LET full == BitPos > 0 /\ segmentsize + 1 > LIMIT
                 IN  /\ opens <=> full /\ currentsegment < MAXIOSEGMENTS - 1
                     /\ size = IF opens THEN 1 ELSE IF BitPos > 0 /\ ~full THEN segmentsize + 1
                               ELSE segmentsize
  <1> DEFINE full == BitPos > 0 /\ segmentsize + 1 > LIMIT
             opens == full /\ currentsegment < MAXIOSEGMENTS - 1
             size == IF opens THEN 1 ELSE IF BitPos > 0 /\ ~full THEN segmentsize + 1
                     ELSE segmentsize
             cur == IF opens THEN currentsegment + 1 ELSE currentsegment
  <1>1. /\ ~overlap /\ phase = "I" /\ phase' = "mapped" /\ Fixed /\ slave' = slave
        /\ UNCHANGED <<loop, ends, overlap>> /\ slave > Len(slaves)
    BY DEF EndInputs, Fixed, fmmus
  <1>2. /\ LogAddr' = (IF BitPos > 0 THEN LogAddr + 1 ELSE LogAddr) /\ BitPos' = 0
        /\ oLogAddr' = (IF BitPos > 0 THEN LogAddr' ELSE oLogAddr) /\ oLogAddr' \in 0 .. LogAddr'
        /\ LogAddr' \in Nat
    BY DEF EndInputs, MapTyped, cursor
  <1>3. /\ currentsegment' = cur /\ segmentsize' = size
        /\ IOsegment' = [k \in DOMAIN IOsegment |->
                            IF k = cur THEN size
                            ELSE IF k = currentsegment THEN segmentsize ELSE IOsegment[k]]
        /\ grp' = [grp EXCEPT !.nsegments = cur + 1, !.Ibytes = LogAddr' - grp.Obytes]
    BY DEF EndInputs
  <1>4. Finished(opens, size)  BY <1>3 DEF Finished
  <1>5. opens \in BOOLEAN /\ size \in Nat  BY DEF MapTyped
  <1>6. /\ grp' \in Group /\ grp'.nsegments = currentsegment' + 1
        /\ grp'.Ibytes = LogAddr' - grp.Obytes /\ grp'.Obytes = grp.Obytes
        /\ grp'.Isegment = grp.Isegment /\ grp'.Ioffset = grp.Ioffset
        /\ grp'.outputsWKC = grp.outputsWKC /\ grp'.inputsWKC = grp.inputsWKC
    <2> DEFINE g1 == [grp EXCEPT !.nsegments = cur + 1]
               g2 == [g1 EXCEPT !.Ibytes = LogAddr' - grp.Obytes]
    <2>1. cur + 1 \in Nat /\ LogAddr' - grp.Obytes \in Nat
      <3>1. cur \in Nat
        <4>1. currentsegment \in Nat  BY Parameters DEF MapTyped
        <4> QED  BY <4>1
      <3>2. grp.Obytes \in Nat /\ grp.Obytes <= LogAddr /\ LogAddr \in Nat
        BY <1>1 DEF MapTyped, Group
      <3>3. LogAddr' \in Nat /\ LogAddr' >= LogAddr  BY <1>2, <3>2
      <3> HIDE DEF cur
      <3> QED  BY <3>1, <3>2, <3>3
    <2>2. grp' = g2  BY <1>3
    <2>3. g1 \in Group /\ g1.nsegments = cur + 1 /\ g1.Obytes = grp.Obytes
          /\ g1.Isegment = grp.Isegment /\ g1.Ioffset = grp.Ioffset
          /\ g1.outputsWKC = grp.outputsWKC /\ g1.inputsWKC = grp.inputsWKC
      <3> HIDE DEF cur
      <3> QED  BY <2>1 DEF MapTyped, Group
    <2> HIDE DEF g1
    <2>4. g2 \in Group /\ g2.Ibytes = LogAddr' - grp.Obytes /\ g2.nsegments = g1.nsegments
          /\ g2.Obytes = g1.Obytes /\ g2.Isegment = g1.Isegment /\ g2.Ioffset = g1.Ioffset
          /\ g2.outputsWKC = g1.outputsWKC /\ g2.inputsWKC = g1.inputsWKC
      <3> HIDE DEF cur
      <3> QED  BY <2>1, <2>3 DEF Group
    <2> HIDE DEF g2, cur
    <2> QED  BY <1>3, <2>2, <2>3, <2>4
  <1>7. \E o \in BOOLEAN, z \in Nat :
          /\ Finished(o, z)
          /\ LET f == BitPos > 0 /\ segmentsize + 1 > LIMIT
             IN  /\ o <=> f /\ currentsegment < MAXIOSEGMENTS - 1
                 /\ z = IF o THEN 1 ELSE IF BitPos > 0 /\ ~f THEN segmentsize + 1
                        ELSE segmentsize
    <2>1. LET f == BitPos > 0 /\ segmentsize + 1 > LIMIT
          IN  /\ opens <=> f /\ currentsegment < MAXIOSEGMENTS - 1
              /\ size = IF opens THEN 1 ELSE IF BitPos > 0 /\ ~f THEN segmentsize + 1
                        ELSE segmentsize
      OBVIOUS
    <2> HIDE DEF opens, size
    <2> QED  BY <1>4, <1>5, <2>1
  <1> QED  BY <1>1, <1>2, <1>6, <1>7

\* The end of the inputs keeps the types.
LEMMA EndInputsTyped ==
  ASSUME MapTyped, Loop, EndInputs
  PROVE  MapTyped' /\ Loop'
  <1>1. /\ ~overlap /\ phase = "I" /\ phase' = "mapped" /\ Fixed /\ slave' = slave
        /\ UNCHANGED <<loop, ends, overlap>> /\ slave > Len(slaves)
        /\ LogAddr' = (IF BitPos > 0 THEN LogAddr + 1 ELSE LogAddr) /\ BitPos' = 0
        /\ oLogAddr' \in 0 .. LogAddr' /\ grp' \in Group
    BY EndInputsEffect
  <1>2. PICK opens \in BOOLEAN, size \in Nat : Finished(opens, size)
    BY EndInputsEffect
  <1>3. SMc' = 1 /\ ByteCount' = 0 /\ FMMUdone' = 0
    BY <1>1 DEF Loop, loop, MapTyped, Network
  <1>4. /\ Network' /\ overlap' \in BOOLEAN /\ Len(slaves') = Len(slaves)
        /\ at' \in [DOMAIN slaves' -> [O : Int, I : Int]]
        /\ IsFiniteSet(fmmu') /\ \A f \in fmmu' : f \in Fmmu'
    BY <1>1, FixedTyped
  <1>5. slave' \in 1 .. Len(slaves') + 1 /\ phase' \in Dirs \cup {"mapped"}
    BY <1>1, <1>4 DEF MapTyped, Network
  <1>6. Loop'  BY <1>3, <1>4, <1>5, LoopBegins
  <1>7. MapTyped'
    BY <1>1, <1>2, <1>4, <1>5, FinishedType DEF MapTyped
  <1> QED  BY <1>6, <1>7

LEMMA Difference == \A a, b \in Nat : a >= b => a - b \in Nat
  OBVIOUS

\* The slave at hand is one of the network.
LEMMA SlaveMappedIn ==
  ASSUME MapTyped, SlaveMapped
  PROVE  slave \in 1 .. Len(slaves) /\ slave \in DOMAIN slaves /\ phase \in Dirs
  BY DEF MapTyped, SlaveMapped, Network, Dirs

\* What ends a direction of the overlapping layout.
LEMMA EndOverlapEffect ==
  ASSUME MapTyped, NEW dir \in Dirs, EndOverlap(dir)
  PROVE  /\ overlap /\ phase = dir /\ Fixed /\ BitPos' = 0
         /\ slave \in 1 .. Len(slaves)
         /\ SMc' = 1 /\ ByteCount' = 0 /\ FMMUdone' = 0
         /\ ends' \in [O : Nat, I : Nat]
         /\ ends'[dir] = (IF BitPos > 0 THEN LogAddr + 1 ELSE LogAddr)
         /\ \A e \in Dirs : e # dir => ends'[e] = ends[e]
  <1>1. slave \in 1 .. Len(slaves)  BY SlaveMappedIn DEF EndOverlap
  <1>2. (IF BitPos > 0 THEN LogAddr + 1 ELSE LogAddr) \in Nat  BY DEF MapTyped
  <1> QED  BY <1>1, <1>2 DEF EndOverlap, Reset, Fixed, fmmus, MapTyped, Dirs

\* The end of a slave's outputs keeps the types.
LEMMA EndOverlapOutputsTyped ==
  ASSUME MapTyped, Loop, EndOverlapOutputs
  PROVE  MapTyped' /\ Loop'
  <1>1. EndOverlap("O") /\ "O" \in Dirs  BY DEF EndOverlapOutputs, Dirs
  <1>2. /\ overlap /\ phase = "O" /\ Fixed /\ BitPos' = 0 /\ slave \in 1 .. Len(slaves)
        /\ SMc' = 1 /\ ByteCount' = 0 /\ FMMUdone' = 0
        /\ ends' \in [O : Nat, I : Nat]
    BY <1>1, EndOverlapEffect
  <1>3. /\ phase' = "I" /\ LogAddr' = oLogAddr /\ slave' = slave /\ oLogAddr' = oLogAddr
        /\ grp' = grp /\ overlap' = overlap
        /\ IOsegment' = IOsegment /\ currentsegment' = currentsegment
        /\ segmentsize' = segmentsize
    BY <1>2 DEF EndOverlapOutputs, segs, Fixed
  <1>4. /\ Network' /\ overlap' \in BOOLEAN /\ Len(slaves') = Len(slaves)
        /\ at' \in [DOMAIN slaves' -> [O : Int, I : Int]]
        /\ IsFiniteSet(fmmu') /\ \A f \in fmmu' : f \in Fmmu'
    BY <1>2, FixedTyped
  <1>5. slave' \in 1 .. Len(slaves') + 1 /\ phase' \in Dirs
    BY <1>2, <1>3, <1>4 DEF MapTyped, Network, Dirs
  <1>6. Loop'  BY <1>2, <1>4, <1>5, LoopBegins
  <1>7. LogAddr' \in Nat /\ oLogAddr' \in 0 .. LogAddr'  BY <1>3 DEF MapTyped
  <1>8. MapTyped'
    BY <1>2, <1>3, <1>4, <1>5, <1>7 DEF MapTyped
  <1> QED  BY <1>6, <1>8

\* What the end of a slave's inputs does, by the variables it changes.
LEMMA EndOverlapInputsEffect ==
  ASSUME MapTyped, Loop, EndOverlapInputs
  PROVE  /\ overlap /\ overlap' /\ phase = "I" /\ phase' = "O" /\ Fixed /\ BitPos' = 0
         /\ slave \in 1 .. Len(slaves) /\ slave' = slave + 1
         /\ SMc' = 1 /\ ByteCount' = 0 /\ FMMUdone' = 0
         /\ ends' \in [O : Nat, I : Nat]
         /\ ends'.I = (IF BitPos > 0 THEN LogAddr + 1 ELSE LogAddr) /\ ends'.O = ends.O
         /\ oLogAddr' = (IF ends'.O >= ends'.I THEN ends'.O ELSE ends'.I)
         /\ oLogAddr' \in Nat /\ oLogAddr' >= oLogAddr
         /\ LogAddr' = oLogAddr'
         /\ oLogAddr' - oLogAddr \in Nat /\ Grow(oLogAddr' - oLogAddr)
         /\ grp' = BlockLRW
  <1>1. EndOverlap("I") /\ "I" \in Dirs  BY DEF EndOverlapInputs, Dirs
  <1>2. /\ overlap /\ phase = "I" /\ Fixed /\ BitPos' = 0 /\ slave \in 1 .. Len(slaves)
        /\ SMc' = 1 /\ ByteCount' = 0 /\ FMMUdone' = 0
        /\ ends' \in [O : Nat, I : Nat]
        /\ ends'["I"] = (IF BitPos > 0 THEN LogAddr + 1 ELSE LogAddr)
        /\ \A e \in Dirs : e # "I" => ends'[e] = ends[e]
    BY <1>1, EndOverlapEffect
  <1>3. ends'.I = (IF BitPos > 0 THEN LogAddr + 1 ELSE LogAddr) /\ ends'.O = ends.O
        /\ ends'.I \in Nat /\ ends'.O \in Nat
    BY <1>2 DEF Dirs
  <1>4. /\ phase' = "O" /\ LogAddr' = oLogAddr' /\ slave' = slave + 1
        /\ grp' = BlockLRW /\ Grow(oLogAddr' - oLogAddr)
        /\ oLogAddr' = Max({ends'.O, ends'.I})
    BY DEF EndOverlapInputs
  <1>5. oLogAddr' = IF ends'.O >= ends'.I THEN ends'.O ELSE ends'.I
    BY <1>3, <1>4, MaxOfTwo
  <1>6. oLogAddr' \in Nat /\ oLogAddr' >= oLogAddr /\ oLogAddr' - oLogAddr \in Nat
    <2>1. oLogAddr \in Nat /\ LogAddr \in Nat /\ oLogAddr <= LogAddr  BY DEF MapTyped
    <2>2. oLogAddr' \in Nat /\ oLogAddr' >= ends'.I  BY <1>3, <1>5
    <2>3. ends'.I >= LogAddr  BY <1>3, <2>1
    <2> DEFINE e == ends'.I
    <2>4. e \in Nat /\ e >= LogAddr /\ oLogAddr' >= e  BY <1>3, <2>2, <2>3
    <2> HIDE DEF e
    <2>5. oLogAddr' >= oLogAddr  BY <2>1, <2>2, <2>4
    <2>6. oLogAddr' \in Nat /\ oLogAddr \in Nat  BY <2>1, <2>2
    <2>7. oLogAddr' - oLogAddr \in Nat  BY <2>5, <2>6, Difference
    <2> QED  BY <2>5, <2>6, <2>7
  <1> QED  BY <1>2, <1>3, <1>4, <1>5, <1>6 DEF Fixed

\* The end of a slave's inputs keeps the types.
LEMMA EndOverlapInputsTyped ==
  ASSUME MapTyped, Loop, EndOverlapInputs
  PROVE  MapTyped' /\ Loop'
  <1>2. /\ overlap' /\ phase' = "O" /\ Fixed /\ BitPos' = 0
        /\ slave \in 1 .. Len(slaves) /\ slave' = slave + 1
        /\ SMc' = 1 /\ ByteCount' = 0 /\ FMMUdone' = 0
        /\ ends' \in [O : Nat, I : Nat]
        /\ oLogAddr' \in Nat /\ LogAddr' = oLogAddr'
        /\ oLogAddr' - oLogAddr \in Nat /\ Grow(oLogAddr' - oLogAddr)
        /\ grp' = BlockLRW
    BY EndOverlapInputsEffect
  <1>3. /\ IOsegment' \in [0 .. MAXIOSEGMENTS - 1 -> Nat]
        /\ currentsegment' \in 0 .. MAXIOSEGMENTS - 1 /\ segmentsize' \in Nat
    BY <1>2, GrowType
  <1>4. /\ Network' /\ overlap' \in BOOLEAN /\ Len(slaves') = Len(slaves)
        /\ at' \in [DOMAIN slaves' -> [O : Int, I : Int]]
        /\ IsFiniteSet(fmmu') /\ \A f \in fmmu' : f \in Fmmu'
    BY <1>2, FixedTyped
  <1>5. slave' \in 1 .. Len(slaves') + 1 /\ phase' \in Dirs
    BY <1>2, <1>4 DEF MapTyped, Network, Dirs
  <1>6. Loop'  BY <1>2, <1>4, <1>5, LoopBegins
  <1>7. grp' \in Group  BY <1>2, BlockType
  <1>8. MapTyped'
    BY <1>2, <1>3, <1>4, <1>5, <1>7 DEF MapTyped
  <1> QED  BY <1>6, <1>8

\* What the end of the overlapping layout does.
LEMMA EndOverlapMapEffect ==
  ASSUME MapTyped, Loop, EndOverlapMap
  PROVE  /\ overlap /\ phase = "O" /\ slave > Len(slaves) /\ phase' = "mapped" /\ Fixed
         /\ IOsegment' = [IOsegment EXCEPT ![currentsegment] = segmentsize]
         /\ UNCHANGED <<overlap, slave, loop, cursor, ends, currentsegment, segmentsize>>
         /\ grp' \in Group /\ grp'.nsegments = currentsegment + 1
         /\ grp'.Isegment = 0 /\ grp'.Ioffset = 0
         /\ grp'.Obytes = ends.O /\ grp'.Ibytes = ends.I
         /\ grp'.outputsWKC = grp.outputsWKC /\ grp'.inputsWKC = grp.inputsWKC
  <1>1. /\ overlap /\ phase = "O" /\ slave > Len(slaves) /\ phase' = "mapped" /\ Fixed
        /\ IOsegment' = [IOsegment EXCEPT ![currentsegment] = segmentsize]
        /\ UNCHANGED <<overlap, slave, loop, cursor, ends, currentsegment, segmentsize>>
    BY DEF EndOverlapMap, Fixed
  <1> DEFINE g1 == [grp EXCEPT !.nsegments = currentsegment + 1]
             g2 == [g1 EXCEPT !.Isegment = 0]
             g3 == [g2 EXCEPT !.Ioffset = 0]
             g4 == [g3 EXCEPT !.Obytes = ends.O]
             g5 == [g4 EXCEPT !.Ibytes = ends.I]
  <1>2. currentsegment + 1 \in Nat /\ ends.O \in Nat /\ ends.I \in Nat
    BY InTable DEF MapTyped
  <1>3. grp' = g5  BY DEF EndOverlapMap
  <1>4. g1 \in Group /\ g1.nsegments = currentsegment + 1
        /\ g1.outputsWKC = grp.outputsWKC /\ g1.inputsWKC = grp.inputsWKC
    BY <1>2 DEF MapTyped, Group
  <1> HIDE DEF g1
  <1>5. g2 \in Group /\ g2.Isegment = 0 /\ g2.nsegments = g1.nsegments
        /\ g2.outputsWKC = g1.outputsWKC /\ g2.inputsWKC = g1.inputsWKC
    BY <1>4 DEF Group
  <1> HIDE DEF g2
  <1>6. g3 \in Group /\ g3.Ioffset = 0 /\ g3.Isegment = g2.Isegment /\ g3.nsegments = g2.nsegments
        /\ g3.outputsWKC = g2.outputsWKC /\ g3.inputsWKC = g2.inputsWKC
    BY <1>5 DEF Group
  <1> HIDE DEF g3
  <1>7. g4 \in Group /\ g4.Obytes = ends.O /\ g4.Ioffset = g3.Ioffset /\ g4.Isegment = g3.Isegment
        /\ g4.nsegments = g3.nsegments
        /\ g4.outputsWKC = g3.outputsWKC /\ g4.inputsWKC = g3.inputsWKC
    BY <1>2, <1>6 DEF Group
  <1> HIDE DEF g4
  <1>8. g5 \in Group /\ g5.Ibytes = ends.I /\ g5.Obytes = g4.Obytes /\ g5.Ioffset = g4.Ioffset
        /\ g5.Isegment = g4.Isegment /\ g5.nsegments = g4.nsegments
        /\ g5.outputsWKC = g4.outputsWKC /\ g5.inputsWKC = g4.inputsWKC
    BY <1>2, <1>7 DEF Group
  <1> HIDE DEF g5
  <1> QED  BY <1>1, <1>3, <1>4, <1>5, <1>6, <1>7, <1>8

\* The end of the overlapping layout keeps the types.
LEMMA EndOverlapMapTyped ==
  ASSUME MapTyped, Loop, EndOverlapMap
  PROVE  MapTyped' /\ Loop'
  <1>1. /\ overlap /\ slave > Len(slaves) /\ phase' = "mapped" /\ Fixed
        /\ IOsegment' = [IOsegment EXCEPT ![currentsegment] = segmentsize]
        /\ UNCHANGED <<overlap, slave, loop, cursor, ends, currentsegment, segmentsize>>
        /\ grp' \in Group
    BY EndOverlapMapEffect
  <1>2. SMc' = 1 /\ ByteCount' = 0 /\ FMMUdone' = 0
    BY <1>1 DEF Loop, loop, MapTyped, Network
  <1>3. /\ IOsegment' \in [0 .. MAXIOSEGMENTS - 1 -> Nat]
        /\ currentsegment' \in 0 .. MAXIOSEGMENTS - 1 /\ segmentsize' \in Nat
    BY <1>1 DEF MapTyped
  <1>4. /\ Network' /\ overlap' \in BOOLEAN /\ Len(slaves') = Len(slaves)
        /\ at' \in [DOMAIN slaves' -> [O : Int, I : Int]]
        /\ IsFiniteSet(fmmu') /\ \A f \in fmmu' : f \in Fmmu'
    BY <1>1, FixedTyped
  <1>5. slave' \in 1 .. Len(slaves') + 1 /\ phase' \in Dirs \cup {"mapped"}
    BY <1>1, <1>4 DEF MapTyped, Network
  <1>6. Loop'  BY <1>2, <1>4, <1>5, LoopBegins
  <1>7. MapTyped'
    BY <1>1, <1>3, <1>4, <1>5 DEF MapTyped, cursor
  <1> QED  BY <1>6, <1>7

\* Every step of the mapping keeps the types and the loop.
LEMMA TypedStep ==
  ASSUME MapTyped, Loop, MapNext
  PROVE  MapTyped' /\ Loop'
  <1>1. ASSUME NEW n, Adds(n) PROVE MapTyped' /\ Loop'
    BY <1>1, AddsTyped, AddsLoop
  <1>2. CASE MapBits  BY <1>1, <1>2, MapBitsAdds
  <1>3. CASE MapBytes  BY <1>1, <1>3, MapBytesAdds
  <1>4. CASE EndSlave  BY <1>4, EndSlaveTyped
  <1>5. CASE EndOutputs  BY <1>5, EndOutputsTyped
  <1>6. CASE EndInputs  BY <1>6, EndInputsTyped
  <1>7. CASE EndOverlapOutputs  BY <1>7, EndOverlapOutputsTyped
  <1>8. CASE EndOverlapInputs  BY <1>8, EndOverlapInputsTyped
  <1>9. CASE EndOverlapMap  BY <1>9, EndOverlapMapTyped
  <1>10. CASE MapEmpty  BY <1>10, EmptyTyped, EmptyLoop
  <1> QED  BY <1>2, <1>3, <1>4, <1>5, <1>6, <1>7, <1>8, <1>9, <1>10 DEF MapNext

LEMMA TypedStutter ==
  ASSUME MapTyped, Loop, UNCHANGED mapVars
  PROVE  MapTyped' /\ Loop'
  <1>1. Fixed /\ UNCHANGED <<phase, slave, loop, cursor, ends, segs, grp>>  BY DEF mapVars, Fixed, fmmus
  <1>2. /\ Network' /\ overlap' \in BOOLEAN /\ Len(slaves') = Len(slaves)
        /\ at' \in [DOMAIN slaves' -> [O : Int, I : Int]]
        /\ IsFiniteSet(fmmu') /\ \A f \in fmmu' : f \in Fmmu'
    BY <1>1, FixedTyped
  <1>3. MapTyped'
    <2>1. /\ phase' = phase /\ slave' = slave /\ overlap' = overlap /\ LogAddr' = LogAddr
          /\ BitPos' = BitPos /\ oLogAddr' = oLogAddr /\ ends' = ends /\ IOsegment' = IOsegment
          /\ currentsegment' = currentsegment /\ segmentsize' = segmentsize /\ grp' = grp
      BY <1>1 DEF cursor, segs, Fixed
    <2> QED  BY <1>2, <2>1 DEF MapTyped, Group
  <1>4. slaves' = slaves /\ Pdos' = Pdos  BY <1>1 DEF Fixed, Pdos
  <1>5. Loop'  BY <1>1, <1>2, <1>4 DEF Loop, loop, cursor
  <1> QED  BY <1>3, <1>5

\* They hold at first.
LEMMA TypedInit ==
  ASSUME Init
  PROVE  MapTyped /\ Loop
  <1>1. PICK n \in 1 .. MaxSlaves : slaves \in [1 .. n -> [O : Outputs, I : Inputs, blockLRW : BOOLEAN]]
    BY DEF Init
  <1>2. n \in Nat /\ n > 0 /\ DOMAIN slaves = 1 .. n /\ Len(slaves) = n
    <2>1. n \in Nat /\ n > 0 /\ DOMAIN slaves = 1 .. n
      BY <1>1, IOmapAssumption DEF IOmapAssumption
    <2> DEFINE R == [O : Outputs, I : Inputs, blockLRW : BOOLEAN]
    <2> HIDE DEF R
    <2>2. slaves \in [1 .. n -> R]  BY <1>1 DEF R
    <2>3. Len(slaves) = n  BY <2>1, <2>2
    <2> QED  BY <2>1, <2>3
  <1>3. \A d \in Outputs \cup Inputs : Pdo(d)
    <2> TAKE d \in Outputs \cup Inputs
    <2>1. /\ d.bits \in Nat /\ Len(d.sms) \in Nat /\ DOMAIN d.sms = 1 .. Len(d.sms)
          /\ d.bits > 0 => Len(d.sms) > 0
          /\ \A k \in DOMAIN d.sms : d.sms[k].len \in Nat
      BY IOmapAssumption DEF IOmapAssumption
    <2> QED  BY <2>1 DEF Pdo
  <1>4. Network
    BY <1>1, <1>2, <1>3 DEF Network
  <1>5. /\ phase = "O" /\ slave = 1 /\ SMc = 1 /\ ByteCount = 0 /\ FMMUdone = 0
        /\ fmmu = {} /\ at = [s \in DOMAIN slaves |-> [O |-> NULL, I |-> NULL]]
        /\ LogAddr = 0 /\ BitPos = 0 /\ oLogAddr = 0 /\ ends = [O |-> 0, I |-> 0]
        /\ IOsegment = [k \in 0 .. MAXIOSEGMENTS - 1 |-> 0]
        /\ currentsegment = 0 /\ segmentsize = 0 /\ grp = NoSlaveYet
        /\ overlap \in BOOLEAN
    BY IOmapAssumption DEF Init, IOmapAssumption
  <1>6. /\ IsFiniteSet(fmmu) /\ (\A f \in fmmu : f \in Fmmu)
        /\ at \in [DOMAIN slaves -> [O : Int, I : Int]]
    BY <1>5, FS_EmptySet DEF NULL
  <1>7. grp \in Group  BY <1>5 DEF Group, NoSlaveYet
  <1>8. MapTyped
    BY <1>2, <1>4, <1>5, <1>6, <1>7, Parameters DEF MapTyped, Dirs
  <1>9. Loop
    <2>1. phase \in Dirs /\ slave <= Len(slaves) /\ Pdo(Pdos)
      BY <1>2, <1>4, <1>5, PdosPdo DEF Dirs
    <2> DEFINE d == Pdos
    <2>2. /\ Len(d.sms) \in Nat /\ d.bits \in Nat /\ (d.bits > 0 => Len(d.sms) > 0)
          /\ SmBytes(d, 1, 0) = 0 /\ Bytes(d) \in Nat /\ NeedBytes(d) \in Nat
      <3>1. Pdo(d)  BY <2>1
      <3> HIDE DEF d
      <3> QED  BY <3>1, SmNone, Numbers8 DEF Pdo
    <2> HIDE DEF d
    <2>3. /\ 1 <= Len(d.sms) + 1
          /\ Bytes(d) > 0 => FMMUdone <= Bytes(d)
          /\ ByteCount = SmBytes(d, 1, SMc - 1) /\ ByteCount <= FMMUdone /\ FMMUdone = ByteCount
          /\ ~(SMc > Len(d.sms) /\ d.bits > 0)
      BY <1>5, <2>2
    <2> QED  BY <1>5, <2>1, <2>3 DEF Loop, d
  <1> QED  BY <1>8, <1>9

-----------------------------------------------------------------------------
(* The order in which slaves are mapped.                                   *)

\* A slave's direction that is mapped, and the one at hand.
Before(s, dir) ==
    \/ phase = "mapped"
    \/ IF overlap THEN s < slave \/ (s = slave /\ phase = "I" /\ dir = "O")
       ELSE (phase = "I" /\ dir = "O") \/ (dir = phase /\ s < slave)
Busy(s, dir) == s = slave /\ dir = phase

\* Only those have an FMMU.
Order == \A f \in fmmu : Before(f.slave, f.dir) \/ (Busy(f.slave, f.dir) /\ FMMUdone > 0)

\* What closes a slave, and what turns to the next direction.
Closes == EndSlave \/ EndOverlapOutputs \/ EndOverlapInputs
Turns == EndOutputs \/ EndInputs \/ EndOverlapMap

\* A step adds an FMMU, skips empty sync managers, closes a slave's direction,
\* or turns to the next phase.
LEMMA StepKinds ==
  ASSUME MapTyped, Loop, MapNext
  PROVE  (\E n : Adds(n)) \/ MapEmpty \/ Closes \/ Turns
  BY MapBitsAdds, MapBytesAdds DEF MapNext, Closes, Turns

\* Closing makes the direction at hand one that is done.
LEMMA ClosesEffect ==
  ASSUME MapTyped, Loop, Closes
  PROVE  /\ SlaveMapped /\ Fixed /\ slave \in DOMAIN slaves /\ phase \in Dirs
         /\ FMMUdone' = 0 /\ SMc' = 1 /\ UNCHANGED <<moved, empty>>
         /\ \A s \in DOMAIN slaves, dir \in Dirs :
              (Before(s, dir)' <=> Before(s, dir) \/ Busy(s, dir)) /\ (Busy(s, dir) => ~Before(s, dir))
  <1>1. SlaveMapped /\ FMMUdone' = 0 /\ SMc' = 1 /\ Fixed /\ UNCHANGED <<moved, empty>>
    BY DEF Closes, EndSlave, EndOverlapOutputs, EndOverlapInputs, EndOverlap, Reset, Fixed, fmmus
  <1>2. slave \in DOMAIN slaves /\ phase \in Dirs  BY <1>1, SlaveMappedIn
  <1>3. DOMAIN slaves \subseteq Nat /\ slave \in Nat /\ overlap' = overlap
    BY <1>1 DEF MapTyped, Network, Fixed
  <1>4. CASE EndSlave
    <2>1. ~overlap /\ slave' = slave + 1 /\ phase' = phase  BY <1>4 DEF EndSlave
    <2> QED  BY <1>1, <1>2, <1>3, <2>1 DEF Before, Busy, Dirs
  <1>5. CASE EndOverlapOutputs
    <2>1. overlap /\ slave' = slave /\ phase = "O" /\ phase' = "I"
      BY <1>5 DEF EndOverlapOutputs, EndOverlap
    <2> QED  BY <1>1, <1>2, <1>3, <2>1 DEF Before, Busy, Dirs
  <1>6. CASE EndOverlapInputs
    <2>1. overlap /\ slave' = slave + 1 /\ phase = "I" /\ phase' = "O"
      BY <1>6 DEF EndOverlapInputs, EndOverlap
    <2> QED  BY <1>1, <1>2, <1>3, <2>1 DEF Before, Busy, Dirs
  <1> QED  BY <1>4, <1>5, <1>6 DEF Closes

\* Turning makes no direction done.
LEMMA TurnsEffect ==
  ASSUME MapTyped, Loop, Turns
  PROVE  /\ Fixed /\ phase \in Dirs /\ slave > Len(slaves)
         /\ FMMUdone = 0 /\ FMMUdone' = 0 /\ SMc = 1 /\ SMc' = 1 /\ empty' = empty
         /\ \A s \in DOMAIN slaves, dir \in Dirs :
              (Before(s, dir)' <=> Before(s, dir)) /\ ~Busy(s, dir)
  <1>1. /\ slave > Len(slaves) /\ FMMUdone' = FMMUdone /\ SMc' = SMc /\ Fixed /\ phase \in Dirs
        /\ empty' = empty
    BY DEF Turns, EndOutputs, EndInputs, EndOverlapMap, Fixed, fmmus, loop, Dirs
  <1>2. FMMUdone = 0 /\ SMc = 1  BY <1>1 DEF Loop, MapTyped, Network
  <1>3. \A s \in DOMAIN slaves : s \in Nat /\ s < slave /\ s # slave
    BY <1>1 DEF MapTyped, Network
  <1>4. CASE EndOutputs
    <2>1. ~overlap /\ ~overlap' /\ phase = "O" /\ phase' = "I" /\ slave' = 1
      BY <1>4 DEF EndOutputs
    <2> QED  BY <1>1, <1>2, <1>3, <2>1 DEF Before, Busy, Dirs
  <1>5. CASE EndInputs
    <2>1. ~overlap /\ phase = "I" /\ phase' = "mapped"  BY <1>5 DEF EndInputs
    <2> QED  BY <1>1, <1>2, <1>3, <2>1 DEF Before, Busy, Dirs
  <1>6. CASE EndOverlapMap
    <2>1. overlap /\ phase = "O" /\ phase' = "mapped"  BY <1>6 DEF EndOverlapMap
    <2> QED  BY <1>1, <1>2, <1>3, <2>1 DEF Before, Busy, Dirs
  <1> QED  BY <1>4, <1>5, <1>6 DEF Turns

\* Adding makes the direction at hand one that is begun.
LEMMA AddsEffect ==
  ASSUME MapTyped, Loop, NEW n, Adds(n)
  PROVE  /\ slave \in DOMAIN slaves /\ phase \in Dirs /\ FMMUdone' > 0 /\ FMMUdone' \in Nat
         /\ n.slave = slave /\ n.dir = phase /\ fmmu' = fmmu \cup {n} /\ n \in Fmmu
         /\ \A s \in DOMAIN slaves, dir \in Dirs :
              /\ Before(s, dir)' <=> Before(s, dir)
              /\ Busy(s, dir)' <=> Busy(s, dir)
              /\ Busy(s, dir) => ~Before(s, dir)
  <1>1. slave \in DOMAIN slaves /\ phase \in Dirs /\ slave \in Nat
    BY MapsPdo DEF Adds, MapsFmmu, Dirs, MapTyped, Network
  <1>2. FMMUdone' > 0 /\ FMMUdone' \in Nat
    <2>1. FMMUdone \in Nat /\ n.size \in Nat \ {0} /\ FMMUdone' = FMMUdone + n.size
      BY DEF Adds, Loop, Fmmu
    <2> QED  BY <2>1
  <1>3. n.slave = slave /\ n.dir = phase /\ fmmu' = fmmu \cup {n} /\ n \in Fmmu
        /\ slave' = slave /\ phase' = phase /\ overlap' = overlap
    BY DEF Adds
  <1> QED  BY <1>1, <1>2, <1>3 DEF Before, Busy, Dirs

\* Skipping empty sync managers leaves every direction as far as it is.
LEMMA EmptyKeeps ==
  ASSUME MapTyped, Loop, MapEmpty
  PROVE  \A s \in DOMAIN slaves, dir \in Dirs :
           /\ Before(s, dir)' <=> Before(s, dir)
           /\ Busy(s, dir)' <=> Busy(s, dir)
           /\ Busy(s, dir) => ~Before(s, dir)
  <1>1. slave \in DOMAIN slaves /\ phase \in Dirs /\ slave \in Nat
        /\ slave' = slave /\ phase' = phase /\ overlap' = overlap
    BY EmptyEffect
  <1> QED  BY <1>1 DEF Before, Busy, Dirs

\* Every FMMU is of a direction that is done or at hand.
LEMMA OrderStep ==
  ASSUME MapTyped, Loop, Order, MapNext
  PROVE  Order'
  <1>0. \A f \in fmmu : f.slave \in DOMAIN slaves /\ f.dir \in Dirs  BY DEF MapTyped, Fmmu
  <1>1. ASSUME NEW n, Adds(n) PROVE Order'
    <2>1. /\ slave \in DOMAIN slaves /\ phase \in Dirs /\ FMMUdone' > 0 /\ FMMUdone' \in Nat
          /\ n.slave = slave /\ n.dir = phase /\ fmmu' = fmmu \cup {n}
          /\ \A s \in DOMAIN slaves, dir \in Dirs :
              /\ Before(s, dir)' <=> Before(s, dir)
              /\ Busy(s, dir)' <=> Busy(s, dir)
      BY <1>1, AddsEffect
    <2>2. Busy(n.slave, n.dir)  BY <2>1 DEF Busy
    <2> QED  BY <1>0, <2>1, <2>2 DEF Order
  <1>2. CASE Closes
    <2>1. /\ Fixed /\ \A s \in DOMAIN slaves, dir \in Dirs :
                        (Before(s, dir)' <=> Before(s, dir) \/ Busy(s, dir))
      BY <1>2, ClosesEffect
    <2> QED  BY <1>0, <2>1 DEF Order, Fixed, fmmus
  <1>3. CASE Turns
    <2>1. /\ Fixed /\ \A s \in DOMAIN slaves, dir \in Dirs :
                        (Before(s, dir)' <=> Before(s, dir)) /\ ~Busy(s, dir)
      BY <1>3, TurnsEffect
    <2> QED  BY <1>0, <2>1 DEF Order, Fixed, fmmus
  <1>4. CASE MapEmpty
    <2>1. fmmu' = fmmu /\ FMMUdone' = FMMUdone  BY <1>4, EmptyEffect
    <2> QED  BY <1>0, <1>4, <2>1, EmptyKeeps DEF Order
  <1> QED  BY <1>1, <1>2, <1>3, <1>4, StepKinds

\* The bits of an FMMU are those from its first to its last.
LEMMA BitsOf ==
  ASSUME NEW f \in Fmmu
  PROVE  /\ FirstBit(f) \in Nat /\ LastBit(f) \in Int /\ FmmuBits(f) = FirstBit(f) .. LastBit(f)
         /\ f.slave \in DOMAIN slaves /\ f.dir \in Dirs
  BY DEF Fmmu, FirstBit, LastBit, FmmuBits

-----------------------------------------------------------------------------
(* Where the FMMUs lie.                                                    *)

\* Behind each other, inputs behind outputs;
PlacedApart ==
    ~overlap =>
        /\ \A f \in fmmu : LastBit(f) < Cursor
        /\ phase # "O" => \A f \in fmmu : IF f.dir = "O" THEN LastBit(f) < 8 * grp.Obytes
                                          ELSE FirstBit(f) >= 8 * grp.Obytes

\* or, overlapping, each slave's behind those of the slaves before.
PlacedOver ==
    overlap =>
        /\ phase \in Dirs =>
             \A f \in fmmu :
               /\ f.slave < slave =>
                    /\ LastBit(f) < 8 * oLogAddr
                    /\ f.dir = "O" => LastBit(f) < 8 * ends.O
                    /\ phase = "O" /\ f.dir = "I" => LastBit(f) < 8 * ends.I
               /\ f.slave = slave =>
                    IF f.dir = phase THEN LastBit(f) < Cursor
                    ELSE f.dir = "O" /\ LastBit(f) < 8 * ends.O
        /\ phase = "I" => ends.O >= oLogAddr
        /\ phase = "O" => oLogAddr = IF ends.O >= ends.I THEN ends.O ELSE ends.I
        /\ phase = "mapped" =>
             \A f \in fmmu : LastBit(f) < 8 * (IF f.dir = "O" THEN grp.Obytes ELSE grp.Ibytes)

\* Those of the slave at hand begin where it began.
PlacedOwn ==
    phase \in Dirs =>
      /\ \A f \in fmmu : f.slave = slave /\ (overlap \/ f.dir = phase) => FirstBit(f) >= 8 * oLogAddr
      /\ FMMUdone = 0 => /\ LogAddr = oLogAddr \/ (LogAddr = oLogAddr + 1 /\ SMc > 1 /\ ~overlap)
                         /\ overlap => BitPos = 0

Apart == \A f, g \in fmmu :
    f = g \/ LastBit(f) < FirstBit(g) \/ LastBit(g) < FirstBit(f)
          \/ (overlap /\ f.slave = g.slave /\ f.dir # g.dir)

Placed == PlacedApart /\ PlacedOver /\ PlacedOwn /\ Apart

\* A new FMMU lies behind all that it may not touch.
LEMMA AddsPlaced ==
  ASSUME MapTyped, Loop, Order, Placed, NEW n, Adds(n)
  PROVE  Placed' /\ \A f \in fmmu : f.slave = n.slave /\ f.dir = n.dir => LastBit(f) < FirstBit(n)
  <1>1. /\ slave \in DOMAIN slaves /\ phase \in Dirs /\ FMMUdone' > 0 /\ FMMUdone' \in Nat
        /\ n.slave = slave /\ n.dir = phase /\ fmmu' = fmmu \cup {n} /\ n \in Fmmu
    BY AddsEffect
  <1>2. /\ FirstBit(n) >= Cursor /\ LastBit(n) >= FirstBit(n) /\ Cursor' = LastBit(n) + 1
        /\ UNCHANGED <<slaves, overlap, phase, slave, oLogAddr, ends>>
    BY DEF Adds
  <1>3. FirstBit(n) \in Nat /\ LastBit(n) \in Int /\ Cursor \in Nat /\ Cursor >= 8 * oLogAddr
        /\ oLogAddr \in Nat
    BY <1>1, BitsOf DEF Cursor, MapTyped
  <1>4. \A f \in fmmu : /\ FirstBit(f) \in Nat /\ LastBit(f) \in Int
                        /\ f.slave \in DOMAIN slaves /\ f.dir \in Dirs /\ f.slave \in Nat
    BY BitsOf DEF MapTyped, Network
  <1>5. \A f \in fmmu : overlap => f.slave < slave \/ f.slave = slave
    BY <1>1, <1>4 DEF Order, Before, Busy, Dirs
  <1>6. grp'.Obytes = grp.Obytes  BY <1>1, CountType DEF Adds
  <1>7. ~overlap => \A f \in fmmu : LastBit(f) < FirstBit(n)
    BY <1>2, <1>3, <1>4 DEF Placed, PlacedApart
  <1>8. overlap => \A f \in fmmu :
           LastBit(f) < FirstBit(n) \/ (f.slave = slave /\ f.dir # phase)
    <2> SUFFICES ASSUME overlap, NEW f \in fmmu
                 PROVE  LastBit(f) < FirstBit(n) \/ (f.slave = slave /\ f.dir # phase)
      OBVIOUS
    <2>1. CASE f.slave < slave
      <3>1. LastBit(f) < 8 * oLogAddr  BY <1>1, <2>1 DEF Placed, PlacedOver
      <3> QED  BY <1>2, <1>3, <1>4, <3>1
    <2>2. CASE f.slave = slave /\ f.dir = phase
      <3>1. LastBit(f) < Cursor  BY <1>1, <2>2 DEF Placed, PlacedOver
      <3> QED  BY <1>2, <1>3, <1>4, <3>1
    <2> QED  BY <1>5, <2>1, <2>2
  <1>9. PlacedApart'
    <2> SUFFICES ASSUME ~overlap
                 PROVE  /\ \A f \in fmmu' : LastBit(f) < Cursor'
                        /\ phase # "O" => \A f \in fmmu' : IF f.dir = "O" THEN LastBit(f) < 8 * grp.Obytes
                                          ELSE FirstBit(f) >= 8 * grp.Obytes
      BY <1>2, <1>6 DEF PlacedApart, LastBit, FirstBit
    <2>1. \A f \in fmmu' : LastBit(f) < Cursor'  BY <1>1, <1>2, <1>3, <1>4, <1>7
    <2>2. ASSUME phase # "O" PROVE FirstBit(n) >= 8 * grp.Obytes
      <3>1. grp.Obytes \in Nat /\ grp.Obytes <= LogAddr /\ LogAddr \in Nat /\ BitPos \in 0 .. 7
        BY <1>1, <2>2 DEF MapTyped, Group, Dirs
      <3>2. Cursor >= 8 * grp.Obytes  BY <3>1 DEF Cursor
      <3> QED  BY <1>2, <1>3, <3>1, <3>2
    <2> QED  BY <1>1, <2>1, <2>2 DEF Placed, PlacedApart, Dirs
  <1>10. PlacedOver'
    <2> SUFFICES ASSUME overlap,  NEW f \in fmmu'
                 PROVE  /\ f.slave < slave =>
                             /\ LastBit(f) < 8 * oLogAddr
                             /\ f.dir = "O" => LastBit(f) < 8 * ends.O
                             /\ phase = "O" /\ f.dir = "I" => LastBit(f) < 8 * ends.I
                        /\ f.slave = slave =>
                             IF f.dir = phase THEN LastBit(f) < Cursor'
                             ELSE f.dir = "O" /\ LastBit(f) < 8 * ends.O
      BY <1>1, <1>2 DEF Placed, PlacedOver, LastBit, Dirs
    <2>1. CASE f = n
      BY <1>1, <1>2, <1>3, <2>1 DEF MapTyped, Network
    <2>2. CASE f \in fmmu
      <3>1. f.slave = slave /\ f.dir = phase => LastBit(f) < Cursor'
        BY <1>1, <1>2, <1>3, <1>4, <2>2 DEF Placed, PlacedOver
      <3> QED  BY <1>1, <2>2, <3>1 DEF Placed, PlacedOver
    <2> QED  BY <1>1, <2>1, <2>2
  <1>11. PlacedOwn'
    <2> SUFFICES ASSUME NEW f \in fmmu', f.slave = slave, overlap \/ f.dir = phase
                 PROVE  FirstBit(f) >= 8 * oLogAddr
      BY <1>1, <1>2 DEF PlacedOwn, FirstBit
    <2> QED  BY <1>1, <1>2, <1>3 DEF Placed, PlacedOwn
  <1>12. Apart'
    <2>1. \A f \in fmmu : LastBit(f) < FirstBit(n) \/ (overlap /\ f.slave = n.slave /\ f.dir # n.dir)
      BY <1>1, <1>7, <1>8
    <2>2. \A f, g \in fmmu' :
             f = g \/ LastBit(f) < FirstBit(g) \/ LastBit(g) < FirstBit(f)
                   \/ (overlap /\ f.slave = g.slave /\ f.dir # g.dir)
      BY <1>1, <2>1 DEF Placed, Apart
    <2> QED  BY <1>2, <2>2 DEF Apart, LastBit, FirstBit
  <1> QED  BY <1>1, <1>7, <1>8, <1>9, <1>10, <1>11, <1>12 DEF Placed

\* Apart says nothing of what Fixed leaves alone.
LEMMA ApartFixed ==
  ASSUME Apart, Fixed
  PROVE  Apart'
  BY DEF Apart, Fixed, fmmus, FirstBit, LastBit

\* The numbers in the FMMUs and the cursor.
LEMMA FmmuNumbers ==
  ASSUME MapTyped
  PROVE  /\ \A f \in fmmu : /\ FirstBit(f) \in Nat /\ LastBit(f) \in Int
                            /\ f.slave \in 1 .. Len(slaves) /\ f.slave \in Nat /\ f.dir \in Dirs
         /\ Len(slaves) \in Nat /\ slave \in Nat /\ slave <= Len(slaves) + 1
         /\ LogAddr \in Nat /\ BitPos \in Nat /\ BitPos < 8 /\ Cursor \in Nat
         /\ oLogAddr \in Nat /\ oLogAddr <= LogAddr /\ Cursor >= 8 * oLogAddr
         /\ Cursor < 8 * LogAddr + 8
         /\ BitPos = 0 => Cursor = 8 * LogAddr
         /\ ends.O \in Nat /\ ends.I \in Nat
  <1>1. \A f \in fmmu : /\ FirstBit(f) \in Nat /\ LastBit(f) \in Int
                        /\ f.slave \in 1 .. Len(slaves) /\ f.slave \in Nat /\ f.dir \in Dirs
    BY BitsOf DEF MapTyped, Network
  <1>2. /\ Len(slaves) \in Nat /\ slave \in Nat /\ slave <= Len(slaves) + 1
        /\ LogAddr \in Nat /\ BitPos \in Nat /\ BitPos < 8
        /\ oLogAddr \in Nat /\ oLogAddr <= LogAddr
        /\ ends.O \in Nat /\ ends.I \in Nat
    BY DEF MapTyped, Network
  <1> QED  BY <1>1, <1>2 DEF Cursor

LEMMA EndSlavePlaced ==
  ASSUME MapTyped, Loop, Order, Placed, EndSlave
  PROVE  Placed'
  <1>1. /\ Fixed /\ slave \in DOMAIN slaves /\ phase \in Dirs /\ FMMUdone' = 0
    BY ClosesEffect DEF Closes
  <1>2. /\ ~overlap /\ overlap' = overlap /\ phase' = phase /\ slave' = slave + 1
        /\ LogAddr' = LogAddr /\ BitPos' = BitPos /\ fmmu' = fmmu
    BY <1>1 DEF EndSlave, Fixed, fmmus
  <1>3. grp'.Obytes = grp.Obytes
    BY BlockType DEF EndSlave
  <1>4. \A f \in fmmu : ~(f.slave = slave + 1 /\ f.dir = phase)
    <2>1. slave \in Nat /\ \A f \in fmmu : f.slave \in Nat  BY FmmuNumbers
    <2> QED  BY <1>1, <1>2, <2>1 DEF Order, Before, Busy, Dirs
  <1>5. oLogAddr' = LogAddr
    <2>1. CASE Pdos.bits > 0
      BY <2>1 DEF EndSlave
    <2>2. CASE ~(Pdos.bits > 0)
      <3>1. oLogAddr' = oLogAddr  BY <2>2 DEF EndSlave
      <3>2. FMMUdone = 0 /\ SMc = 1
        <4>1. slave \in 1 .. Len(slaves)  BY <1>1 DEF MapTyped, Network
        <4>2. Pdo(Pdos) /\ Pdos.bits \in Nat  BY <1>1, <4>1, PdosPdo DEF MapTyped
        <4>3. Pdos.bits = 0  BY <2>2, <4>2
        <4>4. Bytes(Pdos) = 0  BY <4>3 DEF Bytes
        <4> QED  BY <1>1, <4>1, <4>3, <4>4 DEF Loop
      <3> QED  BY <1>1, <3>1, <3>2 DEF Placed, PlacedOwn
    <2> QED  BY <2>1, <2>2
  <1>6. PlacedApart'
    BY <1>2, <1>3 DEF Placed, PlacedApart, FirstBit, LastBit, Cursor
  <1>7. PlacedOver'  BY <1>2 DEF PlacedOver
  <1>8. PlacedOwn'
    BY <1>1, <1>2, <1>4, <1>5 DEF PlacedOwn
  <1>9. Apart'  BY <1>1, ApartFixed DEF Placed
  <1> QED  BY <1>6, <1>7, <1>8, <1>9 DEF Placed

LEMMA EndOutputsPlaced ==
  ASSUME MapTyped, Loop, Order, Placed, EndOutputs
  PROVE  Placed'
  <1>1. /\ Fixed /\ phase \in Dirs /\ slave > Len(slaves) /\ FMMUdone = 0 /\ FMMUdone' = 0
        /\ SMc = 1
    BY TurnsEffect DEF Turns
  <1>2. /\ ~overlap /\ overlap' = overlap /\ phase = "O" /\ phase' = "I" /\ slave' = 1
        /\ fmmu' = fmmu /\ grp'.Obytes = LogAddr'
    <2>1. grp'.Obytes = LogAddr'  BY DEF EndOutputs, MapTyped, Group
    <2> QED  BY <1>1, <2>1 DEF EndOutputs, Fixed, fmmus
  <1>3. \A f \in fmmu : f.dir = "O"
    BY <1>1, <1>2, FmmuNumbers DEF Order, Before, Busy, Dirs
  <1>4. LogAddr' = oLogAddr' /\ BitPos' = 0 /\ LogAddr' = (IF BitPos > 0 THEN LogAddr + 1 ELSE LogAddr)
    <2>1. LogAddr = oLogAddr  BY <1>1 DEF Placed, PlacedOwn
    <2>2. CASE BitPos > 0  BY <2>2 DEF EndOutputs, CloseByte
    <2>3. CASE ~(BitPos > 0)
      BY <2>1, <2>3, FmmuNumbers DEF EndOutputs, CloseByte, cursor
    <2> QED  BY <2>2, <2>3
  <1>5. LogAddr' \in Nat /\ 8 * LogAddr' >= Cursor /\ Cursor' = 8 * LogAddr'
    <2>1. /\ LogAddr \in Nat /\ BitPos \in Nat /\ BitPos < 8 /\ Cursor = 8 * LogAddr + BitPos
          /\ Cursor' = 8 * LogAddr' + BitPos'
      BY FmmuNumbers DEF Cursor
    <2>2. LogAddr' \in Nat  BY <1>4, <2>1
    <2>3. 8 * LogAddr' >= Cursor  BY <1>4, <2>1
    <2> QED  BY <1>4, <2>1, <2>2, <2>3
  <1>6. \A f \in fmmu : LastBit(f) < 8 * LogAddr'
    <2>1. \A f \in fmmu : LastBit(f) < Cursor  BY <1>2 DEF Placed, PlacedApart
    <2> QED  BY <1>5, <2>1, FmmuNumbers
  <1>7. PlacedApart'
    BY <1>2, <1>3, <1>5, <1>6 DEF PlacedApart, FirstBit, LastBit
  <1>8. PlacedOver'  BY <1>2 DEF PlacedOver
  <1>9. PlacedOwn'
    BY <1>1, <1>2, <1>3, <1>4 DEF PlacedOwn
  <1>10. Apart'  BY <1>1, ApartFixed DEF Placed
  <1> QED  BY <1>7, <1>8, <1>9, <1>10 DEF Placed

LEMMA EndInputsPlaced ==
  ASSUME MapTyped, Loop, Order, Placed, EndInputs
  PROVE  Placed'
  <1>1. /\ ~overlap /\ phase = "I" /\ phase' = "mapped" /\ Fixed
        /\ LogAddr' = (IF BitPos > 0 THEN LogAddr + 1 ELSE LogAddr) /\ BitPos' = 0
        /\ grp'.Obytes = grp.Obytes
    BY EndInputsEffect
  <1>2. Cursor' >= Cursor /\ Cursor' \in Nat  BY <1>1, FmmuNumbers DEF Cursor
  <1>3. fmmu' = fmmu /\ overlap' = overlap  BY <1>1 DEF Fixed, fmmus
  <1>4. PlacedApart'
    <2>1. \A f \in fmmu : LastBit(f) < Cursor'
      <3>1. \A f \in fmmu : LastBit(f) < Cursor  BY <1>1 DEF Placed, PlacedApart
      <3> QED  BY <1>2, <3>1, FmmuNumbers
    <2> QED  BY <1>1, <1>3, <2>1 DEF Placed, PlacedApart, FirstBit, LastBit
  <1>5. PlacedOver'  BY <1>1, <1>3 DEF PlacedOver
  <1>6. PlacedOwn'  BY <1>1 DEF PlacedOwn, Dirs
  <1>7. Apart'  BY <1>1, ApartFixed DEF Placed
  <1> QED  BY <1>4, <1>5, <1>6, <1>7 DEF Placed

LEMMA EndOverlapOutputsPlaced ==
  ASSUME MapTyped, Loop, Order, Placed, EndOverlapOutputs
  PROVE  Placed'
  <1>0. EndOverlap("O") /\ "O" \in Dirs  BY DEF EndOverlapOutputs, Dirs
  <1>1. /\ overlap /\ phase = "O" /\ Fixed /\ BitPos' = 0 /\ FMMUdone' = 0
        /\ ends'.O = (IF BitPos > 0 THEN LogAddr + 1 ELSE LogAddr)
    BY <1>0, EndOverlapEffect
  <1>2. /\ phase' = "I" /\ slave' = slave /\ LogAddr' = oLogAddr /\ oLogAddr' = oLogAddr
        /\ fmmu' = fmmu /\ overlap' = overlap
    BY <1>1 DEF EndOverlapOutputs, Fixed, fmmus
  <1>3. ends'.O \in Nat /\ 8 * ends'.O >= Cursor /\ ends'.O >= oLogAddr
    <2>1. ends'.O \in Nat /\ ends'.O >= LogAddr /\ 8 * ends'.O >= Cursor
      BY <1>1, FmmuNumbers DEF Cursor
    <2> QED  BY <2>1, FmmuNumbers
  <1>4. PlacedOver'
    <2>1. \A f \in fmmu : f.slave < slave => LastBit(f) < 8 * oLogAddr /\ LastBit(f) < 8 * ends'.O
      <3>1. \A f \in fmmu : f.slave < slave => LastBit(f) < 8 * oLogAddr
        BY <1>1 DEF Placed, PlacedOver, Dirs
      <3> QED  BY <1>3, <3>1, FmmuNumbers
    <2>2. \A f \in fmmu : f.slave = slave => f.dir = "O"
      BY <1>1, FmmuNumbers DEF Order, Before, Busy
    <2>3. \A f \in fmmu : f.slave = slave => LastBit(f) < 8 * ends'.O
      <3>1. \A f \in fmmu : f.slave = slave => LastBit(f) < Cursor
        BY <1>1, <2>2 DEF Placed, PlacedOver, Dirs
      <3> QED  BY <1>3, <3>1, FmmuNumbers
    <2> QED  BY <1>1, <1>2, <1>3, <2>1, <2>2, <2>3 DEF PlacedOver, LastBit
  <1>5. PlacedApart'  BY <1>1, <1>2 DEF PlacedApart
  <1>6. PlacedOwn'
    BY <1>1, <1>2 DEF Placed, PlacedOwn, FirstBit, Dirs
  <1>7. Apart'  BY <1>1, ApartFixed DEF Placed
  <1> QED  BY <1>4, <1>5, <1>6, <1>7 DEF Placed

LEMMA EndOverlapInputsPlaced ==
  ASSUME MapTyped, Loop, Order, Placed, EndOverlapInputs
  PROVE  Placed'
  <1>1. /\ overlap /\ overlap' /\ phase = "I" /\ phase' = "O" /\ Fixed /\ BitPos' = 0
        /\ slave \in 1 .. Len(slaves) /\ slave' = slave + 1 /\ FMMUdone' = 0
        /\ ends'.I = (IF BitPos > 0 THEN LogAddr + 1 ELSE LogAddr) /\ ends'.O = ends.O
        /\ oLogAddr' = (IF ends'.O >= ends'.I THEN ends'.O ELSE ends'.I)
        /\ oLogAddr' \in Nat /\ oLogAddr' >= oLogAddr /\ LogAddr' = oLogAddr'
    BY EndOverlapInputsEffect
  <1>2. fmmu' = fmmu  BY <1>1 DEF Fixed, fmmus
  <1>3. ends'.I \in Nat /\ 8 * ends'.I >= Cursor /\ ends'.I >= oLogAddr /\ ends.O \in Nat
    <2>1. ends'.I \in Nat /\ ends'.I >= LogAddr /\ 8 * ends'.I >= Cursor
      BY <1>1, FmmuNumbers DEF Cursor
    <2> QED  BY <2>1, FmmuNumbers
  <1>4. oLogAddr' >= ends'.I /\ oLogAddr' >= ends.O  BY <1>1, <1>3
  <1>5. \A f \in fmmu : f.slave < slave \/ f.slave = slave
    BY <1>1, FmmuNumbers DEF Order, Before, Busy
  <1>6. \A f \in fmmu :
           /\ f.dir = "O" => LastBit(f) < 8 * ends.O
           /\ f.dir = "I" => LastBit(f) < 8 * ends'.I
    <2> SUFFICES ASSUME NEW f \in fmmu
                 PROVE  /\ f.dir = "O" => LastBit(f) < 8 * ends.O
                        /\ f.dir = "I" => LastBit(f) < 8 * ends'.I
      OBVIOUS
    <2>1. LastBit(f) \in Int /\ oLogAddr \in Nat /\ Cursor \in Nat  BY FmmuNumbers
    <2>2. CASE f.slave < slave
      <3>1. LastBit(f) < 8 * oLogAddr /\ (f.dir = "O" => LastBit(f) < 8 * ends.O)
        BY <1>1, <2>2 DEF Placed, PlacedOver, Dirs
      <3> QED  BY <1>3, <2>1, <3>1
    <2>3. CASE f.slave = slave
      <3>1. /\ f.dir = "I" => LastBit(f) < Cursor
            /\ f.dir = "O" => LastBit(f) < 8 * ends.O
        BY <1>1, <2>3 DEF Placed, PlacedOver, Dirs
      <3> QED  BY <1>3, <2>1, <3>1
    <2> QED  BY <1>5, <2>2, <2>3
  <1>7. \A f \in fmmu : LastBit(f) < 8 * oLogAddr'
    <2> SUFFICES ASSUME NEW f \in fmmu PROVE LastBit(f) < 8 * oLogAddr'
      OBVIOUS
    <2>1. LastBit(f) \in Int /\ (f.dir = "O" \/ f.dir = "I")  BY FmmuNumbers DEF Dirs
    <2>2. f.dir = "O" => LastBit(f) < 8 * ends.O  BY <1>6
    <2>3. f.dir = "I" => LastBit(f) < 8 * ends'.I  BY <1>6
    <2> QED  BY <1>1, <1>3, <1>4, <2>1, <2>2, <2>3
  <1>8. \A f \in fmmu : f.slave # slave'
    BY <1>1, <1>5, FmmuNumbers
  <1>9. PlacedOver'
    BY <1>1, <1>2, <1>6, <1>7, <1>8 DEF PlacedOver, LastBit
  <1>10. PlacedApart'  BY <1>1 DEF PlacedApart
  <1>11. PlacedOwn'
    BY <1>1, <1>2, <1>8 DEF PlacedOwn, FirstBit
  <1>12. Apart'  BY <1>1, ApartFixed DEF Placed
  <1> QED  BY <1>9, <1>10, <1>11, <1>12 DEF Placed

LEMMA EndOverlapMapPlaced ==
  ASSUME MapTyped, Loop, Order, Placed, EndOverlapMap
  PROVE  Placed'
  <1>1. /\ overlap /\ overlap' = overlap /\ phase = "O" /\ slave > Len(slaves) /\ phase' = "mapped"
        /\ Fixed /\ grp'.Obytes = ends.O /\ grp'.Ibytes = ends.I
    BY EndOverlapMapEffect
  <1>2. fmmu' = fmmu  BY <1>1 DEF Fixed, fmmus
  <1>3. \A f \in fmmu : LastBit(f) < 8 * (IF f.dir = "O" THEN ends.O ELSE ends.I)
    <2> SUFFICES ASSUME NEW f \in fmmu
                 PROVE  LastBit(f) < 8 * (IF f.dir = "O" THEN ends.O ELSE ends.I)
      OBVIOUS
    <2>1. f.slave < slave  BY <1>1, FmmuNumbers
    <2> QED  BY <1>1, <2>1, FmmuNumbers DEF Placed, PlacedOver, Dirs
  <1>4. PlacedOver'
    BY <1>1, <1>2, <1>3 DEF PlacedOver, LastBit, Dirs
  <1>5. PlacedApart'  BY <1>1 DEF PlacedApart
  <1>6. PlacedOwn'  BY <1>1 DEF PlacedOwn, Dirs
  <1>7. Apart'  BY <1>1, ApartFixed DEF Placed
  <1> QED  BY <1>4, <1>5, <1>6, <1>7 DEF Placed

LEMMA EmptyPlaced ==
  ASSUME MapTyped, Loop, Order, Placed, MapEmpty
  PROVE  Placed'
  <1>1. /\ phase \in Dirs /\ FMMUdone = 0 /\ FMMUdone' = 0 /\ SMc' > 1
        /\ LogAddr' = (IF BitPos > 0 THEN LogAddr + 1 ELSE LogAddr) /\ BitPos' = 0
        /\ SMc > 1 => BitPos = 0
        /\ Cursor' >= Cursor /\ Cursor' = 8 * LogAddr' /\ LogAddr' \in Nat
        /\ IF phase = "O" THEN CountWKC ELSE grp' = grp
        /\ UNCHANGED <<slaves, overlap, phase, slave, fmmu, oLogAddr, ends>>
    BY EmptyEffect
  <1>2. grp'.Obytes = grp.Obytes  BY <1>1, CountType
  <1>3. \A f \in fmmu : LastBit(f) < Cursor => LastBit(f) < Cursor'
    <2>1. Cursor \in Nat /\ \A f \in fmmu : LastBit(f) \in Int  BY FmmuNumbers
    <2> QED  BY <1>1, <2>1
  <1>4. PlacedApart'
    BY <1>1, <1>2, <1>3 DEF Placed, PlacedApart, FirstBit, LastBit
  <1>5. PlacedOver'
    BY <1>1, <1>3 DEF Placed, PlacedOver, LastBit, Dirs
  <1>6. PlacedOwn'
    <2>1. \A f \in fmmu : f.slave = slave /\ (overlap \/ f.dir = phase) => FirstBit(f) >= 8 * oLogAddr
      BY <1>1 DEF Placed, PlacedOwn
    <2>2. LogAddr' = oLogAddr \/ (LogAddr' = oLogAddr + 1 /\ SMc' > 1 /\ ~overlap)
      <3>1. /\ LogAddr = oLogAddr \/ (LogAddr = oLogAddr + 1 /\ SMc > 1 /\ ~overlap)
            /\ overlap => BitPos = 0
        BY <1>1 DEF Placed, PlacedOwn
      <3> QED  BY <1>1, <3>1
    <2> QED  BY <1>1, <2>1, <2>2 DEF PlacedOwn, FirstBit
  <1>7. Apart'  BY <1>1 DEF Placed, Apart, FirstBit, LastBit
  <1> QED  BY <1>4, <1>5, <1>6, <1>7 DEF Placed

\* Every step keeps the FMMUs in their places.
LEMMA PlacedStep ==
  ASSUME MapTyped, Loop, Order, Placed, MapNext
  PROVE  Placed'
  <1>1. ASSUME NEW n, Adds(n) PROVE Placed'  BY <1>1, AddsPlaced
  <1> QED
    BY <1>1, StepKinds, EndSlavePlaced, EndOutputsPlaced, EndInputsPlaced, EndOverlapOutputsPlaced,
       EndOverlapInputsPlaced, EndOverlapMapPlaced, EmptyPlaced DEF Closes, Turns

\* FMMUs that keep their places share no bit but a slave's own.
LEMMA DisjointFromPlaced ==
  ASSUME MapTyped, Placed
  PROVE  FmmusDisjoint
  <1> SUFFICES ASSUME NEW f \in fmmu, NEW g \in fmmu, f # g, FmmuBits(f) \cap FmmuBits(g) # {}
               PROVE  overlap /\ f.slave = g.slave /\ f.dir # g.dir
    BY DEF FmmusDisjoint
  <1>1. /\ FmmuBits(f) = FirstBit(f) .. LastBit(f) /\ FmmuBits(g) = FirstBit(g) .. LastBit(g)
        /\ FirstBit(f) \in Nat /\ FirstBit(g) \in Nat /\ LastBit(f) \in Int /\ LastBit(g) \in Int
    BY BitsOf DEF MapTyped
  <1>2. ~(LastBit(f) < FirstBit(g)) /\ ~(LastBit(g) < FirstBit(f))
    BY <1>1
  <1> QED  BY <1>2 DEF Placed, Apart

\* The FMMU added is not there yet.
LEMMA AddsNew ==
  ASSUME MapTyped, Loop, Order, Placed, NEW n, Adds(n)
  PROVE  n \notin fmmu
  <1>1. \A f \in fmmu : f.slave = n.slave /\ f.dir = n.dir => LastBit(f) < FirstBit(n)
    BY AddsPlaced
  <1>2. LastBit(n) >= FirstBit(n) /\ FirstBit(n) \in Nat /\ LastBit(n) \in Int
    BY BitsOf DEF Adds
  <1> QED  BY <1>1, <1>2

-----------------------------------------------------------------------------
(* One working counter for every FMMU, and for the empty ones of outputs.  *)

Ways(dir) == {f \in fmmu : f.dir = dir}
Counted == /\ empty \in Nat
           /\ grp.outputsWKC = Cardinality(Ways("O")) + empty
           /\ grp.inputsWKC = Cardinality(Ways("I"))

\* The group's work counters count the FMMUs of each direction.
LEMMA CountedStep ==
  ASSUME MapTyped, Loop, Order, Placed, Counted, MapNext
  PROVE  Counted'
  <1>1. ASSUME NEW n, Adds(n) PROVE Counted'
    <2>1. n \notin fmmu  BY <1>1, AddsNew
    <2>2. phase \in Dirs /\ n.dir = phase /\ fmmu' = fmmu \cup {n}  BY <1>1, AddsEffect
    <2>3. /\ grp'.outputsWKC = (IF phase = "O" THEN grp.outputsWKC + 1 ELSE grp.outputsWKC)
          /\ grp'.inputsWKC = (IF phase = "I" THEN grp.inputsWKC + 1 ELSE grp.inputsWKC)
      BY <1>1, <2>2, CountType DEF Adds
    <2>4. \A dir \in Dirs : IsFiniteSet(Ways(dir)) /\ n \notin Ways(dir)
      <3> TAKE dir \in Dirs
      <3>1. Ways(dir) \subseteq fmmu  BY DEF Ways
      <3> QED  BY <2>1, <3>1, FS_Subset DEF MapTyped
    <2>5. \A dir \in Dirs : Cardinality(Ways(dir) \cup {n}) = Cardinality(Ways(dir)) + 1
      BY <2>4, FS_AddElement
    <2>6. \A dir \in Dirs : Ways(dir)' = IF dir = phase THEN Ways(dir) \cup {n} ELSE Ways(dir)
      BY <2>2 DEF Ways
    <2>7. \A dir \in Dirs : Cardinality(Ways(dir)) \in Nat  BY <2>4, FS_CardinalityType
    <2>8. empty' = empty  BY <1>1 DEF Adds
    <2>9. CASE phase = "O"
      <3>1. Cardinality(Ways("O"))' = Cardinality(Ways("O")) + 1 /\ Ways("I")' = Ways("I")
        BY <2>5, <2>6, <2>9 DEF Dirs
      <3>2. grp'.outputsWKC = Cardinality(Ways("O")) + empty + 1
            /\ grp'.inputsWKC = Cardinality(Ways("I"))
        BY <2>3, <2>9 DEF Counted
      <3>3. Cardinality(Ways("O")) \in Nat /\ empty \in Nat  BY <2>7 DEF Counted, Dirs
      <3>4. grp'.outputsWKC = Cardinality(Ways("O"))' + empty'
        BY <2>8, <3>1, <3>2, <3>3
      <3> QED  BY <2>8, <3>1, <3>2, <3>3, <3>4 DEF Counted
    <2>10. CASE phase = "I"
      BY <2>3, <2>5, <2>6, <2>7, <2>8, <2>10 DEF Counted, Dirs
    <2> QED  BY <2>2, <2>9, <2>10 DEF Dirs
  <1>2. CASE Closes \/ Turns
    <2>1. Fixed /\ empty' = empty  BY <1>2, ClosesEffect, TurnsEffect
    <2>2. grp'.outputsWKC = grp.outputsWKC /\ grp'.inputsWKC = grp.inputsWKC
      <3>1. CASE EndSlave  BY <3>1, BlockType DEF EndSlave
      <3>2. CASE EndOverlapOutputs  BY <3>2 DEF EndOverlapOutputs
      <3>3. CASE EndOverlapInputs  BY <3>3, BlockType DEF EndOverlapInputs
      <3>4. CASE EndOutputs  BY <3>4 DEF EndOutputs, MapTyped, Group
      <3>5. CASE EndInputs  BY <3>5, EndInputsEffect
      <3>6. CASE EndOverlapMap  BY <3>6, EndOverlapMapEffect
      <3> QED  BY <1>2, <3>1, <3>2, <3>3, <3>4, <3>5, <3>6 DEF Closes, Turns
    <2> QED  BY <2>1, <2>2 DEF Counted, Fixed, fmmus, Ways
  <1>3. CASE MapEmpty
    <2>1. /\ phase \in Dirs /\ fmmu' = fmmu
          /\ IF phase = "O" THEN CountWKC /\ empty' = empty + 1 ELSE grp' = grp /\ empty' = empty
      BY <1>3, EmptyEffect
    <2>2. Ways("O")' = Ways("O") /\ Ways("I")' = Ways("I")  BY <2>1 DEF Ways
    <2>3. IsFiniteSet(Ways("O")) /\ Cardinality(Ways("O")) \in Nat
      <3>1. Ways("O") \subseteq fmmu  BY DEF Ways
      <3> QED  BY <3>1, FS_Subset, FS_CardinalityType DEF MapTyped
    <2>4. CASE phase = "O"
      <3>1. grp'.outputsWKC = grp.outputsWKC + 1 /\ grp'.inputsWKC = grp.inputsWKC
        BY <2>1, <2>4, CountType
      <3> QED  BY <2>1, <2>2, <2>3, <2>4, <3>1 DEF Counted
    <2> QED  BY <2>1, <2>2, <2>4 DEF Counted
  <1> QED  BY <1>1, <1>2, <1>3, StepKinds

-----------------------------------------------------------------------------
(* An FMMU reaches no further than its sync managers.                      *)

\* No FMMU reaches beyond the sync managers it joins.
LEMMA WithinStep ==
  ASSUME MapTyped, Loop, FmmuWithinSms, MapNext
  PROVE  FmmuWithinSms'
  <1>1. ASSUME NEW n, Adds(n) PROVE FmmuWithinSms'
    <2> DEFINE d == Pdos
    <2>1. /\ slave \in DOMAIN slaves /\ phase \in Dirs
          /\ n.slave = slave /\ n.dir = phase /\ fmmu' = fmmu \cup {n} /\ n \in Fmmu
      BY <1>1, AddsEffect
    <2>2. slaves' = slaves /\ n.first = SMc /\ n.last = LastJoined(d, SMc)
      BY <1>1 DEF Adds
    <2>3. d = slaves[n.slave][n.dir]  BY <2>1 DEF Pdos
    <2>4. /\ Pdo(d) /\ d.bits \in Nat /\ d.bits > 0 /\ SMc \in 1 .. Len(d.sms) /\ Len(d.sms) \in Nat
          /\ n.last \in SMc .. Len(d.sms)
          /\ SmBytes(d, SMc, n.last) \in Nat
          /\ SmBytes(d, 1, n.last) = SmBytes(d, 1, SMc - 1) + SmBytes(d, SMc, n.last)
          /\ SmBytes(d, 1, SMc - 1) \in Nat
      BY <1>1, <2>2, MapsPdo DEF Adds, Pdo
    <2>5. /\ FMMUdone < NeedBytes(d) /\ FMMUdone \in Nat /\ ByteCount = SmBytes(d, 1, SMc - 1)
          /\ SMc <= 2 => FMMUdone = ByteCount
          /\ FMMUdone = 0 => SMc = 1 \/ Bytes(d) > 0
          /\ Bytes(d) = 0 /\ FMMUdone > 0 => FMMUdone >= NeedBytes(d)
          /\ ByteCount' = ByteCount + SmBytes(d, SMc, n.last)
      BY <1>1, <2>1, <2>2, <2>4 DEF Adds, MapsFmmu, Loop, MapTyped, Network
    <2>6. 8 * (n.size - 1) + n.ebit - n.sbit = LastBit(n) - FirstBit(n)
          /\ LastBit(n) - FirstBit(n) \in Int
      BY <2>1 DEF Fmmu, FirstBit, LastBit
    <2>7. Bytes(d) = 0 => LastBit(n) - FirstBit(n) = d.bits - 1
      <3> SUFFICES ASSUME Bytes(d) = 0 PROVE LastBit(n) - FirstBit(n) = d.bits - 1
        OBVIOUS
      <3>1. FirstBit(n) = Cursor /\ LastBit(n) = Cursor + d.bits - 1  BY <1>1 DEF Adds
      <3>2. Cursor \in Nat  BY FmmuNumbers
      <3> HIDE DEF d
      <3> QED  BY <2>4, <3>1, <3>2
    <2>8. Bytes(d) # 0 => /\ n.size = Min({ByteCount', Bytes(d) - FMMUdone})
                          /\ LastBit(n) - FirstBit(n) = 8 * n.size - 1
      BY <1>1, <2>1 DEF Adds, FirstBit, LastBit, Fmmu
    <2> HIDE DEF d
    <2>9. /\ NeedBytes(d) \in Nat /\ Bytes(d) \in Nat
          /\ Bytes(d) > 0 => Bytes(d) = NeedBytes(d)
          /\ Bytes(d) = 0 => d.bits <= 7
      BY <2>4, Numbers8
    <2>10. Len(d.sms) <= 2 /\ SmBytes(d, 1, Len(d.sms)) >= Bytes(d)
           /\ (Bytes(d) = 0 => d.sms[1].len > 0) =>
             8 * (n.size - 1) + n.ebit - n.sbit < 8 * SmBytes(d, n.first, n.last)
      <3> SUFFICES ASSUME Len(d.sms) <= 2, SmBytes(d, 1, Len(d.sms)) >= Bytes(d),
                          Bytes(d) = 0 => d.sms[1].len > 0
                   PROVE  LastBit(n) - FirstBit(n) < 8 * SmBytes(d, SMc, n.last)
        BY <2>2, <2>6
      <3> DEFINE w == SmBytes(d, SMc, n.last)
                 b == SmBytes(d, 1, SMc - 1)
      <3>0. w \in Nat /\ b \in Nat  BY <2>4
      <3>1. CASE Bytes(d) = 0
        <4>1. LastBit(n) - FirstBit(n) <= 6  BY <2>4, <2>7, <2>9, <3>1
        <4>2. w > 0
          <5>1. SMc = 1  BY <2>5, <2>9, <3>1
          <5> QED  BY <2>4, <3>1, <5>1, SmFirst
        <4> HIDE DEF w
        <4> QED  BY <2>6, <3>0, <4>1, <4>2 DEF w
      <3>2. CASE Bytes(d) # 0
        <4>1. ByteCount' = b + w /\ FMMUdone = b
          <5>1. SMc <= 2  BY <2>4
          <5> QED  BY <2>5, <5>1
        <4>2. n.size <= b + w /\ n.size <= Bytes(d) - b /\ n.size \in Nat
          <5>1. b + w \in Int /\ Bytes(d) - b \in Int  BY <2>9, <3>0
          <5>2. n.size = Min({b + w, Bytes(d) - b})  BY <2>8, <3>2, <4>1
          <5>3. n.size \in Nat  BY <2>1 DEF Fmmu
          <5> HIDE DEF w, b
          <5>4. n.size = IF b + w <= Bytes(d) - b THEN b + w ELSE Bytes(d) - b
            BY <5>1, <5>2, MinOfTwo
          <5> QED  BY <5>1, <5>3, <5>4
        <4>3. SMc = 1 => b = 0
          <5> SUFFICES ASSUME SMc = 1 PROVE b = 0  OBVIOUS
          <5>1. SMc - 1 = 0  OBVIOUS
          <5> QED  BY <2>4, <5>1, SmNone
        <4>4. SMc # 1 => n.last = Len(d.sms)  BY <2>4
        <4>5. SMc # 1 => Bytes(d) <= b + w
          <5> SUFFICES ASSUME SMc # 1 PROVE Bytes(d) <= b + w  OBVIOUS
          <5>1. SmBytes(d, 1, n.last) = b + w /\ n.last = Len(d.sms)  BY <2>4, <4>4
          <5> QED  BY <5>1
        <4>6. n.size <= w
          <5> HIDE DEF w, b
          <5> QED  BY <2>9, <3>0, <4>2, <4>3, <4>5
        <4>7. LastBit(n) - FirstBit(n) = 8 * n.size - 1  BY <2>8, <3>2
        <4> HIDE DEF w
        <4> QED  BY <3>0, <4>2, <4>6, <4>7 DEF w
      <3> QED  BY <3>1, <3>2
    <2> QED  BY <2>1, <2>2, <2>3, <2>10 DEF FmmuWithinSms
  <1>2. CASE Closes \/ Turns
    <2>1. Fixed  BY <1>2, ClosesEffect, TurnsEffect
    <2> QED  BY <2>1 DEF FmmuWithinSms, Fixed, fmmus
  <1>3. CASE MapEmpty
    <2>1. fmmu' = fmmu /\ slaves' = slaves  BY <1>3, EmptyEffect
    <2> QED  BY <2>1 DEF FmmuWithinSms
  <1> QED  BY <1>1, <1>2, <1>3, StepKinds

-----------------------------------------------------------------------------
(* The data of a slave are mapped in one piece.                            *)

Own(s, dir) == {f \in fmmu : f.slave = s /\ f.dir = dir}
SizeOf(S) == MapThenSumSet(LAMBDA f : f.size, S)

\* The sum of sizes as the sum of a function.
LEMMA SizeSum ==
  ASSUME NEW S, IsFiniteSet(S), \A f \in S : f.size \in Nat
  PROVE  SizeOf(S) = Sum([f \in S |-> f.size], S)
  <1> DEFINE G == [f \in S |-> f.size]
             R(f) == [T \in SUBSET S |->
                         IF T = {} THEN 0 ELSE Pick(T).size + f[T \ {Pick(T)}]]
             h == CHOOSE f : f = R(f)
  <1>1. \A f : R(f) = Step(G, S, f)
    <2> TAKE f
    <2>1. \A T \in SUBSET S : T # {} => Pick(T).size = G[Pick(T)]
      BY PickIn
    <2> HIDE DEF G
    <2> QED  BY <2>1 DEF Step
  <1>2. SizeOf(S) = h[S]
    BY Zenon DEF SizeOf, MapThenSumSet, MapThenFoldSet, Pick
  <1>3. \A x \in S : G[x] \in Nat  OBVIOUS
  <1> HIDE DEF G, R
  <1>4. \E f : f = R(f)  BY <1>1, <1>3, Exists
  <1>5. h = R(h)  BY <1>4, Zenon
  <1>6. IsIter(G, S, h) /\ IsIter(G, S, Iter(G, S))
    BY <1>1, <1>3, <1>5, IterIs DEF IsIter
  <1> HIDE DEF h
  <1>7. h[S] = Iter(G, S)[S]
    <2>1. Agree(G, G, S)  BY DEF Agree
    <2> QED  BY <1>6, <2>1, Unique
  <1> QED  BY <1>2, <1>7, SumIter DEF G

\* The sum of sizes, term by term.
LEMMA SizeFacts ==
  /\ SizeOf({}) = 0
  /\ \A S : IsFiniteSet(S) /\ (\A f \in S : f.size \in Nat) =>
       /\ SizeOf(S) \in Nat
       /\ \A n : n \notin S /\ n.size \in Nat => SizeOf(S \cup {n}) = SizeOf(S) + n.size
  <1>1. SizeOf({}) = 0
    BY SizeSum, SumEmpty, FS_EmptySet
  <1>2. ASSUME NEW S, IsFiniteSet(S), \A f \in S : f.size \in Nat
        PROVE  /\ SizeOf(S) \in Nat
               /\ \A n : n \notin S /\ n.size \in Nat => SizeOf(S \cup {n}) = SizeOf(S) + n.size
    <2> DEFINE G == [f \in S |-> f.size]
    <2>1. SizeOf(S) = Sum(G, S)  BY <1>2, SizeSum
    <2>2. \A f \in S : G[f] = f.size /\ G[f] \in Nat  BY <1>2
    <2> HIDE DEF G
    <2>3. SizeOf(S) \in Nat  BY <1>2, <2>1, <2>2, SumNat
    <2>4. ASSUME NEW n, n \notin S, n.size \in Nat
          PROVE  SizeOf(S \cup {n}) = SizeOf(S) + n.size
      <3> DEFINE T == S \cup {n}
                 H == [f \in T |-> f.size]
      <3>1. IsFiniteSet(T) /\ \A f \in T : f.size \in Nat  BY <1>2, <2>4, FS_AddElement
      <3>2. n \in T /\ T \ {n} = S  BY <2>4
      <3>3. (\A f \in T : H[f] = f.size) /\ H[n] = n.size  OBVIOUS
      <3> HIDE DEF T
      <3>4. SizeOf(T) = Sum(H, T)  BY <3>1, SizeSum
      <3> HIDE DEF H
      <3>5. Sum(H, T) = Sum(H, T \ {n}) + H[n]  BY <3>1, <3>2, <3>3, SumAdds
      <3>6. Sum(H, S) = Sum(G, S)
        <4>1. \A f \in S : H[f] = G[f]  BY <2>2, <3>2, <3>3
        <4> QED  BY <1>2, <2>2, <4>1, SumSame
      <3> QED  BY <2>1, <3>2, <3>3, <3>4, <3>5, <3>6 DEF T
    <2> QED  BY <2>3, <2>4
  <1> QED  BY <1>1, <1>2

\* The slave at hand, once its first FMMU is set up,
Begun(s, dir) ==
    LET d == slaves[s][dir]
        p == at[s][dir]
    IN  /\ p \in Nat /\ p < Cursor
        /\ UNION {FmmuBits(f) : f \in Own(s, dir)} = p .. Cursor - 1
        /\ IF Bytes(d) = 0 THEN Cursor - p = d.bits
           ELSE Cursor - p = 8 * FMMUdone /\ SizeOf(Own(s, dir)) = FMMUdone

\* and one that is mapped.
WholeData(s, dir) ==
    LET d == slaves[s][dir]
        size == IF Bytes(d) > 0 THEN 8 * Bytes(d) ELSE d.bits
    IN  /\ Bytes(d) > 0 /\ SmBytes(d, 1, Len(d.sms)) >= Bytes(d)
             => SizeOf(Own(s, dir)) = Bytes(d)
        /\ d.bits = 0 => at[s][dir] = NULL
        /\ d.bits > 0 /\ SmBytes(d, 1, Len(d.sms)) >= NeedBytes(d)
             => /\ at[s][dir] \in Nat
                /\ UNION {FmmuBits(f) : f \in Own(s, dir)} = at[s][dir] .. at[s][dir] + size - 1

\* An FMMU of length 0 sets the pointer to where the next one begins.
Whole ==
    \A s \in DOMAIN slaves, dir \in Dirs :
        IF Before(s, dir) THEN WholeData(s, dir)
        ELSE IF Busy(s, dir) /\ FMMUdone > 0 THEN Begun(s, dir)
        ELSE at[s][dir] = NULL \/ (Busy(s, dir) /\ SMc > 1 /\ at[s][dir] = Cursor)

\* A direction that is not begun has no FMMU.
LEMMA OwnNone ==
  ASSUME MapTyped, Order, NEW s, NEW dir, ~Before(s, dir), ~(Busy(s, dir) /\ FMMUdone > 0)
  PROVE  Own(s, dir) = {}
  BY DEF Own, Order

\* Adding changes the FMMUs of one direction only.
LEMMA OwnAdds ==
  ASSUME MapTyped, Loop, Order, Placed, NEW n, Adds(n)
  PROVE  \A s \in DOMAIN slaves, dir \in Dirs :
           /\ Own(s, dir)' = IF s = slave /\ dir = phase THEN Own(s, dir) \cup {n} ELSE Own(s, dir)
           /\ IsFiniteSet(Own(s, dir)) /\ (\A f \in Own(s, dir) : f.size \in Nat)
           /\ n \notin Own(s, dir)
  <1> TAKE s \in DOMAIN slaves, dir \in Dirs
  <1>1. n.slave = slave /\ n.dir = phase /\ fmmu' = fmmu \cup {n}  BY AddsEffect
  <1>2. n \notin fmmu  BY AddsNew
  <1>3. Own(s, dir) \subseteq fmmu  BY DEF Own
  <1>4. Own(s, dir)' = IF s = slave /\ dir = phase THEN Own(s, dir) \cup {n} ELSE Own(s, dir)
    BY <1>1 DEF Own
  <1> QED  BY <1>2, <1>3, <1>4, FS_Subset DEF MapTyped, Fmmu

\* The FMMUs of a direction stay in one piece when one is added.
LEMMA AddsBegun ==
  ASSUME MapTyped, Loop, Order, Placed, Whole, NEW n, Adds(n),
         NEW s \in DOMAIN slaves, NEW dir \in Dirs, s = slave, dir = phase
  PROVE  Begun(s, dir)'
  <1> DEFINE d == slaves[s][dir]
             o == Own(s, dir)
             p == at[s][dir]
             U == UNION {FmmuBits(f) : f \in o}
             b == FirstBit(n)
             e == LastBit(n)
  <1>1. /\ n \in Fmmu
        /\ \A s1 \in DOMAIN slaves, dir1 \in Dirs : Busy(s1, dir1) => ~Before(s1, dir1)
    BY AddsEffect
  <1>2. /\ o' = o \cup {n} /\ IsFiniteSet(o) /\ (\A f \in o : f.size \in Nat) /\ n \notin o
    BY OwnAdds
  <1>3. /\ FMMUdone' = FMMUdone + n.size /\ FMMUdone \in Nat /\ n.size \in Nat /\ n.size > 0
        /\ FMMUdone < NeedBytes(d) /\ slaves' = slaves /\ d' = d /\ d = Pdos
    BY <1>1 DEF Adds, Loop, MapsFmmu, Fmmu, Pdos
  <1>4. /\ d.bits \in Nat /\ d.bits > 0
    BY <1>3, MapsPdo DEF Adds
  <1>5. /\ b >= Cursor /\ e >= b /\ Cursor' = e + 1
        /\ Cursor \in Nat /\ b \in Nat /\ e \in Nat
        /\ FmmuBits(n) = b .. e
        /\ PointTo(b)
    <2>1. b >= Cursor /\ e >= b /\ Cursor' = e + 1 /\ PointTo(b)  BY DEF Adds
    <2>2. b \in Nat /\ e \in Int /\ FmmuBits(n) = b .. e  BY <1>1, BitsOf
    <2> QED  BY <2>1, <2>2, FmmuNumbers
  <1>6. p' = IF p = NULL THEN b ELSE p
    <2>1. b \in Int  BY <1>5
    <2> QED  BY <1>5, <2>1, PointToType
  <1>7. U' = U \cup (b .. e)
    BY <1>2, <1>5 DEF FmmuBits
  <1>8. SizeOf(o') = SizeOf(o) + n.size  BY <1>2, <1>3, SizeFacts
  <1>9. IF Bytes(d) = 0 THEN e - b + 1 = d.bits
        ELSE e - b + 1 = 8 * n.size /\ (BitPos = 0 => b = Cursor)
    <2>1. CASE Bytes(d) = 0
      <3>1. b = Cursor /\ e = Cursor + d.bits - 1  BY <1>3, <2>1 DEF Adds
      <3> HIDE DEF d, b, e
      <3> QED  BY <1>4, <1>5, <2>1, <3>1
    <2>2. CASE Bytes(d) # 0
      <3>1. n.start = (IF BitPos > 0 THEN LogAddr + 1 ELSE LogAddr) /\ n.sbit = 0 /\ n.ebit = 7
        BY <1>3, <2>2 DEF Adds
      <3>2. LogAddr \in Nat /\ BitPos \in 0 .. 7  BY DEF MapTyped
      <3>3. e - b + 1 = 8 * n.size
        BY <1>3, <3>1, <3>2 DEF FirstBit, LastBit
      <3>4. BitPos = 0 => b = Cursor
        BY <3>1, <3>2 DEF FirstBit, Cursor
      <3> QED  BY <2>2, <3>3, <3>4
    <2> QED  BY <2>1, <2>2
  <1>10. /\ p' \in Nat /\ p' <= e /\ U' = p' .. e
         /\ IF Bytes(d) = 0 THEN e + 1 - p' = d.bits
            ELSE e + 1 - p' = 8 * FMMUdone' /\ SizeOf(o') = FMMUdone'
    <2>1. CASE FMMUdone = 0
      <3>1. (p = NULL \/ p = b) /\ o = {}
        <4>1. Busy(s, dir)  BY DEF Busy
        <4>2. ~Before(s, dir)  BY <1>1, <4>1
        <4>3. p = NULL \/ (SMc > 1 /\ p = Cursor)  BY <2>1, <4>2 DEF Whole
        <4>4. SMc > 1 => b = Cursor
          <5> SUFFICES ASSUME SMc > 1 PROVE b = Cursor  OBVIOUS
          <5>1. phase \in Dirs /\ slave <= Len(slaves) /\ SMc \in Nat
            BY DEF Adds, MapsFmmu, Dirs, Loop
          <5>2. Bytes(d) > 0 /\ BitPos = 0  BY <1>3, <2>1, <5>1 DEF Loop
          <5> QED  BY <1>9, <5>2
        <4> QED  BY <2>1, <4>2, <4>3, <4>4, OwnNone
      <3>2. U = {}  BY <3>1
      <3>3. p' = b /\ U' = b .. e  BY <1>6, <1>7, <3>1, <3>2
      <3>4. SizeOf(o') = n.size /\ FMMUdone' = n.size
        <4>1. SizeOf(o) = 0  BY <3>1, SizeFacts
        <4> HIDE DEF o
        <4> QED  BY <1>3, <1>8, <2>1, <4>1
      <3> HIDE DEF d, o, p, U, b, e
      <3>5. e + 1 - b = e - b + 1  BY <1>5
      <3> QED  BY <1>5, <1>9, <3>3, <3>4, <3>5
    <2>2. CASE FMMUdone > 0
      <3>1. Begun(s, dir)
        <4>1. Busy(s, dir)  BY DEF Busy
        <4>2. ~Before(s, dir)  BY <1>1, <4>1
        <4> QED  BY <2>2, <4>1, <4>2 DEF Whole
      <3>2. Bytes(d) > 0 /\ BitPos = 0
        <4>1. phase \in Dirs /\ slave <= Len(slaves)  BY DEF Adds, MapsFmmu, Dirs
        <4>2. Bytes(d) = 0 => FMMUdone >= NeedBytes(d)  BY <1>3, <2>2, <4>1 DEF Loop
        <4>3. NeedBytes(d) \in Nat /\ Bytes(d) \in Nat
          <5> HIDE DEF d
          <5> QED  BY <1>4, Numbers8
        <4>4. Bytes(d) > 0  BY <1>3, <4>2, <4>3
        <4> QED  BY <1>3, <2>2, <4>1, <4>4 DEF Loop
      <3>3. p \in Nat /\ p < Cursor /\ U = p .. Cursor - 1 /\ Cursor - p = 8 * FMMUdone
            /\ SizeOf(o) = FMMUdone
        BY <3>1, <3>2 DEF Begun
      <3>4. p' = p  BY <1>6, <3>3 DEF NULL
      <3>5. b = Cursor /\ e - b + 1 = 8 * n.size  BY <1>9, <3>2
      <3>6. SizeOf(o') = FMMUdone'  BY <1>3, <1>8, <3>3
      <3> HIDE DEF d, o, p, U, b, e
      <3>7. U' = p .. e  BY <1>5, <1>7, <3>3, <3>5
      <3>8. p <= e /\ e + 1 - p = 8 * FMMUdone'  BY <1>3, <1>5, <3>3, <3>5
      <3> QED  BY <3>2, <3>3, <3>4, <3>6, <3>7, <3>8
    <2> QED  BY <1>3, <2>1, <2>2
  <1>11. p' < Cursor' /\ Cursor' - p' = e + 1 - p' /\ Cursor' - 1 = e
    <2> HIDE DEF p, b, e
    <2> QED  BY <1>5, <1>10
  <1>12. d' = slaves'[s][dir] /\ o' = Own(s, dir)' /\ p' = at'[s][dir] /\ Bytes(d') = Bytes(d)
    BY <1>3
  <1>13. U' = UNION {FmmuBits(f) : f \in o'}  BY DEF FmmuBits
  <1>14. p' \in Nat /\ p' < Cursor' /\ UNION {FmmuBits(f) : f \in o'} = p' .. Cursor' - 1
         /\ IF Bytes(d') = 0 THEN Cursor' - p' = d'.bits
            ELSE Cursor' - p' = 8 * FMMUdone' /\ SizeOf(o') = FMMUdone'
    <2> HIDE DEF d, o, p, U, b, e
    <2> QED  BY <1>3, <1>10, <1>11, <1>12, <1>13
  <1> QED  BY <1>14 DEF Begun

LEMMA WholeFixed ==
  ASSUME Fixed, NEW s, NEW dir
  PROVE  WholeData(s, dir)' <=> WholeData(s, dir)
  <1>1. slaves' = slaves /\ at' = at /\ Own(s, dir)' = Own(s, dir)  BY DEF Fixed, fmmus, Own
  <1> QED  BY <1>1 DEF WholeData, FmmuBits

\* The FMMUs of all directions stay in one piece.
LEMMA AddsWhole ==
  ASSUME MapTyped, Loop, Order, Placed, Whole, NEW n, Adds(n)
  PROVE  Whole'
  <1>1. /\ slave \in DOMAIN slaves /\ phase \in Dirs /\ FMMUdone' > 0 /\ FMMUdone' \in Nat
        /\ \A s \in DOMAIN slaves, dir \in Dirs :
              /\ Before(s, dir)' <=> Before(s, dir)
              /\ Busy(s, dir)' <=> Busy(s, dir)
              /\ Busy(s, dir) => ~Before(s, dir)
    BY AddsEffect
  <1>2. slaves' = slaves  BY DEF Adds
  <1> SUFFICES ASSUME NEW s \in DOMAIN slaves, NEW dir \in Dirs
               PROVE  IF Before(s, dir)' THEN WholeData(s, dir)'
                      ELSE IF Busy(s, dir)' /\ FMMUdone' > 0 THEN Begun(s, dir)'
                      ELSE at'[s][dir] = NULL
    BY <1>2 DEF Whole
  <1>3. CASE Busy(s, dir)
    <2>1. Begun(s, dir)'  BY <1>3, AddsBegun DEF Busy
    <2> QED  BY <1>1, <1>3, <2>1
  <1>4. CASE ~Busy(s, dir)
    <2>1. at'[s][dir] = at[s][dir]
      <3>1. PointTo(FirstBit(n)) /\ FirstBit(n) \in Int  BY BitsOf DEF Adds
      <3> QED  BY <1>1, <1>4, <3>1, PointToType DEF Busy
    <2>2. Own(s, dir)' = Own(s, dir)  BY <1>4, OwnAdds DEF Busy
    <2>3. WholeData(s, dir)' <=> WholeData(s, dir)
      BY <1>2, <2>1, <2>2 DEF WholeData, FmmuBits
    <2> QED  BY <1>1, <1>4, <2>1, <2>3 DEF Whole
  <1> QED  BY <1>3, <1>4

\* A slave that is closed has been mapped as far as its sync managers go.
LEMMA BegunIsWhole ==
  ASSUME MapTyped, Loop, Order, Whole, SlaveMapped, NEW s \in DOMAIN slaves, NEW dir \in Dirs,
         s = slave, dir = phase, ~Before(s, dir)
  PROVE  WholeData(s, dir)
  <1> DEFINE d == slaves[s][dir]
             o == Own(s, dir)
             p == at[s][dir]
             U == UNION {FmmuBits(f) : f \in o}
             m == SmBytes(d, 1, Len(d.sms))
  <1>1. phase \in Dirs /\ slave \in 1 .. Len(slaves) /\ slave <= Len(slaves) /\ d = Pdos
    <2>1. Len(slaves) \in Nat /\ DOMAIN slaves = 1 .. Len(slaves)  BY DEF MapTyped, Network
    <2> QED  BY <2>1 DEF Pdos
  <1>2. Pdo(d) /\ d.bits \in Nat  BY <1>1, PdosPdo DEF MapTyped
  <1>3. /\ FMMUdone \in Nat /\ Len(d.sms) \in Nat
        /\ FMMUdone >= NeedBytes(d) \/ SMc > Len(d.sms)
        /\ FMMUdone > 0 => d.bits > 0
        /\ Bytes(d) > 0 => FMMUdone <= Bytes(d)
        /\ SMc > Len(d.sms) /\ d.bits > 0 => 8 * m < d.bits
        /\ FMMUdone = 0 => SMc = 1 \/ Bytes(d) > 0
    BY <1>1, <1>2 DEF Loop, SlaveMapped, Pdo
  <1>4. /\ NeedBytes(d) \in Nat /\ Bytes(d) \in Nat
        /\ 8 * NeedBytes(d) >= d.bits
        /\ NeedBytes(d) > 0 <=> d.bits > 0
        /\ Bytes(d) > 0 => Bytes(d) = NeedBytes(d) /\ d.bits > 7
    <2> HIDE DEF d
    <2> QED  BY <1>2, Numbers8
  <1>5. m \in Nat
    <2> HIDE DEF d
    <2>1. 1 \in Nat \ {0} /\ Len(d.sms) \in 0 .. Len(d.sms)  BY <1>3
    <2> QED  BY <1>2, <2>1, SmFacts
  <1>7. FMMUdone > 0 => Begun(s, dir)
    BY <1>1 DEF Whole, Busy
  <1>8. FMMUdone = 0 => p = NULL \/ SMc > 1
    BY <1>1 DEF Whole, Busy
  <1>9. FMMUdone > 0 =>
          /\ p \in Nat /\ U = p .. Cursor - 1 /\ Cursor \in Nat
          /\ IF Bytes(d) = 0 THEN Cursor - p = d.bits
             ELSE Cursor - p = 8 * FMMUdone /\ SizeOf(o) = FMMUdone
    BY <1>7, FmmuNumbers DEF Begun
  <1> HIDE DEF d, o, p, U, m
  <1>10. m >= NeedBytes(d) /\ d.bits > 0 => FMMUdone >= NeedBytes(d) /\ FMMUdone > 0
    BY <1>2, <1>3, <1>4, <1>5
  <1>11. Bytes(d) > 0 /\ m >= Bytes(d) => SizeOf(o) = Bytes(d) /\ FMMUdone = Bytes(d)
    <2> SUFFICES ASSUME Bytes(d) > 0, m >= Bytes(d)
                 PROVE  SizeOf(o) = Bytes(d) /\ FMMUdone = Bytes(d)
      OBVIOUS
    <2>1. FMMUdone = Bytes(d)  BY <1>2, <1>3, <1>4, <1>10
    <2>2. FMMUdone > 0 /\ Bytes(d) # 0  BY <2>1
    <2> QED  BY <1>9, <2>1, <2>2
  <1>12. d.bits = 0 => p = NULL
    <2> SUFFICES ASSUME d.bits = 0 PROVE p = NULL  OBVIOUS
    <2>1. FMMUdone = 0 /\ ~(Bytes(d) > 0)  BY <1>2, <1>3, <1>4
    <2> QED  BY <1>3, <1>8, <2>1
  <1>13. d.bits > 0 /\ m >= NeedBytes(d) =>
            p \in Nat /\ U = p .. p + (IF Bytes(d) > 0 THEN 8 * Bytes(d) ELSE d.bits) - 1
    <2> SUFFICES ASSUME d.bits > 0, m >= NeedBytes(d)
                 PROVE  p \in Nat /\ U = p .. p + (IF Bytes(d) > 0 THEN 8 * Bytes(d) ELSE d.bits) - 1
      OBVIOUS
    <2>0. FMMUdone > 0  BY <1>10
    <2>1. p \in Nat /\ U = p .. Cursor - 1 /\ Cursor \in Nat  BY <1>9, <2>0
    <2>2. Cursor - p = IF Bytes(d) > 0 THEN 8 * Bytes(d) ELSE d.bits
      <3>1. CASE Bytes(d) > 0
        <4>1. m >= Bytes(d) /\ Bytes(d) # 0  BY <1>4, <3>1
        <4>2. FMMUdone = Bytes(d)  BY <1>11, <3>1, <4>1
        <4> QED  BY <1>9, <2>0, <3>1, <4>1, <4>2
      <3>2. CASE ~(Bytes(d) > 0)
        <4>1. Bytes(d) = 0  BY <1>4, <3>2
        <4> QED  BY <1>9, <2>0, <3>2, <4>1
      <3> QED  BY <3>1, <3>2
    <2> DEFINE z == IF Bytes(d) > 0 THEN 8 * Bytes(d) ELSE d.bits
    <2>3. Cursor = p + z /\ z \in Int  BY <1>2, <1>4, <2>1, <2>2
    <2> HIDE DEF z
    <2>4. Cursor - 1 = p + z - 1  BY <2>1, <2>3
    <2> QED  BY <2>1, <2>4 DEF z
  <1> QED  BY <1>11, <1>12, <1>13 DEF WholeData, d, o, p, U, m

\* The other steps change no FMMU.
LEMMA OthersWhole ==
  ASSUME MapTyped, Loop, Order, Placed, Whole, Closes \/ Turns
  PROVE  Whole'
  <1>1. Fixed /\ phase \in Dirs /\ FMMUdone' = 0 /\ (Closes => SlaveMapped)
    BY ClosesEffect, TurnsEffect
  <1>2. \A s \in DOMAIN slaves, dir \in Dirs :
            /\ Before(s, dir)' <=> Before(s, dir) \/ (Closes /\ Busy(s, dir))
            /\ Busy(s, dir) => Closes /\ ~Before(s, dir)
    BY ClosesEffect, TurnsEffect
  <1>3. slaves' = slaves /\ at' = at  BY <1>1 DEF Fixed, fmmus
  <1> SUFFICES ASSUME NEW s \in DOMAIN slaves, NEW dir \in Dirs
               PROVE  IF Before(s, dir)' THEN WholeData(s, dir)' ELSE at'[s][dir] = NULL
    BY <1>1, <1>3 DEF Whole
  <1>4. WholeData(s, dir)' <=> WholeData(s, dir)  BY <1>1, WholeFixed
  <1>5. CASE Before(s, dir)  BY <1>2, <1>4, <1>5 DEF Whole
  <1>6. CASE Busy(s, dir)
    <2>1. WholeData(s, dir)  BY <1>1, <1>2, <1>6, BegunIsWhole DEF Busy
    <2> QED  BY <1>2, <1>4, <1>6, <2>1
  <1>7. CASE ~Before(s, dir) /\ ~Busy(s, dir)
    BY <1>2, <1>3, <1>7 DEF Whole
  <1> QED  BY <1>5, <1>6, <1>7

\* An FMMU of length 0 lets the data begin where the next FMMU will.
LEMMA EmptyWhole ==
  ASSUME MapTyped, Loop, Order, Placed, Whole, MapEmpty
  PROVE  Whole'
  <1>1. /\ slave \in DOMAIN slaves /\ phase \in Dirs /\ FMMUdone = 0 /\ FMMUdone' = 0 /\ SMc' > 1
        /\ LogAddr' = (IF BitPos > 0 THEN LogAddr + 1 ELSE LogAddr) /\ BitPos' = 0
        /\ SMc > 1 => BitPos = 0
        /\ PointTo(Cursor') /\ Cursor' = 8 * LogAddr' /\ LogAddr' \in Nat
        /\ slaves' = slaves /\ fmmu' = fmmu
    BY EmptyEffect
  <1>2. \A s \in DOMAIN slaves, dir \in Dirs :
          at'[s][dir] = IF s = slave /\ dir = phase /\ at[s][dir] = NULL THEN Cursor' ELSE at[s][dir]
    <2>1. Cursor' \in Int  BY <1>1
    <2> QED  BY <1>1, <2>1, PointToType
  <1>3. SMc > 1 => Cursor' = Cursor  BY <1>1, FmmuNumbers DEF Cursor
  <1> SUFFICES ASSUME NEW s \in DOMAIN slaves, NEW dir \in Dirs
               PROVE  IF Before(s, dir)' THEN WholeData(s, dir)'
                      ELSE at'[s][dir] = NULL
                             \/ (Busy(s, dir)' /\ SMc' > 1 /\ at'[s][dir] = Cursor')
    BY <1>1 DEF Whole
  <1>4. CASE Busy(s, dir)
    <2>1. ~Before(s, dir) /\ ~Before(s, dir)' /\ Busy(s, dir)'  BY <1>4, EmptyKeeps
    <2>2. at[s][dir] = NULL \/ at[s][dir] = Cursor'  BY <1>1, <1>3, <2>1 DEF Whole
    <2>3. at'[s][dir] = Cursor'  BY <1>2, <1>4, <2>2 DEF Busy
    <2> QED  BY <1>1, <2>1, <2>3
  <1>5. CASE ~Busy(s, dir)
    <2>1. at'[s][dir] = at[s][dir]  BY <1>2, <1>5 DEF Busy
    <2>2. Own(s, dir)' = Own(s, dir)  BY <1>1 DEF Own
    <2>3. WholeData(s, dir)' <=> WholeData(s, dir)
      BY <1>1, <2>1, <2>2 DEF WholeData, FmmuBits
    <2> QED  BY <1>5, <2>1, <2>3, EmptyKeeps DEF Whole
  <1> QED  BY <1>4, <1>5

\* What is mapped of a slave is always in one piece.
LEMMA WholeStep ==
  ASSUME MapTyped, Loop, Order, Placed, Whole, MapNext
  PROVE  Whole'
  BY AddsWhole, OthersWhole, EmptyWhole, StepKinds

\* The inputs are moved at the end of the overlapping layout, and behind its outputs.
Moves == moved = IF phase = "mapped" /\ overlap THEN grp.Obytes ELSE 0

LEMMA MovesStep ==
  ASSUME MapTyped, Loop, Moves, MapNext
  PROVE  Moves'
  <1>1. ASSUME NEW n, Adds(n) PROVE Moves'
    BY <1>1 DEF Adds, MapsFmmu, Moves
  <1>2. CASE MapEmpty  BY <1>2, EmptyEffect DEF Moves, Dirs
  <1>3. CASE Closes
    <2>1. moved' = moved /\ phase \in Dirs  BY <1>3, ClosesEffect
    <2>2. phase' \in Dirs
      BY <1>3, <2>1 DEF Closes, EndSlave, EndOverlapOutputs, EndOverlapInputs, Dirs
    <2> QED  BY <2>1, <2>2 DEF Moves, Dirs
  <1>4. CASE EndOutputs  BY <1>4 DEF EndOutputs, Moves, fmmus
  <1>5. CASE EndInputs  BY <1>5 DEF EndInputs, Moves, fmmus
  <1>6. CASE EndOverlapMap
    <2>1. moved' = ends.O  BY <1>6 DEF EndOverlapMap
    <2>2. phase' = "mapped" /\ overlap' /\ grp'.Obytes = ends.O  BY <1>6, EndOverlapMapEffect
    <2> QED  BY <2>1, <2>2 DEF Moves
  <1> QED  BY <1>1, <1>2, <1>3, <1>4, <1>5, <1>6, StepKinds DEF Turns

\* Bits that move, move together.
LEMMA Shifted ==
  ASSUME NEW a \in Int, NEW e \in Int, NEW c \in Int
  PROVE  {b + c : b \in a .. e} = (a + c) .. (e + c)
  <1>1. \A x \in (a + c) .. (e + c) : x - c \in a .. e /\ (x - c) + c = x  OBVIOUS
  <1> QED  BY <1>1

\* At the end it is all of the slave's data.
LEMMA RightFromWhole ==
  ASSUME MapTyped, Moves, Whole
  PROVE  EveryByteMapped /\ DataInOnePiece
  <1> SUFFICES ASSUME Mapped PROVE EveryByteMapped /\ DataInOnePiece
    BY DEF EveryByteMapped, DataInOnePiece
  <1>1. \A s \in DOMAIN slaves, dir \in Dirs : WholeData(s, dir)
    BY DEF Whole, Before, Mapped
  <1>2. \A s \in DOMAIN slaves, dir \in Dirs : slaves[s][dir].bits \in Nat
    BY DEF MapTyped, Network, Dirs, Pdo
  <1>3. EveryByteMapped
    BY <1>1 DEF EveryByteMapped, WholeData, SizeOf, Own, Dirs
  <1>4. DataInOnePiece
    <2> SUFFICES ASSUME NEW s \in DOMAIN slaves, NEW dir \in Dirs
                 PROVE  LET d == slaves[s][dir]
                            p == pointer(s, dir)
                            size == IF Bytes(d) > 0 THEN 8 * Bytes(d) ELSE d.bits
                            own == Own(s, dir)
                        IN  IF d.bits = 0 THEN p.base = "NULL"
                            ELSE SmBytes(d, 1, Len(d.sms)) >= NeedBytes(d)
                                   => /\ p.base = "IOmap"
                                      /\ UNION {MapBitsOf(f) : f \in own} = p.bit .. p.bit + size - 1
      BY DEF DataInOnePiece, Own, Dirs
    <2> DEFINE d == slaves[s][dir]
               p == pointer(s, dir)
               a == at[s][dir]
               z == IF Bytes(d) > 0 THEN 8 * Bytes(d) ELSE d.bits
               c == IF overlap /\ dir = "I" THEN 8 * grp.Obytes ELSE 0
               U == UNION {FmmuBits(f) : f \in Own(s, dir)}
    <2>1. WholeData(s, dir) /\ d.bits \in Nat  BY <1>1, <1>2
    <2>2. d.bits = 0 => a = NULL  BY <2>1 DEF WholeData
    <2>3. d.bits > 0 /\ SmBytes(d, 1, Len(d.sms)) >= NeedBytes(d) => a \in Nat /\ U = a .. a + z - 1
      BY <2>1 DEF WholeData
    <2>4. z \in Nat
      <3> HIDE DEF d
      <3> QED  BY <2>1, Numbers8
    <2>5. c \in Nat /\ moved = (IF overlap THEN grp.Obytes ELSE 0)
      BY DEF MapTyped, Group, Moves, Mapped
    <2>6. a = NULL => p.base = "NULL"  BY DEF pointer
    <2>7. a \in Nat => p.base = "IOmap" /\ p.bit = a + c
      BY <2>5 DEF pointer, NULL, Dirs
    <2>8. \A f \in Own(s, dir) : MapBitsOf(f) = {b + c : b \in FmmuBits(f)}
      BY DEF MapBitsOf, Own
    <2>9. UNION {MapBitsOf(f) : f \in Own(s, dir)} = {b + c : b \in U}
      <3> HIDE DEF c
      <3> QED  BY <2>8
    <2> HIDE DEF d, p, a, z, c, U
    <2>10. a \in Nat => {b + c : b \in a .. a + z - 1} = p.bit .. p.bit + z - 1
      <3> SUFFICES ASSUME a \in Nat PROVE {b + c : b \in a .. a + z - 1} = p.bit .. p.bit + z - 1
        OBVIOUS
      <3>1. a + z - 1 \in Int /\ a \in Int /\ c \in Int /\ (a + z - 1) + c = p.bit + z - 1
        BY <2>4, <2>5, <2>7
      <3> QED  BY <2>7, <3>1, Shifted
    <2>11. IF d.bits = 0 THEN p.base = "NULL"
           ELSE SmBytes(d, 1, Len(d.sms)) >= NeedBytes(d)
                  => /\ p.base = "IOmap"
                     /\ UNION {MapBitsOf(f) : f \in Own(s, dir)} = p.bit .. p.bit + z - 1
      <3>1. CASE d.bits = 0  BY <2>2, <2>6, <3>1
      <3>2. CASE d.bits # 0
        <4>1. d.bits > 0  BY <2>1, <3>2
        <4> SUFFICES ASSUME SmBytes(d, 1, Len(d.sms)) >= NeedBytes(d)
                     PROVE  /\ p.base = "IOmap"
                            /\ UNION {MapBitsOf(f) : f \in Own(s, dir)} = p.bit .. p.bit + z - 1
          BY <3>2
        <4> QED  BY <2>3, <2>7, <2>9, <2>10, <4>1
      <3> QED  BY <3>1, <3>2
    <2> QED  BY <2>11 DEF d, p, z
  <1> QED  BY <1>3, <1>4

-----------------------------------------------------------------------------
(* Segments.                                                               *)

Table(G) == G \in [0 .. MAXIOSEGMENTS - 1 -> Nat]
StartOf(G, k) == Sum(G, 0 .. k - 1)

\* SegmentStart is a sum over the table.
LEMMA StartIs == \A k : SegmentStart(k) = StartOf(IOsegment, k)
  BY Zenon DEF SegmentStart, StartOf, Sum

\* The first segment begins at 0, each behind the one before.
LEMMA StartFacts ==
  ASSUME NEW G, Table(G)
  PROVE  /\ \A k \in 0 .. MAXIOSEGMENTS : StartOf(G, k) \in Nat
         /\ StartOf(G, 0) = 0
         /\ \A k \in 0 .. MAXIOSEGMENTS - 1 : StartOf(G, k + 1) = StartOf(G, k) + G[k]
  <1>0. MAXIOSEGMENTS \in Nat  BY Parameters
  <1>1. \A k \in 0 .. MAXIOSEGMENTS :
          /\ IsFiniteSet(0 .. k - 1) /\ 0 .. k - 1 \subseteq 0 .. MAXIOSEGMENTS - 1
    <2> TAKE k \in 0 .. MAXIOSEGMENTS
    <2>1. k \in Nat  BY <1>0
    <2> QED  BY <1>0, <2>1, FS_Interval
  <1>2. \A k \in 0 .. MAXIOSEGMENTS : \A j \in 0 .. k - 1 : G[j] \in Nat
    BY <1>1 DEF Table
  <1>3. \A k \in 0 .. MAXIOSEGMENTS : StartOf(G, k) \in Nat
    BY <1>1, <1>2, SumNat DEF StartOf
  <1>4. StartOf(G, 0) = 0
    <2>1. 0 .. 0 - 1 = {}  OBVIOUS
    <2> QED  BY <2>1, SumEmpty DEF StartOf
  <1>5. ASSUME NEW k \in 0 .. MAXIOSEGMENTS - 1
        PROVE  StartOf(G, k + 1) = StartOf(G, k) + G[k]
    <2> DEFINE S == 0 .. (k + 1) - 1
    <2>1. k + 1 \in 0 .. MAXIOSEGMENTS /\ k \in S /\ S \ {k} = 0 .. k - 1
      BY <1>0
    <2>2. IsFiniteSet(S) /\ \A j \in S : G[j] \in Nat  BY <1>1, <1>2, <2>1
    <2>3. StartOf(G, k + 1) = Sum(G, S) /\ StartOf(G, k) = Sum(G, S \ {k})
      BY <2>1 DEF StartOf
    <2> HIDE DEF S
    <2> QED  BY <2>1, <2>2, <2>3, SumAdds
  <1> QED  BY <1>3, <1>4, <1>5

\* What lies before a segment is not moved by what happens behind it.
LEMMA StartSame ==
  ASSUME NEW G, Table(G), NEW H, Table(H), NEW k \in 0 .. MAXIOSEGMENTS,
         \A j \in 0 .. k - 1 : H[j] = G[j]
  PROVE  StartOf(H, k) = StartOf(G, k)
  <1>0. MAXIOSEGMENTS \in Nat  BY Parameters
  <1> DEFINE S == 0 .. k - 1
  <1>1. k \in Nat /\ IsFiniteSet(S) /\ S \subseteq 0 .. MAXIOSEGMENTS - 1
    <2>1. k \in Nat  BY <1>0
    <2> QED  BY <1>0, <2>1, FS_Interval
  <1>2. \A j \in S : G[j] \in Nat  BY <1>1 DEF Table
  <1>3. \A j \in S : H[j] = G[j]  OBVIOUS
  <1> HIDE DEF S
  <1>4. Sum(H, S) = Sum(G, S)  BY <1>1, <1>2, <1>3, SumSame
  <1> QED  BY <1>4 DEF StartOf, S

\* The bytes in a segment so far, and in all of them.
Size(k) == IF k < currentsegment THEN IOsegment[k] ELSE segmentsize
Base == StartOf(IOsegment, currentsegment)
Total == Base + segmentsize
Short == segmentsize <= LIMIT /\ \A k \in 0 .. MAXIOSEGMENTS - 1 : IOsegment[k] <= LIMIT

\* Some bytes more, all of them in one segment, while nothing else moves.
Grown(diff) ==
    /\ currentsegment <= currentsegment'
    /\ Base' <= Total /\ Total <= Total' /\ Total' <= Total + diff
    /\ ~TableFull' => ~TableFull /\ Total' = Total + diff
    /\ \A k \in 0 .. currentsegment :
         StartOf(IOsegment', k) = StartOf(IOsegment, k) /\ Size(k) <= Size(k)'
    /\ Short /\ diff <= LIMIT => Short'

SegTyped ==
    /\ Table(IOsegment)
    /\ currentsegment \in 0 .. MAXIOSEGMENTS - 1 /\ segmentsize \in Nat

\* The numbers of the segments.
LEMMA SegNumbers ==
  ASSUME SegTyped
  PROVE  /\ currentsegment \in Nat /\ currentsegment + 1 \in Nat /\ segmentsize \in Nat
         /\ Base \in Nat /\ Total \in Nat /\ Base <= Total
         /\ \A k \in 0 .. currentsegment :
              /\ k \in Nat /\ k \in 0 .. MAXIOSEGMENTS - 1
              /\ StartOf(IOsegment, k) \in Nat /\ Size(k) \in Nat
         /\ TableFull \/ currentsegment + 1 \in 0 .. MAXIOSEGMENTS - 1
  <1>1. MAXIOSEGMENTS \in Nat  BY Parameters
  <1>2. Table(IOsegment) /\ currentsegment \in Nat /\ currentsegment \in 0 .. MAXIOSEGMENTS
    BY <1>1 DEF SegTyped
  <1>3. Base \in Nat  BY <1>2, StartFacts DEF Base
  <1>4. \A k \in 0 .. currentsegment :
              /\ k \in Nat /\ k \in 0 .. MAXIOSEGMENTS - 1
              /\ StartOf(IOsegment, k) \in Nat /\ Size(k) \in Nat
    <2> TAKE k \in 0 .. currentsegment
    <2>1. k \in Nat /\ k \in 0 .. MAXIOSEGMENTS - 1 /\ k \in 0 .. MAXIOSEGMENTS
      BY <1>1, <1>2 DEF SegTyped
    <2> QED  BY <1>2, <2>1, StartFacts DEF Size, SegTyped, Table
  <1>5. TableFull \/ currentsegment + 1 \in 0 .. MAXIOSEGMENTS - 1
    BY <1>1, <1>2 DEF SegTyped, TableFull
  <1>6. segmentsize \in Nat  BY DEF SegTyped
  <1>7. Total \in Nat /\ Base <= Total
    <2> HIDE DEF Base
    <2> QED  BY <1>3, <1>6 DEF Total
  <1> QED  BY <1>2, <1>3, <1>4, <1>5, <1>6, <1>7

\* One step of growing, with or without a new segment; the entry of the
\* segment at hand may be filled in or not.
LEMMA GrownBy ==
  ASSUME SegTyped, SegTyped', NEW diff \in Nat,
         \A k \in 0 .. currentsegment - 1 : IOsegment'[k] = IOsegment[k],
         \/ currentsegment' = currentsegment /\ segmentsize' = segmentsize + diff
         \/ /\ currentsegment' = currentsegment + 1 /\ segmentsize' = diff
            /\ IOsegment'[currentsegment] = segmentsize
         \/ /\ currentsegment' = currentsegment /\ segmentsize' = segmentsize /\ TableFull,
         Short /\ diff <= LIMIT => Short'
  PROVE  Grown(diff)
  <1>0. MAXIOSEGMENTS \in Nat  BY Parameters
  <1>1. /\ Table(IOsegment') /\ Table(IOsegment) /\ currentsegment \in Nat /\ currentsegment' \in Nat
        /\ segmentsize \in Nat /\ segmentsize' \in Nat
        /\ currentsegment \in 0 .. MAXIOSEGMENTS - 1 /\ currentsegment' \in 0 .. MAXIOSEGMENTS - 1
    BY <1>0 DEF SegTyped
  <1>2. \A k \in 0 .. currentsegment : StartOf(IOsegment', k) = StartOf(IOsegment, k)
    <2> TAKE k \in 0 .. currentsegment
    <2>1. k \in 0 .. MAXIOSEGMENTS /\ 0 .. k - 1 \subseteq 0 .. currentsegment - 1
      BY <1>0, <1>1
    <2>2. \A j \in 0 .. k - 1 : IOsegment'[j] = IOsegment[j]  BY <2>1
    <2> QED  BY <1>1, <2>1, <2>2, StartSame
  <1> DEFINE b == Base
             t == Total
             b1 == Base'
             t1 == Total'
  <1>3. b \in Nat /\ t \in Nat /\ t = b + segmentsize /\ t1 = b1 + segmentsize'
        /\ StartOf(IOsegment', currentsegment) = b /\ b1 = StartOf(IOsegment', currentsegment')
    BY <1>1, <1>2, SegNumbers DEF Base, Total
  <1>4. CASE currentsegment' = currentsegment /\ segmentsize' \in Nat /\ segmentsize <= segmentsize'
             /\ segmentsize' <= segmentsize + diff
             /\ (TableFull \/ segmentsize' = segmentsize + diff)
    <2>1. b1 = b  BY <1>3, <1>4
    <2>2. \A k \in 0 .. currentsegment : Size(k) <= Size(k)'
      <3> TAKE k \in 0 .. currentsegment
      <3>1. k \in Nat /\ k \in 0 .. MAXIOSEGMENTS - 1  BY <1>0, <1>1
      <3>2. CASE k < currentsegment
        <4>1. k \in 0 .. currentsegment - 1  BY <1>1, <3>1, <3>2
        <4>2. Size(k) = IOsegment[k] /\ Size(k)' = IOsegment[k]  BY <1>4, <3>2, <4>1 DEF Size
        <4>3. IOsegment[k] \in Nat  BY <1>1, <3>1 DEF Table
        <4> QED  BY <4>2, <4>3
      <3>3. CASE ~(k < currentsegment)
        BY <1>4, <3>3 DEF Size
      <3> QED  BY <3>2, <3>3
    <2>3. TableFull' <=> TableFull  BY <1>4 DEF TableFull
    <2> HIDE DEF b, t, b1, t1
    <2>0. segmentsize <= segmentsize' /\ segmentsize' <= segmentsize + diff  BY <1>4
    <2>7. segmentsize \in Nat /\ segmentsize' \in Nat /\ b \in Nat /\ t = b + segmentsize
          /\ t1 = b + segmentsize'
      BY <1>1, <1>3, <2>1
    <2>8. b <= t  BY <2>7
    <2>9. t <= t1 /\ t1 <= t + diff
      <3> DEFINE x == segmentsize
                 y == segmentsize'
      <3>1. x \in Nat /\ y \in Nat /\ b \in Nat /\ t = b + x /\ t1 = b + y /\ x <= y /\ y <= x + diff
        BY <2>0, <2>7
      <3> HIDE DEF x, y
      <3> QED  BY <3>1
    <2>4. b1 <= t /\ t <= t1 /\ t1 <= t + diff  BY <2>1, <2>8, <2>9
    <2>5. ~TableFull' => ~TableFull /\ t1 = t + diff
      <3> SUFFICES ASSUME ~TableFull PROVE t1 = t + diff  BY <2>3
      <3>1. segmentsize' = segmentsize + diff  BY <1>4
      <3> QED  BY <1>1, <1>3, <2>1, <3>1
    <2>6. currentsegment <= currentsegment'  BY <1>1, <1>4
    <2> QED  BY <1>2, <2>2, <2>4, <2>5, <2>6 DEF Grown, b, t, b1, t1
  <1>5. CASE /\ currentsegment' = currentsegment + 1 /\ segmentsize' = diff
             /\ IOsegment'[currentsegment] = segmentsize
    <2>1. b1 = b + segmentsize
      <3>1. StartOf(IOsegment', currentsegment + 1) =
              StartOf(IOsegment', currentsegment) + IOsegment'[currentsegment]
        BY <1>1, StartFacts
      <3> QED  BY <1>3, <1>5, <3>1
    <2>2. \A k \in 0 .. currentsegment : Size(k) <= Size(k)'
      <3> TAKE k \in 0 .. currentsegment
      <3>1. k \in Nat /\ k \in 0 .. MAXIOSEGMENTS - 1 /\ k < currentsegment'  BY <1>0, <1>1, <1>5
      <3>2. CASE k < currentsegment
        <4>1. k \in 0 .. currentsegment - 1  BY <1>1, <3>1, <3>2
        <4>2. Size(k) = IOsegment[k] /\ Size(k)' = IOsegment[k]  BY <3>1, <3>2, <4>1 DEF Size
        <4>3. IOsegment[k] \in Nat  BY <1>1, <3>1 DEF Table
        <4> QED  BY <4>2, <4>3
      <3>3. CASE ~(k < currentsegment)
        <4>1. k = currentsegment  BY <1>1, <3>1, <3>3
        <4> QED  BY <1>1, <1>5, <3>1, <3>3, <4>1 DEF Size
      <3> QED  BY <3>2, <3>3
    <2>3. ~TableFull  BY <1>0, <1>1, <1>5 DEF TableFull
    <2> HIDE DEF b, t, b1, t1
    <2>4. b1 <= t /\ t <= t1 /\ t1 <= t + diff  BY <1>1, <1>3, <1>5, <2>1
    <2>5. ~TableFull' => ~TableFull /\ t1 = t + diff  BY <1>1, <1>3, <1>5, <2>1, <2>3
    <2>6. currentsegment <= currentsegment'  BY <1>1, <1>5
    <2> QED  BY <1>2, <2>2, <2>4, <2>5, <2>6 DEF Grown, b, t, b1, t1
  <1>6. \/ currentsegment' = currentsegment /\ segmentsize' = segmentsize + diff
        \/ /\ currentsegment' = currentsegment + 1 /\ segmentsize' = diff
           /\ IOsegment'[currentsegment] = segmentsize
        \/ currentsegment' = currentsegment /\ segmentsize' = segmentsize /\ TableFull
    OBVIOUS
  <1> QED  BY <1>1, <1>4, <1>5, <1>6

\* A step that leaves the segments alone.
LEMMA NotGrown ==
  ASSUME SegTyped, UNCHANGED segs
  PROVE  Grown(0) /\ SegTyped'
  <1> DEFINE z == 0
  <1>1. IOsegment' = IOsegment /\ currentsegment' = currentsegment /\ segmentsize' = segmentsize
        /\ z \in Nat /\ segmentsize + z = segmentsize
    BY DEF segs, SegTyped
  <1>2. SegTyped' /\ (Short => Short')  BY <1>1 DEF SegTyped, Short
  <1> HIDE DEF z
  <1>3. Grown(z)  BY <1>1, <1>2, GrownBy
  <1> QED  BY <1>2, <1>3 DEF z

LEMMA SegTypedIs ==
  (MapTyped => SegTyped) /\ (MapTyped' => SegTyped')
  BY DEF MapTyped, SegTyped, Table

\* The segments written stay short enough.
LEMMA ShortStep ==
  ASSUME SegTyped, SegTyped', Short, segmentsize' <= LIMIT,
         \A k \in 0 .. MAXIOSEGMENTS - 1 :
             IOsegment'[k] = IOsegment[k] \/ IOsegment'[k] = segmentsize \/ IOsegment'[k] = segmentsize'
  PROVE  Short'
  BY DEF Short

\* What Grow does to where the segments begin and end.
LEMMA GrowGrown ==
  ASSUME SegTyped, SegTyped', NEW diff \in Nat, Grow(diff)
  PROVE  Grown(diff)
  <1>0. MAXIOSEGMENTS \in Nat /\ LIMIT \in Nat  BY Parameters
  <1>1. /\ currentsegment \in Nat /\ currentsegment \in 0 .. MAXIOSEGMENTS - 1 /\ segmentsize \in Nat
        /\ DOMAIN IOsegment = 0 .. MAXIOSEGMENTS - 1
    BY SegNumbers DEF SegTyped, Table
  <1>2. CASE segmentsize + diff > LIMIT
    <2>1. IOsegment' = [IOsegment EXCEPT ![currentsegment] = segmentsize]  BY <1>2 DEF Grow
    <2>2. \A k \in 0 .. MAXIOSEGMENTS - 1 :
             IOsegment'[k] = IF k = currentsegment THEN segmentsize ELSE IOsegment[k]
      BY <1>1, <2>1
    <2>3. \A k \in 0 .. currentsegment - 1 : IOsegment'[k] = IOsegment[k]
      <3> TAKE k \in 0 .. currentsegment - 1
      <3>1. k \in 0 .. MAXIOSEGMENTS - 1 /\ k # currentsegment  BY <1>0, <1>1
      <3> QED  BY <2>2, <3>1
    <2>4. CASE currentsegment < MAXIOSEGMENTS - 1
      <3>1. currentsegment' = currentsegment + 1 /\ segmentsize' = diff  BY <1>2, <2>4 DEF Grow
      <3>2. Short /\ diff <= LIMIT => Short'  BY <2>2, <3>1, ShortStep
      <3>3. IOsegment'[currentsegment] = segmentsize  BY <1>1, <2>2
      <3> QED  BY <2>3, <3>1, <3>2, <3>3, GrownBy
    <2>5. CASE ~(currentsegment < MAXIOSEGMENTS - 1)
      <3>1. currentsegment' = currentsegment /\ segmentsize' = segmentsize  BY <1>2, <2>5 DEF Grow
      <3>2. Short => segmentsize <= LIMIT  BY DEF Short
      <3>3. Short /\ diff <= LIMIT => Short'  BY <2>2, <3>1, <3>2, ShortStep
      <3>4. TableFull  BY <1>0, <1>1, <2>5 DEF TableFull
      <3> QED  BY <2>3, <3>1, <3>3, <3>4, GrownBy
    <2> QED  BY <2>4, <2>5
  <1>3. CASE ~(segmentsize + diff > LIMIT)
    <2>1. segmentsize' = segmentsize + diff /\ IOsegment' = IOsegment
          /\ currentsegment' = currentsegment
      BY <1>3 DEF Grow
    <2>2. segmentsize' <= LIMIT  BY <1>0, <1>1, <1>3, <2>1
    <2>3. Short /\ diff <= LIMIT => Short'  BY <2>1, <2>2, ShortStep
    <2> QED  BY <2>1, <2>3, GrownBy
  <1> QED  BY <1>2, <1>3

\* The last segment is written down.
Written == IOsegment'[currentsegment'] = segmentsize'

\* The end of the inputs, seen the same way.
LEMMA EndInputsGrown ==
  ASSUME MapTyped, Loop, EndInputs, MapTyped'
  PROVE  Written /\ Grown(IF BitPos > 0 THEN 1 ELSE 0)
  <1>0. MAXIOSEGMENTS \in Nat /\ LIMIT \in Nat /\ LIMIT > 0  BY Parameters
  <1>1. SegTyped /\ SegTyped'  BY SegTypedIs
  <1>2. /\ currentsegment \in Nat /\ currentsegment \in 0 .. MAXIOSEGMENTS - 1 /\ segmentsize \in Nat
        /\ currentsegment' \in 0 .. MAXIOSEGMENTS - 1
        /\ DOMAIN IOsegment = 0 .. MAXIOSEGMENTS - 1
    BY <1>1, SegNumbers DEF SegTyped, Table
  <1>3. PICK opens \in BOOLEAN, size \in Nat :
              /\ Finished(opens, size)
              /\ LET full == BitPos > 0 /\ segmentsize + 1 > LIMIT
                 IN  /\ opens <=> full /\ currentsegment < MAXIOSEGMENTS - 1
                     /\ size = IF opens THEN 1 ELSE IF BitPos > 0 /\ ~full THEN segmentsize + 1
                               ELSE segmentsize
    BY EndInputsEffect
  <1>4. /\ currentsegment' = (IF opens THEN currentsegment + 1 ELSE currentsegment)
        /\ segmentsize' = size
        /\ \A k \in 0 .. MAXIOSEGMENTS - 1 :
             IOsegment'[k] = IF k = currentsegment' THEN size
                             ELSE IF k = currentsegment THEN segmentsize ELSE IOsegment[k]
    BY <1>2, <1>3 DEF Finished
  <1>5. Written  BY <1>2, <1>4 DEF Written
  <1>6. \A k \in 0 .. currentsegment - 1 : IOsegment'[k] = IOsegment[k]
    <2> TAKE k \in 0 .. currentsegment - 1
    <2>1. k \in 0 .. MAXIOSEGMENTS - 1 /\ k # currentsegment /\ k # currentsegment'
      BY <1>0, <1>2, <1>4
    <2> QED  BY <1>4, <2>1
  <1>7. Short /\ size <= LIMIT => Short'
    BY <1>1, <1>4, ShortStep
  <1> DEFINE diff == IF BitPos > 0 THEN 1 ELSE 0
  <1>8. BitPos \in Nat  BY DEF MapTyped
  <1>9. CASE opens
    <2>1. BitPos > 0 /\ size = 1 /\ diff = 1  BY <1>3, <1>9
    <2>2. currentsegment' = currentsegment + 1 /\ segmentsize' = diff /\ diff \in Nat
      BY <1>4, <1>9, <2>1
    <2>3. IOsegment'[currentsegment] = segmentsize
      BY <1>2, <1>4, <2>2
    <2>4. Short /\ diff <= LIMIT => Short'  BY <1>7, <2>1
    <2> HIDE DEF diff
    <2>5. Grown(diff)  BY <1>1, <1>6, <2>2, <2>3, <2>4, GrownBy
    <2> QED  BY <1>5, <2>5 DEF diff
  <1>10. CASE ~opens
    <2>1. currentsegment' = currentsegment  BY <1>4, <1>10
    <2>2. CASE BitPos > 0 /\ segmentsize + 1 > LIMIT
      <3>1. size = segmentsize /\ TableFull /\ diff \in Nat
        BY <1>0, <1>2, <1>3, <1>10, <2>2 DEF TableFull
      <3>2. Short => segmentsize <= LIMIT  BY DEF Short
      <3>3. Short /\ diff <= LIMIT => Short'  BY <1>7, <3>1, <3>2
      <3> HIDE DEF diff
      <3>4. Grown(diff)  BY <1>1, <1>4, <1>6, <2>1, <3>1, <3>3, GrownBy
      <3> QED  BY <1>5, <3>4 DEF diff
    <2>3. CASE ~(BitPos > 0 /\ segmentsize + 1 > LIMIT)
      <3>1. size = segmentsize + diff /\ diff \in Nat
        BY <1>2, <1>3, <1>10, <2>3
      <3>2. Short => segmentsize <= LIMIT  BY DEF Short
      <3>3. Short => size <= LIMIT
        BY <1>0, <1>2, <2>3, <3>1, <3>2
      <3>4. Short /\ diff <= LIMIT => Short'  BY <1>7, <3>3
      <3> HIDE DEF diff
      <3>5. Grown(diff)  BY <1>1, <1>4, <1>6, <2>1, <3>1, <3>4, GrownBy
      <3> QED  BY <1>5, <3>5 DEF diff
    <2> QED  BY <2>2, <2>3
  <1> QED  BY <1>9, <1>10

\* The end of the overlapping layout, seen the same way.
LEMMA EndOverlapMapGrown ==
  ASSUME MapTyped, Loop, EndOverlapMap, MapTyped'
  PROVE  Written /\ Grown(0)
  <1>0. MAXIOSEGMENTS \in Nat  BY Parameters
  <1>1. SegTyped /\ SegTyped'  BY SegTypedIs
  <1>2. /\ currentsegment \in Nat /\ currentsegment \in 0 .. MAXIOSEGMENTS - 1 /\ segmentsize \in Nat
        /\ DOMAIN IOsegment = 0 .. MAXIOSEGMENTS - 1
    BY <1>1, SegNumbers DEF SegTyped, Table
  <1>3. IOsegment' = [IOsegment EXCEPT ![currentsegment] = segmentsize]
        /\ currentsegment' = currentsegment /\ segmentsize' = segmentsize
    BY EndOverlapMapEffect
  <1>4. \A k \in 0 .. MAXIOSEGMENTS - 1 :
             IOsegment'[k] = IF k = currentsegment THEN segmentsize ELSE IOsegment[k]
    BY <1>2, <1>3
  <1>5. Written  BY <1>2, <1>3, <1>4 DEF Written
  <1>6. \A k \in 0 .. currentsegment - 1 : IOsegment'[k] = IOsegment[k]
    <2> TAKE k \in 0 .. currentsegment - 1
    <2>1. k \in 0 .. MAXIOSEGMENTS - 1 /\ k # currentsegment
      BY <1>0, <1>2
    <2> QED  BY <1>4, <2>1
  <1>7. Short => Short'
    <2>1. Short => segmentsize' <= LIMIT  BY <1>3 DEF Short
    <2> QED  BY <1>1, <1>3, <1>4, <2>1, ShortStep
  <1> DEFINE z == 0
  <1>8. z \in Nat /\ segmentsize' = segmentsize + z  BY <1>2, <1>3
  <1> HIDE DEF z
  <1>9. Grown(z)  BY <1>1, <1>3, <1>6, <1>7, <1>8, GrownBy
  <1> QED  BY <1>5, <1>9 DEF z

\* Every step appends to the segments what it adds to the image; the last one
\* writes down the last segment.
LEMMA StepGrown ==
  ASSUME MapTyped, Loop, Placed, MapNext, MapTyped'
  PROVE  /\ oLogAddr \in Nat /\ oLogAddr' \in Nat /\ oLogAddr' - oLogAddr \in Nat
         /\ Grown(oLogAddr' - oLogAddr)
         /\ phase # "mapped"
         /\ phase' = "mapped" => Written /\ LogAddr' = oLogAddr'
  <1>1. oLogAddr \in Nat /\ oLogAddr' \in Nat /\ LogAddr \in Nat /\ LogAddr' \in Nat
        /\ BitPos \in Nat /\ oLogAddr <= LogAddr
    BY DEF MapTyped
  <1>2. SegTyped /\ SegTyped'  BY SegTypedIs
  <1>3. ASSUME oLogAddr' = oLogAddr, UNCHANGED segs
        PROVE  oLogAddr' - oLogAddr \in Nat /\ Grown(oLogAddr' - oLogAddr)
    <2>1. oLogAddr' - oLogAddr = 0  BY <1>1, <1>3
    <2> QED  BY <1>2, <1>3, <2>1, NotGrown
  <1>4. ASSUME NEW n, Adds(n)
        PROVE  /\ oLogAddr' - oLogAddr \in Nat /\ Grown(oLogAddr' - oLogAddr)
               /\ phase \in Dirs /\ phase' = phase
    BY <1>3, <1>4 DEF Adds, MapsFmmu, Dirs
  <1>5. ASSUME EndSlave
        PROVE  /\ oLogAddr' - oLogAddr \in Nat /\ Grown(oLogAddr' - oLogAddr)
               /\ phase \in Dirs /\ phase' = phase
    <2>1. phase \in Dirs /\ phase' = phase  BY <1>5 DEF EndSlave, SlaveMapped, Dirs
    <2>2. CASE Pdos.bits > 0
      <3> DEFINE diff == LogAddr - oLogAddr
      <3>1. Grow(diff) /\ oLogAddr' = LogAddr  BY <1>5, <2>2 DEF EndSlave
      <3>2. diff \in Nat  BY <1>1, Difference
      <3>3. oLogAddr' - oLogAddr = diff  BY <3>1
      <3> HIDE DEF diff
      <3> QED  BY <1>2, <2>1, <3>1, <3>2, <3>3, GrowGrown
    <2>3. CASE ~(Pdos.bits > 0)
      BY <1>3, <1>5, <2>1, <2>3 DEF EndSlave
    <2> QED  BY <2>2, <2>3
  <1>6. ASSUME EndOverlapOutputs
        PROVE  /\ oLogAddr' - oLogAddr \in Nat /\ Grown(oLogAddr' - oLogAddr)
               /\ phase \in Dirs /\ phase' = "I"
    BY <1>3, <1>6 DEF EndOverlapOutputs, EndOverlap, Dirs
  <1>7. ASSUME EndOverlapInputs
        PROVE  /\ oLogAddr' - oLogAddr \in Nat /\ Grown(oLogAddr' - oLogAddr)
               /\ phase \in Dirs /\ phase' = "O"
    <2>1. /\ phase = "I" /\ phase' = "O" /\ oLogAddr' - oLogAddr \in Nat /\ Grow(oLogAddr' - oLogAddr)
      BY <1>7, EndOverlapInputsEffect
    <2> QED  BY <1>2, <2>1, GrowGrown DEF Dirs
  <1>8. ASSUME Turns
        PROVE  slave > Len(slaves) /\ LogAddr = oLogAddr
    BY <1>8, TurnsEffect DEF Placed, PlacedOwn
  <1>9. ASSUME EndOutputs
        PROVE  /\ oLogAddr' - oLogAddr \in Nat /\ Grown(oLogAddr' - oLogAddr)
               /\ phase \in Dirs /\ phase' = "I"
    <2>1. phase = "O" /\ phase' = "I" /\ LogAddr = oLogAddr
      BY <1>8, <1>9 DEF EndOutputs, Turns
    <2>2. CASE BitPos > 0
      <3> DEFINE z == 1
      <3>1. z \in Nat /\ Grow(z) /\ oLogAddr' - oLogAddr = z
        BY <1>1, <1>9, <2>1, <2>2 DEF EndOutputs, CloseByte
      <3> HIDE DEF z
      <3> QED  BY <1>2, <2>1, <3>1, GrowGrown DEF Dirs
    <2>3. CASE ~(BitPos > 0)
      BY <1>3, <1>9, <2>1, <2>3 DEF EndOutputs, CloseByte, cursor, Dirs
    <2> QED  BY <2>2, <2>3
  <1>10. ASSUME EndInputs
         PROVE  /\ oLogAddr' - oLogAddr \in Nat /\ Grown(oLogAddr' - oLogAddr)
                /\ phase \in Dirs /\ Written /\ LogAddr' = oLogAddr'
    <2>1. /\ phase = "I" /\ LogAddr = oLogAddr
          /\ LogAddr' = (IF BitPos > 0 THEN LogAddr + 1 ELSE LogAddr)
          /\ oLogAddr' = (IF BitPos > 0 THEN LogAddr' ELSE oLogAddr)
      BY <1>8, <1>10, EndInputsEffect DEF Turns
    <2>2. Written /\ Grown(IF BitPos > 0 THEN 1 ELSE 0)  BY <1>10, EndInputsGrown
    <2>3. oLogAddr' - oLogAddr = (IF BitPos > 0 THEN 1 ELSE 0) /\ LogAddr' = oLogAddr'
      BY <1>1, <2>1
    <2>4. (IF BitPos > 0 THEN 1 ELSE 0) \in Nat  OBVIOUS
    <2> QED  BY <2>1, <2>2, <2>3, <2>4 DEF Dirs
  <1>11. ASSUME EndOverlapMap
         PROVE  /\ oLogAddr' - oLogAddr \in Nat /\ Grown(oLogAddr' - oLogAddr)
                /\ phase \in Dirs /\ Written /\ LogAddr' = oLogAddr'
    <2>1. /\ phase = "O" /\ LogAddr = oLogAddr /\ LogAddr' = LogAddr /\ oLogAddr' = oLogAddr
      BY <1>8, <1>11, EndOverlapMapEffect DEF Turns, cursor
    <2>2. Written /\ Grown(0)  BY <1>11, EndOverlapMapGrown
    <2>3. oLogAddr' - oLogAddr = 0  BY <1>1, <2>1
    <2> QED  BY <2>1, <2>2, <2>3 DEF Dirs
  <1>12. ASSUME MapEmpty
         PROVE  /\ oLogAddr' - oLogAddr \in Nat /\ Grown(oLogAddr' - oLogAddr)
                /\ phase \in Dirs /\ phase' = phase
    BY <1>3, <1>12, EmptyEffect
  <1> QED
    BY <1>1, <1>4, <1>5, <1>6, <1>7, <1>9, <1>10, <1>11, <1>12, StepKinds DEF Closes, Turns, Dirs

\* The segments end where the image ends, as far as it is laid out; while the
\* table is full they may end before.  The inputs begin at a place in one of
\* them.
Mark == StartOf(IOsegment, grp.Isegment) + grp.Ioffset

Segmented ==
    /\ Total <= oLogAddr /\ (~TableFull => Total = oLogAddr)
    /\ Mapped => /\ IOsegment[currentsegment] = segmentsize
                 /\ grp.nsegments = currentsegment + 1
                 /\ LogAddr = oLogAddr /\ LogicalSize = LogAddr
    /\ ~overlap /\ phase # "O" =>
         /\ grp.Isegment <= currentsegment /\ grp.Ioffset <= Size(grp.Isegment)
         /\ Mark <= grp.Obytes /\ (~TableFull => Mark = grp.Obytes)
         /\ Total + grp.Obytes <= oLogAddr + Mark
         /\ grp.Obytes <= oLogAddr
    /\ overlap /\ Mapped => grp.Isegment = 0 /\ grp.Ioffset = 0

\* What stays of the record of the group.
Kept == /\ grp'.Obytes = grp.Obytes /\ grp'.Isegment = grp.Isegment /\ grp'.Ioffset = grp.Ioffset

\* The mapping of the inputs leaves the mark of the outputs alone.
LEMMA StepKept ==
  ASSUME MapTyped, Loop, MapNext, phase = "I", ~overlap
  PROVE  Kept /\ (phase' = "I" \/ EndInputs)
  <1>1. ASSUME NEW n, Adds(n) PROVE Kept /\ phase' = "I"
    <2>1. phase \in Dirs  BY DEF Dirs
    <2> QED  BY <1>1, <2>1, CountType DEF Adds, Kept
  <1>2. ASSUME EndSlave PROVE Kept /\ phase' = "I"
    BY <1>2, BlockType DEF EndSlave, Kept
  <1>3. ASSUME EndInputs PROVE Kept
    BY <1>3, EndInputsEffect DEF Kept
  <1>4. ASSUME MapEmpty PROVE Kept /\ phase' = "I"
    BY <1>4, EmptyEffect DEF Kept
  <1> QED
    BY <1>1, <1>2, <1>3, <1>4, StepKinds DEF Closes, Turns, EndOutputs, EndOverlapOutputs, EndOverlapInputs,
       EndOverlapMap, EndOverlap

\* The size of the image when it is mapped.
LEMMA MappedSize ==
  ASSUME MapTyped, Loop, Placed, Segmented, MapNext, Mapped', MapTyped'
  PROVE  LogicalSize' = LogAddr' /\ grp'.nsegments = currentsegment' + 1
         /\ (overlap' => grp'.Isegment = 0 /\ grp'.Ioffset = 0)
  <1>1. EndInputs \/ EndOverlapMap
    <2>1. ASSUME NEW n, Adds(n) PROVE FALSE
      BY <2>1 DEF Adds, MapsFmmu, Mapped
    <2>2. ~MapEmpty  BY EmptyEffect DEF Mapped, Dirs
    <2> QED
      BY <2>1, <2>2, StepKinds DEF Closes, Turns, EndSlave, SlaveMapped, EndOutputs, EndOverlapOutputs,
         EndOverlapInputs, Mapped
  <1>2. CASE EndInputs
    <2>1. /\ ~overlap /\ ~overlap' /\ grp'.Ibytes = LogAddr' - grp.Obytes /\ grp'.Obytes = grp.Obytes
          /\ grp'.nsegments = currentsegment' + 1
      BY <1>2, EndInputsEffect
    <2>2. grp.Obytes \in Nat /\ LogAddr' \in Nat  BY DEF MapTyped, Group
    <2>3. LogicalSize' = grp'.Obytes + grp'.Ibytes  BY <2>1 DEF LogicalSize
    <2> QED  BY <2>1, <2>2, <2>3
  <1>3. CASE EndOverlapMap
    <2>1. /\ overlap /\ overlap' /\ phase = "O" /\ slave > Len(slaves)
          /\ grp'.Isegment = 0 /\ grp'.Ioffset = 0
          /\ grp'.Obytes = ends.O /\ grp'.Ibytes = ends.I /\ grp'.nsegments = currentsegment + 1
          /\ currentsegment' = currentsegment /\ LogAddr' = LogAddr
      BY <1>3, EndOverlapMapEffect DEF cursor
    <2>2. FMMUdone = 0 /\ "O" \in Dirs  BY <1>3, TurnsEffect DEF Turns, Dirs
    <2>3. LogAddr = oLogAddr /\ oLogAddr = (IF ends.O >= ends.I THEN ends.O ELSE ends.I)
      BY <2>1, <2>2 DEF Placed, PlacedOwn, PlacedOver
    <2>4. ends.O \in Int /\ ends.I \in Int  BY DEF MapTyped
    <2>5. Max({ends.O, ends.I}) = IF ends.O >= ends.I THEN ends.O ELSE ends.I
      BY <2>4, MaxOfTwo
    <2>6. LogicalSize' = Max({ends.O, ends.I})  BY <2>1 DEF LogicalSize
    <2> QED  BY <2>1, <2>3, <2>5, <2>6
  <1> QED  BY <1>1, <1>2, <1>3

\* Isegment and Ioffset are where the outputs end.
LEMMA TurnedOutputs ==
  ASSUME MapTyped, Loop, Placed, EndOutputs
  PROVE  /\ grp'.Obytes = LogAddr' /\ LogAddr' = oLogAddr'
         /\ grp'.Isegment = currentsegment' /\ grp'.Ioffset = segmentsize'
  <1>1. /\ grp'.Obytes = LogAddr' /\ grp'.Isegment = currentsegment' /\ grp'.Ioffset = segmentsize'
    BY DEF EndOutputs, MapTyped, Group
  <1>2. LogAddr = oLogAddr  BY TurnsEffect DEF Turns, Placed, PlacedOwn
  <1>3. CASE BitPos > 0
    BY <1>1, <1>3 DEF EndOutputs, CloseByte
  <1>4. CASE ~(BitPos > 0)
    BY <1>1, <1>2, <1>4 DEF EndOutputs, CloseByte, cursor
  <1> QED  BY <1>3, <1>4

\* The segments make up what is mapped so far.
LEMMA SegmentedStep ==
  ASSUME MapTyped, Loop, Placed, Segmented, MapNext, MapTyped'
  PROVE  Segmented'
  <1> DEFINE diff == oLogAddr' - oLogAddr
             t == Total
             t1 == Total'
  <1>1. /\ oLogAddr \in Nat /\ oLogAddr' \in Nat /\ diff \in Nat
        /\ Grown(diff) /\ phase # "mapped"
        /\ Mapped' => Written /\ LogAddr' = oLogAddr'
    BY StepGrown DEF Mapped
  <1>2. SegTyped /\ SegTyped'  BY SegTypedIs
  <1>3. t \in Nat /\ t1 \in Nat /\ currentsegment \in Nat /\ currentsegment' \in Nat
        /\ segmentsize \in Nat /\ segmentsize' \in Nat
    <2>1. Total \in Nat /\ currentsegment \in Nat  BY <1>2, SegNumbers
    <2>2. Base' \in Nat
      <3>1. MAXIOSEGMENTS \in Nat  BY Parameters
      <3>2. Table(IOsegment') /\ currentsegment' \in 0 .. MAXIOSEGMENTS  BY <1>2, <3>1 DEF SegTyped
      <3> QED  BY <3>2, StartFacts DEF Base
    <2>3. Total' = Base' + segmentsize' /\ segmentsize' \in Nat /\ segmentsize \in Nat
      BY <1>2 DEF Total, SegTyped
    <2>4. Total' \in Nat
      <3> DEFINE b1 == Base'
             z1 == segmentsize'
      <3>1. b1 \in Nat /\ z1 \in Nat /\ Total' = b1 + z1  BY <2>2, <2>3
      <3> HIDE DEF b1, z1
      <3> QED  BY <3>1
    <2>5. currentsegment' \in Nat  BY <1>2, Parameters DEF SegTyped
    <2> QED  BY <2>1, <2>3, <2>4, <2>5
  <1>4. /\ currentsegment <= currentsegment' /\ t <= t1 /\ t1 <= t + diff
        /\ ~TableFull' => ~TableFull /\ t1 = t + diff
        /\ \A k \in 0 .. currentsegment :
             StartOf(IOsegment', k) = StartOf(IOsegment, k) /\ Size(k) <= Size(k)'
    BY <1>1 DEF Grown
  <1>5. /\ t <= oLogAddr /\ (~TableFull => t = oLogAddr)
    BY DEF Segmented
  <1>6. oLogAddr' = oLogAddr + diff /\ diff \in Nat
    <2> DEFINE a == oLogAddr
               b == oLogAddr'
    <2>1. a \in Nat /\ b \in Nat /\ diff = b - a  BY <1>1
    <2> HIDE DEF a, b, diff
    <2>2. b = a + diff  BY <2>1
    <2> QED  BY <1>1, <2>2 DEF a, b
  <1> HIDE DEF diff, t, t1
  <1>7. t1 <= oLogAddr' /\ (~TableFull' => t1 = oLogAddr')
    BY <1>1, <1>3, <1>4, <1>5, <1>6
  <1>8. Mapped' => /\ IOsegment'[currentsegment'] = segmentsize'
                   /\ grp'.nsegments = currentsegment' + 1
                   /\ LogAddr' = oLogAddr' /\ LogicalSize' = LogAddr'
                   /\ (overlap' => grp'.Isegment = 0 /\ grp'.Ioffset = 0)
    BY <1>1, MappedSize DEF Written
  <1> DEFINE m1 == StartOf(IOsegment', grp'.Isegment) + grp'.Ioffset
             k1 == grp'.Isegment
             z1 == IF k1 < currentsegment' THEN IOsegment'[k1] ELSE segmentsize'
  <1>9. ~overlap' /\ phase' # "O" =>
         /\ grp'.Isegment <= currentsegment' /\ grp'.Ioffset <= z1
         /\ m1 <= grp'.Obytes /\ (~TableFull' => m1 = grp'.Obytes)
         /\ t1 + grp'.Obytes <= oLogAddr' + m1
         /\ grp'.Obytes <= oLogAddr'
    <2> SUFFICES ASSUME ~overlap', phase' # "O"
                 PROVE  /\ grp'.Isegment <= currentsegment' /\ grp'.Ioffset <= z1
                        /\ m1 <= grp'.Obytes /\ (~TableFull' => m1 = grp'.Obytes)
                        /\ t1 + grp'.Obytes <= oLogAddr' + m1
                        /\ grp'.Obytes <= oLogAddr'
      OBVIOUS
    <2>1. overlap' = overlap
      <3>1. ASSUME NEW n, Adds(n) PROVE overlap' = overlap  BY <3>1 DEF Adds
      <3> QED  BY <3>1, StepKinds, ClosesEffect, TurnsEffect, EmptyEffect DEF Fixed
    <2>2. CASE phase = "O"
      <3>1. EndOutputs
        <4>1. ASSUME NEW n, Adds(n) PROVE FALSE  BY <2>2, <4>1 DEF Adds
        <4>2. ~MapEmpty  BY <2>2, EmptyEffect
        <4> QED
          BY <2>1, <2>2, <4>1, <4>2, StepKinds DEF Closes, Turns, EndSlave, EndOverlapOutputs,
             EndOverlapInputs, EndOverlap, EndInputs, EndOverlapMap
      <3>2. /\ grp'.Obytes = LogAddr' /\ LogAddr' = oLogAddr'
            /\ grp'.Isegment = currentsegment' /\ grp'.Ioffset = segmentsize'
        BY <3>1, TurnedOutputs
      <3>3. m1 = t1  BY <3>2 DEF Total, Base, t1
      <3>4. z1 = segmentsize'
        <4> DEFINE c == currentsegment'
        <4>1. c \in Nat /\ k1 = c  BY <1>3, <3>2
        <4> HIDE DEF c
        <4>2. ~(c < c)  BY <4>1
        <4> QED  BY <4>1, <4>2 DEF c
      <3>5. m1 <= grp'.Obytes /\ (~TableFull' => m1 = grp'.Obytes)  BY <1>7, <3>2, <3>3
      <3>6. currentsegment' <= currentsegment' /\ segmentsize' <= segmentsize'
            /\ oLogAddr' <= oLogAddr'
        <4> DEFINE c == currentsegment'
                   z == segmentsize'
                   o == oLogAddr'
        <4>1. c \in Nat /\ z \in Nat /\ o \in Nat  BY <1>1, <1>3
        <4> HIDE DEF c, z, o
        <4>2. c <= c /\ z <= z /\ o <= o  BY <4>1
        <4> QED  BY <4>2 DEF c, z, o
      <3>7. t1 + grp'.Obytes <= oLogAddr' + m1
        <4> DEFINE o == oLogAddr'
        <4>1. t1 \in Nat /\ o \in Nat /\ m1 = t1 /\ grp'.Obytes = o  BY <1>1, <1>3, <3>2, <3>3
        <4> HIDE DEF o, m1
        <4>2. t1 + o <= o + t1  BY <4>1
        <4> QED  BY <4>1, <4>2 DEF o
      <3> HIDE DEF m1, z1
      <3>8. grp'.Isegment <= currentsegment' /\ grp'.Ioffset <= z1 /\ grp'.Obytes <= oLogAddr'
        BY <3>2, <3>4, <3>6
      <3> QED  BY <3>5, <3>7, <3>8
    <2>3. CASE phase # "O"
      <3> DEFINE m == Mark
                 k == grp.Isegment
      <3>1. phase = "I" /\ ~overlap  BY <1>1, <2>1, <2>3 DEF MapTyped, Dirs
      <3>2. grp'.Obytes = grp.Obytes /\ grp'.Isegment = k /\ grp'.Ioffset = grp.Ioffset
        BY <3>1, StepKept DEF Kept
      <3>3. /\ k <= currentsegment /\ grp.Ioffset <= Size(k)
            /\ m <= grp.Obytes /\ (~TableFull => m = grp.Obytes)
            /\ t + grp.Obytes <= oLogAddr + m /\ grp.Obytes <= oLogAddr
        BY <3>1 DEF Segmented, t
      <3>4. k \in Nat /\ grp.Ioffset \in Nat /\ grp.Obytes \in Nat  BY DEF MapTyped, Group
      <3>5. k \in 0 .. currentsegment  BY <1>3, <3>3, <3>4
      <3>6. StartOf(IOsegment', k) = StartOf(IOsegment, k) /\ Size(k) <= z1
        <4>1. z1 = IF k < currentsegment' THEN IOsegment'[k] ELSE segmentsize'  BY <3>2
        <4> QED  BY <1>4, <3>5, <4>1 DEF Size
      <3>7. m1 = m  BY <3>2, <3>6 DEF Mark
      <3>8. Size(k) \in Nat /\ StartOf(IOsegment, k) \in Nat  BY <1>2, <3>5, SegNumbers
      <3>9. z1 \in Nat
        <4>1. k \in 0 .. MAXIOSEGMENTS - 1  BY <1>2, <3>5, SegNumbers
        <4> QED  BY <1>2, <3>2, <4>1 DEF SegTyped, Table
      <3>10. m \in Nat  BY <3>4, <3>8 DEF Mark
      <3> HIDE DEF m, m1, k, z1
      <3>12. grp'.Isegment <= currentsegment' /\ grp'.Ioffset <= z1
        <4> DEFINE z == Size(k)
        <4>1. z \in Nat /\ z1 \in Nat /\ z <= z1 /\ grp.Ioffset <= z  BY <3>3, <3>6, <3>8, <3>9
        <4> HIDE DEF z
        <4>2. grp.Ioffset <= z1  BY <3>4, <4>1
        <4>3. k \in Nat /\ k <= currentsegment'  BY <1>3, <1>4, <3>3, <3>4 DEF k
        <4> QED  BY <3>2, <4>2, <4>3
      <3>13. m1 <= grp'.Obytes /\ (~TableFull' => m1 = grp'.Obytes)
        BY <1>4, <3>2, <3>3, <3>7
      <3>14. t1 + grp'.Obytes <= oLogAddr' + m1 /\ grp'.Obytes <= oLogAddr'
        BY <1>1, <1>3, <1>4, <1>6, <3>2, <3>3, <3>4, <3>7, <3>10
      <3> QED  BY <3>12, <3>13, <3>14
    <2> QED  BY <2>2, <2>3
  <1>10. Mark' = m1 /\ Size(grp.Isegment)' = z1  BY DEF Mark, Size
  <1> HIDE DEF m1, z1, k1
  <1> QED  BY <1>7, <1>8, <1>9, <1>10 DEF Segmented, t1

\* How far the slave at hand has come: what it has mapped, and the byte that
\* the one before may have begun.
Room(d) == IF FMMUdone = 0 THEN 0 ELSE IF Bytes(d) > 0 THEN 8 * FMMUdone ELSE d.bits
Open == IF overlap THEN 0 ELSE 8

Extent ==
    phase \in Dirs /\ slave <= Len(slaves) =>
        /\ Cursor <= 8 * oLogAddr + Open + Room(Pdos)
        /\ overlap /\ phase = "I" =>
             ends.O <= oLogAddr + 1 \/ ends.O <= oLogAddr + Bytes(slaves[slave].O)

Small == \A s \in DOMAIN slaves, dir \in Dirs : Bytes(slaves[s][dir]) < LIMIT

LEMMA BytesNat ==
  ASSUME MapTyped, NEW s \in DOMAIN slaves, NEW dir \in Dirs
  PROVE  Bytes(slaves[s][dir]) \in Nat
  <1>1. slaves[s][dir].bits \in Nat  BY DEF MapTyped, Network, Pdo, Dirs
  <1> QED  BY <1>1, Numbers8

\* The numbers of the slave and direction at hand.
LEMMA PdosNumbers ==
  ASSUME MapTyped, Loop, phase \in Dirs, slave <= Len(slaves)
  PROVE  /\ slave \in DOMAIN slaves /\ Pdos.bits \in Nat /\ Bytes(Pdos) \in Nat
         /\ Bytes(Pdos) = 0 => Pdos.bits <= 7
         /\ FMMUdone \in Nat /\ (Bytes(Pdos) > 0 => FMMUdone <= Bytes(Pdos))
         /\ Room(Pdos) \in Nat
         /\ IF Bytes(Pdos) > 0 THEN Room(Pdos) <= 8 * Bytes(Pdos) ELSE Room(Pdos) <= 7
         /\ Bytes(Pdos) > 0 /\ FMMUdone > 0 => BitPos = 0
         /\ oLogAddr \in Nat /\ LogAddr \in Nat /\ BitPos \in 0 .. 7
  <1> DEFINE d == Pdos
  <1>1. slave \in DOMAIN slaves /\ d.bits \in Nat
    BY PdosPdo DEF MapTyped, Network
  <1>2. Bytes(d) \in Nat /\ (Bytes(d) = 0 => d.bits <= 7)
    <2> HIDE DEF d
    <2> QED  BY <1>1, Numbers8
  <1>3. FMMUdone \in Nat /\ (Bytes(d) > 0 => FMMUdone <= Bytes(d))
        /\ (Bytes(d) > 0 /\ FMMUdone > 0 => BitPos = 0)
    BY DEF Loop
  <1>4. Room(d) \in Nat /\ IF Bytes(d) > 0 THEN Room(d) <= 8 * Bytes(d) ELSE Room(d) <= 7
    <2> HIDE DEF d
    <2> QED  BY <1>1, <1>2, <1>3 DEF Room
  <1> QED  BY <1>1, <1>2, <1>3, <1>4 DEF MapTyped

\* What is laid out in one go fits into a segment as long as no slave alone
\* has more than that.
LEMMA StepShort ==
  ASSUME MapTyped, Loop, Placed, Extent, MapNext, MapTyped', Small
  PROVE  oLogAddr' - oLogAddr <= LIMIT
  <1>1. LIMIT \in Nat /\ LIMIT > 0  BY Parameters
  <1>2. ASSUME oLogAddr' = oLogAddr PROVE oLogAddr' - oLogAddr <= LIMIT
    <2>1. oLogAddr - oLogAddr = 0  BY DEF MapTyped
    <2> QED  BY <1>1, <1>2, <2>1
  <1>3. ASSUME oLogAddr' = oLogAddr + 1 PROVE oLogAddr' - oLogAddr <= LIMIT
    <2>1. (oLogAddr + 1) - oLogAddr = 1  BY DEF MapTyped
    <2> QED  BY <1>1, <1>3, <2>1
  <1>4. ASSUME NEW n, Adds(n) PROVE oLogAddr' = oLogAddr  BY <1>4 DEF Adds
  <1>5. ASSUME EndSlave PROVE oLogAddr' - oLogAddr <= LIMIT
    <2>1. oLogAddr' = oLogAddr \/ oLogAddr' = LogAddr  BY <1>5 DEF EndSlave
    <2>2. ~overlap /\ phase \in Dirs /\ slave <= Len(slaves)
      BY <1>5 DEF EndSlave, SlaveMapped, Dirs
    <2> DEFINE b == Bytes(Pdos)
               r == Room(Pdos)
    <2>3. b < LIMIT
      <3>1. slave \in DOMAIN slaves  BY <2>2, PdosNumbers
      <3> QED  BY <2>2, <3>1 DEF Small, Pdos
    <2>4. 8 * LogAddr + BitPos <= 8 * oLogAddr + 8 + r
      BY <2>2 DEF Extent, Open, Cursor
    <2>5. /\ b \in Nat /\ r \in Nat /\ (IF b > 0 THEN r <= 8 * b ELSE r <= 7)
          /\ oLogAddr \in Nat /\ LogAddr \in Nat /\ BitPos \in Nat
      BY <2>2, PdosNumbers
    <2> HIDE DEF b, r
    <2>6. LogAddr - oLogAddr <= LIMIT
      BY <1>1, <2>3, <2>4, <2>5
    <2> QED  BY <1>2, <2>1, <2>6
  <1>6. ASSUME EndOverlapOutputs PROVE oLogAddr' = oLogAddr  BY <1>6 DEF EndOverlapOutputs
  <1>7. ASSUME EndOverlapInputs PROVE oLogAddr' - oLogAddr <= LIMIT
    <2>1. /\ overlap /\ phase = "I" /\ slave \in 1 .. Len(slaves)
          /\ ends'.I = (IF BitPos > 0 THEN LogAddr + 1 ELSE LogAddr) /\ ends'.O = ends.O
          /\ oLogAddr' = (IF ends'.O >= ends'.I THEN ends'.O ELSE ends'.I)
      BY <1>7, EndOverlapInputsEffect
    <2>2. phase \in Dirs /\ slave <= Len(slaves) /\ slave \in DOMAIN slaves
      BY <2>1 DEF MapTyped, Network, Dirs
    <2> DEFINE b == Bytes(Pdos)
               r == Room(Pdos)
               c == Bytes(slaves[slave].O)
               e == ends.O
               i == IF BitPos > 0 THEN LogAddr + 1 ELSE LogAddr
    <2>3. b < LIMIT /\ c < LIMIT
      BY <2>2 DEF Small, Pdos, Dirs
    <2>4. 8 * LogAddr + BitPos <= 8 * oLogAddr + 0 + r /\ (e <= oLogAddr + 1 \/ e <= oLogAddr + c)
      BY <2>1, <2>2 DEF Extent, Open, Cursor
    <2>5. /\ b \in Nat /\ r \in Nat /\ (IF b > 0 THEN r <= 8 * b ELSE r <= 7)
          /\ oLogAddr \in Nat /\ LogAddr \in Nat /\ BitPos \in 0 .. 7
      BY <2>2, PdosNumbers
    <2>6. c \in Nat /\ e \in Nat  BY <2>2, BytesNat DEF Dirs, MapTyped
    <2>7. oLogAddr' = IF e >= i THEN e ELSE i  BY <2>1
    <2> HIDE DEF b, r, c, e
    <2>8. i \in Nat /\ i - oLogAddr <= LIMIT  BY <1>1, <2>3, <2>4, <2>5
    <2>9. e - oLogAddr <= LIMIT  BY <1>1, <2>3, <2>4, <2>5, <2>6
    <2> HIDE DEF i
    <2> QED  BY <2>7, <2>8, <2>9
  <1>8. ASSUME Turns PROVE oLogAddr' = oLogAddr \/ oLogAddr' = oLogAddr + 1
    <2>1. LogAddr = oLogAddr  BY <1>8, TurnsEffect DEF Placed, PlacedOwn
    <2>2. CASE EndOutputs
      BY <2>1, <2>2 DEF EndOutputs, CloseByte, cursor
    <2>3. CASE EndInputs
      BY <2>1, <2>3, EndInputsEffect
    <2>4. CASE EndOverlapMap
      BY <2>4, EndOverlapMapEffect DEF cursor
    <2> QED  BY <1>8, <2>2, <2>3, <2>4 DEF Turns
  <1>9. ASSUME MapEmpty PROVE oLogAddr' = oLogAddr  BY <1>9, EmptyEffect
  <1> QED  BY <1>2, <1>3, <1>4, <1>5, <1>6, <1>7, <1>8, <1>9, StepKinds DEF Closes

Fits == Small => Short

\* No segment grows beyond what a frame takes.
LEMMA FitsStep ==
  ASSUME MapTyped, Loop, Placed, Extent, Fits, MapNext, MapTyped'
  PROVE  Fits'
  <1>1. slaves' = slaves
    <2>1. ASSUME NEW n, Adds(n) PROVE slaves' = slaves  BY <2>1 DEF Adds
    <2> QED  BY <2>1, StepKinds, EmptyEffect, ClosesEffect, TurnsEffect DEF Fixed
  <1>2. Small' => Small  BY <1>1 DEF Small
  <1> SUFFICES ASSUME Small PROVE Short'
    BY <1>2 DEF Fits
  <1>3. Grown(oLogAddr' - oLogAddr)  BY StepGrown
  <1>4. oLogAddr' - oLogAddr <= LIMIT  BY StepShort
  <1> QED  BY <1>3, <1>4 DEF Grown, Fits

\* An FMMU extends what is mapped by no more than its slave has.
LEMMA AddsExtent ==
  ASSUME MapTyped, Loop, Placed, Extent, MapTyped', NEW n, Adds(n)
  PROVE  Extent'
  <1>1. /\ slave <= Len(slaves) /\ phase \in Dirs /\ FMMUdone < NeedBytes(Pdos)
        /\ UNCHANGED <<slaves, overlap, phase, slave, oLogAddr, ends>>
    BY DEF Adds, MapsFmmu, Dirs
  <1>2. Pdos' = Pdos /\ Open' = Open  BY <1>1 DEF Pdos, Open
  <1> DEFINE d == Pdos
             s == n.size
             f == FMMUdone
             f1 == FMMUdone'
             r == Room(Pdos)
             r1 == IF f1 = 0 THEN 0 ELSE IF Bytes(d) > 0 THEN 8 * f1 ELSE d.bits
             c == Cursor
             c1 == Cursor'
             o == Open
  <1>3. Room(Pdos)' = r1  BY <1>2 DEF Room, Bytes, NeedBytes
  <1>4. /\ d.bits \in Nat /\ Bytes(d) \in Nat
        /\ f \in Nat /\ (Bytes(d) > 0 /\ f > 0 => BitPos = 0)
        /\ oLogAddr \in Nat /\ LogAddr \in Nat /\ BitPos \in 0 .. 7
        /\ (Bytes(d) > 0 /\ SMc > 1 => BitPos = 0)
    BY <1>1, PdosNumbers DEF Loop
  <1>5. /\ s \in Nat /\ s > 0 /\ n.start \in Nat /\ FMMUdone' = FMMUdone + s
    BY DEF Adds, Fmmu
  <1>6. c <= 8 * oLogAddr + o + r /\ c = 8 * LogAddr + BitPos
    BY <1>1 DEF Extent, Cursor
  <1>7. o = IF overlap THEN 0 ELSE 8  BY DEF Open
  <1>8. f = 0 => /\ LogAddr = oLogAddr \/ (LogAddr = oLogAddr + 1 /\ SMc > 1 /\ ~overlap)
                 /\ overlap => BitPos = 0
    BY <1>1 DEF Placed, PlacedOwn
  <1>9. f1 > 0 /\ f1 = f + s /\ f1 \in Nat  BY <1>4, <1>5
  <1>10. c1 = LastBit(n) + 1 /\ c1 \in Nat
    <2>1. Cursor' \in Nat
      <3>1. LogAddr' \in Nat /\ BitPos' \in 0 .. 7  BY DEF MapTyped
      <3> DEFINE x == LogAddr'
                 y == BitPos'
      <3>2. x \in Nat /\ y \in Nat /\ Cursor' = 8 * x + y  BY <3>1 DEF Cursor
      <3> HIDE DEF x, y
      <3> QED  BY <3>2
    <2> QED  BY <2>1 DEF Adds
  <1>11. c1 <= 8 * oLogAddr + o + r1
    <2>1. CASE Bytes(d) = 0
      <3>1. f = 0
        <4>1. f > 0 => f >= NeedBytes(d)  BY <1>1, <2>1 DEF Loop
        <4>2. NeedBytes(d) \in Nat
          <5> HIDE DEF d
          <5> QED  BY <1>4, Numbers8
        <4> QED  BY <1>1, <1>4, <4>1, <4>2
      <3>2. r = 0  BY <3>1 DEF Room
      <3>3. LastBit(n) = Cursor + d.bits - 1  BY <2>1 DEF Adds
      <3>4. r1 = d.bits  BY <1>9, <2>1
      <3>5. c \in Nat  BY <1>4, <1>6
      <3>6. c1 = c + d.bits
        <4> DEFINE b == d.bits
        <4>1. b \in Nat /\ LastBit(n) = c + b - 1  BY <1>4, <3>3
        <4> HIDE DEF b, c
        <4> QED  BY <1>10, <3>5, <4>1 DEF b
      <3> DEFINE b == d.bits
      <3>7. b \in Nat /\ c1 = c + b /\ c <= 8 * oLogAddr + o + r  BY <1>4, <1>6, <3>6
      <3> HIDE DEF c, c1, r, o, r1, b
      <3>8. o \in Nat  BY <1>7
      <3>9. r1 = b  BY <3>4 DEF b
      <3> QED  BY <1>4, <3>2, <3>5, <3>7, <3>8, <3>9
    <2>2. CASE Bytes(d) # 0
      <3>1. n.start = (IF BitPos > 0 THEN LogAddr + 1 ELSE LogAddr) /\ n.sbit = 0 /\ n.ebit = 7
        BY <2>2 DEF Adds
      <3>2. c1 = 8 * (n.start + s)
        BY <1>5, <1>10, <3>1 DEF LastBit
      <3>3. r1 = 8 * f1 /\ Bytes(d) > 0  BY <1>4, <1>9, <2>2
      <3>4. r = 8 * f  BY <1>4, <3>3 DEF Room
      <3> DEFINE b == n.start
      <3>5. b \in Nat /\ b = (IF BitPos > 0 THEN LogAddr + 1 ELSE LogAddr) /\ c1 = 8 * (b + s)
        BY <1>5, <3>1, <3>2
      <3>6. f > 0 => BitPos = 0  BY <1>4, <3>3
      <3> HIDE DEF b, c, c1, r, r1, o, f, f1, s
      <3>7. CASE f = 0
        <4>1. b <= oLogAddr + 1 /\ (overlap => b = oLogAddr)  BY <1>4, <1>8, <3>3, <3>5, <3>7
        <4>2. c1 = 8 * b + 8 * s /\ r1 = 8 * s  BY <1>5, <1>9, <3>3, <3>5, <3>7
        <4> QED  BY <1>4, <1>5, <1>7, <3>5, <4>1, <4>2
      <3>8. CASE f > 0
        <4>1. b = LogAddr /\ c = 8 * LogAddr  BY <1>4, <1>6, <3>5, <3>6, <3>8
        <4>2. c1 = c + 8 * s /\ r1 = r + 8 * s  BY <1>4, <1>5, <1>9, <3>3, <3>4, <3>5, <4>1
        <4> QED  BY <1>4, <1>5, <1>6, <1>7, <3>4, <4>1, <4>2
      <3> QED  BY <1>4, <3>7, <3>8
    <2> QED  BY <2>1, <2>2
  <1> HIDE DEF c1, r1, o
  <1>12. overlap /\ phase = "I" =>
             ends.O <= oLogAddr + 1 \/ ends.O <= oLogAddr + Bytes(slaves[slave].O)
    BY <1>1 DEF Extent
  <1>13. Cursor' <= 8 * oLogAddr' + Open' + Room(Pdos)'
    BY <1>1, <1>2, <1>3, <1>11 DEF c1, o
  <1> QED  BY <1>1, <1>12, <1>13 DEF Extent, Bytes, NeedBytes

LEMMA EndOverlapOutputsExtent ==
  ASSUME MapTyped, Loop, Extent, EndOverlapOutputs
  PROVE  ends'.O <= oLogAddr' + 1 \/ ends'.O <= oLogAddr' + Bytes(slaves'[slave'].O)
  <1>0. EndOverlap("O") /\ "O" \in Dirs  BY DEF EndOverlapOutputs, Dirs
  <1>1. /\ overlap /\ phase = "O" /\ slaves' = slaves /\ slave \in 1 .. Len(slaves)
        /\ ends'.O = (IF BitPos > 0 THEN LogAddr + 1 ELSE LogAddr)
    BY <1>0, EndOverlapEffect DEF Fixed
  <1>2. slave' = slave /\ oLogAddr' = oLogAddr  BY DEF EndOverlapOutputs
  <1>3. phase \in Dirs /\ slave <= Len(slaves) /\ Pdos = slaves[slave].O
    BY <1>0, <1>1 DEF MapTyped, Network, Pdos
  <1> DEFINE b == Bytes(Pdos)
             r == Room(Pdos)
             i == IF BitPos > 0 THEN LogAddr + 1 ELSE LogAddr
  <1>4. 8 * LogAddr + BitPos <= 8 * oLogAddr + 0 + r
    BY <1>1, <1>3 DEF Extent, Open, Cursor
  <1>5. /\ b \in Nat /\ r \in Nat /\ (IF b > 0 THEN r <= 8 * b ELSE r <= 7)
        /\ oLogAddr \in Nat /\ LogAddr \in Nat /\ BitPos \in 0 .. 7
    BY <1>3, PdosNumbers
  <1> HIDE DEF b, r
  <1>6. i <= oLogAddr + 1 \/ i <= oLogAddr + b
    BY <1>4, <1>5
  <1> HIDE DEF i
  <1>7. ends'.O = i  BY <1>1 DEF i
  <1>8. Bytes(slaves'[slave'].O) = b  BY <1>1, <1>2, <1>3 DEF b
  <1> QED  BY <1>2, <1>6, <1>7, <1>8

\* What lies behind the last segment boundary is one slave's at most.
LEMMA ExtentStep ==
  ASSUME MapTyped, Loop, Order, Placed, Extent, MapNext, MapTyped'
  PROVE  Extent'
  <1>1. ASSUME NEW n, Adds(n) PROVE Extent'  BY <1>1, AddsExtent
  <1>2. CASE Closes \/ Turns
    <2> SUFFICES ASSUME phase' \in Dirs
                 PROVE  /\ Cursor' <= 8 * oLogAddr' + Open' + Room(Pdos)'
                        /\ overlap' /\ phase' = "I" =>
                             ends'.O <= oLogAddr' + 1 \/ ends'.O <= oLogAddr' + Bytes(slaves'[slave'].O)
      BY DEF Extent, Bytes, NeedBytes
    <2>1. FMMUdone' = 0 /\ SMc' = 1 /\ overlap' = overlap
      BY <1>2, ClosesEffect, TurnsEffect DEF Fixed
    <2>2. Placed'  BY PlacedStep
    <2>3. LogAddr' = oLogAddr' /\ (overlap' => BitPos' = 0)
      BY <2>1, <2>2 DEF Placed, PlacedOwn
    <2>4. Room(Pdos)' = 0  BY <2>1 DEF Room
    <2>5. Cursor' <= 8 * oLogAddr' + Open' + Room(Pdos)'
      <3> DEFINE x == LogAddr'
                 y == BitPos'
                 c == Cursor'
                 o == Open'
                 r == Room(Pdos)'
      <3>1. x \in Nat /\ y \in Nat /\ y < 8  BY DEF MapTyped
      <3>2. c = 8 * x + y /\ o = (IF overlap' THEN 0 ELSE 8) /\ r = 0 /\ oLogAddr' = x
        BY <2>3, <2>4 DEF Cursor, Open
      <3>3. overlap' => y = 0  BY <2>3
      <3> HIDE DEF x, y, c, o, r
      <3>4. c <= 8 * x + o + r  BY <3>1, <3>2, <3>3
      <3> QED  BY <3>2, <3>4 DEF c, o, r
    <2>6. overlap' /\ phase' = "I" => EndOverlapOutputs
      BY <1>2, <2>1 DEF Closes, Turns, EndSlave, EndOverlapInputs, EndOutputs, EndInputs, EndOverlapMap
    <2> QED  BY <2>5, <2>6, EndOverlapOutputsExtent
  <1>3. CASE MapEmpty
    <2>1. /\ phase \in Dirs /\ slave <= Len(slaves) /\ FMMUdone' = 0 /\ Cursor' = 8 * LogAddr'
          /\ UNCHANGED <<slaves, overlap, phase, slave, oLogAddr, ends>>
      BY <1>3, EmptyEffect
    <2>2. Placed'  BY PlacedStep
    <2>3. LogAddr' = oLogAddr' \/ (LogAddr' = oLogAddr' + 1 /\ ~overlap)
      BY <2>1, <2>2 DEF Placed, PlacedOwn
    <2>4. Room(Pdos)' = 0 /\ Open' = Open  BY <2>1 DEF Room, Open
    <2>5. Cursor' <= 8 * oLogAddr' + Open' + Room(Pdos)'
      <3> DEFINE x == LogAddr'
      <3>1. oLogAddr \in Nat /\ Open = IF overlap THEN 0 ELSE 8  BY DEF MapTyped, Open
      <3>2. x = oLogAddr \/ (x = oLogAddr + 1 /\ ~overlap)  BY <2>1, <2>3
      <3> HIDE DEF x
      <3>3. 8 * x <= 8 * oLogAddr + Open + 0  BY <3>1, <3>2
      <3> QED  BY <2>1, <2>4, <3>3 DEF x
    <2>6. overlap /\ phase = "I" =>
             ends.O <= oLogAddr + 1 \/ ends.O <= oLogAddr + Bytes(slaves[slave].O)
      BY <2>1 DEF Extent
    <2> QED  BY <2>1, <2>5, <2>6 DEF Extent, Bytes, NeedBytes
  <1> QED  BY <1>1, <1>2, <1>3, StepKinds

-----------------------------------------------------------------------------
(* No slave's data is torn.                                                *)

\* Slaves whose bytes are in the segments, and the segment they are in.
Settled(s, dir) == Before(s, dir) /\ ~(overlap /\ phase = "I" /\ s = slave)
Holds(k, f) ==
    /\ StartOf(IOsegment, k) <= f.start
    /\ f.start + f.size <= StartOf(IOsegment, k) + Size(k)

InOne ==
    ~TableFull =>
        \A s \in DOMAIN slaves, dir \in Dirs :
            Settled(s, dir) /\ Bytes(slaves[s][dir]) > 0 =>
                \E k \in 0 .. currentsegment : \A f \in Own(s, dir) : Holds(k, f)

\* What holds an FMMU goes on to do so.
LEMMA HoldsOn ==
  ASSUME MapTyped, MapTyped', NEW diff, Grown(diff), NEW k \in 0 .. currentsegment,
         NEW f \in Fmmu, Holds(k, f)
  PROVE  Holds(k, f)' /\ k \in 0 .. currentsegment'
  <1>1. SegTyped /\ SegTyped'  BY SegTypedIs
  <1>2. /\ currentsegment <= currentsegment'
        /\ StartOf(IOsegment', k) = StartOf(IOsegment, k) /\ Size(k) <= Size(k)'
    BY DEF Grown
  <1>3. k \in Nat /\ k \in 0 .. MAXIOSEGMENTS - 1 /\ StartOf(IOsegment, k) \in Nat /\ Size(k) \in Nat
        /\ currentsegment \in Nat
    BY <1>1, SegNumbers
  <1>4. Size(k)' \in Nat /\ currentsegment' \in Nat
    BY <1>1, <1>3, Parameters DEF Size, SegTyped, Table
  <1>5. f.start \in Nat /\ f.size \in Nat  BY DEF Fmmu
  <1> DEFINE a == StartOf(IOsegment, k)
             z == Size(k)
             z1 == Size(k)'
             c1 == currentsegment'
  <1>6. a <= f.start /\ f.start + f.size <= a + z  BY DEF Holds
  <1>7. a \in Nat /\ z \in Nat /\ z1 \in Nat /\ z <= z1 /\ StartOf(IOsegment', k) = a
        /\ c1 \in Nat /\ currentsegment <= c1
    BY <1>2, <1>3, <1>4
  <1>8. Holds(k, f)' <=> a <= f.start /\ f.start + f.size <= a + z1
    BY <1>7 DEF Holds
  <1> HIDE DEF a, z, z1
  <1>9. f.start + f.size <= a + z1  BY <1>5, <1>6, <1>7
  <1>10. k \in 0 .. c1
    <2> HIDE DEF c1
    <2> QED  BY <1>3, <1>7
  <1> QED  BY <1>6, <1>8, <1>9, <1>10

\* The bytes laid out last are in the last segment.
LEMMA LastHolds ==
  ASSUME MapTyped, Loop, Placed, Segmented, MapNext, MapTyped', ~TableFull',
         NEW S, \A f \in S : f \in Fmmu /\ oLogAddr <= f.start /\ f.start + f.size <= oLogAddr'
  PROVE  \E k \in 0 .. currentsegment' : \A f \in S : Holds(k, f)'
  <1>1. Segmented'  BY SegmentedStep
  <1>2. Total' = oLogAddr'  BY <1>1 DEF Segmented
  <1>3. Grown(oLogAddr' - oLogAddr)  BY StepGrown
  <1>4. ~TableFull /\ Base' <= Total  BY <1>3 DEF Grown
  <1>5. Total = oLogAddr  BY <1>4 DEF Segmented
  <1> DEFINE c == currentsegment'
  <1>6. SegTyped'  BY SegTypedIs
  <1>7. c \in Nat /\ c \in 0 .. c
    <2>1. c \in Nat  BY <1>6, Parameters DEF SegTyped
    <2> HIDE DEF c
    <2> QED  BY <2>1
  <1>8. \A k, f : k = c => (Holds(k, f)' <=> Base' <= f.start /\ f.start + f.size <= Total')
    <2> TAKE k, f
    <2> SUFFICES ASSUME k = c
                 PROVE  Holds(k, f)' <=> Base' <= f.start /\ f.start + f.size <= Total'
      OBVIOUS
    <2>1. StartOf(IOsegment', k) = Base'  BY DEF Base
    <2>2. Size(k)' = segmentsize'
      <3>1. ~(c < c)
        <4> HIDE DEF c
        <4> QED  BY <1>7
      <3> QED  BY <3>1 DEF Size
    <2>3. Total' = Base' + segmentsize'  BY DEF Total
    <2> QED  BY <2>1, <2>2, <2>3 DEF Holds
  <1>9. \A f \in S : Base' <= f.start
    <2> DEFINE b == Base'
    <2>1. b <= oLogAddr /\ b \in Nat
      <3>1. MAXIOSEGMENTS \in Nat  BY Parameters
      <3>2. Table(IOsegment') /\ currentsegment' \in 0 .. MAXIOSEGMENTS  BY <1>6, <3>1 DEF SegTyped
      <3>3. Base' \in Nat  BY <3>2, StartFacts DEF Base
      <3> QED  BY <1>4, <1>5, <3>3
    <2>2. oLogAddr \in Nat /\ \A f \in S : f.start \in Nat  BY DEF MapTyped, Fmmu
    <2> HIDE DEF b
    <2>3. \A f \in S : b <= f.start  BY <2>1, <2>2
    <2> QED  BY <2>3 DEF b
  <1>10. \A f \in S : f.start + f.size <= Total'  BY <1>2
  <1> HIDE DEF c
  <1>11. PICK k : k = c  OBVIOUS
  <1>12. (\A f \in S : Holds(k, f)') /\ k \in 0 .. c  BY <1>7, <1>8, <1>9, <1>10, <1>11
  <1> QED  BY <1>12 DEF c

\* The FMMUs of a slave that is closed lie where the image has grown.
LEMMA ClosedBytes ==
  ASSUME MapTyped, Loop, Order, Placed, MapNext, NEW f \in fmmu, Bytes(slaves[f.slave][f.dir]) > 0,
         f.slave = slave, (EndSlave /\ f.dir = phase) \/ EndOverlapInputs
  PROVE  f \in Fmmu /\ oLogAddr <= f.start /\ f.start + f.size <= oLogAddr'
  <1>1. f \in Fmmu  BY DEF MapTyped
  <1>2. /\ f.start \in Nat /\ f.size \in Nat /\ f.sbit \in 0 .. 7 /\ f.ebit \in 0 .. 7
        /\ f.slave \in DOMAIN slaves /\ f.dir \in Dirs
    BY <1>1 DEF Fmmu
  <1>3. phase \in Dirs /\ slave <= Len(slaves)
    BY EndOverlapInputsEffect DEF EndSlave, SlaveMapped, Dirs, MapTyped, Network
  <1>4. FirstBit(f) >= 8 * oLogAddr
    <2>1. overlap \/ f.dir = phase  BY EndOverlapInputsEffect
    <2> QED  BY <1>3, <2>1 DEF Placed, PlacedOwn
  <1>5. oLogAddr \in Nat /\ LogAddr \in Nat  BY DEF MapTyped
  <1>6. oLogAddr <= f.start  BY <1>2, <1>4, <1>5 DEF FirstBit
  <1>7. CASE EndSlave /\ f.dir = phase
    <2>1. Bytes(Pdos) > 0 /\ Busy(f.slave, f.dir)  BY <1>7 DEF Pdos, Busy
    <2>2. FMMUdone > 0
      <3>1. ~Before(f.slave, f.dir)  BY <1>2, <1>7, <2>1, ClosesEffect DEF Closes
      <3> QED  BY <3>1 DEF Order
    <2>3. BitPos = 0 /\ Pdos.bits > 0  BY <1>3, <2>1, <2>2 DEF Loop
    <2>4. oLogAddr' = LogAddr  BY <1>7, <2>3 DEF EndSlave
    <2>5. LastBit(f) < 8 * LogAddr
      <3>1. LastBit(f) < Cursor  BY <1>7 DEF Placed, PlacedApart, EndSlave
      <3>2. Cursor = 8 * LogAddr  BY <1>5, <2>3 DEF Cursor
      <3> QED  BY <3>1, <3>2
    <2>6. f.start + f.size <= LogAddr  BY <1>2, <1>5, <2>5 DEF LastBit
    <2> QED  BY <1>1, <1>6, <2>4, <2>6
  <1>8. CASE EndOverlapInputs
    <2>1. overlap' /\ phase' = "O" /\ slave' = slave + 1 /\ oLogAddr' \in Nat /\ fmmu' = fmmu
      BY <1>8, EndOverlapInputsEffect DEF Fixed, fmmus
    <2>2. Placed'  BY <1>8, EndOverlapInputsPlaced
    <2>3. f.slave < slave'  BY <2>1 DEF MapTyped
    <2>4. LastBit(f) < 8 * oLogAddr'  BY <2>1, <2>2, <2>3 DEF Placed, PlacedOver, LastBit, Dirs
    <2> DEFINE o == oLogAddr'
    <2>5. o \in Nat /\ 8 * (f.start + f.size - 1) + f.ebit < 8 * o  BY <2>1, <2>4 DEF LastBit
    <2> HIDE DEF o
    <2>6. f.start + f.size <= o  BY <1>2, <2>5
    <2> QED  BY <1>1, <1>6, <2>6 DEF o
  <1> QED  BY <1>7, <1>8

\* A byte oriented slave stays within one segment.
LEMMA InOneStep ==
  ASSUME MapTyped, Loop, Order, Placed, Segmented, InOne, MapNext, MapTyped'
  PROVE  InOne'
  <1> SUFFICES ASSUME ~TableFull', NEW s \in DOMAIN slaves', NEW dir \in Dirs, Settled(s, dir)',
                      Bytes(slaves[s][dir])' > 0
               PROVE  \E k \in 0 .. currentsegment' : \A f \in Own(s, dir)' : Holds(k, f)'
    BY DEF InOne
  <1>1. Grown(oLogAddr' - oLogAddr)  BY StepGrown
  <1>2. slaves' = slaves /\ overlap' = overlap
    <2>1. ASSUME NEW n, Adds(n) PROVE slaves' = slaves /\ overlap' = overlap  BY <2>1 DEF Adds
    <2> QED  BY <2>1, StepKinds, EmptyEffect, ClosesEffect, TurnsEffect DEF Fixed
  <1>3. s \in DOMAIN slaves /\ Bytes(slaves[s][dir]) > 0 /\ s \in Nat /\ slave \in Nat
    <2>1. s \in DOMAIN slaves  BY <1>2
    <2>2. Bytes(slaves[s][dir]) > 0  BY <1>2 DEF Bytes, NeedBytes
    <2>3. s \in Nat /\ slave \in Nat  BY <2>1 DEF MapTyped, Network
    <2> QED  BY <2>1, <2>2, <2>3
  <1>4. ASSUME Settled(s, dir), Own(s, dir)' = Own(s, dir)
        PROVE  \E k \in 0 .. currentsegment' : \A f \in Own(s, dir)' : Holds(k, f)'
    <2>1. ~TableFull  BY <1>1 DEF Grown
    <2>2. PICK k \in 0 .. currentsegment : \A f \in Own(s, dir) : Holds(k, f)
      BY <1>3, <1>4, <2>1 DEF InOne
    <2>3. \A f \in Own(s, dir) : f \in Fmmu /\ Holds(k, f)' /\ k \in 0 .. currentsegment'
      <3> TAKE f \in Own(s, dir)
      <3>1. f \in Fmmu  BY DEF Own, MapTyped
      <3> QED  BY <1>1, <2>2, <3>1, HoldsOn
    <2>4. k \in 0 .. currentsegment'
      <3>1. SegTyped /\ SegTyped'  BY SegTypedIs
      <3>2. currentsegment \in Nat /\ currentsegment <= currentsegment'
        BY <1>1, <3>1, SegNumbers DEF Grown
      <3>3. currentsegment' \in Nat  BY <3>1, Parameters DEF SegTyped
      <3> DEFINE c == currentsegment'
      <3>4. c \in Nat /\ currentsegment <= c  BY <3>2, <3>3
      <3> HIDE DEF c
      <3>5. k \in 0 .. c  BY <3>2, <3>4
      <3> QED  BY <3>5 DEF c
    <2> QED  BY <1>4, <2>3, <2>4
  <1>5. ASSUME NEW n, Adds(n)
        PROVE  \E k \in 0 .. currentsegment' : \A f \in Own(s, dir)' : Holds(k, f)'
    <2>1. (Before(s, dir)' <=> Before(s, dir)) /\ (Busy(s, dir) => ~Before(s, dir))
      BY <1>3, <1>5, AddsEffect
    <2>2. phase' = phase /\ slave' = slave  BY <1>5 DEF Adds
    <2>3. Settled(s, dir)  BY <1>2, <2>1, <2>2 DEF Settled
    <2>4. ~(s = slave /\ dir = phase)  BY <2>1, <2>3 DEF Settled, Busy
    <2>5. Own(s, dir)' = Own(s, dir)  BY <1>3, <1>5, <2>4, OwnAdds
    <2> QED  BY <1>4, <2>3, <2>5
  <1>6. ASSUME Fixed PROVE Own(s, dir)' = Own(s, dir)  BY <1>6 DEF Own, Fixed, fmmus
  <1>7. ASSUME (EndSlave /\ dir = phase) \/ EndOverlapInputs, s = slave, Fixed
        PROVE  \E k \in 0 .. currentsegment' : \A f \in Own(s, dir)' : Holds(k, f)'
    <2> DEFINE S == Own(s, dir)
    <2>1. \A f \in S : f \in Fmmu /\ oLogAddr <= f.start /\ f.start + f.size <= oLogAddr'
      <3> TAKE f \in S
      <3>1. f \in fmmu /\ f.slave = s /\ f.dir = dir  BY DEF Own
      <3> QED  BY <1>3, <1>7, <3>1, ClosedBytes
    <2>2. S' = S  BY <1>6, <1>7
    <2> HIDE DEF S
    <2>3. \E k \in 0 .. currentsegment' : \A f \in S : Holds(k, f)'
      BY <2>1, LastHolds
    <2> QED  BY <2>2, <2>3 DEF S
  <1>8. CASE Closes
    <2>1. Fixed /\ (Before(s, dir)' <=> Before(s, dir) \/ Busy(s, dir))
      BY <1>3, <1>8, ClosesEffect
    <2>2. CASE EndSlave
      <3>1. ~overlap  BY <2>2 DEF EndSlave
      <3>2. Before(s, dir) \/ Busy(s, dir)  BY <2>1 DEF Settled
      <3>3. CASE Before(s, dir)  BY <1>4, <1>6, <2>1, <3>1, <3>3 DEF Settled
      <3>4. CASE Busy(s, dir)  BY <1>7, <2>1, <2>2, <3>4 DEF Busy
      <3> QED  BY <3>2, <3>3, <3>4
    <2>3. CASE EndOverlapOutputs
      <3>1. overlap /\ phase = "O" /\ phase' = "I" /\ slave' = slave
        BY <2>3 DEF EndOverlapOutputs, EndOverlap
      <3>2. Settled(s, dir)  BY <1>2, <2>1, <3>1 DEF Settled, Busy
      <3> QED  BY <1>4, <1>6, <2>1, <3>2
    <2>4. CASE EndOverlapInputs
      <3>1. overlap /\ phase = "I" /\ phase' = "O" /\ slave' = slave + 1
        BY <2>4 DEF EndOverlapInputs, EndOverlap
      <3>2. s < slave + 1  BY <1>2, <3>1 DEF Settled, Before
      <3>3. CASE s = slave  BY <1>7, <2>1, <2>4, <3>3
      <3>4. CASE s < slave
        <4>1. Settled(s, dir)  BY <1>3, <3>1, <3>4 DEF Settled, Before
        <4> QED  BY <1>4, <1>6, <2>1, <4>1
      <3> QED  BY <1>3, <3>2, <3>3, <3>4
    <2> QED  BY <1>8, <2>2, <2>3, <2>4 DEF Closes
  <1>9. CASE Turns
    <2>1. Fixed /\ (Before(s, dir)' <=> Before(s, dir))
      BY <1>3, <1>9, TurnsEffect
    <2>2. ~(overlap /\ phase = "I")
      BY <1>9 DEF Turns, EndOutputs, EndInputs, EndOverlapMap
    <2>3. Settled(s, dir)  BY <2>1, <2>2 DEF Settled
    <2> QED  BY <1>4, <1>6, <2>1, <2>3
  <1>10. CASE MapEmpty
    <2>1. UNCHANGED <<overlap, phase, slave, fmmu>> /\ (Before(s, dir)' <=> Before(s, dir))
      BY <1>3, <1>10, EmptyEffect, EmptyKeeps
    <2>2. Settled(s, dir) /\ Own(s, dir)' = Own(s, dir)  BY <2>1 DEF Settled, Own
    <2> QED  BY <1>4, <2>2
  <1> QED  BY <1>5, <1>8, <1>9, <1>10, StepKinds

\* The invariant says what is to be shown of the segments.
LEMMA SegmentsFromInv ==
  ASSUME MapTyped, Loop, Placed, Counted, Moves, Segmented, Fits, InOne
  PROVE  SegmentsRight
  <1>1. TypeOK
    <2>1. grp \in [DOMAIN NoSlaveYet -> Nat]
      <3>1. DOMAIN NoSlaveYet = {"Obytes", "Ibytes", "Isegment", "Ioffset", "nsegments",
                                 "outputsWKC", "inputsWKC", "blockLRW"}
        BY DEF NoSlaveYet
      <3> QED  BY <3>1 DEF MapTyped, Group
    <2>2. SMc \in Nat /\ ByteCount \in Nat /\ FMMUdone \in Nat  BY DEF Loop
    <2>3. moved \in Nat /\ empty \in Nat  BY DEF Moves, Counted, MapTyped, Group
    <2> QED  BY <2>1, <2>2, <2>3 DEF TypeOK, MapTyped, Dirs
  <1>2. SegTyped  BY SegTypedIs
  <1>3. ASSUME Mapped
        PROVE  /\ \A k \in 0 .. currentsegment :
                     /\ StartOf(IOsegment, k + 1) = StartOf(IOsegment, k) + Size(k)
                     /\ StartOf(IOsegment, k) \in Nat /\ Size(k) \in Nat
               /\ StartOf(IOsegment, grp.nsegments) = Total
               /\ Segments = 0 .. currentsegment
    <2>1. IOsegment[currentsegment] = segmentsize /\ grp.nsegments = currentsegment + 1
      BY <1>3 DEF Segmented
    <2>2. \A k \in 0 .. currentsegment : Size(k) = IOsegment[k]
      <3>1. currentsegment \in Nat  BY <1>2, SegNumbers
      <3>2. \A k \in 0 .. currentsegment : ~(k < currentsegment) => k = currentsegment
        BY <3>1
      <3> QED  BY <2>1, <3>2 DEF Size
    <2>3. \A k \in 0 .. currentsegment :
             /\ StartOf(IOsegment, k + 1) = StartOf(IOsegment, k) + Size(k)
             /\ StartOf(IOsegment, k) \in Nat /\ Size(k) \in Nat
      <3> TAKE k \in 0 .. currentsegment
      <3>1. k \in 0 .. MAXIOSEGMENTS - 1 /\ StartOf(IOsegment, k) \in Nat /\ Size(k) \in Nat
        BY <1>2, SegNumbers
      <3>2. StartOf(IOsegment, k + 1) = StartOf(IOsegment, k) + IOsegment[k]
        BY <1>2, <3>1, StartFacts DEF SegTyped
      <3> QED  BY <2>2, <3>1, <3>2
    <2>4. currentsegment \in Nat /\ currentsegment \in 0 .. MAXIOSEGMENTS - 1
      BY <1>2, SegNumbers DEF SegTyped
    <2>5. StartOf(IOsegment, currentsegment + 1) = Base + segmentsize
      BY <1>2, <2>1, <2>4, StartFacts DEF Base, SegTyped
    <2>6. Segments = 0 .. currentsegment
      BY <2>1, <2>4 DEF Segments
    <2> QED  BY <2>1, <2>3, <2>5, <2>6 DEF Total
  <1>4. ImageTiled
    <2> SUFFICES ASSUME Mapped, ~TableFull
                 PROVE  SegmentStart(grp.nsegments) = LogicalSize /\ LogicalSize = LogAddr
      BY DEF ImageTiled
    <2>1. Total = oLogAddr /\ LogAddr = oLogAddr /\ LogicalSize = LogAddr  BY DEF Segmented
    <2>2. SegmentStart(grp.nsegments) = StartOf(IOsegment, grp.nsegments)  BY StartIs
    <2> QED  BY <1>3, <2>1, <2>2
  <1>5. SegmentsFit
    <2>1. DOMAIN IOsegment = 0 .. MAXIOSEGMENTS - 1  BY <1>2 DEF SegTyped, Table
    <2> QED  BY <2>1 DEF SegmentsFit, Fits, Small, Short, Dirs
  <1>6. \A f \in fmmu : /\ f \in Fmmu /\ f.start \in Nat /\ f.size \in Nat /\ f.size > 0
                        /\ f.sbit \in 0 .. 7 /\ f.ebit \in 0 .. 7
                        /\ f.slave \in DOMAIN slaves /\ f.dir \in Dirs
    BY DEF MapTyped, Fmmu
  <1>7. grp.Obytes \in Nat /\ grp.Ibytes \in Nat  BY DEF MapTyped, Group
  <1>8. InputsBehindOutputs
    <2> SUFFICES ASSUME Mapped, ~TableFull
                 PROVE  IF overlap
                        THEN \A f \in fmmu :
                                f.start + f.size <= IF f.dir = "O" THEN grp.Obytes ELSE grp.Ibytes
                        ELSE /\ SegmentStart(grp.Isegment) + grp.Ioffset = grp.Obytes
                             /\ \A f \in fmmu : IF f.dir = "O"
                                THEN f.start + f.size <= grp.Obytes
                                ELSE f.start >= grp.Obytes
      BY DEF InputsBehindOutputs
    <2>1. CASE overlap
      <3>1. \A f \in fmmu : LastBit(f) < 8 * (IF f.dir = "O" THEN grp.Obytes ELSE grp.Ibytes)
        BY <2>1 DEF Placed, PlacedOver, Mapped
      <3>2. \A f \in fmmu : f.start + f.size <= IF f.dir = "O" THEN grp.Obytes ELSE grp.Ibytes
        <4> TAKE f \in fmmu
        <4> DEFINE m == IF f.dir = "O" THEN grp.Obytes ELSE grp.Ibytes
        <4>1. m \in Nat /\ 8 * (f.start + f.size - 1) + f.ebit < 8 * m  BY <1>7, <3>1 DEF LastBit
        <4> HIDE DEF m
        <4>2. f.start + f.size <= m  BY <1>6, <4>1
        <4> QED  BY <4>2 DEF m
      <3> QED  BY <2>1, <3>2
    <2>2. CASE ~overlap
      <3>1. Mark = grp.Obytes  BY <2>2 DEF Segmented, Mapped
      <3>2. SegmentStart(grp.Isegment) + grp.Ioffset = grp.Obytes  BY <3>1, StartIs DEF Mark
      <3>3. \A f \in fmmu : IF f.dir = "O" THEN LastBit(f) < 8 * grp.Obytes
                                           ELSE FirstBit(f) >= 8 * grp.Obytes
        BY <2>2 DEF Placed, PlacedApart, Mapped
      <3>4. \A f \in fmmu : IF f.dir = "O" THEN f.start + f.size <= grp.Obytes
                                           ELSE f.start >= grp.Obytes
        BY <1>6, <1>7, <3>3 DEF FirstBit, LastBit
      <3> QED  BY <2>2, <3>2, <3>4
    <2> QED  BY <2>1, <2>2
  <1>9. SlaveInOneFrame
    <2> SUFFICES ASSUME Mapped, ~TableFull, NEW f \in fmmu, NEW g \in fmmu,
                        f.slave = g.slave, f.dir = g.dir, ByteOriented(f)
                 PROVE  \E k \in Segments :
                            FmmuBytes(f) \cup FmmuBytes(g)
                              \subseteq SegmentStart(k) .. SegmentStart(k + 1) - 1
      BY DEF SlaveInOneFrame
    <2> DEFINE s == f.slave
               dir == f.dir
    <2>1. s \in DOMAIN slaves /\ dir \in Dirs /\ f \in Own(s, dir) /\ g \in Own(s, dir)
      BY <1>6 DEF Own
    <2>2. Settled(s, dir) /\ Bytes(slaves[s][dir]) > 0
      BY DEF Settled, Before, Mapped, ByteOriented
    <2>3. PICK k \in 0 .. currentsegment : Holds(k, f) /\ Holds(k, g)
      BY <2>1, <2>2 DEF InOne
    <2>4. SegmentStart(k) = StartOf(IOsegment, k) /\ SegmentStart(k + 1) = StartOf(IOsegment, k + 1)
      BY StartIs
    <2> DEFINE a == StartOf(IOsegment, k)
               z == Size(k)
    <2>5. a \in Nat /\ z \in Nat /\ SegmentStart(k) = a /\ SegmentStart(k + 1) = a + z
      BY <1>3, <2>4
    <2>6. /\ a <= f.start /\ f.start + f.size <= a + z
          /\ a <= g.start /\ g.start + g.size <= a + z
      BY <2>3 DEF Holds
    <2> HIDE DEF a, z
    <2>7. FmmuBytes(f) \cup FmmuBytes(g) \subseteq a .. a + z - 1
      BY <1>6, <2>5, <2>6 DEF FmmuBytes
    <2>8. k \in Segments  BY <1>3
    <2> QED  BY <2>5, <2>7, <2>8
  <1> QED  BY <1>1, <1>4, <1>5, <1>8, <1>9 DEF SegmentsRight

-----------------------------------------------------------------------------
(* The layout is right.                                                    *)

MapInv ==
    /\ MapTyped /\ Loop /\ Order /\ Placed /\ Counted /\ FmmuWithinSms /\ Whole
    /\ Moves /\ Segmented /\ Extent /\ Fits /\ InOne

\* The invariant of the mapping holds at first.
LEMMA MapInvInit ==
  ASSUME Init
  PROVE  MapInv
  <1>1. MapTyped /\ Loop  BY TypedInit
  <1>2. /\ phase = "O" /\ slave = 1 /\ FMMUdone = 0 /\ fmmu = {} /\ moved = 0 /\ empty = 0
        /\ at = [s \in DOMAIN slaves |-> [O |-> NULL, I |-> NULL]]
        /\ LogAddr = 0 /\ BitPos = 0 /\ oLogAddr = 0 /\ ends = [O |-> 0, I |-> 0]
        /\ IOsegment = [k \in 0 .. MAXIOSEGMENTS - 1 |-> 0]
        /\ currentsegment = 0 /\ segmentsize = 0 /\ grp = NoSlaveYet
    BY DEF Init
  <1>3. Order /\ FmmuWithinSms  BY <1>2 DEF Order, FmmuWithinSms
  <1>4. Placed
    <2>1. ends.O = 0 /\ ends.I = 0  BY <1>2
    <2>2. PlacedApart  BY <1>2 DEF PlacedApart
    <2>3. PlacedOver  BY <1>2, <2>1 DEF PlacedOver
    <2>4. PlacedOwn  BY <1>2 DEF PlacedOwn
    <2>5. Apart  BY <1>2 DEF Apart
    <2> QED  BY <2>2, <2>3, <2>4, <2>5 DEF Placed
  <1>5. Counted
    <2>1. Ways("O") = {} /\ Ways("I") = {}  BY <1>2 DEF Ways
    <2>2. grp.outputsWKC = 0 /\ grp.inputsWKC = 0  BY <1>2 DEF NoSlaveYet
    <2>3. Cardinality({}) = 0 /\ 0 + empty = 0 /\ empty \in Nat  BY <1>2, FS_EmptySet
    <2> QED  BY <2>1, <2>2, <2>3 DEF Counted
  <1>6. \A s \in DOMAIN slaves, dir \in Dirs : ~Before(s, dir)
    <2>1. \A s \in DOMAIN slaves : s \in Nat /\ ~(s < 1)  BY <1>1 DEF MapTyped, Network
    <2> QED  BY <1>2, <2>1 DEF Before
  <1>7. Whole
    <2>1. \A s \in DOMAIN slaves, dir \in Dirs : at[s][dir] = NULL  BY <1>2 DEF Dirs
    <2>2. ~(FMMUdone > 0)  BY <1>2
    <2> QED  BY <1>6, <2>1, <2>2 DEF Whole
  <1>8. InOne  BY <1>6 DEF InOne, Settled
  <1>9. Segmented
    <2>1. Base = 0
      <3>1. SegTyped  BY <1>1, SegTypedIs
      <3> QED  BY <1>2, <3>1, StartFacts DEF Base, SegTyped
    <2>2. Total = 0  BY <1>2, <2>1 DEF Total
    <2> QED  BY <1>2, <2>2 DEF Segmented, Mapped
  <1>10. Extent
    <2>1. Cursor = 0 /\ Room(Pdos) = 0  BY <1>2 DEF Cursor, Room
    <2>2. Open \in Nat  BY DEF Open
    <2>3. 0 <= 8 * oLogAddr + Open + 0  BY <1>2, <2>2
    <2> QED  BY <1>2, <2>1, <2>3 DEF Extent
  <1>11. Fits
    <2>1. LIMIT \in Nat  BY Parameters
    <2> QED  BY <1>2, <2>1 DEF Fits, Short
  <1>12. Moves  BY <1>2 DEF Moves
  <1> QED  BY <1>1, <1>3, <1>4, <1>5, <1>7, <1>8, <1>9, <1>10, <1>11, <1>12 DEF MapInv

\* Every step of the mapping keeps it.
LEMMA MapInvStep ==
  ASSUME MapInv, MapNext
  PROVE  MapInv'
  <1> USE DEF MapInv
  <1>1. MapTyped' /\ Loop'  BY TypedStep
  <1>2. Order'  BY OrderStep
  <1>3. Placed'  BY PlacedStep
  <1>4. Counted'  BY CountedStep
  <1>5. FmmuWithinSms'  BY WithinStep
  <1>6. Whole'  BY WholeStep
  <1>7. Segmented'  BY <1>1, SegmentedStep
  <1>8. Extent'  BY <1>1, ExtentStep
  <1>9. Fits'  BY <1>1, FitsStep
  <1>10. InOne'  BY <1>1, InOneStep
  <1>11. Moves'  BY MovesStep
  <1> QED  BY <1>1, <1>2, <1>3, <1>4, <1>5, <1>6, <1>7, <1>8, <1>9, <1>10, <1>11

\* So does a step that leaves the mapping alone.
LEMMA MapInvStutter ==
  ASSUME MapInv, UNCHANGED mapVars
  PROVE  MapInv'
  <1>1. /\ slaves' = slaves /\ overlap' = overlap /\ phase' = phase /\ slave' = slave
        /\ SMc' = SMc /\ ByteCount' = ByteCount /\ FMMUdone' = FMMUdone
        /\ fmmu' = fmmu /\ at' = at /\ LogAddr' = LogAddr /\ BitPos' = BitPos
        /\ oLogAddr' = oLogAddr /\ ends' = ends /\ IOsegment' = IOsegment
        /\ currentsegment' = currentsegment /\ segmentsize' = segmentsize /\ grp' = grp
        /\ moved' = moved /\ empty' = empty
    BY DEF mapVars, loop, fmmus, cursor, segs
  <1>2. MapTyped' /\ Loop'  BY TypedStutter DEF MapInv
  <1>3. Order'  BY <1>1 DEF MapInv, Order, Before, Busy
  <1>4. Placed'
    <2>1. PlacedApart'  BY <1>1 DEF MapInv, Placed, PlacedApart, Cursor, FirstBit, LastBit
    <2>2. PlacedOver'  BY <1>1 DEF MapInv, Placed, PlacedOver, Cursor, LastBit
    <2>3. PlacedOwn'  BY <1>1 DEF MapInv, Placed, PlacedOwn, FirstBit
    <2>4. Apart'  BY <1>1 DEF MapInv, Placed, Apart, FirstBit, LastBit
    <2> QED  BY <2>1, <2>2, <2>3, <2>4 DEF Placed
  <1>5. Counted'  BY <1>1 DEF MapInv, Counted, Ways
  <1>6. FmmuWithinSms'  BY <1>1 DEF MapInv, FmmuWithinSms
  <1>7. Whole'
    <2>1. Fixed  BY <1>1 DEF Fixed, fmmus
    <2>2. \A s, dir : WholeData(s, dir)' <=> WholeData(s, dir)
      <3> TAKE s, dir
      <3> QED  BY <2>1, WholeFixed
    <2>3. \A s, dir : Own(s, dir)' = Own(s, dir)  BY <1>1 DEF Own
    <2>4. \A s, dir : Begun(s, dir)' <=> Begun(s, dir)
      BY <1>1, <2>3 DEF Begun, FmmuBits, Cursor
    <2>5. \A s, dir : (Before(s, dir)' <=> Before(s, dir)) /\ (Busy(s, dir)' <=> Busy(s, dir))
      BY <1>1 DEF Before, Busy
    <2>6. Cursor' = Cursor  BY <1>1 DEF Cursor
    <2> QED  BY <1>1, <2>2, <2>4, <2>5, <2>6 DEF MapInv, Whole
  <1>8. /\ Total' = Total /\ (TableFull' <=> TableFull) /\ Mark' = Mark
        /\ LogicalSize' = LogicalSize /\ (Mapped' <=> Mapped) /\ Size(grp.Isegment)' = Size(grp.Isegment)
    BY <1>1 DEF Total, Base, TableFull, Mark, LogicalSize, Mapped, Size
  <1>9. Segmented'  BY <1>1, <1>8 DEF MapInv, Segmented
  <1>10. Extent'
    <2>1. Cursor' = Cursor /\ Open' = Open /\ Room(Pdos)' = Room(Pdos)
      BY <1>1 DEF Cursor, Open, Room, Pdos, Bytes, NeedBytes
    <2> QED  BY <1>1, <2>1 DEF MapInv, Extent, Bytes, NeedBytes
  <1>11. Fits'  BY <1>1 DEF MapInv, Fits, Small, Short, Bytes, NeedBytes
  <1>12. InOne'
    <2>1. \A s, dir : /\ Settled(s, dir)' <=> Settled(s, dir)
                      /\ Own(s, dir)' = Own(s, dir)
      BY <1>1 DEF Settled, Own, Before
    <2>2. \A k, f : Holds(k, f)' <=> Holds(k, f)
      BY <1>1 DEF Holds, Size
    <2> QED  BY <1>1, <1>8, <2>1, <2>2 DEF MapInv, InOne, Bytes, NeedBytes
  <1>13. Moves'  BY <1>1 DEF MapInv, Moves
  <1> QED
    BY <1>2, <1>3, <1>4, <1>5, <1>6, <1>7, <1>9, <1>10, <1>11, <1>12, <1>13 DEF MapInv

\* The invariant says what is to be shown of the mapping.
LEMMA MapInvRight ==
  ASSUME MapInv
  PROVE  FmmusRight /\ SegmentsRight
  <1>1. FmmusDisjoint  BY DisjointFromPlaced DEF MapInv
  <1>2. EveryByteMapped /\ DataInOnePiece  BY RightFromWhole DEF MapInv
  <1>3. SegmentsRight  BY SegmentsFromInv DEF MapInv
  <1> QED  BY <1>1, <1>2, <1>3 DEF FmmusRight, MapInv

\* ecx_config_map_group and its overlapping variant, by themselves: for every
\* network of slaves the FMMUs and the segments are right.
THEOREM LayoutIsRight == Spec => [](FmmusRight /\ SegmentsRight)
  <1>1. MapInv /\ [MapNext]_mapVars => MapInv'  BY MapInvStep, MapInvStutter
  <1>2. Spec => []MapInv  BY <1>1, MapInvInit, PTL DEF Spec
  <1> QED  BY <1>2, MapInvRight, PTL

\* The mapping goes on as it does when the process data are exchanged as well.
LEMMA MapInvNext ==
  ASSUME MapInv, [Next]_vars
  PROVE  MapInv'
  <1>1. MapNext \/ UNCHANGED mapVars
    BY DEF Next, Configure, SendStart, SendFrame, ReceiveStart, ReceiveFrame, FrameTimeout,
       ReceiveEnd, vars
  <1> QED  BY <1>1, MapInvStep, MapInvStutter

\* The invariant of the mapping holds while the program exchanges process data.
THEOREM MapInvAlways == PdSpec => []MapInv
  <1>1. PdInit => MapInv  BY MapInvInit DEF PdInit
  <1>2. MapInv /\ [Next]_vars => MapInv'  BY MapInvNext
  <1> QED  BY <1>1, <1>2, PTL DEF PdSpec

\* FmmusRight: no bit of the image belongs to two slaves, every byte of a slave is
\* mapped, and its data are in one piece behind its pointer, whatever the slaves.
THEOREM FmmusAreRight == PdSpec => []FmmusRight
  BY MapInvAlways, MapInvRight, PTL

\* SegmentsRight: the segments that the frames are cut from tile the image, fit
\* into a frame, and never tear a byte oriented slave apart, whatever the slaves.
THEOREM SegmentsAreRight == PdSpec => []SegmentsRight
  BY MapInvAlways, MapInvRight, PTL

-----------------------------------------------------------------------------
(* The exchange of process data.  What holds of the frames of a cycle.     *)

\* The datagrams of a frame with n bytes, with or without the clock's, and
\* what is on the stack.
Cmds == {"LRD", "LWR", "LRW"}
TxOf(c, n, d) == IF d THEN WithClock(setupdatagram(c, n)) ELSE setupdatagram(c, n)
Txs == {TxOf(t[1], t[2], t[3]) : t \in Cmds \X Nat \X BOOLEAN}
Frm == [cmd : Cmds, adr : Nat, to : Nat, length : Nat, dc : BOOLEAN, tx : Txs]

Start(k) == StartOf(IOsegment, k)
Addresses(fr) == fr.adr .. fr.adr + fr.length - 1
OnStack == 1 .. Len(idxstack)

\* No slave alone has more in one direction than a segment takes.
SmallDevices == \A d \in Outputs \cup Inputs : Bytes(d) < LIMIT

\* The image is cut into segments without a rest, and asked for where it is.
Sound == ~TableFull /\ ~Misread

PdTyped ==
    /\ hasdc \in BOOLEAN /\ first \in BOOLEAN /\ valid \in BOOLEAN /\ dcLost \in BOOLEAN
    /\ pc \in Cmds \cup {"app", "receive", "pull"}
    /\ cycle \in 0 .. MaxCycles /\ missed \subseteq fmmu
    /\ length \in Int /\ adr \in Nat /\ seg \in 0 .. MAXIOSEGMENTS
    /\ idxstack \in Seq(Frm) /\ Len(idxstack) <= MAXBUF /\ pulled \in 0 .. Len(idxstack)
    /\ wkc \in Int /\ wkc >= -1 /\ (pc # "app" => wkc >= 0)
    /\ pc = "app" => idxstack = <<>>
    /\ pc # "pull" => pulled = 0
    /\ ~Mapped => pc = "app" /\ cycle = 0 /\ image = <<>> /\ missed = {} /\ dctime = "none"
    /\ Mapped => image \in [0 .. 2 * LogAddr + LIMIT -> Content]
    /\ pc # "app" => cycle > 0 /\ sent \in [0 .. 2 * LogAddr + LIMIT -> Content]

\* The last byte of the image is closed.
Aligned == Mapped /\ ~overlap => BitPos = 0

\* A frame lies within the image and on its side of it.
RightIn(fr, g, o, size, short) ==
    /\ fr.tx = TxOf(fr.cmd, fr.length, fr.dc)
    /\ fr.cmd = "LRW" <=> g.blockLRW = 0
    /\ fr.cmd = "LRD" => fr.adr >= g.Obytes
    /\ fr.cmd = "LWR" => fr.adr + fr.length <= g.Obytes
    /\ fr.adr + fr.length <= size + (IF o /\ fr.cmd = "LRD" THEN g.Obytes ELSE 0)
    /\ fr.to = fr.adr + (IF o /\ fr.cmd = "LRW" THEN g.Obytes ELSE 0)
    /\ short => fr.length <= LIMIT
FrameRight(fr) == RightIn(fr, grp, overlap, LogicalSize, Small)
FramesRight == \A k \in OnStack : FrameRight(idxstack[k])

\* Where each of the three loops is.
Position ==
    /\ pc \in Cmds => (pc = "LRW" <=> grp.blockLRW = 0) /\ ImageSize > 0
    /\ pc = "LRW" => /\ seg \in 0 .. grp.nsegments - 1
                     /\ adr = Start(seg) /\ length = LogicalSize - adr
    /\ pc = "LRD" => /\ seg \in grp.Isegment .. grp.nsegments - 1 /\ grp.Ibytes > 0
                     /\ adr = grp.Obytes + (IF seg = grp.Isegment THEN 0 ELSE Start(seg) - Mark)
                     /\ length = grp.Ibytes - (adr - grp.Obytes)
                     /\ \A k \in OnStack : idxstack[k].cmd = "LRD"
    /\ pc = "LWR" => /\ seg \in 0 .. grp.nsegments - 1 /\ grp.Obytes > 0
                     /\ adr = Start(seg) /\ adr <= grp.Obytes /\ length = grp.Obytes - adr

\* The clock's datagram is in the first frame.
Clock ==
    /\ pc \in Cmds => (first <=> hasdc /\ idxstack = <<>>)
    /\ idxstack # <<>> =>
         /\ idxstack[1].dc = hasdc
         /\ hasdc => /\ DCl = idxstack[1].length
                     /\ DCtO = RxOffset(setupdatagram(idxstack[1].cmd, idxstack[1].length))
    /\ \A k \in OnStack : k > 1 => ~idxstack[k].dc
    /\ pc \in {"receive", "pull"} => (idxstack = <<>> <=> ImageSize = 0)
    /\ pc \in Cmds \cup {"receive"} => ~dcLost
    /\ pc = "pull" => /\ first => hasdc
                      /\ pulled = 0 => ~dcLost /\ (first <=> hasdc)
                      /\ first /\ pulled > 0 => dcLost
    /\ ~hasdc \/ (Mapped /\ ImageSize = 0) => dctime = "none"
    /\ (pc = "pull" /\ pulled > 0) \/ (pc = "app" /\ cycle > 0) =>
         (hasdc /\ ImageSize > 0 /\ ~dcLost => dctime = "clock")

\* The outputs in the image are those that were sent.
OutputsKept ==
    pc # "app" /\ ~dcLost => \A a \in 0 .. grp.Obytes - 1 : image[a] = sent[a]

\* The frames of one loop follow each other, each pair divided by the end of a
\* segment.
CutIn(G, n, a, b) == \E k \in 0 .. n : a <= StartOf(G, k) /\ StartOf(G, k) <= b
Cut(a, b) == CutIn(IOsegment, grp.nsegments, a, b)
Ordered ==
    Sound =>
      /\ \A i, j \in OnStack : i < j /\ idxstack[i].cmd = idxstack[j].cmd =>
             Cut(idxstack[i].adr + idxstack[i].length, idxstack[j].adr)
      /\ pc \in Cmds =>
           \A i \in OnStack : idxstack[i].cmd = pc => Cut(idxstack[i].adr + idxstack[i].length, adr)

\* How many there are so far.
Few ==
    Sound =>
      /\ pc = "LRW" => Len(idxstack) <= seg
      /\ pc = "LRD" => Len(idxstack) <= seg - grp.Isegment
      /\ pc = "LWR" => /\ seg <= grp.Isegment
                       /\ Len(idxstack) <= (IF grp.Ibytes > 0 THEN grp.nsegments - grp.Isegment ELSE 0) + seg

\* The bytes that the loops are done with are in a frame, or no frame was left
\* for them.
Done(a) == CASE pc = "LRW" -> a < adr
             [] pc = "LRD" -> grp.Obytes <= a /\ a < adr
             [] pc = "LWR" -> a < adr \/ grp.Obytes <= a
             [] OTHER -> TRUE
Dropped(a) == FramesPerCycle > MAXBUF /\ \A f \in fmmu : a \in FmmuBytes(f) => f \in missed
Carries ==
    Sound /\ pc # "app" =>
      \A a \in 0 .. LogicalSize - 1 :
         Done(a) => Dropped(a) \/ \E k \in OnStack : a \in Addresses(idxstack[k])

\* An input is of this cycle, or missed, or still to come.
Behind == IF overlap THEN grp.Obytes ELSE 0
Fresh ==
    Sound /\ ~dcLost /\ (pc = "pull" \/ (pc = "app" /\ cycle > 0)) =>
      \A a \in grp.Obytes - Behind .. grp.Obytes - Behind + grp.Ibytes - 1 :
         InputFmmus(a) # {} =>
            \/ InputFmmus(a) \cap missed # {}
            \/ image[a + Behind] = cycle
            \/ \E k \in pulled + 1 .. Len(idxstack) : a \in Addresses(idxstack[k])

\* What the work counter has counted.
Weight(f) == IF f.dir = "O" THEN 2 ELSE 1
ValueOf(S) == Sum([f \in fmmu |-> Weight(f)], S)
ServedBy(fr, F) ==
    {f \in F : /\ FmmuBytes(f) \cap Addresses(fr) # {}
               /\ fr.cmd \in {IF f.dir = "I" THEN "LRD" ELSE "LWR", "LRW"}}
Pending == UNION {ServedBy(idxstack[k], fmmu) : k \in pulled + 1 .. Len(idxstack)}
Tally ==
    Sound /\ EachInOneFrame /\ ~dcLost =>
      /\ pc \in Cmds \cup {"receive"} => wkc = 0 /\ ~valid
      /\ pc # "app" => missed \cap Pending = {}
      /\ pc \in Cmds /\ missed # {} => Len(idxstack) = MAXBUF
      /\ pc = "pull" => /\ wkc = ValueOf(fmmu \ (missed \cup Pending))
                        /\ ~valid \/ pulled = 0 => fmmu = missed \cup Pending
      /\ pc = "app" /\ cycle > 0 => IF valid THEN wkc = ValueOf(fmmu \ missed)
                                             ELSE wkc = -1 /\ missed = fmmu

PdInv == /\ PdTyped /\ Aligned /\ FramesRight /\ Position /\ Clock /\ OutputsKept /\ Ordered /\ Few
         /\ Carries /\ Fresh /\ Tally

-----------------------------------------------------------------------------
(* The datagrams of a frame.                                               *)

OneDatagram(s, n) ==
    /\ s.txbuflength = 28 + n /\ s.elength = 12 + n
    /\ Len(s.datagrams) = 1 /\ s.datagrams # <<>>
    /\ s.datagrams[1].data = 26 /\ s.datagrams[1].length = n /\ ~s.datagrams[1].more
TwoDatagrams(w, n) ==
    /\ w.txbuflength = 48 + n /\ w.elength = 32 + n
    /\ Len(w.datagrams) = 2 /\ w.datagrams # <<>> /\ DOMAIN w.datagrams = 1 .. 2
    /\ w.datagrams[1].data = 26 /\ w.datagrams[1].length = n /\ w.datagrams[1].more
    /\ w.datagrams[2].data = 38 + n /\ w.datagrams[2].length = 8
    /\ ~w.datagrams[2].more /\ w.datagrams[2].com = "FRMW"

\* Sequences of one and of two.
LEMMA OneIs ==
  ASSUME NEW x
  PROVE  Len(<<x>>) = 1 /\ <<x>> # <<>> /\ DOMAIN <<x>> = 1 .. 1 /\ <<x>>[1] = x /\ <<x>> \in Seq({x})
  OBVIOUS

\* One more on a stack.
LEMMA Appended ==
  ASSUME NEW S, NEW z \in Seq(S), NEW y \in S
  PROVE  /\ Append(z, y) \in Seq(S) /\ Len(Append(z, y)) = Len(z) + 1 /\ Append(z, y) # <<>>
         /\ \A k \in 1 .. Len(z) : Append(z, y)[k] = z[k]
         /\ Append(z, y)[Len(z) + 1] = y
  OBVIOUS

LEMMA TwoAre ==
  ASSUME NEW x, NEW y, NEW z, z = <<x>>
  PROVE  LET q == Append(z, y)
         IN  Len(q) = 2 /\ DOMAIN q = 1 .. 2 /\ q[1] = x /\ q[2] = y /\ q # <<>>
  <1> DEFINE S == {x, y}
             q == Append(z, y)
  <1>1. z \in Seq(S) /\ Len(z) = 1 /\ z[1] = x /\ y \in S  OBVIOUS
  <1> HIDE DEF S
  <1>2. q \in Seq(S) /\ Len(q) = 1 + 1 /\ q[1] = z[1] /\ q[1 + 1] = y /\ q # <<>>
    BY <1>1, Appended
  <1> HIDE DEF q
  <1>3. DOMAIN q = 1 .. 2  BY <1>2
  <1> QED  BY <1>1, <1>2, <1>3 DEF q

\* The flag of the only datagram set.
LEMMA Flagged ==
  ASSUME NEW x, NEW y
  PROVE  [<<x>> EXCEPT ![1].more = y] = <<[x EXCEPT !.more = y]>>
  <1> DEFINE f == [x EXCEPT !.more = y]
  <1>1. [<<x>> EXCEPT ![1].more = y] = [<<x>> EXCEPT ![1] = [<<x>>[1] EXCEPT !.more = y]]
    OBVIOUS
  <1>2. <<x>>[1] = x  BY OneIs
  <1>3. [<<x>> EXCEPT ![1].more = y] = [<<x>> EXCEPT ![1] = f]  BY <1>1, <1>2
  <1>4. \A g : [<<x>> EXCEPT ![1] = g] = <<g>>  OBVIOUS
  <1> HIDE DEF f
  <1>5. [<<x>> EXCEPT ![1].more = y] = <<f>>  BY <1>3, <1>4
  <1> QED  BY <1>5 DEF f

\* A frame with process data alone.
LEMMA SetupIs ==
  ASSUME NEW c, NEW n \in Nat
  PROVE  OneDatagram(setupdatagram(c, n), n)
  <1> DEFINE x == Datagram(c, 14 + 12, n, FALSE)
             s == setupdatagram(c, n)
  <1>1. s = [txbuflength |-> 14 + 12 + 2 + n, elength |-> 12 + n, datagrams |-> <<x>>]
    BY DEF setupdatagram, ETH_HEADERSIZE, EC_HEADERSIZE, EC_WKCSIZE
  <1>2. x.data = 26 /\ x.length = n /\ ~x.more  BY DEF Datagram
  <1> HIDE DEF x, s
  <1>3. s.datagrams = <<x>> /\ s.txbuflength = 14 + 12 + 2 + n /\ s.elength = 12 + n  BY <1>1
  <1>4. Len(s.datagrams) = 1 /\ s.datagrams # <<>> /\ s.datagrams[1] = x  BY <1>3, OneIs
  <1>5. s.txbuflength = 28 + n  BY <1>3
  <1> QED  BY <1>2, <1>3, <1>4, <1>5 DEF OneDatagram, s

\* A frame with the clock's datagram behind them.
LEMMA WithClockIs ==
  ASSUME NEW c, NEW n \in Nat
  PROVE  TwoDatagrams(WithClock(setupdatagram(c, n)), n)
  <1> DEFINE x == Datagram(c, 14 + 12, n, FALSE)
             s == setupdatagram(c, n)
             w == WithClock(s)
             f == [x EXCEPT !.more = TRUE]
             e == [s.datagrams EXCEPT ![1].more = TRUE]
             y == Datagram("FRMW", s.txbuflength + 12 - 2, 8, FALSE)
  <1>1. s.txbuflength = 28 + n /\ s.elength = 12 + n  BY SetupIs DEF OneDatagram
  <1>2. s.datagrams = <<x>>
    BY DEF setupdatagram, ETH_HEADERSIZE, EC_HEADERSIZE
  <1>3. f.data = 26 /\ f.length = n /\ f.more  BY DEF Datagram
  <1>4. w = [txbuflength |-> (s.txbuflength + 12 - 2) + 2 + 8, elength |-> s.elength + 12 + 8,
             datagrams |-> Append(e, y)]
    BY DEF WithClock, adddatagram, EC_HEADERSIZE, EC_ELENGTHSIZE, EC_WKCSIZE
  <1> HIDE DEF s, x, w
  <1>5. y.data = 38 + n /\ y.length = 8 /\ ~y.more /\ y.com = "FRMW"
    <2>1. y.data = s.txbuflength + 12 - 2 /\ y.length = 8 /\ ~y.more /\ y.com = "FRMW"
      BY DEF Datagram
    <2> HIDE DEF y
    <2> QED  BY <1>1, <2>1
  <1>6. e = <<f>>  BY <1>2, Flagged
  <1> HIDE DEF e, f, y
  <1> DEFINE q == Append(e, y)
  <1>7. Len(q) = 2 /\ DOMAIN q = 1 .. 2 /\ q[1] = f /\ q[2] = y /\ q # <<>>
    BY <1>6, TwoAre
  <1> HIDE DEF q
  <1>8. w.datagrams = q /\ w.txbuflength = (s.txbuflength + 12 - 2) + 2 + 8
        /\ w.elength = s.elength + 12 + 8
    BY <1>4 DEF q
  <1>9. w.txbuflength = 48 + n /\ w.elength = 32 + n  BY <1>1, <1>8
  <1> QED  BY <1>3, <1>5, <1>7, <1>8, <1>9 DEF w, s, TwoDatagrams

\* A frame with no more than a segment of process data can be sent.
LEMMA TxSendable ==
  ASSUME NEW c, NEW n \in Nat, n <= LIMIT, NEW d \in BOOLEAN
  PROVE  Sendable(TxOf(c, n, d))
  <1>1. n <= 1466
    <2>1. LIMIT <= 1466
      BY ProcessDataAssumption DEF ProcessDataAssumption, EC_MAXLRWDATA, EC_MAXECATFRAME,
         EC_FIRSTDCDATAGRAM
    <2> QED  BY <2>1, Parameters
  <1>2. CASE d = FALSE
    <2> DEFINE fr == setupdatagram(c, n)
    <2>1. TxOf(c, n, d) = fr  BY <1>2 DEF TxOf
    <2>2. OneDatagram(fr, n)  BY SetupIs
    <2> HIDE DEF fr
    <2>3. LaidOut(fr)
      BY <2>2 DEF OneDatagram, LaidOut, Last, ETH_HEADERSIZE, EC_HEADERSIZE, EC_WKCSIZE, EC_ELENGTHSIZE
    <2>4. Sendable(fr)
      BY <1>1, <2>2, <2>3 DEF OneDatagram, TwoDatagrams, Sendable, Last, InframeWkc, RxWkc, RxData, ETH_HEADERSIZE, EC_MAXECATFRAME
    <2> QED  BY <2>1, <2>4
  <1>3. CASE d = TRUE
    <2> DEFINE fr == WithClock(setupdatagram(c, n))
    <2>1. TxOf(c, n, d) = fr  BY <1>3 DEF TxOf
    <2>2. TwoDatagrams(fr, n)  BY WithClockIs
    <2> HIDE DEF fr
    <2>3. LaidOut(fr)
      <3>1. \A k \in 1 .. Len(fr.datagrams) - 1 : k = 1  BY <2>2 DEF TwoDatagrams
      <3> QED
        BY <2>2, <3>1 DEF TwoDatagrams, LaidOut, Last, ETH_HEADERSIZE, EC_HEADERSIZE, EC_WKCSIZE, EC_ELENGTHSIZE
    <2>4. Sendable(fr)
      BY <1>1, <2>2, <2>3 DEF OneDatagram, TwoDatagrams, Sendable, Last, InframeWkc, RxWkc, RxData, ETH_HEADERSIZE, EC_MAXECATFRAME
    <2> QED  BY <2>1, <2>4
  <1> QED  BY <1>2, <1>3

\* Where the counters of a frame lie, and the time of the clock.
LEMMA TxPlaces ==
  ASSUME NEW c, NEW n \in Nat
  PROVE  /\ \A d \in BOOLEAN : RxWkc(TxOf(c, n, d), 1) = EC_HEADERSIZE + n
         /\ InframeWkc(TxOf(c, n, FALSE)) = EC_HEADERSIZE + n
         /\ \E k \in DOMAIN TxOf(c, n, TRUE).datagrams :
              /\ TxOf(c, n, TRUE).datagrams[k].com = "FRMW"
              /\ TxOf(c, n, TRUE).datagrams[k].length = 8
              /\ RxData(TxOf(c, n, TRUE), k) = RxOffset(setupdatagram(c, n))
  <1> DEFINE s == setupdatagram(c, n)
             w == WithClock(s)
  <1>1. TxOf(c, n, FALSE) = s /\ TxOf(c, n, TRUE) = w  BY DEF TxOf
  <1>2. OneDatagram(s, n) /\ TwoDatagrams(w, n)  BY SetupIs, WithClockIs
  <1> HIDE DEF s, w
  <1>4. RxWkc(s, 1) = 12 + n /\ RxWkc(w, 1) = 12 + n /\ InframeWkc(s) = 12 + n
        /\ RxData(w, 2) = 24 + n /\ RxOffset(s) = 24 + n
    BY <1>2 DEF OneDatagram, TwoDatagrams, RxWkc, RxData, RxOffset, InframeWkc, ETH_HEADERSIZE, EC_HEADERSIZE, EC_ELENGTHSIZE
  <1>5. \A d \in BOOLEAN : RxWkc(TxOf(c, n, d), 1) = 12 + n
    BY <1>1, <1>4
  <1>6. 2 \in DOMAIN w.datagrams /\ w.datagrams[2].length = 8 /\ w.datagrams[2].com = "FRMW"
    BY <1>2 DEF TwoDatagrams
  <1> QED  BY <1>1, <1>4, <1>5, <1>6 DEF EC_HEADERSIZE, s

-----------------------------------------------------------------------------
(* The layout, once it is there.                                           *)

Layout ==
    /\ LogicalSize \in Nat /\ LogAddr = LogicalSize
    /\ grp.Obytes \in Nat /\ grp.Ibytes \in Nat /\ grp.blockLRW \in Nat
    /\ grp.Isegment \in Nat /\ grp.Ioffset \in Nat /\ Mark \in Nat
    /\ grp.nsegments \in Nat /\ grp.nsegments >= 1 /\ grp.nsegments <= MAXIOSEGMENTS
    /\ grp.Isegment < grp.nsegments /\ grp.Ioffset <= IOsegment[grp.Isegment]
    /\ Mark = Start(grp.Isegment) + grp.Ioffset
    /\ Start(0) = 0
    /\ \A k \in 0 .. grp.nsegments : Start(k) \in Nat
    /\ \A k \in 0 .. grp.nsegments - 1 : IOsegment[k] \in Nat /\ Start(k + 1) = Start(k) + IOsegment[k]
    /\ \A k \in 0 .. grp.nsegments : \A j \in 0 .. k : Start(j) <= Start(k)
    /\ Start(grp.nsegments) <= LogicalSize /\ (~TableFull => Start(grp.nsegments) = LogicalSize)
    /\ ~overlap => /\ LogicalSize = grp.Obytes + grp.Ibytes
                   /\ Mark <= grp.Obytes /\ (~TableFull => Mark = grp.Obytes)
                   /\ Start(grp.nsegments) + grp.Obytes <= LogicalSize + Mark
    /\ overlap => /\ grp.Isegment = 0 /\ Mark = 0
                  /\ grp.Obytes <= LogicalSize /\ grp.Ibytes <= LogicalSize
                  /\ LogicalSize <= grp.Obytes + grp.Ibytes
                  /\ LogicalSize = grp.Obytes \/ LogicalSize = grp.Ibytes

\* What the invariant of the mapping says of an image that is mapped.
LEMMA LayoutIs ==
  ASSUME MapInv, Mapped
  PROVE  Layout
  <1>1. SegTyped /\ MapTyped /\ Segmented  BY SegTypedIs DEF MapInv
  <1>2. /\ grp.Obytes \in Nat /\ grp.Ibytes \in Nat /\ grp.blockLRW \in Nat
        /\ grp.Isegment \in Nat /\ grp.Ioffset \in Nat /\ LogAddr \in Nat /\ oLogAddr \in Nat
        /\ overlap \in BOOLEAN
    BY <1>1 DEF MapTyped, Group
  <1>3. /\ currentsegment \in Nat /\ currentsegment <= MAXIOSEGMENTS - 1 /\ MAXIOSEGMENTS \in Nat
        /\ grp.nsegments = currentsegment + 1
    BY <1>1, Parameters DEF SegTyped, Segmented
  <1>4. /\ \A k \in 0 .. MAXIOSEGMENTS : Start(k) \in Nat
        /\ Start(0) = 0
        /\ \A k \in 0 .. MAXIOSEGMENTS - 1 : Start(k + 1) = Start(k) + IOsegment[k]
    BY <1>1, StartFacts DEF Start, SegTyped
  <1>5. \A k \in 0 .. MAXIOSEGMENTS - 1 : IOsegment[k] \in Nat  BY <1>1 DEF SegTyped, Table
  <1> DEFINE N == grp.nsegments
  <1>6. /\ N \in Nat /\ N >= 1 /\ N <= MAXIOSEGMENTS /\ N - 1 = currentsegment
        /\ \A k \in 0 .. N : k \in 0 .. MAXIOSEGMENTS
        /\ \A k \in 0 .. N - 1 : k \in 0 .. MAXIOSEGMENTS - 1
    BY <1>3
  <1>7. Start(N) = Total /\ Total <= oLogAddr /\ (~TableFull => Total = oLogAddr)
        /\ LogAddr = oLogAddr /\ LogicalSize = LogAddr
    <2>1. IOsegment[currentsegment] = segmentsize  BY <1>1 DEF Segmented
    <2>2. Start(currentsegment + 1) = Start(currentsegment) + IOsegment[currentsegment]
      BY <1>3, <1>4
    <2>3. Base = Start(currentsegment)  BY DEF Base, Start
    <2> QED  BY <1>1, <1>3, <2>1, <2>2, <2>3 DEF Segmented, Total
  <1>8. \A k \in 0 .. N : \A j \in 0 .. k : Start(j) <= Start(k)
    <2> DEFINE S == {k \in Nat : k <= MAXIOSEGMENTS => \A j \in 0 .. k : Start(j) <= Start(k)}
    <2>1. 0 \in S
      <3>1. \A j \in 0 .. 0 : j = 0  OBVIOUS
      <3> QED  BY <1>4, <3>1
    <2>2. ASSUME NEW k \in Nat, k \in S PROVE k + 1 \in S
      <3> SUFFICES ASSUME k + 1 <= MAXIOSEGMENTS, NEW j \in 0 .. k + 1 PROVE Start(j) <= Start(k + 1)
        OBVIOUS
      <3>1. k \in 0 .. MAXIOSEGMENTS - 1 /\ k \in 0 .. MAXIOSEGMENTS /\ k + 1 \in 0 .. MAXIOSEGMENTS
        BY <1>3
      <3>2. Start(k) \in Nat /\ Start(k + 1) = Start(k) + IOsegment[k] /\ IOsegment[k] \in Nat
        BY <1>4, <1>5, <3>1
      <3>3. CASE j = k + 1  BY <3>2, <3>3
      <3>4. CASE j \in 0 .. k
        <4>1. j \in 0 .. MAXIOSEGMENTS  BY <1>3, <3>1, <3>4
        <4>2. Start(j) <= Start(k) /\ Start(j) \in Nat  BY <1>4, <2>2, <3>1, <3>4, <4>1
        <4> QED  BY <3>2, <4>2
      <3> QED  BY <3>3, <3>4
    <2> HIDE DEF S
    <2>3. \A k \in Nat : k \in S  BY <2>1, <2>2, Induction
    <2> QED  BY <1>6, <2>3 DEF S
  <1>9. /\ ~overlap => /\ grp.Isegment <= currentsegment /\ grp.Ioffset <= Size(grp.Isegment)
                       /\ Mark <= grp.Obytes /\ (~TableFull => Mark = grp.Obytes)
                       /\ Total + grp.Obytes <= oLogAddr + Mark
        /\ overlap => grp.Isegment = 0 /\ grp.Ioffset = 0
    BY <1>1 DEF Segmented, Mapped
  <1>10. grp.Isegment < N /\ grp.Isegment \in 0 .. N - 1 /\ grp.Isegment \in 0 .. MAXIOSEGMENTS
         /\ grp.Isegment \in 0 .. MAXIOSEGMENTS - 1 /\ grp.Ioffset <= IOsegment[grp.Isegment]
    <2>1. grp.Isegment <= currentsegment  BY <1>2, <1>3, <1>9
    <2>2. Size(grp.Isegment) = IOsegment[grp.Isegment]
      <3>1. IOsegment[currentsegment] = segmentsize  BY <1>1 DEF Segmented
      <3>2. grp.Isegment < currentsegment \/ grp.Isegment = currentsegment  BY <1>2, <1>3, <2>1
      <3> QED  BY <1>3, <3>1, <3>2 DEF Size
    <2>3. grp.Isegment \in 0 .. MAXIOSEGMENTS - 1  BY <1>2, <1>3, <2>1
    <2>4. IOsegment[grp.Isegment] \in Nat  BY <1>5, <2>3
    <2> QED  BY <1>2, <1>3, <1>9, <2>1, <2>2, <2>3, <2>4
  <1>11. Mark = Start(grp.Isegment) + grp.Ioffset /\ Mark \in Nat
    <2>1. Start(grp.Isegment) \in Nat  BY <1>4, <1>10
    <2> QED  BY <1>2, <2>1 DEF Mark, Start
  <1>12. overlap => /\ grp.Obytes <= LogicalSize /\ grp.Ibytes <= LogicalSize
                    /\ LogicalSize <= grp.Obytes + grp.Ibytes
                    /\ LogicalSize = grp.Obytes \/ LogicalSize = grp.Ibytes
    <2>1. Max({grp.Obytes, grp.Ibytes}) = IF grp.Obytes >= grp.Ibytes THEN grp.Obytes ELSE grp.Ibytes
      BY <1>2, MaxOfTwo
    <2> QED  BY <1>2, <2>1 DEF LogicalSize
  <1>13. ~overlap => LogicalSize = grp.Obytes + grp.Ibytes  BY DEF LogicalSize
  <1>14. overlap => Mark = 0
    <2> SUFFICES ASSUME overlap PROVE Mark = 0  OBVIOUS
    <2> QED  BY <1>4, <1>9, <1>11
  <1>15. /\ \A k \in 0 .. N : Start(k) \in Nat
         /\ \A k \in 0 .. N - 1 : IOsegment[k] \in Nat /\ Start(k + 1) = Start(k) + IOsegment[k]
    BY <1>4, <1>5, <1>6
  <1>16. LogicalSize \in Nat /\ LogAddr = LogicalSize  BY <1>2, <1>7
  <1>17. Start(N) <= LogicalSize /\ (~TableFull => Start(N) = LogicalSize)  BY <1>2, <1>7
  <1>18. ~overlap => Start(N) + grp.Obytes <= LogicalSize + Mark  BY <1>7, <1>9
  <1> QED
    BY <1>2, <1>4, <1>6, <1>8, <1>9, <1>10, <1>11, <1>12, <1>13, <1>14, <1>15, <1>16, <1>17, <1>18
    DEF Layout

\* The mapping is over once it is there.
LEMMA MappedStays ==
  ASSUME MapInv, Mapped
  PROVE  ~MapNext
  BY DEF Mapped, MapNext, MapBits, MapBytes, MapEmpty, MapsFmmu, EndSlave, SlaveMapped, EndOutputs, EndInputs,
     EndOverlapOutputs, EndOverlapInputs, EndOverlap, EndOverlapMap

\* What is read off the layout stays as it is.
LEMMA Still ==
  ASSUME UNCHANGED mapVars
  PROVE  /\ Mapped' = Mapped /\ grp' = grp /\ overlap' = overlap /\ fmmu' = fmmu
         /\ LogAddr' = LogAddr /\ IOsegment' = IOsegment /\ slaves' = slaves
         /\ Small' = Small /\ LogicalSize' = LogicalSize /\ ImageSize' = ImageSize /\ Mark' = Mark
         /\ Sound' = Sound /\ EachInOneFrame' = EachInOneFrame
         /\ FramesPerCycle' = FramesPerCycle /\ expectedWKC' = expectedWKC /\ Behind' = Behind
         /\ \A k : Start(k)' = Start(k)
         /\ \A a : InputFmmus(a)' = InputFmmus(a)
         /\ \A a, b : Cut(a, b)' = Cut(a, b)
         /\ \A fr : FrameRight(fr)' = FrameRight(fr)
         /\ \A S : ValueOf(S)' = ValueOf(S)
  <1>1. /\ grp' = grp /\ overlap' = overlap /\ fmmu' = fmmu /\ LogAddr' = LogAddr
        /\ IOsegment' = IOsegment /\ slaves' = slaves /\ phase' = phase
        /\ currentsegment' = currentsegment
    BY DEF mapVars, fmmus, cursor, segs
  <1>2. LogicalSize' = LogicalSize /\ ImageSize' = ImageSize /\ Mark' = Mark /\ Mapped' = Mapped
        /\ FramesPerCycle' = FramesPerCycle /\ expectedWKC' = expectedWKC /\ Behind' = Behind
    BY <1>1 DEF LogicalSize, ImageSize, Mark, Mapped, FramesPerCycle, expectedWKC, Behind
  <1>0. Small' = Small  BY <1>1 DEF Small, Bytes, NeedBytes
  <1>3. Sound' = Sound  BY <1>1 DEF Sound, TableFull, Misread
  <1>4. EachInOneFrame' = EachInOneFrame
    <2>1. (\A k : SegmentStart(k) = StartOf(IOsegment, k))'  BY StartIs, PTL
    <2>2. \A k : StartOf(IOsegment, k)' = StartOf(IOsegment, k)  BY <1>1 DEF StartOf
    <2>3. \A k : SegmentStart(k)' = SegmentStart(k)  BY <2>1, <2>2, StartIs
    <2> QED  BY <1>1, <2>3 DEF EachInOneFrame, Segments
  <1>5. (\A k : Start(k)' = Start(k)) /\ (\A a : InputFmmus(a)' = InputFmmus(a))
    BY <1>1 DEF Start, InputFmmus
  <1>6. \A a, b : Cut(a, b)' = Cut(a, b)  BY <1>1 DEF Cut
  <1>7. \A fr : FrameRight(fr)' = FrameRight(fr)  BY <1>0, <1>1, <1>2 DEF FrameRight
  <1>8. \A S : ValueOf(S)' = ValueOf(S)  BY <1>1 DEF ValueOf
  <1> QED  BY <1>0, <1>1, <1>2, <1>3, <1>4, <1>5, <1>6, <1>7, <1>8

-----------------------------------------------------------------------------
(* One frame.                                                              *)

\* What comes of n bytes more: a frame on its side of the image and within one
\* segment, and where the loop goes on, or that it is through.
Advances(n) ==
    /\ n \in Nat /\ n <= IOsegment[seg]
    /\ pc = "LRD" => adr >= grp.Obytes
    /\ pc = "LWR" => adr + n <= grp.Obytes
    /\ adr + n <= LogicalSize + (IF overlap /\ pc = "LRD" THEN grp.Obytes ELSE 0)
    /\ Sound =>
         /\ Start(seg) <= adr /\ adr + n <= Start(seg + 1)
         /\ length # n => adr + n = Start(seg + 1)
         /\ length = n \/ ~(seg + 1 < grp.nsegments) =>
              adr + n = (IF pc = "LWR" THEN grp.Obytes ELSE LogicalSize)
         /\ pc = "LWR" /\ length # n => seg + 1 <= grp.Isegment
    /\ length # n /\ seg + 1 < grp.nsegments =>
         adr + n = (IF pc = "LRD" THEN grp.Obytes + (Start(seg + 1) - Mark) ELSE Start(seg + 1))

\* Each loop takes the rest of its segment, or all that is left.
LEMMA LRWAdvances ==
  ASSUME Layout, Position, pc = "LRW"
  PROVE  Advances(IOsegment[seg]) /\ seg \in 0 .. grp.nsegments - 1
  <1> DEFINE n == IOsegment[seg]
             N == grp.nsegments
             L == LogicalSize
  <1>1. seg \in 0 .. N - 1 /\ adr = Start(seg) /\ length = L - adr
    BY DEF Position
  <1>2. /\ N \in Nat /\ L \in Nat /\ grp.Obytes \in Nat
        /\ Start(N) <= L /\ (~TableFull => Start(N) = L)
    BY DEF Layout
  <1>3. seg \in 0 .. N /\ seg + 1 \in 0 .. N /\ N \in 0 .. N /\ seg + 1 \in 0 .. N  BY <1>1, <1>2
  <1>4. /\ Start(seg) \in Nat /\ Start(seg + 1) \in Nat /\ Start(N) \in Nat /\ n \in Nat
        /\ Start(seg + 1) = Start(seg) + n
    BY <1>1, <1>3 DEF Layout
  <1>5. Start(seg + 1) <= Start(N)  BY <1>3 DEF Layout
  <1> HIDE DEF n, N, L
  <1>6. adr + n = Start(seg + 1)  BY <1>1, <1>4
  <1>7. adr + n <= L  BY <1>2, <1>4, <1>5, <1>6
  <1>8. length = n => adr + n = L  BY <1>1, <1>2, <1>4
  <1>9. ~(seg + 1 < N) => seg + 1 = N  BY <1>1, <1>2
  <1>10. Sound => ~TableFull  BY DEF Sound
  <1>11. Sound /\ ~(seg + 1 < N) => adr + n = L  BY <1>2, <1>6, <1>9, <1>10
  <1>12. adr <= adr /\ adr + n <= adr + n /\ n <= n  BY <1>1, <1>4
  <1>13. pc # "LRD" /\ pc # "LWR"  OBVIOUS
  <1>14. L + (IF overlap /\ pc = "LRD" THEN grp.Obytes ELSE 0) = L  BY <1>2
  <1> QED
    BY <1>1, <1>4, <1>6, <1>7, <1>8, <1>14, <1>11, <1>12, <1>13 DEF Advances, n, N, L

LEMMA LRDAdvances ==
  ASSUME Layout, Position, pc = "LRD", overlap \in BOOLEAN
  PROVE  /\ Advances(IF seg = grp.Isegment THEN IOsegment[seg] - grp.Ioffset ELSE IOsegment[seg])
         /\ seg \in 0 .. grp.nsegments - 1
  <1> DEFINE n == IF seg = grp.Isegment THEN IOsegment[seg] - grp.Ioffset ELSE IOsegment[seg]
             z == IOsegment[seg]
             N == grp.nsegments
             L == LogicalSize
             O == grp.Obytes
             i == grp.Isegment
             m == Mark
             s == Start(seg)
             e == Start(seg + 1)
             b == L + (IF overlap THEN O ELSE 0)
  <1>1. seg \in i .. N - 1 /\ adr = O + (IF seg = i THEN 0 ELSE s - m)
        /\ length = grp.Ibytes - (adr - O) /\ grp.blockLRW # 0
    BY DEF Position, Cmds
  <1>2. /\ N \in Nat /\ L \in Nat /\ O \in Nat /\ i \in Nat /\ m \in Nat /\ grp.Ioffset \in Nat
        /\ grp.Ibytes \in Nat /\ grp.blockLRW \in Nat /\ i < N /\ grp.Ioffset <= IOsegment[i]
        /\ m = Start(i) + grp.Ioffset /\ Start(N) <= L
    BY DEF Layout
  <1>3. seg \in 0 .. N - 1 /\ seg \in 0 .. N /\ seg + 1 \in 0 .. N /\ N \in 0 .. N /\ i \in 0 .. N
        /\ i \in 0 .. N - 1 /\ i + 1 \in 0 .. N
    BY <1>1, <1>2
  <1>4. /\ s \in Nat /\ e \in Nat /\ Start(N) \in Nat /\ z \in Nat /\ e = s + z
        /\ Start(i) \in Nat /\ Start(i + 1) \in Nat /\ IOsegment[i] \in Nat
        /\ Start(i + 1) = Start(i) + IOsegment[i]
    BY <1>3 DEF Layout
  <1>5. e <= Start(N)  BY <1>3 DEF Layout
  <1>6. ~(seg = i) => Start(i + 1) <= s
    <2> SUFFICES ASSUME ~(seg = i) PROVE Start(i + 1) <= s  OBVIOUS
    <2>1. i + 1 \in 0 .. seg  BY <1>1, <1>2
    <2> QED  BY <1>3, <2>1 DEF Layout
  <1>7. /\ ~overlap => /\ L = O + grp.Ibytes /\ m <= O /\ (~TableFull => m = O)
                       /\ Start(N) + O <= L + m
        /\ overlap => m = 0
        /\ ~TableFull => Start(N) = L
    BY DEF Layout
  <1>8. Sound => ~overlap /\ ~TableFull
    <2>1. grp.blockLRW > 0  BY <1>1, <1>2
    <2> QED  BY <2>1 DEF Sound, Misread
  <1>9. seg = i => n = z - grp.Ioffset /\ z = IOsegment[i] /\ s = Start(i)  OBVIOUS
  <1>10. seg # i => n = z  OBVIOUS
  <1>11. pc # "LWR"  OBVIOUS
  <1>12. L + (IF overlap /\ pc = "LRD" THEN grp.Obytes ELSE 0) = b  OBVIOUS
  <1>13. b \in Nat /\ (overlap => b = L + O) /\ (~overlap => b = L)  BY <1>2
  <1>x. seg + 1 \in Nat /\ seg \in Nat  BY <1>3
  <1> DEFINE I == grp.Ibytes
             sN == Start(N)
             si == Start(i)
             si1 == Start(i + 1)
             q == grp.Ioffset
             zi == IOsegment[i]
  <1> HIDE DEF n, z, N, L, O, i, m, s, e, b, I, sN, si, si1, q, zi
  <1>14. n \in Nat /\ n <= z /\ adr \in Nat /\ O <= adr /\ adr + n = O + (e - m)
    <2>1. CASE seg = i
      <3>1. n = z - q /\ q <= z /\ q \in Nat /\ m = s + q /\ adr = O
        BY <1>1, <1>2, <1>9, <2>1 DEF q, i
      <3> QED  BY <1>2, <1>4, <3>1
    <2>2. CASE seg # i
      <3>1. n = z /\ m <= s /\ adr = O + (s - m)
        <4>1. si1 <= s /\ q <= zi /\ si1 = si + zi /\ m = si + q
          BY <1>2, <1>4, <1>6, <2>2 DEF q, zi, si, si1
        <4>2. si \in Nat /\ zi \in Nat /\ q \in Nat  BY <1>2, <1>4 DEF q, zi, si
        <4> QED  BY <1>1, <1>2, <1>4, <1>10, <2>2, <4>1, <4>2
      <3> QED  BY <1>2, <1>4, <3>1
    <2> QED  BY <2>1, <2>2
  <1>15. adr + n <= b
    <2>1. CASE overlap
      <3>1. m = 0 /\ b = L + O /\ e <= L  BY <1>2, <1>4, <1>5, <1>7, <1>13, <2>1
      <3> QED  BY <1>2, <1>4, <1>14, <3>1
    <2>2. CASE ~overlap
      <3>1. sN + O <= L + m /\ b = L /\ e <= sN /\ sN \in Nat  BY <1>4, <1>5, <1>7, <1>13, <2>2 DEF sN
      <3> QED  BY <1>2, <1>4, <1>14, <3>1
    <2> QED  BY <2>1, <2>2
  <1>16. Sound => s <= adr /\ adr + n = e
    <2> SUFFICES ASSUME Sound PROVE s <= adr /\ adr + n = e  OBVIOUS
    <2>1. m = O  BY <1>7, <1>8
    <2>2. adr + n = e  BY <1>2, <1>4, <1>14, <2>1
    <2>3. n <= z /\ e = s + z  BY <1>4, <1>14
    <2> QED  BY <1>2, <1>4, <1>14, <2>2, <2>3
  <1>17. Sound /\ (length = n \/ ~(seg + 1 < N)) => adr + n = L
    <2> SUFFICES ASSUME Sound, length = n \/ ~(seg + 1 < N) PROVE adr + n = L  OBVIOUS
    <2>1. m = O /\ L = O + I /\ sN = L /\ I \in Nat  BY <1>2, <1>7, <1>8 DEF I, sN
    <2>2. CASE length = n
      <3>1. length = I - (adr - O)  BY <1>1 DEF I
      <3> QED  BY <1>2, <1>14, <2>1, <2>2, <3>1
    <2>3. CASE ~(seg + 1 < N)
      <3>1. seg + 1 = N  BY <1>2, <1>3, <2>3
      <3>2. e = sN  BY <3>1 DEF e, sN
      <3> QED  BY <1>16, <2>1, <3>2
    <2> QED  BY <2>2, <2>3
  <1>18. Sound => adr + n <= e
    BY <1>4, <1>16
  <1> QED
    BY <1>3, <1>11, <1>12, <1>14, <1>15, <1>16, <1>17, <1>18 DEF Advances, n, z, N, L, O, m, s, e

LEMMA LWRAdvances ==
  ASSUME Layout, Position, pc = "LWR", overlap \in BOOLEAN
  PROVE  Advances(Min({IOsegment[seg], length})) /\ seg \in 0 .. grp.nsegments - 1
  <1> DEFINE n == Min({IOsegment[seg], length})
             z == IOsegment[seg]
             N == grp.nsegments
             L == LogicalSize
             O == grp.Obytes
             i == grp.Isegment
             s == Start(seg)
             e == Start(seg + 1)
  <1>1. seg \in 0 .. N - 1 /\ adr = s /\ adr <= O /\ length = O - adr /\ grp.blockLRW # 0
    BY DEF Position, Cmds
  <1>2. /\ N \in Nat /\ L \in Nat /\ O \in Nat /\ i \in Nat /\ grp.blockLRW \in Nat
        /\ i < N /\ grp.Ioffset <= IOsegment[i] /\ grp.Ioffset \in Nat
        /\ Mark = Start(i) + grp.Ioffset /\ O <= L
    <2>1. CASE overlap  BY <2>1 DEF Layout
    <2>2. CASE ~overlap
      <3>1. L = O + grp.Ibytes /\ O \in Nat /\ grp.Ibytes \in Nat  BY <2>2 DEF Layout
      <3>2. O <= L  BY <3>1
      <3> QED  BY <3>2 DEF Layout
    <2> QED  BY <2>1, <2>2
  <1>3. seg \in Nat /\ seg \in 0 .. N /\ seg + 1 \in 0 .. N /\ i \in 0 .. N - 1 /\ i \in 0 .. N
        /\ i + 1 \in 0 .. N /\ i + 1 \in Nat
    BY <1>1, <1>2
  <1>4. /\ s \in Nat /\ e \in Nat /\ z \in Nat /\ e = s + z
        /\ Start(i) \in Nat /\ Start(i + 1) \in Nat /\ IOsegment[i] \in Nat
        /\ Start(i + 1) = Start(i) + IOsegment[i]
    BY <1>1, <1>3 DEF Layout
  <1>5. Sound => ~overlap /\ ~TableFull /\ Mark = O /\ Start(N) = L
    <2>1. grp.blockLRW > 0  BY <1>1, <1>2
    <2>2. Sound => ~overlap /\ ~TableFull  BY <2>1 DEF Sound, Misread
    <2> QED  BY <2>2 DEF Layout
  <1>6. seg + 1 > i => Start(i + 1) <= e
    <2> SUFFICES ASSUME seg + 1 > i PROVE Start(i + 1) <= e  OBVIOUS
    <2>1. i + 1 \in 0 .. seg + 1  BY <1>2, <1>3
    <2> QED  BY <1>3, <2>1 DEF Layout
  <1>7. n = IF z <= length THEN z ELSE length
    <2>1. z \in Int /\ length \in Int  BY <1>1, <1>2, <1>4
    <2> QED  BY <2>1, MinOfTwo
  <1>8. pc # "LRD"  OBVIOUS
  <1>9. L + (IF overlap /\ pc = "LRD" THEN grp.Obytes ELSE 0) = L  BY <1>2
  <1> DEFINE si1 == Start(i + 1)
             si == Start(i)
             q == grp.Ioffset
             zi == IOsegment[i]
             sN == Start(N)
             m == Mark
  <1> HIDE DEF n, z, N, L, O, i, s, e, si1, si, q, zi, sN, m
  <1>10. length \in Nat /\ adr + length = O /\ adr \in Nat
    BY <1>1, <1>2, <1>4
  <1>11. n \in Nat /\ n <= z /\ n <= length  BY <1>4, <1>7, <1>10
  <1>12. adr + n <= O /\ adr + n <= L /\ adr + n <= e  BY <1>1, <1>2, <1>4, <1>10, <1>11
  <1>13. length # n => adr + n = e  BY <1>1, <1>4, <1>7
  <1>14. length = n => adr + n = O  BY <1>10
  <1>15. Sound /\ ~(seg + 1 < N) => adr + n = O
    <2> SUFFICES ASSUME Sound, ~(seg + 1 < N), length # n PROVE adr + n = O  BY <1>14
    <2>1. seg + 1 = N  BY <1>2, <1>3
    <2>2. e = sN /\ sN = L  BY <1>5, <2>1 DEF e, sN
    <2>3. adr + n = L  BY <1>13, <2>2
    <2> QED  BY <1>2, <1>10, <1>11, <1>12, <2>3
  <1>16. Sound /\ length # n => seg + 1 <= i
    <2> SUFFICES ASSUME Sound, length # n, seg + 1 > i PROVE FALSE  BY <1>2, <1>3
    <2>1. si1 <= e /\ si1 = si + zi /\ m = si + q /\ m = O /\ q <= zi
      BY <1>2, <1>4, <1>5, <1>6 DEF si1, si, zi, q, m
    <2>2. si \in Nat /\ zi \in Nat /\ q \in Nat  BY <1>2, <1>4 DEF si, zi, q
    <2>3. O <= e  BY <1>2, <1>4, <2>1, <2>2
    <2>4. adr + n < O  BY <1>10, <1>11
    <2> QED  BY <1>2, <1>4, <1>13, <2>3, <2>4
  <1>17. s <= adr  BY <1>1, <1>4
  <1> QED
    BY <1>1, <1>8, <1>9, <1>11, <1>12, <1>13, <1>14, <1>15, <1>16, <1>17
    DEF Advances, n, z, N, L, O, i, s, e

\* So the loop at work does, whichever it is.
LEMMA SendAdvances ==
  ASSUME Layout, Position, MapInv, pc \in Cmds
  PROVE  Advances(sublength) /\ seg \in 0 .. grp.nsegments - 1
  <1>0. overlap \in BOOLEAN  BY DEF MapInv, MapTyped
  <1>1. CASE pc = "LRW"
    <2>1. sublength = IOsegment[seg]  BY <1>1 DEF sublength
    <2> QED  BY <1>1, <2>1, LRWAdvances
  <1>2. CASE pc = "LRD"
    <2>1. sublength = IF seg = grp.Isegment THEN IOsegment[seg] - grp.Ioffset ELSE IOsegment[seg]
      BY <1>2 DEF sublength
    <2> QED  BY <1>0, <1>2, <2>1, LRDAdvances
  <1>3. CASE pc = "LWR"
    <2>1. sublength = Min({IOsegment[seg], length})  BY <1>3 DEF sublength
    <2> QED  BY <1>0, <1>3, <2>1, LWRAdvances
  <1> QED  BY <1>1, <1>2, <1>3 DEF Cmds

\* The frame that is sent.
NewFrame == [cmd |-> pc, adr |-> adr, to |-> Place, length |-> sublength, dc |-> first,
             tx |-> TxOf(pc, sublength, first)]

\* No segment is longer than a frame takes.
LEMMA SegmentsShort ==
  ASSUME MapInv, Layout, Small, NEW k \in 0 .. grp.nsegments - 1
  PROVE  IOsegment[k] <= LIMIT
  <1>1. k \in 0 .. MAXIOSEGMENTS - 1  BY Parameters DEF Layout
  <1> QED  BY <1>1 DEF MapInv, Fits, Short

\* The frame that is sent lies within the image and on its side of it.
LEMMA NewFrameRight ==
  ASSUME Layout, Position, MapInv, PdTyped, pc \in Cmds
  PROVE  NewFrame \in Frm /\ FrameRight(NewFrame)
  <1> DEFINE n == sublength
             fr == [cmd |-> pc, adr |-> adr, to |-> Place, length |-> n, dc |-> first,
                    tx |-> TxOf(pc, n, first)]
  <1>1. Advances(n) /\ seg \in 0 .. grp.nsegments - 1  BY SendAdvances
  <1>2. n \in Nat /\ n <= IOsegment[seg] /\ IOsegment[seg] \in Nat
    BY <1>1 DEF Advances, Layout
  <1>3. adr \in Nat /\ first \in BOOLEAN /\ grp.Obytes \in Nat /\ overlap \in BOOLEAN
    BY DEF PdTyped, Layout, MapInv, MapTyped
  <1>4. Place = adr + (IF overlap /\ pc = "LRW" THEN grp.Obytes ELSE 0) /\ Place \in Nat
    BY <1>3 DEF Place
  <1>5. Small => n <= LIMIT
    <2>1. Small => IOsegment[seg] <= LIMIT  BY <1>1, SegmentsShort
    <2> QED  BY <1>2, <2>1, Parameters
  <1>6. TxOf(pc, n, first) \in Txs
    <2> DEFINE t == <<pc, n, first>>
    <2>1. t \in Cmds \X Nat \X BOOLEAN  BY <1>2, <1>3
    <2>2. TxOf(pc, n, first) = TxOf(t[1], t[2], t[3])  OBVIOUS
    <2> HIDE DEF t
    <2> QED  BY <2>1, <2>2 DEF Txs
  <1>7. /\ pc = "LRD" => adr >= grp.Obytes
        /\ pc = "LWR" => adr + n <= grp.Obytes
        /\ adr + n <= LogicalSize + (IF overlap /\ pc = "LRD" THEN grp.Obytes ELSE 0)
    BY <1>1 DEF Advances
  <1>8. pc = "LRW" <=> grp.blockLRW = 0  BY DEF Position
  <1>9. NewFrame = fr  BY DEF NewFrame
  <1> HIDE DEF n
  <1>10. fr \in Frm
    <2> DEFINE x == TxOf(pc, n, first)
    <2>1. x \in Txs  BY <1>6
    <2> HIDE DEF x
    <2>2. [cmd |-> pc, adr |-> adr, to |-> Place, length |-> n, dc |-> first, tx |-> x] \in Frm
      BY <1>2, <1>3, <1>4, <2>1 DEF Frm
    <2> QED  BY <2>2 DEF x
  <1>11. FrameRight(fr)
    <2>1. /\ fr.cmd = pc /\ fr.adr = adr /\ fr.to = Place /\ fr.length = n /\ fr.dc = first
          /\ fr.tx = TxOf(pc, n, first)
      OBVIOUS
    <2> HIDE DEF fr
    <2>2. fr.tx = TxOf(fr.cmd, fr.length, fr.dc)  BY <2>1
    <2> QED  BY <1>4, <1>5, <1>7, <1>8, <2>1, <2>2 DEF FrameRight, RightIn
  <1> QED  BY <1>9, <1>10, <1>11

\* It goes on the stack, unless that is full: then its slaves are not heard.
Pushed == /\ Len(idxstack) < MAXBUF /\ idxstack' = Append(idxstack, NewFrame) /\ missed' = missed
NotPushed == /\ Len(idxstack) = MAXBUF /\ idxstack' = idxstack
             /\ missed' = missed \cup ServedBy(NewFrame, fmmu)

\* Served, with the set of FMMUs as a parameter.
LEMMA ServedIs ==
  ASSUME NEW fr
  PROVE  Served(fr) = ServedBy(fr, fmmu)
  BY DEF Served, ServedBy, Addresses

\* What SendFrame does, by the variables it changes.
LEMMA SendPushes ==
  ASSUME PdTyped, SendFrame
  PROVE  /\ pc \in Cmds /\ Mapped /\ UNCHANGED mapVars
         /\ Pushed \/ NotPushed
         /\ first' = FALSE
         /\ IF first THEN DCl' = sublength /\ DCtO' = RxOffset(setupdatagram(pc, sublength))
                     ELSE DCl' = DCl /\ DCtO' = DCtO
         /\ \/ /\ length # sublength /\ seg + 1 < grp.nsegments /\ pc' = pc
               /\ seg' = seg + 1 /\ adr' = adr + sublength /\ length' = length - sublength
            \/ /\ length = sublength \/ ~(seg + 1 < grp.nsegments)
               /\ pc = "LRD" /\ grp.Obytes > 0 /\ StartLWR
            \/ /\ length = sublength \/ ~(seg + 1 < grp.nsegments)
               /\ ~(pc = "LRD" /\ grp.Obytes > 0) /\ pc' = "receive"
               /\ seg' = seg /\ adr' = adr /\ length' = length
         /\ UNCHANGED <<hasdc, pulled, wkc, valid, image, sent, dctime, cycle, dcLost>>
  <1>1. pc \in Cmds /\ UNCHANGED mapVars  BY DEF SendFrame, Cmds
  <1>2. Mapped  BY <1>1 DEF PdTyped, Cmds
  <1>3. pushindex(NewFrame)
    <2>1. (IF first THEN WithClock(Datagrams) ELSE Datagrams) = TxOf(pc, sublength, first)
      BY DEF TxOf, Datagrams
    <2> QED  BY <2>1 DEF SendFrame, NewFrame
  <1>4. Pushed \/ NotPushed
    <2>1. Len(idxstack) < MAXBUF \/ Len(idxstack) = MAXBUF
      <3>1. Len(idxstack) \in Nat /\ Len(idxstack) <= MAXBUF /\ MAXBUF \in Nat
        BY ProcessDataAssumption DEF PdTyped, ProcessDataAssumption
      <3> QED  BY <3>1
    <2>2. MAXBUF \in Nat  BY ProcessDataAssumption DEF ProcessDataAssumption
    <2>3. CASE Len(idxstack) < MAXBUF  BY <1>3, <2>3 DEF pushindex, Pushed
    <2>4. CASE Len(idxstack) = MAXBUF
      <3>1. ~(Len(idxstack) < MAXBUF)  BY <2>2, <2>4
      <3> QED  BY <1>3, <2>4, <3>1, ServedIs DEF pushindex, NotPushed
    <2> QED  BY <2>1, <2>3, <2>4
  <1>5. IF first THEN DCl' = sublength /\ DCtO' = RxOffset(setupdatagram(pc, sublength))
                 ELSE DCl' = DCl /\ DCtO' = DCtO
    BY DEF SendFrame, clockVars, Datagrams
  <1>6. \/ /\ length # sublength /\ seg + 1 < grp.nsegments /\ pc' = pc
           /\ seg' = seg + 1 /\ adr' = adr + sublength /\ length' = length - sublength
        \/ /\ length = sublength \/ ~(seg + 1 < grp.nsegments)
           /\ pc = "LRD" /\ grp.Obytes > 0 /\ StartLWR
        \/ /\ length = sublength \/ ~(seg + 1 < grp.nsegments)
           /\ ~(pc = "LRD" /\ grp.Obytes > 0) /\ pc' = "receive"
           /\ seg' = seg /\ adr' = adr /\ length' = length
    <2> DEFINE n == sublength
               G == seg + 1 < grp.nsegments
               W == grp.Obytes > 0
    <2>1. IF length # n /\ G
          THEN /\ seg' = seg + 1 /\ adr' = adr + n
               /\ length' = length - n
               /\ pc' = pc
          ELSE IF pc = "LRD" /\ W
          THEN StartLWR
          ELSE pc' = "receive" /\ seg' = seg /\ adr' = adr /\ length' = length
      BY DEF SendFrame
    <2> HIDE DEF n, G, W
    <2>2. \/ /\ length # n /\ G /\ pc' = pc
             /\ seg' = seg + 1 /\ adr' = adr + n /\ length' = length - n
          \/ /\ length = n \/ ~G
             /\ pc = "LRD" /\ W /\ StartLWR
          \/ /\ length = n \/ ~G
             /\ ~(pc = "LRD" /\ W) /\ pc' = "receive"
             /\ seg' = seg /\ adr' = adr /\ length' = length
      BY <2>1
    <2> QED  BY <2>2 DEF n, G, W
  <1>7. first' = FALSE /\ UNCHANGED <<hasdc, pulled, wkc, valid, image, sent, dctime, cycle, dcLost>>
    BY DEF SendFrame
  <1> QED  BY <1>1, <1>2, <1>4, <1>5, <1>6, <1>7

\* What SendFrame does, with the frame fr of n bytes.
Advance(n) ==
    /\ length # n /\ seg + 1 < grp.nsegments /\ pc' = pc
    /\ seg' = seg + 1 /\ adr' = adr + n /\ length' = length - n
Finish(n) == length = n \/ ~(seg + 1 < grp.nsegments)
TurnToLWR(n) ==
    /\ Finish(n) /\ pc = "LRD" /\ grp.Obytes > 0
    /\ pc' = "LWR" /\ seg' = 0 /\ adr' = 0 /\ length' = grp.Obytes
AllSent(n) ==
    /\ Finish(n) /\ ~(pc = "LRD" /\ grp.Obytes > 0)
    /\ pc' = "receive" /\ seg' = seg /\ adr' = adr /\ length' = length
PushedAs(fr) ==
    /\ Len(idxstack) < MAXBUF /\ Len(idxstack') = Len(idxstack) + 1
    /\ idxstack'[Len(idxstack) + 1] = fr /\ missed' = missed
DroppedAs(fr) ==
    /\ Len(idxstack) = MAXBUF /\ idxstack' = idxstack
    /\ missed' = missed \cup ServedBy(fr, fmmu)
Sends(n, fr) ==
    /\ pc \in Cmds /\ Mapped /\ Layout /\ seg \in 0 .. grp.nsegments - 1 /\ Advances(n)
    /\ UNCHANGED mapVars
    /\ fr \in Frm /\ FrameRight(fr)
    /\ fr.cmd = pc /\ fr.adr = adr /\ fr.length = n /\ fr.dc = first
    /\ idxstack' \in Seq(Frm) /\ (\A k \in OnStack : idxstack'[k] = idxstack[k])
    /\ PushedAs(fr) \/ DroppedAs(fr)
    /\ first' = FALSE
    /\ IF first THEN DCl' = n /\ DCtO' = RxOffset(setupdatagram(pc, n))
                ELSE DCl' = DCl /\ DCtO' = DCtO
    /\ Advance(n) \/ TurnToLWR(n) \/ AllSent(n)
    /\ hasdc' = hasdc /\ pulled' = pulled /\ wkc' = wkc /\ valid' = valid /\ image' = image
    /\ sent' = sent /\ dctime' = dctime /\ cycle' = cycle /\ dcLost' = dcLost

\* SendFrame sends one frame of n bytes.
LEMMA SendIs ==
  ASSUME MapInv, PdTyped, Position, SendFrame
  PROVE  \E n, fr : Sends(n, fr)
  <1>1. /\ pc \in Cmds /\ Mapped /\ UNCHANGED mapVars
        /\ first' = FALSE
        /\ UNCHANGED <<hasdc, pulled, wkc, valid, image, sent, dctime, cycle, dcLost>>
    BY SendPushes
  <1>2. Layout  BY <1>1, LayoutIs
  <1>3. Advances(sublength) /\ seg \in 0 .. grp.nsegments - 1  BY <1>1, <1>2, SendAdvances
  <1>4. NewFrame \in Frm /\ FrameRight(NewFrame)  BY <1>1, <1>2, NewFrameRight
  <1>5. NewFrame.cmd = pc /\ NewFrame.adr = adr /\ NewFrame.length = sublength /\ NewFrame.dc = first
    BY DEF NewFrame
  <1>6. IF first THEN DCl' = sublength /\ DCtO' = RxOffset(setupdatagram(pc, sublength))
                 ELSE DCl' = DCl /\ DCtO' = DCtO
    BY SendPushes
  <1>7. Advance(sublength) \/ TurnToLWR(sublength) \/ AllSent(sublength)
    BY SendPushes DEF Advance, TurnToLWR, AllSent, Finish, StartLWR
  <1>8. Pushed \/ NotPushed  BY SendPushes
  <1>9. PICK fr : fr = NewFrame  OBVIOUS
  <1>10. idxstack \in Seq(Frm)  BY DEF PdTyped
  <1>11. /\ idxstack' \in Seq(Frm) /\ (\A k \in OnStack : idxstack'[k] = idxstack[k])
         /\ PushedAs(fr) \/ DroppedAs(fr)
    <2>1. CASE Pushed
      <3>1. idxstack' = Append(idxstack, fr) /\ Len(idxstack) < MAXBUF /\ missed' = missed
        BY <1>9, <2>1 DEF Pushed
      <3>2. fr \in Frm  BY <1>4, <1>9
      <3>3. /\ idxstack' \in Seq(Frm) /\ Len(idxstack') = Len(idxstack) + 1
            /\ \A k \in 1 .. Len(idxstack) : idxstack'[k] = idxstack[k]
            /\ idxstack'[Len(idxstack) + 1] = fr
        BY <1>10, <3>1, <3>2, Appended
      <3> QED  BY <3>1, <3>3 DEF OnStack, PushedAs
    <2>2. CASE NotPushed
      BY <1>9, <1>10, <2>2 DEF NotPushed, DroppedAs
    <2> QED  BY <1>8, <2>1, <2>2
  <1>12. PICK n : n = sublength  OBVIOUS
  <1>13. fr \in Frm /\ FrameRight(fr) /\ fr.cmd = pc /\ fr.adr = adr /\ fr.length = n /\ fr.dc = first
    BY <1>4, <1>5, <1>9, <1>12
  <1>14. /\ Advances(n) /\ (Advance(n) \/ TurnToLWR(n) \/ AllSent(n))
         /\ IF first THEN DCl' = n /\ DCtO' = RxOffset(setupdatagram(pc, n))
                     ELSE DCl' = DCl /\ DCtO' = DCtO
    BY <1>3, <1>6, <1>7, <1>12
  <1>15. Sends(n, fr)  BY <1>1, <1>2, <1>3, <1>11, <1>13, <1>14 DEF Sends
  <1> QED  BY <1>15

\* The frames there were, and the one that is new.
LEMMA StackAfter ==
  ASSUME PdTyped, NEW n, NEW fr, Sends(n, fr)
  PROVE  /\ Len(idxstack) \in Nat /\ Len(idxstack') \in Nat /\ Len(idxstack') <= MAXBUF
         /\ Len(idxstack) <= Len(idxstack') /\ Len(idxstack') <= Len(idxstack) + 1
         /\ OnStack \subseteq OnStack' /\ idxstack' # <<>> /\ 1 \in OnStack'
         /\ \A k \in OnStack' : \/ k \in OnStack /\ idxstack'[k] = idxstack[k]
                                \/ PushedAs(fr) /\ k = Len(idxstack) + 1 /\ idxstack'[k] = fr
  <1>1. MAXBUF \in Nat /\ MAXBUF > 0  BY ProcessDataAssumption DEF ProcessDataAssumption
  <1>2. idxstack \in Seq(Frm) /\ idxstack' \in Seq(Frm) /\ Len(idxstack) <= MAXBUF
    BY DEF PdTyped, Sends
  <1>3. Len(idxstack) \in Nat /\ Len(idxstack') \in Nat  BY <1>2
  <1>4. CASE PushedAs(fr)
    <2>1. Len(idxstack') = Len(idxstack) + 1 /\ Len(idxstack') <= MAXBUF
      BY <1>1, <1>3, <1>4 DEF PushedAs
    <2>2. OnStack \subseteq OnStack' /\ 1 \in OnStack'  BY <1>3, <2>1 DEF OnStack
    <2>3. idxstack' # <<>>  BY <1>2, <1>3, <2>1
    <2>4. \A k \in OnStack' : k \in OnStack \/ k = Len(idxstack) + 1  BY <1>3, <2>1 DEF OnStack
    <2>5. idxstack'[Len(idxstack) + 1] = fr  BY <1>4 DEF PushedAs
    <2>6. \A k \in OnStack : idxstack'[k] = idxstack[k]  BY DEF Sends
    <2> QED  BY <1>3, <1>4, <2>1, <2>2, <2>3, <2>4, <2>5, <2>6
  <1>5. CASE DroppedAs(fr)
    <2>1. idxstack' = idxstack /\ Len(idxstack) = MAXBUF  BY <1>5 DEF DroppedAs
    <2>2. idxstack # <<>> /\ 1 \in OnStack  BY <1>1, <1>2, <2>1 DEF OnStack
    <2>3. OnStack' = OnStack  BY <2>1 DEF OnStack
    <2> QED  BY <1>2, <1>3, <2>1, <2>2, <2>3
  <1> QED  BY <1>4, <1>5 DEF Sends

\* The numbers of the frame and the loop.
LEMMA SentNumbers ==
  ASSUME Layout, PdTyped, NEW n, NEW fr, Sends(n, fr)
  PROVE  /\ n \in Nat /\ adr \in Nat /\ adr + n \in Nat /\ length \in Int /\ seg \in Nat
         /\ seg + 1 \in Nat /\ seg < grp.nsegments /\ grp.nsegments \in Nat
         /\ seg \in 0 .. grp.nsegments /\ seg + 1 \in 0 .. grp.nsegments
         /\ 0 \in 0 .. grp.nsegments - 1 /\ MAXIOSEGMENTS \in Nat
         /\ grp.nsegments <= MAXIOSEGMENTS
         /\ grp.Obytes \in Nat /\ grp.Ibytes \in Nat /\ LogicalSize \in Nat
         /\ grp.Isegment \in Nat /\ Mark \in Nat
         /\ Start(seg) \in Nat /\ Start(seg + 1) \in Nat
  <1>1. /\ n \in Nat /\ adr \in Nat /\ length \in Int /\ seg \in 0 .. grp.nsegments - 1
    BY DEF Sends, Advances, PdTyped
  <1>2. /\ grp.nsegments \in Nat /\ grp.nsegments >= 1 /\ grp.nsegments <= MAXIOSEGMENTS
        /\ grp.Obytes \in Nat /\ grp.Ibytes \in Nat /\ LogicalSize \in Nat
        /\ grp.Isegment \in Nat /\ Mark \in Nat /\ MAXIOSEGMENTS \in Nat
    BY Parameters DEF Layout
  <1>3. seg \in 0 .. grp.nsegments /\ seg + 1 \in 0 .. grp.nsegments  BY <1>1, <1>2
  <1>4. Start(seg) \in Nat /\ Start(seg + 1) \in Nat  BY <1>3 DEF Layout
  <1> QED  BY <1>1, <1>2, <1>3, <1>4

LEMMA SendTyped ==
  ASSUME MapInv, PdTyped, NEW n, NEW fr, Sends(n, fr)
  PROVE  PdTyped'
  <1>1. Layout /\ UNCHANGED mapVars /\ pc \in Cmds /\ Mapped  BY DEF Sends
  <1>2. /\ hasdc' = hasdc /\ pulled' = pulled /\ wkc' = wkc /\ valid' = valid /\ image' = image
        /\ sent' = sent /\ dctime' = dctime /\ cycle' = cycle /\ dcLost' = dcLost /\ first' = FALSE
        /\ idxstack' \in Seq(Frm)
    BY DEF Sends
  <1>3. Mapped' = Mapped /\ LogAddr' = LogAddr /\ fmmu' = fmmu  BY <1>1, Still
  <1>4. pc' \in Cmds \cup {"receive"} /\ pc' # "app" /\ pc' # "pull"
    BY <1>1 DEF Sends, Advance, TurnToLWR, AllSent, Cmds
  <1>5. length' \in Int /\ adr' \in Nat /\ seg' \in 0 .. MAXIOSEGMENTS
    <2>1. CASE Advance(n)
      <3>1. seg' = seg + 1 /\ adr' = adr + n /\ length' = length - n  BY <2>1 DEF Advance
      <3> QED  BY <1>1, <3>1, SentNumbers
    <2>2. CASE TurnToLWR(n)
      <3>1. seg' = 0 /\ adr' = 0 /\ length' = grp.Obytes  BY <2>2 DEF TurnToLWR
      <3> QED  BY <1>1, <3>1, SentNumbers
    <2>3. CASE AllSent(n)  BY <2>3 DEF AllSent, PdTyped
    <2> QED  BY <2>1, <2>2, <2>3 DEF Sends
  <1>6. missed' \subseteq fmmu
    <2>1. missed \subseteq fmmu  BY DEF PdTyped
    <2>2. ServedBy(fr, fmmu) \subseteq fmmu  BY DEF ServedBy
    <2> QED  BY <2>1, <2>2 DEF Sends, PushedAs, DroppedAs
  <1>7. Len(idxstack') \in Nat /\ Len(idxstack') <= MAXBUF  BY StackAfter
  <1>8. pulled = 0  BY <1>1 DEF PdTyped, Cmds
  <1>9. pc # "app"  BY <1>1 DEF Cmds
  <1>10. pulled' \in 0 .. Len(idxstack')  BY <1>2, <1>7, <1>8
  <1> QED
    BY <1>1, <1>2, <1>3, <1>4, <1>5, <1>6, <1>7, <1>8, <1>9, <1>10 DEF PdTyped

LEMMA SendFrames ==
  ASSUME PdTyped, FramesRight, NEW n, NEW fr, Sends(n, fr)
  PROVE  FramesRight'
  <1>1. UNCHANGED mapVars /\ FrameRight(fr)  BY DEF Sends
  <1>2. \A k \in OnStack' : FrameRight(idxstack'[k])
    BY <1>1, StackAfter DEF FramesRight
  <1>3. grp' = grp /\ overlap' = overlap /\ LogicalSize' = LogicalSize /\ Small' = Small
    BY <1>1, Still
  <1> QED  BY <1>2, <1>3 DEF FramesRight, FrameRight

LEMMA SendPosition ==
  ASSUME MapInv, PdTyped, Position, NEW n, NEW fr, Sends(n, fr)
  PROVE  Position'
  <1>1. Layout /\ UNCHANGED mapVars /\ pc \in Cmds  BY DEF Sends
  <1>2. grp' = grp /\ LogicalSize' = LogicalSize /\ Mark' = Mark /\ ImageSize' = ImageSize
        /\ IOsegment' = IOsegment
    BY <1>1, Still
  <1>3. (pc = "LRW" <=> grp.blockLRW = 0) /\ ImageSize > 0  BY <1>1 DEF Position
  <1>4. CASE Advance(n)
    <2>1. length # n /\ seg + 1 < grp.nsegments /\ pc' = pc /\ seg' = seg + 1 /\ adr' = adr + n
          /\ length' = length - n
      BY <1>4 DEF Advance
    <2>2. /\ pc # "LRD" => adr + n = Start(seg + 1)
          /\ pc = "LRD" => adr + n = grp.Obytes + (Start(seg + 1) - Mark)
          /\ pc = "LWR" => adr + n <= grp.Obytes
      BY <2>1 DEF Sends, Advances
    <2>3. Start(seg + 1) = StartOf(IOsegment', seg') /\ seg' \in 0 .. grp.nsegments - 1
      <3>1. seg + 1 \in 0 .. grp.nsegments - 1  BY <1>1, <2>1, SentNumbers
      <3> QED  BY <1>2, <2>1, <3>1 DEF Start
    <2>4. pc = "LRW" => length' = LogicalSize - adr'
      <3> SUFFICES ASSUME pc = "LRW" PROVE length - n = LogicalSize - (adr + n)
        BY <2>1
      <3>1. length = LogicalSize - adr  BY DEF Position
      <3> QED  BY <1>1, <3>1, SentNumbers
    <2>5. pc = "LWR" => length' = grp.Obytes - adr' /\ grp.Obytes > 0
      <3> SUFFICES ASSUME pc = "LWR" PROVE length - n = grp.Obytes - (adr + n) /\ grp.Obytes > 0
        BY <2>1
      <3>1. length = grp.Obytes - adr /\ grp.Obytes > 0  BY DEF Position
      <3> QED  BY <1>1, <3>1, SentNumbers
    <2>6. pc = "LRD" => /\ length' = grp.Ibytes - (adr' - grp.Obytes) /\ grp.Ibytes > 0
                        /\ seg' \in grp.Isegment .. grp.nsegments - 1
                        /\ adr' = grp.Obytes + (IF seg' = grp.Isegment THEN 0
                                                ELSE StartOf(IOsegment', seg') - Mark)
      <3> SUFFICES ASSUME pc = "LRD"
                   PROVE  /\ length - n = grp.Ibytes - ((adr + n) - grp.Obytes) /\ grp.Ibytes > 0
                          /\ seg + 1 \in grp.Isegment .. grp.nsegments - 1
                          /\ adr' = grp.Obytes + (IF seg' = grp.Isegment THEN 0
                                                  ELSE StartOf(IOsegment', seg') - Mark)
        BY <2>1
      <3>1. length = grp.Ibytes - (adr - grp.Obytes) /\ grp.Ibytes > 0
            /\ seg \in grp.Isegment .. grp.nsegments - 1
        BY DEF Position
      <3>2. length - n = grp.Ibytes - ((adr + n) - grp.Obytes)  BY <1>1, <3>1, SentNumbers
      <3>3. seg + 1 \in grp.Isegment .. grp.nsegments - 1 /\ seg + 1 # grp.Isegment
        BY <1>1, <2>1, <3>1, SentNumbers
      <3>4. adr' = grp.Obytes + (IF seg' = grp.Isegment THEN 0
                                 ELSE StartOf(IOsegment', seg') - Mark)
        BY <2>1, <2>2, <2>3, <3>3
      <3> QED  BY <3>1, <3>2, <3>3, <3>4
    <2>7. pc = "LRD" => \A k \in OnStack' : idxstack'[k].cmd = "LRD"
      <3> SUFFICES ASSUME pc = "LRD", NEW k \in OnStack' PROVE idxstack'[k].cmd = "LRD"
        OBVIOUS
      <3>1. \A i \in OnStack : idxstack[i].cmd = "LRD"  BY DEF Position
      <3>2. fr.cmd = "LRD"  BY DEF Sends
      <3> QED  BY <3>1, <3>2, StackAfter
    <2> QED
      BY <1>2, <1>3, <2>1, <2>2, <2>3, <2>4, <2>5, <2>6, <2>7 DEF Position, Start
  <1>5. CASE TurnToLWR(n)
    <2>1. pc' = "LWR" /\ seg' = 0 /\ adr' = 0 /\ length' = grp.Obytes /\ grp.Obytes > 0 /\ pc = "LRD"
      BY <1>5 DEF TurnToLWR
    <2>2. StartOf(IOsegment', seg') = 0  BY <1>1, <1>2, <2>1 DEF Layout, Start
    <2>3. seg' \in 0 .. grp.nsegments - 1 /\ 0 <= grp.Obytes /\ grp.Obytes = grp.Obytes - 0
      BY <1>1, <2>1, SentNumbers
    <2>4. grp.blockLRW # 0  BY <1>3, <2>1
    <2> QED  BY <1>2, <1>3, <2>1, <2>2, <2>3, <2>4 DEF Position, Start
  <1>6. CASE AllSent(n)
    <2>1. pc' = "receive"  BY <1>6 DEF AllSent
    <2> QED  BY <2>1 DEF Position, Cmds
  <1> QED  BY <1>4, <1>5, <1>6 DEF Sends

LEMMA SendClock ==
  ASSUME MapInv, PdTyped, Position, Clock, NEW n, NEW fr, Sends(n, fr)
  PROVE  Clock'
  <1>1. UNCHANGED mapVars /\ pc \in Cmds /\ Mapped  BY DEF Sends
  <1>2. /\ hasdc' = hasdc /\ pulled' = pulled /\ dctime' = dctime /\ cycle' = cycle
        /\ dcLost' = dcLost /\ first' = FALSE
    BY DEF Sends
  <1>3. ImageSize' = ImageSize /\ Mapped' = Mapped  BY <1>1, Still
  <1>4. pc' \in Cmds \cup {"receive"} /\ pc' # "app" /\ pc' # "pull"
    BY <1>1 DEF Sends, Advance, TurnToLWR, AllSent, Cmds
  <1>5. (first <=> hasdc /\ idxstack = <<>>) /\ ~dcLost  BY <1>1 DEF Clock
  <1>6. idxstack' # <<>>  BY StackAfter
  <1>7. ImageSize > 0 /\ ~(ImageSize = 0)
    <2>1. ImageSize > 0  BY <1>1 DEF Position
    <2> QED  BY <2>1
  <1>8. /\ idxstack'[1].dc = hasdc
        /\ hasdc => /\ DCl' = idxstack'[1].length
                    /\ DCtO' = RxOffset(setupdatagram(idxstack'[1].cmd, idxstack'[1].length))
    <2>1. CASE idxstack = <<>>
      <3>1. Len(idxstack) = 0  BY <2>1
      <3>2. MAXBUF # 0  BY ProcessDataAssumption DEF ProcessDataAssumption
      <3>3. PushedAs(fr)  BY <3>1, <3>2 DEF Sends, DroppedAs
      <3>4. idxstack'[1] = fr  BY <3>1, <3>3 DEF PushedAs
      <3>5. fr.dc = first /\ fr.length = n /\ fr.cmd = pc
            /\ (first => DCl' = n /\ DCtO' = RxOffset(setupdatagram(pc, n)))
        BY DEF Sends
      <3>6. first = hasdc
        <4>1. first <=> hasdc  BY <1>5, <2>1
        <4>2. first \in BOOLEAN /\ hasdc \in BOOLEAN  BY DEF PdTyped
        <4> QED  BY <4>1, <4>2
      <3> QED  BY <3>4, <3>5, <3>6
    <2>2. CASE idxstack # <<>>
      <3>1. 1 \in OnStack
        <4>1. idxstack \in Seq(Frm)  BY DEF PdTyped
        <4> QED  BY <2>2, <4>1 DEF OnStack
      <3>2. idxstack'[1] = idxstack[1]  BY <3>1 DEF Sends
      <3>3. ~first  BY <1>5, <2>2
      <3>4. DCl' = DCl /\ DCtO' = DCtO  BY <3>3 DEF Sends
      <3> QED  BY <2>2, <3>2, <3>4 DEF Clock
    <2> QED  BY <2>1, <2>2
  <1>9. \A k \in OnStack' : k > 1 => ~idxstack'[k].dc
    <2> SUFFICES ASSUME NEW k \in OnStack', k > 1 PROVE ~idxstack'[k].dc  OBVIOUS
    <2>1. CASE k \in OnStack /\ idxstack'[k] = idxstack[k]  BY <2>1 DEF Clock
    <2>2. CASE k = Len(idxstack) + 1 /\ idxstack'[k] = fr
      <3>1. idxstack # <<>>  BY <2>2
      <3>2. fr.dc = first /\ ~first  BY <1>5, <3>1 DEF Sends
      <3> QED  BY <2>2, <3>2
    <2> QED  BY <2>1, <2>2, StackAfter
  <1>10. ~hasdc => dctime = "none"  BY DEF Clock
  <1> QED
    BY <1>2, <1>3, <1>4, <1>5, <1>6, <1>7, <1>8, <1>9, <1>10 DEF Clock

LEMMA SendOutputs ==
  ASSUME PdTyped, OutputsKept, NEW n, NEW fr, Sends(n, fr)
  PROVE  OutputsKept'
  <1>1. UNCHANGED mapVars /\ pc \in Cmds /\ image' = image /\ sent' = sent /\ dcLost' = dcLost
    BY DEF Sends
  <1>2. grp' = grp  BY <1>1, Still
  <1>3. pc # "app"  BY <1>1 DEF Cmds
  <1> QED  BY <1>1, <1>2, <1>3 DEF OutputsKept

\* On which side of the image an FMMU is.
LEMMA FmmuSides ==
  ASSUME MapInv, Mapped, Aligned, NEW f \in fmmu
  PROVE  /\ f.start \in Nat /\ f.size \in Nat /\ f.size > 0 /\ f.dir \in Dirs
         /\ FmmuBytes(f) = f.start .. f.start + f.size - 1 /\ f.start \in FmmuBytes(f)
         /\ f.start + f.size <= LogicalSize
         /\ ~overlap => IF f.dir = "O" THEN f.start + f.size <= grp.Obytes
                                       ELSE f.start >= grp.Obytes
         /\ overlap => f.start + f.size <= IF f.dir = "O" THEN grp.Obytes ELSE grp.Ibytes
  <1>1. f \in Fmmu /\ f.start \in Nat /\ f.size \in Nat /\ f.size > 0 /\ f.dir \in Dirs
        /\ f.sbit \in 0 .. 7 /\ f.ebit \in 0 .. 7
    BY DEF MapInv, MapTyped, Fmmu
  <1>2. Layout  BY LayoutIs
  <1>3. grp.Obytes \in Nat /\ grp.Ibytes \in Nat /\ LogicalSize \in Nat /\ LogAddr = LogicalSize
    BY <1>2 DEF Layout
  <1>4. FmmuBytes(f) = f.start .. f.start + f.size - 1 /\ f.start \in FmmuBytes(f)
    BY <1>1 DEF FmmuBytes
  <1>5. CASE overlap
    <2> DEFINE m == IF f.dir = "O" THEN grp.Obytes ELSE grp.Ibytes
    <2>1. LastBit(f) < 8 * m
      BY <1>5 DEF MapInv, Placed, PlacedOver, Mapped
    <2>2. m \in Nat /\ m <= LogicalSize  BY <1>2, <1>5 DEF Layout
    <2>3. 8 * (f.start + f.size - 1) + f.ebit < 8 * m  BY <2>1 DEF LastBit
    <2> HIDE DEF m
    <2>4. f.start + f.size <= m  BY <1>1, <2>2, <2>3
    <2>5. f.start + f.size <= LogicalSize  BY <1>1, <1>3, <2>2, <2>4
    <2> QED  BY <1>1, <1>4, <1>5, <2>4, <2>5 DEF m
  <1>6. CASE ~overlap
    <2>1. LastBit(f) < Cursor /\ IF f.dir = "O" THEN LastBit(f) < 8 * grp.Obytes
                                 ELSE FirstBit(f) >= 8 * grp.Obytes
      BY <1>6 DEF MapInv, Placed, PlacedApart, Mapped
    <2>2. Cursor = 8 * LogicalSize  BY <1>3, <1>6 DEF Cursor, Aligned
    <2>3. 8 * (f.start + f.size - 1) + f.ebit < 8 * LogicalSize  BY <2>1, <2>2 DEF LastBit
    <2>4. f.start + f.size <= LogicalSize
      <3> DEFINE L == LogicalSize
      <3> HIDE DEF L
      <3>1. L \in Nat /\ 8 * (f.start + f.size - 1) + f.ebit < 8 * L  BY <1>3, <2>3 DEF L
      <3>2. f.start + f.size <= L  BY <1>1, <3>1
      <3> QED  BY <3>2 DEF L
    <2>5. f.dir = "O" => f.start + f.size <= grp.Obytes
      BY <1>1, <1>3, <2>1 DEF LastBit
    <2>6. f.dir # "O" => f.start >= grp.Obytes
      BY <1>1, <1>3, <2>1 DEF FirstBit
    <2> QED  BY <1>1, <1>4, <1>6, <2>4, <2>5, <2>6
  <1> QED  BY <1>5, <1>6

\* LRD and LWR are used for the layout that does not overlap.
LEMMA SoundMeans ==
  ASSUME Layout, Sound, grp.blockLRW # 0
  PROVE  ~overlap
  <1>1. grp.blockLRW > 0  BY DEF Layout
  <1> QED  BY <1>1 DEF Sound, Misread

\* An FMMU with a byte in a frame takes part in it.
LEMMA ServedIf ==
  ASSUME MapInv, Mapped, Aligned, Sound, NEW fr \in Frm, FrameRight(fr), NEW f \in fmmu,
         NEW a \in FmmuBytes(f), a \in Addresses(fr)
  PROVE  f \in ServedBy(fr, fmmu)
  <1>1. FmmuBytes(f) \cap Addresses(fr) # {}  OBVIOUS
  <1>2. fr.cmd \in {IF f.dir = "I" THEN "LRD" ELSE "LWR", "LRW"}
    <2>1. fr.cmd \in Cmds /\ fr.adr \in Nat /\ fr.length \in Nat  BY DEF Frm
    <2>2. Layout  BY LayoutIs
    <2>3. grp.Obytes \in Nat  BY <2>2 DEF Layout
    <2>4. a \in Nat /\ f.start <= a /\ a < f.start + f.size /\ fr.adr <= a /\ a < fr.adr + fr.length
          /\ f.start \in Nat /\ f.size \in Nat
      <3>1. f.start \in Nat /\ f.size \in Nat /\ a \in f.start .. f.start + f.size - 1
        BY FmmuSides
      <3> QED  BY <2>1, <3>1 DEF Addresses
    <2>5. CASE fr.cmd = "LRD"
      <3>1. ~overlap /\ fr.adr >= grp.Obytes  BY <2>2, <2>5, SoundMeans DEF FrameRight, RightIn
      <3>2. f.dir # "O"
        <4> SUFFICES ASSUME f.dir = "O" PROVE FALSE  OBVIOUS
        <4>1. f.start + f.size <= grp.Obytes  BY <3>1, FmmuSides
        <4> QED  BY <2>1, <2>3, <2>4, <3>1, <4>1
      <3>3. f.dir = "I"  BY <3>2, FmmuSides DEF Dirs
      <3> QED  BY <2>5, <3>3
    <2>6. CASE fr.cmd = "LWR"
      <3>1. ~overlap /\ fr.adr + fr.length <= grp.Obytes
        BY <2>2, <2>6, SoundMeans DEF FrameRight, RightIn
      <3>2. f.dir # "I"
        <4> SUFFICES ASSUME f.dir = "I" PROVE FALSE  OBVIOUS
        <4>1. f.start >= grp.Obytes  BY <3>1, FmmuSides
        <4> QED  BY <2>1, <2>3, <2>4, <3>1, <4>1
      <3> QED  BY <2>6, <3>2
    <2> QED  BY <2>1, <2>5, <2>6 DEF Cmds
  <1> QED  BY <1>1, <1>2 DEF ServedBy

\* What is divided stays divided further on.
LEMMA CutNext ==
  ASSUME Layout, NEW a \in Nat, NEW b \in Nat, NEW c \in Nat, Cut(a, b), b <= c
  PROVE  Cut(a, c)
  <1>1. PICK k \in 0 .. grp.nsegments : a <= Start(k) /\ Start(k) <= b  BY DEF Cut, CutIn, Start
  <1>2. Start(k) \in Nat  BY DEF Layout
  <1>3. Start(k) <= c  BY <1>1, <1>2
  <1> QED  BY <1>1, <1>3 DEF Cut, CutIn, Start

LEMMA SendOrdered ==
  ASSUME MapInv, PdTyped, Position, Ordered, NEW n, NEW fr, Sends(n, fr)
  PROVE  Ordered'
  <1>1. Layout /\ UNCHANGED mapVars /\ pc \in Cmds /\ fr.cmd = pc /\ fr.adr = adr /\ fr.length = n
    BY DEF Sends
  <1>2. Sound' = Sound /\ grp' = grp /\ IOsegment' = IOsegment  BY <1>1, Still
  <1> SUFFICES ASSUME Sound
               PROVE  /\ \A i, j \in OnStack' : i < j /\ idxstack'[i].cmd = idxstack'[j].cmd =>
                             Cut(idxstack'[i].adr + idxstack'[i].length, idxstack'[j].adr)
                      /\ pc' \in Cmds =>
                           \A i \in OnStack' : idxstack'[i].cmd = pc' =>
                              \E b : b = adr' /\ Cut(idxstack'[i].adr + idxstack'[i].length, b)
    BY <1>2 DEF Ordered, Cut
  <1>3. ASSUME NEW i \in OnStack', NEW j \in OnStack', i < j, idxstack'[i].cmd = idxstack'[j].cmd
        PROVE  Cut(idxstack'[i].adr + idxstack'[i].length, idxstack'[j].adr)
    <2>1. i \in OnStack /\ idxstack'[i] = idxstack[i]
      <3>1. i # Len(idxstack) + 1
        <4>1. j <= Len(idxstack) + 1 /\ i \in Nat /\ j \in Nat /\ Len(idxstack) \in Nat
          BY StackAfter DEF OnStack
        <4> QED  BY <1>3, <4>1
      <3> QED  BY <3>1, StackAfter
    <2>2. CASE j \in OnStack /\ idxstack'[j] = idxstack[j]
      BY <1>3, <2>1, <2>2 DEF Ordered
    <2>3. CASE idxstack'[j] = fr
      BY <1>1, <1>3, <2>1, <2>3 DEF Ordered
    <2> QED  BY <2>2, <2>3, StackAfter
  <1>4. ASSUME pc' \in Cmds, NEW i \in OnStack', idxstack'[i].cmd = pc'
        PROVE  \E b : b = adr' /\ Cut(idxstack'[i].adr + idxstack'[i].length, b)
    <2>1. CASE Advance(n)
      <3>1. pc' = pc /\ adr' = adr + n /\ length # n  BY <2>1 DEF Advance
      <3>2. adr + n = Start(seg + 1) /\ seg + 1 \in 0 .. grp.nsegments
        BY <1>1, <3>1, SentNumbers DEF Sends, Advances
      <3>3. CASE i \in OnStack /\ idxstack'[i] = idxstack[i]
        <4> DEFINE e == idxstack[i].adr + idxstack[i].length
        <4>1. Cut(e, adr)  BY <1>4, <3>1, <3>3, <1>1 DEF Ordered
        <4>2. e \in Nat
          <5>1. idxstack[i] \in Frm  BY <3>3 DEF PdTyped, OnStack
          <5>2. idxstack[i].adr \in Nat /\ idxstack[i].length \in Nat  BY <5>1 DEF Frm
          <5> QED  BY <5>2
        <4>3. adr \in Nat /\ adr + n \in Nat /\ adr <= adr + n  BY <1>1, SentNumbers
        <4> HIDE DEF e
        <4>4. Cut(e, adr + n)  BY <1>1, <4>1, <4>2, <4>3, CutNext
        <4> QED  BY <3>1, <3>3, <4>4 DEF e
      <3>4. CASE idxstack'[i] = fr
        <4>1. adr + n <= adr + n /\ adr + n \in Nat  BY <1>1, SentNumbers
        <4>2. Cut(adr + n, adr + n)  BY <3>2, <4>1 DEF Cut, CutIn, Start
        <4> QED  BY <1>1, <3>1, <3>4, <4>2
      <3> QED  BY <3>3, <3>4, StackAfter
    <2>2. CASE TurnToLWR(n)
      <3>1. pc' = "LWR" /\ pc = "LRD"  BY <2>2 DEF TurnToLWR
      <3>2. \A k \in OnStack : idxstack[k].cmd = "LRD"  BY <3>1 DEF Position
      <3>3. idxstack'[i].cmd = "LRD"  BY <1>1, <3>1, <3>2, StackAfter
      <3> QED  BY <1>4, <3>1, <3>3
    <2>3. CASE AllSent(n)  BY <1>4, <2>3 DEF AllSent, Cmds
    <2> QED  BY <2>1, <2>2, <2>3 DEF Sends
  <1> QED  BY <1>3, <1>4

\* One frame for each segment.
LEMMA SendFew ==
  ASSUME MapInv, PdTyped, Position, Few, NEW n, NEW fr, Sends(n, fr)
  PROVE  Few'
  <1>1. Layout /\ UNCHANGED mapVars /\ pc \in Cmds  BY DEF Sends
  <1>2. Sound' = Sound /\ grp' = grp  BY <1>1, Still
  <1> DEFINE l == Len(idxstack)
             m == Len(idxstack')
             i == grp.Isegment
             N == grp.nsegments
             first0 == IF grp.Ibytes > 0 THEN N - i ELSE 0
  <1>3. l \in Nat /\ m \in Nat /\ m <= l + 1  BY StackAfter
  <1>4. seg \in Nat /\ i \in Nat /\ N \in Nat /\ seg < N /\ i < N  BY <1>1, SentNumbers DEF Layout
  <1>5. first0 \in Nat /\ (grp.Ibytes > 0 => first0 = N - i)  BY <1>4
  <1> SUFFICES ASSUME Sound
               PROVE  /\ pc' = "LRW" => m <= seg'
                      /\ pc' = "LRD" => m <= seg' - i
                      /\ pc' = "LWR" => seg' <= i /\ m <= first0 + seg'
    BY <1>2 DEF Few
  <1>6. /\ pc = "LRW" => l <= seg
        /\ pc = "LRD" => l <= seg - i
        /\ pc = "LWR" => seg <= i /\ l <= first0 + seg
    BY DEF Few
  <1> HIDE DEF l, m, N, i, first0
  <1>7. CASE Advance(n)
    <2>1. pc' = pc /\ seg' = seg + 1 /\ length # n  BY <1>7 DEF Advance
    <2>2. pc = "LWR" => seg + 1 <= i  BY <2>1 DEF Sends, Advances, i
    <2> QED  BY <1>3, <1>4, <1>5, <1>6, <2>1, <2>2
  <1>8. CASE TurnToLWR(n)
    <2>1. pc' = "LWR" /\ seg' = 0 /\ pc = "LRD"  BY <1>8 DEF TurnToLWR
    <2>2. first0 = N - i  BY <1>5, <2>1 DEF Position
    <2> QED  BY <1>3, <1>4, <1>5, <1>6, <2>1, <2>2
  <1>9. CASE AllSent(n)  BY <1>9 DEF AllSent
  <1> QED  BY <1>7, <1>8, <1>9 DEF Sends

\* A frame finds the stack full only if a cycle has more frames than it takes.
LEMMA NoRoom ==
  ASSUME Layout, PdTyped, Position, Few, Sound, pc \in Cmds, Len(idxstack) = MAXBUF,
         seg \in 0 .. grp.nsegments - 1
  PROVE  FramesPerCycle > MAXBUF
  <1> DEFINE l == Len(idxstack)
             i == grp.Isegment
             N == grp.nsegments
             a == IF grp.Ibytes > 0 THEN N - i ELSE 0
             b == IF grp.Obytes > 0 THEN i + 1 ELSE 0
  <1>1. l \in Nat /\ i \in Nat /\ N \in Nat /\ i < N /\ seg \in Nat /\ seg < N /\ l = MAXBUF
    <2>1. idxstack \in Seq(Frm)  BY DEF PdTyped
    <2> QED  BY <2>1 DEF Layout
  <1>2. a \in Nat /\ b \in Nat  BY <1>1
  <1>3. /\ pc = "LRW" => l <= seg /\ grp.blockLRW = 0
        /\ pc = "LRD" => l <= seg - i /\ a = N - i /\ grp.blockLRW # 0
        /\ pc = "LWR" => l <= a + seg /\ b = i + 1 /\ seg <= i /\ grp.blockLRW # 0
    BY DEF Few, Position
  <1>4. FramesPerCycle = IF grp.blockLRW = 0 THEN N ELSE a + b  BY DEF FramesPerCycle
  <1> HIDE DEF l, i, N, a, b
  <1>5. CASE pc = "LRW"  BY <1>1, <1>3, <1>4, <1>5
  <1>6. CASE pc = "LRD"
    <2>1. a + b > l  BY <1>1, <1>2, <1>3, <1>6
    <2> QED  BY <1>1, <1>3, <1>4, <1>6, <2>1
  <1>7. CASE pc = "LWR"
    <2>1. a + b > l  BY <1>1, <1>2, <1>3, <1>7
    <2> QED  BY <1>1, <1>3, <1>4, <1>7, <2>1
  <1> QED  BY <1>5, <1>6, <1>7 DEF Cmds

\* What a loop is done with after a frame is in that frame, or was done before.
LEMMA DoneBy ==
  ASSUME MapInv, PdTyped, Position, Sound, NEW n, NEW fr, Sends(n, fr),
         NEW a \in 0 .. LogicalSize - 1, Done(a)'
  PROVE  Done(a) \/ a \in Addresses(fr)
  <1>1. Layout /\ UNCHANGED mapVars /\ pc \in Cmds /\ fr.adr = adr /\ fr.length = n
    BY DEF Sends
  <1>2. grp' = grp  BY <1>1, Still
  <1>3. n \in Nat /\ adr \in Nat /\ adr + n \in Nat /\ LogicalSize \in Nat /\ grp.Obytes \in Nat /\ a \in Nat
        /\ a < LogicalSize
    BY <1>1, SentNumbers
  <1>4. Addresses(fr) = adr .. adr + n - 1  BY <1>1 DEF Addresses
  <1>5. ~(a < adr) /\ a < adr + n => a \in Addresses(fr)  BY <1>3, <1>4
  <1>6. /\ pc = "LRW" => (Done(a) <=> a < adr)
        /\ pc = "LRD" => (Done(a) <=> grp.Obytes <= a /\ a < adr)
        /\ pc = "LWR" => (Done(a) <=> a < adr \/ grp.Obytes <= a)
    BY DEF Done
  <1>7. Finish(n) => adr + n = (IF pc = "LWR" THEN grp.Obytes ELSE LogicalSize)
    BY DEF Finish, Sends, Advances
  <1>8. CASE Advance(n)
    <2>1. pc' = pc /\ adr' = adr + n  BY <1>8 DEF Advance
    <2>2. /\ pc = "LRW" => a < adr + n
          /\ pc = "LRD" => grp.Obytes <= a /\ a < adr + n
          /\ pc = "LWR" => a < adr + n \/ grp.Obytes <= a
      BY <1>2, <2>1 DEF Done
    <2> QED  BY <1>1, <1>5, <1>6, <2>2 DEF Cmds
  <1>9. CASE TurnToLWR(n)
    <2>1. pc' = "LWR" /\ adr' = 0 /\ pc = "LRD" /\ Finish(n)  BY <1>9 DEF TurnToLWR
    <2>2. a < 0 \/ grp.Obytes <= a  BY <1>2, <2>1 DEF Done
    <2>3. adr + n = LogicalSize  BY <1>7, <2>1
    <2> QED  BY <1>3, <1>5, <1>6, <2>1, <2>2, <2>3
  <1>10. CASE AllSent(n)
    <2>1. Finish(n) /\ ~(pc = "LRD" /\ grp.Obytes > 0)  BY <1>10 DEF AllSent
    <2>2. CASE pc = "LRW"  BY <1>3, <1>5, <1>6, <1>7, <2>1, <2>2
    <2>3. CASE pc = "LRD"
      <3>1. grp.Obytes <= a  BY <1>3, <2>1, <2>3
      <3> QED  BY <1>3, <1>5, <1>6, <1>7, <2>1, <2>3, <3>1
    <2>4. CASE pc = "LWR"  BY <1>3, <1>5, <1>6, <1>7, <2>1, <2>4
    <2> QED  BY <1>1, <2>2, <2>3, <2>4 DEF Cmds
  <1> QED  BY <1>8, <1>9, <1>10 DEF Sends

LEMMA SendCarries ==
  ASSUME MapInv, PdTyped, Aligned, Position, Few, Carries, NEW n, NEW fr, Sends(n, fr)
  PROVE  Carries'
  <1>1. Layout /\ UNCHANGED mapVars /\ pc \in Cmds /\ Mapped /\ fr \in Frm /\ FrameRight(fr)
        /\ seg \in 0 .. grp.nsegments - 1
    BY DEF Sends
  <1>2. Sound' = Sound /\ fmmu' = fmmu /\ LogicalSize' = LogicalSize /\ FramesPerCycle' = FramesPerCycle
    BY <1>1, Still
  <1>3. pc # "app"  BY <1>1 DEF Cmds
  <1> SUFFICES ASSUME Sound, NEW a \in 0 .. LogicalSize - 1, Done(a)'
               PROVE  \/ FramesPerCycle > MAXBUF /\ \A f \in fmmu : a \in FmmuBytes(f) => f \in missed'
                      \/ \E k \in OnStack' : a \in Addresses(idxstack'[k])
    BY <1>2 DEF Carries, Dropped, Addresses, FmmuBytes
  <1>4. missed \subseteq missed'  BY DEF Sends, PushedAs, DroppedAs
  <1>5. CASE Done(a)
    <2>1. Dropped(a) \/ \E k \in OnStack : a \in Addresses(idxstack[k])
      BY <1>3, <1>5 DEF Carries
    <2>2. CASE Dropped(a)  BY <1>4, <2>2 DEF Dropped
    <2>3. CASE \E k \in OnStack : a \in Addresses(idxstack[k])
      <3>1. PICK k \in OnStack : a \in Addresses(idxstack[k])  BY <2>3
      <3>2. k \in OnStack' /\ idxstack'[k] = idxstack[k]  BY StackAfter DEF Sends
      <3> QED  BY <3>1, <3>2
    <2> QED  BY <2>1, <2>2, <2>3
  <1>6. CASE a \in Addresses(fr)
    <2>1. CASE PushedAs(fr)
      <3>1. Len(idxstack) + 1 \in OnStack' /\ idxstack'[Len(idxstack) + 1] = fr
        BY <2>1, StackAfter DEF PushedAs, OnStack
      <3> QED  BY <1>6, <3>1
    <2>2. CASE DroppedAs(fr)
      <3>1. FramesPerCycle > MAXBUF  BY <1>1, <2>2, NoRoom DEF DroppedAs
      <3>2. \A f \in fmmu : a \in FmmuBytes(f) => f \in ServedBy(fr, fmmu)
        BY <1>1, <1>6, ServedIf
      <3> QED  BY <2>2, <3>1, <3>2 DEF DroppedAs
    <2> QED  BY <2>1, <2>2 DEF Sends
  <1> QED  BY <1>5, <1>6, DoneBy

\* With every FMMU in one segment no two frames of a cycle serve the same one.
LEMMA ServedOnce ==
  ASSUME Layout, EachInOneFrame, NEW A \in Frm, FrameRight(A), NEW B \in Frm, FrameRight(B),
         A.cmd = B.cmd => Cut(A.adr + A.length, B.adr)
  PROVE  ServedBy(A, fmmu) \cap ServedBy(B, fmmu) = {}
  <1> SUFFICES ASSUME NEW f, f \in ServedBy(A, fmmu), f \in ServedBy(B, fmmu) PROVE FALSE
    OBVIOUS
  <1>1. /\ f \in fmmu /\ A.cmd \in {IF f.dir = "I" THEN "LRD" ELSE "LWR", "LRW"}
        /\ B.cmd \in {IF f.dir = "I" THEN "LRD" ELSE "LWR", "LRW"}
        /\ \E a : a \in FmmuBytes(f) /\ a \in Addresses(A)
        /\ \E b : b \in FmmuBytes(f) /\ b \in Addresses(B)
    BY DEF ServedBy
  <1>2. A.cmd = B.cmd
    <2>1. A.cmd = "LRW" <=> grp.blockLRW = 0  BY DEF FrameRight, RightIn
    <2>2. B.cmd = "LRW" <=> grp.blockLRW = 0  BY DEF FrameRight, RightIn
    <2> QED  BY <1>1, <2>1, <2>2
  <1>3. PICK a : a \in FmmuBytes(f) /\ a \in Addresses(A)  BY <1>1
  <1>4. PICK b : b \in FmmuBytes(f) /\ b \in Addresses(B)  BY <1>1
  <1>5. A.adr \in Nat /\ A.length \in Nat /\ B.adr \in Nat /\ B.length \in Nat  BY DEF Frm
  <1>6. a \in Int /\ a < A.adr + A.length /\ b \in Int /\ B.adr <= b
    BY <1>3, <1>4, <1>5 DEF Addresses
  <1>7. PICK j \in 0 .. grp.nsegments : A.adr + A.length <= Start(j) /\ Start(j) <= B.adr
    BY <1>2 DEF Cut, CutIn, Start
  <1>8. PICK k \in Segments : FmmuBytes(f) \subseteq SegmentStart(k) .. SegmentStart(k + 1) - 1
    BY <1>1 DEF EachInOneFrame
  <1>9. SegmentStart(k) = Start(k) /\ SegmentStart(k + 1) = Start(k + 1)  BY StartIs DEF Start
  <1>10. /\ grp.nsegments \in Nat /\ k \in 0 .. grp.nsegments /\ k + 1 \in 0 .. grp.nsegments
         /\ k \in Nat /\ j \in Nat
    BY DEF Layout, Segments
  <1>11. Start(k) \in Nat /\ Start(k + 1) \in Nat /\ Start(j) \in Nat  BY <1>10 DEF Layout
  <1>12. a \in Start(k) .. Start(k + 1) - 1 /\ b \in Start(k) .. Start(k + 1) - 1
    BY <1>3, <1>4, <1>8, <1>9
  <1>13. Start(k) < Start(j) /\ Start(j) < Start(k + 1)
    BY <1>5, <1>6, <1>7, <1>11, <1>12
  <1>14. CASE j <= k
    <2>1. j \in 0 .. k  BY <1>10, <1>14
    <2>2. Start(j) <= Start(k)  BY <1>10, <2>1 DEF Layout
    <2> QED  BY <1>11, <1>13, <2>2
  <1>15. CASE k + 1 <= j
    <2>1. k + 1 \in 0 .. j  BY <1>10, <1>15
    <2>2. Start(k + 1) <= Start(j)  BY <2>1 DEF Layout
    <2> QED  BY <1>11, <1>13, <2>2
  <1> QED  BY <1>10, <1>14, <1>15

LEMMA SendTally ==
  ASSUME MapInv, PdTyped, FramesRight, Position, Ordered, Tally, NEW n, NEW fr, Sends(n, fr)
  PROVE  Tally'
  <1>1. Layout /\ UNCHANGED mapVars /\ pc \in Cmds /\ Mapped /\ fr \in Frm /\ FrameRight(fr)
        /\ fr.cmd = pc /\ fr.adr = adr /\ wkc' = wkc /\ valid' = valid /\ dcLost' = dcLost
        /\ pulled' = pulled
    BY DEF Sends
  <1>2. Sound' = Sound /\ EachInOneFrame' = EachInOneFrame /\ fmmu' = fmmu  BY <1>1, Still
  <1>3. pc' \in Cmds \cup {"receive"} /\ pc' # "app" /\ pc' # "pull"
    BY <1>1 DEF Sends, Advance, TurnToLWR, AllSent, Cmds
  <1>4. pc # "app" /\ pc # "pull" /\ pulled = 0  BY <1>1 DEF Cmds, PdTyped
  <1> DEFINE Pend == UNION {ServedBy(idxstack'[k], fmmu) : k \in OnStack'}
  <1>5. Pending' = Pend  BY <1>1, <1>2, <1>4 DEF Pending, OnStack, ServedBy, Addresses, FmmuBytes
  <1> SUFFICES ASSUME Sound, EachInOneFrame, ~dcLost
               PROVE  /\ wkc = 0 /\ ~valid /\ missed' \cap Pend = {}
                      /\ missed' # {} => Len(idxstack') = MAXBUF
    BY <1>1, <1>2, <1>3, <1>5 DEF Tally
  <1>6. wkc = 0 /\ ~valid /\ missed \cap Pending = {} /\ (missed # {} => Len(idxstack) = MAXBUF)
    BY <1>1, <1>4 DEF Tally
  <1>7. \A k \in OnStack : ServedBy(idxstack[k], fmmu) \subseteq Pending
    BY <1>4 DEF Pending, OnStack
  <1>8. CASE PushedAs(fr)
    <2>1. MAXBUF \in Nat /\ Len(idxstack) \in Nat
      BY StackAfter, ProcessDataAssumption DEF ProcessDataAssumption
    <2>2. missed = {} /\ missed' = missed  BY <1>6, <1>8, <2>1 DEF PushedAs
    <2> QED  BY <1>6, <2>2
  <1>9. CASE DroppedAs(fr)
    <2>1. idxstack' = idxstack /\ missed' = missed \cup ServedBy(fr, fmmu) /\ Len(idxstack) = MAXBUF
      BY <1>9 DEF DroppedAs
    <2>2. ASSUME NEW k \in OnStack' PROVE missed' \cap ServedBy(idxstack'[k], fmmu) = {}
      <3>1. k \in OnStack  BY <2>1 DEF OnStack
      <3>2. missed \cap ServedBy(idxstack[k], fmmu) = {}  BY <1>6, <1>7, <3>1
      <3>3. idxstack[k] \in Frm /\ FrameRight(idxstack[k])
        BY <3>1 DEF PdTyped, OnStack, FramesRight
      <3>4. idxstack[k].cmd = fr.cmd => Cut(idxstack[k].adr + idxstack[k].length, fr.adr)
        BY <1>1, <3>1 DEF Ordered
      <3>5. ServedBy(idxstack[k], fmmu) \cap ServedBy(fr, fmmu) = {}
        BY <1>1, <3>3, <3>4, ServedOnce
      <3> QED  BY <2>1, <3>2, <3>5
    <2> QED  BY <1>6, <2>1, <2>2
  <1> QED  BY <1>6, <1>8, <1>9 DEF Sends

\* Sending a frame keeps the invariant.
LEMMA SendKeeps ==
  ASSUME MapInv, PdInv, SendFrame
  PROVE  PdInv'
  <1>0. PdTyped /\ Position /\ Aligned  BY DEF PdInv
  <1>1. PICK n, fr : Sends(n, fr)  BY <1>0, SendIs
  <1>2. Layout /\ UNCHANGED mapVars /\ pc \in Cmds  BY <1>1 DEF Sends
  <1>3. Aligned'
    <2>1. BitPos' = BitPos /\ Mapped' = Mapped /\ overlap' = overlap  BY <1>2, Still DEF mapVars, cursor
    <2> QED  BY <1>0, <2>1 DEF Aligned
  <1>4. Fresh'
    <2>1. pc' \in Cmds \cup {"receive"} /\ pc' # "app" /\ pc' # "pull"
      BY <1>1, <1>2 DEF Sends, Advance, TurnToLWR, AllSent, Cmds
    <2> QED  BY <2>1 DEF Fresh
  <1>5. PdTyped' /\ FramesRight' /\ Position' /\ Clock' /\ OutputsKept'
    BY <1>1, SendTyped, SendFrames, SendPosition, SendClock, SendOutputs DEF PdInv
  <1>6. Ordered' /\ Few' /\ Carries' /\ Tally'
    BY <1>1, SendOrdered, SendFew, SendCarries, SendTally DEF PdInv
  <1> QED  BY <1>3, <1>4, <1>5, <1>6 DEF PdInv

-----------------------------------------------------------------------------
(* Before the first cycle.                                                 *)

\* Before the first cycle the invariant is about the image alone.
LEMMA Idle ==
  /\ PdTyped /\ Aligned /\ pc = "app" /\ cycle = 0 /\ idxstack = <<>> /\ dctime = "none" => PdInv
  /\ (PdTyped /\ Aligned /\ pc = "app" /\ cycle = 0 /\ idxstack = <<>> /\ dctime = "none")' => PdInv'
  <1>1. ASSUME PdTyped, Aligned, pc = "app", cycle = 0, idxstack = <<>>, dctime = "none"
        PROVE  PdInv
    <2>1. OnStack = {}  BY <1>1 DEF OnStack
    <2> QED
      BY <1>1, <2>1 DEF PdInv, FramesRight, Position, Clock, OutputsKept, Ordered, Few, Carries,
         Fresh, Tally, Cmds
  <1>2. ASSUME PdTyped', Aligned', pc' = "app", cycle' = 0, idxstack' = <<>>, dctime' = "none"
        PROVE  PdInv'
    <2>1. OnStack' = {}  BY <1>2 DEF OnStack
    <2> QED
      BY <1>2, <2>1 DEF PdInv, FramesRight, Position, Clock, OutputsKept, Ordered, Few, Carries,
         Fresh, Tally, Cmds
  <1> QED  BY <1>1, <1>2

\* The invariant holds at first.
LEMMA InitKeeps ==
  ASSUME PdInit
  PROVE  PdInv
  <1>1. ~Mapped  BY DEF PdInit, Init, Mapped
  <1>2. Aligned  BY <1>1 DEF Aligned
  <1>3. /\ DcChoices \subseteq BOOLEAN /\ MAXBUF \in Nat /\ MaxCycles \in Nat /\ MAXIOSEGMENTS \in Nat
    BY ProcessDataAssumption, Parameters DEF ProcessDataAssumption
  <1>4. idxstack = <<>> /\ Len(idxstack) = 0 /\ idxstack \in Seq(Frm)  BY DEF PdInit
  <1>5. PdTyped
    <2>1. /\ hasdc \in BOOLEAN /\ first = FALSE /\ valid = FALSE /\ dcLost = FALSE /\ pc = "app"
          /\ cycle = 0 /\ missed = {} /\ length = 0 /\ adr = 0 /\ seg = 0 /\ pulled = 0
          /\ wkc = -1 /\ image = <<>> /\ dctime = "none"
      BY <1>3 DEF PdInit
    <2>2. cycle \in 0 .. MaxCycles /\ seg \in 0 .. MAXIOSEGMENTS /\ pulled \in 0 .. Len(idxstack)
          /\ Len(idxstack) <= MAXBUF
      BY <1>3, <1>4, <2>1
    <2>3. length \in Int /\ adr \in Nat /\ wkc \in Int /\ wkc >= -1 /\ pc # "pull"  BY <2>1
    <2> HIDE DEF Mapped
    <2> QED  BY <1>1, <1>4, <2>1, <2>2, <2>3, Zenon DEF PdTyped
  <1> QED  BY <1>2, <1>4, <1>5, Idle DEF PdInit

\* The mapping keeps it.
LEMMA ConfigureKeeps ==
  ASSUME MapInv, PdInv, Configure
  PROVE  PdInv'
  <1>0. PdTyped  BY DEF PdInv
  <1>1. ~Mapped /\ MapNext  BY MappedStays DEF Configure
  <1>2. pc = "app" /\ cycle = 0 /\ idxstack = <<>> /\ missed = {} /\ dctime = "none" /\ image = <<>>
        /\ pulled = 0
    BY <1>0, <1>1 DEF PdTyped
  <1>3. /\ hasdc' = hasdc /\ pc' = pc /\ first' = first /\ length' = length /\ adr' = adr
        /\ seg' = seg /\ idxstack' = idxstack /\ pulled' = pulled /\ wkc' = wkc
        /\ valid' = valid /\ sent' = sent /\ dctime' = dctime /\ cycle' = cycle
        /\ missed' = missed /\ dcLost' = dcLost
        /\ image' = IF Mapped' THEN [a \in 0 .. 2 * LogAddr' + LIMIT |-> Program] ELSE image
    BY DEF Configure, loopVars
  <1>4. Aligned'
    <2> SUFFICES ASSUME phase' = "mapped", ~overlap' PROVE BitPos' = 0
      BY DEF Aligned, Mapped
    <2>1. phase # "mapped"  BY <1>1 DEF Mapped
    <2>2. EndInputs
      BY <1>1, <2>1 DEF MapNext, MapBits, MapBytes, MapEmpty, EndSlave, EndOutputs,
         EndOverlapOutputs, EndOverlapInputs, EndOverlapMap
    <2>3. BitPos \in 0 .. 7  BY DEF MapInv, MapTyped
    <2> QED  BY <2>2, <2>3 DEF EndInputs, cursor
  <1>5. Mapped' => image' \in [0 .. 2 * LogAddr' + LIMIT -> Content]
    <2>1. Program \in Content  BY DEF Content
    <2> QED  BY <1>3, <2>1
  <1>6. PdTyped'
    BY <1>0, <1>2, <1>3, <1>5 DEF PdTyped
  <1> QED  BY <1>2, <1>3, <1>4, <1>6, Idle

-----------------------------------------------------------------------------
(* The send call begins.                                                   *)

\* The loop that it begins with.
Begins ==
    \/ ImageSize = 0 /\ pc' = "receive" /\ seg' = seg /\ adr' = adr /\ length' = length
    \/ /\ ImageSize > 0 /\ grp.blockLRW = 0
       /\ pc' = "LRW" /\ seg' = 0 /\ adr' = 0 /\ length' = LogicalSize
    \/ /\ ImageSize > 0 /\ grp.blockLRW # 0 /\ grp.Ibytes > 0
       /\ pc' = "LRD" /\ seg' = grp.Isegment /\ adr' = grp.Obytes /\ length' = grp.Ibytes
    \/ /\ ImageSize > 0 /\ grp.blockLRW # 0 /\ grp.Ibytes = 0 /\ grp.Obytes > 0
       /\ pc' = "LWR" /\ seg' = 0 /\ adr' = 0 /\ length' = grp.Obytes

\* What SendStart does, by the loop that it begins.
LEMMA StartIsBegins ==
  ASSUME Layout, SendStart
  PROVE  Begins
  <1>1. grp.Obytes \in Nat /\ grp.Ibytes \in Nat /\ ImageSize = grp.Obytes + grp.Ibytes
    BY DEF Layout, ImageSize
  <1> DEFINE e == ImageSize
  <1>2. IF e = 0
        THEN pc' = "receive" /\ seg' = seg /\ adr' = adr /\ length' = length
        ELSE IF grp.blockLRW = 0 THEN StartLRW
        ELSE IF grp.Ibytes > 0 THEN StartLRD ELSE StartLWR
    BY DEF SendStart
  <1> HIDE DEF e
  <1>3. e = 0 \/ e > 0  BY <1>1 DEF e
  <1>4. CASE e = 0  BY <1>2, <1>4 DEF Begins, e
  <1>5. CASE e > 0 /\ grp.blockLRW = 0
    <2>1. StartLRW  BY <1>2, <1>5
    <2> QED  BY <1>5, <2>1 DEF StartLRW, Begins, e
  <1>6. CASE e > 0 /\ grp.blockLRW # 0 /\ grp.Ibytes > 0
    <2>1. StartLRD  BY <1>2, <1>6
    <2> QED  BY <1>6, <2>1 DEF StartLRD, Begins, e
  <1>7. CASE e > 0 /\ grp.blockLRW # 0 /\ ~(grp.Ibytes > 0)
    <2>1. StartLWR  BY <1>2, <1>7
    <2>2. grp.Ibytes = 0 /\ grp.Obytes > 0  BY <1>1, <1>7 DEF e
    <2> QED  BY <1>7, <2>1, <2>2 DEF StartLWR, Begins, e
  <1> QED  BY <1>3, <1>4, <1>5, <1>6, <1>7

\* An image without a byte.
LEMMA EmptyImage ==
  ASSUME Layout
  PROVE  ImageSize = 0 => LogicalSize = 0
  <1>1. grp.Obytes \in Nat /\ grp.Ibytes \in Nat /\ ImageSize = grp.Obytes + grp.Ibytes
    BY DEF Layout, ImageSize
  <1>2. ImageSize = 0 => grp.Obytes = 0 /\ grp.Ibytes = 0  BY <1>1
  <1>3. CASE overlap  BY <1>2, <1>3 DEF Layout
  <1>4. CASE ~overlap  BY <1>2, <1>4 DEF Layout
  <1> QED  BY <1>3, <1>4

LEMMA StartTyped ==
  ASSUME MapInv, PdTyped, Layout, SendStart, Begins
  PROVE  PdTyped'
  <1>1. UNCHANGED mapVars /\ Mapped /\ pc = "app" /\ cycle < MaxCycles  BY DEF SendStart
  <1>2. /\ hasdc' = hasdc /\ first' = hasdc /\ valid' = FALSE /\ dcLost' = FALSE /\ missed' = {}
        /\ cycle' = cycle + 1 /\ idxstack' = idxstack /\ pulled' = pulled /\ wkc' = 0
        /\ image' = image /\ sent' = image /\ dctime' = dctime
    BY DEF SendStart
  <1>3. Mapped' = Mapped /\ LogAddr' = LogAddr /\ fmmu' = fmmu  BY <1>1, Still
  <1>4. pc' \in Cmds \cup {"receive"} /\ pc' # "app" /\ pc' # "pull"
    BY DEF Begins, Cmds
  <1>5. length' \in Int /\ adr' \in Nat /\ seg' \in 0 .. MAXIOSEGMENTS
    <2>1. /\ grp.Obytes \in Nat /\ grp.Ibytes \in Nat /\ LogicalSize \in Nat /\ grp.Isegment \in Nat
          /\ grp.nsegments \in Nat /\ grp.Isegment < grp.nsegments /\ grp.nsegments <= MAXIOSEGMENTS
      BY DEF Layout
    <2>2. 0 \in 0 .. MAXIOSEGMENTS /\ grp.Isegment \in 0 .. MAXIOSEGMENTS  BY <2>1, Parameters
    <2>3. length \in Int /\ adr \in Nat /\ seg \in 0 .. MAXIOSEGMENTS  BY DEF PdTyped
    <2> QED  BY <2>1, <2>2, <2>3 DEF Begins
  <1>6. cycle + 1 \in 0 .. MaxCycles /\ cycle + 1 > 0
    <2>1. cycle \in 0 .. MaxCycles  BY DEF PdTyped
    <2>2. MaxCycles \in Nat  BY ProcessDataAssumption DEF ProcessDataAssumption
    <2> QED  BY <1>1, <2>1, <2>2
  <1>7. /\ image \in [0 .. 2 * LogAddr + LIMIT -> Content] /\ pulled = 0 /\ hasdc \in BOOLEAN
        /\ idxstack \in Seq(Frm) /\ Len(idxstack) <= MAXBUF /\ pulled \in 0 .. Len(idxstack)
    BY <1>1 DEF PdTyped
  <1>8. /\ hasdc' \in BOOLEAN /\ first' \in BOOLEAN /\ valid' \in BOOLEAN /\ dcLost' \in BOOLEAN
        /\ cycle' \in 0 .. MaxCycles /\ missed' \subseteq fmmu' /\ wkc' \in Int /\ wkc' >= -1 /\ wkc' >= 0
        /\ cycle' > 0 /\ idxstack' \in Seq(Frm) /\ Len(idxstack') <= MAXBUF
        /\ pulled' \in 0 .. Len(idxstack') /\ pulled' = 0
        /\ image' \in [0 .. 2 * LogAddr' + LIMIT -> Content]
        /\ sent' \in [0 .. 2 * LogAddr' + LIMIT -> Content]
    <2>1. 0 \in Int /\ 0 >= -1 /\ 0 >= 0  OBVIOUS
    <2>2. /\ hasdc' \in BOOLEAN /\ first' \in BOOLEAN /\ valid' \in BOOLEAN /\ dcLost' \in BOOLEAN
          /\ missed' \subseteq fmmu' /\ wkc' \in Int /\ wkc' >= -1 /\ wkc' >= 0
      BY <1>2, <1>7, <2>1
    <2>3. cycle' \in 0 .. MaxCycles /\ cycle' > 0  BY <1>2, <1>6
    <2>4. /\ idxstack' \in Seq(Frm) /\ Len(idxstack') <= MAXBUF
          /\ pulled' \in 0 .. Len(idxstack') /\ pulled' = 0
      BY <1>2, <1>7
    <2>5. /\ image' \in [0 .. 2 * LogAddr' + LIMIT -> Content]
          /\ sent' \in [0 .. 2 * LogAddr' + LIMIT -> Content]
      BY <1>2, <1>3, <1>7
    <2> QED  BY <2>2, <2>3, <2>4, <2>5
  <1>9. pc' \in Cmds \cup {"app", "receive", "pull"}  BY <1>4
  <1> HIDE DEF Mapped
  <1> QED
    BY <1>1, <1>3, <1>4, <1>5, <1>8, <1>9, Zenon DEF PdTyped

LEMMA StartPosition ==
  ASSUME Layout, UNCHANGED mapVars, Begins, idxstack' = <<>>
  PROVE  Position' /\ Few'
  <1>1. grp' = grp /\ LogicalSize' = LogicalSize /\ Mark' = Mark /\ ImageSize' = ImageSize
        /\ IOsegment' = IOsegment /\ Sound' = Sound
    BY Still
  <1>2. /\ grp.Obytes \in Nat /\ grp.Ibytes \in Nat /\ LogicalSize \in Nat /\ grp.Isegment \in Nat
        /\ grp.nsegments \in Nat /\ grp.Isegment < grp.nsegments /\ Start(0) = 0
    BY DEF Layout
  <1>3. 0 \in 0 .. grp.nsegments - 1 /\ grp.Isegment \in grp.Isegment .. grp.nsegments - 1
    BY <1>2
  <1>4. OnStack' = {} /\ Len(idxstack') = 0  BY DEF OnStack
  <1>5. CASE pc' = "receive"  BY <1>5 DEF Position, Few, Cmds
  <1>6. CASE /\ ImageSize > 0 /\ grp.blockLRW = 0
             /\ pc' = "LRW" /\ seg' = 0 /\ adr' = 0 /\ length' = LogicalSize
    <2>1. LogicalSize = LogicalSize - 0  BY <1>2
    <2>2. StartOf(IOsegment', seg') = 0  BY <1>1, <1>2, <1>6 DEF Start
    <2>3. Position'  BY <1>1, <1>3, <1>6, <2>1, <2>2 DEF Position, Start
    <2>4. Few'  BY <1>1, <1>4, <1>6 DEF Few
    <2> QED  BY <2>3, <2>4
  <1>7. CASE /\ ImageSize > 0 /\ grp.blockLRW # 0 /\ grp.Ibytes > 0
             /\ pc' = "LRD" /\ seg' = grp.Isegment /\ adr' = grp.Obytes /\ length' = grp.Ibytes
    <2>1. grp.Obytes = grp.Obytes + 0 /\ grp.Ibytes = grp.Ibytes - (grp.Obytes - grp.Obytes)
          /\ 0 <= grp.Isegment - grp.Isegment
      BY <1>2
    <2>3. Position'  BY <1>1, <1>3, <1>4, <1>7, <2>1 DEF Position, Start
    <2>4. Few'  BY <1>1, <1>4, <1>7, <2>1 DEF Few
    <2> QED  BY <2>3, <2>4
  <1>8. CASE /\ ImageSize > 0 /\ grp.blockLRW # 0 /\ grp.Ibytes = 0 /\ grp.Obytes > 0
             /\ pc' = "LWR" /\ seg' = 0 /\ adr' = 0 /\ length' = grp.Obytes
    <2>1. grp.Obytes = grp.Obytes - 0 /\ 0 <= grp.Obytes /\ 0 <= grp.Isegment /\ ~(grp.Ibytes > 0)
      BY <1>2, <1>8
    <2>2. StartOf(IOsegment', seg') = 0  BY <1>1, <1>2, <1>8 DEF Start
    <2>3. Position'  BY <1>1, <1>3, <1>8, <2>1, <2>2 DEF Position, Start
    <2>4. Few'  BY <1>1, <1>4, <1>8, <2>1 DEF Few
    <2> QED  BY <2>3, <2>4
  <1> QED  BY <1>5, <1>6, <1>7, <1>8 DEF Begins

LEMMA StartCarries ==
  ASSUME Layout, UNCHANGED mapVars, Begins
  PROVE  Carries'
  <1>1. grp' = grp /\ LogicalSize' = LogicalSize /\ Sound' = Sound
    BY Still
  <1>2. /\ grp.Obytes \in Nat /\ grp.Ibytes \in Nat /\ LogicalSize \in Nat
    BY DEF Layout
  <1> SUFFICES ASSUME Sound, NEW a \in 0 .. LogicalSize - 1, Done(a)' PROVE FALSE
    BY <1>1 DEF Carries
  <1>3. a \in Nat /\ a < LogicalSize  BY <1>2
  <1>5. CASE ImageSize = 0  BY <1>3, <1>5, EmptyImage
  <1>6. CASE pc' = "LRW" /\ adr' = 0
    <2>1. a < 0  BY <1>6 DEF Done
    <2> QED  BY <1>3, <2>1
  <1>7. CASE pc' = "LRD" /\ adr' = grp.Obytes
    <2>1. grp.Obytes <= a /\ a < grp.Obytes  BY <1>1, <1>7 DEF Done
    <2> QED  BY <1>2, <1>3, <2>1
  <1>8. CASE grp.blockLRW # 0 /\ grp.Ibytes = 0 /\ pc' = "LWR" /\ adr' = 0
    <2>1. a < 0 \/ grp.Obytes <= a  BY <1>1, <1>8 DEF Done
    <2>2. ~overlap  BY <1>8, SoundMeans
    <2>3. LogicalSize = grp.Obytes + 0  BY <1>8, <2>2 DEF Layout
    <2> QED  BY <1>2, <1>3, <2>1, <2>3
  <1> QED  BY <1>5, <1>6, <1>7, <1>8 DEF Begins

\* The start of a cycle keeps it.
LEMMA StartKeeps ==
  ASSUME MapInv, PdInv, SendStart
  PROVE  PdInv'
  <1>0. PdTyped /\ Aligned /\ Clock  BY DEF PdInv
  <1>1. UNCHANGED mapVars /\ Mapped /\ pc = "app" /\ Layout /\ Begins
    BY LayoutIs, StartIsBegins DEF SendStart
  <1>2. /\ hasdc' = hasdc /\ first' = hasdc /\ valid' = FALSE /\ dcLost' = FALSE /\ missed' = {}
        /\ idxstack' = <<>> /\ wkc' = 0 /\ image' = image /\ sent' = image /\ dctime' = dctime
    BY <1>0, <1>1 DEF SendStart, PdTyped
  <1>3. PdTyped'  BY <1>0, <1>1, StartTyped
  <1>4. Position' /\ Few' /\ Carries'  BY <1>1, <1>2, StartPosition, StartCarries
  <1>5. OnStack' = {}  BY <1>2 DEF OnStack
  <1>6. FramesRight' /\ Ordered'  BY <1>5 DEF FramesRight, Ordered
  <1>7. Aligned'
    <2>1. BitPos' = BitPos /\ Mapped' = Mapped /\ overlap' = overlap  BY <1>1, Still DEF mapVars, cursor
    <2> QED  BY <1>0, <2>1 DEF Aligned
  <1>8. pc' \in Cmds \cup {"receive"} /\ pc' # "app" /\ pc' # "pull"
        /\ (pc' = "receive" => ImageSize = 0)
    BY <1>1 DEF Begins, Cmds
  <1>9. OutputsKept' /\ Fresh'  BY <1>2, <1>8 DEF OutputsKept, Fresh
  <1>10. Tally'  BY <1>2, <1>8 DEF Tally
  <1>11. Clock'
    <2>1. ImageSize' = ImageSize /\ Mapped' = Mapped  BY <1>1, Still
    <2>2. ~hasdc \/ (Mapped /\ ImageSize = 0) => dctime = "none"  BY <1>0 DEF Clock
    <2> QED  BY <1>2, <1>5, <1>8, <2>1, <2>2 DEF Clock, Cmds
  <1> QED  BY <1>3, <1>4, <1>6, <1>7, <1>9, <1>10, <1>11 DEF PdInv

-----------------------------------------------------------------------------
(* The receive call begins and ends.                                       *)

\* With all frames sent, a mapped byte is in one of them or was dropped.
LEMMA OnTheWay ==
  ASSUME MapInv, Mapped, Aligned, Carries, Sound, pc = "receive",
         NEW f \in fmmu, NEW a \in FmmuBytes(f)
  PROVE  f \in missed \/ \E k \in OnStack : a \in Addresses(idxstack[k])
  <1>1. /\ f.start \in Nat /\ f.size \in Nat /\ FmmuBytes(f) = f.start .. f.start + f.size - 1
        /\ f.start + f.size <= LogicalSize
    BY FmmuSides
  <1>2. LogicalSize \in Nat  BY LayoutIs DEF Layout
  <1>3. a \in 0 .. LogicalSize - 1  BY <1>1, <1>2
  <1>4. Done(a)  BY DEF Done
  <1>5. Dropped(a) \/ \E k \in OnStack : a \in Addresses(idxstack[k])
    BY <1>3, <1>4 DEF Carries
  <1> QED  BY <1>5 DEF Dropped

\* No FMMU counts for nothing.
LEMMA NothingCounted == ValueOf({}) = 0
  BY SumEmpty DEF ValueOf

\* The start of receiving keeps it.
LEMMA ReceiveStartKeeps ==
  ASSUME MapInv, PdInv, ReceiveStart
  PROVE  PdInv'
  <1>0. /\ PdTyped /\ Aligned /\ FramesRight /\ Clock /\ OutputsKept /\ Ordered /\ Carries /\ Tally
    BY DEF PdInv
  <1>1. /\ UNCHANGED mapVars /\ pc = "receive" /\ pc' = "pull" /\ first' = hasdc
        /\ hasdc' = hasdc /\ length' = length /\ adr' = adr /\ seg' = seg
        /\ idxstack' = idxstack /\ pulled' = pulled /\ wkc' = wkc /\ valid' = valid
        /\ image' = image /\ sent' = sent /\ dctime' = dctime /\ cycle' = cycle
        /\ missed' = missed /\ dcLost' = dcLost /\ DCl' = DCl /\ DCtO' = DCtO
    BY DEF ReceiveStart, clockVars
  <1>2. Mapped /\ pulled = 0 /\ pc # "app"  BY <1>0, <1>1 DEF PdTyped
  <1>3. Layout  BY <1>2, LayoutIs
  <1>4. /\ Mapped' = Mapped /\ LogAddr' = LogAddr /\ fmmu' = fmmu /\ grp' = grp /\ Sound' = Sound
        /\ LogicalSize' = LogicalSize /\ ImageSize' = ImageSize /\ overlap' = overlap
        /\ Small' = Small /\ FramesPerCycle' = FramesPerCycle /\ IOsegment' = IOsegment
        /\ EachInOneFrame' = EachInOneFrame /\ OnStack' = OnStack
    BY <1>1, Still DEF OnStack
  <1>5. PdTyped'
    <2> HIDE DEF Mapped
    <2>1. pc' \in Cmds \cup {"app", "receive", "pull"} /\ pc' # "app"  BY <1>1
    <2>2. hasdc \in BOOLEAN  BY <1>0 DEF PdTyped
    <2> QED  BY <1>0, <1>1, <1>2, <1>4, <2>1, <2>2, Zenon DEF PdTyped
  <1>6. Aligned'
    <2>1. BitPos' = BitPos  BY <1>1 DEF mapVars, cursor
    <2> QED  BY <1>0, <1>4, <2>1 DEF Aligned
  <1>7. FramesRight' /\ Ordered' /\ Position' /\ Few' /\ OutputsKept'
    <2>1. FramesRight'  BY <1>0, <1>1, <1>4 DEF FramesRight, FrameRight
    <2>2. Ordered'  BY <1>0, <1>1, <1>4 DEF Ordered, Cut, Cmds
    <2>3. Position' /\ Few'  BY <1>1 DEF Position, Few, Cmds
    <2>4. OutputsKept'  BY <1>0, <1>1, <1>2, <1>4 DEF OutputsKept
    <2> QED  BY <2>1, <2>2, <2>3, <2>4
  <1>8. Clock'
    <2>1. ~dcLost /\ (idxstack = <<>> <=> ImageSize = 0)  BY <1>0, <1>1 DEF Clock
    <2>2. ~hasdc \/ (Mapped /\ ImageSize = 0) => dctime = "none"  BY <1>0 DEF Clock
    <2>3. ~(pulled > 0)  BY <1>2
    <2> QED  BY <1>0, <1>1, <1>2, <1>4, <2>1, <2>2, <2>3 DEF Clock, Cmds
  <1>9. Carries'
    <2>1. \A a : Done(a)  BY <1>1 DEF Done
    <2>2. \A a : Dropped(a)' <=> Dropped(a)  BY <1>1, <1>4 DEF Dropped, FmmuBytes
    <2> QED  BY <1>0, <1>1, <1>2, <1>4, <2>1, <2>2 DEF Carries, Addresses
  <1>10. OnStack = pulled + 1 .. Len(idxstack)  BY <1>2 DEF OnStack
  <1>11. Fresh'
    <2> SUFFICES ASSUME Sound, NEW a, InputFmmus(a) # {}
                 PROVE  \/ InputFmmus(a) \cap missed # {}
                        \/ \E k \in OnStack : a \in Addresses(idxstack[k])
      <3>1. \A a : InputFmmus(a)' = InputFmmus(a)  BY <1>1, Still
      <3> QED  BY <1>1, <1>4, <1>10, <3>1 DEF Fresh, Addresses
    <2>1. PICK f \in fmmu : f.dir = "I" /\ a \in FmmuBytes(f)  BY DEF InputFmmus
    <2>2. f \in InputFmmus(a)  BY <2>1 DEF InputFmmus
    <2>3. f \in missed \/ \E k \in OnStack : a \in Addresses(idxstack[k])
      BY <1>0, <1>1, <1>2, <2>1, OnTheWay
    <2> QED  BY <2>2, <2>3
  <1>12. Tally'
    <2>1. Pending' = Pending
      BY <1>1, <1>4 DEF Pending, ServedBy, Addresses, FmmuBytes
    <2> SUFFICES ASSUME Sound, EachInOneFrame, ~dcLost
                 PROVE  /\ missed \cap Pending = {}
                        /\ wkc = ValueOf(fmmu \ (missed \cup Pending))
                        /\ fmmu = missed \cup Pending
      <3>1. \A S : ValueOf(S)' = ValueOf(S)  BY <1>1, Still
      <3>2. pc' # "app" /\ pc' \notin Cmds \cup {"receive"}  BY <1>1 DEF Cmds
      <3> QED  BY <1>1, <1>4, <2>1, <3>1, <3>2 DEF Tally
    <2>2. wkc = 0 /\ missed \cap Pending = {}  BY <1>0, <1>1 DEF Tally
    <2>3. missed \subseteq fmmu /\ Pending \subseteq fmmu
      BY <1>0 DEF PdTyped, Pending, ServedBy
    <2>4. ASSUME NEW f \in fmmu, f \notin missed PROVE f \in Pending
      <3>1. f.start \in FmmuBytes(f)  BY <1>0, <1>2, FmmuSides
      <3>2. PICK k \in OnStack : f.start \in Addresses(idxstack[k])
        BY <1>0, <1>1, <1>2, <2>4, <3>1, OnTheWay
      <3>3. idxstack[k] \in Frm /\ FrameRight(idxstack[k])
        BY <1>0, <3>2 DEF PdTyped, OnStack, FramesRight
      <3>4. f \in ServedBy(idxstack[k], fmmu)
        BY <1>0, <1>2, <3>1, <3>2, <3>3, ServedIf
      <3> QED  BY <1>10, <3>2, <3>4 DEF Pending
    <2>5. fmmu = missed \cup Pending  BY <2>3, <2>4
    <2>6. fmmu \ (missed \cup Pending) = {}  BY <2>5
    <2> QED  BY <2>2, <2>5, <2>6, NothingCounted
  <1> QED  BY <1>5, <1>6, <1>7, <1>8, <1>9, <1>11, <1>12 DEF PdInv

\* The end of a cycle keeps it.
LEMMA ReceiveEndKeeps ==
  ASSUME MapInv, PdInv, ReceiveEnd
  PROVE  PdInv'
  <1>0. /\ PdTyped /\ Aligned /\ Clock /\ Fresh /\ Tally
    BY DEF PdInv
  <1>1. /\ UNCHANGED mapVars /\ pc = "pull" /\ pc' = "app" /\ first' = FALSE
        /\ hasdc' = hasdc /\ length' = length /\ adr' = adr /\ seg' = seg
        /\ idxstack' = <<>> /\ pulled' = 0 /\ pulled = Len(idxstack)
        /\ wkc' = (IF valid THEN wkc ELSE -1) /\ valid' = valid
        /\ image' = image /\ sent' = sent /\ dctime' = dctime /\ cycle' = cycle
        /\ missed' = missed /\ dcLost' = dcLost
    BY DEF ReceiveEnd, clearindex
  <1>2. Mapped /\ pc # "app" /\ cycle > 0 /\ idxstack \in Seq(Frm)  BY <1>0, <1>1 DEF PdTyped
  <1>3. Layout  BY <1>2, LayoutIs
  <1>4. /\ Mapped' = Mapped /\ LogAddr' = LogAddr /\ fmmu' = fmmu /\ grp' = grp /\ Sound' = Sound
        /\ ImageSize' = ImageSize /\ overlap' = overlap
        /\ EachInOneFrame' = EachInOneFrame
    BY <1>1, Still
  <1>10. OnStack' = {} /\ pulled + 1 .. Len(idxstack) = {}
    BY <1>1, <1>2 DEF OnStack
  <1>5. PdTyped'
    <2> HIDE DEF Mapped
    <2>1. pc' \in Cmds \cup {"app", "receive", "pull"} /\ pc' # "pull"  BY <1>1
    <2>2. wkc' \in Int /\ wkc' >= -1  BY <1>0, <1>1 DEF PdTyped
    <2>3. FALSE \in BOOLEAN /\ <<>> \in Seq(Frm) /\ Len(<<>>) <= MAXBUF /\ 0 \in 0 .. Len(<<>>)
      BY ProcessDataAssumption DEF ProcessDataAssumption
    <2> QED  BY <1>0, <1>1, <1>2, <1>4, <2>1, <2>2, <2>3, Zenon DEF PdTyped
  <1>6. Aligned'
    <2>1. BitPos' = BitPos  BY <1>1 DEF mapVars, cursor
    <2> QED  BY <1>0, <1>4, <2>1 DEF Aligned
  <1>7. FramesRight' /\ Ordered' /\ Position' /\ Few' /\ OutputsKept' /\ Carries'
    BY <1>1, <1>10 DEF FramesRight, Ordered, Position, Few, OutputsKept, Carries, Cmds
  <1>8. Clock'
    <2>1. ImageSize > 0 => pulled > 0
      <3>1. idxstack = <<>> <=> ImageSize = 0  BY <1>0, <1>1 DEF Clock
      <3>2. ImageSize \in Nat  BY <1>3 DEF Layout, ImageSize
      <3>3. idxstack # <<>> => Len(idxstack) > 0  BY <1>2
      <3> QED  BY <1>1, <3>1, <3>2, <3>3
    <2>2. ~hasdc \/ (Mapped /\ ImageSize = 0) => dctime = "none"  BY <1>0 DEF Clock
    <2>3. hasdc /\ ImageSize > 0 /\ ~dcLost => dctime = "clock"
      BY <1>0, <1>1, <2>1 DEF Clock
    <2> QED  BY <1>1, <1>4, <1>10, <2>2, <2>3 DEF Clock, Cmds
  <1>11. Fresh'
    <2>1. \A a : InputFmmus(a)' = InputFmmus(a)  BY <1>1, Still
    <2>2. Behind' = Behind  BY <1>1, Still
    <2> QED  BY <1>0, <1>1, <1>4, <1>10, <2>1, <2>2 DEF Fresh
  <1>12. Tally'
    <2> SUFFICES ASSUME Sound, EachInOneFrame, ~dcLost
                 PROVE  IF valid THEN wkc' = ValueOf(fmmu \ missed) ELSE wkc' = -1 /\ missed = fmmu
      <3>1. \A S : ValueOf(S)' = ValueOf(S)  BY <1>1, Still
      <3>2. pc' \notin Cmds \cup {"receive"} /\ pc' # "pull"  BY <1>1 DEF Cmds
      <3> QED  BY <1>1, <1>4, <3>1, <3>2 DEF Tally
    <2>1. Pending = {}  BY <1>10 DEF Pending
    <2>2. wkc = ValueOf(fmmu \ (missed \cup Pending)) /\ (~valid => fmmu = missed \cup Pending)
      BY <1>0, <1>1 DEF Tally
    <2> QED  BY <1>1, <2>1, <2>2
  <1> QED  BY <1>5, <1>6, <1>7, <1>8, <1>11, <1>12 DEF PdInv

\* So does a step that changes nothing.
LEMMA PdStutter ==
  ASSUME PdInv, UNCHANGED vars
  PROVE  PdInv'
  <1>1. /\ UNCHANGED mapVars /\ pc' = pc /\ first' = first
        /\ hasdc' = hasdc /\ length' = length /\ adr' = adr /\ seg' = seg
        /\ idxstack' = idxstack /\ pulled' = pulled /\ wkc' = wkc /\ valid' = valid
        /\ image' = image /\ sent' = sent /\ dctime' = dctime /\ cycle' = cycle
        /\ missed' = missed /\ dcLost' = dcLost /\ DCl' = DCl /\ DCtO' = DCtO
    BY DEF vars, pdVars, loopVars, clockVars
  <1>2. BitPos' = BitPos  BY <1>1 DEF mapVars, cursor
  <1>4. /\ Mapped' = Mapped /\ LogAddr' = LogAddr /\ fmmu' = fmmu /\ grp' = grp /\ Sound' = Sound
        /\ LogicalSize' = LogicalSize /\ ImageSize' = ImageSize /\ overlap' = overlap
        /\ Small' = Small /\ FramesPerCycle' = FramesPerCycle /\ IOsegment' = IOsegment
        /\ EachInOneFrame' = EachInOneFrame /\ OnStack' = OnStack /\ Behind' = Behind /\ Mark' = Mark
    BY <1>1, Still DEF OnStack
  <1>5. /\ \A k : Start(k)' = Start(k)
        /\ \A a : InputFmmus(a)' = InputFmmus(a)
        /\ \A S : ValueOf(S)' = ValueOf(S)
    BY <1>1, Still
  <1>6. PdTyped' /\ Aligned'
    <2> HIDE DEF Mapped
    <2>1. PdTyped'  BY <1>1, <1>4, Zenon DEF PdInv, PdTyped
    <2>2. Aligned'  BY <1>2, <1>4 DEF PdInv, Aligned
    <2> QED  BY <2>1, <2>2
  <1>7. FramesRight'  BY <1>1, <1>4 DEF PdInv, FramesRight, FrameRight
  <1>8. Position'  BY <1>1, <1>4, <1>5 DEF PdInv, Position, Start
  <1>9. Clock'  BY <1>1, <1>4 DEF PdInv, Clock
  <1>10. OutputsKept' /\ Few'  BY <1>1, <1>4 DEF PdInv, OutputsKept, Few
  <1>11. Ordered'  BY <1>1, <1>4 DEF PdInv, Ordered, Cut
  <1>12. Carries'
    <2>1. \A a : (Dropped(a)' <=> Dropped(a)) /\ (Done(a)' <=> Done(a))
      BY <1>1, <1>4 DEF Dropped, Done, FmmuBytes
    <2> QED  BY <1>1, <1>4, <2>1 DEF PdInv, Carries, Addresses
  <1>13. Fresh'  BY <1>1, <1>4, <1>5 DEF PdInv, Fresh, Addresses
  <1>14. Tally'
    <2>1. Pending' = Pending  BY <1>1, <1>4 DEF Pending, ServedBy, Addresses, FmmuBytes
    <2> QED  BY <1>1, <1>4, <1>5, <2>1 DEF PdInv, Tally
  <1> QED
    BY <1>6, <1>7, <1>8, <1>9, <1>10, <1>11, <1>12, <1>13, <1>14 DEF PdInv

-----------------------------------------------------------------------------
(* What the work counter counts.                                           *)

\* The sum over two sets that have nothing in common.
LEMMA SumUnion ==
  ASSUME NEW S, IsFiniteSet(S), NEW G, \A x \in S : G[x] \in Nat,
         NEW A \in SUBSET S, NEW B \in SUBSET S, A \cap B = {}
  PROVE  Sum(G, A \cup B) = Sum(G, A) + Sum(G, B)
  <1> DEFINE N == {n \in Nat : \A C \in SUBSET (S \ A) : Cardinality(C) = n =>
                      Sum(G, A \cup C) = Sum(G, A) + Sum(G, C)}
  <1>1. \A T \in SUBSET S : /\ IsFiniteSet(T) /\ Sum(G, T) \in Nat
                            /\ \A y \in T : Sum(G, T) = Sum(G, T \ {y}) + G[y]
    <2> TAKE T \in SUBSET S
    <2>1. IsFiniteSet(T) /\ \A x \in T : G[x] \in Nat  BY FS_Subset
    <2> QED  BY <2>1, SumNat, SumAdds
  <1>2. 0 \in N
    <2> SUFFICES ASSUME NEW C \in SUBSET (S \ A), Cardinality(C) = 0
                 PROVE  Sum(G, A \cup C) = Sum(G, A) + Sum(G, C)
      OBVIOUS
    <2>1. C \in SUBSET S  OBVIOUS
    <2>2. C = {}  BY <1>1, <2>1, FS_EmptySet
    <2>3. A \cup C = A /\ Sum(G, C) = 0 /\ Sum(G, A) \in Nat  BY <1>1, <2>2, SumEmpty
    <2> QED  BY <2>3
  <1>3. ASSUME NEW n \in Nat, n \in N PROVE n + 1 \in N
    <2> SUFFICES ASSUME NEW C \in SUBSET (S \ A), Cardinality(C) = n + 1
                 PROVE  Sum(G, A \cup C) = Sum(G, A) + Sum(G, C)
      OBVIOUS
    <2>1. IsFiniteSet(C)  BY <1>1
    <2>2. C # {}  BY FS_EmptySet
    <2>3. PICK y : y \in C  BY <2>2
    <2> DEFINE D == C \ {y}
    <2>4. Cardinality(D) = n
      <3>1. Cardinality(D) = Cardinality(C) - 1  BY <2>1, <2>3, FS_RemoveElement
      <3> QED  BY <3>1
    <2>5. D \in SUBSET (S \ A) /\ A \cup C \in SUBSET S /\ (A \cup C) \ {y} = A \cup D /\ y \in A \cup C
          /\ C \in SUBSET S /\ D \in SUBSET S /\ A \cup D \in SUBSET S
      BY <2>3
    <2>6. Sum(G, A \cup D) = Sum(G, A) + Sum(G, D)  BY <1>3, <2>4, <2>5
    <2>7. Sum(G, A \cup C) = Sum(G, A \cup D) + G[y]  BY <1>1, <2>5
    <2>8. Sum(G, C) = Sum(G, D) + G[y]  BY <1>1, <2>3, <2>5
    <2>9. Sum(G, A) \in Nat /\ Sum(G, D) \in Nat /\ G[y] \in Nat  BY <1>1, <2>3, <2>5
    <2> QED  BY <2>6, <2>7, <2>8, <2>9
  <1>4. B \in SUBSET (S \ A) /\ IsFiniteSet(B)  BY <1>1
  <1>5. Cardinality(B) \in Nat  BY <1>4, FS_CardinalityType
  <1>6. Cardinality(B) \in N
    <2> HIDE DEF N
    <2>1. \A n \in Nat : n \in N  BY <1>2, <1>3, Induction
    <2> QED  BY <1>5, <2>1
  <1> QED  BY <1>4, <1>6

\* Twice the values have twice the sum.
LEMMA SumTwice ==
  ASSUME NEW S, IsFiniteSet(S), NEW G, \A x \in S : G[x] \in Nat, NEW H, \A x \in S : H[x] = 2 * G[x]
  PROVE  Sum(H, S) = 2 * Sum(G, S)
  <1> DEFINE N == {n \in Nat : \A T \in SUBSET S : Cardinality(T) = n => Sum(H, T) = 2 * Sum(G, T)}
  <1>1. \A T \in SUBSET S :
           /\ IsFiniteSet(T) /\ Sum(G, T) \in Nat
           /\ \A y \in T : /\ Sum(G, T) = Sum(G, T \ {y}) + G[y]
                           /\ Sum(H, T) = Sum(H, T \ {y}) + H[y]
    <2> TAKE T \in SUBSET S
    <2>1. IsFiniteSet(T) /\ (\A x \in T : G[x] \in Nat) /\ (\A x \in T : H[x] \in Nat)
      BY FS_Subset
    <2> QED  BY <2>1, SumNat, SumAdds
  <1>2. 0 \in N
    <2> SUFFICES ASSUME NEW T \in SUBSET S, Cardinality(T) = 0
                 PROVE  Sum(H, T) = 2 * Sum(G, T)
      OBVIOUS
    <2>1. T = {}  BY <1>1, FS_EmptySet
    <2>2. Sum(H, T) = 0 /\ Sum(G, T) = 0  BY <2>1, SumEmpty
    <2> QED  BY <2>2
  <1>3. ASSUME NEW n \in Nat, n \in N PROVE n + 1 \in N
    <2> SUFFICES ASSUME NEW T \in SUBSET S, Cardinality(T) = n + 1
                 PROVE  Sum(H, T) = 2 * Sum(G, T)
      OBVIOUS
    <2>1. T # {}  BY FS_EmptySet
    <2>2. PICK y : y \in T  BY <2>1
    <2> DEFINE D == T \ {y}
    <2>3. Cardinality(D) = n /\ D \in SUBSET S
      <3>1. IsFiniteSet(T)  BY <1>1
      <3>2. Cardinality(D) = Cardinality(T) - 1  BY <2>2, <3>1, FS_RemoveElement
      <3> QED  BY <3>2
    <2>4. Sum(H, D) = 2 * Sum(G, D)  BY <1>3, <2>3
    <2>5. Sum(G, T) = Sum(G, D) + G[y] /\ Sum(H, T) = Sum(H, D) + H[y] /\ H[y] = 2 * G[y]
      BY <1>1, <2>2
    <2>6. Sum(G, D) \in Nat /\ G[y] \in Nat  BY <1>1, <2>2, <2>3
    <2> QED  BY <2>4, <2>5, <2>6
  <1>4. Cardinality(S) \in N
    <2>1. Cardinality(S) \in Nat  BY FS_CardinalityType
    <2> HIDE DEF N
    <2>2. \A n \in Nat : n \in N  BY <1>2, <1>3, Induction
    <2> QED  BY <2>1, <2>2
  <1> QED  BY <1>4

\* The counter of a frame with command c from the FMMUs S.
CounterOf(c, S) == MapThenSumSet(LAMBDA f : IF f.dir = "O" /\ c = "LRW" THEN 2 ELSE 1, S)

\* The work counter as a sum of a function.
LEMMA CounterSum ==
  ASSUME NEW c, NEW S, IsFiniteSet(S)
  PROVE  CounterOf(c, S) = Sum([f \in S |-> IF f.dir = "O" /\ c = "LRW" THEN 2 ELSE 1], S)
  <1> DEFINE G == [f \in S |-> IF f.dir = "O" /\ c = "LRW" THEN 2 ELSE 1]
             R(f) == [T \in SUBSET S |->
                         IF T = {} THEN 0
                         ELSE (IF Pick(T).dir = "O" /\ c = "LRW" THEN 2 ELSE 1) + f[T \ {Pick(T)}]]
             h == CHOOSE f : f = R(f)
  <1>1. \A f : R(f) = Step(G, S, f)
    <2> TAKE f
    <2>1. \A T \in SUBSET S : T # {} =>
             (IF Pick(T).dir = "O" /\ c = "LRW" THEN 2 ELSE 1) = G[Pick(T)]
      BY PickIn
    <2> HIDE DEF G
    <2> QED  BY <2>1 DEF Step
  <1>2. CounterOf(c, S) = h[S]
    BY Zenon DEF CounterOf, MapThenSumSet, MapThenFoldSet, Pick
  <1>3. \A x \in S : G[x] \in Nat  OBVIOUS
  <1> HIDE DEF G, R
  <1>4. \E f : f = R(f)  BY <1>1, <1>3, Exists
  <1>5. h = R(h)  BY <1>4, Zenon
  <1>6. IsIter(G, S, h) /\ IsIter(G, S, Iter(G, S))
    BY <1>1, <1>3, <1>5, IterIs DEF IsIter
  <1> HIDE DEF h
  <1>7. h[S] = Iter(G, S)[S]
    <2>1. Agree(G, G, S)  BY DEF Agree
    <2> QED  BY <1>6, <2>1, Unique
  <1> QED  BY <1>2, <1>7, SumIter DEF G

\* The FMMUs are finitely many, and each counts.
LEMMA WeightIs ==
  ASSUME MapInv
  PROVE  /\ IsFiniteSet(fmmu) /\ \A f \in fmmu : f.dir \in Dirs
         /\ \A f \in fmmu : [g \in fmmu |-> Weight(g)][f] = Weight(f) /\ Weight(f) \in Nat
                            /\ Weight(f) > 0
  BY DEF MapInv, MapTyped, Fmmu, Weight

\* What a frame adds to the work counter is the value of the FMMUs heard.
LEMMA CounterIs ==
  ASSUME MapInv, NEW c, NEW S \in SUBSET fmmu,
         \A f \in S : c \in {IF f.dir = "I" THEN "LRD" ELSE "LWR", "LRW"}
  PROVE  /\ CounterOf(c, S) \in Nat
         /\ (IF c = "LWR" THEN 2 * CounterOf(c, S) ELSE CounterOf(c, S)) = ValueOf(S)
  <1> DEFINE W == [f \in fmmu |-> Weight(f)]
             G == [f \in S |-> IF f.dir = "O" /\ c = "LRW" THEN 2 ELSE 1]
  <1>1. IsFiniteSet(S) /\ \A f \in S : f.dir \in Dirs  BY WeightIs, FS_Subset
  <1>2. \A f \in S : G[f] = (IF f.dir = "O" /\ c = "LRW" THEN 2 ELSE 1) /\ G[f] \in Nat
    OBVIOUS
  <1>3. \A f \in S : W[f] = (IF f.dir = "O" THEN 2 ELSE 1)  BY DEF Weight
  <1>4. CounterOf(c, S) = Sum(G, S) /\ ValueOf(S) = Sum(W, S)
    BY <1>1, CounterSum DEF ValueOf
  <1> HIDE DEF W, G
  <1>5. Sum(G, S) \in Nat  BY <1>1, <1>2, SumNat
  <1>6. CASE c = "LWR"
    <2>1. \A f \in S : f.dir = "O"  BY <1>1, <1>6 DEF Dirs
    <2>2. \A f \in S : W[f] = 2 * G[f]  BY <1>2, <1>3, <1>6, <2>1
    <2>3. Sum(W, S) = 2 * Sum(G, S)  BY <1>1, <1>2, <2>2, SumTwice
    <2> QED  BY <1>4, <1>5, <1>6, <2>3
  <1>7. CASE c # "LWR"
    <2>1. \A f \in S : W[f] = G[f]
      <3> SUFFICES ASSUME NEW f \in S PROVE W[f] = G[f]  OBVIOUS
      <3>1. c = "LRW" \/ f.dir = "I"  BY <1>7
      <3> QED  BY <1>2, <1>3, <3>1
    <2>2. Sum(W, S) = Sum(G, S)  BY <1>1, <1>2, <2>1, SumSame
    <2> QED  BY <1>4, <1>5, <1>7, <2>2
  <1> QED  BY <1>6, <1>7

-----------------------------------------------------------------------------
(* A frame is waited for.                                                  *)

\* What is common to a frame that arrives and one that does not.
Pulls ==
    /\ Pull /\ UNCHANGED mapVars /\ idxstack' = idxstack /\ pc' = pc /\ missed \subseteq missed'
    /\ hasdc' = hasdc /\ length' = length /\ adr' = adr /\ seg' = seg
    /\ DCl' = DCl /\ DCtO' = DCtO /\ sent' = sent /\ cycle' = cycle

\* The frame waited for is one that was sent.
LEMMA PullFacts ==
  ASSUME MapInv, PdTyped, FramesRight, Pull
  PROVE  /\ Mapped /\ Layout /\ pc = "pull" /\ cycle > 0
         /\ pulled \in Nat /\ pulled + 1 \in OnStack /\ pulled < Len(idxstack) /\ Len(idxstack) \in Nat
         /\ idxstack \in Seq(Frm)
         /\ frame = idxstack[pulled + 1] /\ frame \in Frm /\ FrameRight(frame)
         /\ frame.adr \in Nat /\ frame.to \in Nat /\ frame.length \in Nat /\ frame.dc \in BOOLEAN
         /\ frame.cmd \in Cmds
         /\ missed \subseteq fmmu
  <1>1. pc = "pull" /\ pulled < Len(idxstack)  BY DEF Pull
  <1>2. idxstack \in Seq(Frm) /\ Mapped /\ cycle > 0 /\ missed \subseteq fmmu
        /\ pulled \in 0 .. Len(idxstack)
    BY <1>1 DEF PdTyped
  <1>3. Len(idxstack) \in Nat /\ pulled \in Nat /\ pulled + 1 \in OnStack  BY <1>1, <1>2 DEF OnStack
  <1>4. frame = idxstack[pulled + 1] /\ frame \in Frm  BY <1>2, <1>3 DEF frame, OnStack
  <1>5. FrameRight(frame)  BY <1>3, <1>4 DEF FramesRight
  <1>6. frame.adr \in Nat /\ frame.to \in Nat /\ frame.length \in Nat /\ frame.dc \in BOOLEAN
        /\ frame.cmd \in Cmds
    BY <1>4 DEF Frm
  <1> QED  BY <1>1, <1>2, <1>3, <1>4, <1>5, <1>6, LayoutIs

\* What waiting for a frame keeps, whether it arrives or not.
LEMMA PullKeeps ==
  ASSUME MapInv, PdTyped, Aligned, FramesRight, Ordered, Carries, Pulls
  PROVE  /\ Aligned' /\ FramesRight' /\ Position' /\ Ordered' /\ Few' /\ Carries'
         /\ pulled' = pulled + 1 /\ pulled' > 0
  <1>1. /\ UNCHANGED mapVars /\ pc = "pull" /\ pc' = "pull" /\ pulled' = pulled + 1
        /\ idxstack' = idxstack /\ missed \subseteq missed'
    BY DEF Pulls, Pull
  <1>4. /\ Mapped' = Mapped /\ fmmu' = fmmu /\ grp' = grp /\ Sound' = Sound
        /\ LogicalSize' = LogicalSize /\ overlap' = overlap
        /\ Small' = Small /\ FramesPerCycle' = FramesPerCycle /\ IOsegment' = IOsegment
        /\ OnStack' = OnStack
    BY <1>1, Still DEF OnStack
  <1>5. pulled' > 0  BY <1>1 DEF PdTyped
  <1>6. Aligned'
    <2>1. BitPos' = BitPos  BY <1>1 DEF mapVars, cursor
    <2> QED  BY <1>4, <2>1 DEF Aligned
  <1>7. FramesRight'  BY <1>1, <1>4 DEF FramesRight, FrameRight
  <1>8. Ordered'  BY <1>1, <1>4 DEF Ordered, Cut, Cmds
  <1>9. Position' /\ Few'  BY <1>1 DEF Position, Few, Cmds
  <1>10. Carries'
    <2>1. \A a : Done(a)  BY <1>1 DEF Done
    <2>2. \A a : Dropped(a) => Dropped(a)'  BY <1>1, <1>4 DEF Dropped, FmmuBytes
    <2> QED  BY <1>1, <1>4, <2>1, <2>2 DEF Carries, Addresses
  <1> QED  BY <1>1, <1>5, <1>6, <1>7, <1>8, <1>9, <1>10

\* The FMMUs of the frame at hand, and those of the frames behind it.
Rest == UNION {ServedBy(idxstack[k], fmmu) : k \in pulled + 2 .. Len(idxstack)}

\* The FMMUs to be heard of are those of this frame and of the rest.
LEMMA PendingSplit ==
  ASSUME MapInv, PdTyped, FramesRight, Ordered, Pull
  PROVE  /\ Pending = ServedBy(frame, fmmu) \cup Rest
         /\ Sound /\ EachInOneFrame => ServedBy(frame, fmmu) \cap Rest = {}
         /\ ServedBy(frame, fmmu) \subseteq fmmu /\ Rest \subseteq fmmu
  <1>1. /\ Layout /\ pulled \in Nat /\ pulled + 1 \in OnStack /\ pulled < Len(idxstack)
        /\ Len(idxstack) \in Nat /\ idxstack \in Seq(Frm)
        /\ frame = idxstack[pulled + 1] /\ frame \in Frm /\ FrameRight(frame)
    BY PullFacts
  <1>2. \A k : k \in pulled + 1 .. Len(idxstack) <=> k = pulled + 1 \/ k \in pulled + 2 .. Len(idxstack)
    BY <1>1
  <1>3. Pending = ServedBy(frame, fmmu) \cup Rest  BY <1>1, <1>2 DEF Pending, Rest
  <1>4. ASSUME Sound, EachInOneFrame, NEW k \in pulled + 2 .. Len(idxstack)
        PROVE  ServedBy(frame, fmmu) \cap ServedBy(idxstack[k], fmmu) = {}
    <2>1. k \in OnStack /\ pulled + 1 < k  BY <1>1 DEF OnStack
    <2>2. idxstack[k] \in Frm /\ FrameRight(idxstack[k])  BY <1>1, <2>1 DEF FramesRight, OnStack
    <2>3. frame.cmd = idxstack[k].cmd => Cut(frame.adr + frame.length, idxstack[k].adr)
      BY <1>1, <1>4, <2>1 DEF Ordered
    <2> QED  BY <1>1, <1>4, <2>2, <2>3, ServedOnce
  <1> QED  BY <1>3, <1>4 DEF Rest, ServedBy

\* The rest is what is pending next.
LEMMA RestNext ==
  ASSUME Pulls, PdTyped
  PROVE  Pending' = Rest
  <1>1. fmmu' = fmmu /\ idxstack' = idxstack /\ pulled' = pulled + 1 /\ pulled \in Int
    BY Still DEF Pulls, Pull, PdTyped
  <1>2. (pulled + 1) + 1 = pulled + 2  BY <1>1
  <1> QED  BY <1>1, <1>2 DEF Pending, Rest, ServedBy, Addresses, FmmuBytes

\* A frame that does not arrive keeps the invariant.
LEMMA TimeoutKeeps ==
  ASSUME MapInv, PdInv, FrameTimeout
  PROVE  PdInv'
  <1>0. /\ PdTyped /\ Aligned /\ FramesRight /\ Clock /\ OutputsKept /\ Ordered /\ Carries
        /\ Fresh /\ Tally
    BY DEF PdInv
  <1>1. /\ Pull /\ UNCHANGED mapVars /\ pc' = pc /\ first' = first
        /\ idxstack' = idxstack /\ wkc' = wkc /\ valid' = valid
        /\ image' = image /\ sent' = sent /\ dctime' = dctime /\ cycle' = cycle
        /\ missed' = missed \cup ServedBy(frame, fmmu)
        /\ dcLost' = (dcLost \/ frame.dc) /\ hasdc' = hasdc
        /\ length' = length /\ adr' = adr /\ seg' = seg /\ DCl' = DCl /\ DCtO' = DCtO
        /\ pulled' = pulled + 1
    BY ServedIs DEF FrameTimeout, Pull, loopVars, clockVars
  <1>2. Pulls  BY <1>1 DEF Pulls
  <1>3. /\ Mapped /\ Layout /\ pc = "pull" /\ cycle > 0
        /\ pulled \in Nat /\ pulled + 1 \in OnStack /\ pulled < Len(idxstack) /\ Len(idxstack) \in Nat
        /\ frame = idxstack[pulled + 1] /\ frame \in Frm /\ FrameRight(frame) /\ frame.dc \in BOOLEAN
        /\ missed \subseteq fmmu
    BY <1>0, <1>1, PullFacts
  <1>4. /\ Mapped' = Mapped /\ LogAddr' = LogAddr /\ fmmu' = fmmu /\ grp' = grp /\ Sound' = Sound
        /\ ImageSize' = ImageSize /\ overlap' = overlap
        /\ EachInOneFrame' = EachInOneFrame /\ OnStack' = OnStack /\ Behind' = Behind
    BY <1>1, Still DEF OnStack
  <1>5. PdTyped'
    <2> HIDE DEF Mapped
    <2>1. dcLost' \in BOOLEAN  BY <1>0, <1>1, <1>3 DEF PdTyped
    <2>2. missed' \subseteq fmmu'  BY <1>0, <1>1, <1>3, <1>4, PendingSplit
    <2>3. pulled' \in 0 .. Len(idxstack')  BY <1>1, <1>3
    <2>4. pc # "app"  BY <1>3
    <2> QED  BY <1>0, <1>1, <1>3, <1>4, <2>1, <2>2, <2>3, <2>4, Zenon DEF PdTyped
  <1>6. /\ Aligned' /\ FramesRight' /\ Position' /\ Ordered' /\ Few' /\ Carries' /\ pulled' > 0
    BY <1>0, <1>2, PullKeeps
  <1>7. OutputsKept'  BY <1>0, <1>1, <1>4 DEF OutputsKept
  <1>8. Clock'
    <2>1. pulled = 0 => frame.dc = hasdc /\ (first <=> hasdc)
      <3> SUFFICES ASSUME pulled = 0 PROVE frame.dc = hasdc /\ (first <=> hasdc)  OBVIOUS
      <3>1. frame = idxstack[1] /\ idxstack # <<>>
        <4>1. pulled + 1 = 1 /\ Len(idxstack) # 0  BY <1>3
        <4> QED  BY <1>3, <4>1
      <3> QED  BY <1>0, <1>3, <3>1 DEF Clock
    <2>2. first => dcLost'
      <3>1. CASE pulled = 0  BY <1>1, <2>1, <3>1
      <3>2. CASE pulled > 0  BY <1>0, <1>1, <1>3, <3>2 DEF Clock
      <3> QED  BY <1>3, <3>1, <3>2
    <2>3. hasdc /\ ImageSize > 0 /\ ~dcLost' => dctime = "clock"
      <3> SUFFICES ASSUME hasdc, ImageSize > 0, ~dcLost' PROVE dctime = "clock"  OBVIOUS
      <3>1. ~dcLost /\ ~frame.dc  BY <1>1
      <3>2. pulled > 0
        <4>1. pulled # 0  BY <2>1, <3>1
        <4> QED  BY <1>3, <4>1
      <3> QED  BY <1>0, <1>3, <3>1, <3>2 DEF Clock
    <2>4. pulled' # 0  BY <1>1, <1>3
    <2>5. first => hasdc  BY <1>0, <1>3 DEF Clock
    <2>6. /\ ~hasdc \/ (Mapped /\ ImageSize = 0) => dctime = "none"
          /\ (idxstack = <<>> <=> ImageSize = 0)
          /\ \A k \in OnStack : k > 1 => ~idxstack[k].dc
          /\ idxstack # <<>> =>
               /\ idxstack[1].dc = hasdc
               /\ hasdc => /\ DCl = idxstack[1].length
                           /\ DCtO = RxOffset(setupdatagram(idxstack[1].cmd, idxstack[1].length))
      BY <1>0, <1>3 DEF Clock
    <2>7. pc' \notin Cmds /\ pc' # "receive"  BY <1>1, <1>3 DEF Cmds
    <2> QED  BY <1>1, <1>3, <1>4, <2>2, <2>3, <2>4, <2>5, <2>6, <2>7 DEF Clock
  <1>9. Fresh'
    <2> SUFFICES ASSUME Sound, ~dcLost,
                        NEW a \in grp.Obytes - Behind .. grp.Obytes - Behind + grp.Ibytes - 1,
                        InputFmmus(a) # {}
                 PROVE  \/ InputFmmus(a) \cap missed' # {}
                        \/ image[a + Behind] = cycle
                        \/ \E k \in pulled + 2 .. Len(idxstack) : a \in Addresses(idxstack[k])
      <3>1. \A a_1 : InputFmmus(a_1)' = InputFmmus(a_1)  BY <1>1, Still
      <3>2. pulled' + 1 = pulled + 2  BY <1>1, <1>3
      <3> QED  BY <1>1, <1>3, <1>4, <3>1, <3>2 DEF Fresh, Addresses
    <2>1. \/ InputFmmus(a) \cap missed # {}
          \/ image[a + Behind] = cycle
          \/ \E k \in pulled + 1 .. Len(idxstack) : a \in Addresses(idxstack[k])
      BY <1>0, <1>3 DEF Fresh
    <2>2. ASSUME a \in Addresses(frame) PROVE InputFmmus(a) \cap missed' # {}
      <3>1. PICK f \in fmmu : f \in InputFmmus(a) /\ a \in FmmuBytes(f)  BY DEF InputFmmus
      <3>2. f \in ServedBy(frame, fmmu)  BY <1>0, <1>3, <2>2, <3>1, ServedIf
      <3> QED  BY <1>1, <3>1, <3>2
    <2>3. \A k \in pulled + 1 .. Len(idxstack) : k = pulled + 1 \/ k \in pulled + 2 .. Len(idxstack)
      BY <1>3
    <2> QED  BY <1>1, <1>3, <2>1, <2>2, <2>3
  <1>10. Tally'
    <2>1. Pending' = Rest  BY <1>0, <1>2, RestNext
    <2> SUFFICES ASSUME Sound, EachInOneFrame, ~dcLost
                 PROVE  /\ missed' \cap Rest = {}
                        /\ wkc = ValueOf(fmmu \ (missed' \cup Rest))
                        /\ ~valid => fmmu = missed' \cup Rest
      <3>1. \A S : ValueOf(S)' = ValueOf(S)  BY <1>1, Still
      <3>2. pc' \notin Cmds \cup {"receive"} /\ pc' = "pull" /\ pulled' # 0  BY <1>1, <1>3 DEF Cmds
      <3> QED  BY <1>1, <1>4, <2>1, <3>1, <3>2 DEF Tally
    <2>2. /\ missed \cap Pending = {} /\ wkc = ValueOf(fmmu \ (missed \cup Pending))
          /\ ~valid => fmmu = missed \cup Pending
      BY <1>0, <1>3 DEF Tally
    <2>3. Pending = ServedBy(frame, fmmu) \cup Rest /\ ServedBy(frame, fmmu) \cap Rest = {}
      BY <1>0, <1>1, PendingSplit
    <2>4. missed' \cup Rest = missed \cup Pending /\ missed' \cap Rest = {}  BY <1>1, <2>2, <2>3
    <2> QED  BY <2>2, <2>4
  <1> QED  BY <1>5, <1>6, <1>7, <1>8, <1>9, <1>10 DEF PdInv

-----------------------------------------------------------------------------
(* A frame arrives.                                                        *)

Heard(ans) == {f \in ServedBy(frame, fmmu) : f.slave \in ans}
Unheard(ans) == {f \in ServedBy(frame, fmmu) : f.slave \notin ans}

\* What ReceiveFrame does when the slaves ans answered: n bytes go back into the
\* image, and w is taken for the frame's counter.
Takes(ans, n, w) ==
    /\ n \in Nat /\ w \in Nat
    /\ missed' = missed \cup Unheard(ans)
    /\ IF frame.cmd = "LWR"
       THEN image' = image /\ wkc' = (IF first THEN 0 ELSE wkc) + 2 * w
       ELSE CopyBack(ans, n) /\ wkc' = (IF first THEN 0 ELSE wkc) + w
    /\ first' = FALSE /\ valid' = TRUE /\ dcLost' = dcLost
    /\ first => hasdc
    /\ ~first => dctime' = dctime
    /\ ~dcLost => /\ n = frame.length /\ w = CounterOf(frame.cmd, Heard(ans))
                  /\ first => pulled = 0 /\ dctime' = "clock"
                  /\ ~first /\ hasdc => pulled > 0

\* The counter of a frame is the value of the FMMUs heard.
LEMMA HeardCounts ==
  ASSUME MapInv, PdTyped, FramesRight, Pull, NEW ans
  PROVE  /\ FrameWkc(frame, ans) = CounterOf(frame.cmd, Heard(ans))
         /\ FrameWkc(frame, ans) \in Nat
         /\ (IF frame.cmd = "LWR" THEN 2 * FrameWkc(frame, ans) ELSE FrameWkc(frame, ans))
              = ValueOf(Heard(ans))
  <1>1. Heard(ans) = {f \in Served(frame) : f.slave \in ans}  BY ServedIs DEF Heard
  <1>2. FrameWkc(frame, ans) = CounterOf(frame.cmd, {f \in Served(frame) : f.slave \in ans})
    BY Zenon DEF FrameWkc, CounterOf
  <1>3. Heard(ans) \in SUBSET fmmu  BY DEF Heard, ServedBy
  <1>4. \A f \in Heard(ans) : frame.cmd \in {IF f.dir = "I" THEN "LRD" ELSE "LWR", "LRW"}
    BY DEF Heard, ServedBy
  <1> DEFINE c == frame.cmd
             S == Heard(ans)
  <1> HIDE DEF c, S
  <1>5. S \in SUBSET fmmu /\ \A f \in S : c \in {IF f.dir = "I" THEN "LRD" ELSE "LWR", "LRW"}
    BY <1>3, <1>4 DEF c, S
  <1>6. /\ CounterOf(c, S) \in Nat
        /\ (IF c = "LWR" THEN 2 * CounterOf(c, S) ELSE CounterOf(c, S)) = ValueOf(S)
    BY <1>5, CounterIs
  <1>7. FrameWkc(frame, ans) = CounterOf(c, S)  BY <1>1, <1>2 DEF c, S
  <1> QED  BY <1>6, <1>7 DEF c, S

\* What is read at the place of the counter is the counter.
LEMMA CounterThere ==
  ASSUME MapInv, PdTyped, FramesRight, Pull, NEW ans, NEW place
  PROVE  /\ \A w \in CounterAt(place, ans) : w \in Nat
         /\ place = EC_HEADERSIZE + frame.length =>
              \A w \in CounterAt(place, ans) : w = CounterOf(frame.cmd, Heard(ans))
  <1>1. FrameWkc(frame, ans) = CounterOf(frame.cmd, Heard(ans)) /\ FrameWkc(frame, ans) \in Nat
    BY HeardCounts
  <1>2. expectedWKC \in Nat
    <2>1. grp.outputsWKC \in Nat /\ grp.inputsWKC \in Nat  BY DEF MapInv, MapTyped, Group
    <2> QED  BY <2>1 DEF expectedWKC
  <1>3. \A w \in CounterAt(place, ans) : w \in Nat
    BY <1>1, <1>2 DEF CounterAt
  <1>4. RxWkc(frame.tx, 1) = EC_HEADERSIZE + frame.length
    <2>1. frame.tx = TxOf(frame.cmd, frame.length, frame.dc)  BY PullFacts DEF FrameRight, RightIn
    <2>2. frame.length \in Nat /\ frame.dc \in BOOLEAN  BY PullFacts
    <2> QED  BY <2>1, <2>2, TxPlaces
  <1> QED  BY <1>1, <1>3, <1>4 DEF CounterAt

\* ReceiveFrame takes the answer of some slaves; the frame of the clock
\* is taken for it as long as it was not lost.
LEMMA ReceiveIs ==
  ASSUME MapInv, PdTyped, FramesRight, Clock, ReceiveFrame
  PROVE  /\ Pulls
         /\ \E ans, n, w : Takes(ans, n, w)
  <1>1. /\ Pull /\ UNCHANGED mapVars /\ pc' = pc /\ idxstack' = idxstack /\ valid' = TRUE
        /\ sent' = sent /\ cycle' = cycle /\ hasdc' = hasdc /\ dcLost' = dcLost
        /\ length' = length /\ adr' = adr /\ seg' = seg /\ DCl' = DCl /\ DCtO' = DCtO
    BY DEF ReceiveFrame, Pull, clockVars
  <1>2. PICK ans \in SUBSET DOMAIN slaves :
          /\ TakeFirst(ans) \/ TakeNext(ans)
          /\ missed' = missed \cup {f \in Served(frame) : f.slave \notin ans}
    BY DEF ReceiveFrame
  <1>3. missed' = missed \cup Unheard(ans)  BY <1>2, ServedIs DEF Unheard
  <1>4. Pulls  BY <1>1, <1>3 DEF Pulls
  <1>5. /\ pulled \in Nat /\ pulled < Len(idxstack) /\ Len(idxstack) \in Nat /\ pc = "pull"
        /\ pulled + 1 \in OnStack
        /\ frame = idxstack[pulled + 1] /\ frame.length \in Nat /\ frame.dc \in BOOLEAN
        /\ frame.tx = TxOf(frame.cmd, frame.length, frame.dc)
        /\ idxstack \in Seq(Frm)
    BY <1>1, PullFacts DEF FrameRight, RightIn
  <1>6. /\ first => hasdc
        /\ pulled = 0 => ~dcLost /\ (first <=> hasdc)
        /\ first /\ pulled > 0 => dcLost
        /\ \A k \in OnStack : k > 1 => ~idxstack[k].dc
    BY <1>5 DEF Clock
  <1>7. idxstack # <<>> /\ idxstack[1] \in Frm
    BY <1>5
  <1>8. /\ idxstack[1].dc = hasdc
        /\ hasdc => /\ DCl = idxstack[1].length
                    /\ DCtO = RxOffset(setupdatagram(idxstack[1].cmd, idxstack[1].length))
    BY <1>7 DEF Clock
  <1>9. CASE TakeFirst(ans)
    <2>1. first /\ first' = FALSE /\ hasdc  BY <1>6, <1>9 DEF TakeFirst
    <2>2. PICK w \in CounterAt(EC_HEADERSIZE + DCl, ans) :
            IF frame.cmd = "LWR" THEN wkc' = 2 * w /\ UNCHANGED image
                                 ELSE wkc' = w /\ CopyBack(ans, DCl)
      BY <1>9 DEF TakeFirst
    <2>3. w \in Nat  BY <1>1, CounterThere
    <2>4. DCl \in Nat  BY <1>7, <1>8, <2>1 DEF Frm
    <2>5. wkc' = 0 + wkc'  BY <2>2, <2>3
    <2>6. ASSUME ~dcLost
          PROVE  /\ DCl = frame.length /\ w = CounterOf(frame.cmd, Heard(ans))
                 /\ pulled = 0 /\ dctime' = "clock"
      <3>1. pulled = 0 /\ pulled + 1 = 1  BY <1>5, <1>6, <2>1, <2>6
      <3>2. frame = idxstack[1]  BY <1>5, <3>1
      <3>3. DCl = frame.length /\ frame.dc = hasdc
            /\ DCtO = RxOffset(setupdatagram(frame.cmd, frame.length))
        BY <1>8, <2>1, <3>2
      <3>4. w = CounterOf(frame.cmd, Heard(ans))  BY <1>1, <2>2, <3>3, CounterThere
      <3>5. frame.dc = TRUE  BY <1>5, <2>1, <3>3
      <3>6. \E k \in DOMAIN frame.tx.datagrams :
              /\ frame.tx.datagrams[k].com = "FRMW" /\ frame.tx.datagrams[k].length = 8
              /\ RxData(frame.tx, k) = DCtO
        <4> DEFINE x == TxOf(frame.cmd, frame.length, TRUE)
        <4>1. \E k \in DOMAIN x.datagrams :
                /\ x.datagrams[k].com = "FRMW" /\ x.datagrams[k].length = 8
                /\ RxData(x, k) = RxOffset(setupdatagram(frame.cmd, frame.length))
          BY <1>5, TxPlaces
        <4>2. frame.tx = x  BY <1>5, <3>5
        <4> HIDE DEF x
        <4> QED  BY <3>3, <4>1, <4>2
      <3>7. dctime' = "clock"  BY <1>9, <3>6 DEF TakeFirst, ClockAtDCtO
      <3> QED  BY <3>1, <3>3, <3>4, <3>7
    <2>7. IF frame.cmd = "LWR"
          THEN image' = image /\ wkc' = (IF first THEN 0 ELSE wkc) + 2 * w
          ELSE CopyBack(ans, DCl) /\ wkc' = (IF first THEN 0 ELSE wkc) + w
      <3>1. (IF first THEN 0 ELSE wkc) = 0 /\ 0 + w = w /\ 0 + 2 * w = 2 * w  BY <2>1, <2>3
      <3> QED  BY <2>2, <3>1
    <2>8. Takes(ans, DCl, w)
      BY <1>1, <1>3, <2>1, <2>3, <2>4, <2>6, <2>7, Zenon DEF Takes
    <2> QED  BY <1>4, <2>8
  <1>10. CASE TakeNext(ans)
    <2>1. ~first /\ first' = first /\ dctime' = dctime  BY <1>10 DEF TakeNext
    <2>2. PICK w \in CounterAt(InframeWkc(frame.tx), ans) :
            IF frame.cmd = "LWR"
            THEN wkc' = wkc + 2 * w /\ UNCHANGED image
            ELSE wkc' = wkc + w /\ CopyBack(ans, frame.length)
      BY <1>10 DEF TakeNext
    <2>3. w \in Nat  BY <1>1, CounterThere
    <2>4. frame.dc = FALSE
      <3>1. CASE pulled = 0
        <4>1. frame = idxstack[1]
          <5>1. pulled + 1 = 1  BY <3>1
          <5> QED  BY <1>5, <5>1
        <4> QED  BY <1>5, <1>6, <1>8, <2>1, <3>1, <4>1
      <3>2. CASE pulled > 0
        <4>1. pulled + 1 > 1  BY <1>5, <3>2
        <4> QED  BY <1>5, <1>6, <4>1
      <3>3. pulled = 0 \/ pulled > 0  BY <1>5
      <3> QED  BY <3>1, <3>2, <3>3
    <2>5. InframeWkc(frame.tx) = EC_HEADERSIZE + frame.length
      <3>1. InframeWkc(TxOf(frame.cmd, frame.length, FALSE)) = EC_HEADERSIZE + frame.length
        BY <1>5, TxPlaces
      <3> QED  BY <1>5, <2>4, <3>1
    <2>6. w = CounterOf(frame.cmd, Heard(ans))  BY <1>1, <2>2, <2>5, CounterThere
    <2>7. first' = FALSE
      <3>1. first \in BOOLEAN  BY DEF PdTyped
      <3> QED  BY <2>1, <3>1
    <2>8. hasdc => pulled > 0  BY <1>5, <1>6, <2>1
    <2>9. IF frame.cmd = "LWR"
          THEN image' = image /\ wkc' = (IF first THEN 0 ELSE wkc) + 2 * w
          ELSE CopyBack(ans, frame.length) /\ wkc' = (IF first THEN 0 ELSE wkc) + w
      BY <2>1, <2>2
    <2>10. Takes(ans, frame.length, w)
      BY <1>1, <1>3, <1>5, <2>1, <2>3, <2>6, <2>7, <2>8, <2>9, Zenon DEF Takes
    <2> QED  BY <1>4, <2>10
  <1> QED  BY <1>2, <1>9, <1>10

\* Where the frame at hand is asked for and where it goes.
LEMMA FramePlace ==
  ASSUME MapInv, PdTyped, FramesRight, Pull
  PROVE  /\ frame.adr + frame.length <= LogicalSize + grp.Obytes
         /\ frame.cmd = "LRW" => frame.adr + frame.length <= LogicalSize
         /\ frame.cmd = "LRD" => frame.adr >= grp.Obytes /\ grp.blockLRW # 0
         /\ frame.to = frame.adr + (IF overlap /\ frame.cmd = "LRW" THEN grp.Obytes ELSE 0)
         /\ ~overlap => frame.to = frame.adr /\ frame.adr + frame.length <= LogicalSize
         /\ Sound => frame.cmd = "LWR" \/ frame.to = frame.adr + Behind
         /\ grp.Obytes \in Nat /\ grp.Ibytes \in Nat /\ LogicalSize \in Nat /\ LogAddr = LogicalSize
         /\ grp.Obytes <= LogicalSize /\ grp.Ibytes <= LogicalSize /\ LIMIT \in Nat
         /\ frame.adr \in Nat /\ frame.to \in Nat /\ frame.length \in Nat /\ frame.cmd \in Cmds
         /\ overlap \in BOOLEAN
  <1>1. /\ Layout /\ FrameRight(frame)
        /\ frame.adr \in Nat /\ frame.to \in Nat /\ frame.length \in Nat /\ frame.cmd \in Cmds
    BY PullFacts
  <1>2. /\ grp.Obytes \in Nat /\ grp.Ibytes \in Nat /\ LogicalSize \in Nat /\ LogAddr = LogicalSize
        /\ grp.blockLRW \in Nat /\ overlap \in BOOLEAN
    BY <1>1 DEF Layout, MapInv, MapTyped
  <1>3. grp.Obytes <= LogicalSize /\ grp.Ibytes <= LogicalSize
    <2>1. CASE overlap  BY <1>1, <2>1 DEF Layout
    <2>2. CASE ~overlap
      <3>1. LogicalSize = grp.Obytes + grp.Ibytes  BY <1>1, <2>2 DEF Layout
      <3> QED  BY <1>2, <3>1
    <2> QED  BY <2>1, <2>2
  <1>4. /\ frame.cmd = "LRW" <=> grp.blockLRW = 0
        /\ frame.cmd = "LRD" => frame.adr >= grp.Obytes
        /\ frame.adr + frame.length <= LogicalSize + (IF overlap /\ frame.cmd = "LRD" THEN grp.Obytes ELSE 0)
        /\ frame.to = frame.adr + (IF overlap /\ frame.cmd = "LRW" THEN grp.Obytes ELSE 0)
    BY <1>1 DEF FrameRight, RightIn
  <1>5. frame.adr + frame.length <= LogicalSize + grp.Obytes
        /\ (frame.cmd = "LRW" => frame.adr + frame.length <= LogicalSize)
        /\ (~overlap => frame.to = frame.adr /\ frame.adr + frame.length <= LogicalSize)
    BY <1>1, <1>2, <1>4
  <1>6. Sound => frame.cmd = "LWR" \/ frame.to = frame.adr + Behind
    <2> SUFFICES ASSUME Sound, frame.cmd # "LWR" PROVE frame.to = frame.adr + Behind
      OBVIOUS
    <2>1. CASE overlap
      <3>1. grp.blockLRW = 0  BY <1>1, <2>1, SoundMeans
      <3> QED  BY <1>4, <2>1, <3>1 DEF Behind
    <2>2. CASE ~overlap  BY <1>4, <2>2 DEF Behind
    <2> QED  BY <2>1, <2>2
  <1>7. LIMIT \in Nat  BY Parameters
  <1> QED  BY <1>1, <1>2, <1>3, <1>4, <1>5, <1>6, <1>7

\* What is copied, byte by byte.
LEMMA CopiedIs ==
  ASSUME MapInv, PdTyped, FramesRight, Pull, NEW ans, NEW n \in Nat, CopyBack(ans, n)
  PROVE  /\ DOMAIN image = 0 .. 2 * LogAddr + LIMIT /\ DOMAIN image' = DOMAIN image
         /\ \A a \in DOMAIN image :
              image'[a] = IF a \notin frame.to .. frame.to + n - 1 THEN image[a]
                          ELSE IF a < frame.to + frame.length
                          THEN Carried(frame, ans, a - frame.to + frame.adr)
                          ELSE Foreign
  <1>1. Mapped  BY PullFacts
  <1>2. image \in [0 .. 2 * LogAddr + LIMIT -> Content]  BY <1>1 DEF PdTyped
  <1> QED  BY <1>2 DEF CopyBack

\* What is copied is process data or what lies behind.
LEMMA CopiedTyped ==
  ASSUME MapInv, PdTyped, FramesRight, Pull, NEW ans, NEW n \in Nat, CopyBack(ans, n)
  PROVE  image' \in [0 .. 2 * LogAddr + LIMIT -> Content]
  <1>1. Mapped /\ pc = "pull" /\ cycle > 0  BY PullFacts
  <1>2. /\ image \in [0 .. 2 * LogAddr + LIMIT -> Content]
        /\ sent \in [0 .. 2 * LogAddr + LIMIT -> Content]
        /\ cycle \in 0 .. MaxCycles
    BY <1>1 DEF PdTyped
  <1>3. cycle \in Content /\ Zeroed \in Content /\ Foreign \in Content
    <2>1. MaxCycles \in Nat  BY ProcessDataAssumption DEF ProcessDataAssumption
    <2>2. cycle \in 1 .. MaxCycles  BY <1>1, <1>2, <2>1
    <2> QED  BY <2>2 DEF Content
  <1> DEFINE Val(a) == IF a \notin frame.to .. frame.to + n - 1 THEN image[a]
                       ELSE IF a < frame.to + frame.length
                       THEN Carried(frame, ans, a - frame.to + frame.adr)
                       ELSE Foreign
             D == 0 .. 2 * LogAddr + LIMIT
  <1>4. image' = [a \in D |-> Val(a)]
    <2>1. DOMAIN image = D  BY <1>2
    <2>2. image' = [a \in DOMAIN image |-> Val(a)]  BY DEF CopyBack
    <2> QED  BY <2>1, <2>2
  <1>5. ASSUME NEW a \in D PROVE Val(a) \in Content
    <2>1. CASE a \notin frame.to .. frame.to + n - 1
      <3>1. Val(a) = image[a]  BY <2>1
      <3> QED  BY <1>2, <3>1
    <2>2. CASE a \in frame.to .. frame.to + n - 1 /\ a < frame.to + frame.length
      <3> DEFINE b == a - frame.to + frame.adr
      <3>1. Val(a) = Carried(frame, ans, b)  BY <2>2
      <3>2. b \in D
        <4> DEFINE t == frame.to
                   s == frame.adr
                   l == frame.length
                   L == LogicalSize
                   O == grp.Obytes
        <4>1. t \in Nat /\ s \in Nat /\ l \in Nat /\ L \in Nat /\ O \in Nat /\ LIMIT \in Nat
              /\ s + l <= L + O /\ O <= L /\ LogAddr = L
          BY FramePlace
        <4>2. a \in t .. t + n - 1 /\ a < t + l  BY <2>2
        <4> HIDE DEF t, s, l, L, O
        <4>3. a \in Int /\ t <= a  BY <4>1, <4>2
        <4>4. a - t + s \in Nat /\ a - t + s < L + O  BY <4>1, <4>2, <4>3
        <4>5. a - t + s \in 0 .. 2 * L + LIMIT  BY <4>1, <4>4
        <4> QED  BY <4>1, <4>5 DEF t, s
      <3> HIDE DEF b
      <3>3. sent[b] \in Content  BY <1>2, <3>2
      <3>4. Carried(frame, ans, b) \in {cycle, Zeroed, sent[b]}  BY DEF Carried, writedatagramdata
      <3> QED  BY <1>3, <3>1, <3>3, <3>4
    <2>3. CASE a \in frame.to .. frame.to + n - 1 /\ ~(a < frame.to + frame.length)
      <3>1. Val(a) = Foreign  BY <2>3
      <3> QED  BY <1>3, <3>1
    <2> QED  BY <2>1, <2>2, <2>3
  <1> HIDE DEF Val
  <1> QED  BY <1>4, <1>5

\* An output comes back as it was sent.
LEMMA OutputsBack ==
  ASSUME MapInv, PdTyped, Aligned, FramesRight, Pull, NEW ans, CopyBack(ans, frame.length),
         frame.cmd # "LWR", NEW a \in 0 .. grp.Obytes - 1
  PROVE  image'[a] = image[a] \/ image'[a] = sent[a]
  <1>0. Mapped  BY PullFacts
  <1>1. /\ frame.cmd = "LRD" => frame.adr >= grp.Obytes
        /\ frame.to = frame.adr + (IF overlap /\ frame.cmd = "LRW" THEN grp.Obytes ELSE 0)
        /\ grp.Obytes \in Nat /\ LogicalSize \in Nat /\ LogAddr = LogicalSize /\ LIMIT \in Nat
        /\ grp.Obytes <= LogicalSize /\ frame.adr \in Nat /\ frame.length \in Nat /\ frame.cmd \in Cmds
        /\ frame.to \in Nat
    BY FramePlace
  <1>2. a \in DOMAIN image
    <2>1. a \in 0 .. 2 * LogicalSize + LIMIT
      <3> DEFINE L == LogicalSize
                 O == grp.Obytes
      <3> HIDE DEF L, O
      <3>1. L \in Nat /\ O \in Nat /\ O <= L /\ LIMIT \in Nat /\ a \in 0 .. O - 1  BY <1>1 DEF L, O
      <3> QED  BY <3>1 DEF L
    <2> QED  BY <1>1, <2>1, CopiedIs
  <1>3. image'[a] = IF a \notin frame.to .. frame.to + frame.length - 1 THEN image[a]
                    ELSE IF a < frame.to + frame.length
                    THEN Carried(frame, ans, a - frame.to + frame.adr)
                    ELSE Foreign
    BY <1>1, <1>2, CopiedIs
  <1>4. CASE a \notin frame.to .. frame.to + frame.length - 1  BY <1>3, <1>4
  <1>5. CASE a \in frame.to .. frame.to + frame.length - 1
    <2>1. a \in Nat /\ a < grp.Obytes /\ frame.to <= a /\ a < frame.to + frame.length
      BY <1>1, <1>5
    <2>2. frame.cmd # "LRD"
      <3> SUFFICES ASSUME frame.cmd = "LRD" PROVE FALSE  OBVIOUS
      <3>1. frame.adr >= grp.Obytes /\ frame.to = frame.adr + 0  BY <1>1
      <3> QED  BY <1>1, <2>1, <3>1
    <2>3. frame.cmd = "LRW"  BY <1>1, <2>2 DEF Cmds
    <2>4. ~overlap
      <3> SUFFICES ASSUME overlap PROVE FALSE  OBVIOUS
      <3>1. frame.to = frame.adr + grp.Obytes  BY <1>1, <2>3
      <3> QED  BY <1>1, <2>1, <3>1
    <2>5. a - frame.to + frame.adr = a
      <3>1. frame.to = frame.adr + 0  BY <1>1, <2>4
      <3> QED  BY <1>1, <2>1, <3>1
    <2>6. InputFmmus(a) = {}
      <3> SUFFICES ASSUME NEW f \in fmmu, f.dir = "I", a \in FmmuBytes(f) PROVE FALSE
        BY DEF InputFmmus
      <3>1. f.start >= grp.Obytes /\ f.start \in Nat /\ f.size \in Nat
            /\ FmmuBytes(f) = f.start .. f.start + f.size - 1
        BY <1>0, <2>4, FmmuSides
      <3> QED  BY <1>1, <2>1, <3>1
    <2>7. image'[a] = Carried(frame, ans, a)  BY <1>3, <1>5, <2>1, <2>5
    <2>8. Carried(frame, ans, a) = sent[a]
      BY <2>3, <2>6 DEF Carried, writedatagramdata, NoData
    <2> QED  BY <2>7, <2>8
  <1> QED  BY <1>4, <1>5

\* Nothing comes back behind the image, unless it overruns.
LEMMA NothingBehind ==
  ASSUME MapInv, PdTyped, FramesRight, Pull, NEW ans, CopyBack(ans, frame.length), ~Overruns,
         NEW a \in DOMAIN image, a >= ImageSize
  PROVE  image'[a] = image[a]
  <1>1. /\ frame.adr + frame.length <= LogicalSize + grp.Obytes
        /\ frame.cmd = "LRW" => frame.adr + frame.length <= LogicalSize
        /\ frame.to = frame.adr + (IF overlap /\ frame.cmd = "LRW" THEN grp.Obytes ELSE 0)
        /\ ~overlap => frame.to = frame.adr /\ frame.adr + frame.length <= LogicalSize
        /\ grp.Obytes \in Nat /\ grp.Ibytes \in Nat /\ LogicalSize \in Nat
        /\ frame.adr \in Nat /\ frame.length \in Nat /\ frame.to \in Nat
    BY FramePlace
  <1>2. a \in Int
    <2>1. DOMAIN image = 0 .. 2 * LogAddr + LIMIT  BY <1>1, CopiedIs
    <2> QED  BY <2>1
  <1>3. frame.to + frame.length <= ImageSize
    <2>1. Layout  BY PullFacts
    <2>2. ImageSize = grp.Obytes + grp.Ibytes  BY DEF ImageSize
    <2>3. CASE ~overlap
      <3>1. LogicalSize = ImageSize  BY <2>1, <2>2, <2>3 DEF Layout
      <3> QED  BY <1>1, <2>3, <3>1
    <2>4. CASE overlap
      <3>1. LogicalSize = grp.Ibytes
        <4>1. ~(grp.Obytes > grp.Ibytes)  BY <2>4 DEF Overruns
        <4>2. grp.Ibytes <= LogicalSize /\ (LogicalSize = grp.Obytes \/ LogicalSize = grp.Ibytes)
          BY <2>1, <2>4 DEF Layout
        <4>3. grp.Obytes \in Nat /\ grp.Ibytes \in Nat  BY <1>1
        <4>4. grp.Obytes <= grp.Ibytes  BY <4>1, <4>3
        <4>5. CASE LogicalSize = grp.Obytes  BY <4>2, <4>3, <4>4, <4>5
        <4> QED  BY <4>2, <4>5
      <3>2. CASE frame.cmd = "LRW"
        <4>1. frame.to = frame.adr + grp.Obytes /\ frame.adr + frame.length <= LogicalSize
          BY <1>1, <2>4, <3>2
        <4> QED  BY <1>1, <2>2, <3>1, <4>1
      <3>3. CASE frame.cmd # "LRW"
        <4>1. frame.to = frame.adr + 0  BY <1>1, <3>3
        <4> QED  BY <1>1, <2>2, <3>1, <4>1
      <3> QED  BY <3>2, <3>3
    <2> QED  BY <2>3, <2>4
  <1>4. ImageSize \in Nat  BY <1>1 DEF ImageSize
  <1>5. a \notin frame.to .. frame.to + frame.length - 1  BY <1>1, <1>2, <1>3, <1>4
  <1> QED  BY <1>1, <1>5, CopiedIs

\* What an arriving frame keeps, one part of the invariant after the other.
LEMMA TakesTyped ==
  ASSUME MapInv, PdTyped, FramesRight, Pulls, NEW ans, NEW n, NEW w, Takes(ans, n, w),
         dctime' = dctime \/ Mapped
  PROVE  PdTyped'
  <1>1. /\ Mapped /\ pc = "pull" /\ cycle > 0
        /\ pulled \in Nat /\ pulled < Len(idxstack) /\ Len(idxstack) \in Nat
        /\ idxstack \in Seq(Frm) /\ missed \subseteq fmmu
    BY PullFacts DEF Pulls
  <1>2. /\ Mapped' = Mapped /\ LogAddr' = LogAddr /\ fmmu' = fmmu
    BY Still DEF Pulls
  <1>3. /\ first' = FALSE /\ valid' = TRUE /\ dcLost' = dcLost /\ n \in Nat /\ w \in Nat
        /\ idxstack' = idxstack /\ pc' = pc /\ hasdc' = hasdc /\ length' = length /\ adr' = adr
        /\ seg' = seg /\ sent' = sent /\ cycle' = cycle /\ pulled' = pulled + 1
    BY DEF Pulls, Pull, Takes
  <1>4. missed' \subseteq fmmu'
    <2>1. Unheard(ans) \subseteq fmmu  BY DEF Unheard, ServedBy
    <2> QED  BY <1>1, <1>2, <2>1 DEF Takes
  <1>5. wkc' \in Int /\ wkc' >= -1 /\ wkc' >= 0
    <2> DEFINE b == IF first THEN 0 ELSE wkc
    <2>1. wkc \in Int /\ wkc >= 0  BY <1>1 DEF PdTyped
    <2>2. b \in Int /\ b >= 0  BY <2>1
    <2>3. wkc' = b + 2 * w \/ wkc' = b + w  BY DEF Takes
    <2> HIDE DEF b
    <2> QED  BY <1>3, <2>2, <2>3
  <1>6. image' \in [0 .. 2 * LogAddr' + LIMIT -> Content]
    <2>1. CASE frame.cmd = "LWR"
      <3>1. image' = image  BY <2>1 DEF Takes
      <3> QED  BY <1>1, <1>2, <3>1 DEF PdTyped
    <2>2. CASE frame.cmd # "LWR"
      <3>1. CopyBack(ans, n)  BY <2>2 DEF Takes
      <3> QED  BY <1>2, <1>3, <3>1, CopiedTyped DEF Pulls
    <2> QED  BY <2>1, <2>2
  <1>7. pulled' \in 0 .. Len(idxstack') /\ pc # "app"  BY <1>1, <1>3
  <1>8. TRUE \in BOOLEAN /\ FALSE \in BOOLEAN  OBVIOUS
  <1> HIDE DEF Mapped
  <1> QED  BY <1>1, <1>2, <1>3, <1>4, <1>5, <1>6, <1>7, <1>8, Zenon DEF PdTyped

LEMMA TakesOutputs ==
  ASSUME MapInv, PdTyped, Aligned, FramesRight, OutputsKept, Pulls, NEW ans, NEW n, NEW w,
         Takes(ans, n, w)
  PROVE  OutputsKept'
  <1>1. grp' = grp /\ sent' = sent /\ dcLost' = dcLost /\ pc # "app" /\ Pull
    <2>1. grp' = grp  BY Still DEF Pulls
    <2> QED  BY <2>1 DEF Pulls, Pull, Takes
  <1> SUFFICES ASSUME ~dcLost, NEW a \in 0 .. grp.Obytes - 1 PROVE image'[a] = sent[a]
    BY <1>1 DEF OutputsKept
  <1>2. image[a] = sent[a]  BY <1>1 DEF OutputsKept
  <1>3. CASE frame.cmd = "LWR"  BY <1>2, <1>3 DEF Takes
  <1>4. CASE frame.cmd # "LWR"
    <2>1. CopyBack(ans, frame.length)  BY <1>4 DEF Takes
    <2> QED  BY <1>1, <1>2, <1>4, <2>1, OutputsBack
  <1> QED  BY <1>3, <1>4

LEMMA TakesClock ==
  ASSUME MapInv, PdTyped, FramesRight, Clock, Pulls, NEW ans, NEW n, NEW w, Takes(ans, n, w)
  PROVE  Clock'
  <1>1. /\ Mapped /\ pc = "pull" /\ cycle > 0
        /\ pulled \in Nat /\ pulled < Len(idxstack) /\ Len(idxstack) \in Nat
        /\ idxstack \in Seq(Frm)
    BY PullFacts DEF Pulls
  <1>2. Mapped' = Mapped /\ ImageSize' = ImageSize /\ OnStack' = OnStack
    BY Still DEF Pulls, OnStack
  <1>3. /\ first' = FALSE /\ dcLost' = dcLost
        /\ idxstack' = idxstack /\ pc' = pc /\ hasdc' = hasdc /\ DCl' = DCl /\ DCtO' = DCtO
        /\ cycle' = cycle /\ pulled' = pulled + 1
    BY DEF Pulls, Pull, Takes
  <1>4. /\ ~hasdc \/ (Mapped /\ ImageSize = 0) => dctime = "none"
        /\ (idxstack = <<>> <=> ImageSize = 0)
        /\ \A k \in OnStack : k > 1 => ~idxstack[k].dc
        /\ idxstack # <<>> =>
             /\ idxstack[1].dc = hasdc
             /\ hasdc => /\ DCl = idxstack[1].length
                         /\ DCtO = RxOffset(setupdatagram(idxstack[1].cmd, idxstack[1].length))
        /\ pulled > 0 /\ hasdc /\ ImageSize > 0 /\ ~dcLost => dctime = "clock"
    BY <1>1 DEF Clock
  <1>5. ImageSize # 0
    <2>1. idxstack # <<>>  BY <1>1
    <2> QED  BY <1>4, <2>1
  <1>6. ~hasdc => dctime' = "none"
    <2>1. ~hasdc => ~first  BY DEF Takes
    <2> QED  BY <1>4, <2>1 DEF Takes
  <1>7. hasdc /\ ImageSize > 0 /\ ~dcLost => dctime' = "clock"
    <2> SUFFICES ASSUME hasdc, ImageSize > 0, ~dcLost PROVE dctime' = "clock"  OBVIOUS
    <2>1. CASE first  BY <2>1 DEF Takes
    <2>2. CASE ~first
      <3>1. dctime' = dctime /\ pulled > 0  BY <2>2 DEF Takes
      <3> QED  BY <1>4, <3>1
    <2> QED  BY <2>1, <2>2
  <1>8. pulled' # 0 /\ pulled' > 0  BY <1>1, <1>3
  <1>9. pc' \notin Cmds /\ pc' # "receive"  BY <1>1, <1>3 DEF Cmds
  <1> QED  BY <1>1, <1>2, <1>3, <1>4, <1>5, <1>6, <1>7, <1>8, <1>9 DEF Clock

LEMMA TakesFresh ==
  ASSUME MapInv, PdTyped, Aligned, FramesRight, Fresh, Pulls, NEW ans, NEW n, NEW w,
         Takes(ans, n, w)
  PROVE  Fresh'
  <1>1. /\ Mapped /\ pc = "pull" /\ Pull
        /\ pulled \in Nat /\ pulled < Len(idxstack) /\ Len(idxstack) \in Nat
        /\ frame = idxstack[pulled + 1] /\ frame \in Frm /\ FrameRight(frame)
    BY PullFacts DEF Pulls
  <1>2. grp' = grp /\ Sound' = Sound /\ Behind' = Behind /\ \A b : InputFmmus(b)' = InputFmmus(b)
    BY Still DEF Pulls
  <1>3. /\ dcLost' = dcLost /\ missed' = missed \cup Unheard(ans)
        /\ idxstack' = idxstack /\ pc' = pc /\ cycle' = cycle /\ pulled' = pulled + 1
    BY DEF Pulls, Pull, Takes
  <1> SUFFICES ASSUME Sound, ~dcLost,
                      NEW a \in grp.Obytes - Behind .. grp.Obytes - Behind + grp.Ibytes - 1,
                      InputFmmus(a) # {}
               PROVE  \/ InputFmmus(a) \cap missed' # {}
                      \/ image'[a + Behind] = cycle
                      \/ \E k \in pulled + 2 .. Len(idxstack) : a \in Addresses(idxstack[k])
    <2>1. pulled' + 1 = pulled + 2  BY <1>1, <1>3
    <2> QED  BY <1>1, <1>2, <1>3, <2>1 DEF Fresh, Addresses
  <1>4. \/ InputFmmus(a) \cap missed # {}
        \/ image[a + Behind] = cycle
        \/ \E k \in pulled + 1 .. Len(idxstack) : a \in Addresses(idxstack[k])
    BY <1>1 DEF Fresh
  <1>5. \A k \in pulled + 1 .. Len(idxstack) : k = pulled + 1 \/ k \in pulled + 2 .. Len(idxstack)
    BY <1>1
  <1>6. /\ frame.cmd = "LWR" \/ frame.to = frame.adr + Behind
        /\ frame.adr \in Nat /\ frame.to \in Nat /\ frame.length \in Nat
        /\ grp.Obytes \in Nat /\ grp.Ibytes \in Nat /\ LogicalSize \in Nat /\ LogAddr = LogicalSize
        /\ grp.Obytes <= LogicalSize /\ grp.Ibytes <= LogicalSize /\ LIMIT \in Nat
    BY <1>1, FramePlace
  <1>7. Behind \in Nat /\ a \in Int  BY <1>6 DEF Behind
  <1>8. a + Behind \in 0 .. 2 * LogAddr + LIMIT
    <2> DEFINE O == grp.Obytes
               I == grp.Ibytes
               L == LogicalSize
               b == Behind
    <2>1. O \in Nat /\ I \in Nat /\ L \in Nat /\ O <= L /\ I <= L /\ LIMIT \in Nat /\ b \in Nat
          /\ a \in O - b .. O - b + I - 1 /\ LogAddr = L
      BY <1>6, <1>7
    <2> HIDE DEF O, I, L, b
    <2>2. a + b \in 0 .. 2 * L + LIMIT  BY <2>1
    <2> QED  BY <2>1, <2>2 DEF b
  \* What the frame brings for the byte.
  <1>9. ASSUME a \in Addresses(frame)
        PROVE  InputFmmus(a) \cap missed' # {} \/ image'[a + Behind] = cycle
    <2>1. \A f \in InputFmmus(a) : f \in fmmu /\ f.dir = "I" /\ a \in FmmuBytes(f)
      BY DEF InputFmmus
    <2>2. \A f \in InputFmmus(a) : f \in ServedBy(frame, fmmu)
      <3> TAKE f \in InputFmmus(a)
      <3>1. f \in fmmu /\ a \in FmmuBytes(f)  BY <2>1
      <3> QED  BY <1>1, <1>9, <3>1, ServedIf
    <2>3. CASE \E f \in InputFmmus(a) : f.slave \notin ans
      BY <1>3, <2>2, <2>3 DEF Unheard
    <2>4. CASE \A f \in InputFmmus(a) : f.slave \in ans
      <3>1. frame.cmd # "LWR"
        <4>1. PICK f \in InputFmmus(a) : TRUE  OBVIOUS
        <4>2. frame.cmd \in {"LRD", "LRW"}  BY <2>1, <2>2, <4>1 DEF ServedBy
        <4> QED  BY <4>2
      <3>2. CopyBack(ans, frame.length)  BY <3>1 DEF Takes
      <3>3. a + Behind \in DOMAIN image  BY <1>1, <1>6, <1>8, <3>2, CopiedIs
      <3> DEFINE c == a + Behind
                 t == frame.to
                 s == frame.adr
                 l == frame.length
      <3>4. image'[c] = IF c \notin t .. t + l - 1 THEN image[c]
                        ELSE IF c < t + l THEN Carried(frame, ans, c - t + s) ELSE Foreign
        BY <1>1, <1>6, <3>2, <3>3, CopiedIs
      <3>5. c \in t .. t + l - 1 /\ c < t + l /\ c - t + s = a
        <4> DEFINE b == Behind
        <4>1. t = s + b /\ s \in Nat /\ l \in Nat /\ b \in Nat /\ a \in Int /\ c = a + b
              /\ a \in s .. s + l - 1
          BY <1>6, <1>7, <1>9, <3>1 DEF Addresses
        <4> HIDE DEF b, t, s, l, c
        <4> QED  BY <4>1
      <3> HIDE DEF c, t, s, l
      <3>6. image'[c] = Carried(frame, ans, a)  BY <3>4, <3>5
      <3>7. Carried(frame, ans, a) = cycle  BY <2>4 DEF Carried
      <3> QED  BY <3>6, <3>7 DEF c
    <2> QED  BY <2>3, <2>4
  <1>10. CASE InputFmmus(a) \cap missed # {}  BY <1>3, <1>10
  <1>11. CASE \E k \in pulled + 1 .. Len(idxstack) : a \in Addresses(idxstack[k])
    BY <1>1, <1>5, <1>9, <1>11
  <1>12. CASE image[a + Behind] = cycle
    <2>1. CASE frame.cmd = "LWR"  BY <1>12, <2>1 DEF Takes
    <2>2. CASE frame.cmd # "LWR"
      <3>1. CopyBack(ans, frame.length)  BY <2>2 DEF Takes
      <3>2. a + Behind \in DOMAIN image  BY <1>1, <1>6, <1>8, <3>1, CopiedIs
      <3>3. CASE a + Behind \notin frame.to .. frame.to + frame.length - 1
        <4>1. image'[a + Behind] = image[a + Behind]
          BY <1>1, <1>6, <3>1, <3>2, <3>3, CopiedIs
        <4> QED  BY <1>12, <4>1
      <3>4. CASE a + Behind \in frame.to .. frame.to + frame.length - 1
        <4> DEFINE b == Behind
                   t == frame.to
                   s == frame.adr
                   l == frame.length
        <4>1. t = s + b /\ s \in Nat /\ l \in Nat /\ b \in Nat /\ a \in Int
              /\ a + b \in t .. t + l - 1
          BY <1>6, <1>7, <2>2, <3>4
        <4> HIDE DEF b, t, s, l
        <4>2. a \in s .. s + l - 1  BY <4>1
        <4>3. a \in Addresses(frame)  BY <4>2 DEF Addresses, s, l
        <4> QED  BY <1>9, <4>3
      <3> QED  BY <3>3, <3>4
    <2> QED  BY <2>1, <2>2
  <1> QED  BY <1>4, <1>10, <1>11, <1>12

LEMMA TakesTally ==
  ASSUME MapInv, PdTyped, FramesRight, Ordered, Tally, Pulls, NEW ans, NEW n, NEW w,
         Takes(ans, n, w)
  PROVE  Tally'
  <1>1. pc = "pull" /\ Pull /\ pulled \in Nat  BY PullFacts DEF Pulls
  <1>2. Sound' = Sound /\ EachInOneFrame' = EachInOneFrame /\ fmmu' = fmmu
        /\ \A S : ValueOf(S)' = ValueOf(S)
    BY Still DEF Pulls
  <1>3. /\ dcLost' = dcLost /\ missed' = missed \cup Unheard(ans) /\ valid' = TRUE
        /\ idxstack' = idxstack /\ pc' = pc /\ cycle' = cycle /\ pulled' = pulled + 1
    BY DEF Pulls, Pull, Takes
  <1>4. Pending' = Rest  BY RestNext
  <1> SUFFICES ASSUME Sound, EachInOneFrame, ~dcLost
               PROVE  /\ missed' \cap Rest = {}
                      /\ wkc' = ValueOf(fmmu \ (missed' \cup Rest))
    <2>1. pc' \notin Cmds \cup {"receive"} /\ pc' = "pull" /\ pulled' # 0 /\ valid'
      BY <1>1, <1>3 DEF Cmds
    <2> QED  BY <1>1, <1>2, <1>3, <1>4, <2>1 DEF Tally
  <1>5. /\ missed \cap Pending = {} /\ wkc = ValueOf(fmmu \ (missed \cup Pending))
        /\ pulled = 0 => fmmu = missed \cup Pending
    BY <1>1 DEF Tally
  <1>6. Pending = ServedBy(frame, fmmu) \cup Rest /\ ServedBy(frame, fmmu) \cap Rest = {}
        /\ ServedBy(frame, fmmu) \subseteq fmmu
    BY <1>1, PendingSplit
  <1>7. Heard(ans) \cup Unheard(ans) = ServedBy(frame, fmmu) /\ Heard(ans) \cap Unheard(ans) = {}
    BY DEF Heard, Unheard
  <1> DEFINE X == fmmu \ (missed \cup Pending)
             H == Heard(ans)
             U == Unheard(ans)
             P == ServedBy(frame, fmmu)
  <1>8. missed' \cap Rest = {}  BY <1>3, <1>5, <1>6, <1>7
  <1>9. fmmu \ (missed' \cup Rest) = X \cup H /\ X \cap H = {} /\ X \in SUBSET fmmu /\ H \in SUBSET fmmu
    <2> HIDE DEF H, U, P
    <2>1. missed' = missed \cup U /\ Pending = P \cup Rest /\ P \cap Rest = {} /\ P \subseteq fmmu
          /\ H \cup U = P /\ H \cap U = {} /\ missed \cap Pending = {}
      BY <1>3, <1>5, <1>6, <1>7 DEF H, U, P
    <2> QED  BY <2>1
  <1>10. ValueOf(X \cup H) = ValueOf(X) + ValueOf(H) /\ ValueOf(X) \in Nat /\ ValueOf(H) \in Nat
    <2> HIDE DEF X, H
    <2> DEFINE W == [f \in fmmu |-> Weight(f)]
    <2>1. IsFiniteSet(fmmu) /\ \A f \in fmmu : W[f] \in Nat  BY WeightIs
    <2>2. IsFiniteSet(X) /\ IsFiniteSet(H)  BY <1>9, <2>1, FS_Subset
    <2> HIDE DEF W
    <2>3. Sum(W, X \cup H) = Sum(W, X) + Sum(W, H)  BY <1>9, <2>1, SumUnion
    <2>4. Sum(W, X) \in Nat /\ Sum(W, H) \in Nat  BY <1>9, <2>1, <2>2, SumNat
    <2> QED  BY <2>3, <2>4 DEF ValueOf, W
  <1>11. (IF first THEN 0 ELSE wkc) = ValueOf(X)
    <2>1. CASE first
      <3>1. pulled = 0  BY <2>1 DEF Takes
      <3>2. X = {}  BY <1>5, <3>1
      <3> QED  BY <2>1, <3>2, NothingCounted
    <2>2. CASE ~first  BY <1>5, <2>2
    <2> QED  BY <2>1, <2>2
  <1>12. wkc' = ValueOf(X) + ValueOf(H)
    <2>1. w = CounterOf(frame.cmd, Heard(ans))  BY DEF Takes
    <2>2. (IF frame.cmd = "LWR" THEN 2 * w ELSE w) = ValueOf(Heard(ans))
      BY <1>1, <2>1, HeardCounts
    <2>3. wkc' = (IF first THEN 0 ELSE wkc) + (IF frame.cmd = "LWR" THEN 2 * w ELSE w)
      BY DEF Takes
    <2> QED  BY <1>11, <2>2, <2>3
  <1> QED  BY <1>8, <1>9, <1>10, <1>12

\* A frame that arrives keeps the invariant.
LEMMA ReceiveKeeps ==
  ASSUME MapInv, PdInv, ReceiveFrame
  PROVE  PdInv'
  <1>0. /\ PdTyped /\ Aligned /\ FramesRight /\ Clock /\ OutputsKept /\ Ordered /\ Carries
        /\ Fresh /\ Tally
    BY DEF PdInv
  <1>1. Pulls  BY <1>0, ReceiveIs
  <1>2. PICK ans, n, w : Takes(ans, n, w)  BY <1>0, ReceiveIs
  <1>3. Mapped  BY <1>0, <1>1, PullFacts DEF Pulls
  <1>4. PdTyped' /\ OutputsKept' /\ Clock' /\ Fresh' /\ Tally'
    BY <1>0, <1>1, <1>2, <1>3, TakesTyped, TakesOutputs, TakesClock, TakesFresh, TakesTally
  <1>5. Aligned' /\ FramesRight' /\ Position' /\ Ordered' /\ Few' /\ Carries'
    BY <1>0, <1>1, PullKeeps
  <1> QED  BY <1>4, <1>5 DEF PdInv

-----------------------------------------------------------------------------
(* The invariant and what follows from it.                                 *)

\* Every step keeps the invariant.
LEMMA PdInvNext ==
  ASSUME MapInv, PdInv, [Next]_vars
  PROVE  PdInv'
  <1>1. CASE Configure  BY <1>1, ConfigureKeeps
  <1>2. CASE SendStart  BY <1>2, StartKeeps
  <1>3. CASE SendFrame  BY <1>3, SendKeeps
  <1>4. CASE ReceiveStart  BY <1>4, ReceiveStartKeeps
  <1>5. CASE ReceiveFrame  BY <1>5, ReceiveKeeps
  <1>6. CASE FrameTimeout  BY <1>6, TimeoutKeeps
  <1>7. CASE ReceiveEnd  BY <1>7, ReceiveEndKeeps
  <1>8. CASE UNCHANGED vars  BY <1>8, PdStutter
  <1> QED  BY <1>1, <1>2, <1>3, <1>4, <1>5, <1>6, <1>7, <1>8 DEF Next

\* The inductive invariant of the exchange of process data: what the layout is,
\* and how far the two calls are with the frames cut from it.
THEOREM PdInvAlways == PdSpec => [](MapInv /\ PdInv)
  <1>1. PdInit => MapInv /\ PdInv  BY MapInvInit, InitKeeps DEF PdInit
  <1>2. MapInv /\ PdInv /\ [Next]_vars => (MapInv /\ PdInv)'  BY MapInvNext, PdInvNext
  <1> QED  BY <1>1, <1>2, PTL DEF PdSpec

\* The slaves are of the kinds that the network may hold, and stay.
FromChoices ==
    \A s \in DOMAIN slaves : slaves[s].O \in Outputs /\ slaves[s].I \in Inputs

\* The slaves are of such kinds at first.
LEMMA ChoicesInit ==
  ASSUME Init
  PROVE  FromChoices
  <1>1. PICK n \in 1 .. MaxSlaves :
          slaves \in [1 .. n -> [O : Outputs, I : Inputs, blockLRW : BOOLEAN]]
    BY DEF Init
  <1> QED  BY <1>1 DEF FromChoices

\* The network stays the same.
LEMMA SlavesStay ==
  ASSUME [Next]_vars
  PROVE  slaves' = slaves
  <1>1. MapNext => slaves' = slaves
    BY DEF MapNext, MapBits, MapBytes, MapEmpty, EndSlave, EndOutputs, EndInputs, EndOverlapOutputs,
       EndOverlapInputs, EndOverlap, EndOverlapMap
  <1> QED
    BY <1>1 DEF Next, Configure, SendStart, SendFrame, ReceiveStart, ReceiveFrame, FrameTimeout,
       ReceiveEnd, vars, mapVars

\* If no kind of slave is too long for a frame, none of the network is.
LEMMA ChoicesSmall ==
  ASSUME FromChoices, SmallDevices
  PROVE  Small
  <1>1. \A s \in DOMAIN slaves : slaves[s].O \in Outputs \cup Inputs /\ slaves[s].I \in Outputs \cup Inputs
    BY DEF FromChoices
  <1>2. \A s \in DOMAIN slaves : Bytes(slaves[s].O) < LIMIT /\ Bytes(slaves[s].I) < LIMIT
    BY <1>1 DEF SmallDevices
  <1> QED  BY <1>2 DEF Small, Dirs

-----------------------------------------------------------------------------
(* Every byte in one frame.                                                *)

\* The types, as the runs check them.
LEMMA PdTypeFromInv ==
  ASSUME MapInv, PdInv
  PROVE  PdTypeOK
  <1>1. PdTyped  BY DEF PdInv
  <1>2. ASSUME NEW a \in DOMAIN image PROVE image[a] \in Content
    <2>1. CASE Mapped
      <3>1. image \in [0 .. 2 * LogAddr + LIMIT -> Content]  BY <1>1, <2>1 DEF PdTyped
      <3> QED  BY <3>1, <1>2
    <2>2. CASE ~Mapped
      <3>1. image = <<>>  BY <1>1, <2>2 DEF PdTyped
      <3>2. DOMAIN image = {}  BY <3>1
      <3> QED  BY <3>2, <1>2
    <2> QED  BY <2>1, <2>2
  <1>3. /\ pc \in {"app", "LRD", "LWR", "LRW", "receive", "pull"}
        /\ Len(idxstack) <= MAXBUF /\ pulled \in 0 .. Len(idxstack)
        /\ first \in BOOLEAN /\ valid \in BOOLEAN
        /\ length \in Int /\ adr \in Nat /\ seg \in 0 .. MAXIOSEGMENTS
        /\ wkc \in Int /\ wkc >= -1
    BY <1>1 DEF PdTyped, Cmds
  <1> QED  BY <1>2, <1>3 DEF PdTypeOK

\* Every frame sent fits, and its counter is where ecx_inframe reads it.
LEMMA AllSendable ==
  ASSUME PdInv, Small, NEW k \in DOMAIN idxstack
  PROVE  Sendable(idxstack[k].tx)
  <1>1. idxstack \in Seq(Frm) /\ FramesRight  BY DEF PdInv, PdTyped
  <1>2. k \in OnStack /\ idxstack[k] \in Frm  BY <1>1 DEF OnStack
  <1>3. FrameRight(idxstack[k])  BY <1>1, <1>2 DEF FramesRight
  <1> DEFINE fr == idxstack[k]
  <1>4. fr.tx = TxOf(fr.cmd, fr.length, fr.dc) /\ fr.length <= LIMIT
    BY <1>3 DEF FrameRight, RightIn
  <1>5. fr.length \in Nat /\ fr.dc \in BOOLEAN  BY <1>2 DEF Frm
  <1> HIDE DEF fr
  <1>6. Sendable(fr.tx)  BY <1>4, <1>5, TxSendable
  <1> QED  BY <1>6 DEF fr

\* Which loop a frame with the byte a was made by, and that there is no other.
LEMMA OneFrame ==
  ASSUME MapInv, PdInv, Mapped, Sound, NEW a \in Nat, NEW i \in OnStack, a \in Addresses(idxstack[i])
  PROVE  /\ idxstack[i].cmd = (IF grp.blockLRW = 0 THEN "LRW" ELSE IF a < grp.Obytes THEN "LWR" ELSE "LRD")
         /\ \A j \in OnStack : a \in Addresses(idxstack[j]) => i = j
  <1>1. idxstack \in Seq(Frm) /\ FramesRight /\ Ordered /\ Layout
    BY LayoutIs DEF PdInv, PdTyped
  <1>2. \A j \in OnStack : idxstack[j] \in Frm /\ FrameRight(idxstack[j])
    BY <1>1 DEF OnStack, FramesRight
  <1>3. grp.Obytes \in Nat  BY <1>1 DEF Layout
  <1>4. ASSUME NEW j \in OnStack, a \in Addresses(idxstack[j])
        PROVE  idxstack[j].cmd = (IF grp.blockLRW = 0 THEN "LRW" ELSE IF a < grp.Obytes THEN "LWR" ELSE "LRD")
    <2> DEFINE fr == idxstack[j]
    <2>1. fr.adr \in Nat /\ fr.length \in Nat /\ fr.cmd \in Cmds  BY <1>2 DEF Frm
    <2>2. /\ fr.cmd = "LRW" <=> grp.blockLRW = 0
          /\ fr.cmd = "LRD" => fr.adr >= grp.Obytes
          /\ fr.cmd = "LWR" => fr.adr + fr.length <= grp.Obytes
      BY <1>2 DEF FrameRight, RightIn
    <2>3. fr.adr <= a /\ a < fr.adr + fr.length  BY <1>4, <2>1 DEF Addresses
    <2>4. (fr.cmd = "LRD" => a >= grp.Obytes) /\ (fr.cmd = "LWR" => a < grp.Obytes)
      BY <1>3, <2>1, <2>2, <2>3
    <2>5. fr.cmd \in {"LRD", "LWR", "LRW"}  BY <2>1 DEF Cmds
    <2>6. ~ (a >= grp.Obytes /\ a < grp.Obytes)  BY <1>3
    <2> HIDE DEF fr
    <2>7. fr.cmd = (IF grp.blockLRW = 0 THEN "LRW" ELSE IF a < grp.Obytes THEN "LWR" ELSE "LRD")
      BY <2>2, <2>4, <2>5, <2>6
    <2> QED  BY <2>7 DEF fr
  <1>5. ASSUME NEW j \in OnStack, NEW k \in OnStack, j < k,
               a \in Addresses(idxstack[j]), a \in Addresses(idxstack[k])
        PROVE  FALSE
    <2>1. idxstack[j].cmd = idxstack[k].cmd  BY <1>4, <1>5
    <2>2. Cut(idxstack[j].adr + idxstack[j].length, idxstack[k].adr)
      BY <1>1, <1>5, <2>1 DEF Ordered
    <2>3. idxstack[j].adr \in Nat /\ idxstack[j].length \in Nat /\ idxstack[k].adr \in Nat
          /\ idxstack[k].length \in Nat
      BY <1>2 DEF Frm
    <2>4. PICK n \in 0 .. grp.nsegments :
            idxstack[j].adr + idxstack[j].length <= Start(n) /\ Start(n) <= idxstack[k].adr
      BY <2>2 DEF Cut, CutIn, Start
    <2>5. Start(n) \in Nat  BY <1>1 DEF Layout
    <2>6. a < idxstack[j].adr + idxstack[j].length /\ idxstack[k].adr <= a
      BY <1>5, <2>3 DEF Addresses
    <2> QED  BY <2>3, <2>4, <2>5, <2>6
  <1>6. Len(idxstack) \in Nat  BY <1>1
  <1>7. \A j \in OnStack : a \in Addresses(idxstack[j]) => i = j
    <2> TAKE j \in OnStack
    <2> HAVE a \in Addresses(idxstack[j])
    <2>1. ~ (i < j) /\ ~ (j < i)  BY <1>5
    <2>2. i \in Nat /\ j \in Nat  BY <1>6 DEF OnStack
    <2> QED  BY <2>1, <2>2
  <1> QED  BY <1>4, <1>7

\* Each byte of the image is in one frame of a cycle.
LEMMA BytesOnce ==
  ASSUME MapInv, PdInv, Small
  PROVE  EachByteOnce
  <1>1. PdTypeOK  BY PdTypeFromInv
  <1>2. \A k \in DOMAIN idxstack : Sendable(idxstack[k].tx)  BY AllSendable
  <1>3. ASSUME pc = "receive", ~TableFull, ~Misread, FramesPerCycle <= MAXBUF,
               NEW a \in 0 .. LogicalSize - 1
        PROVE  LET on == {k \in DOMAIN idxstack :
                           a \in idxstack[k].adr ..
                                   idxstack[k].adr + idxstack[k].length - 1}
                   cmds == IF grp.blockLRW = 0 THEN {"LRW"}
                         ELSE IF a < grp.Obytes THEN {"LWR"} ELSE {"LRD"}
               IN  Cardinality(on) = 1 /\ \A k \in on : idxstack[k].cmd \in cmds
    <2> DEFINE on == {k \in DOMAIN idxstack :
                        a \in idxstack[k].adr .. idxstack[k].adr + idxstack[k].length - 1}
    <2>1. Mapped /\ Sound /\ Carries /\ idxstack \in Seq(Frm)
      BY <1>3 DEF PdInv, PdTyped, Sound
    <2>2. DOMAIN idxstack = OnStack  BY <2>1 DEF OnStack
    <2>3. a \in Nat
      <3>1. Layout  BY <2>1, LayoutIs
      <3> QED  BY <3>1 DEF Layout
    <2>4. ~Dropped(a)
      <3>1. ~ (FramesPerCycle > MAXBUF)
        <4>1. Layout /\ MAXBUF \in Nat
          BY <2>1, LayoutIs, ProcessDataAssumption DEF ProcessDataAssumption
        <4>2. FramesPerCycle \in Int  BY <4>1 DEF FramesPerCycle, Layout
        <4> QED  BY <4>1, <4>2, <1>3
      <3> QED  BY <3>1 DEF Dropped
    <2>5. Done(a)  BY <1>3 DEF Done
    <2>6. PICK i \in OnStack : a \in Addresses(idxstack[i])
      BY <1>3, <2>1, <2>4, <2>5 DEF Carries
    <2>7. on = {i}
      <3>1. \A k \in OnStack : a \in Addresses(idxstack[k]) => i = k
        BY <2>1, <2>3, <2>6, OneFrame
      <3> QED  BY <2>2, <2>6, <3>1 DEF Addresses
    <2>8. idxstack[i].cmd = (IF grp.blockLRW = 0 THEN "LRW" ELSE IF a < grp.Obytes THEN "LWR" ELSE "LRD")
      BY <2>1, <2>3, <2>6, OneFrame
    <2>9. Cardinality({i}) = 1  BY FS_Singleton
    <2> HIDE DEF on
    <2>10. Cardinality(on) = 1 /\ \A k \in on : k = i  BY <2>7, <2>9
    <2> USE DEF on
    <2> QED  BY <2>8, <2>10
  <1> QED  BY <1>1, <1>2, <1>3 DEF EachByteOnce

-----------------------------------------------------------------------------
(* The work counter.                                                       *)

\* A sum of a constant is the number of its terms times the constant.
LEMMA SumConstant ==
  ASSUME NEW S, IsFiniteSet(S), NEW c \in Nat, NEW G, \A x \in S : G[x] = c
  PROVE  Sum(G, S) = c * Cardinality(S)
  <1> DEFINE N == {n \in Nat : \A T \in SUBSET S : Cardinality(T) = n => Sum(G, T) = c * n}
  <1>1. \A T \in SUBSET S : /\ IsFiniteSet(T) /\ Sum(G, T) \in Nat
                            /\ \A y \in T : Sum(G, T) = Sum(G, T \ {y}) + G[y]
    <2> TAKE T \in SUBSET S
    <2>1. IsFiniteSet(T) /\ \A x \in T : G[x] \in Nat  BY FS_Subset
    <2> QED  BY <2>1, SumNat, SumAdds
  <1>2. 0 \in N
    <2>1. \A T \in SUBSET S : Cardinality(T) = 0 => T = {}
      BY <1>1, FS_EmptySet
    <2>2. Sum(G, {}) = 0  BY SumEmpty
    <2>3. c * 0 = 0  OBVIOUS
    <2> QED  BY <2>1, <2>2, <2>3
  <1>3. ASSUME NEW n \in Nat, n \in N PROVE n + 1 \in N
    <2>1. ASSUME NEW T \in SUBSET S, Cardinality(T) = n + 1
          PROVE  Sum(G, T) = c * (n + 1)
      <3>1. T # {}
        <4>1. Cardinality({}) = 0  BY FS_EmptySet
        <4> QED  BY <2>1, <4>1
      <3>2. PICK y \in T : TRUE  BY <3>1
      <3>3. Cardinality(T \ {y}) = Cardinality(T) - 1
        BY <1>1, <3>2, FS_RemoveElement
      <3>4. Cardinality(T \ {y}) = n  BY <2>1, <3>3
      <3>5. Sum(G, T \ {y}) = c * n  BY <1>3, <3>4
      <3>6. Sum(G, T) = Sum(G, T \ {y}) + G[y] /\ G[y] = c  BY <1>1
      <3>7. c * (n + 1) = (c * n) + c  OBVIOUS
      <3> QED  BY <3>5, <3>6, <3>7
    <2> QED  BY <1>3, <2>1
  <1>4. Cardinality(S) \in Nat  BY FS_CardinalityType
  <1> HIDE DEF N
  <1>5. \A n \in Nat : n \in N  BY <1>2, <1>3, Induction
  <1> QED  BY <1>4, <1>5 DEF N

\* What is missed is missing in the counter.
LEMMA ValueSplit ==
  ASSUME MapInv, NEW S \in SUBSET fmmu
  PROVE  /\ ValueOf(fmmu) = ValueOf(fmmu \ S) + ValueOf(S)
         /\ ValueOf(fmmu \ S) \in Nat /\ ValueOf(S) \in Nat
         /\ S # {} => ValueOf(S) > 0
  <1> DEFINE W == [f \in fmmu |-> Weight(f)]
  <1>1. IsFiniteSet(fmmu) /\ \A f \in fmmu : W[f] \in Nat /\ W[f] > 0  BY WeightIs
  <1>2. \A T \in SUBSET fmmu : IsFiniteSet(T) /\ ValueOf(T) = Sum(W, T)
    BY <1>1, FS_Subset DEF ValueOf
  <1> HIDE DEF W
  <1>3. \A T \in SUBSET fmmu : Sum(W, T) \in Nat
    <2> TAKE T \in SUBSET fmmu
    <2> QED  BY <1>1, <1>2, SumNat
  <1>4. Sum(W, (fmmu \ S) \cup S) = Sum(W, fmmu \ S) + Sum(W, S)
    BY <1>1, SumUnion
  <1>5. (fmmu \ S) \cup S = fmmu  OBVIOUS
  <1>6. ASSUME S # {} PROVE Sum(W, S) > 0
    <2>1. PICK y \in S : TRUE  BY <1>6
    <2>2. Sum(W, S) = Sum(W, S \ {y}) + W[y]  BY <1>1, <1>2, <2>1, SumAdds
    <2>3. Sum(W, S \ {y}) \in Nat  BY <1>3
    <2>4. W[y] \in Nat /\ W[y] > 0  BY <1>1
    <2> QED  BY <2>2, <2>3, <2>4
  <1>7. fmmu \in SUBSET fmmu /\ fmmu \ S \in SUBSET fmmu  OBVIOUS
  <1> QED  BY <1>2, <1>3, <1>4, <1>5, <1>6, <1>7

\* What start up expects is the value of all FMMUs.
LEMMA ExpectedIs ==
  ASSUME MapInv
  PROVE  /\ expectedWKC = ValueOf(fmmu) + (2 * empty) /\ expectedWKC \in Nat
         /\ ValueOf(fmmu) \in Nat /\ empty \in Nat
  <1> DEFINE W == [f \in fmmu |-> Weight(f)]
             O == Ways("O")
             I == Ways("I")
  <1>1. IsFiniteSet(fmmu) /\ \A f \in fmmu : W[f] = Weight(f) /\ W[f] \in Nat /\ f.dir \in Dirs
    BY WeightIs
  <1>2. O \in SUBSET fmmu /\ I \in SUBSET fmmu /\ O \cup I = fmmu /\ O \cap I = {}
    BY <1>1 DEF Ways, Dirs
  <1>3. (\A f \in O : W[f] = 2) /\ (\A f \in I : W[f] = 1)
    BY <1>1 DEF Ways, Weight
  <1>4. ValueOf(fmmu) = Sum(W, fmmu)  BY DEF ValueOf
  <1>5. grp.outputsWKC = Cardinality(O) + empty /\ grp.inputsWKC = Cardinality(I)
        /\ grp.outputsWKC \in Nat /\ grp.inputsWKC \in Nat /\ empty \in Nat
    BY DEF MapInv, Counted, MapTyped, Group
  <1> HIDE DEF W, O, I
  <1>6. IsFiniteSet(O) /\ IsFiniteSet(I)  BY <1>1, <1>2, FS_Subset
  <1>7. Sum(W, O) = 2 * Cardinality(O)  BY <1>3, <1>6, SumConstant
  <1>8. Sum(W, I) = 1 * Cardinality(I)  BY <1>3, <1>6, SumConstant
  <1>9. Sum(W, O \cup I) = Sum(W, O) + Sum(W, I)  BY <1>1, <1>2, SumUnion
  <1>10. Sum(W, fmmu) \in Nat /\ (2 * grp.outputsWKC) + grp.inputsWKC = Sum(W, fmmu) + (2 * empty)
    <2> DEFINE a == Cardinality(O)
               b == Cardinality(I)
    <2>1. a \in Nat /\ b \in Nat  BY <1>6, FS_CardinalityType
    <2>2. Sum(W, fmmu) = Sum(W, O) + Sum(W, I) /\ Sum(W, O) = 2 * a /\ Sum(W, I) = 1 * b
      BY <1>2, <1>7, <1>8, <1>9
    <2>3. grp.outputsWKC = a + empty /\ grp.inputsWKC = b  BY <1>5
    <2> HIDE DEF a, b
    <2> QED  BY <1>5, <2>1, <2>2, <2>3
  <1>11. expectedWKC \in Nat  BY <1>5 DEF expectedWKC
  <1> QED  BY <1>4, <1>5, <1>10, <1>11 DEF expectedWKC

\* A counter that is reached says that nothing is missed.
LEMMA CounterTells ==
  ASSUME MapInv, PdInv
  PROVE  WkcTells
  <1> SUFFICES ASSUME Received, ~TableFull, ~Misread, EachInOneFrame, ~dcLost
               PROVE  /\ wkc >= expectedWKC => missed = {}
                      /\ missed = {} /\ fmmu # {} => wkc = expectedWKC - 2 * empty
    BY DEF WkcTells
  <1>1. Sound /\ pc = "app" /\ cycle > 0  BY DEF Received, Sound
  <1>2. PdTyped /\ Tally  BY DEF PdInv
  <1>3. missed \in SUBSET fmmu /\ valid \in BOOLEAN  BY <1>2 DEF PdTyped
  <1>4. IF valid THEN wkc = ValueOf(fmmu \ missed) ELSE wkc = -1 /\ missed = fmmu
    BY <1>1, <1>2 DEF Tally
  <1> DEFINE V == ValueOf(fmmu)
             R == ValueOf(fmmu \ missed)
             M == ValueOf(missed)
  <1>5. V = R + M /\ R \in Nat /\ M \in Nat /\ (missed # {} => M > 0)
    BY <1>3, ValueSplit
  <1>6. expectedWKC = V + (2 * empty) /\ empty \in Nat  BY ExpectedIs
  <1>7. missed = {} => R = V
    <2> HAVE missed = {}
    <2>1. fmmu \ missed = fmmu  OBVIOUS
    <2> QED  BY <2>1
  <1> HIDE DEF V, M
  <1>8. CASE valid
    <2>1. wkc = R  BY <1>4, <1>8
    <2> HIDE DEF R
    <2> QED  BY <1>5, <1>6, <1>7, <2>1
  <1>9. CASE ~valid
    <2>1. wkc = -1 /\ missed = fmmu  BY <1>4, <1>9
    <2> HIDE DEF R
    <2>2. ~ (wkc >= expectedWKC)  BY <1>5, <1>6, <2>1
    <2> QED  BY <2>1, <2>2
  <1> QED  BY <1>3, <1>8, <1>9

-----------------------------------------------------------------------------
(* The inputs.                                                             *)

\* At the end of a cycle no input is still to come.
LEMMA FreshIs ==
  ASSUME MapInv, PdInv
  PROVE  InputsFresh
  <1> SUFFICES ASSUME Received, ~TableFull, ~Misread, ~dcLost
               PROVE  /\ dctime # "elsewhere"
                      /\ \A a \in grp.Obytes .. ImageSize - 1 :
                            LET on == InputFmmus(IF overlap THEN a - grp.Obytes ELSE a)
                            IN  on # {} /\ on \cap missed = {} => image[a] = cycle
    BY DEF InputsFresh
  <1>1. Sound /\ Mapped /\ pc = "app" /\ cycle > 0  BY DEF Received, Sound
  <1>2. PdTyped /\ Clock /\ Fresh  BY DEF PdInv
  <1>3. idxstack = <<>> /\ pulled = 0  BY <1>1, <1>2 DEF PdTyped
  <1>4. /\ Layout /\ grp.Obytes \in Nat /\ grp.Ibytes \in Nat /\ ImageSize = grp.Obytes + grp.Ibytes
        /\ overlap \in BOOLEAN
    <2>1. Layout  BY <1>1, LayoutIs
    <2> QED  BY <2>1 DEF Layout, ImageSize, MapInv, MapTyped
  <1>5. dctime # "elsewhere"
    <2>1. hasdc \in BOOLEAN  BY <1>2 DEF PdTyped
    <2>2. CASE hasdc /\ ImageSize > 0
      <3>1. dctime = "clock"  BY <1>1, <1>2, <2>2 DEF Clock
      <3> QED  BY <3>1
    <2>3. CASE ~ (hasdc /\ ImageSize > 0)
      <3>1. ~hasdc \/ ImageSize = 0  BY <1>4, <2>1, <2>3
      <3>2. dctime = "none"  BY <1>1, <1>2, <3>1 DEF Clock
      <3> QED  BY <3>2
    <2> QED  BY <2>2, <2>3
  <1>6. ASSUME NEW a \in grp.Obytes .. ImageSize - 1,
               InputFmmus(IF overlap THEN a - grp.Obytes ELSE a) # {},
               InputFmmus(IF overlap THEN a - grp.Obytes ELSE a) \cap missed = {}
        PROVE  image[a] = cycle
    <2> DEFINE b == a - Behind
    <2>1. Behind \in Nat /\ (IF overlap THEN a - grp.Obytes ELSE a) = b
      BY <1>4 DEF Behind
    <2>2. b \in grp.Obytes - Behind .. grp.Obytes - Behind + grp.Ibytes - 1 /\ b + Behind = a
      BY <1>4, <2>1
    <2>3. InputFmmus(b) # {} /\ InputFmmus(b) \cap missed = {}  BY <1>6, <2>1
    <2> HIDE DEF b
    <2>4. \/ InputFmmus(b) \cap missed # {}
          \/ image[b + Behind] = cycle
          \/ \E k \in pulled + 1 .. Len(idxstack) : b \in Addresses(idxstack[k])
      BY <1>1, <1>2, <2>2, <2>3 DEF Fresh
    <2>5. pulled + 1 .. Len(idxstack) = {}
      <3>1. Len(<<>>) = 0  OBVIOUS
      <3> QED  BY <1>3, <3>1
    <2> QED  BY <2>2, <2>3, <2>4, <2>5
  <1> QED  BY <1>5, <1>6

-----------------------------------------------------------------------------
(* What receiving changes.                                                 *)

\* A frame that arrives changes inputs only.
LEMMA ReceivedOnly ==
  ASSUME MapInv, PdInv, ReceiveFrame, ~dcLost, NEW a \in DOMAIN image,
         a < grp.Obytes \/ (a >= ImageSize /\ ~Overruns)
  PROVE  image'[a] = image[a]
  <1>0. PdTyped /\ Aligned /\ FramesRight /\ Clock /\ OutputsKept  BY DEF PdInv
  <1>1. Pulls  BY <1>0, ReceiveIs
  <1>2. PICK ans, n, w : Takes(ans, n, w)  BY <1>0, ReceiveIs
  <1>3. Pull  BY <1>1 DEF Pulls
  <1>4. Mapped /\ pc = "pull"  BY <1>0, <1>3, PullFacts
  <1>5. CASE frame.cmd = "LWR"  BY <1>2, <1>5 DEF Takes
  <1>6. CASE frame.cmd # "LWR"
    <2>1. CopyBack(ans, frame.length)  BY <1>2, <1>6 DEF Takes
    <2>2. CASE a < grp.Obytes
      <3>1. a \in 0 .. grp.Obytes - 1
        <4>1. image \in [0 .. 2 * LogAddr + LIMIT -> Content]  BY <1>0, <1>4 DEF PdTyped
        <4>2. Layout  BY <1>4, LayoutIs
        <4> QED  BY <2>2, <4>1, <4>2, Parameters DEF Layout
      <3>2. image'[a] = image[a] \/ image'[a] = sent[a]
        BY <1>0, <1>3, <1>6, <2>1, <3>1, OutputsBack
      <3>3. image[a] = sent[a]  BY <1>0, <1>4, <3>1 DEF OutputsKept
      <3> QED  BY <3>2, <3>3
    <2>3. CASE a >= ImageSize /\ ~Overruns
      BY <1>0, <1>3, <2>1, <2>3, NothingBehind
    <2> QED  BY <2>2, <2>3
  <1> QED  BY <1>5, <1>6

\* No other step changes the image.
LEMMA ImageStays ==
  ASSUME MapInv, Mapped, [Next]_vars, ~ReceiveFrame
  PROVE  image' = image
  <1>1. ~Configure  BY MappedStays DEF Configure
  <1>2. CASE SendStart  BY <1>2 DEF SendStart
  <1>3. CASE SendFrame  BY <1>3 DEF SendFrame
  <1>4. CASE ReceiveStart  BY <1>4 DEF ReceiveStart
  <1>5. CASE FrameTimeout  BY <1>5 DEF FrameTimeout
  <1>6. CASE ReceiveEnd  BY <1>6 DEF ReceiveEnd
  <1>7. CASE UNCHANGED vars  BY <1>7 DEF vars, pdVars
  <1> QED  BY <1>1, <1>2, <1>3, <1>4, <1>5, <1>6, <1>7 DEF Next

-----------------------------------------------------------------------------
(* The theorems.                                                           *)

\* OnlyInputsChange: receiving changes no output and nothing behind the image, as
\* long as the frame of the clock was not lost.
THEOREM ImageOnlyInputsChange == PdSpec => OnlyInputsChange
  <1> DEFINE A == Mapped /\ ~dcLost =>
                    \A a \in DOMAIN image :
                       a < grp.Obytes \/ (a >= ImageSize /\ ~Overruns) => image'[a] = image[a]
  <1>1. ASSUME MapInv, PdInv, [Next]_vars PROVE [A]_vars
    <2>1. CASE ReceiveFrame  BY <1>1, <2>1, ReceivedOnly
    <2>2. CASE ~ReceiveFrame
      <3>1. Mapped => image' = image  BY <1>1, <2>2, ImageStays
      <3> QED  BY <3>1
    <2> QED  BY <2>1, <2>2
  <1>2. MapInv /\ PdInv /\ [Next]_vars => [A]_vars  BY <1>1
  <1>3. PdSpec => [][A]_vars
    <2>1. PdSpec => [][Next]_vars  BY DEF PdSpec
    <2> HIDE DEF A
    <2> QED  BY <1>2, <2>1, PdInvAlways, PTL
  <1> QED  BY <1>3 DEF OnlyInputsChange

\* WkcTells: a cycle whose work counter reaches what start up computed has missed
\* nothing, and one that has missed nothing reaches it.
THEOREM WorkCounterTells == PdSpec => []WkcTells
  BY PdInvAlways, CounterTells, PTL

\* InputsFresh: an input whose slave was heard is of this cycle, and the time was
\* read where the clock left it.
THEOREM InputsAreFresh == PdSpec => []InputsFresh
  BY PdInvAlways, FreshIs, PTL

\* EachByteOnce: with slaves that fit into a frame, the frames of a cycle carry
\* every byte in exactly one datagram of the right kind, every frame fits, and its
\* counter lies where ecx_inframe takes it from.
THEOREM BytesAreOnce ==
  ASSUME SmallDevices
  PROVE  PdSpec => []EachByteOnce
  <1>1. PdInit => FromChoices  BY ChoicesInit DEF PdInit
  <1>2. FromChoices /\ [Next]_vars => FromChoices'  BY SlavesStay DEF FromChoices
  <1>3. PdSpec => []FromChoices  BY <1>1, <1>2, PTL DEF PdSpec
  <1>4. FromChoices => Small  BY ChoicesSmall
  <1>5. MapInv /\ PdInv /\ Small => EachByteOnce  BY BytesOnce
  <1> QED  BY <1>3, <1>4, <1>5, PdInvAlways, PTL
=============================================================================
