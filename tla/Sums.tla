-------------------------------- MODULE Sums --------------------------------
(***************************************************************************)
(* Lemmas about sums over finite sets (SumFunctionOnSet and SumFunction of *)
(* the community module Functions): the sum of nothing is 0, every term    *)
(* can be taken out of a sum, and sums of equal terms are equal.  Lemmas   *)
(* about division, which rounds down, and about the digits of a number.    *)
(*                                                                         *)
(* The induction principles of the library take a predicate as parameter.  *)
(* Here they are stated of sets, from the well-foundedness of the numbers  *)
(* and of the finite subsets.                                              *)
(***************************************************************************)
EXTENDS Integers, Functions, FiniteSetTheorems, TLAPS

-----------------------------------------------------------------------------
(* Induction                                                               *)

(* A set of natural numbers has a least element.                           *)
LEMMA LeastNumber ==
    ASSUME NEW T \in SUBSET Nat, T # {}
    PROVE  \E m \in T : \A n \in T : m <= n
<1> DEFINE R == OpToRel(<, Nat)
<1>1. IsWellFoundedOn(R, Nat)
  BY NatLessThanWellFounded
<1>2. \A m, n \in Nat : m < n => <<m, n>> \in R
  BY DEF OpToRel
<1> HIDE DEF R
<1>3. PICK m \in T : \A n \in T : ~(<<n, m>> \in R)
  BY <1>1, WFMin
<1>4. ASSUME NEW n \in T PROVE m <= n
  <2>1. m \in Nat /\ n \in Nat
    OBVIOUS
  <2>2. ~(n < m)
    BY <1>2, <1>3, <2>1
  <2>3. QED
    BY <2>1, <2>2
<1>5. QED
  BY <1>4

(* A set with 0 and the successor of each of its members holds them all.   *)
LEMMA CountUp ==
    ASSUME NEW N \in SUBSET Nat, 0 \in N, \A n \in N : n + 1 \in N
    PROVE  N = Nat
<1> SUFFICES ASSUME Nat \ N # {} PROVE FALSE
  OBVIOUS
<1>1. PICK m \in Nat \ N : \A n \in Nat \ N : m <= n
  BY LeastNumber
<1>2. m - 1 \in N
  BY <1>1
<1>3. QED
  BY <1>1, <1>2

(* A family of subsets of a finite set that holds a set whenever it holds  *)
(* the proper subsets of it holds them all.                                *)
LEMMA SubsetsUp ==
    ASSUME NEW S, IsFiniteSet(S), NEW F \in SUBSET SUBSET S,
           \A A \in SUBSET S :
              (\A B \in SUBSET A : B # A => B \in F) => A \in F
    PROVE  F = SUBSET S
<1> SUFFICES ASSUME (SUBSET S) \ F # {} PROVE FALSE
  OBVIOUS
<1> DEFINE R == StrictSubsetOrdering(S)
           T == (SUBSET S) \ F
<1>1. IsWellFoundedOn(R, SUBSET S)
  <2>1. IsWellFoundedOn(R, FiniteSubsetsOf(S))
    BY FS_StrictSubsetOrderingWellFounded
  <2>2. FiniteSubsetsOf(S) = SUBSET S
    BY FS_FiniteSubsetsOfFinite
  <2>3. QED
    BY <2>1, <2>2
<1>2. \A A, B \in SUBSET S : B \subseteq A /\ B # A => <<B, A>> \in R
  BY DEF StrictSubsetOrdering
<1> HIDE DEF R
<1>3. PICK A \in T : \A B \in T : ~(<<B, A>> \in R)
  <2>1. T \subseteq SUBSET S /\ T # {}
    OBVIOUS
  <2> HIDE DEF T
  <2>2. QED
    BY <1>1, <2>1, WFMin
<1>4. \A B \in SUBSET A : B # A => B \in F
  <2> SUFFICES ASSUME NEW B \in SUBSET A, B # A, B \notin F PROVE FALSE
    OBVIOUS
  <2>1. B \in (SUBSET S) \ F
    OBVIOUS
  <2>2. <<B, A>> \in R
    BY <1>2, <2>1
  <2>3. QED
    BY <1>3, <2>1, <2>2
<1>5. QED
  BY <1>3, <1>4

-----------------------------------------------------------------------------
(* The fold                                                                *)

Pick(A) == CHOOSE x \in A : TRUE

(* g gives the sum of f over every subset of S, as the fold defines it.    *)
SumsUp(g, f, S) ==
    g = [A \in SUBSET S |->
             IF A = {} THEN 0 ELSE f[Pick(A)] + g[A \ {Pick(A)}]]

LEMMA PickIsMember == ASSUME NEW A, A # {} PROVE Pick(A) \in A
BY DEF Pick

(* The recursion of the fold has a solution on the subsets of at most n    *)
(* members, for every n.                                                   *)
LEMMA SumsExist ==
    ASSUME NEW f, NEW S, IsFiniteSet(S)
    PROVE  \E g : SumsUp(g, f, S)
<1> DEFINE Small(n) == {A \in SUBSET S : Cardinality(A) <= n}
           Sums(g, n) ==
              g = [A \in Small(n) |-> IF A = {} THEN 0
                                      ELSE f[Pick(A)] + g[A \ {Pick(A)}]]
           N == {n \in Nat : \E g : Sums(g, n)}
<1>1. 0 \in N
  <2> DEFINE g == [A \in Small(0) |-> 0]
  <2>1. \A A \in Small(0) : A = {}
    BY FS_EmptySet, FS_Subset, FS_CardinalityType
  <2>2. Sums(g, 0)
    BY <2>1
  <2>3. QED
    BY <2>2
<1>2. ASSUME NEW n \in N PROVE n + 1 \in N
  <2>1. PICK g : Sums(g, n)
    OBVIOUS
  <2> DEFINE h == [A \in Small(n + 1) |->
                      IF A = {} THEN 0 ELSE f[Pick(A)] + g[A \ {Pick(A)}]]
  <2>2. \A A \in Small(n) : A \in Small(n + 1) /\ h[A] = g[A]
    <3>1. \A A \in Small(n) : A \in Small(n + 1)
      BY FS_Subset, FS_CardinalityType
    <3>2. QED
      BY <2>1, <3>1
  <2>3. \A A \in Small(n + 1) : A # {} => A \ {Pick(A)} \in Small(n)
    <3> TAKE A \in Small(n + 1)
    <3> HAVE A # {}
    <3>1. IsFiniteSet(A) /\ Cardinality(A) \in Nat
      BY FS_Subset, FS_CardinalityType
    <3>2. Cardinality(A \ {Pick(A)}) = Cardinality(A) - 1
      BY <3>1, PickIsMember, FS_RemoveElement
    <3>3. QED
      BY <3>1, <3>2
  <2>4. Sums(h, n + 1)
    <3>1. \A A \in Small(n + 1) : A # {} =>
             h[A \ {Pick(A)}] = g[A \ {Pick(A)}]
      BY <2>2, <2>3
    <3>2. h = [A \in Small(n + 1) |->
                 IF A = {} THEN 0 ELSE f[Pick(A)] + h[A \ {Pick(A)}]]
      BY <3>1
    <3>3. QED
      BY <3>2
  <2> HIDE DEF h, Sums
  <2>5. \E x : Sums(x, n + 1)
    BY <2>4
  <2>6. QED
    BY <2>5
<1>3. N = Nat
  <2> HIDE DEF N
  <2>1. N \in SUBSET Nat
    BY DEF N
  <2>2. QED
    BY <1>1, <1>2, <2>1, CountUp
<1>4. Cardinality(S) \in N
  BY <1>3, FS_CardinalityType
<1>5. PICK g : Sums(g, Cardinality(S))
  BY <1>4
<1>6. Small(Cardinality(S)) = SUBSET S
  BY FS_Subset
<1>7. SumsUp(g, f, S)
  BY <1>5, <1>6 DEF SumsUp
<1>8. QED
  BY <1>7

LEMMA SumIsFold ==
    ASSUME NEW f, NEW S, IsFiniteSet(S)
    PROVE  \E g : SumsUp(g, f, S) /\ SumFunctionOnSet(f, S) = g[S]
<1> DEFINE iter == CHOOSE g : SumsUp(g, f, S)
<1>1. SumFunctionOnSet(f, S) = iter[S]
  BY Zenon DEF SumFunctionOnSet, FoldFunctionOnSet, MapThenFoldSet, SumsUp,
               Pick
<1>2. SumsUp(iter, f, S)
  BY SumsExist
<1>3. QED
  BY <1>1, <1>2

(* g is determined by the terms, and its order does not matter.            *)
LEMMA SumsTyped ==
    ASSUME NEW g, NEW f, NEW S, IsFiniteSet(S), SumsUp(g, f, S),
           \A x \in S : f[x] \in Int
    PROVE  \A A \in SUBSET S : g[A] \in Int
<1> DEFINE F == {A \in SUBSET S : g[A] \in Int}
<1>1. ASSUME NEW A \in SUBSET S, \A B \in SUBSET A : B # A => B \in F
      PROVE  A \in F
  <2>1. CASE A = {}
    BY <2>1 DEF SumsUp
  <2>2. CASE A # {}
    <3>1. Pick(A) \in A
      BY <2>2, PickIsMember
    <3>2. A \ {Pick(A)} \in F
      BY <1>1, <3>1
    <3>3. g[A] = f[Pick(A)] + g[A \ {Pick(A)}]
      BY <2>2 DEF SumsUp
    <3>4. QED
      BY <3>1, <3>2, <3>3
  <2>3. QED
    BY <2>1, <2>2
<1>2. F = SUBSET S
  <2> HIDE DEF F
  <2>1. F \in SUBSET SUBSET S
    BY DEF F
  <2>2. QED
    BY <1>1, <2>1, SubsetsUp
<1>3. QED
  BY <1>2

LEMMA SumsInAnyOrder ==
    ASSUME NEW g, NEW f, NEW S, IsFiniteSet(S), SumsUp(g, f, S),
           \A x \in S : f[x] \in Int
    PROVE  \A A \in SUBSET S : \A a \in A : g[A] = f[a] + g[A \ {a}]
<1> DEFINE F == {A \in SUBSET S : \A a \in A : g[A] = f[a] + g[A \ {a}]}
<1>1. \A A \in SUBSET S : g[A] \in Int
  BY SumsTyped
<1>2. ASSUME NEW A \in SUBSET S, \A B \in SUBSET A : B # A => B \in F
      PROVE  A \in F
  <2> SUFFICES ASSUME NEW a \in A PROVE g[A] = f[a] + g[A \ {a}]
    OBVIOUS
  <2> DEFINE p == Pick(A)
  <2>1. p \in A
    BY PickIsMember
  <2>2. g[A] = f[p] + g[A \ {p}]
    BY DEF SumsUp
  <2> HIDE DEF p
  <2>3. CASE a = p
    BY <2>2, <2>3
  <2>4. CASE a # p
    <3>1. A \ {p} \in F /\ A \ {a} \in F
      BY <1>2, <2>1
    <3>2. g[A \ {p}] = f[a] + g[(A \ {p}) \ {a}]
      BY <2>4, <3>1
    <3>3. g[A \ {a}] = f[p] + g[(A \ {a}) \ {p}]
      BY <2>1, <2>4, <3>1
    <3>4. (A \ {p}) \ {a} = (A \ {a}) \ {p}
      OBVIOUS
    <3>5. f[a] \in Int /\ f[p] \in Int /\ g[(A \ {a}) \ {p}] \in Int
      BY <1>1, <2>1
    <3>6. g[(A \ {p}) \ {a}] = g[(A \ {a}) \ {p}]
      BY <3>4
    <3>7. QED
      BY <2>2, <3>2, <3>3, <3>5, <3>6
  <2>5. QED
    BY <2>3, <2>4
<1>3. F = SUBSET S
  <2> HIDE DEF F
  <2>1. F \in SUBSET SUBSET S
    BY DEF F
  <2>2. QED
    BY <1>2, <2>1, SubsetsUp
<1>4. QED
  BY <1>3

LEMMA SumsAgree ==
    ASSUME NEW g, NEW f, NEW S, IsFiniteSet(S), SumsUp(g, f, S),
           NEW h, NEW e, NEW T, SumsUp(h, e, T),
           S \subseteq T, \A x \in S : f[x] = e[x]
    PROVE  g[S] = h[S]
<1> DEFINE F == {A \in SUBSET S : g[A] = h[A]}
<1>1. ASSUME NEW A \in SUBSET S, \A B \in SUBSET A : B # A => B \in F
      PROVE  A \in F
  <2>1. CASE A = {}
    BY <2>1 DEF SumsUp
  <2>2. CASE A # {}
    <3>1. Pick(A) \in A
      BY <2>2, PickIsMember
    <3>2. A \ {Pick(A)} \in F
      BY <1>1, <3>1
    <3>3. g[A] = f[Pick(A)] + g[A \ {Pick(A)}]
      BY <2>2 DEF SumsUp
    <3>4. h[A] = e[Pick(A)] + h[A \ {Pick(A)}]
      BY <2>2 DEF SumsUp
    <3>5. QED
      BY <3>1, <3>2, <3>3, <3>4
  <2>3. QED
    BY <2>1, <2>2
<1>2. F = SUBSET S
  <2> HIDE DEF F
  <2>1. F \in SUBSET SUBSET S
    BY DEF F
  <2>2. QED
    BY <1>1, <2>1, SubsetsUp
<1>3. QED
  BY <1>2

-----------------------------------------------------------------------------
(* Sums                                                                    *)

LEMMA SumOfNothing == \A f : SumFunctionOnSet(f, {}) = 0
<1> TAKE f
<1>1. PICK g : SumsUp(g, f, {}) /\ SumFunctionOnSet(f, {}) = g[{}]
  BY SumIsFold, FS_EmptySet
<1>2. QED
  BY <1>1 DEF SumsUp

LEMMA SumIsInteger ==
    ASSUME NEW f, NEW S, IsFiniteSet(S), \A x \in S : f[x] \in Int
    PROVE  SumFunctionOnSet(f, S) \in Int
<1>1. PICK g : SumsUp(g, f, S) /\ SumFunctionOnSet(f, S) = g[S]
  BY SumIsFold
<1>2. QED
  BY <1>1, SumsTyped

(* Equal terms have equal sums.                                            *)
LEMMA SumOfEquals ==
    ASSUME NEW f, NEW e, NEW S, IsFiniteSet(S), \A x \in S : f[x] = e[x]
    PROVE  SumFunctionOnSet(f, S) = SumFunctionOnSet(e, S)
<1>1. PICK g : SumsUp(g, f, S) /\ SumFunctionOnSet(f, S) = g[S]
  BY SumIsFold
<1>2. PICK h : SumsUp(h, e, S) /\ SumFunctionOnSet(e, S) = h[S]
  BY SumIsFold
<1>3. QED
  BY <1>1, <1>2, SumsAgree

(* Any term can be taken out of a sum.                                     *)
LEMMA SumWithout ==
    ASSUME NEW f, NEW S, IsFiniteSet(S), \A x \in S : f[x] \in Int,
           NEW a \in S
    PROVE  SumFunctionOnSet(f, S) = f[a] + SumFunctionOnSet(f, S \ {a})
<1>1. PICK g : SumsUp(g, f, S) /\ SumFunctionOnSet(f, S) = g[S]
  BY SumIsFold
<1>2. IsFiniteSet(S \ {a})
  BY FS_RemoveElement
<1>3. PICK h : /\ SumsUp(h, f, S \ {a})
               /\ SumFunctionOnSet(f, S \ {a}) = h[S \ {a}]
  BY <1>2, SumIsFold
<1>4. h[S \ {a}] = g[S \ {a}]
  BY <1>1, <1>2, <1>3, SumsAgree
<1>5. g[S] = f[a] + g[S \ {a}]
  BY <1>1, SumsInAnyOrder
<1>6. QED
  BY <1>1, <1>3, <1>4, <1>5

(* A term more adds to the sum.                                            *)
LEMMA SumWith ==
    ASSUME NEW f, NEW S, IsFiniteSet(S), NEW a, a \notin S,
           \A x \in S \cup {a} : f[x] \in Int
    PROVE  SumFunctionOnSet(f, S \cup {a}) = f[a] + SumFunctionOnSet(f, S)
<1>1. IsFiniteSet(S \cup {a}) /\ (S \cup {a}) \ {a} = S
  BY FS_AddElement
<1>2. QED
  BY <1>1, SumWithout

(* A change of one term changes the sum as much.                           *)
LEMMA SumOfChange ==
    ASSUME NEW f, NEW e, NEW S, IsFiniteSet(S), NEW a \in S,
           \A x \in S : f[x] \in Int /\ e[x] \in Int,
           \A x \in S : x # a => e[x] = f[x]
    PROVE  SumFunctionOnSet(e, S) = SumFunctionOnSet(f, S) + e[a] - f[a]
<1>1. IsFiniteSet(S \ {a})
  BY FS_RemoveElement
<1>2. SumFunctionOnSet(e, S \ {a}) = SumFunctionOnSet(f, S \ {a})
  BY <1>1, SumOfEquals
<1>3. SumFunctionOnSet(f, S \ {a}) \in Int
  BY <1>1, SumIsInteger
<1>4. /\ SumFunctionOnSet(f, S) = f[a] + SumFunctionOnSet(f, S \ {a})
      /\ SumFunctionOnSet(e, S) = e[a] + SumFunctionOnSet(e, S \ {a})
  BY SumWithout
<1>5. QED
  BY <1>2, <1>3, <1>4

(* A sum of natural numbers is one, and no smaller than any of them.       *)
LEMMA SumIsNatural ==
    ASSUME NEW f, NEW S, IsFiniteSet(S), \A x \in S : f[x] \in Nat
    PROVE  /\ SumFunctionOnSet(f, S) \in Nat
           /\ \A a \in S : f[a] <= SumFunctionOnSet(f, S)
<1> DEFINE F == {A \in SUBSET S : SumFunctionOnSet(f, A) \in Nat}
<1>1. ASSUME NEW A \in SUBSET S, \A B \in SUBSET A : B # A => B \in F
      PROVE  A \in F
  <2>1. CASE A = {}
    BY <2>1, SumOfNothing
  <2>2. CASE A # {}
    <3>1. PICK a \in A : TRUE
      BY <2>2
    <3>2. A \ {a} \in F
      BY <1>1
    <3>3. IsFiniteSet(A)
      BY FS_Subset
    <3>4. SumFunctionOnSet(f, A) = f[a] + SumFunctionOnSet(f, A \ {a})
      BY <3>3, SumWithout
    <3>5. QED
      BY <3>2, <3>4
  <2>3. QED
    BY <2>1, <2>2
<1>2. F = SUBSET S
  <2> HIDE DEF F
  <2>1. F \in SUBSET SUBSET S
    BY DEF F
  <2>2. QED
    BY <1>1, <2>1, SubsetsUp
<1>3. \A A \in SUBSET S : SumFunctionOnSet(f, A) \in Nat
  BY <1>2
<1>4. ASSUME NEW a \in S PROVE f[a] <= SumFunctionOnSet(f, S)
  <2>1. SumFunctionOnSet(f, S) = f[a] + SumFunctionOnSet(f, S \ {a})
    BY SumWithout
  <2>2. SumFunctionOnSet(f, S \ {a}) \in Nat
    BY <1>3
  <2>3. QED
    BY <2>1, <2>2
<1>5. QED
  BY <1>3, <1>4

(* Nothing but zeros adds up to nothing.                                   *)
LEMMA SumOfZeros ==
    ASSUME NEW f, NEW S, IsFiniteSet(S), \A x \in S : f[x] = 0
    PROVE  SumFunctionOnSet(f, S) = 0
<1> DEFINE F == {A \in SUBSET S : SumFunctionOnSet(f, A) = 0}
<1>1. ASSUME NEW A \in SUBSET S, \A B \in SUBSET A : B # A => B \in F
      PROVE  A \in F
  <2>1. CASE A = {}
    BY <2>1, SumOfNothing
  <2>2. CASE A # {}
    <3>1. PICK a \in A : TRUE
      BY <2>2
    <3>2. A \ {a} \in F
      BY <1>1
    <3>3. IsFiniteSet(A)
      BY FS_Subset
    <3>4. SumFunctionOnSet(f, A) = f[a] + SumFunctionOnSet(f, A \ {a})
      BY <3>3, SumWithout
    <3>5. QED
      BY <3>2, <3>4
  <2>3. QED
    BY <2>1, <2>2
<1>2. F = SUBSET S
  <2> HIDE DEF F
  <2>1. F \in SUBSET SUBSET S
    BY DEF F
  <2>2. QED
    BY <1>1, <2>1, SubsetsUp
<1>3. QED
  BY <1>2

-----------------------------------------------------------------------------
(* Sums of the values of a function, and of the amounts of records.        *)

LEMMA SumOfUpdate ==
    ASSUME NEW S, IsFiniteSet(S), NEW f \in [S -> Int], NEW a \in S,
           NEW v \in Int
    PROVE  SumFunction([f EXCEPT ![a] = v]) = SumFunction(f) + v - f[a]
<1> DEFINE e == [f EXCEPT ![a] = v]
<1>1. /\ DOMAIN e = S /\ DOMAIN f = S /\ e[a] = v
      /\ \A x \in S : f[x] \in Int /\ e[x] \in Int
      /\ \A x \in S : x # a => e[x] = f[x]
  OBVIOUS
<1> HIDE DEF e
<1>2. SumFunctionOnSet(e, S) = SumFunctionOnSet(f, S) + e[a] - f[a]
  BY <1>1, SumOfChange
<1>3. SumFunction(e) = SumFunctionOnSet(e, S)
  BY <1>1 DEF SumFunction
<1>4. SumFunction(f) = SumFunctionOnSet(f, S)
  BY <1>1 DEF SumFunction
<1>5. QED
  BY <1>1, <1>2, <1>3, <1>4 DEF e

LEMMA SumOfNaturals ==
    ASSUME NEW S, IsFiniteSet(S), NEW f \in [S -> Nat]
    PROVE  /\ SumFunction(f) \in Nat
           /\ \A a \in S : f[a] <= SumFunction(f)
<1>1. DOMAIN f = S /\ \A x \in S : f[x] \in Nat
  OBVIOUS
<1>2. SumFunction(f) = SumFunctionOnSet(f, S)
  BY <1>1 DEF SumFunction
<1>3. QED
  BY <1>1, <1>2, SumIsNatural

LEMMA SumOfMore ==
    ASSUME NEW S, IsFiniteSet(S), NEW x, x \notin S,
           NEW f \in [S -> Int], NEW e \in [S \cup {x} -> Int],
           \A y \in S : e[y] = f[y]
    PROVE  SumFunction(e) = SumFunction(f) + e[x]
<1>1. SumFunctionOnSet(e, S \cup {x}) = e[x] + SumFunctionOnSet(e, S)
  BY SumWith
<1>2. SumFunctionOnSet(e, S) = SumFunctionOnSet(f, S)
  BY SumOfEquals
<1>3. SumFunctionOnSet(f, S) \in Int
  BY SumIsInteger
<1>4. SumFunction(e) = SumFunctionOnSet(e, S \cup {x})
  <2>1. DOMAIN e = S \cup {x}
    OBVIOUS
  <2>2. QED
    BY <2>1 DEF SumFunction
<1>5. SumFunction(f) = SumFunctionOnSet(f, S)
  <2>1. DOMAIN f = S
    OBVIOUS
  <2>2. QED
    BY <2>1 DEF SumFunction
<1>6. QED
  BY <1>1, <1>2, <1>3, <1>4, <1>5

TotalAmount(S) == SumFunction([t \in S |-> t.amount])

LEMMA NoAmounts == TotalAmount({}) = 0
<1>1. DOMAIN [t \in {} |-> t.amount] = {}
  OBVIOUS
<1>2. QED
  BY <1>1, SumOfNothing DEF TotalAmount, SumFunction

LEMMA AmountsNatural ==
    ASSUME NEW S, IsFiniteSet(S), \A t \in S : t.amount \in Nat
    PROVE  /\ TotalAmount(S) \in Nat
           /\ \A t \in S : t.amount <= TotalAmount(S)
<1> DEFINE f == [t \in S |-> t.amount]
<1>1. f \in [S -> Nat] /\ \A t \in S : f[t] = t.amount
  OBVIOUS
<1> HIDE DEF f
<1>2. SumFunction(f) \in Nat /\ \A t \in S : f[t] <= SumFunction(f)
  BY <1>1, SumOfNaturals
<1>3. QED
  BY <1>1, <1>2 DEF TotalAmount, f

LEMMA AmountsWith ==
    ASSUME NEW S, IsFiniteSet(S), NEW x, x \notin S, x.amount \in Nat,
           \A t \in S : t.amount \in Nat
    PROVE  TotalAmount(S \cup {x}) = TotalAmount(S) + x.amount
<1> DEFINE f == [t \in S |-> t.amount]
           e == [t \in S \cup {x} |-> t.amount]
<1>1. /\ f \in [S -> Int] /\ e \in [S \cup {x} -> Int]
      /\ \A y \in S : e[y] = f[y]
      /\ e[x] = x.amount
  OBVIOUS
<1>2. \A g \in [S -> Int], h \in [S \cup {x} -> Int] :
         (\A y \in S : h[y] = g[y]) =>
            SumFunction(h) = SumFunction(g) + h[x]
  BY SumOfMore
<1> HIDE DEF f, e
<1>3. SumFunction(e) = SumFunction(f) + e[x]
  BY <1>1, <1>2
<1>4. QED
  BY <1>1, <1>3 DEF TotalAmount, f, e

LEMMA AmountsWithout ==
    ASSUME NEW S, IsFiniteSet(S), NEW x \in S,
           \A t \in S : t.amount \in Nat
    PROVE  /\ IsFiniteSet(S \ {x})
           /\ TotalAmount(S) = TotalAmount(S \ {x}) + x.amount
<1>1. /\ IsFiniteSet(S \ {x}) /\ x \notin S \ {x}
      /\ (S \ {x}) \cup {x} = S
  BY FS_RemoveElement
<1>2. QED
  BY <1>1, AmountsWith

(* Fewer records have no larger amounts in total.                          *)
LEMMA AmountsOfPart ==
    ASSUME NEW S, IsFiniteSet(S), \A t \in S : t.amount \in Nat,
           NEW T \in SUBSET S
    PROVE  TotalAmount(T) <= TotalAmount(S)
<1> DEFINE R == S \ T
           F == {A \in SUBSET R : TotalAmount(T) <= TotalAmount(T \cup A)}
<1>1. ASSUME NEW A \in SUBSET R, \A B \in SUBSET A : B # A => B \in F
      PROVE  A \in F
  <2>1. IsFiniteSet(T) /\ TotalAmount(T) \in Nat
    BY FS_Subset, AmountsNatural
  <2>2. CASE A = {}
    <3>1. T \cup A = T
      BY <2>2
    <3> QED BY <2>1, <3>1
  <2>3. CASE A # {}
    <3>1. PICK a \in A : TRUE
      BY <2>3
    <3> DEFINE U == T \cup (A \ {a})
    <3>2. A \ {a} \in F
      BY <1>1
    <3>3. U \in SUBSET S /\ a \notin U /\ a \in S /\ T \cup A = U \cup {a}
      OBVIOUS
    <3>4. TotalAmount(T) <= TotalAmount(U)
      BY <3>2
    <3> HIDE DEF U, F
    <3>5. IsFiniteSet(U) /\ \A t \in U : t.amount \in Nat
      BY <3>3, FS_Subset
    <3>6. TotalAmount(U) \in Nat
      BY <3>5, AmountsNatural
    <3>7. a.amount \in Nat
      BY <3>3
    <3>8. TotalAmount(U \cup {a}) = TotalAmount(U) + a.amount
      BY <3>3, <3>5, <3>7, AmountsWith
    <3>9. TotalAmount(T \cup A) = TotalAmount(U \cup {a})
      <4>1. T \cup A = U \cup {a}
        BY <3>3
      <4> QED BY ONLY <4>1, Zenon
    <3>10. TotalAmount(T) <= TotalAmount(T \cup A)
      BY <2>1, <3>4, <3>6, <3>7, <3>8, <3>9
    <3> QED BY <3>10 DEF F
  <2> QED BY <2>2, <2>3
<1>2. IsFiniteSet(R)
  BY FS_Subset
<1>3. R \in F
  <2> HIDE DEF F, R
  <2>1. F \in SUBSET SUBSET R
    BY DEF F
  <2>2. F = SUBSET R
    BY <1>1, <1>2, <2>1, SubsetsUp
  <2> QED BY <2>2
<1>4. T \cup R = S
  OBVIOUS
<1> QED BY <1>3, <1>4

(* A record more, that may have been there, adds its amount at most.       *)
LEMMA AmountsWithAtMost ==
    ASSUME NEW S, IsFiniteSet(S), \A t \in S : t.amount \in Nat,
           NEW x, x.amount \in Nat
    PROVE  TotalAmount(S \cup {x}) <= TotalAmount(S) + x.amount
<1>1. TotalAmount(S) \in Nat
  BY AmountsNatural
<1>2. CASE x \in S
  <2>1. S \cup {x} = S
    BY <1>2
  <2>2. TotalAmount(S \cup {x}) = TotalAmount(S)
    BY ONLY <2>1, Zenon
  <2> QED BY <1>1, <2>2
<1>3. CASE x \notin S
  BY <1>1, <1>3, AmountsWith
<1> QED BY <1>2, <1>3

-----------------------------------------------------------------------------
(* Sums over intervals of numbers                                          *)

LEMMA SumIntervals ==
    ASSUME NEW k \in Int, NEW n \in Int, NEW f, \A i \in k..n : f[i] \in Nat
    PROVE  SumFunctionOnSet(f, k..n) \in Nat
BY FS_Interval, SumIsNatural

(* The first term of a sum.                                                *)
LEMMA SumFromFirst ==
    ASSUME NEW k \in Int, NEW n \in Int, k <= n,
           NEW f, \A i \in k..n : f[i] \in Nat
    PROVE  SumFunctionOnSet(f, k..n) = f[k] + SumFunctionOnSet(f, k + 1..n)
<1>1. IsFiniteSet(k..n) /\ k \in k..n /\ (k..n) \ {k} = k + 1..n
  BY FS_Interval
<1>2. SumFunctionOnSet(f, k..n) = f[k] + SumFunctionOnSet(f, (k..n) \ {k})
  BY <1>1, SumWithout
<1> QED BY <1>1, <1>2

(* A sum with one term more.                                               *)
LEMMA SumOfLonger ==
    ASSUME NEW k \in Int, NEW n \in Int, k <= n + 1,
           NEW f, NEW e, \A i \in k..n + 1 : e[i] \in Nat,
           \A i \in k..n : e[i] = f[i]
    PROVE  SumFunctionOnSet(e, k..n + 1)
               = SumFunctionOnSet(f, k..n) + e[n + 1]
<1>1. /\ IsFiniteSet(k..n) /\ n + 1 \notin k..n
      /\ \A i \in k..n : e[i] \in Nat /\ e[i] = f[i]
      /\ e[n + 1] \in Nat
  BY FS_Interval
<1>2. SumFunctionOnSet(e, k..n) = SumFunctionOnSet(f, k..n)
  BY <1>1, SumOfEquals
<1>3. SumFunctionOnSet(e, k..n) \in Nat
  BY <1>1, SumIntervals
<1> DEFINE S == k..n
           T == k..n + 1
           a == n + 1
<1>4. /\ IsFiniteSet(S) /\ a \notin S /\ S \cup {a} = T
      /\ \A x \in S \cup {a} : e[x] \in Int
  BY <1>1
<1>5. SumFunctionOnSet(e, S) \in Nat /\ e[a] \in Nat
      /\ SumFunctionOnSet(e, S) = SumFunctionOnSet(f, S)
  BY <1>1, <1>2, <1>3
<1> HIDE DEF S, T, a
<1>6. SumFunctionOnSet(e, S \cup {a}) = e[a] + SumFunctionOnSet(e, S)
  BY <1>4, SumWith
<1>7. SumFunctionOnSet(e, T) = e[a] + SumFunctionOnSet(e, S)
  <2>1. S \cup {a} = T
    BY <1>4
  <2> QED BY <1>6, <2>1, Zenon
<1>8. SumFunctionOnSet(e, T) = SumFunctionOnSet(f, S) + e[a]
  BY <1>5, <1>7
<1> QED BY <1>8 DEF S, T, a

(* A sum does not depend on where its terms are.                           *)
LEMMA SumOfShift ==
    ASSUME NEW k \in Int, NEW n \in Int, k <= n, NEW f, NEW e,
           \A i \in k..n - 1 : e[i] \in Nat /\ e[i] = f[i + 1]
    PROVE  SumFunctionOnSet(e, k..n - 1) = SumFunctionOnSet(f, k + 1..n)
<1> DEFINE Equal(l) ==
             SumFunctionOnSet(e, k..k + l - 1)
                 = SumFunctionOnSet(f, k + 1..k + l)
           Lengths == {l \in Nat : k + l <= n => Equal(l)}
<1>1. 0 \in Lengths
  <2>1. k..k + 0 - 1 = {} /\ k + 1..k + 0 = {}
    OBVIOUS
  <2> QED BY <2>1, SumOfNothing
<1>2. ASSUME NEW l \in Lengths PROVE l + 1 \in Lengths
  <2> SUFFICES ASSUME k + l + 1 <= n PROVE Equal(l + 1)
    OBVIOUS
  <2>1. Equal(l)
    OBVIOUS
  <2>2. SumFunctionOnSet(e, k..k + l)
            = SumFunctionOnSet(e, k..k + l - 1) + e[k + l]
    <3>1. /\ k + l - 1 \in Int /\ k <= (k + l - 1) + 1
          /\ (k + l - 1) + 1 = k + l
          /\ \A i \in k..k + l : e[i] \in Nat
      OBVIOUS
    <3> QED BY <3>1, SumOfLonger
  <2>3. SumFunctionOnSet(f, k + 1..k + l + 1)
            = SumFunctionOnSet(f, k + 1..k + l) + f[k + l + 1]
    <3>1. /\ k + l \in Int /\ k + 1 \in Int /\ k + 1 <= (k + l) + 1
          /\ (k + l) + 1 = k + l + 1
      OBVIOUS
    <3>2. \A i \in k + 1..(k + l) + 1 : f[i] \in Nat
      <4> SUFFICES ASSUME NEW i \in k + 1..(k + l) + 1 PROVE f[i] \in Nat
        OBVIOUS
      <4>1. i - 1 \in k..n - 1 /\ (i - 1) + 1 = i
        OBVIOUS
      <4> QED BY <4>1
    <3> QED BY <3>1, <3>2, SumOfLonger
  <2>4. e[k + l] = f[k + l + 1]
    <3>1. k + l \in k..n - 1
      OBVIOUS
    <3> QED BY <3>1
  <2>5. /\ k + (l + 1) - 1 = k + l /\ k + (l + 1) = k + l + 1
    OBVIOUS
  <2> QED BY <2>1, <2>2, <2>3, <2>4, <2>5
<1> HIDE DEF Equal
<1>3. Lengths = Nat
  <2>1. Lengths \in SUBSET Nat
    OBVIOUS
  <2> HIDE DEF Lengths
  <2> QED BY <1>1, <1>2, <2>1, CountUp
<1>4. n - k \in Lengths /\ k + (n - k) - 1 = n - 1 /\ k + (n - k) = n
  BY <1>3
<1>5. Equal(n - k)
  BY <1>4
<1> QED BY <1>4, <1>5 DEF Equal

-----------------------------------------------------------------------------
(* Division                                                                *)

LEMMA FloorIs ==
    ASSUME NEW n \in Nat, NEW d \in Nat \ {0}
    PROVE  /\ n \div d \in Nat
           /\ d * (n \div d) <= n
           /\ n < d * (n \div d) + d
OBVIOUS

LEMMA ProductGrows ==
    ASSUME NEW x \in Nat, NEW y \in Nat, NEW d \in Nat, x <= y
    PROVE  d * x \in Nat /\ d * y \in Nat /\ d * x <= d * y
<1>1. PICK z \in Nat : y = x + z
  <2>1. y - x \in Nat /\ y = x + (y - x)
    OBVIOUS
  <2> QED BY <2>1
<1>2. d * (x + z) = d * x + d * z
  OBVIOUS
<1>3. d * x \in Nat /\ d * z \in Nat
  OBVIOUS
<1> QED BY <1>1, <1>2, <1>3

LEMMA FloorGrows ==
    ASSUME NEW n \in Nat, NEW m \in Nat, NEW d \in Nat \ {0}, n <= m
    PROVE  n \div d <= m \div d
<1> DEFINE x == n \div d
           y == m \div d
<1>1. /\ x \in Nat /\ d * x <= n
      /\ y \in Nat /\ m < d * y + d
  BY FloorIs
<1> HIDE DEF x, y
<1>2. ASSUME y + 1 <= x PROVE FALSE
  <2>1. d * (y + 1) <= d * x /\ d * (y + 1) \in Nat /\ d * x \in Nat
    BY <1>1, <1>2, ProductGrows
  <2>2. d * (y + 1) = d * y + d /\ d * y \in Nat
    BY <1>1
  <2> QED BY <1>1, <2>1, <2>2
<1>3. x <= y
  BY <1>1, <1>2
<1> QED BY <1>3 DEF x, y

LEMMA FloorOfParts ==
    ASSUME NEW c \in Nat, NEW r \in Nat, NEW d \in Nat \ {0}, r < d
    PROVE  (d * c + r) \div d = c /\ (d * c + r) % d = r
<1> DEFINE n == d * c + r
           x == n \div d
<1>1. n \in Nat /\ d * c \in Nat
  OBVIOUS
<1>2. x \in Nat /\ d * x <= n /\ n < d * x + d
  BY <1>1, FloorIs
<1>3. n % d = n - d * x
  BY <1>1
<1>4. n = d * c + r
  OBVIOUS
<1> HIDE DEF n, x
<1>5. d * x \in Nat
  BY <1>2
<1>6. ~(x + 1 <= c)
  <2> SUFFICES ASSUME x + 1 <= c PROVE FALSE
    OBVIOUS
  <2>1. d * (x + 1) <= d * c /\ d * (x + 1) \in Nat
    BY <1>2, ProductGrows
  <2>2. d * (x + 1) = d * x + d
    BY <1>2
  <2> QED BY <1>1, <1>2, <1>4, <1>5, <2>1, <2>2
<1>7. ~(c + 1 <= x)
  <2> SUFFICES ASSUME c + 1 <= x PROVE FALSE
    OBVIOUS
  <2>1. d * (c + 1) <= d * x /\ d * (c + 1) \in Nat
    BY <1>2, ProductGrows
  <2>2. d * (c + 1) = d * c + d
    OBVIOUS
  <2> QED BY <1>1, <1>2, <1>4, <1>5, <2>1, <2>2
<1>8. x = c
  BY <1>2, <1>6, <1>7
<1>9. n % d = r
  BY <1>1, <1>3, <1>4, <1>8
<1> QED BY <1>8, <1>9 DEF n, x

(* What is rounded down in parts is no more than what is rounded down once.*)
LEMMA FloorAdds ==
    ASSUME NEW a \in Nat, NEW b \in Nat, NEW d \in Nat \ {0}
    PROVE  (a \div d) + (b \div d) <= (a + b) \div d
<1> DEFINE x == a \div d
           y == b \div d
           z == (a + b) \div d
<1>1. /\ x \in Nat /\ d * x <= a
      /\ y \in Nat /\ d * y <= b
  BY FloorIs
<1>2. z \in Nat /\ a + b < d * z + d
  BY FloorIs
<1> HIDE DEF x, y, z
<1>3. d * (x + y) = d * x + d * y /\ d * (z + 1) = d * z + d
  BY <1>1, <1>2
<1>4. d * (x + y) < d * (z + 1)
  <2>1. d * x \in Nat /\ d * y \in Nat /\ d * z \in Nat
    BY <1>1, <1>2
  <2> HIDE DEF x, y, z
  <2> QED BY <1>1, <1>2, <1>3, <2>1
<1>5. x + y < z + 1
  BY <1>1, <1>2, <1>4
<1> QED BY <1>1, <1>2, <1>5 DEF x, y, z

(* What is rounded down twice is what is rounded down once.                *)
LEMMA FloorOfFloor ==
    ASSUME NEW n \in Nat, NEW a \in Nat \ {0}, NEW b \in Nat \ {0}
    PROVE  /\ a * b \in Nat \ {0}
           /\ (n \div a) \div b = n \div (a * b)
<1> DEFINE x == n \div a
           y == x \div b
           r == n - a * x
           s == x - b * y
           ab == a * b
<1>1. /\ x \in Nat /\ a * x \in Nat /\ a * x <= n /\ n < a * x + a
      /\ y \in Nat /\ b * y \in Nat /\ b * y <= x /\ x < b * y + b
  <2>1. x \in Nat /\ a * x <= n /\ n < a * x + a
    BY FloorIs
  <2>2. y \in Nat /\ b * y <= x /\ x < b * y + b
    BY <2>1, FloorIs
  <2> HIDE DEF x, y
  <2> QED BY <2>1, <2>2
<1>2. /\ r \in Nat /\ r < a /\ n = a * x + r
      /\ s \in Nat /\ s + 1 <= b /\ x = b * y + s
  <2> HIDE DEF x, y
  <2> QED BY <1>1
<1>3. ab \in Nat \ {0}
  OBVIOUS
<1> HIDE DEF x, y, r, s
<1>4. /\ a * s \in Nat /\ a * (s + 1) <= a * b /\ a * (s + 1) = a * s + a
      /\ a * b \in Nat
  <2>1. a * (s + 1) <= a * b
    BY <1>2, ProductGrows
  <2> QED BY <1>2, <2>1
<1>5. a * s + r \in Nat /\ a * s + r < ab
  BY <1>2, <1>4
<1>6. a * x = ab * y + a * s
  <2>1. a * (b * y + s) = a * (b * y) + a * s
    BY <1>1, <1>2
  <2>2. a * (b * y) = (a * b) * y
    BY <1>1
  <2> QED BY <1>2, <2>1, <2>2
<1> HIDE DEF ab
<1>7. n = ab * y + (a * s + r)
  <2>1. ab * y \in Nat
    BY <1>1, <1>3
  <2> QED BY <1>1, <1>2, <1>4, <1>6, <2>1
<1>8. (ab * y + (a * s + r)) \div ab = y
  BY <1>1, <1>3, <1>5, FloorOfParts
<1> QED BY <1>3, <1>7, <1>8 DEF ab, x, y

LEMMA FloorTwice ==
    \A n \in Nat : \A a, b \in Nat \ {0} : (n \div a) \div b = n \div (a * b)
BY FloorOfFloor

(* The powers of a number are there.                                       *)
LEMMA PowersExist ==
    ASSUME NEW B \in Nat
    PROVE  \E g : g = [n \in Nat |-> IF n = 0 THEN 1 ELSE B * g[n - 1]]
<1> DEFINE Powers(g, m) ==
              g = [n \in 0..m |-> IF n = 0 THEN 1 ELSE B * g[n - 1]]
           Same(m) ==
              \A g, k : \A i, j \in Nat :
                 m <= i /\ m <= j /\ Powers(g, i) /\ Powers(k, j)
                    => g[m] = k[m]
           N == {m \in Nat : \E g : Powers(g, m)}
           M == {m \in Nat : Same(m)}
<1>1. 0 \in N
  <2> DEFINE g == [n \in 0..0 |-> 1]
  <2>1. Powers(g, 0)
    OBVIOUS
  <2> QED BY <2>1
<1>2. ASSUME NEW m \in N PROVE m + 1 \in N
  <2>1. PICK g : Powers(g, m)
    OBVIOUS
  <2> DEFINE k == [n \in 0..m + 1 |-> IF n = 0 THEN 1 ELSE B * g[n - 1]]
  <2>2. \A n \in 0..m : k[n] = g[n]
    <3> TAKE n \in 0..m
    <3>1. g[n] = IF n = 0 THEN 1 ELSE B * g[n - 1]
      BY <2>1
    <3>2. n \in 0..m + 1
      OBVIOUS
    <3> QED BY <3>1, <3>2
  <2>3. \A n \in 0..m + 1 : n # 0 => n - 1 \in 0..m
    OBVIOUS
  <2>4. k = [n \in 0..m + 1 |-> IF n = 0 THEN 1 ELSE B * k[n - 1]]
    <3> HIDE DEF Powers
    <3>1. \A n \in 0..m + 1 : n # 0 => k[n - 1] = g[n - 1]
      BY <2>2, <2>3
    <3> QED BY <3>1
  <2>5. \E x : Powers(x, m + 1)
    BY <2>4
  <2> QED BY <2>5
<1>3. 0 \in M
  OBVIOUS
<1>4. ASSUME NEW m \in M PROVE m + 1 \in M
  <2> SUFFICES ASSUME NEW g, NEW k, NEW i \in Nat, NEW j \in Nat,
                      m + 1 <= i, m + 1 <= j, Powers(g, i), Powers(k, j)
               PROVE  g[m + 1] = k[m + 1]
    OBVIOUS
  <2>1. g[m] = k[m]
    <3> HIDE DEF Powers
    <3> QED OBVIOUS
  <2>2. g[m + 1] = B * g[m] /\ k[m + 1] = B * k[m]
    OBVIOUS
  <2> QED BY <2>1, <2>2
<1>5. N = Nat /\ M = Nat
  <2>1. N \in SUBSET Nat /\ M \in SUBSET Nat
    OBVIOUS
  <2> HIDE DEF N, M
  <2> QED BY <1>1, <1>2, <1>3, <1>4, <2>1, CountUp
<1> DEFINE G(m) == CHOOSE g : Powers(g, m)
           h == [n \in Nat |-> G(n)[n]]
<1>6. \A m \in Nat : Powers(G(m), m)
  <2> TAKE m \in Nat
  <2>1. m \in N
    BY <1>5
  <2>2. \E g : Powers(g, m)
    BY <2>1
  <2> HIDE DEF Powers
  <2> QED BY <2>2
<1>7. \A n \in Nat : h[n] = IF n = 0 THEN 1 ELSE B * h[n - 1]
  <2> TAKE n \in Nat
  <2>1. h[n] = G(n)[n]
    OBVIOUS
  <2> HIDE DEF G, h
  <2>2. G(n)[n] = IF n = 0 THEN 1 ELSE B * G(n)[n - 1]
    <3>1. n \in 0..n
      OBVIOUS
    <3> QED BY <1>6, <3>1
  <2>3. n # 0 => G(n)[n - 1] = G(n - 1)[n - 1]
    <3> SUFFICES ASSUME n # 0 PROVE G(n)[n - 1] = G(n - 1)[n - 1]
      OBVIOUS
    <3>1. n - 1 \in Nat /\ n - 1 <= n /\ n - 1 <= n - 1
      OBVIOUS
    <3>2. Same(n - 1)
      BY <1>5, <3>1
    <3>3. Powers(G(n), n) /\ Powers(G(n - 1), n - 1)
      BY <1>6, <3>1
    <3> HIDE DEF Powers
    <3> QED BY <3>1, <3>2, <3>3
  <2>4. n # 0 => h[n - 1] = G(n - 1)[n - 1]
    BY DEF h
  <2> QED BY <2>1, <2>2, <2>3, <2>4
<1>8. h = [n \in Nat |-> IF n = 0 THEN 1 ELSE B * h[n - 1]]
  <2>1. h = [n \in Nat |-> h[n]]
    OBVIOUS
  <2> HIDE DEF h
  <2> QED BY <1>7, <2>1
<1> HIDE DEF h
<1> QED BY <1>8

(* A number is its quotient and its rest.                                  *)
LEMMA RestIs ==
    ASSUME NEW n \in Nat, NEW d \in Nat \ {0}
    PROVE  /\ n \div d \in Nat /\ n % d \in Nat /\ n % d < d
           /\ n = d * (n \div d) + (n % d)
<1>1. /\ n \div d \in Nat
      /\ d * (n \div d) <= n
      /\ n < d * (n \div d) + d
  BY FloorIs
<1>2. n % d = n - d * (n \div d)
  OBVIOUS
<1> DEFINE x == n \div d
           r == n % d
<1>3. x \in Nat /\ d * x <= n /\ n < d * x + d /\ r = n - d * x
  BY <1>1, <1>2
<1> HIDE DEF x, r
<1>4. d * x \in Nat
  BY <1>3
<1>5. r \in Nat /\ r < d /\ n = d * x + r
  BY <1>3, <1>4
<1> QED BY <1>3, <1>5 DEF x, r

LEMMA FloorOfMultiple ==
    ASSUME NEW n \in Nat, NEW c \in Nat, NEW d \in Nat \ {0}
    PROVE  (n + d * c) \div d = n \div d + c /\ (n + d * c) % d = n % d
<1> DEFINE x == n \div d
           r == n % d
<1>1. x \in Nat /\ r \in Nat /\ r < d /\ n = d * x + r
  BY RestIs
<1> HIDE DEF x, r
<1>2. d * (x + c) = d * x + d * c /\ d * x \in Nat /\ d * c \in Nat
  BY <1>1
<1>3. n + d * c = d * (x + c) + r /\ x + c \in Nat
  BY <1>1, <1>2
<1>4. /\ (d * (x + c) + r) \div d = x + c
      /\ (d * (x + c) + r) % d = r
  BY <1>1, <1>3, FloorOfParts
<1> QED BY <1>3, <1>4 DEF x, r

IsPower(P, B) == P[0] = 1 /\ \A n \in Nat : P[n + 1] = B * P[n]

LEMMA PowersPositive ==
    ASSUME NEW B \in Nat \ {0}, NEW P, IsPower(P, B)
    PROVE  \A n \in Nat : P[n] \in Nat \ {0}
<1> DEFINE N == {n \in Nat : P[n] \in Nat \ {0}}
<1>1. 0 \in N
  BY DEF IsPower
<1>2. ASSUME NEW n \in N PROVE n + 1 \in N
  BY DEF IsPower
<1>3. N = Nat
  <2>1. N \in SUBSET Nat
    OBVIOUS
  <2> HIDE DEF N
  <2> QED BY <1>1, <1>2, <2>1, CountUp
<1> QED BY <1>3

LEMMA PowersAdd ==
    ASSUME NEW B \in Nat \ {0}, NEW P, IsPower(P, B), NEW a \in Nat
    PROVE  \A b \in Nat : P[a + b] = P[a] * P[b]
<1> DEFINE N == {b \in Nat : P[a + b] = P[a] * P[b]}
<1>1. P[a] \in Nat \ {0}
  BY PowersPositive
<1>2. 0 \in N
  <2>1. P[a] * 1 = P[a] /\ a + 0 = a
    BY <1>1
  <2> QED BY <2>1 DEF IsPower
<1>3. ASSUME NEW b \in N PROVE b + 1 \in N
  <2> DEFINE x == P[a]
             y == P[b]
  <2>1. x \in Nat /\ y \in Nat
    BY PowersPositive
  <2>2. P[a + b] = x * y
    OBVIOUS
  <2>3. P[b + 1] = B * y /\ P[(a + b) + 1] = B * P[a + b]
    BY DEF IsPower
  <2>4. (a + b) + 1 = a + (b + 1)
    OBVIOUS
  <2> HIDE DEF x, y
  <2>5. B * (x * y) = x * (B * y)
    BY <2>1
  <2>6. P[a + (b + 1)] = x * P[b + 1]
    BY <2>2, <2>3, <2>4, <2>5
  <2> QED BY <2>6 DEF x
<1>4. N = Nat
  <2>1. N \in SUBSET Nat
    OBVIOUS
  <2> HIDE DEF N
  <2> QED BY <1>2, <1>3, <2>1, CountUp
<1> QED BY <1>4

(* Adding one to a digit that is not the last there is changes that digit  *)
(* only: nothing is carried.                                               *)
LEMMA DigitAdded ==
    ASSUME NEW B \in Nat \ {0, 1}, NEW P, IsPower(P, B), NEW n \in Nat,
           NEW i \in Nat, NEW j \in Nat, (n \div P[j]) % B < B - 1
    PROVE  ((n + P[j]) \div P[i]) % B =
               IF i = j THEN ((n \div P[j]) % B) + 1 ELSE (n \div P[i]) % B
<1>1. \A k \in Nat : P[k] \in Nat \ {0}
  BY PowersPositive
<1> DEFINE p == P[j]
           q == n \div p
           r == n % p
           h == q \div B
           d == q % B
<1>2. p \in Nat \ {0} /\ P[j + 1] = B * p
  BY <1>1 DEF IsPower
<1>3. q \in Nat /\ r \in Nat /\ r < p /\ n = p * q + r
  <2> HIDE DEF p
  <2> QED BY <1>2, RestIs
<1>4. h \in Nat /\ d \in Nat /\ d < B - 1 /\ q = B * h + d
  <2>1. d < B - 1
    OBVIOUS
  <2>2. h \in Nat /\ d \in Nat /\ q = B * h + d
    <3> HIDE DEF p, q
    <3> QED BY <1>3, RestIs
  <2> QED BY <2>1, <2>2
<1>5. CASE i = j
  <2>1. (n + p) \div p = q + 1
    <3> HIDE DEF p
    <3>1. (n + p * 1) \div p = n \div p + 1
      BY <1>2, FloorOfMultiple
    <3>2. p * 1 = p
      BY <1>2
    <3> QED BY <3>1, <3>2
  <2>2. (q + 1) % B = d + 1
    <3> HIDE DEF h, d, q
    <3>1. q + 1 = B * h + (d + 1) /\ d + 1 \in Nat /\ d + 1 < B
      BY <1>3, <1>4
    <3>2. B \in Nat \ {0}
      OBVIOUS
    <3>3. /\ (B * h + (d + 1)) \div B = h
          /\ (B * h + (d + 1)) % B = d + 1
      BY <1>4, <3>1, <3>2, FloorOfParts
    <3> QED BY <3>1, <3>3
  <2> QED BY <1>5, <2>1, <2>2
<1>6. CASE i < j
  <2> DEFINE x == P[i]
             c == P[j - i - 1]
             m == n \div x
  <2>1. x \in Nat \ {0} /\ c \in Nat /\ m \in Nat
    <3>1. x \in Nat \ {0} /\ c \in Nat
      BY <1>1, <1>6
    <3> QED BY <3>1, FloorIs
  <2>2. p = x * (B * c)
    <3>1. j - i - 1 \in Nat /\ i + 1 \in Nat /\ (i + 1) + (j - i - 1) = j
      BY <1>6
    <3>2. P[(i + 1) + (j - i - 1)] = P[i + 1] * c
      BY <3>1, PowersAdd
    <3>3. P[i + 1] = B * x
      BY DEF IsPower
    <3>4. p = (B * x) * c
      BY <3>1, <3>2, <3>3
    <3> HIDE DEF p, x, c
    <3> QED BY <2>1, <3>4
  <2> HIDE DEF x, c, p
  <2>3. B * c \in Nat
    BY <2>1
  <2>4. (n + x * (B * c)) \div x = m + B * c
    BY <2>1, <2>3, FloorOfMultiple
  <2> HIDE DEF m
  <2>5. (m + B * c) % B = m % B
    <3>1. B \in Nat \ {0}
      OBVIOUS
    <3>2. /\ (m + B * c) \div B = m \div B + c
          /\ (m + B * c) % B = m % B
      BY <2>1, <3>1, FloorOfMultiple
    <3> QED BY <3>2
  <2>6. ((n + p) \div x) % B = m % B
    BY <2>2, <2>4, <2>5
  <2> QED BY <1>6, <2>6 DEF m, x, p
<1>7. CASE j < i
  <2> DEFINE b == B * p
             c == P[i - j - 1]
  <2>1. b \in Nat \ {0} /\ c \in Nat \ {0} /\ P[i] = b * c
    <3>1. i - j - 1 \in Nat /\ j + 1 \in Nat /\ (j + 1) + (i - j - 1) = i
      BY <1>7
    <3>2. P[(j + 1) + (i - j - 1)] = P[j + 1] * c
      BY <3>1, PowersAdd
    <3>3. c \in Nat \ {0}
      BY <1>1, <3>1
    <3>4. b \in Nat \ {0}
      <4> HIDE DEF p
      <4> QED BY <1>2
    <3>5. P[i] = b * c
      BY <1>2, <3>1, <3>2
    <3> QED BY <3>3, <3>4, <3>5
  <2> DEFINE s == p * d + r
             t == p * (d + 1) + r
  <2> HIDE DEF p, q, r, h, d, b, c
  <2>2. /\ s \in Nat /\ t \in Nat /\ s < b /\ t < b
        /\ n = b * h + s /\ n + p = b * h + t
    <3>1. /\ p * d \in Nat /\ p * (d + 1) = p * d + p
          /\ p * (d + 2) = p * d + p + p
      BY <1>2, <1>4
    <3>2. p * (d + 2) <= p * B /\ p * B = b
      <4>1. d + 2 <= B /\ d + 2 \in Nat
        BY <1>4
      <4>2. p * (d + 2) <= p * B
        BY <4>1, <1>2, ProductGrows
      <4>3. p * B = b
        BY <1>2 DEF b
      <4> QED BY <4>2, <4>3
    <3>3. p * q = b * h + p * d
      <4>1. p * (B * h + d) = p * (B * h) + p * d
        BY <1>2, <1>4
      <4>2. p * (B * h) = (B * p) * h
        BY <1>2, <1>4
      <4> QED BY <1>4, <4>1, <4>2 DEF b
    <3>4. b * h \in Nat /\ b \in Nat
      BY <1>4, <2>1
    <3>5. s \in Nat /\ t \in Nat /\ t = s + p
      BY <1>2, <1>3, <3>1
    <3>6. t < b /\ s < b
      BY <1>2, <1>3, <3>1, <3>2, <3>4, <3>5
    <3>7. n = b * h + s
      BY <1>3, <3>1, <3>3, <3>4, <3>5
    <3>8. n + p = b * h + t
      BY <1>2, <3>4, <3>5, <3>7
    <3> QED BY <3>5, <3>6, <3>7, <3>8
  <2> HIDE DEF s, t
  <2>3. n \div b = h /\ (n + p) \div b = h
    <3>1. (b * h + s) \div b = h
      BY <1>4, <2>1, <2>2, FloorOfParts
    <3>2. (b * h + t) \div b = h
      BY <1>4, <2>1, <2>2, FloorOfParts
    <3> QED BY <2>2, <3>1, <3>2
  <2>4. n \div (b * c) = h \div c /\ (n + p) \div (b * c) = h \div c
    <3>1. n + p \in Nat /\ n \in Nat
      BY <1>2
    <3>2. (n \div b) \div c = n \div (b * c)
      BY <2>1, <3>1, FloorTwice, Zenon
    <3>3. ((n + p) \div b) \div c = (n + p) \div (b * c)
      BY <2>1, <3>1, FloorTwice, Zenon
    <3> QED BY <2>3, <3>2, <3>3
  <2>5. (n + p) \div P[i] = n \div P[i]
    BY <2>1, <2>4
  <2> QED BY <1>7, <2>5 DEF p
<1> QED BY <1>5, <1>6, <1>7

=============================================================================
