----------------------------- MODULE DataLemmas -----------------------------
(***************************************************************************)
(* What the proofs of the components need of numbers, finite sets and      *)
(* sums.  The library's induction theorems are stated for an operator that *)
(* stands for the property; here the property is a set, so that a proof    *)
(* can cite them.                                                          *)
(***************************************************************************)
EXTENDS Integers, Functions, FiniteSetsExt, FiniteSetTheorems,
        WellFoundedInduction, TLAPS

-----------------------------------------------------------------------------
(* Induction *)

(* A set of naturals that is not empty has a least element.                 *)
THEOREM LeastNat ==
    ASSUME NEW T \in SUBSET Nat, T # {}
    PROVE  \E x \in T : \A y \in T : x <= y
<1> DEFINE R == {ss \in Nat \X Nat : ss[1] < ss[2]}
<1>1. IsWellFoundedOn(R, Nat)
  <2>1. OpToRel(<, Nat) = R
    BY Zenon DEF OpToRel
  <2> QED
    BY <2>1, NatLessThanWellFounded, Zenon
<1>2. \A x, y \in Nat : <<y, x>> \in R <=> y < x
  OBVIOUS
<1> HIDE DEF R
<1>3. PICK x \in T : \A y \in T : ~ (<<y, x>> \in R)
  BY <1>1, WFMin
<1>4. ASSUME NEW y \in T PROVE x <= y
  <2>1. x \in Nat /\ y \in Nat
    OBVIOUS
  <2>2. ~(y < x)
    BY <1>2, <1>3, <2>1
  <2> QED
    BY <2>1, <2>2
<1> QED
  BY <1>4

(* Induction over the naturals.                                             *)
THEOREM NatSetInduction ==
    ASSUME NEW S, 0 \in S, \A n \in Nat : n \in S => n + 1 \in S
    PROVE  Nat \subseteq S
<1> SUFFICES ASSUME NEW m \in Nat, m \notin S PROVE FALSE
  OBVIOUS
<1> DEFINE T == {n \in Nat : n \notin S}
<1>1. PICK x \in T : \A y \in T : x <= y
  <2>1. T \in SUBSET Nat /\ T # {}
    OBVIOUS
  <2> HIDE DEF T
  <2> QED
    BY <2>1, LeastNat
<1>2. x \in Nat /\ x # 0
  OBVIOUS
<1>3. x - 1 \in Nat /\ x - 1 \notin T
  <2>1. x - 1 \in Nat
    BY <1>2
  <2>2. ~(x <= x - 1)
    BY <1>2
  <2> QED
    BY <2>1, <2>2, <1>1
<1>4. (x - 1) + 1 \in S
  BY <1>3
<1> QED
  BY <1>2, <1>4

(* Induction over the subsets of a finite set.                              *)
THEOREM SubsetInduction ==
    ASSUME NEW S, IsFiniteSet(S), NEW P, {} \in P,
           \A s \in SUBSET S : \A x \in S \ s : s \in P => s \cup {x} \in P
    PROVE  SUBSET S \subseteq P
<1> DEFINE N == {n \in Nat : \A s \in SUBSET S : Cardinality(s) = n => s \in P}
<1>1. 0 \in N
  <2> SUFFICES ASSUME NEW s \in SUBSET S, Cardinality(s) = 0 PROVE s \in P
    OBVIOUS
  <2>1. IsFiniteSet(s)
    BY FS_Subset
  <2>2. s = {}
    BY <2>1, FS_EmptySet
  <2> QED
    BY <2>2
<1>2. ASSUME NEW n \in Nat, n \in N PROVE n + 1 \in N
  <2> SUFFICES ASSUME NEW s \in SUBSET S, Cardinality(s) = n + 1 PROVE s \in P
    OBVIOUS
  <2>1. IsFiniteSet(s)
    BY FS_Subset
  <2>2. s # {}
    <3>1. n + 1 # 0
      OBVIOUS
    <3> QED
      BY <3>1, FS_EmptySet, Zenon
  <2>3. PICK x \in s : TRUE
    BY <2>2
  <2>4. Cardinality(s \ {x}) = n
    <3>1. Cardinality(s \ {x}) = (n + 1) - 1
      BY <2>1, <2>3, FS_RemoveElement, Zenon
    <3> QED
      BY <3>1
  <2>5. s \ {x} \in P
    BY <1>2, <2>4
  <2>6. (s \ {x}) \cup {x} = s
    OBVIOUS
  <2>7. s \ {x} \in SUBSET S /\ x \in S \ (s \ {x})
    OBVIOUS
  <2> QED
    BY <2>5, <2>6, <2>7
<1> HIDE DEF N
<1>3. Nat \subseteq N
  BY <1>1, <1>2, NatSetInduction
<1> SUFFICES ASSUME NEW s \in SUBSET S PROVE s \in P
  OBVIOUS
<1>4. IsFiniteSet(s)
  BY FS_Subset
<1>5. Cardinality(s) \in Nat
  BY <1>4, FS_CardinalityType
<1>6. Cardinality(s) \in N
  BY <1>3, <1>5
<1> QED
  BY <1>6 DEF N

-----------------------------------------------------------------------------
(* Sums *)

(* g maps every subset of S to the sum of f over it: taking out any element *)
(* takes out its share.                                                     *)
IsSum(g, f, S) ==
    /\ g \in [SUBSET S -> Int]
    /\ g[{}] = 0
    /\ \A s \in SUBSET S : \A x \in s : g[s] = f[x] + g[s \ {x}]

(* f is an integer everywhere on S. *)
IntOn(f, S) == \A x \in S : f[x] \in Int

(* The element the library's fold takes out of a set. *)
Chosen(s) == CHOOSE x \in s : TRUE

(* The recursion of the library's fold.                                     *)
ChosenSum(g, f, S) ==
    \A s \in SUBSET S :
        g[s] = IF s = {} THEN 0 ELSE f[Chosen(s)] + g[s \ {Chosen(s)}]

(* The library's choice from a set that is not empty is one of its          *)
(* elements.                                                                *)
LEMMA ChosenIn ==
    ASSUME NEW s, s # {}
    PROVE  Chosen(s) \in s
BY DEF Chosen

(* There is a function that adds up f over the subsets of S if the elements *)
(* of a set are taken out in the order of a choice function.                *)
LEMMA ChosenSumExists ==
    ASSUME NEW S, IsFiniteSet(S), NEW f, IntOn(f, S)
    PROVE  \E g \in [SUBSET S -> Int] : ChosenSum(g, f, S)
<1> DEFINE Upto(n) == {s \in SUBSET S : Cardinality(s) <= n}
           Eq(g, n) == \A s \in Upto(n) :
                          g[s] = IF s = {} THEN 0 ELSE f[Chosen(s)] + g[s \ {Chosen(s)}]
           N == {n \in Nat : \E g \in [SUBSET S -> Int] : Eq(g, n)}
<1>c. \A s \in SUBSET S : IsFiniteSet(s) /\ Cardinality(s) \in Nat
  <2> SUFFICES ASSUME NEW s \in SUBSET S
               PROVE  IsFiniteSet(s) /\ Cardinality(s) \in Nat
    OBVIOUS
  <2>1. IsFiniteSet(s)
    BY FS_Subset
  <2> QED
    BY <2>1, FS_CardinalityType
<1>r. \A s \in SUBSET S : s # {} =>
         s \ {Chosen(s)} \in SUBSET S /\ Cardinality(s \ {Chosen(s)}) = Cardinality(s) - 1
  <2> SUFFICES ASSUME NEW s \in SUBSET S, s # {}
               PROVE  s \ {Chosen(s)} \in SUBSET S
                        /\ Cardinality(s \ {Chosen(s)}) = Cardinality(s) - 1
    OBVIOUS
  <2>1. Chosen(s) \in s /\ IsFiniteSet(s)
    BY <1>c, ChosenIn
  <2> QED
    BY <2>1, FS_RemoveElement
<1>1. 0 \in N
  <2> DEFINE g == [s \in SUBSET S |-> 0]
  <2>1. \A s \in Upto(0) : s = {}
    <3> SUFFICES ASSUME NEW s \in SUBSET S, Cardinality(s) <= 0 PROVE s = {}
      OBVIOUS
    <3>1. Cardinality(s) = 0
      BY <1>c
    <3> QED
      BY <1>c, <3>1, FS_EmptySet
  <2>2. g \in [SUBSET S -> Int] /\ g[{}] = 0
    OBVIOUS
  <2>3. Eq(g, 0)
    BY <2>1, <2>2
  <2> QED
    BY <2>2, <2>3
<1>2. ASSUME NEW n \in Nat, n \in N PROVE n + 1 \in N
  <2>1. PICK h \in [SUBSET S -> Int] : Eq(h, n)
    BY <1>2
  <2> DEFINE g == [s \in SUBSET S |->
                      IF s = {} THEN 0
                      ELSE IF Cardinality(s) <= n + 1
                      THEN f[Chosen(s)] + h[s \ {Chosen(s)}] ELSE 0]
  <2>2. g \in [SUBSET S -> Int]
    <3> SUFFICES ASSUME NEW s \in SUBSET S, s # {}
                 PROVE  f[Chosen(s)] + h[s \ {Chosen(s)}] \in Int
      OBVIOUS
    <3>1. f[Chosen(s)] \in Int /\ h[s \ {Chosen(s)}] \in Int
      BY <1>r, ChosenIn DEF IntOn
    <3> QED
      BY <3>1
  <2>3. \A s \in Upto(n) : g[s] = h[s]
    <3> SUFFICES ASSUME NEW s \in SUBSET S, Cardinality(s) <= n
                 PROVE  g[s] = h[s]
      OBVIOUS
    <3>1. Cardinality(s) <= n + 1
      BY <1>c
    <3>2. h[s] = IF s = {} THEN 0 ELSE f[Chosen(s)] + h[s \ {Chosen(s)}]
      BY <2>1
    <3> QED
      BY <3>1, <3>2
  <2>4. Eq(g, n + 1)
    <3> SUFFICES ASSUME NEW s \in SUBSET S, Cardinality(s) <= n + 1, s # {}
                 PROVE  g[s] = f[Chosen(s)] + g[s \ {Chosen(s)}]
      OBVIOUS
    <3>1. s \ {Chosen(s)} \in Upto(n)
      BY <1>c, <1>r
    <3>2. g[s \ {Chosen(s)}] = h[s \ {Chosen(s)}]
      BY <2>3, <3>1
    <3> QED
      BY <3>2
  <2> HIDE DEF g, Eq
  <2> QED
    BY <2>2, <2>4
<1> HIDE DEF N
<1>3. Nat \subseteq N
  BY <1>1, <1>2, NatSetInduction
<1>4. Cardinality(S) \in N
  BY <1>3, <1>c
<1>5. PICK g \in [SUBSET S -> Int] : Eq(g, Cardinality(S))
  BY <1>4 DEF N
<1>6. \A s \in SUBSET S : s \in Upto(Cardinality(S))
  BY FS_Subset
<1> QED
  BY <1>5, <1>6 DEF ChosenSum

(* Whatever satisfies the equations of such a function adds up to integers. *)
LEMMA ChosenSumTyped ==
    ASSUME NEW S, IsFiniteSet(S), NEW f, IntOn(f, S),
           NEW g, ChosenSum(g, f, S)
    PROVE  \A s \in SUBSET S : g[s] \in Int
<1> DEFINE P == {s \in SUBSET S : g[s] \in Int}
           N == {n \in Nat : \A s \in SUBSET S : Cardinality(s) = n => s \in P}
<1>c. \A s \in SUBSET S : IsFiniteSet(s) /\ Cardinality(s) \in Nat
  <2> SUFFICES ASSUME NEW s \in SUBSET S
               PROVE  IsFiniteSet(s) /\ Cardinality(s) \in Nat
    OBVIOUS
  <2>1. IsFiniteSet(s)
    BY FS_Subset
  <2> QED
    BY <2>1, FS_CardinalityType
<1>1. 0 \in N
  <2> SUFFICES ASSUME NEW s \in SUBSET S, Cardinality(s) = 0 PROVE s \in P
    OBVIOUS
  <2>1. s = {}
    BY <1>c, FS_EmptySet
  <2>2. {} \in SUBSET S /\ g[{}] = 0
    BY DEF ChosenSum
  <2> QED
    BY <2>1, <2>2
<1>2. ASSUME NEW n \in Nat, n \in N PROVE n + 1 \in N
  <2> SUFFICES ASSUME NEW s \in SUBSET S, Cardinality(s) = n + 1
               PROVE  g[s] \in Int
    OBVIOUS
  <2>1. CASE s = {}
    BY <2>1 DEF ChosenSum
  <2>2. CASE s # {}
    <3> DEFINE z == Chosen(s)
    <3>1. z \in s /\ g[s] = f[z] + g[s \ {z}]
      BY <2>2, ChosenIn DEF ChosenSum
    <3> HIDE DEF z
    <3>2. s \ {z} \in SUBSET S /\ Cardinality(s \ {z}) = (n + 1) - 1
      BY <1>c, <3>1, FS_RemoveElement
    <3>3. (n + 1) - 1 = n
      OBVIOUS
    <3>4. s \ {z} \in P
      BY <1>2, <3>2, <3>3
    <3>5. f[z] \in Int
      BY <3>1 DEF IntOn
    <3> QED
      BY <3>1, <3>4, <3>5
  <2> QED
    BY <2>1, <2>2
<1> HIDE DEF N
<1>3. Nat \subseteq N
  BY <1>1, <1>2, NatSetInduction
<1>4. \A s \in SUBSET S : Cardinality(s) \in N
  BY <1>3, <1>c
<1> QED
  BY <1>4 DEF N

(* Such a function does not depend on the choice.                           *)
LEMMA ChosenSumIsSum ==
    ASSUME NEW S, IsFiniteSet(S), NEW f, IntOn(f, S),
           NEW g \in [SUBSET S -> Int], ChosenSum(g, f, S)
    PROVE  IsSum(g, f, S)
<1> DEFINE P == {s \in SUBSET S : \A x \in s : g[s] = f[x] + g[s \ {x}]}
           N == {n \in Nat : \A s \in SUBSET S : Cardinality(s) = n => s \in P}
<1>c. \A s \in SUBSET S : IsFiniteSet(s) /\ Cardinality(s) \in Nat
  <2> SUFFICES ASSUME NEW s \in SUBSET S
               PROVE  IsFiniteSet(s) /\ Cardinality(s) \in Nat
    OBVIOUS
  <2>1. IsFiniteSet(s)
    BY FS_Subset
  <2> QED
    BY <2>1, FS_CardinalityType
<1>r. ASSUME NEW s \in SUBSET S, NEW x \in s
      PROVE  s \ {x} \in SUBSET S /\ Cardinality(s \ {x}) = Cardinality(s) - 1
  BY <1>c, FS_RemoveElement
<1>1. 0 \in N
  <2> SUFFICES ASSUME NEW s \in SUBSET S, Cardinality(s) = 0 PROVE s \in P
    OBVIOUS
  <2>1. s = {}
    BY <1>c, FS_EmptySet
  <2> QED
    BY <2>1
<1>2. ASSUME NEW n \in Nat, n \in N PROVE n + 1 \in N
  <2> SUFFICES ASSUME NEW s \in SUBSET S, Cardinality(s) = n + 1, NEW x \in s
               PROVE  g[s] = f[x] + g[s \ {x}]
    OBVIOUS
  <2> DEFINE z == Chosen(s)
  <2>1. z \in s /\ g[s] = f[z] + g[s \ {z}]
    BY ChosenIn DEF ChosenSum
  <2>2. CASE x = z
    BY <2>1, <2>2
  <2>3. CASE x # z
    <3>1. /\ s \ {x} \in P /\ z \in s \ {x}
          /\ s \ {z} \in P /\ x \in s \ {z}
      <4>1. /\ s \ {x} \in SUBSET S /\ Cardinality(s \ {x}) = n
            /\ s \ {z} \in SUBSET S /\ Cardinality(s \ {z}) = n
        <5> HIDE DEF z
        <5>1. /\ s \ {x} \in SUBSET S /\ Cardinality(s \ {x}) = Cardinality(s) - 1
              /\ s \ {z} \in SUBSET S /\ Cardinality(s \ {z}) = Cardinality(s) - 1
          BY <1>r, <2>1
        <5>2. (n + 1) - 1 = n
          OBVIOUS
        <5> QED
          BY <5>1, <5>2
      <4> QED
        BY <1>2, <2>1, <2>3, <4>1
    <3> DEFINE both == (s \ {x}) \ {z}
    <3>2. both = (s \ {z}) \ {x} /\ both \in SUBSET S
      OBVIOUS
    <3>3. g[s \ {z}] = f[x] + g[both]
      BY <3>1, <3>2
    <3>4. g[s \ {x}] = f[z] + g[both]
      BY <3>1, <3>2
    <3>5. f[x] \in Int /\ f[z] \in Int /\ g[both] \in Int
      BY <2>1, <3>2 DEF IntOn
    <3> HIDE DEF z, both
    <3> QED
      BY <2>1, <3>3, <3>4, <3>5
  <2> QED
    BY <2>2, <2>3
<1> HIDE DEF N
<1>3. Nat \subseteq N
  BY <1>1, <1>2, NatSetInduction
<1>4. \A s \in SUBSET S : Cardinality(s) \in N
  BY <1>3, <1>c
<1>5. \A s \in SUBSET S : s \in P
  BY <1>4 DEF N
<1>6. g[{}] = 0
  BY DEF ChosenSum
<1> QED
  BY <1>5, <1>6 DEF IsSum

(* What the library's fold computes is such a sum.                          *)
THEOREM SumIsSum ==
    ASSUME NEW S, IsFiniteSet(S), NEW f, IntOn(f, S)
    PROVE  \E g : IsSum(g, f, S) /\ SumFunctionOnSet(f, S) = g[S]
<1> DEFINE Def(g) == g = [s \in SUBSET S |->
                            IF s = {} THEN 0
                            ELSE f[CHOOSE x \in s : TRUE]
                                   + g[s \ {CHOOSE x \in s : TRUE}]]
           iter == CHOOSE g : Def(g)
<1>1. \E g : Def(g)
  <2>1. PICK g \in [SUBSET S -> Int] : ChosenSum(g, f, S)
    BY ChosenSumExists
  <2>2. g = [s \in SUBSET S |-> g[s]]
    OBVIOUS
  <2>3. Def(g)
    BY <2>1, <2>2 DEF ChosenSum, Chosen
  <2> QED
    BY <2>3
<1>2. Def(iter)
  <2> HIDE DEF Def
  <2> QED
    BY <1>1
<1>3. SumFunctionOnSet(f, S) = iter[S]
  BY DEF SumFunctionOnSet, FoldFunctionOnSet, MapThenFoldSet
<1> HIDE DEF iter
<1>4. ChosenSum(iter, f, S)
  BY <1>2 DEF ChosenSum, Chosen
<1>5. \A s \in SUBSET S : iter[s] \in Int
  BY <1>4, ChosenSumTyped
<1>6. iter \in [SUBSET S -> Int]
  BY <1>2, <1>5
<1>7. IsSum(iter, f, S)
  BY <1>4, <1>6, ChosenSumIsSum
<1> QED
  BY <1>3, <1>7

(* Two such functions of the same summands agree.                           *)
LEMMA SumsAgree ==
    ASSUME NEW S, IsFiniteSet(S), NEW T \in SUBSET S, NEW f, NEW h,
           \A x \in T : f[x] = h[x],
           NEW g, IsSum(g, f, S), NEW k, IsSum(k, h, T)
    PROVE  g[T] = k[T]
<1> DEFINE P == {s \in SUBSET T : g[s] = k[s]}
<1>1. IsFiniteSet(T)
  BY FS_Subset
<1>2. {} \in P
  BY DEF IsSum
<1>3. ASSUME NEW s \in SUBSET T, NEW x \in T \ s, s \in P
      PROVE  s \cup {x} \in P
  <2> DEFINE u == s \cup {x}
  <2>1. u \in SUBSET T /\ u \in SUBSET S /\ x \in u /\ u \ {x} = s
    OBVIOUS
  <2>2. g[u] = f[x] + g[u \ {x}] /\ k[u] = h[x] + k[u \ {x}]
    BY <2>1 DEF IsSum
  <2>3. f[x] = h[x] /\ g[s] = k[s]
    BY <1>3
  <2> HIDE DEF u
  <2>4. g[u] = k[u]
    BY <2>1, <2>2, <2>3
  <2>5. u \in P
    BY <2>1, <2>4
  <2> QED
    BY <2>5 DEF u
<1> HIDE DEF P
<1>4. SUBSET T \subseteq P
  BY <1>1, <1>2, <1>3, SubsetInduction
<1> QED
  BY <1>4 DEF P

(* The sum over no elements.                                                *)
THEOREM SumEmpty ==
    ASSUME NEW f
    PROVE  SumFunctionOnSet(f, {}) = 0
<1>1. IsFiniteSet({}) /\ IntOn(f, {})
  BY FS_EmptySet DEF IntOn
<1>2. PICK g : IsSum(g, f, {}) /\ SumFunctionOnSet(f, {}) = g[{}]
  BY <1>1, SumIsSum
<1> QED
  BY <1>2 DEF IsSum

(* Any element may be taken out of a sum.                                   *)
THEOREM SumRemove ==
    ASSUME NEW S, IsFiniteSet(S), NEW f, IntOn(f, S), NEW x \in S
    PROVE  SumFunctionOnSet(f, S) = f[x] + SumFunctionOnSet(f, S \ {x})
<1> DEFINE T == S \ {x}
<1>1. IsFiniteSet(T) /\ IntOn(f, T) /\ T \in SUBSET S
  BY FS_RemoveElement DEF IntOn
<1>2. PICK g : IsSum(g, f, S) /\ SumFunctionOnSet(f, S) = g[S]
  BY SumIsSum
<1> HIDE DEF T
<1>3. PICK k : IsSum(k, f, T) /\ SumFunctionOnSet(f, T) = k[T]
  BY <1>1, SumIsSum
<1>4. g[T] = k[T]
  BY <1>1, <1>2, <1>3, SumsAgree
<1>5. g[S] = f[x] + g[S \ {x}]
  BY <1>2 DEF IsSum
<1> QED
  BY <1>2, <1>3, <1>4, <1>5 DEF T

(* A sum of integers is an integer and depends on the summands alone.       *)
THEOREM SumType ==
    ASSUME NEW S, IsFiniteSet(S), NEW f, IntOn(f, S)
    PROVE  SumFunctionOnSet(f, S) \in Int
<1>1. PICK g : IsSum(g, f, S) /\ SumFunctionOnSet(f, S) = g[S]
  BY SumIsSum
<1> QED
  BY <1>1 DEF IsSum

(* A sum depends on the summands alone.                                     *)
THEOREM SumSame ==
    ASSUME NEW S, IsFiniteSet(S), NEW f, IntOn(f, S), NEW h,
           \A x \in S : f[x] = h[x]
    PROVE  SumFunctionOnSet(f, S) = SumFunctionOnSet(h, S)
<1>1. IntOn(h, S)
  BY DEF IntOn
<1>2. PICK g : IsSum(g, f, S) /\ SumFunctionOnSet(f, S) = g[S]
  BY SumIsSum
<1>3. PICK k : IsSum(k, h, S) /\ SumFunctionOnSet(h, S) = k[S]
  BY <1>1, SumIsSum
<1>4. S \in SUBSET S
  OBVIOUS
<1>5. g[S] = k[S]
  BY <1>2, <1>3, <1>4, SumsAgree
<1> QED
  BY <1>2, <1>3, <1>5

(* One more summand.                                                        *)
THEOREM SumAdd ==
    ASSUME NEW S, IsFiniteSet(S), NEW x, x \notin S, NEW f, IntOn(f, S \cup {x})
    PROVE  SumFunctionOnSet(f, S \cup {x}) = f[x] + SumFunctionOnSet(f, S)
<1>1. IsFiniteSet(S \cup {x})
  BY FS_AddElement
<1>2. (S \cup {x}) \ {x} = S /\ x \in S \cup {x}
  OBVIOUS
<1> QED
  BY <1>1, <1>2, SumRemove

(* The sum over two disjoint sets.                                          *)
THEOREM SumDisjoint ==
    ASSUME NEW A, IsFiniteSet(A), NEW B, IsFiniteSet(B), A \cap B = {},
           NEW f, IntOn(f, A \cup B)
    PROVE  SumFunctionOnSet(f, A \cup B)
             = SumFunctionOnSet(f, A) + SumFunctionOnSet(f, B)
<1> DEFINE P == {s \in SUBSET B : SumFunctionOnSet(f, A \cup s)
                                    = SumFunctionOnSet(f, A) + SumFunctionOnSet(f, s)}
<1>1. {} \in P
  <2>1. IntOn(f, A) /\ A \cup {} = A
    BY DEF IntOn
  <2>2. SumFunctionOnSet(f, A) \in Int
    BY <2>1, SumType
  <2> QED
    BY <2>1, <2>2, SumEmpty
<1>2. ASSUME NEW s \in SUBSET B, NEW x \in B \ s, s \in P
      PROVE  s \cup {x} \in P
  <2>1. /\ IsFiniteSet(s) /\ IsFiniteSet(A \cup s)
        /\ x \notin s /\ x \notin A \cup s
    <3>1. IsFiniteSet(s)
      BY FS_Subset
    <3> QED
      BY <3>1, FS_Union
  <2>2. /\ IntOn(f, s) /\ IntOn(f, A) /\ IntOn(f, s \cup {x})
        /\ IntOn(f, (A \cup s) \cup {x}) /\ f[x] \in Int
    BY DEF IntOn
  <2>3. SumFunctionOnSet(f, s \cup {x}) = f[x] + SumFunctionOnSet(f, s)
    BY <2>1, <2>2, SumAdd
  <2>4. SumFunctionOnSet(f, A \cup (s \cup {x}))
          = f[x] + SumFunctionOnSet(f, A \cup s)
    <3>1. SumFunctionOnSet(f, (A \cup s) \cup {x})
            = f[x] + SumFunctionOnSet(f, A \cup s)
      BY <2>1, <2>2, SumAdd
    <3>2. (A \cup s) \cup {x} = A \cup (s \cup {x})
      OBVIOUS
    <3> QED
      BY <3>1, <3>2
  <2>5. SumFunctionOnSet(f, s) \in Int /\ SumFunctionOnSet(f, A) \in Int
    BY <2>1, <2>2, SumType
  <2>6. SumFunctionOnSet(f, A \cup s)
          = SumFunctionOnSet(f, A) + SumFunctionOnSet(f, s)
    BY <1>2
  <2>7. SumFunctionOnSet(f, A \cup (s \cup {x}))
          = SumFunctionOnSet(f, A) + SumFunctionOnSet(f, s \cup {x})
    BY <2>2, <2>3, <2>4, <2>5, <2>6
  <2> QED
    BY <2>7
<1> HIDE DEF P
<1>3. SUBSET B \subseteq P
  BY <1>1, <1>2, SubsetInduction
<1> QED
  BY <1>3 DEF P

(* A sum of naturals is a natural and no less than any of its summands.     *)
THEOREM SumNat ==
    ASSUME NEW S, IsFiniteSet(S), NEW f, \A x \in S : f[x] \in Nat
    PROVE  /\ SumFunctionOnSet(f, S) \in Nat
           /\ \A x \in S : f[x] <= SumFunctionOnSet(f, S)
<1> DEFINE P == {s \in SUBSET S : SumFunctionOnSet(f, s) \in Nat}
<1>1. {} \in P
  BY SumEmpty
<1>2. ASSUME NEW s \in SUBSET S, NEW x \in S \ s, s \in P
      PROVE  s \cup {x} \in P
  <2>1. IsFiniteSet(s) /\ IntOn(f, s \cup {x})
    BY FS_Subset DEF IntOn
  <2>2. SumFunctionOnSet(f, s \cup {x}) = f[x] + SumFunctionOnSet(f, s)
    BY <2>1, SumAdd
  <2>3. f[x] \in Nat /\ SumFunctionOnSet(f, s) \in Nat
    BY <1>2
  <2> QED
    BY <2>2, <2>3
<1> HIDE DEF P
<1>3. SUBSET S \subseteq P
  BY <1>1, <1>2, SubsetInduction
<1>4. \A s \in SUBSET S : SumFunctionOnSet(f, s) \in Nat
  BY <1>3 DEF P
<1>5. ASSUME NEW x \in S
      PROVE  f[x] <= SumFunctionOnSet(f, S)
  <2>1. IntOn(f, S)
    BY DEF IntOn
  <2>2. SumFunctionOnSet(f, S) = f[x] + SumFunctionOnSet(f, S \ {x})
    BY <2>1, SumRemove
  <2>3. f[x] \in Nat /\ SumFunctionOnSet(f, S \ {x}) \in Nat
    BY <1>4
  <2> QED
    BY <2>2, <2>3
<1> QED
  BY <1>4, <1>5

(* A sum does not change when its elements are renamed one to one.          *)
THEOREM SumRenamed ==
    ASSUME NEW S, IsFiniteSet(S), NEW b, NEW f, IntOn(f, S), NEW h,
           \A x, z \in S : b[x] = b[z] => x = z,
           \A x \in S : f[x] = h[b[x]]
    PROVE  SumFunctionOnSet(f, S) = SumFunctionOnSet(h, {b[x] : x \in S})
<1> DEFINE img(s) == {b[x] : x \in s}
           P == {s \in SUBSET S : /\ IsFiniteSet(img(s))
                                  /\ SumFunctionOnSet(f, s)
                                       = SumFunctionOnSet(h, img(s))}
<1>1. {} \in P
  <2>1. img({}) = {}
    OBVIOUS
  <2>2. IsFiniteSet({}) /\ SumFunctionOnSet(f, {}) = SumFunctionOnSet(h, {})
    BY FS_EmptySet, SumEmpty
  <2> QED
    BY <2>1, <2>2
<1>2. ASSUME NEW s \in SUBSET S, NEW x \in S \ s, s \in P
      PROVE  s \cup {x} \in P
  <2>1. img(s \cup {x}) = img(s) \cup {b[x]} /\ b[x] \notin img(s)
    OBVIOUS
  <2>2. /\ IsFiniteSet(s) /\ IsFiniteSet(img(s))
        /\ SumFunctionOnSet(f, s) = SumFunctionOnSet(h, img(s))
    BY <1>2, FS_Subset
  <2>3. IntOn(f, s \cup {x}) /\ IntOn(h, img(s) \cup {b[x]})
    BY DEF IntOn
  <2> HIDE DEF img
  <2>4. SumFunctionOnSet(f, s \cup {x}) = f[x] + SumFunctionOnSet(f, s)
    BY <2>2, <2>3, SumAdd
  <2>5. SumFunctionOnSet(h, img(s) \cup {b[x]})
          = h[b[x]] + SumFunctionOnSet(h, img(s))
    BY <2>1, <2>2, <2>3, SumAdd
  <2>6. IsFiniteSet(img(s \cup {x}))
    <3>1. IsFiniteSet(img(s) \cup {b[x]})
      BY <2>2, FS_AddElement
    <3> QED
      BY <2>1, <3>1
  <2>7. f[x] = h[b[x]]
    OBVIOUS
  <2>8. SumFunctionOnSet(f, s \cup {x}) = SumFunctionOnSet(h, img(s \cup {x}))
    BY <2>1, <2>2, <2>4, <2>5, <2>7
  <2> QED
    BY <2>6, <2>8
<1> HIDE DEF P
<1>3. SUBSET S \subseteq P
  BY <1>1, <1>2, SubsetInduction
<1>4. S \in P
  BY <1>3
<1> QED
  BY <1>4 DEF P

-----------------------------------------------------------------------------
(* Maxima and minima *)

(* The greatest and the least element, once they are known.                 *)
THEOREM MaxIs ==
    ASSUME NEW S \in SUBSET Int, NEW m \in S, \A x \in S : m >= x
    PROVE  Max(S) = m
<1>1. \A z \in S : (\A x \in S : z >= x) => z = m
  OBVIOUS
<1> QED
  BY <1>1 DEF Max

(* The least element, once it is known.                                     *)
THEOREM MinIs ==
    ASSUME NEW S \in SUBSET Int, NEW m \in S, \A x \in S : m <= x
    PROVE  Min(S) = m
<1>1. \A z \in S : (\A x \in S : z <= x) => z = m
  OBVIOUS
<1> QED
  BY <1>1 DEF Min

(* A finite set of integers that is not empty has both.                     *)
THEOREM MaxMinIn ==
    ASSUME NEW S \in SUBSET Int, IsFiniteSet(S), S # {}
    PROVE  /\ Max(S) \in S /\ \A x \in S : Max(S) >= x
           /\ Min(S) \in S /\ \A x \in S : Min(S) <= x
<1> DEFINE P == {s \in SUBSET S :
                    s # {} => \E m, n \in s : \A x \in s : m >= x /\ n <= x}
<1>1. {} \in P
  OBVIOUS
<1>2. ASSUME NEW s \in SUBSET S, NEW x \in S \ s, s \in P
      PROVE  s \cup {x} \in P
  <2>1. CASE s = {}
    <3>1. \A y \in s \cup {x} : x >= y /\ x <= y
      BY <2>1
    <3> QED
      BY <3>1
  <2>2. CASE s # {}
    <3>1. PICK m, n \in s : \A y \in s : m >= y /\ n <= y
      BY <1>2, <2>2
    <3> DEFINE m1 == IF m >= x THEN m ELSE x
               n1 == IF n <= x THEN n ELSE x
    <3>2. m1 \in s \cup {x} /\ n1 \in s \cup {x}
      OBVIOUS
    <3>3. \A y \in s \cup {x} : m1 >= y /\ n1 <= y
      BY <3>1
    <3> HIDE DEF m1, n1
    <3> QED
      BY <3>2, <3>3
  <2> QED
    BY <2>1, <2>2
<1> HIDE DEF P
<1>3. SUBSET S \subseteq P
  BY <1>1, <1>2, SubsetInduction
<1>4. PICK m, n \in S : \A x \in S : m >= x /\ n <= x
  BY <1>3 DEF P
<1>5. Max(S) = m /\ Min(S) = n
  BY <1>4, MaxIs, MinIs
<1> QED
  BY <1>4, <1>5

(* What a function makes of a finite set is finite.                         *)
THEOREM FiniteImage ==
    ASSUME NEW S, IsFiniteSet(S), NEW b
    PROVE  IsFiniteSet({b[x] : x \in S})
<1> DEFINE P == {s \in SUBSET S : IsFiniteSet({b[x] : x \in s})}
<1>1. {} \in P
  <2>1. {b[x] : x \in {}} = {}
    OBVIOUS
  <2> QED
    BY <2>1, FS_EmptySet
<1>2. ASSUME NEW s \in SUBSET S, NEW x \in S \ s, s \in P
      PROVE  s \cup {x} \in P
  <2> DEFINE T == {b[y] : y \in s}
  <2>1. {b[y] : y \in s \cup {x}} = T \cup {b[x]}
    OBVIOUS
  <2>2. IsFiniteSet(T)
    BY <1>2
  <2> HIDE DEF T
  <2>3. IsFiniteSet(T \cup {b[x]})
    BY <2>2, FS_AddElement
  <2> QED
    BY <2>1, <2>3
<1> HIDE DEF P
<1>3. SUBSET S \subseteq P
  BY <1>1, <1>2, SubsetInduction
<1> QED
  BY <1>3 DEF P

=============================================================================
