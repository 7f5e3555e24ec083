------------------------------ MODULE SumsProofs ------------------------------
(***************************************************************************)
(* Lemmas about data that the proofs of the components cite: the least     *)
(* number of a set, induction, the greatest number of a bounded set, and   *)
(* sums.  The library's induction theorems take a predicate; here a        *)
(* predicate is the set of numbers it is true of.                          *)
(***************************************************************************)
EXTENDS Sums, FiniteSetTheorems, WellFoundedInduction, TLAPS

-----------------------------------------------------------------------------
(* Numbers.                                                                *)

\* A set of natural numbers has a least one.
LEMMA Least ==
    ASSUME NEW T \in SUBSET Nat, T # {}
    PROVE  \E x \in T : \A y \in T : x <= y
  <1> DEFINE R == {ss \in Nat \X Nat : ss[1] < ss[2]}
  <1>1. IsWellFoundedOn(R, Nat)
    BY NatLessThanWellFounded DEF OpToRel
  <1>2. \A x, y \in Nat : y < x => <<y, x>> \in R
    OBVIOUS
  <1> HIDE DEF R
  <1>3. PICK x \in T : \A y \in T : ~ (<<y, x>> \in R)
    BY <1>1, WFMin
  <1>4. ASSUME NEW y \in T PROVE x <= y
    <2>1. x \in Nat /\ y \in Nat
      OBVIOUS
    <2>2. ~(<<y, x>> \in R)
      BY <1>3
    <2>3. ~(y < x)
      BY <1>2, <2>1, <2>2
    <2> QED BY <2>1, <2>3
  <1> QED BY <1>4

\* Induction, for the set of numbers with a property.
LEMMA Induction ==
    ASSUME NEW T \in SUBSET Nat, 0 \in T, \A n \in T : n + 1 \in T
    PROVE  T = Nat
  <1> SUFFICES ASSUME Nat \ T # {} PROVE FALSE
    OBVIOUS
  <1>1. PICK x \in Nat \ T : \A y \in Nat \ T : x <= y
    BY Least
  <1>2. x # 0 /\ x - 1 \in Nat
    BY <1>1
  <1>3. x - 1 \in T
    BY <1>1, <1>2
  <1> QED BY <1>2, <1>3

\* A set of integers between two bounds has a greatest one.
LEMMA Greatest ==
    ASSUME NEW lo \in Int, NEW hi \in Int, NEW S \in SUBSET (lo .. hi), S # {}
    PROVE  \E x \in S : \A y \in S : x >= y
  <1> DEFINE T == {hi - x : x \in S}
  <1>1. T \in SUBSET Nat /\ T # {}
    OBVIOUS
  <1>2. PICK t \in T : \A u \in T : t <= u
    <2> HIDE DEF T
    <2> QED BY <1>1, Least
  <1>3. PICK x \in S : t = hi - x
    OBVIOUS
  <1>4. \A y \in S : hi - y \in T /\ y \in Int
    OBVIOUS
  <1>5. \A y \in S : x >= y
    <2> HIDE DEF T
    <2> QED BY <1>2, <1>3, <1>4
  <1> QED BY <1>5

-----------------------------------------------------------------------------
(* Sums.                                                                   *)

IsSum(s, f, n) == s = [i \in 0 .. n |-> IF i = 0 THEN 0 ELSE s[i - 1] + f[i]]

\* The equation of a sum has a solution,
LEMMA SumExists ==
    ASSUME NEW f, NEW n \in Nat
    PROVE  \E s : IsSum(s, f, n)
  <1> DEFINE T == {k \in Nat : \E s : IsSum(s, f, k)}
  <1>1. 0 \in T
    <2> DEFINE s == [i \in 0 .. 0 |-> 0]
    <2>1. IsSum(s, f, 0)
      BY DEF IsSum
    <2> QED BY <2>1
  <1>2. ASSUME NEW k \in T PROVE k + 1 \in T
    <2>1. PICK s : IsSum(s, f, k)
      OBVIOUS
    <2> DEFINE t == [i \in 0 .. (k + 1) |-> IF i = k + 1 THEN s[k] + f[k + 1] ELSE s[i]]
    <2>2. IsSum(t, f, k + 1)
      <3>1. \A i \in 0 .. (k + 1) : t[i] = IF i = 0 THEN 0 ELSE t[i - 1] + f[i]
        BY <2>1 DEF IsSum
      <3>2. t = [i \in 0 .. (k + 1) |-> t[i]]
        OBVIOUS
      <3> HIDE DEF t
      <3> QED BY <3>1, <3>2 DEF IsSum
    <2> QED BY <2>2
  <1>3. T = Nat
    <2>1. T \subseteq Nat
      OBVIOUS
    <2> HIDE DEF T
    <2> QED BY <1>1, <1>2, <2>1, Induction
  <1> QED BY <1>3

\* which FirstSum picks,
LEMMA FirstSumIs ==
    ASSUME NEW f, NEW n \in Nat
    PROVE  \E s : IsSum(s, f, n) /\ FirstSum(f, n) = s[n]
  BY SumExists DEF IsSum, FirstSum

\* and two solutions agree as far as what they sum agrees.
LEMMA SumsAgree ==
    ASSUME NEW f, NEW g, NEW m \in Nat, NEW n \in Nat, NEW k \in Nat, k <= m, k <= n,
           NEW s, IsSum(s, f, m), NEW t, IsSum(t, g, n),
           \A i \in 1 .. k : f[i] = g[i]
    PROVE  s[k] = t[k]
  <1> DEFINE T == {i \in Nat : i <= k => s[i] = t[i]}
  <1>1. 0 \in T
    BY DEF IsSum
  <1>2. ASSUME NEW i \in T PROVE i + 1 \in T
    BY DEF IsSum
  <1>3. T = Nat
    <2>1. T \subseteq Nat
      OBVIOUS
    <2> HIDE DEF T
    <2> QED BY <1>1, <1>2, <2>1, Induction
  <1> QED BY <1>3

LEMMA FirstSumEqual ==
    ASSUME NEW f, NEW g, NEW n \in Nat, \A i \in 1 .. n : f[i] = g[i]
    PROVE  FirstSum(f, n) = FirstSum(g, n)
  <1>1. PICK s : IsSum(s, f, n) /\ FirstSum(f, n) = s[n]
    BY FirstSumIs
  <1>2. PICK t : IsSum(t, g, n) /\ FirstSum(g, n) = t[n]
    BY FirstSumIs
  <1>3. s[n] = t[n]
    BY <1>1, <1>2, SumsAgree
  <1> QED BY <1>1, <1>2, <1>3

LEMMA FirstSumEmpty == \A f : FirstSum(f, 0) = 0
  <1> TAKE f
  <1>1. PICK s : IsSum(s, f, 0) /\ FirstSum(f, 0) = s[0]
    BY FirstSumIs
  <1> QED BY <1>1 DEF IsSum

\* One more term.
LEMMA FirstSumNext ==
    ASSUME NEW f, NEW n \in Nat
    PROVE  FirstSum(f, n + 1) = FirstSum(f, n) + f[n + 1]
  <1>1. PICK s : IsSum(s, f, n) /\ FirstSum(f, n) = s[n]
    BY FirstSumIs
  <1>2. PICK t : IsSum(t, f, n + 1) /\ FirstSum(f, n + 1) = t[n + 1]
    BY FirstSumIs
  <1>3. t[n + 1] = t[n] + f[n + 1]
    BY <1>2 DEF IsSum
  <1>4. s[n] = t[n]
    BY <1>1, <1>2, SumsAgree
  <1> QED BY <1>1, <1>2, <1>3, <1>4

LEMMA FirstSumType ==
    ASSUME NEW f, NEW n \in Nat, \A i \in 1 .. n : f[i] \in Int
    PROVE  FirstSum(f, n) \in Int
  <1> DEFINE T == {k \in Nat : k <= n => FirstSum(f, k) \in Int}
  <1>1. 0 \in T
    BY FirstSumEmpty
  <1>2. ASSUME NEW k \in T PROVE k + 1 \in T
    <2>1. FirstSum(f, k + 1) = FirstSum(f, k) + f[k + 1]
      BY FirstSumNext
    <2> QED BY <2>1
  <1>3. T = Nat
    <2>1. T \subseteq Nat
      OBVIOUS
    <2> HIDE DEF T
    <2> QED BY <1>1, <1>2, <2>1, Induction
  <1> QED BY <1>3

\* A term that is changed by d changes the sum by d.
LEMMA FirstSumChange ==
    ASSUME NEW f, NEW g, NEW n \in Nat, NEW k \in 1 .. n, NEW d \in Int,
           \A i \in 1 .. n : f[i] \in Int,
           \A i \in 1 .. n : g[i] = IF i = k THEN f[i] + d ELSE f[i]
    PROVE  FirstSum(g, n) = FirstSum(f, n) + d
  <1> DEFINE T == {m \in Nat : m <= n =>
                      FirstSum(g, m) = FirstSum(f, m) + IF m < k THEN 0 ELSE d}
  <1>1. 0 \in T
    BY FirstSumEmpty
  <1>2. ASSUME NEW m \in T PROVE m + 1 \in T
    <2>1. FirstSum(g, m + 1) = FirstSum(g, m) + g[m + 1]
      BY FirstSumNext
    <2>2. FirstSum(f, m + 1) = FirstSum(f, m) + f[m + 1]
      BY FirstSumNext
    <2>3. m + 1 <= n => FirstSum(f, m) \in Int
      BY FirstSumType
    <2> QED BY <2>1, <2>2, <2>3
  <1>3. T = Nat
    <2>1. T \subseteq Nat
      OBVIOUS
    <2> HIDE DEF T
    <2> QED BY <1>1, <1>2, <2>1, Induction
  <1> QED BY <1>3

-----------------------------------------------------------------------------
(* Finite sets.  Here a predicate is the family of the sets it is true of. *)

LEMMA SetInduction ==
    ASSUME NEW S, IsFiniteSet(S), NEW F, {} \in F,
           \A A \in SUBSET S : \A x \in S \ A : A \in F => A \cup {x} \in F
    PROVE  \A A \in SUBSET S : A \in F
  <1> DEFINE T == {n \in Nat : \A A \in SUBSET S : Cardinality(A) = n => A \in F}
  <1>0. \A A \in SUBSET S : IsFiniteSet(A) /\ Cardinality(A) \in Nat
    BY FS_Subset, FS_CardinalityType
  <1>1. 0 \in T
    BY <1>0, FS_EmptySet
  <1>2. ASSUME NEW n \in T PROVE n + 1 \in T
    <2> SUFFICES ASSUME NEW A \in SUBSET S, Cardinality(A) = n + 1 PROVE A \in F
      OBVIOUS
    <2>1. n \in Nat /\ \A B \in SUBSET S : Cardinality(B) = n => B \in F
      OBVIOUS
    <2>2. PICK x \in A : TRUE
      BY <1>0, <2>1, FS_EmptySet
    <2>3. Cardinality(A \ {x}) = n
      <3>1. Cardinality(A \ {x}) = Cardinality(A) - 1
        BY <1>0, <2>2, FS_RemoveElement
      <3> QED BY <2>1, <3>1
    <2>4. A \ {x} \in F
      BY <2>1, <2>3
    <2>5. A = (A \ {x}) \cup {x} /\ x \in S \ (A \ {x})
      BY <2>2
    <2> QED BY <2>4, <2>5
  <1>3. T = Nat
    <2>1. T \in SUBSET Nat
      OBVIOUS
    <2> HIDE DEF T
    <2> QED BY <1>1, <1>2, <2>1, Induction
  <1> QED BY <1>0, <1>3

\* What SumOver computes.
IsSumOver(s, S, f) ==
    s = [T \in SUBSET S |-> IF T = {} THEN 0
                            ELSE LET x == CHOOSE x \in T : TRUE IN f[x] + s[T \ {x}]]

\* Such a function exists: it is built for the smaller sets first.
LEMMA SumOverExists ==
    ASSUME NEW S, IsFiniteSet(S), NEW f
    PROVE  \E s : IsSumOver(s, S, f)
  <1> DEFINE c(A) == CHOOSE x \in A : TRUE
             U(n) == {A \in SUBSET S : Cardinality(A) <= n}
             Good(s, n) == s = [A \in U(n) |-> IF A = {} THEN 0 ELSE f[c(A)] + s[A \ {c(A)}]]
             T == {n \in Nat : \E s : Good(s, n)}
  <1>0. \A A \in SUBSET S : IsFiniteSet(A) /\ Cardinality(A) \in Nat
    BY FS_Subset, FS_CardinalityType
  <1>1. \A A \in SUBSET S : A # {} => /\ c(A) \in A
                                      /\ A \ {c(A)} \in SUBSET S
                                      /\ Cardinality(A \ {c(A)}) = Cardinality(A) - 1
    <2> SUFFICES ASSUME NEW A \in SUBSET S, A # {}
                 PROVE  c(A) \in A /\ Cardinality(A \ {c(A)}) = Cardinality(A) - 1
      OBVIOUS
    <2>1. c(A) \in A
      OBVIOUS
    <2> HIDE DEF c
    <2> QED BY <1>0, <2>1, FS_RemoveElement
  <1> HIDE DEF c
  <1>2. 0 \in T
    <2> DEFINE s == [A \in U(0) |-> 0]
    <2>1. \A A \in U(0) : A = {}
      BY <1>0, FS_EmptySet
    <2>2. Good(s, 0)
      BY <2>1
    <2> QED BY <2>2
  <1>3. ASSUME NEW n \in T PROVE n + 1 \in T
    <2>1. PICK s : Good(s, n)
      OBVIOUS
    <2>0. n \in Nat
      OBVIOUS
    <2> DEFINE t == [A \in U(n + 1) |-> IF A = {} THEN 0 ELSE f[c(A)] + s[A \ {c(A)}]]
    <2>2. \A A \in U(n) : A \in U(n + 1) /\ t[A] = s[A]
      <3> SUFFICES ASSUME NEW A \in U(n) PROVE A \in U(n + 1) /\ t[A] = s[A]
        OBVIOUS
      <3>1. A \in U(n + 1)
        BY <1>0, <2>0
      <3>2. s[A] = IF A = {} THEN 0 ELSE f[c(A)] + s[A \ {c(A)}]
        BY <2>1
      <3> QED BY <3>1, <3>2
    <2>3. \A A \in U(n + 1) : A # {} => A \ {c(A)} \in U(n)
      BY <1>0, <1>1, <2>0
    <2>4. Good(t, n + 1)
      BY <2>2, <2>3
    <2> HIDE DEF Good, t
    <2> QED BY <2>0, <2>4
  <1>4. T = Nat
    <2>1. T \in SUBSET Nat
      OBVIOUS
    <2> HIDE DEF T
    <2> QED BY <1>2, <1>3, <2>1, Induction
  <1>5. PICK s : Good(s, Cardinality(S))
    BY <1>0, <1>4
  <1>6. U(Cardinality(S)) = SUBSET S
    BY FS_Subset
  <1> QED BY <1>5, <1>6 DEF IsSumOver, c

LEMMA SumOverIs ==
    ASSUME NEW S, IsFiniteSet(S), NEW f
    PROVE  \E s : IsSumOver(s, S, f) /\ SumOver(S, f) = s[S]
  <1> DEFINE s == CHOOSE u : IsSumOver(u, S, f)
  <1>1. IsSumOver(s, S, f)
    BY SumOverExists
  <1>2. SumOver(S, f) = s[S]
    BY DEF SumOver, IsSumOver
  <1> HIDE DEF s
  <1> QED BY <1>1, <1>2

\* Two of them agree where what they sum agrees.
LEMMA SumsOverAgree ==
    ASSUME NEW S, IsFiniteSet(S), NEW R, NEW f, NEW g,
           NEW s, IsSumOver(s, S, f), NEW t, IsSumOver(t, R, g),
           NEW A, A \subseteq S, A \subseteq R, \A x \in A : f[x] = g[x]
    PROVE  s[A] = t[A]
  <1> DEFINE c(B) == CHOOSE x \in B : TRUE
             T == {n \in Nat : \A B \in SUBSET A : Cardinality(B) = n => s[B] = t[B]}
  <1>0. \A B \in SUBSET A : IsFiniteSet(B) /\ Cardinality(B) \in Nat
    BY FS_Subset, FS_CardinalityType
  <1>1. \A B \in SUBSET A : /\ s[B] = IF B = {} THEN 0 ELSE f[c(B)] + s[B \ {c(B)}]
                            /\ t[B] = IF B = {} THEN 0 ELSE g[c(B)] + t[B \ {c(B)}]
    BY DEF IsSumOver
  <1>2. \A B \in SUBSET A : B # {} => c(B) \in B
    OBVIOUS
  <1> HIDE DEF c
  <1>3. 0 \in T
    BY <1>0, <1>1, FS_EmptySet
  <1>4. ASSUME NEW n \in T PROVE n + 1 \in T
    <2> SUFFICES ASSUME NEW B \in SUBSET A, Cardinality(B) = n + 1 PROVE s[B] = t[B]
      OBVIOUS
    <2>1. n \in Nat /\ \A C \in SUBSET A : Cardinality(C) = n => s[C] = t[C]
      OBVIOUS
    <2>2. B # {}
      BY <1>0, <2>1, FS_EmptySet
    <2>3. Cardinality(B \ {c(B)}) = n
      <3>1. Cardinality(B \ {c(B)}) = Cardinality(B) - 1
        BY <1>0, <1>2, <2>2, FS_RemoveElement
      <3> QED BY <2>1, <3>1
    <2>4. s[B \ {c(B)}] = t[B \ {c(B)}]
      BY <2>1, <2>3
    <2>5. f[c(B)] = g[c(B)]
      BY <1>2, <2>2
    <2> QED BY <1>1, <2>2, <2>4, <2>5
  <1>5. T = Nat
    <2>1. T \in SUBSET Nat
      OBVIOUS
    <2> HIDE DEF T
    <2> QED BY <1>3, <1>4, <2>1, Induction
  <1> QED BY <1>0, <1>5

LEMMA SumOverEqual ==
    ASSUME NEW S, IsFiniteSet(S), NEW f, NEW g, \A x \in S : f[x] = g[x]
    PROVE  SumOver(S, f) = SumOver(S, g)
  <1>1. PICK s : IsSumOver(s, S, f) /\ SumOver(S, f) = s[S]
    BY SumOverIs
  <1>2. PICK t : IsSumOver(t, S, g) /\ SumOver(S, g) = t[S]
    BY SumOverIs
  <1>3. PICK A : A = S
    OBVIOUS
  <1>4. A \subseteq S /\ \A x \in A : f[x] = g[x]
    BY <1>3
  <1>5. IsSumOver(s, S, f) /\ IsSumOver(t, S, g)
    BY <1>1, <1>2
  <1>6. s[A] = t[A]
    BY <1>4, <1>5, SumsOverAgree, SMT
  <1> QED BY <1>1, <1>2, <1>3, <1>6

LEMMA SumOverEmpty == \A f : SumOver({}, f) = 0
  <1> TAKE f
  <1>1. PICK s : IsSumOver(s, {}, f) /\ SumOver({}, f) = s[{}]
    BY SumOverIs, FS_EmptySet
  <1> QED BY <1>1 DEF IsSumOver

\* The element that is chosen first, and any other.
LEMMA SumOverFirst ==
    ASSUME NEW S, IsFiniteSet(S), NEW f, S # {}
    PROVE  \E x \in S : SumOver(S, f) = f[x] + SumOver(S \ {x}, f)
  <1> DEFINE x == CHOOSE x \in S : TRUE
  <1>1. PICK s : IsSumOver(s, S, f) /\ SumOver(S, f) = s[S]
    BY SumOverIs
  <1>2. s[S] = f[x] + s[S \ {x}] /\ x \in S
    BY <1>1 DEF IsSumOver
  <1> HIDE DEF x
  <1>3. IsFiniteSet(S \ {x})
    BY FS_RemoveElement
  <1>4. PICK t : IsSumOver(t, S \ {x}, f) /\ SumOver(S \ {x}, f) = t[S \ {x}]
    BY <1>3, SumOverIs
  <1>5. S \ {x} \subseteq S /\ S \ {x} \subseteq S \ {x}
    OBVIOUS
  <1>6. s[S \ {x}] = t[S \ {x}]
    BY <1>1, <1>4, <1>5, SumsOverAgree
  <1> QED BY <1>1, <1>2, <1>4, <1>6

-----------------------------------------------------------------------------
(* Sums over sets.                                                         *)

LEMMA SumOverType ==
    ASSUME NEW S, IsFiniteSet(S), NEW f, \A x \in S : f[x] \in Int
    PROVE  SumOver(S, f) \in Int
  <1> DEFINE T == {n \in Nat : \A A \in SUBSET S : Cardinality(A) = n => SumOver(A, f) \in Int}
  <1>0. \A A \in SUBSET S : IsFiniteSet(A) /\ Cardinality(A) \in Nat
    BY FS_Subset, FS_CardinalityType
  <1>1. 0 \in T
    BY <1>0, FS_EmptySet, SumOverEmpty
  <1>2. ASSUME NEW n \in T PROVE n + 1 \in T
    <2> SUFFICES ASSUME NEW A \in SUBSET S, Cardinality(A) = n + 1 PROVE SumOver(A, f) \in Int
      OBVIOUS
    <2>1. n \in Nat /\ \A B \in SUBSET S : Cardinality(B) = n => SumOver(B, f) \in Int
      OBVIOUS
    <2>2. A # {}
      BY <1>0, <2>1, FS_EmptySet
    <2>3. PICK x \in A : SumOver(A, f) = f[x] + SumOver(A \ {x}, f)
      BY <1>0, <2>2, SumOverFirst
    <2>4. Cardinality(A \ {x}) = Cardinality(A) - 1
      BY <1>0, FS_RemoveElement
    <2>5. SumOver(A \ {x}, f) \in Int
      BY <2>1, <2>4
    <2>6. f[x] \in Int
      OBVIOUS
    <2> QED BY <2>3, <2>5, <2>6
  <1>3. T = Nat
    <2>1. T \in SUBSET Nat
      OBVIOUS
    <2> HIDE DEF T
    <2> QED BY <1>1, <1>2, <2>1, Induction
  <1> QED BY <1>0, <1>3

\* The sum does not depend on the order.
LEMMA SumOverAny ==
    ASSUME NEW S, IsFiniteSet(S), NEW f, \A x \in S : f[x] \in Int
    PROVE  \A x \in S : SumOver(S, f) = f[x] + SumOver(S \ {x}, f)
  <1> DEFINE Any(A) == \A y \in A : SumOver(A, f) = f[y] + SumOver(A \ {y}, f)
             T == {n \in Nat : \A A \in SUBSET S : Cardinality(A) = n => Any(A)}
  <1>0. \A A \in SUBSET S : IsFiniteSet(A) /\ Cardinality(A) \in Nat
    BY FS_Subset, FS_CardinalityType
  <1>1. 0 \in T
    BY <1>0, FS_EmptySet
  <1>2. ASSUME NEW n \in T PROVE n + 1 \in T
    <2> SUFFICES ASSUME NEW A \in SUBSET S, Cardinality(A) = n + 1, NEW y \in A
                 PROVE  SumOver(A, f) = f[y] + SumOver(A \ {y}, f)
      OBVIOUS
    <2>1. n \in Nat /\ \A B \in SUBSET S : Cardinality(B) = n => Any(B)
      OBVIOUS
    <2>2. PICK z \in A : SumOver(A, f) = f[z] + SumOver(A \ {z}, f)
      BY <1>0, SumOverFirst
    <2>3. CASE z = y
      BY <2>2, <2>3
    <2>4. CASE z # y
      <3>1. Cardinality(A \ {z}) = Cardinality(A) - 1 /\ Cardinality(A \ {y}) = Cardinality(A) - 1
        BY <1>0, FS_RemoveElement
      <3>2. Any(A \ {z}) /\ Any(A \ {y})
        BY <2>1, <3>1
      <3>3. y \in A \ {z} /\ z \in A \ {y} /\ (A \ {z}) \ {y} = (A \ {y}) \ {z}
        BY <2>4
      <3>4. /\ SumOver(A \ {z}, f) = f[y] + SumOver((A \ {z}) \ {y}, f)
            /\ SumOver(A \ {y}, f) = f[z] + SumOver((A \ {y}) \ {z}, f)
        BY <3>2, <3>3
      <3>5. f[y] \in Int /\ f[z] \in Int
        OBVIOUS
      <3>6. SumOver((A \ {z}) \ {y}, f) \in Int
        <4>1. (A \ {z}) \ {y} \in SUBSET S
          OBVIOUS
        <4> QED BY <1>0, <4>1, SumOverType
      <3> DEFINE r == SumOver((A \ {z}) \ {y}, f)
      <3>7. /\ SumOver(A \ {z}, f) = f[y] + r /\ SumOver(A \ {y}, f) = f[z] + r
            /\ r \in Int
        BY <3>3, <3>4, <3>6
      <3> HIDE DEF Any, T, r
      <3> QED BY <2>2, <3>5, <3>7
    <2> QED BY <2>3, <2>4
  <1>3. T = Nat
    <2>1. T \in SUBSET Nat
      OBVIOUS
    <2> HIDE DEF T
    <2> QED BY <1>1, <1>2, <2>1, Induction
  <1>4. Any(S)
    BY <1>0, <1>3
  <1> QED BY <1>4

LEMMA SumOverAdd ==
    ASSUME NEW S, IsFiniteSet(S), NEW x, x \notin S, NEW f, f[x] \in Int,
           \A y \in S : f[y] \in Int
    PROVE  SumOver(S \cup {x}, f) = f[x] + SumOver(S, f)
  <1>1. IsFiniteSet(S \cup {x})
    BY FS_AddElement
  <1>2. x \in S \cup {x} /\ (S \cup {x}) \ {x} = S /\ \A y \in S \cup {x} : f[y] \in Int
    OBVIOUS
  <1> QED BY <1>1, <1>2, SumOverAny

LEMMA SumOverNat ==
    ASSUME NEW S, IsFiniteSet(S), NEW f, \A x \in S : f[x] \in Nat
    PROVE  SumOver(S, f) \in Nat
  <1> DEFINE F == {A \in SUBSET S : SumOver(A, f) \in Nat}
  <1>0. \A A \in SUBSET S : IsFiniteSet(A)
    BY FS_Subset
  <1>1. {} \in F
    BY SumOverEmpty
  <1>2. ASSUME NEW A \in SUBSET S, NEW x \in S \ A, A \in F PROVE A \cup {x} \in F
    <2>1. SumOver(A \cup {x}, f) = f[x] + SumOver(A, f)
      <3>1. f[x] \in Int /\ \A y \in A : f[y] \in Int
        OBVIOUS
      <3> QED BY <1>0, <3>1, SumOverAdd
    <2>2. SumOver(A, f) \in Nat /\ f[x] \in Nat
      BY <1>2
    <2> QED BY <2>1, <2>2
  <1> HIDE DEF F
  <1>3. S \in F
    BY <1>1, <1>2, SetInduction
  <1> QED BY <1>3 DEF F

LEMMA SumOverUnion ==
    ASSUME NEW A, IsFiniteSet(A), NEW B, IsFiniteSet(B), A \cap B = {}, NEW f,
           \A x \in A \cup B : f[x] \in Int
    PROVE  SumOver(A \cup B, f) = SumOver(A, f) + SumOver(B, f)
  <1> DEFINE F == {C \in SUBSET B : SumOver(A \cup C, f) = SumOver(A, f) + SumOver(C, f)}
  <1>0. SumOver(A, f) \in Int
    BY SumOverType
  <1>1. {} \in F
    <2>1. A \cup {} = A
      OBVIOUS
    <2> QED BY <1>0, <2>1, SumOverEmpty
  <1>2. ASSUME NEW C \in SUBSET B, NEW x \in B \ C, C \in F PROVE C \cup {x} \in F
    <2>1. IsFiniteSet(C) /\ IsFiniteSet(A \cup C)
      BY FS_Subset, FS_Union
    <2>2. /\ x \notin C /\ x \notin A \cup C /\ f[x] \in Int
          /\ \A y \in C : f[y] \in Int
          /\ \A y \in A \cup C : f[y] \in Int
      OBVIOUS
    <2>3. SumOver(C \cup {x}, f) = f[x] + SumOver(C, f)
      BY <2>1, <2>2, SumOverAdd
    <2>4. SumOver((A \cup C) \cup {x}, f) = f[x] + SumOver(A \cup C, f)
      BY <2>1, <2>2, SumOverAdd
    <2>5. (A \cup C) \cup {x} = A \cup (C \cup {x})
      OBVIOUS
    <2>6. SumOver(C, f) \in Int
      BY <2>1, <2>2, SumOverType
    <2>7. SumOver(A \cup C, f) = SumOver(A, f) + SumOver(C, f)
      BY <1>2
    <2>8. SumOver(A \cup (C \cup {x}), f) = SumOver(A, f) + SumOver(C \cup {x}, f)
      <3>1. SumOver(A \cup (C \cup {x}), f) = f[x] + SumOver(A \cup C, f)
        BY <2>4, <2>5
      <3>2. f[x] \in Int
        BY <2>2
      <3> QED BY <1>0, <2>3, <2>6, <2>7, <3>1, <3>2
    <2> QED BY <2>8
  <1> HIDE DEF F
  <1>3. B \in F
    BY <1>1, <1>2, SetInduction
  <1> QED BY <1>3 DEF F

LEMMA SumOverPlus ==
    ASSUME NEW S, IsFiniteSet(S), NEW f, NEW g, NEW h,
           \A x \in S : f[x] \in Int /\ g[x] \in Int /\ h[x] = f[x] + g[x]
    PROVE  SumOver(S, h) = SumOver(S, f) + SumOver(S, g)
  <1> DEFINE F == {A \in SUBSET S : SumOver(A, h) = SumOver(A, f) + SumOver(A, g)}
  <1>1. {} \in F
    BY SumOverEmpty
  <1>2. ASSUME NEW A \in SUBSET S, NEW x \in S \ A, A \in F PROVE A \cup {x} \in F
    <2>1. IsFiniteSet(A)
      BY FS_Subset
    <2>2. /\ f[x] \in Int /\ g[x] \in Int /\ h[x] \in Int /\ h[x] = f[x] + g[x]
          /\ \A y \in A : f[y] \in Int
          /\ \A y \in A : g[y] \in Int
          /\ \A y \in A : h[y] \in Int
      OBVIOUS
    <2>3. /\ SumOver(A \cup {x}, f) = f[x] + SumOver(A, f)
          /\ SumOver(A \cup {x}, g) = g[x] + SumOver(A, g)
          /\ SumOver(A \cup {x}, h) = h[x] + SumOver(A, h)
      BY <2>1, <2>2, SumOverAdd
    <2>4. SumOver(A, f) \in Int /\ SumOver(A, g) \in Int
      BY <2>1, <2>2, SumOverType
    <2>5. SumOver(A, h) = SumOver(A, f) + SumOver(A, g)
      BY <1>2
    <2>6. SumOver(A \cup {x}, h) = SumOver(A \cup {x}, f) + SumOver(A \cup {x}, g)
      BY <2>2, <2>3, <2>4, <2>5
    <2> QED BY <2>6
  <1> HIDE DEF F
  <1>3. S \in F
    BY <1>1, <1>2, SetInduction
  <1> QED BY <1>3 DEF F

LEMMA CardinalityIsSum ==
    ASSUME NEW S, IsFiniteSet(S), NEW f, \A x \in S : f[x] = 1
    PROVE  SumOver(S, f) = Cardinality(S)
  <1> DEFINE F == {A \in SUBSET S : SumOver(A, f) = Cardinality(A)}
  <1>1. {} \in F
    BY SumOverEmpty, FS_EmptySet
  <1>2. ASSUME NEW A \in SUBSET S, NEW x \in S \ A, A \in F PROVE A \cup {x} \in F
    <2>1. IsFiniteSet(A) /\ Cardinality(A) \in Nat
      BY FS_Subset, FS_CardinalityType
    <2>2. f[x] \in Int /\ f[x] = 1 /\ \A y \in A : f[y] \in Int
      OBVIOUS
    <2>3. SumOver(A \cup {x}, f) = f[x] + SumOver(A, f)
      BY <2>1, <2>2, SumOverAdd
    <2>4. Cardinality(A \cup {x}) = Cardinality(A) + 1
      BY <2>1, FS_AddElement
    <2>5. SumOver(A, f) = Cardinality(A)
      BY <1>2
    <2>6. SumOver(A \cup {x}, f) = Cardinality(A \cup {x})
      BY <2>1, <2>2, <2>3, <2>4, <2>5
    <2> QED BY <2>6
  <1> HIDE DEF F
  <1>3. S \in F
    BY <1>1, <1>2, SetInduction
  <1> QED BY <1>3 DEF F

\* Sums of floors of a sixtieth each.
LEMMA SumOfFloors ==
    ASSUME NEW S, IsFiniteSet(S), NEW f, NEW h,
           \A x \in S : /\ f[x] \in Int /\ h[x] \in Int
                        /\ 60 * h[x] <= f[x] /\ f[x] <= 60 * h[x] + 59
    PROVE  /\ 60 * SumOver(S, h) <= SumOver(S, f)
           /\ SumOver(S, f) <= 60 * SumOver(S, h) + 59 * Cardinality(S)
  <1> DEFINE Near(A) == /\ 60 * SumOver(A, h) <= SumOver(A, f)
                        /\ SumOver(A, f) <= 60 * SumOver(A, h) + 59 * Cardinality(A)
             F == {A \in SUBSET S : Near(A)}
  <1>1. {} \in F
    BY SumOverEmpty, FS_EmptySet
  <1>2. ASSUME NEW A \in SUBSET S, NEW x \in S \ A, A \in F PROVE A \cup {x} \in F
    <2>1. IsFiniteSet(A) /\ Cardinality(A) \in Nat
      BY FS_Subset, FS_CardinalityType
    <2>2. /\ f[x] \in Int /\ h[x] \in Int /\ 60 * h[x] <= f[x] /\ f[x] <= 60 * h[x] + 59
          /\ \A y \in A : f[y] \in Int
          /\ \A y \in A : h[y] \in Int
      OBVIOUS
    <2>3. /\ SumOver(A \cup {x}, f) = f[x] + SumOver(A, f)
          /\ SumOver(A \cup {x}, h) = h[x] + SumOver(A, h)
      BY <2>1, <2>2, SumOverAdd
    <2>4. Cardinality(A \cup {x}) = Cardinality(A) + 1
      BY <2>1, FS_AddElement
    <2>5. SumOver(A, f) \in Int /\ SumOver(A, h) \in Int
      BY <2>1, <2>2, SumOverType
    <2>6. Near(A)
      BY <1>2
    <2>7. Near(A \cup {x})
      BY <2>1, <2>2, <2>3, <2>4, <2>5, <2>6
    <2> QED BY <2>7
  <1> HIDE DEF F
  <1>3. S \in F
    BY <1>1, <1>2, SetInduction
  <1> QED BY <1>3 DEF F

\* The parts of a set, and the whole.
LEMMA SumOverParts ==
    ASSUME NEW J, IsFiniteSet(J), NEW U, IsFiniteSet(U), NEW P, NEW f, NEW g,
           \A i \in J : P[i] \subseteq U,
           \A i, j \in J : i # j => P[i] \cap P[j] = {},
           \A x \in U : f[x] \in Int,
           \A i \in J : g[i] = SumOver(P[i], f)
    PROVE  SumOver(UNION {P[i] : i \in J}, f) = SumOver(J, g)
  <1> DEFINE W(A) == UNION {P[i] : i \in A}
             F == {A \in SUBSET J : SumOver(W(A), f) = SumOver(A, g)}
  <1>0. \A i \in J : IsFiniteSet(P[i]) /\ g[i] \in Int
    BY FS_Subset, SumOverType
  <1>1. {} \in F
    <2>1. W({}) = {}
      OBVIOUS
    <2> HIDE DEF W
    <2> QED BY <2>1, SumOverEmpty
  <1>2. ASSUME NEW A \in SUBSET J, NEW x \in J \ A, A \in F PROVE A \cup {x} \in F
    <2>1. IsFiniteSet(A)
      BY FS_Subset
    <2>2. W(A) \subseteq U
      OBVIOUS
    <2>3. IsFiniteSet(W(A))
      BY <2>2, FS_Subset
    <2>4. W(A \cup {x}) = W(A) \cup P[x] /\ W(A) \cap P[x] = {}
      OBVIOUS
    <2>5. \A y \in W(A) \cup P[x] : f[y] \in Int
      BY <2>2
    <2> HIDE DEF W
    <2>6. SumOver(W(A \cup {x}), f) = SumOver(W(A), f) + SumOver(P[x], f)
      <3>1. IsFiniteSet(P[x])
        BY <1>0
      <3>2. SumOver(W(A) \cup P[x], f) = SumOver(W(A), f) + SumOver(P[x], f)
        BY <2>3, <2>4, <2>5, <3>1, SumOverUnion
      <3> QED BY <2>4, <3>2
    <2>7. SumOver(A \cup {x}, g) = g[x] + SumOver(A, g)
      BY <1>0, <2>1, SumOverAdd
    <2>8. SumOver(A, g) \in Int /\ g[x] \in Int
      BY <1>0, <2>1, SumOverType
    <2>9. SumOver(W(A), f) = SumOver(A, g)
      BY <1>2
    <2>10. SumOver(W(A \cup {x}), f) = SumOver(A \cup {x}, g)
      BY <2>6, <2>7, <2>8, <2>9
    <2> QED BY <2>10
  <1> HIDE DEF F
  <1>3. J \in F
    BY <1>1, <1>2, SetInduction
  <1> QED BY <1>3 DEF F

\* The same sum under other names.
LEMMA SumOverRenamed ==
    ASSUME NEW S, IsFiniteSet(S), NEW b, NEW f, NEW g,
           \A x, y \in S : b[x] = b[y] => x = y,
           \A x \in S : f[x] \in Int /\ g[b[x]] = f[x]
    PROVE  SumOver({b[x] : x \in S}, g) = SumOver(S, f)
  <1> DEFINE W(A) == {b[x] : x \in A}
             F == {A \in SUBSET S : IsFiniteSet(W(A)) /\ SumOver(W(A), g) = SumOver(A, f)}
  <1>1. {} \in F
    <2>1. W({}) = {}
      OBVIOUS
    <2> HIDE DEF W
    <2> QED BY <2>1, SumOverEmpty, FS_EmptySet
  <1>2. ASSUME NEW A \in SUBSET S, NEW x \in S \ A, A \in F PROVE A \cup {x} \in F
    <2>1. IsFiniteSet(A)
      BY FS_Subset
    <2>2. W(A \cup {x}) = W(A) \cup {b[x]} /\ b[x] \notin W(A)
      OBVIOUS
    <2>3. \A y \in W(A) : g[y] \in Int
      OBVIOUS
    <2>4. /\ g[b[x]] \in Int /\ g[b[x]] = f[x] /\ f[x] \in Int
          /\ \A y \in A : f[y] \in Int
      OBVIOUS
    <2>5. IsFiniteSet(W(A)) /\ SumOver(W(A), g) = SumOver(A, f)
      BY <1>2
    <2> HIDE DEF W
    <2>6. IsFiniteSet(W(A) \cup {b[x]})
      BY <2>5, FS_AddElement
    <2>7. SumOver(W(A) \cup {b[x]}, g) = g[b[x]] + SumOver(W(A), g)
      BY <2>2, <2>3, <2>4, <2>5, SumOverAdd
    <2>8. SumOver(A \cup {x}, f) = f[x] + SumOver(A, f)
      BY <2>1, <2>4, SumOverAdd
    <2> QED BY <2>2, <2>4, <2>5, <2>6, <2>7, <2>8
  <1> HIDE DEF F
  <1>3. S \in F
    BY <1>1, <1>2, SetInduction
  <1> QED BY <1>3 DEF F

\* What adds nothing may be left out.
LEMMA SumOverDrop ==
    ASSUME NEW S, IsFiniteSet(S), NEW A \in SUBSET S, NEW f, \A x \in S : f[x] \in Int,
           \A x \in S \ A : f[x] = 0
    PROVE  SumOver(S, f) = SumOver(A, f)
<1> DEFINE B == S \ A
<1>1. IsFiniteSet(A) /\ IsFiniteSet(B) /\ A \cup B = S /\ A \cap B = {}
  BY FS_Subset, FS_Difference
<1>2. \A x \in B : f[x] = 0
  OBVIOUS
<1>3. \A x \in A \cup B : f[x] \in Int
  BY <1>1
<1> HIDE DEF B
<1>4. \A x \in B : f[x] \in Int /\ f[x] \in Int /\ f[x] = f[x] + f[x]
  BY <1>2
<1>5. SumOver(B, f) = SumOver(B, f) + SumOver(B, f)
  BY <1>1, <1>4, SumOverPlus
<1>6. SumOver(B, f) \in Int /\ SumOver(A, f) \in Int
  BY <1>1, <1>3, SumOverType
<1>7. SumOver(A \cup B, f) = SumOver(A, f) + SumOver(B, f)
  BY <1>1, <1>3, SumOverUnion
<1>8. SumOver(S, f) = SumOver(A, f) + SumOver(B, f)
  BY <1>1, <1>7, Zenon
<1>9. ASSUME NEW s, NEW a \in Int, NEW b \in Int, b = b + b, s = a + b PROVE s = a
  BY <1>9
<1> QED BY <1>5, <1>6, <1>8, <1>9

\* A set is as large as the parts it falls into together.
LEMMA CardinalityOfParts ==
    ASSUME NEW J, IsFiniteSet(J), NEW U, IsFiniteSet(U), NEW P, NEW g,
           UNION {P[i] : i \in J} = U,
           \A i, j \in J : i # j => P[i] \cap P[j] = {},
           \A i \in J : g[i] = Cardinality(P[i])
    PROVE  Cardinality(U) = SumOver(J, g)
<1> DEFINE one == [x \in U |-> 1]
<1>1. \A x \in U : one[x] = 1
  OBVIOUS
<1> HIDE DEF one
<1>2. \A i \in J : P[i] \subseteq U
  OBVIOUS
<1>3. \A i \in J : g[i] = SumOver(P[i], one)
  <2> SUFFICES ASSUME NEW i \in J PROVE Cardinality(P[i]) = SumOver(P[i], one)
    OBVIOUS
  <2>1. IsFiniteSet(P[i])
    BY <1>2, FS_Subset
  <2>2. \A x \in P[i] : one[x] = 1
    BY <1>1, <1>2
  <2> QED BY <2>1, <2>2, CardinalityIsSum
<1>4. \A x \in U : one[x] \in Int
  BY <1>1
<1>5. SumOver(UNION {P[i] : i \in J}, one) = SumOver(J, g)
  BY <1>2, <1>3, <1>4, SumOverParts
<1>6. SumOver(U, one) = Cardinality(U)
  BY <1>1, CardinalityIsSum
<1> QED BY <1>5, <1>6

\* A sum over pairs of one first part.
PairsOf(w, T) == {<<w, e>> : e \in T}

LEMMA SumOverPairs ==
    ASSUME NEW T, IsFiniteSet(T), NEW w, NEW f, NEW h,
           \A e \in T : h[e] \in Int /\ f[<<w, e>>] = h[e]
    PROVE  SumOver(PairsOf(w, T), f) = SumOver(T, h)
<1> DEFINE b == [e \in T |-> <<w, e>>]
<1>1. \A x, y \in T : b[x] = b[y] => x = y
  OBVIOUS
<1>2. \A x \in T : h[x] \in Int /\ f[b[x]] = h[x]
  OBVIOUS
<1>3. {b[x] : x \in T} = PairsOf(w, T)
  BY DEF PairsOf
<1> HIDE DEF b
<1>4. SumOver({b[x] : x \in T}, f) = SumOver(T, h)
  BY <1>1, <1>2, SumOverRenamed
<1> QED BY <1>3, <1>4
===============================================================================
