------------------------------- MODULE SumsProofs -------------------------------
(* What a change of one value or of one member does to a sum; the least and *)
(* the greatest of a set of numbers; and what holds of a loop's results      *)
(* because each step keeps it.                                               *)
EXTENDS Sums, TLAPS, FiniteSetTheorems

\* One member has as many units as its value.
LEMMA UnitsOfOne ==
  ASSUME NEW D, NEW f \in [D -> Nat], NEW x \in D
  PROVE  IsFiniteSet(UnitsOf(f, x)) /\ Cardinality(UnitsOf(f, x)) = f[x]
  <1>1. f[x] \in Nat
    OBVIOUS
  <1>2. IsFiniteSet(1..f[x]) /\ Cardinality(1..f[x]) = f[x]
    BY <1>1, FS_Interval
  <1>3. IsFiniteSet({x}) /\ Cardinality({x}) = 1
    BY FS_Singleton
  <1>4. /\ IsFiniteSet({x} \X (1..f[x]))
        /\ Cardinality({x} \X (1..f[x])) = Cardinality({x}) * Cardinality(1..f[x])
    BY <1>2, <1>3, FS_Product
  <1>5. 1 * f[x] = f[x]
    BY <1>1
  <1> QED
    BY <1>2, <1>3, <1>4, <1>5 DEF UnitsOf

\* A finite set has finitely many units: a sum is a natural number.
LEMMA UnitsFinite ==
  ASSUME NEW D, NEW f \in [D -> Nat], NEW S \in SUBSET D, IsFiniteSet(S)
  PROVE  IsFiniteSet(Units(f, S)) /\ Total(f, S) \in Nat
  <1> DEFINE T == {UnitsOf(f, x) : x \in S}
             h == [x \in S |-> UnitsOf(f, x)]
  <1>1. h \in Surjection(S, T)
    BY DEF Surjection
  <1>2. IsFiniteSet(T)
    BY <1>1, FS_Surjection
  <1>3. \A U \in T : IsFiniteSet(U)
    BY UnitsOfOne
  <1>4. IsFiniteSet(UNION T)
    BY <1>2, <1>3, FS_UNION
  <1> QED
    BY <1>4, FS_CardinalityType DEF Units, Total

\* The empty sum.
LEMMA TotalEmpty == ASSUME NEW f PROVE Total(f, {}) = 0
  <1>1. Units(f, {}) = {}
    BY DEF Units
  <1> QED
    BY <1>1, FS_EmptySet DEF Total

\* A new member adds its value.
LEMMA TotalAdd ==
  ASSUME NEW D, NEW f \in [D -> Nat], NEW S \in SUBSET D, IsFiniteSet(S),
         NEW x \in D, x \notin S
  PROVE  Total(f, S \cup {x}) = Total(f, S) + f[x]
  <1>1. Units(f, S \cup {x}) = Units(f, S) \cup UnitsOf(f, x)
    BY DEF Units
  <1>2. Units(f, S) \cap UnitsOf(f, x) = {}
    BY DEF Units, UnitsOf
  <1>3. Cardinality(Units(f, S) \cap UnitsOf(f, x)) = 0
    BY <1>2, FS_EmptySet
  <1>4. Total(f, S) \in Nat /\ f[x] \in Nat
    BY UnitsFinite
  <1>5. Cardinality(Units(f, S) \cup UnitsOf(f, x))
          = Cardinality(Units(f, S)) + Cardinality(UnitsOf(f, x))
            - Cardinality(Units(f, S) \cap UnitsOf(f, x))
    BY UnitsFinite, UnitsOfOne, FS_Union
  <1>6. Cardinality(UnitsOf(f, x)) = f[x]
    BY UnitsOfOne
  <1>7. Total(f, S \cup {x}) = Cardinality(Units(f, S) \cup UnitsOf(f, x))
    BY <1>1 DEF Total
  <1>8. Total(f, S) = Cardinality(Units(f, S))
    BY DEF Total
  <1> QED
    BY <1>3, <1>4, <1>5, <1>6, <1>7, <1>8

\* Only the values of the members matter.
LEMMA TotalSame ==
  ASSUME NEW f, NEW g, NEW S, \A x \in S : f[x] = g[x]
  PROVE  Total(f, S) = Total(g, S)
  <1>1. \A x \in S : UnitsOf(f, x) = UnitsOf(g, x)
    BY DEF UnitsOf
  <1>2. Units(f, S) = Units(g, S)
    BY <1>1 DEF Units
  <1> QED
    BY <1>2 DEF Total

\* A sum of zeros is zero.
LEMMA TotalZero ==
  ASSUME NEW f, NEW S, \A x \in S : f[x] = 0
  PROVE  Total(f, S) = 0
  <1>1. \A x \in S : UnitsOf(f, x) = {}
    BY DEF UnitsOf
  <1>2. Units(f, S) = {}
    BY <1>1 DEF Units
  <1> QED
    BY <1>2, FS_EmptySet DEF Total

\* Members that count for nothing may be left out.
LEMMA TotalPositive ==
  ASSUME NEW S, NEW f \in [S -> Nat]
  PROVE  Total(f, {x \in S : f[x] > 0}) = Total(f, S)
  <1>1. \A x \in S : ~(f[x] > 0) => UnitsOf(f, x) = {}
    BY DEF UnitsOf
  <1>2. Units(f, {x \in S : f[x] > 0}) = Units(f, S)
    BY <1>1 DEF Units
  <1> QED
    BY <1>2 DEF Total

\* A larger set sums to no less.
LEMMA TotalMonotone ==
  ASSUME NEW D, NEW f \in [D -> Nat], NEW T \in SUBSET D, IsFiniteSet(T), NEW S \in SUBSET T
  PROVE  Total(f, S) <= Total(f, T)
  <1>1. Units(f, S) \subseteq Units(f, T)
    BY DEF Units
  <1> QED
    BY <1>1, UnitsFinite, FS_Subset DEF Total

\* Taking a member out takes its value out.
LEMMA TotalRemove ==
  ASSUME NEW D, NEW f \in [D -> Nat], NEW S \in SUBSET D, IsFiniteSet(S), NEW x \in S
  PROVE  Total(f, S) = Total(f, S \ {x}) + f[x]
  <1>1. IsFiniteSet(S \ {x}) /\ S = (S \ {x}) \cup {x}
    BY FS_RemoveElement
  <1> QED
    BY <1>1, TotalAdd

\* Changing one value changes the sum by the difference.
LEMMA TotalUpdate ==
  ASSUME NEW D, NEW f \in [D -> Nat], NEW g \in [D -> Nat], NEW S \in SUBSET D,
         IsFiniteSet(S), NEW x \in S, \A y \in S \ {x} : g[y] = f[y]
  PROVE  Total(g, S) = Total(f, S) - f[x] + g[x]
  <1>1. Total(f, S) = Total(f, S \ {x}) + f[x]
    BY TotalRemove
  <1>2. Total(g, S) = Total(g, S \ {x}) + g[x]
    BY TotalRemove
  <1>3. Total(g, S \ {x}) = Total(f, S \ {x})
    BY TotalSame
  <1>4. IsFiniteSet(S \ {x})
    BY FS_RemoveElement
  <1>5. Total(f, S \ {x}) \in Nat
    BY <1>4, UnitsFinite
  <1> QED
    BY <1>1, <1>2, <1>3, <1>5

-----------------------------------------------------------------------------
(* The least and the greatest *)

\* A set of numbers that is not empty has a least member: of the intervals
\* from 0 to its members, one has no other inside.
LEMMA LeastMember ==
  ASSUME NEW S \in SUBSET Nat, S # {}
  PROVE  \E x \in S : \A y \in S : x <= y
  <1> DEFINE T == {0..x : x \in S}
  <1>1. T \subseteq FiniteSubsetsOf(Nat) /\ T # {}
    <2>1. ASSUME NEW x \in S PROVE 0..x \in SUBSET Nat /\ IsFiniteSet(0..x)
      <3>1. 0 \in Int /\ x \in Int /\ 0..x \in SUBSET Nat
        OBVIOUS
      <3> QED
        BY <3>1, FS_Interval
    <2> QED
      BY <2>1 DEF FiniteSubsetsOf
  <1>2. IsWellFoundedOn(StrictSubsetOrdering(Nat), FiniteSubsetsOf(Nat))
    BY FS_StrictSubsetOrderingWellFounded
  <1>3. \E I \in T : \A J \in T : ~(<<J, I>> \in StrictSubsetOrdering(Nat))
    BY <1>1, <1>2, WFMin
  <1>4. PICK x \in S : \A y \in S : ~(<<0..y, 0..x>> \in StrictSubsetOrdering(Nat))
    BY <1>3
  <1>5. ASSUME NEW y \in S, y < x PROVE FALSE
    <2>1. y \in Nat /\ x \in Nat
      OBVIOUS
    <2>2. 0..y \subseteq 0..x /\ x \in 0..x /\ x \notin 0..y
      BY <1>5, <2>1
    <2>3. 0..y \in SUBSET Nat /\ 0..x \in SUBSET Nat
      OBVIOUS
    <2>4. <<0..y, 0..x>> \in StrictSubsetOrdering(Nat)
      BY <2>2, <2>3 DEF StrictSubsetOrdering
    <2> QED
      BY <1>4, <2>4
  <1> QED
    BY <1>5

\* A bounded set of numbers that is not empty has a greatest member.
LEMMA GreatestMember ==
  ASSUME NEW S \in SUBSET Nat, S # {}, NEW b \in Nat, \A x \in S : x <= b
  PROVE  \E m \in S : \A x \in S : x <= m
  <1> DEFINE T == {m \in Nat : \A x \in S : x <= m}
  <1>1. PICK m \in T : \A n \in T : m <= n
    BY LeastMember
  <1>2. m \in S
    <2>0. m \in Nat /\ \A x \in S : x <= m
      BY <1>1
    <2>1. CASE m = 0
      <3>1. PICK x \in S : TRUE
        OBVIOUS
      <3>2. x \in Nat /\ x <= 0
        BY <2>0, <2>1
      <3> QED
        BY <2>1, <3>2
    <2>2. CASE m # 0 /\ m \notin S
      <3>1. m - 1 \in Nat /\ ~(m <= m - 1)
        BY <2>0, <2>2
      <3>2. ASSUME NEW x \in S PROVE x <= m - 1
        <4>1. x \in Nat /\ x <= m /\ x # m
          BY <2>0, <2>2
        <4> QED
          BY <2>0, <4>1
      <3> QED
        BY <1>1, <3>1, <3>2
    <2> QED
      BY <2>1, <2>2
  <1> QED
    BY <1>1, <1>2

\* A finite set of numbers is bounded: were one not, a smallest such set would
\* still be bounded without one of its members.
LEMMA FiniteGreatest ==
  ASSUME NEW S \in SUBSET Nat, IsFiniteSet(S), S # {}
  PROVE  \E m \in S : \A x \in S : x <= m
  <1> DEFINE Bad(T) == T # {} /\ ~\E m \in T : \A x \in T : x <= m
             Sizes  == {Cardinality(T) : T \in {U \in SUBSET S : Bad(U)}}
  <1>1. ASSUME NEW T \in SUBSET S PROVE IsFiniteSet(T) /\ Cardinality(T) \in Nat
    BY FS_Subset, FS_CardinalityType
  <1>2. SUFFICES ASSUME Bad(S) PROVE FALSE
    OBVIOUS
  <1>3. Sizes \in SUBSET Nat /\ Sizes # {}
    BY <1>1, <1>2
  <1>4. PICK c \in Sizes : \A d \in Sizes : c <= d
    BY <1>3, LeastMember
  <1>5. PICK T \in SUBSET S : Bad(T) /\ c = Cardinality(T)
    BY <1>4
  <1>6. PICK y \in T : TRUE
    BY <1>5
  <1>7. /\ IsFiniteSet(T) /\ Cardinality(T) \in Nat
        /\ Cardinality(T \ {y}) = Cardinality(T) - 1 /\ Cardinality(T \ {y}) \in Nat
        /\ T \ {y} \in SUBSET S
    BY <1>1, <1>6, FS_RemoveElement
  <1>8. ~Bad(T \ {y})
    <2>1. ~(c <= Cardinality(T \ {y}))
      BY <1>5, <1>7
    <2> QED
      BY <1>4, <1>7, <2>1
  <1>9. CASE T \ {y} = {}
    BY <1>5, <1>6, <1>9
  <1>10. CASE T \ {y} # {}
    <2>1. PICK m \in T \ {y} : \A x \in T \ {y} : x <= m
      BY <1>8, <1>10
    <2>2. m \in Nat /\ y \in Nat /\ \A x \in T : x \in Nat /\ (x = y \/ x <= m)
      BY <1>6, <2>1
    <2>3. CASE m <= y
      BY <1>5, <1>6, <2>2, <2>3
    <2>4. CASE ~(m <= y)
      BY <1>5, <2>1, <2>2, <2>4
    <2> QED
      BY <2>3, <2>4
  <1> QED
    BY <1>9, <1>10

\* The values a function takes on a finite set.
LEMMA FiniteImage ==
  ASSUME NEW S, IsFiniteSet(S), NEW f, DOMAIN f = S
  PROVE  IsFiniteSet({f[x] : x \in S})
  <1> DEFINE T == {f[x] : x \in S}
             g == [x \in S |-> f[x]]
  <1>1. g \in Surjection(S, T)
    BY DEF Surjection
  <1> QED
    BY <1>1, FS_Surjection

\* What holds of zero and passes from a number to the next one holds of all.
LEMMA StepByStep ==
  ASSUME NEW n \in Nat, NEW S, 0 \in S, \A i \in 1..n : i - 1 \in S => i \in S
  PROVE  0..n \subseteq S
  <1> DEFINE Bad == {i \in 0..n : i \notin S}
  <1>1. SUFFICES ASSUME Bad # {} PROVE FALSE
    OBVIOUS
  <1>2. Bad \in SUBSET Nat
    OBVIOUS
  <1>3. PICK m \in Bad : \A x \in Bad : m <= x
    <2> HIDE DEF Bad
    <2> QED
      BY <1>1, <1>2, LeastMember
  <1>4. m \in 1..n /\ m \notin S /\ m - 1 \in 0..n /\ ~(m <= m - 1)
    OBVIOUS
  <1>5. m - 1 \in S
    BY <1>3, <1>4
  <1> QED
    BY <1>4, <1>5

\* The steps of a loop, one after the other.
Iteration(f, S, n, first, step) ==
  f \in [0..n -> S] /\ f[0] = first /\ \A i \in 1..n : f[i] = step[i][f[i - 1]]

LEMMA Iterates ==
  ASSUME NEW S, NEW n \in Nat, NEW first \in S, NEW step,
         \A i \in 1..n : \A s \in S : step[i][s] \in S
  PROVE  \E f : Iteration(f, S, n, first, step)
  <1> USE DEF Iteration
  <1> DEFINE Goes(f, m) == /\ f \in [0..m -> S] /\ f[0] = first
                           /\ \A i \in 1..m : f[i] = step[i][f[i - 1]]
             Good == {m \in 0..n : \E f : Goes(f, m)}
  <1>1. 0 \in Good
    <2>1. Goes([i \in 0..0 |-> first], 0)
      OBVIOUS
    <2>2. 0 \in 0..n
      OBVIOUS
    <2> HIDE DEF Goes
    <2> QED
      BY <2>1, <2>2
  <1>2. ASSUME NEW m \in 1..n, m - 1 \in Good PROVE m \in Good
    <2>3. PICK f : Goes(f, m - 1)
      BY <1>2
    <2> DEFINE g == [i \in 0..m |-> IF i = m THEN step[m][f[m - 1]] ELSE f[i]]
    <2>4. m - 1 \in 0..m - 1 /\ f[m - 1] \in S
      BY <2>3
    <2>5. step[m][f[m - 1]] \in S
      BY <2>4
    <2>6. g \in [0..m -> S]
      <3>1. \A i \in 0..m : i # m => i \in 0..m - 1
        OBVIOUS
      <3> QED
        BY <2>3, <2>5, <3>1
    <2>7. g[0] = first
      BY <2>3, <2>4
    <2>8. \A i \in 1..m : g[i] = step[i][g[i - 1]]
      <3>1. ASSUME NEW i \in 1..m PROVE g[i] = step[i][g[i - 1]]
        <4>1. i - 1 \in 0..m /\ i - 1 # m /\ i \in 0..m
          OBVIOUS
        <4>2. g[i - 1] = f[i - 1]
          BY <4>1
        <4>3. i # m => i \in 1..m - 1
          OBVIOUS
        <4> QED
          BY <2>3, <4>1, <4>2, <4>3
      <3> QED
        BY <3>1
    <2>9. Goes(g, m)
      BY <2>6, <2>7, <2>8
    <2>10. m \in 0..n
      OBVIOUS
    <2> HIDE DEF Goes, g
    <2> QED
      BY <2>9, <2>10
  <1>3. 0..n \subseteq Good
    <2>1. \A i \in 1..n : i - 1 \in Good => i \in Good
      BY <1>2
    <2> HIDE DEF Good
    <2> QED
      BY ONLY <1>1, <2>1, n \in Nat, StepByStep
  <1>4. n \in Good
    BY <1>3
  <1> QED
    BY <1>4

\* A sum taken by groups is the sum.
LEMMA Regrouped ==
  ASSUME NEW S, IsFiniteSet(S), NEW w \in [S -> Nat], NEW K, IsFiniteSet(K),
         NEW key \in [S -> K], NEW rows,
         \A k \in K : rows[k] = Total(w, {x \in S : key[x] = k})
  PROVE  Total(rows, K) = Total(w, S)
  <1> DEFINE part(T) == [k \in K |-> Total(w, {x \in T : key[x] = k})]
             n == Cardinality(S)
             Good == {m \in 0..n : \A T \in SUBSET S : Cardinality(T) = m =>
                                     Total(part(T), K) = Total(w, T)}
  <1>1. n \in Nat
    BY FS_CardinalityType
  <1>2. ASSUME NEW T \in SUBSET S
        PROVE  /\ IsFiniteSet(T) /\ Cardinality(T) \in Nat /\ Total(w, T) \in Nat
               /\ part(T) \in [K -> Nat]
    <2>1. IsFiniteSet(T) /\ Cardinality(T) \in Nat
      BY FS_Subset, FS_CardinalityType
    <2>2. ASSUME NEW k \in K
          PROVE  Total(w, {x \in T : key[x] = k}) \in Nat
      <3>1. {x \in T : key[x] = k} \in SUBSET T
        OBVIOUS
      <3>2. IsFiniteSet({x \in T : key[x] = k})
        BY <2>1, <3>1, FS_Subset
      <3> QED
        BY <3>1, <3>2, UnitsFinite
    <2> QED
      BY <2>1, <2>2, UnitsFinite
  <1>3. 0 \in Good
    <2>1. ASSUME NEW T \in SUBSET S, Cardinality(T) = 0
          PROVE  Total(part(T), K) = Total(w, T)
      <3>1. T = {}
        BY <1>2, <2>1, FS_EmptySet
      <3>2. \A k \in K : part(T)[k] = 0
        <4>1. \A k \in K : {x \in T : key[x] = k} = {}
          BY <3>1
        <4> QED
          BY <4>1, TotalEmpty
      <3> HIDE DEF part
      <3> QED
        BY <3>1, <3>2, TotalZero, TotalEmpty
    <2> HIDE DEF part
    <2> QED
      BY <1>1, <2>1
  <1>4. ASSUME NEW i \in 1..n, i - 1 \in Good
        PROVE  i \in Good
    <2>1. ASSUME NEW T \in SUBSET S, Cardinality(T) = i
          PROVE  Total(part(T), K) = Total(w, T)
      <3>1. T # {}
        BY <2>1, FS_EmptySet
      <3>2. PICK x \in T : TRUE
        BY <3>1
      <3> DEFINE U == T \ {x}
                 k == key[x]
      <3>3. U \in SUBSET S /\ Cardinality(U) = i - 1 /\ x \notin U /\ T = U \cup {x}
            /\ x \in S /\ k \in K
        BY <1>2, <2>1, FS_RemoveElement
      <3>4. Total(part(U), K) = Total(w, U)
        BY <1>4, <3>3
      <3>5. Total(w, T) = Total(w, U) + w[x]
        BY <1>2, <3>3, TotalAdd
      <3>6. part(T)[k] = part(U)[k] + w[x]
        <4> DEFINE V == {y \in U : key[y] = k}
        <4>1. {y \in T : key[y] = k} = V \cup {x} /\ x \notin V /\ V \in SUBSET U
          BY <3>3
        <4>2. IsFiniteSet(V)
          BY <1>2, <3>3, <4>1, FS_Subset
        <4> HIDE DEF V
        <4>3. Total(w, V \cup {x}) = Total(w, V) + w[x]
          BY <3>3, <4>1, <4>2, TotalAdd
        <4> QED
          BY <3>3, <4>1, <4>3 DEF V
      <3>7. \A j \in K \ {k} : part(T)[j] = part(U)[j]
        <4>1. \A j \in K \ {k} : {y \in T : key[y] = j} = {y \in U : key[y] = j}
          BY <3>3
        <4> QED
          BY <4>1
      <3>8. part(T) \in [K -> Nat] /\ part(U) \in [K -> Nat]
        BY <1>2, <3>3
      <3> HIDE DEF part, U, k
      <3>9. Total(part(T), K) = Total(part(U), K) - part(U)[k] + part(T)[k]
        <4> PICK f, g : f = part(U) /\ g = part(T)
          OBVIOUS
        <4>1. f \in [K -> Nat] /\ g \in [K -> Nat] /\ K \in SUBSET K /\ k \in K
          BY <3>3, <3>8
        <4>2. \A j \in K \ {k} : g[j] = f[j]
          BY <3>7
        <4> QED
          BY <4>1, <4>2, TotalUpdate
      <3>10. part(U)[k] \in Nat /\ w[x] \in Nat /\ Total(w, U) \in Nat
        BY <1>2, <3>3, <3>8
      <3> QED
        BY <3>4, <3>5, <3>6, <3>9, <3>10
    <2> HIDE DEF part
    <2> QED
      BY <2>1
  <1>5. 0..n \subseteq Good
    <2>1. \A i \in 1..n : i - 1 \in Good => i \in Good
      BY <1>4
    <2> HIDE DEF Good, n
    <2> QED
      BY ONLY <1>1, <1>3, <2>1, StepByStep
  <1>6. Total(part(S), K) = Total(w, S)
    <2>1. n \in 0..n /\ S \in SUBSET S
      BY <1>1
    <2> HIDE DEF part
    <2> QED
      BY <1>5, <2>1
  <1>7. \A k \in K : rows[k] = part(S)[k]
    OBVIOUS
  <1> HIDE DEF part
  <1> QED
    BY <1>6, <1>7, TotalSame

\* A finite set of integers has a greatest.
LEMMA GreatestInteger ==
  ASSUME NEW S \in SUBSET Int, IsFiniteSet(S), S # {}
  PROVE  \E m \in S : \A x \in S : x <= m
  <1>1. PICK o \in S : TRUE
    OBVIOUS
  <1> DEFINE up == {x \in S : o <= x}
             f  == [x \in up |-> x - o]
             T  == {f[x] : x \in up}
  <1>2. o \in Int /\ \A x \in S : x \in Int
    OBVIOUS
  <1>3. T \in SUBSET Nat /\ T # {}
    <2>1. \A x \in up : x - o \in Nat
      BY <1>2
    <2>2. o \in up
      BY <1>2
    <2> QED
      BY <2>1, <2>2
  <1>4. IsFiniteSet(T)
    <2>1. IsFiniteSet(up) /\ DOMAIN f = up
      BY FS_Subset
    <2> HIDE DEF up, f
    <2> QED
      BY <2>1, FiniteImage
  <1>5. PICK n \in T : \A y \in T : y <= n
    <2> HIDE DEF T
    <2> QED
      BY <1>3, <1>4, FiniteGreatest
  <1>6. PICK m \in up : n = m - o
    OBVIOUS
  <1>7. ASSUME NEW x \in S PROVE x <= m
    <2>1. CASE o <= x
      <3>1. x - o \in T
        BY <2>1
      <3>2. x - o <= m - o
        BY <1>5, <1>6, <3>1
      <3> QED
        BY <1>2, <3>2
    <2>2. CASE ~(o <= x)
      BY <1>2, <2>2
    <2> QED
      BY <2>1, <2>2
  <1> QED
    BY <1>7

-----------------------------------------------------------------------------
(* Products and quotients *)

\* What division leaves over is less than the divisor.
LEMMA Quotient ==
  ASSUME NEW x \in Nat, NEW d \in Nat \ {0}
  PROVE  x \div d \in Nat /\ (x \div d) * d <= x /\ x < (x \div d) * d + d
  OBVIOUS

\* A product grows with its factors.
LEMMA TimesMonotone ==
  ASSUME NEW a \in Nat, NEW x \in Nat, NEW y \in Nat, x <= y
  PROVE  a * x \in Nat /\ x * a \in Nat /\ a * x <= a * y /\ x * a <= y * a
  <1>1. PICK z \in Nat : y = x + z
    <2>1. y - x \in Nat /\ y = x + (y - x)
      OBVIOUS
    <2> QED
      BY <2>1
  <1>2. a * y = a * x + a * z /\ a * x \in Nat /\ a * z \in Nat
    BY <1>1, SMTT(30)
  <1> QED
    BY <1>2

\* So many fit into x as the quotient says.
LEMMA DivAtLeast ==
  ASSUME NEW x \in Nat, NEW k \in Nat, NEW d \in Nat \ {0}, k * d <= x
  PROVE  k <= x \div d
  <1> DEFINE q == x \div d
  <1>1. q \in Nat /\ x < q * d + d
    BY Quotient
  <1> HIDE DEF q
  <1>2. SUFFICES ASSUME q < k PROVE FALSE
    BY <1>1 DEF q
  <1>3. (q + 1) * d <= k * d
    BY <1>1, <1>2, TimesMonotone
  <1>4. (q + 1) * d = q * d + d
    BY <1>1
  <1> QED
    BY <1>1, <1>3, <1>4, TimesMonotone

\* A quotient grows with what is divided.
LEMMA DivMonotone ==
  ASSUME NEW x \in Nat, NEW y \in Nat, NEW d \in Nat \ {0}, x <= y
  PROVE  x \div d \in Nat /\ x \div d <= y \div d
  <1> DEFINE q == x \div d
  <1>1. q \in Nat /\ q * d <= x
    BY Quotient
  <1> HIDE DEF q
  <1>2. q * d \in Nat /\ q * d <= y
    BY <1>1, TimesMonotone
  <1> QED
    BY <1>1, <1>2, DivAtLeast DEF q

\* What is left over.
LEMMA Remainder ==
  ASSUME NEW x \in Nat, NEW d \in Nat \ {0}
  PROVE  x % d \in 0..d - 1 /\ x = (x \div d) * d + (x % d)
  <1>1. x % d \in 0..d - 1
    OBVIOUS
  <1>2. x = d * (x \div d) + (x % d)
    OBVIOUS
  <1>3. x \div d \in Nat
    BY Quotient
  <1> QED
    BY <1>1, <1>2, <1>3

\* There is only one way to divide.
LEMMA DivUnique ==
  ASSUME NEW q \in Nat, NEW d \in Nat \ {0}, NEW e \in 0..d - 1
  PROVE  (q * d + e) % d = e
  <1> DEFINE x == q * d + e
             p == x \div d
             r == x % d
  <1>1. q * d \in Nat /\ x \in Nat
    BY TimesMonotone
  <1>2. x = q * d + e
    OBVIOUS
  <1> HIDE DEF x
  <1>3. p \in Nat /\ r \in 0..d - 1 /\ x = p * d + r
    BY <1>1, Quotient, Remainder
  <1> HIDE DEF p, r
  <1>4. p * d \in Nat
    BY <1>3, TimesMonotone
  <1>5. CASE p < q
    <2>1. (p + 1) * d <= q * d
      BY <1>3, <1>5, TimesMonotone
    <2>2. (p + 1) * d = p * d + d
      BY <1>3
    <2> QED
      BY <1>1, <1>2, <1>3, <1>4, <2>1, <2>2
  <1>6. CASE q < p
    <2>1. (q + 1) * d <= p * d
      BY <1>3, <1>6, TimesMonotone
    <2>2. (q + 1) * d = q * d + d
      OBVIOUS
    <2> QED
      BY <1>1, <1>2, <1>3, <1>4, <2>1, <2>2
  <1>7. CASE p = q
    BY <1>1, <1>2, <1>3, <1>4, <1>7 DEF r, x
  <1> QED
    BY <1>3, <1>5, <1>6, <1>7

\* Rounding down keeps the order,
LEMMA FloorMonotone ==
  ASSUME NEW x \in Nat, NEW y \in Nat, NEW d \in Nat \ {0}, x <= y
  PROVE  x - (x % d) <= y - (y % d)
  <1> DEFINE p == x \div d
             q == y \div d
  <1>1. /\ p \in Nat /\ q \in Nat /\ x % d \in 0..d - 1 /\ y % d \in 0..d - 1
        /\ x = p * d + (x % d) /\ y = q * d + (y % d)
    BY Quotient, Remainder
  <1> HIDE DEF p, q
  <1>2. p * d \in Nat /\ q * d \in Nat
    BY <1>1, TimesMonotone
  <1>3. CASE p <= q
    <2>1. p * d <= q * d
      BY <1>1, <1>3, TimesMonotone
    <2> QED
      BY <1>1, <1>2, <2>1
  <1>4. CASE q < p
    <2>1. (q + 1) * d <= p * d
      BY <1>1, <1>4, TimesMonotone
    <2>2. (q + 1) * d = q * d + d
      BY <1>1
    <2> QED
      BY <1>1, <1>2, <2>1, <2>2
  <1> QED
    BY <1>1, <1>3, <1>4

\* what was rounded down stays,
LEMMA FloorKept ==
  ASSUME NEW x \in Nat, NEW d \in Nat \ {0}
  PROVE  x - (x % d) \in Nat /\ (x - (x % d)) % d = 0
  <1>1. x \div d \in Nat /\ x % d \in 0..d - 1 /\ x = (x \div d) * d + (x % d)
    BY Quotient, Remainder
  <1> DEFINE p == x \div d
  <1> HIDE DEF p
  <1>2. p \in Nat /\ p * d \in Nat /\ x = p * d + (x % d)
    BY <1>1, TimesMonotone DEF p
  <1> PICK y \in Nat : y = p * d
    BY <1>2
  <1>3. (y + 0) % d = 0
    <2>1. 0 \in 0..d - 1
      OBVIOUS
    <2> QED
      BY <1>2, <2>1, DivUnique
  <1>4. x - (x % d) = y
    BY <1>1, <1>2
  <1>5. y + 0 = y
    OBVIOUS
  <1>6. y % d = 0
    BY ONLY <1>3, <1>5
  <1> QED
    BY ONLY <1>4, <1>6, y \in Nat

\* and all of a unit that fits into the larger one is rounded down alike.
LEMMA FloorOfUnit ==
  ASSUME NEW x \in Nat, NEW d \in Nat \ {0}, NEW u \in Nat \ {0},
         x % u = 0, d % u = 0, NEW e \in 0..u - 1
  PROVE  (x + e) - ((x + e) % d) = x - (x % d)
  <1> DEFINE q == x \div d
             n == x \div u
             m == d \div u
             r == x % d
  <1>0. x = q * d + r /\ q \in Nat /\ r \in 0..d - 1
    BY Quotient, Remainder
  <1>1. /\ q \in Nat /\ n \in Nat /\ m \in Nat /\ r \in 0..d - 1
        /\ x = q * d + r /\ x = n * u /\ d = m * u
    <2>1. x = n * u + (x % u) /\ n \in Nat
      BY Quotient, Remainder
    <2>2. d = m * u + (d % u) /\ m \in Nat
      BY Quotient, Remainder
    <2> HIDE DEF q, n, m, r
    <2>3. n * u \in Nat /\ m * u \in Nat
      BY <2>1, <2>2, TimesMonotone
    <2> QED
      BY <1>0, <2>1, <2>2, <2>3
  <1> HIDE DEF q, n, m, r
  <1>2. q * m \in Nat /\ q * d \in Nat /\ q * d = (q * m) * u
    BY <1>1, TimesMonotone
  <1> DEFINE k == q * m
  <1>3. k \in Nat /\ k * u \in Nat /\ n * u \in Nat /\ m * u \in Nat /\ n * u = k * u + r
    BY <1>1, <1>2, TimesMonotone
  <1> HIDE DEF k
  <1>4. k <= n
    <2>1. SUFFICES ASSUME n < k PROVE FALSE
      BY <1>1, <1>3
    <2>2. (n + 1) * u <= k * u /\ (n + 1) * u = n * u + u
      BY <1>1, <1>3, <2>1, TimesMonotone
    <2> QED
      BY <1>1, <1>3, <2>2
  <1>5. PICK j \in Nat : n = k + j
    <2>1. n - k \in Nat /\ n = k + (n - k)
      BY <1>1, <1>3, <1>4
    <2> QED
      BY <2>1
  <1>6. r = j * u /\ j * u \in Nat
    <2>1. n * u = k * u + j * u /\ j * u \in Nat
      BY <1>3, <1>5
    <2> QED
      BY <1>1, <1>3, <2>1
  <1>7. j < m
    <2>1. SUFFICES ASSUME m <= j PROVE FALSE
      BY <1>1
    <2>2. m * u <= j * u
      BY <1>1, <2>1, TimesMonotone
    <2> QED
      BY <1>1, <1>6, <2>2
  <1>8. r + u <= d
    <2>1. (j + 1) * u <= m * u /\ (j + 1) * u = j * u + u
      BY <1>1, <1>7, TimesMonotone
    <2> QED
      BY <1>1, <1>6, <2>1
  <1>9. r + e \in 0..d - 1 /\ x + e = q * d + (r + e)
    BY <1>1, <1>2, <1>8
  <1>10. (x + e) % d = r + e
    <2>1. (q * d + (r + e)) % d = r + e
      BY <1>1, <1>9, DivUnique
    <2> QED
      BY ONLY <1>9, <2>1
  <1>11. x % d = r
    BY DEF r
  <1> QED
    BY ONLY <1>1, <1>9, <1>10, <1>11, x \in Nat, e \in 0..u - 1, u \in Nat, d \in Nat
=============================================================================
