------------------------------ MODULE SumLemmas -------------------------------
(* What the sums of module Sums do when a part is added, taken away or changed.  *)
EXTENDS Sums, Integers, FiniteSetTheorems, WellFoundedInduction, TLAPS

\* The units of one part are as many as it is worth.
LEMMA UnitsOfOne ==
  ASSUME NEW x, NEW n \in Nat
  PROVE  IsFiniteSet({x} \X (1..n)) /\ Cardinality({x} \X (1..n)) = n
<1>1. IsFiniteSet({x}) /\ Cardinality({x}) = 1
  BY FS_Singleton
<1>2. IsFiniteSet(1..n) /\ Cardinality(1..n) = n
  BY FS_Interval
<1>3. /\ IsFiniteSet({x} \X (1..n))
      /\ Cardinality({x} \X (1..n)) = Cardinality({x}) * Cardinality(1..n)
  BY <1>1, <1>2, FS_Product, Zenon
<1>4. QED
  BY <1>1, <1>2, <1>3

\* Finitely many parts have finitely many units.
LEMMA UnitsAreFinite ==
  ASSUME NEW S, IsFiniteSet(S), NEW f, \A x \in S : f[x] \in Nat
  PROVE  IsFiniteSet(Units(f, S))
<1> DEFINE Parts == {{x} \X (1..f[x]) : x \in S}
           g == [x \in S |-> {x} \X (1..f[x])]
<1>1. g \in Surjection(S, Parts)
  BY DEF Surjection
<1>2. IsFiniteSet(Parts)
  BY <1>1, FS_Surjection
<1>3. \A T \in Parts : IsFiniteSet(T)
  <2>1. \A x \in S : IsFiniteSet({x} \X (1..f[x]))
    BY UnitsOfOne
  <2>2. QED
    BY <2>1
<1>4. QED
  BY <1>2, <1>3, FS_UNION DEF Units

\* A sum is a natural number.
LEMMA TotalIsNat ==
  ASSUME NEW S, IsFiniteSet(S), NEW f, \A x \in S : f[x] \in Nat
  PROVE  TotalOf(f, S) \in Nat
BY UnitsAreFinite, FS_CardinalityType DEF TotalOf

\* Parts worth nothing add up to nothing.
LEMMA TotalOfNothing ==
  ASSUME NEW S, NEW f, \A x \in S : f[x] = 0
  PROVE  TotalOf(f, S) = 0
<1>1. \A x \in S : {x} \X (1..f[x]) = {}
  OBVIOUS
<1>2. Units(f, S) = {}
  BY <1>1 DEF Units
<1>3. QED
  BY <1>2, FS_EmptySet DEF TotalOf

\* Only the values of the parts count.
LEMMA TotalOfSame ==
  ASSUME NEW S, NEW f, NEW g, \A x \in S : f[x] = g[x]
  PROVE  TotalOf(f, S) = TotalOf(g, S)
<1>1. Units(f, S) = Units(g, S)
  BY DEF Units
<1>2. QED
  BY <1>1 DEF TotalOf

\* Another part adds what it is worth.
LEMMA TotalWithPart ==
  ASSUME NEW S, IsFiniteSet(S), NEW f, \A y \in S : f[y] \in Nat,
         NEW x, x \notin S, f[x] \in Nat
  PROVE  TotalOf(f, S \cup {x}) = TotalOf(f, S) + f[x]
<1> DEFINE New == {x} \X (1..f[x])
<1>1. Units(f, S \cup {x}) = Units(f, S) \cup New
  BY DEF Units
<1>2. Units(f, S) \cap New = {}
  BY DEF Units
<1>3. IsFiniteSet(Units(f, S)) /\ IsFiniteSet(New) /\ Cardinality(New) = f[x]
  BY UnitsAreFinite, UnitsOfOne
<1>4. Cardinality(Units(f, S) \cup New)
        = Cardinality(Units(f, S)) + Cardinality(New) - Cardinality(Units(f, S) \cap New)
  BY <1>3, FS_Union
<1>5. Cardinality(Units(f, S)) \in Nat
  BY <1>3, FS_CardinalityType
<1>6. Cardinality(Units(f, S) \cup New) = Cardinality(Units(f, S)) + f[x]
  <2>1. Cardinality(Units(f, S) \cap New) = 0
    BY <1>2, FS_EmptySet, Zenon
  <2> HIDE DEF New
  <2>2. QED
    BY <1>3, <1>4, <1>5, <2>1
<1>7. QED
  BY <1>1, <1>6 DEF TotalOf

\* Without one of its parts a sum is less by what that was worth.
LEMMA TotalWithoutPart ==
  ASSUME NEW S, IsFiniteSet(S), NEW f, \A y \in S : f[y] \in Nat, NEW x \in S
  PROVE  TotalOf(f, S) = TotalOf(f, S \ {x}) + f[x]
<1>1. IsFiniteSet(S \ {x}) /\ S = (S \ {x}) \cup {x}
  BY FS_RemoveElement
<1>2. TotalOf(f, (S \ {x}) \cup {x}) = TotalOf(f, S \ {x}) + f[x]
  BY <1>1, TotalWithPart
<1>3. QED
  BY <1>1, <1>2

\* One part changes: the sum moves by as much.
LEMMA TotalOfChange ==
  ASSUME NEW S, IsFiniteSet(S), NEW f, NEW g,
         \A y \in S : f[y] \in Nat /\ g[y] \in Nat,
         NEW x \in S, \A y \in S : y # x => f[y] = g[y]
  PROVE  TotalOf(g, S) = TotalOf(f, S) - f[x] + g[x]
<1>1. TotalOf(f, S \ {x}) = TotalOf(g, S \ {x})
  BY TotalOfSame
<1>2. /\ TotalOf(f, S) = TotalOf(f, S \ {x}) + f[x]
      /\ TotalOf(g, S) = TotalOf(g, S \ {x}) + g[x]
  BY TotalWithoutPart
<1>3. TotalOf(f, S \ {x}) \in Nat
  BY FS_RemoveElement, TotalIsNat
<1>4. QED
  BY <1>1, <1>2, <1>3

\* More parts, or the same parts worth more, do not make a sum less.
LEMMA TotalGrows ==
  ASSUME NEW S, IsFiniteSet(S), NEW T \in SUBSET S, NEW f, NEW g,
         \A x \in S : f[x] \in Nat /\ g[x] \in Nat,
         \A x \in T : f[x] <= g[x]
  PROVE  TotalOf(f, T) <= TotalOf(g, S)
<1>1. \A x \in T : 1..f[x] \subseteq 1..g[x]
  OBVIOUS
<1>2. Units(f, T) \subseteq Units(g, S)
  BY <1>1 DEF Units
<1>3. IsFiniteSet(Units(g, S))
  BY UnitsAreFinite
<1>4. QED
  BY <1>2, <1>3, FS_Subset DEF TotalOf

\* One of several counters goes up.
LEMMA TotalOfCounters ==
  ASSUME NEW S, IsFiniteSet(S), NEW f \in [S -> Nat], NEW s \in S, NEW q \in Nat
  PROVE  /\ TotalOf([f EXCEPT ![s] = @ + q], S) = TotalOf(f, S) + q
         /\ TotalOf(f, S) \in Nat
<1> DEFINE g == [f EXCEPT ![s] = @ + q]
<1>1. \A t \in S : f[t] \in Nat /\ g[t] \in Nat /\ (t # s => f[t] = g[t])
  OBVIOUS
<1>2. g[s] = f[s] + q
  OBVIOUS
<1>3. TotalOf(f, S) \in Nat
  BY <1>1, TotalIsNat
<1> HIDE DEF g
<1>4. TotalOf(g, S) = TotalOf(f, S) - f[s] + g[s]
  BY <1>1, TotalOfChange
<1>5. TotalOf(g, S) = TotalOf(f, S) + q
  BY <1>1, <1>2, <1>3, <1>4
<1>6. QED
  BY <1>3, <1>5 DEF g

--------------------------------------------------------------------------------
(* Induction over a finite set: the good sets are themselves a set, and of the   *)
(* good ones some leaves the fewest elements out, which are none.                *)

\* Some number of a set of them is the least.
LEMMA LeastOf ==
  ASSUME NEW T \in SUBSET Nat, T # {}
  PROVE  \E x \in T : \A y \in T : x <= y
<1> DEFINE R == {ss \in Nat \X Nat : ss[1] < ss[2]}
<1>1. IsWellFoundedOn(R, Nat)
  BY NatLessThanWellFounded DEF OpToRel
<1>2. PICK x \in T : \A y \in T : ~ (<<y, x>> \in R)
  BY <1>1, WFMin
<1>3. ASSUME NEW y \in T, y < x PROVE FALSE
  <2>1. <<y, x>> \in Nat \X Nat /\ <<y, x>>[1] < <<y, x>>[2]
    BY <1>3
  <2>2. <<y, x>> \in R
    BY ONLY <2>1
  <2> QED BY <1>2, <2>2
<1>4. \A y \in T : x \in Nat /\ y \in Nat /\ ~(y < x)
  BY <1>3
<1> QED BY <1>4

\* What holds of no elements, and of one more whenever it holds of some, holds of them all.
LEMMA BuildUp ==
  ASSUME NEW S, IsFiniteSet(S), NEW Good \in SUBSET (SUBSET S), {} \in Good,
         \A T \in Good : \A x \in S \ T : T \cup {x} \in Good
  PROVE  S \in Good
<1> DEFINE Left == {Cardinality(S \ T) : T \in Good}
<1>1. \A T \in Good : IsFiniteSet(S \ T) /\ Cardinality(S \ T) \in Nat
  BY FS_Subset, FS_CardinalityType
<1>2. Left \in SUBSET Nat /\ Left # {}
  BY <1>1
<1> HIDE DEF Left
<1>3. PICK n \in Left : \A m \in Left : n <= m
  BY <1>2, LeastOf
<1>4. PICK T \in Good : n = Cardinality(S \ T)
  BY <1>3 DEF Left
<1>5. ASSUME NEW x \in S \ T PROVE FALSE
  <2>1. T \cup {x} \in Good /\ S \ (T \cup {x}) = (S \ T) \ {x}
    BY <1>4, <1>5
  <2>2. Cardinality((S \ T) \ {x}) = n - 1
    <3>1. PICK left : left = S \ T
      OBVIOUS
    <3>2. IsFiniteSet(left) /\ x \in left /\ Cardinality(left) = n
      BY <1>1, <1>4, <1>5, <3>1
    <3>3. Cardinality(left \ {x}) = n - 1
      BY <3>2, FS_RemoveElement
    <3> QED BY <3>1, <3>3
  <2>3. Cardinality(S \ (T \cup {x})) \in Left
    BY <2>1 DEF Left
  <2>4. n \in Nat /\ n - 1 \in Left
    BY <1>2, <2>1, <2>2, <2>3
  <2>5. n <= n - 1
    BY <1>3, <2>4
  <2> QED BY <2>4, <2>5
<1> QED BY <1>4, <1>5

\* A total is the total of the totals of its groups.
LEMMA TotalOfGroups ==
  ASSUME NEW K, IsFiniteSet(K), NEW S, IsFiniteSet(S),
         NEW f, \A x \in S : f[x] \in Nat, NEW g, \A x \in S : g[x] \in K
  PROVE  TotalOf([k \in K |-> TotalOf(f, {x \in S : g[x] = k})], K) = TotalOf(f, S)
<1> DEFINE Group(T, k) == {x \in T : g[x] = k}
           sums(T) == [k \in K |-> TotalOf(f, Group(T, k))]
           Good == {T \in SUBSET S : TotalOf(sums(T), K) = TotalOf(f, T)}
<1>1. {} \in Good
  <2>1. \A k \in K : Group({}, k) = {}
    OBVIOUS
  <2>2. TotalOf(f, {}) = 0
    BY TotalOfNothing
  <2>3. \A k \in K : sums({})[k] = 0
    BY <2>1, <2>2
  <2>4. TotalOf(sums({}), K) = 0
    <3> HIDE DEF sums
    <3> QED BY <2>3, TotalOfNothing
  <2> QED BY <2>2, <2>4
<1>2. ASSUME NEW T \in Good, NEW x \in S \ T PROVE T \cup {x} \in Good
  <2>1. T \in SUBSET S /\ IsFiniteSet(T) /\ IsFiniteSet(T \cup {x}) /\ TotalOf(sums(T), K) = TotalOf(f, T)
    BY FS_Subset
  <2>2. TotalOf(f, T \cup {x}) = TotalOf(f, T) + f[x]
    BY <2>1, TotalWithPart
  <2>3. g[x] \in K /\ x \notin T /\ f[x] \in Nat
    OBVIOUS
  <2>4. /\ Group(T \cup {x}, g[x]) = Group(T, g[x]) \cup {x} /\ x \notin Group(T, g[x])
        /\ \A k \in K : k # g[x] => Group(T \cup {x}, k) = Group(T, k)
    BY <2>3
  <2>5. ASSUME NEW k \in K
        PROVE  /\ sums(T)[k] \in Nat
               /\ sums(T \cup {x})[k] = IF k = g[x] THEN sums(T)[k] + f[x] ELSE sums(T)[k]
    <3>1. IsFiniteSet(Group(T, k)) /\ \A y \in Group(T, k) : f[y] \in Nat
      <4>1. Group(T, k) \subseteq T
        OBVIOUS
      <4> QED BY <2>1, <4>1, FS_Subset
    <3>2. sums(T)[k] = TotalOf(f, Group(T, k)) /\ sums(T \cup {x})[k] = TotalOf(f, Group(T \cup {x}, k))
      OBVIOUS
    <3> HIDE DEF Group, sums
    <3>3. TotalOf(f, Group(T, k)) \in Nat
      BY <3>1, TotalIsNat
    <3>4. CASE k = g[x]
      <4>1. TotalOf(f, Group(T, k) \cup {x}) = TotalOf(f, Group(T, k)) + f[x]
        BY <2>3, <2>4, <3>1, <3>4, TotalWithPart
      <4> QED BY <2>4, <3>2, <3>3, <3>4, <4>1
    <3> QED BY <2>4, <3>2, <3>3, <3>4
  <2> HIDE DEF sums
  <2>6. PICK c \in K, n \in Nat : c = g[x] /\ n = f[x]
    BY <2>3
  <2>7. PICK before : before = sums(T)
    OBVIOUS
  <2>8. PICK after : after = sums(T \cup {x})
    OBVIOUS
  <2>9. \A k \in K : before[k] \in Nat /\ after[k] = IF k = c THEN before[k] + n ELSE before[k]
    BY <2>5, <2>6, <2>7, <2>8
  <2>10. (\A k \in K : before[k] \in Nat /\ after[k] \in Nat) /\ before[c] \in Nat /\ after[c] = before[c] + n
    BY <2>9
  <2>11. TotalOf(after, K) = TotalOf(before, K) - before[c] + after[c]
    BY <2>9, <2>10, TotalOfChange
  <2>12. TotalOf(before, K) \in Nat
    BY <2>10, TotalIsNat
  <2>13. TotalOf(sums(T \cup {x}), K) = TotalOf(f, T \cup {x})
    BY <2>1, <2>2, <2>6, <2>10, <2>11, <2>12, <2>7, <2>8
  <2> QED BY <2>1, <2>13
<1>3. Good \in SUBSET (SUBSET S) /\ \A T \in Good : \A x \in S \ T : T \cup {x} \in Good
  BY <1>2
<1> HIDE DEF Good
<1>4. S \in Good
  BY <1>1, <1>3, BuildUp
<1> QED BY <1>4 DEF Good

\* There are at most as many parts as their total, if none is nothing.
LEMMA PartsAtMostTotal ==
  ASSUME NEW S, IsFiniteSet(S), NEW f, \A x \in S : f[x] \in Nat \ {0}
  PROVE  Cardinality(S) \in Nat /\ Cardinality(S) <= TotalOf(f, S)
<1> DEFINE Good == {T \in SUBSET S : Cardinality(T) <= TotalOf(f, T)}
<1>1. {} \in Good
  <2>1. TotalOf(f, {}) = 0 /\ Cardinality({}) = 0
    BY TotalOfNothing, FS_EmptySet
  <2> QED BY <2>1
<1>2. ASSUME NEW T \in Good, NEW x \in S \ T PROVE T \cup {x} \in Good
  <2>1. T \in SUBSET S /\ IsFiniteSet(T) /\ Cardinality(T) \in Nat /\ Cardinality(T) <= TotalOf(f, T)
    BY FS_Subset, FS_CardinalityType
  <2>2. TotalOf(f, T \cup {x}) = TotalOf(f, T) + f[x] /\ TotalOf(f, T) \in Nat
    BY <2>1, TotalWithPart, TotalIsNat
  <2>3. Cardinality(T \cup {x}) = Cardinality(T) + 1
    BY <2>1, FS_AddElement
  <2> QED BY <2>1, <2>2, <2>3
<1>3. Good \in SUBSET (SUBSET S) /\ \A T \in Good : \A x \in S \ T : T \cup {x} \in Good
  BY <1>2
<1> HIDE DEF Good
<1>4. S \in Good
  BY <1>1, <1>3, BuildUp
<1> QED BY <1>4, FS_CardinalityType DEF Good

\* A finite set of numbers that is not empty has a greatest one.
LEMMA GreatestOf ==
  ASSUME NEW S \in SUBSET Nat, IsFiniteSet(S), S # {}
  PROVE  \E x \in S : \A y \in S : y <= x
<1> DEFINE Good == {T \in SUBSET S : T = {} \/ \E x \in T : \A y \in T : y <= x}
<1>1. ASSUME NEW T \in Good, NEW n \in S \ T PROVE T \cup {n} \in Good
  <2>1. n \in Nat /\ \A y \in T : y \in Nat
    OBVIOUS
  <2>2. CASE T = {}
    <3>1. \A y \in T \cup {n} : y <= n
      BY <2>1, <2>2
    <3> QED BY <3>1
  <2>3. CASE T # {}
    <3>1. PICK x \in T : \A y \in T : y <= x
      BY <2>3
    <3>2. CASE n <= x
      <4>1. \A y \in T \cup {n} : y <= x
        BY <3>1, <3>2
      <4> QED BY <4>1
    <3>3. CASE ~(n <= x)
      <4>1. \A y \in T \cup {n} : y <= n
        BY <2>1, <3>1, <3>3
      <4> QED BY <4>1
    <3> QED BY <3>2, <3>3
  <2> QED BY <2>2, <2>3
<1>2. {} \in Good /\ Good \in SUBSET (SUBSET S) /\ \A T \in Good : \A x \in S \ T : T \cup {x} \in Good
  BY <1>1
<1> HIDE DEF Good
<1>3. S \in Good
  BY <1>2, BuildUp
<1> QED BY <1>3 DEF Good

================================================================================
