------------------------------ MODULE Induction ------------------------------
(***************************************************************************)
(* Induction principles about sets rather than predicates, so that a proof *)
(* can apply them to a set it defines, and what they give about the folds  *)
(* of the community modules: minima, maxima and sums.  All rests on the    *)
(* well-foundedness of the order of the natural numbers.                   *)
(***************************************************************************)
EXTENDS Integers, FiniteSetsExt, FiniteSetTheorems, WellFoundedInduction, TLAPS

(* A nonempty set of natural numbers has a least element.                  *)
THEOREM LeastNatural ==
  ASSUME NEW T \in SUBSET Nat, T # {}
  PROVE  \E x \in T : \A y \in T : x <= y
<1> DEFINE R == OpToRel(<, Nat)
<1>1. PICK x \in T : \A y \in T : <<y, x>> \notin R
  <2>1. IsWellFoundedOn(R, Nat)
    BY NatLessThanWellFounded
  <2> HIDE DEF R
  <2> QED
    BY <2>1, WFMin
<1>2. \A y \in T : ~(y < x)
  BY <1>1 DEF OpToRel
<1> QED
  BY <1>2

(* One that is bounded has a greatest.                                     *)
THEOREM GreatestNatural ==
  ASSUME NEW n \in Nat, NEW T \in SUBSET (0..n), T # {}
  PROVE  \E x \in T : \A y \in T : x >= y
<1> DEFINE U == {n - t : t \in T}
<1>1. U \in SUBSET Nat /\ U # {}
  <2>1. \A t \in T : n - t \in Nat
    OBVIOUS
  <2>2. PICK t : t \in T
    OBVIOUS
  <2>3. n - t \in U
    BY <2>2
  <2> QED
    BY <2>1, <2>3
<1>2. PICK u \in U : \A y \in U : u <= y
  BY <1>1, LeastNatural
<1>3. PICK x \in T : u = n - x
  OBVIOUS
<1>4. ASSUME NEW y \in T
      PROVE  x >= y
  <2>1. n - x <= n - y
    BY <1>2, <1>3
  <2> QED
    BY <2>1
<1> QED
  BY <1>4

(* A set that has 0, and the successor of what it has below n, has 0..n.   *)
THEOREM InductionUpTo ==
  ASSUME NEW n \in Nat, NEW S, 0 \in S, \A k \in 0..(n - 1) : k \in S => k + 1 \in S
  PROVE  0..n \subseteq S
<1> SUFFICES ASSUME ~(0..n \subseteq S) PROVE FALSE
  OBVIOUS
<1>1. PICK x \in (0..n) \ S : \A y \in (0..n) \ S : x <= y
  <2>1. (0..n) \ S \in SUBSET Nat /\ (0..n) \ S # {}
    OBVIOUS
  <2> QED
    BY <2>1, LeastNatural
<1>2. x \in Nat /\ x # 0 /\ x <= n
  BY <1>1
<1>3. x - 1 \in 0..(n - 1) /\ x - 1 \in 0..n
  BY <1>2
<1>4. x - 1 \in S
  BY <1>1, <1>2, <1>3
<1>5. (x - 1) + 1 \in S
  BY <1>3, <1>4
<1>6. (x - 1) + 1 = x
  BY <1>2
<1> QED
  BY <1>1, <1>5, <1>6

(* What holds of a set if it holds of all smaller parts of it, holds of    *)
(* every part of a finite set.                                             *)
THEOREM SubsetInduction ==
  ASSUME NEW S, IsFiniteSet(S), NEW P,
         \A s \in SUBSET S : (\A t \in SUBSET s : t # s => t \in P) => s \in P
  PROVE  SUBSET S \subseteq P
<1> SUFFICES ASSUME ~(SUBSET S \subseteq P) PROVE FALSE
  OBVIOUS
<1> DEFINE B == (SUBSET S) \ P
           sizes == {Cardinality(s) : s \in B}
<1>1. \A s \in SUBSET S : IsFiniteSet(s) /\ Cardinality(s) \in Nat
  BY FS_Subset, FS_CardinalityType
<1>2. sizes \in SUBSET Nat /\ sizes # {}
  BY <1>1
<1>3. PICK n \in sizes : \A m \in sizes : n <= m
  BY <1>2, LeastNatural
<1>4. PICK s \in B : n = Cardinality(s)
  BY <1>3
<1>5. ASSUME NEW t \in SUBSET s, t # s
      PROVE  t \in P
  <2>1. Cardinality(t) <= Cardinality(s) /\ Cardinality(t) # Cardinality(s)
    BY <1>1, <1>5, FS_Subset
  <2>2. Cardinality(t) \in Nat /\ n \in Nat
    BY <1>1, <1>4
  <2>3. ~(n <= Cardinality(t))
    BY <1>4, <2>1, <2>2
  <2>4. t \notin B
    BY <1>3, <2>3
  <2> QED
    BY <2>4
<1> QED
  BY <1>5

-----------------------------------------------------------------------------
(* The community modules define minima and maxima by CHOOSE.               *)
THEOREM MinOfTwo ==
  ASSUME NEW a \in Int, NEW b \in Int
  PROVE  Min({a, b}) = IF a <= b THEN a ELSE b
<1>1. \E x \in {a, b} : \A y \in {a, b} : x =< y
  <2>1. CASE a <= b
    BY <2>1
  <2>2. CASE b <= a
    BY <2>2
  <2> QED
    BY <2>1, <2>2
<1> DEFINE P(x) == x \in {a, b} /\ \A y \in {a, b} : x =< y
<1>2. \E x : P(x)
  BY <1>1
<1>3. P(CHOOSE x : P(x))
  <2> HIDE DEF P
  <2> QED
    BY <1>2
<1>4. Min({a, b}) = CHOOSE x : P(x)
  BY DEF Min
<1> QED
  BY <1>3, <1>4

(* The same of a maximum.                                                  *)
THEOREM MaxOfTwo ==
  ASSUME NEW a \in Int, NEW b \in Int
  PROVE  Max({a, b}) = IF a >= b THEN a ELSE b
<1>1. \E x \in {a, b} : \A y \in {a, b} : x >= y
  <2>1. CASE a <= b
    BY <2>1
  <2>2. CASE b <= a
    BY <2>2
  <2> QED
    BY <2>1, <2>2
<1> DEFINE P(x) == x \in {a, b} /\ \A y \in {a, b} : x >= y
<1>2. \E x : P(x)
  BY <1>1
<1>3. P(CHOOSE x : P(x))
  <2> HIDE DEF P
  <2> QED
    BY <1>2
<1>4. Max({a, b}) = CHOOSE x : P(x)
  BY DEF Max
<1> QED
  BY <1>3, <1>4

(* The maximum of some numbers up to n is one of them.                     *)
THEOREM MaxIsBounded ==
  ASSUME NEW n \in Nat, NEW S \in SUBSET (0..n), S # {}
  PROVE  Max(S) \in 0..n
<1> DEFINE P(x) == x \in S /\ \A y \in S : x >= y
<1>1. \E x : P(x)
  BY GreatestNatural
<1>2. P(CHOOSE x : P(x))
  <2> HIDE DEF P
  <2> QED
    BY <1>1
<1>3. Max(S) = CHOOSE x : P(x)
  BY DEF Max
<1>4. (CHOOSE x : P(x)) \in S
  BY <1>2
<1> HIDE DEF P
<1>5. Max(S) \in S
  BY <1>3, <1>4
<1> QED
  BY <1>5

-----------------------------------------------------------------------------
(* Sums.  The fold takes the elements one by one, as CHOOSE picks them.    *)
Pick(s) == CHOOSE x \in s : TRUE

Adds(f, g, S) ==
  f = [s \in SUBSET S |-> IF s = {} THEN 0 ELSE g[Pick(s)] + f[s \ {Pick(s)}]]

LEMMA AddsAt ==
  ASSUME NEW f, NEW g, NEW S, Adds(f, g, S), NEW s \in SUBSET S
  PROVE  f[s] = IF s = {} THEN 0 ELSE g[Pick(s)] + f[s \ {Pick(s)}]
<1> DEFINE h == [t \in SUBSET S |-> IF t = {} THEN 0 ELSE g[Pick(t)] + f[t \ {Pick(t)}]]
<1>1. f = h
  BY DEF Adds
<1>2. h[s] = IF s = {} THEN 0 ELSE g[Pick(s)] + f[s \ {Pick(s)}]
  OBVIOUS
<1> HIDE DEF h
<1> QED
  BY <1>1, <1>2

LEMMA NextIsElement == ASSUME NEW s, s # {} PROVE Pick(s) \in s
  BY DEF Pick

(* Two such functions agree where both are defined.                        *)
LEMMA AddsAgree ==
  ASSUME NEW g, NEW h, NEW S, NEW T, NEW e, NEW f, Adds(e, g, S), Adds(f, h, T),
         NEW U, IsFiniteSet(U), U \subseteq S, U \subseteq T, \A x \in U : g[x] = h[x]
  PROVE  e[U] = f[U]
<1> DEFINE P == {s \in SUBSET U : e[s] = f[s]}
<1>1. ASSUME NEW s \in SUBSET U, \A t \in SUBSET s : t # s => t \in P
      PROVE  s \in P
  <2>1. /\ e[s] = IF s = {} THEN 0 ELSE g[Pick(s)] + e[s \ {Pick(s)}]
        /\ f[s] = IF s = {} THEN 0 ELSE h[Pick(s)] + f[s \ {Pick(s)}]
    <3>1. s \in SUBSET S /\ s \in SUBSET T
      OBVIOUS
    <3> QED
      BY <3>1, AddsAt
  <2>2. CASE s = {}
    BY <2>1, <2>2
  <2>3. CASE s # {}
    <3>1. PICK x \in s : x = Pick(s)
      BY <2>3, NextIsElement
    <3>2. s \ {x} \in P
      BY <1>1
    <3>3. g[x] = h[x]
      OBVIOUS
    <3> QED
      BY <2>1, <2>3, <3>1, <3>2, <3>3
  <2> QED
    BY <2>2, <2>3
<1>2. SUBSET U \subseteq P
  <2> HIDE DEF P
  <2> QED
    BY <1>1, SubsetInduction
<1> QED
  BY <1>2

(* There is one for every finite set.                                      *)
LEMMA AddsExists ==
  ASSUME NEW g, NEW S, IsFiniteSet(S)
  PROVE  \E f : Adds(f, g, S)
<1> DEFINE P == {s \in SUBSET S : \E f : Adds(f, g, s)}
           F(s) == CHOOSE f : Adds(f, g, s)
           val(s) == F(s)[s]
<1>1. ASSUME NEW s \in SUBSET S, \A t \in SUBSET s : t # s => t \in P
      PROVE  s \in P
  <2> DEFINE f == [u \in SUBSET s |-> IF u = {} THEN 0
                                      ELSE g[Pick(u)] + val(u \ {Pick(u)})]
  <2>1. ASSUME NEW u \in SUBSET s, u # s
        PROVE  val(u) = f[u]
    <3>1. Adds(F(u), g, u)
      BY <1>1, <2>1
    <3>2. F(u)[u] = IF u = {} THEN 0 ELSE g[Pick(u)] + F(u)[u \ {Pick(u)}]
      <4> HIDE DEF F
      <4>1. u \in SUBSET u
        OBVIOUS
      <4> QED
        BY <3>1, <4>1, AddsAt
    <3>3. CASE u = {}
      BY <3>2, <3>3
    <3>4. CASE u # {}
      <4>1. PICK x \in u : x = Pick(u)
        BY <3>4, NextIsElement
      <4>2. u \ {x} \in P
        BY <1>1, <2>1
      <4>3. Adds(F(u \ {x}), g, u \ {x})
        BY <4>2
      <4>4. IsFiniteSet(u \ {x})
        BY FS_Subset
      <4>5. F(u)[u \ {x}] = F(u \ {x})[u \ {x}]
        <5> HIDE DEF F
        <5> QED
          BY <3>1, <4>3, <4>4, AddsAgree
      <4> HIDE DEF F
      <4>6. f[u] = g[x] + val(u \ {x})
        BY <3>4, <4>1
      <4> QED
        BY <3>2, <3>4, <4>1, <4>5, <4>6
    <3> QED
      BY <3>3, <3>4
  <2>2. ASSUME NEW u \in SUBSET s
        PROVE  f[u] = IF u = {} THEN 0 ELSE g[Pick(u)] + f[u \ {Pick(u)}]
    <3>1. CASE u = {}
      BY <3>1
    <3>2. CASE u # {}
      <4>1. PICK x \in u : x = Pick(u)
        BY <3>2, NextIsElement
      <4>2. u \ {x} \in SUBSET s /\ u \ {x} # s
        OBVIOUS
      <4>3. val(u \ {x}) = f[u \ {x}]
        BY <2>1, <4>2
      <4>4. f[u] = g[x] + val(u \ {x})
        BY <3>2, <4>1
      <4> HIDE DEF f, val
      <4> QED
        BY <3>2, <4>1, <4>3, <4>4
    <3> QED
      BY <3>1, <3>2
  <2>3. f = [u \in SUBSET s |-> f[u]]
    OBVIOUS
  <2> HIDE DEF f
  <2>4. Adds(f, g, s)
    BY <2>2, <2>3 DEF Adds
  <2> QED
    BY <2>4
<1>2. SUBSET S \subseteq P
  <2> HIDE DEF P
  <2> QED
    BY <1>1, SubsetInduction
<1> QED
  BY <1>2

(* What the fold computes.                                                 *)
LEMMA SumAdds ==
  ASSUME NEW g, NEW S, IsFiniteSet(S)
  PROVE  \E f : Adds(f, g, S) /\ SumFunctionOnSet(g, S) = f[S]
<1>1. \E f : Adds(f, g, S)
  BY AddsExists
<1> DEFINE iter == CHOOSE f : Adds(f, g, S)
<1>2. Adds(iter, g, S)
  BY <1>1
<1>3. SumFunctionOnSet(g, S) = iter[S]
  BY DEF SumFunctionOnSet, FoldFunctionOnSet, MapThenFoldSet, Adds, Pick
<1> QED
  BY <1>2, <1>3

LEMMA SumOfPart ==
  ASSUME NEW g, NEW S, IsFiniteSet(S), NEW f, Adds(f, g, S), NEW T \in SUBSET S
  PROVE  SumFunctionOnSet(g, T) = f[T]
<1>1. IsFiniteSet(T)
  BY FS_Subset
<1>2. PICK e : Adds(e, g, T) /\ SumFunctionOnSet(g, T) = e[T]
  BY <1>1, SumAdds
<1>3. Adds(e, g, T)
  BY <1>2
<1>4. e[T] = f[T]
  BY <1>1, <1>3, AddsAgree
<1> QED
  BY <1>2, <1>4

(* A sum depends on the values it adds alone.                              *)
THEOREM SumOfEqual ==
  ASSUME NEW g, NEW h, NEW S, IsFiniteSet(S), \A x \in S : g[x] = h[x]
  PROVE  SumFunctionOnSet(g, S) = SumFunctionOnSet(h, S)
<1>1. PICK e : Adds(e, g, S) /\ SumFunctionOnSet(g, S) = e[S]
  BY SumAdds
<1>2. PICK f : Adds(f, h, S) /\ SumFunctionOnSet(h, S) = f[S]
  BY SumAdds
<1>3. Adds(e, g, S) /\ Adds(f, h, S)
  BY <1>1, <1>2
<1>4. e[S] = f[S]
  BY <1>3, AddsAgree
<1> QED
  BY <1>1, <1>2, <1>4

(* A sum of nothing.                                                       *)
THEOREM SumOfNone == ASSUME NEW g PROVE SumFunctionOnSet(g, {}) = 0
<1>1. IsFiniteSet({})
  BY FS_EmptySet
<1>2. PICK f : Adds(f, g, {}) /\ SumFunctionOnSet(g, {}) = f[{}]
  BY <1>1, SumAdds
<1>3. Adds(f, g, {}) /\ {} \in SUBSET {}
  BY <1>2
<1>4. f[{}] = 0
  BY <1>3, AddsAt
<1> QED
  BY <1>2, <1>4

(* Any element of the set may be the first to be added.                    *)
THEOREM SumStep ==
  ASSUME NEW g, NEW S, IsFiniteSet(S), \A x \in S : g[x] \in Nat
  PROVE  /\ SumFunctionOnSet(g, S) \in Nat
         /\ \A x \in S : SumFunctionOnSet(g, S) = g[x] + SumFunctionOnSet(g, S \ {x})
<1>1. PICK f : Adds(f, g, S) /\ SumFunctionOnSet(g, S) = f[S]
  BY SumAdds
<1>2. Adds(f, g, S)
  BY <1>1
<1> DEFINE P == {s \in SUBSET S : f[s] \in Nat /\ \A x \in s : f[s] = g[x] + f[s \ {x}]}
<1>3. ASSUME NEW s \in SUBSET S, \A t \in SUBSET s : t # s => t \in P
      PROVE  s \in P
  <2>1. f[s] = IF s = {} THEN 0 ELSE g[Pick(s)] + f[s \ {Pick(s)}]
    BY <1>2, AddsAt
  <2>2. CASE s = {}
    BY <2>1, <2>2
  <2>3. CASE s # {}
    <3>1. PICK y \in s : y = Pick(s)
      BY <2>3, NextIsElement
    <3>2. f[s] = g[y] + f[s \ {y}]
      BY <2>1, <2>3, <3>1
    <3>3. ASSUME NEW x \in s
          PROVE  f[s \ {x}] \in Nat
      BY <1>3
    <3>4. ASSUME NEW x \in s
          PROVE  f[s] = g[x] + f[s \ {x}]
      <4>1. CASE x = y
        BY <3>2, <4>1
      <4>2. CASE x # y
        <5>1. f[s \ {y}] = g[x] + f[(s \ {y}) \ {x}]
          BY <1>3, <4>2
        <5>2. f[s \ {x}] = g[y] + f[(s \ {x}) \ {y}]
          BY <1>3, <4>2
        <5>3. (s \ {y}) \ {x} = (s \ {x}) \ {y}
          OBVIOUS
        <5>4. PICK a \in Nat, b \in Nat : a = g[x] /\ b = g[y]
          OBVIOUS
        <5>5. PICK c \in Nat : c = f[(s \ {x}) \ {y}]
          <6>1. (s \ {x}) \ {y} \in P
            BY <1>3
          <6> QED
            BY <6>1
        <5> QED
          BY <3>2, <5>1, <5>2, <5>3, <5>4, <5>5
      <4> QED
        BY <4>1, <4>2
    <3>5. f[s] \in Nat
      BY <3>2, <3>3
    <3> QED
      BY <3>4, <3>5
  <2> QED
    BY <2>2, <2>3
<1>4. S \in P
  <2> HIDE DEF P
  <2>1. SUBSET S \subseteq P
    BY <1>3, SubsetInduction
  <2> QED
    BY <2>1
<1>5. ASSUME NEW x \in S
      PROVE  SumFunctionOnSet(g, S \ {x}) = f[S \ {x}]
  BY <1>2, SumOfPart
<1> QED
  BY <1>1, <1>4, <1>5

(* Adding more does not make the sum smaller.                              *)
THEOREM SumIsMonotone ==
  ASSUME NEW g, NEW S, IsFiniteSet(S), \A x \in S : g[x] \in Nat, NEW T \in SUBSET S
  PROVE  SumFunctionOnSet(g, T) <= SumFunctionOnSet(g, S)
<1> DEFINE P == {s \in SUBSET S :
                    \A t \in SUBSET s : SumFunctionOnSet(g, t) <= SumFunctionOnSet(g, s)}
<1>1. ASSUME NEW s \in SUBSET S, \A t \in SUBSET s : t # s => t \in P
      PROVE  s \in P
  <2> SUFFICES ASSUME NEW t \in SUBSET s
               PROVE  SumFunctionOnSet(g, t) <= SumFunctionOnSet(g, s)
    OBVIOUS
  <2>0. \A u \in SUBSET S : SumFunctionOnSet(g, u) \in Nat
    <3> SUFFICES ASSUME NEW u \in SUBSET S PROVE SumFunctionOnSet(g, u) \in Nat
      OBVIOUS
    <3>1. IsFiniteSet(u)
      BY FS_Subset
    <3> QED
      BY <3>1, SumStep
  <2>1. CASE t = s
    BY <2>0, <2>1
  <2>2. CASE t # s
    <3>1. PICK x \in s : x \notin t
      BY <2>2
    <3>2. SumFunctionOnSet(g, s) = g[x] + SumFunctionOnSet(g, s \ {x})
      <4>1. IsFiniteSet(s)
        BY FS_Subset
      <4> QED
        BY <4>1, SumStep
    <3>3. s \ {x} \in P /\ t \in SUBSET (s \ {x})
      BY <1>1, <3>1
    <3>4. SumFunctionOnSet(g, t) <= SumFunctionOnSet(g, s \ {x})
      BY <3>3
    <3>5. PICK a \in Nat, b \in Nat, c \in Nat :
            a = g[x] /\ b = SumFunctionOnSet(g, s \ {x}) /\ c = SumFunctionOnSet(g, t)
      BY <2>0
    <3> QED
      BY <3>2, <3>4, <3>5
  <2> QED
    BY <2>1, <2>2
<1>2. S \in P
  <2> HIDE DEF P
  <2>1. SUBSET S \subseteq P
    BY <1>1, SubsetInduction
  <2> QED
    BY <2>1
<1> QED
  BY <1>2

(* The sizes of the parts of a set add up to its size.                     *)
THEOREM SumOfSizes ==
  ASSUME NEW S, IsFiniteSet(S), NEW T, IsFiniteSet(T), NEW part \in [S -> T], NEW size,
         \A t \in T : size[t] = Cardinality({s \in S : part[s] = t})
  PROVE  SumFunctionOnSet(size, T) = Cardinality(S)
<1> DEFINE In(U) == {s \in S : part[s] \in U}
           P == {U \in SUBSET T : SumFunctionOnSet(size, U) = Cardinality(In(U))}
<1>0. \A U : IsFiniteSet(In(U)) /\ Cardinality(In(U)) \in Nat
  <2> SUFFICES ASSUME NEW U PROVE IsFiniteSet(In(U)) /\ Cardinality(In(U)) \in Nat
    OBVIOUS
  <2>1. In(U) \in SUBSET S
    OBVIOUS
  <2> HIDE DEF In
  <2> QED
    BY <2>1, FS_Subset, FS_CardinalityType
<1>1. ASSUME NEW t \in T
      PROVE  size[t] = Cardinality(In({t})) /\ size[t] \in Nat
  <2>1. In({t}) = {s \in S : part[s] = t}
    OBVIOUS
  <2> HIDE DEF In
  <2> QED
    BY <1>0, <2>1
<1>2. ASSUME NEW U \in SUBSET T, \A t \in SUBSET U : t # U => t \in P
      PROVE  U \in P
  <2>1. CASE U = {}
    <3>1. In(U) = {}
      BY <2>1
    <3> HIDE DEF In
    <3> QED
      BY <2>1, <3>1, SumOfNone, FS_EmptySet
  <2>2. CASE U # {}
    <3>1. PICK t : t \in U
      BY <2>2
    <3>2. U \ {t} \in P
      BY <1>2, <3>1
    <3>3. SumFunctionOnSet(size, U) = size[t] + SumFunctionOnSet(size, U \ {t})
      <4>1. IsFiniteSet(U) /\ \A x \in U : size[x] \in Nat
        BY <1>1, FS_Subset
      <4> QED
        BY <3>1, <4>1, SumStep
    <3>4. In(U) = In({t}) \cup In(U \ {t}) /\ In({t}) \cap In(U \ {t}) = {}
      BY <3>1
    <3>5. SumFunctionOnSet(size, U \ {t}) = Cardinality(In(U \ {t}))
      BY <3>2
    <3> HIDE DEF In
    <3>6. Cardinality(In(U)) = Cardinality(In({t})) + Cardinality(In(U \ {t}))
                                 - Cardinality(In({t}) \cap In(U \ {t}))
      BY <1>0, <3>4, FS_Union
    <3>7. Cardinality(In({t}) \cap In(U \ {t})) = 0
      BY <3>4, FS_EmptySet
    <3>8. PICK a \in Nat, b \in Nat : a = Cardinality(In({t})) /\ b = Cardinality(In(U \ {t}))
      BY <1>0
    <3>9. size[t] = a
      BY <1>1, <3>1, <3>8
    <3>10. Cardinality(In(U)) = a + b
      BY <3>6, <3>7, <3>8
    <3>11. SumFunctionOnSet(size, U) = a + b
      BY <3>3, <3>5, <3>8, <3>9
    <3> QED
      BY <3>10, <3>11
  <2> QED
    BY <2>1, <2>2
<1>3. T \in P
  <2> HIDE DEF P
  <2>1. SUBSET T \subseteq P
    BY <1>2, SubsetInduction
  <2> QED
    BY <2>1
<1>4. In(T) = S
  OBVIOUS
<1> HIDE DEF In
<1> QED
  BY <1>3, <1>4
=============================================================================
