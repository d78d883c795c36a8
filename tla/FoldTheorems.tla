---------------------------- MODULE FoldTheorems ----------------------------
(***************************************************************************)
(* Finite sums and induction over data, for the proof modules.             *)
(*                                                                         *)
(* A sum over a finite set is SumFunctionOnSet, a fold: MapThenFoldSet     *)
(* takes one element CHOOSEn from the set and folds the rest.  The lemmas  *)
(* below first show that a fold has exactly one solution and that the      *)
(* library's definition is it, then what sums of numbers do.               *)
(*                                                                         *)
(* The induction theorems of the library take an operator, so induction is *)
(* stated here for a set Q of the cases that hold: were it not everything  *)
(* there would be a least case outside it (WFMin, on the strict subsets of *)
(* a finite set or on intervals 0 .. n).                                   *)
(***************************************************************************)
EXTENDS Integers, FiniteSets, Functions, FiniteSetTheorems, WellFoundedInduction, TLAPS

-----------------------------------------------------------------------------
\* A set of subsets of a finite set has a member that contains no other.
LEMMA SmallestCounterexample ==
  ASSUME NEW S, IsFiniteSet(S), NEW Q \in SUBSET (SUBSET S), Q # {}
  PROVE  \E T \in Q : \A U \in Q : U \subseteq T => U = T
<1>1. FiniteSubsetsOf(S) = SUBSET S
  BY FS_FiniteSubsetsOfFinite
<1>2. IsWellFoundedOn(StrictSubsetOrdering(S), SUBSET S)
  BY <1>1, FS_StrictSubsetOrderingWellFounded
<1>3. \E T \in Q : \A U \in Q : <<U, T>> \notin StrictSubsetOrdering(S)
  BY <1>2, WFMin
<1>. QED  BY <1>3 DEF StrictSubsetOrdering

\* A set of naturals has a least member.
LEMMA LeastNumber ==
  ASSUME NEW T \in SUBSET Nat, T # {}
  PROVE  \E n \in T : \A m \in T : n =< m
<1>1. PICK k \in T : TRUE
  OBVIOUS
<1>. DEFINE Q == {0 .. n : n \in {m \in T : m =< k}}
<1>2. IsFiniteSet(0 .. k)
  BY FS_Interval
<1>3. Q \in SUBSET (SUBSET (0 .. k)) /\ Q # {}
  BY <1>1
<1>4. PICK n \in T : n =< k /\ \A U \in Q : U \subseteq 0 .. n => U = 0 .. n
  <2>1. PICK U \in Q : \A W \in Q : W \subseteq U => W = U
    <3>. DEFINE D == 0 .. k
    <3>1. IsFiniteSet(D) /\ Q \in SUBSET (SUBSET D) /\ Q # {}
      BY <1>2, <1>3
    <3>. HIDE DEF Q, D
    <3>. QED  BY <3>1, SmallestCounterexample
  <2>. QED  BY <2>1
<1>5. \A m \in T : m =< k => n =< m
  <2>. SUFFICES ASSUME NEW m \in T, m =< k, m < n  PROVE FALSE
    OBVIOUS
  <2>1. 0 .. m \in Q /\ 0 .. m \subseteq 0 .. n
    OBVIOUS
  <2>2. n \in 0 .. n /\ n \notin 0 .. m
    OBVIOUS
  <2>. QED  BY <1>4, <2>1, <2>2
<1>. QED  BY <1>4, <1>5

-----------------------------------------------------------------------------
FoldRule(it, S, base, c, h) ==
    \A s \in SUBSET S : it[s] = IF s = {} THEN base ELSE h[<<s, it[s \ {c[s]}]>>]

\* Two solutions of one fold agree on every subset.
LEMMA FoldUnique ==
  ASSUME NEW S, IsFiniteSet(S), NEW c, \A s \in SUBSET S : s # {} => c[s] \in s,
         NEW base, NEW h, NEW g, NEW k, FoldRule(g, S, base, c, h), FoldRule(k, S, base, c, h),
         NEW s \in SUBSET S
  PROVE  g[s] = k[s]
<1>. DEFINE Q == {t \in SUBSET S : g[t] # k[t]}
<1>. SUFFICES ASSUME Q # {} PROVE FALSE
  OBVIOUS
<1>1. PICK t \in Q : \A u \in Q : u \subseteq t => u = t
  <2>1. Q \in SUBSET (SUBSET S)
    OBVIOUS
  <2>. HIDE DEF Q
  <2>. QED  BY <2>1, SmallestCounterexample
<1>2. t # {}
  BY DEF FoldRule
<1>3. t \ {c[t]} \in SUBSET S /\ t \ {c[t]} \notin Q
  BY <1>1, <1>2
<1>. QED  BY <1>2, <1>3 DEF FoldRule

FoldSolves(g, S, V, base, c, h) == g \in [SUBSET S -> V] /\ FoldRule(g, S, base, c, h)
FoldSolution(S, V, base, c, h) == CHOOSE g : FoldSolves(g, S, V, base, c, h)
FoldUnsolved(S, V, base, c, h) == {s \in SUBSET S : ~\E g : FoldSolves(g, s, V, base, c, h)}

\* A fold has a solution: the smallest subset without one would have one,
\* put together from the solution of what is left when its pick is removed.
LEMMA FoldExists ==
  ASSUME NEW S, IsFiniteSet(S), NEW c, \A s \in SUBSET S : s # {} => c[s] \in s,
         NEW V, NEW base \in V, NEW h, \A s \in SUBSET S, v \in V : h[<<s, v>>] \in V
  PROVE  \E it \in [SUBSET S -> V] : FoldRule(it, S, base, c, h)
<1>. DEFINE Sol(s) == FoldSolution(s, V, base, c, h)
            Val(s) == Sol(s)[s]
            Q == FoldUnsolved(S, V, base, c, h)
<1>1. ASSUME NEW s \in SUBSET S, s \notin Q
      PROVE  FoldRule(Sol(s), s, base, c, h) /\ Val(s) \in V
  <2>1. FoldSolves(Sol(s), s, V, base, c, h)
    BY <1>1 DEF FoldUnsolved, FoldSolution
  <2>. QED  BY <2>1 DEF FoldSolves
<1>2. ASSUME NEW s \in SUBSET S, NEW u \in SUBSET s, s \notin Q, u \notin Q
      PROVE  Sol(s)[u] = Val(u)
  <2>1. FoldRule(Sol(s), s, base, c, h) /\ FoldRule(Sol(u), u, base, c, h)
    BY <1>1, <1>2
  <2>2. FoldRule(Sol(s), u, base, c, h)
    BY <2>1 DEF FoldRule
  <2>3. IsFiniteSet(u) /\ u \in SUBSET u /\ \A t \in SUBSET u : t # {} => c[t] \in t
    BY FS_Subset
  <2>. HIDE DEF Sol
  <2>. QED  BY <2>1, <2>2, <2>3, FoldUnique
<1>. SUFFICES ASSUME Q # {} PROVE FALSE
  BY DEF FoldUnsolved, FoldSolves
<1>3. PICK T \in Q : \A u \in Q : u \subseteq T => u = T
  <2>1. Q \in SUBSET (SUBSET S)
    BY DEF FoldUnsolved
  <2>. HIDE DEF Q
  <2>. QED  BY <2>1, SmallestCounterexample
<1>4. T \in SUBSET S
  BY DEF FoldUnsolved
<1>. DEFINE g == [s \in SUBSET T |-> IF s = {} THEN base ELSE h[<<s, Val(s \ {c[s]})>>]]
<1>5. ASSUME NEW s \in SUBSET T, s # {}
      PROVE  c[s] \in s /\ s \ {c[s]} \in SUBSET T /\ s \ {c[s]} \notin Q
  <2>. HIDE DEF Q
  <2>. QED  BY <1>3, <1>4, <1>5
<1>6. g \in [SUBSET T -> V]
  <2>1. ASSUME NEW s \in SUBSET T, s # {}  PROVE h[<<s, Val(s \ {c[s]})>>] \in V
    <3>. HIDE DEF Q, Val
    <3>. QED BY <1>1, <1>4, <1>5, <2>1
  <2>. QED  BY <2>1
<1>7. ASSUME NEW s \in SUBSET T, s # {}
      PROVE  g[s \ {c[s]}] = Val(s \ {c[s]})
  <2>. DEFINE u == s \ {c[s]}
  <2>1. u \in SUBSET T /\ u \in SUBSET S /\ u \notin Q
    BY <1>4, <1>5, <1>7
  <2>2. FoldRule(Sol(u), u, base, c, h)
    <3>. HIDE DEF Sol, Q, u
    <3>. QED  BY <1>1, <2>1
  <2>3. CASE u = {}
    BY <2>2, <2>3 DEF FoldRule
  <2>4. CASE u # {}
    <3>1. u \ {c[u]} \in SUBSET u /\ u \ {c[u]} \notin Q
      <4>. HIDE DEF Q, u
      <4>. QED  BY <1>5, <2>1, <2>4
    <3>2. Sol(u)[u \ {c[u]}] = Val(u \ {c[u]})
      <4>. HIDE DEF Sol, Q, u
      <4>. QED BY <1>2, <2>1, <3>1
    <3>3. Val(u) = h[<<u, Sol(u)[u \ {c[u]}]>>]
      <4>. HIDE DEF Sol, u
      <4>. QED  BY <2>2, <2>4 DEF FoldRule
    <3>4. g[u] = h[<<u, Val(u \ {c[u]})>>]
      <4>. HIDE DEF Val, u
      <4>. QED  BY <2>1, <2>4
    <3>. HIDE DEF Val, Sol, g
    <3>. QED  BY <3>2, <3>3, <3>4
  <2>. QED  BY <2>3, <2>4
<1>8. FoldRule(g, T, base, c, h)
  <2>. SUFFICES ASSUME NEW s \in SUBSET T
                PROVE  g[s] = IF s = {} THEN base ELSE h[<<s, g[s \ {c[s]}]>>]
    BY DEF FoldRule
  <2>1. g[s] = IF s = {} THEN base ELSE h[<<s, Val(s \ {c[s]})>>]
    <3>. HIDE DEF Val
    <3>. QED  OBVIOUS
  <2>. HIDE DEF g, Val
  <2>. QED BY <1>7, <2>1
<1>9. T \notin Q
  <2>. HIDE DEF g
  <2>. QED  BY <1>6, <1>8 DEF FoldUnsolved, FoldSolves
<1>. QED  BY <1>9

-----------------------------------------------------------------------------
\* Induction on the subsets of a finite set.
LEMMA SetInduction ==
  ASSUME NEW S, IsFiniteSet(S), NEW Q, {} \in Q,
         \A s \in SUBSET S : (s # {} /\ \A x \in s : s \ {x} \in Q) => s \in Q
  PROVE  \A s \in SUBSET S : s \in Q
<1>. DEFINE Bad == {s \in SUBSET S : s \notin Q}
<1>. SUFFICES ASSUME Bad # {} PROVE FALSE
  OBVIOUS
<1>1. PICK s \in Bad : \A u \in Bad : u \subseteq s => u = s
  <2>1. Bad \in SUBSET (SUBSET S)
    OBVIOUS
  <2>. HIDE DEF Bad
  <2>. QED  BY <2>1, SmallestCounterexample
<1>2. \A x \in s : s \ {x} \in SUBSET S /\ s \ {x} \notin Bad
  BY <1>1
<1>. QED  BY <1>1, <1>2

\* Induction on the naturals.
LEMMA NumberInduction ==
  ASSUME NEW Q, 0 \in Q, \A n \in Nat : n \in Q => n + 1 \in Q
  PROVE  \A n \in Nat : n \in Q
<1>. DEFINE Bad == {n \in Nat : n \notin Q}
<1>. SUFFICES ASSUME Bad # {} PROVE FALSE
  OBVIOUS
<1>1. PICK n \in Bad : \A m \in Bad : n =< m
  <2>1. Bad \in SUBSET Nat
    OBVIOUS
  <2>. HIDE DEF Bad
  <2>. QED  BY <2>1, LeastNumber
<1>2. n # 0 /\ n - 1 \in Nat /\ n - 1 \in Q
  BY <1>1
<1>. QED  BY <1>1, <1>2

-----------------------------------------------------------------------------
Picked(s) == CHOOSE x \in s : TRUE
SumSolves(it, S, f) ==
    /\ it \in [SUBSET S -> Int] /\ it[{}] = 0
    /\ \A s \in SUBSET S : \A x \in s : it[s] = f[x] + it[s \ {x}]

\* The library's sum is a solution of the fold that adds.
LEMMA SumRule ==
  ASSUME NEW S, IsFiniteSet(S), NEW f, \A x \in S : f[x] \in Int
  PROVE  \E it : SumSolves(it, S, f) /\ it[S] = SumFunctionOnSet(f, S)
<1>. DEFINE c == [s \in SUBSET S |-> Picked(s)]
            h == [p \in (SUBSET S) \X Int |-> IF p[1] = {} THEN 0 ELSE f[Picked(p[1])] + p[2]]
            Rule(it) == it = [s \in SUBSET S |-> IF s = {} THEN 0
                                                ELSE f[Picked(s)] + it[s \ {Picked(s)}]]
            sum == CHOOSE it : Rule(it)
<1>1. \A s \in SUBSET S : s # {} => Picked(s) \in s
  BY DEF Picked
<1>2. \A s \in SUBSET S : s # {} => f[Picked(s)] \in Int
  BY <1>1
<1>3. PICK g \in [SUBSET S -> Int] : FoldRule(g, S, 0, c, h)
  <2>1. \A s \in SUBSET S : s # {} => c[s] \in s
    BY <1>1
  <2>2. \A s \in SUBSET S, v \in Int : h[<<s, v>>] \in Int
    BY <1>2
  <2>. DEFINE V == Int  zero == 0
  <2>3. zero \in V
    OBVIOUS
  <2>4. \A s \in SUBSET S, v \in V : h[<<s, v>>] \in V
    <3>. HIDE DEF h
    <3>. QED  BY <2>2
  <2>5. \E it \in [SUBSET S -> V] : FoldRule(it, S, zero, c, h)
    <3>. HIDE DEF c, h, V, zero
    <3>. QED  BY <2>1, <2>3, <2>4, FoldExists
  <2>. QED  BY <2>5
<1>4. \A s \in SUBSET S : s # {} => g[s] = f[Picked(s)] + g[s \ {Picked(s)}]
  BY <1>3 DEF FoldRule
<1>5. g[{}] = 0
  BY <1>3 DEF FoldRule
<1>6. Rule(g)
  BY <1>3, <1>4, <1>5
<1>7. Rule(sum)
  BY <1>6
<1>8. SumFunctionOnSet(f, S) = sum[S]
  BY DEF SumFunctionOnSet, FoldFunctionOnSet, MapThenFoldSet, Picked
<1>9. sum[S] = g[S]
  <2>. DEFINE Q == {s \in SUBSET S : sum[s] = g[s]}
  <2>1. {} \in Q
    BY <1>5, <1>7
  <2>2. ASSUME NEW s \in SUBSET S, s # {}, \A x \in s : s \ {x} \in Q  PROVE s \in Q
    <3>1. sum[s] = f[Picked(s)] + sum[s \ {Picked(s)}]
      BY <1>7, <2>2
    <3>. HIDE DEF sum
    <3>. QED  BY <1>1, <1>4, <2>2, <3>1
  <2>. HIDE DEF Q
  <2>3. \A s \in SUBSET S : s \in Q
    BY <2>1, <2>2, SetInduction
  <2>. QED  BY <2>3 DEF Q
<1>10. SumSolves(g, S, f)
  <2>. DEFINE Q == {s \in SUBSET S : \A x \in s : g[s] = f[x] + g[s \ {x}]}
  <2>1. {} \in Q
    OBVIOUS
  <2>2. ASSUME NEW s \in SUBSET S, s # {}, \A x \in s : s \ {x} \in Q  PROVE s \in Q
    <3>. SUFFICES ASSUME NEW x \in s  PROVE g[s] = f[x] + g[s \ {x}]
      OBVIOUS
    <3>. DEFINE y == Picked(s)
    <3>1. y \in s /\ g[s] = f[y] + g[s \ {y}]
      BY <1>1, <1>4, <2>2
    <3>. HIDE DEF y
    <3>2. CASE x = y
      BY <3>1, <3>2
    <3>3. CASE x # y
      <4>1. s \ {y} \in Q /\ s \ {x} \in Q
        BY <2>2, <3>1
      <4>2. g[s \ {y}] = f[x] + g[(s \ {y}) \ {x}]
        BY <3>3, <4>1
      <4>3. g[s \ {x}] = f[y] + g[(s \ {x}) \ {y}]
        BY <3>1, <3>3, <4>1
      <4>4. (s \ {y}) \ {x} = (s \ {x}) \ {y}
        OBVIOUS
      <4>5. g[(s \ {y}) \ {x}] \in Int /\ f[x] \in Int /\ f[y] \in Int
        BY <1>3, <3>1
      <4>. DEFINE a == g[(s \ {y}) \ {x}]
      <4>6. g[s \ {y}] = f[x] + a /\ g[s \ {x}] = f[y] + a
        BY <4>2, <4>3, <4>4
      <4>. HIDE DEF a
      <4>. QED  BY <3>1, <4>5, <4>6 DEF a
    <3>. QED  BY <3>2, <3>3
  <2>. HIDE DEF Q
  <2>3. \A s \in SUBSET S : s \in Q
    BY <2>1, <2>2, SetInduction
  <2>4. \A s \in SUBSET S : \A x \in s : g[s] = f[x] + g[s \ {x}]
    BY <2>3 DEF Q
  <2>. QED  BY <1>3, <1>5, <2>4 DEF SumSolves
<1>. QED  BY <1>8, <1>9, <1>10

\* The sum over nothing is zero.
LEMMA SumEmpty ==
  ASSUME NEW f
  PROVE  SumFunctionOnSet(f, {}) = 0
<1>1. PICK g : SumSolves(g, {}, f) /\ g[{}] = SumFunctionOnSet(f, {})
  BY FS_EmptySet, SumRule
<1>. QED  BY <1>1 DEF SumSolves

\* A sum is any one of its terms and the sum of the others.
LEMMA SumRemove ==
  ASSUME NEW S, IsFiniteSet(S), NEW f, \A x \in S : f[x] \in Int
  PROVE  /\ SumFunctionOnSet(f, S) \in Int
         /\ \A x \in S : SumFunctionOnSet(f, S) = f[x] + SumFunctionOnSet(f, S \ {x})
<1>1. PICK g : SumSolves(g, S, f) /\ g[S] = SumFunctionOnSet(f, S)
  BY SumRule
<1>2. SumFunctionOnSet(f, S) \in Int
  BY <1>1 DEF SumSolves
<1>3. ASSUME NEW x \in S
      PROVE  SumFunctionOnSet(f, S) = f[x] + SumFunctionOnSet(f, S \ {x})
  <2>. DEFINE T == S \ {x}
  <2>1. IsFiniteSet(T) /\ \A y \in T : f[y] \in Int
    BY FS_Subset
  <2>2. PICK k : SumSolves(k, T, f) /\ k[T] = SumFunctionOnSet(f, T)
    <3>. HIDE DEF T
    <3>. QED  BY <2>1, SumRule
  <2>. DEFINE Q == {s \in SUBSET T : g[s] = k[s]}
  <2>3. {} \in Q
    BY <1>1, <2>2 DEF SumSolves
  <2>4. ASSUME NEW s \in SUBSET T, s # {}, \A y \in s : s \ {y} \in Q  PROVE s \in Q
    <3>1. PICK y \in s : TRUE
      BY <2>4
    <3>2. g[s] = f[y] + g[s \ {y}]
      BY <1>1, <3>1 DEF SumSolves
    <3>3. k[s] = f[y] + k[s \ {y}]
      BY <2>2, <3>1 DEF SumSolves
    <3>. QED  BY <2>4, <3>1, <3>2, <3>3
  <2>5. \A s \in SUBSET T : s \in Q
    <3>. HIDE DEF Q, T
    <3>. QED  BY <2>1, <2>3, <2>4, SetInduction
  <2>6. g[T] = SumFunctionOnSet(f, T)
    <3>. HIDE DEF T
    <3>. QED BY <2>2, <2>5
  <2>7. g[S] = f[x] + g[S \ {x}]
    BY <1>1 DEF SumSolves
  <2>. QED  BY <1>1, <2>6, <2>7
<1>. QED  BY <1>2, <1>3

\* What a sum over a set is, put one element at a time: every induction below.
SumsOver(S, f) ==
    /\ SumFunctionOnSet(f, {}) = 0
    /\ \A s \in SUBSET S : /\ SumFunctionOnSet(f, s) \in Int
                           /\ \A x \in s : /\ f[x] \in Int
                                            /\ SumFunctionOnSet(f, s)
                                                 = f[x] + SumFunctionOnSet(f, s \ {x})

\* The same of every part of the set at once.
LEMMA SumParts ==
  ASSUME NEW S, IsFiniteSet(S), NEW f, \A x \in S : f[x] \in Int
  PROVE  SumsOver(S, f)
<1>1. SumFunctionOnSet(f, {}) = 0
  BY SumEmpty
<1>2. ASSUME NEW s \in SUBSET S
      PROVE  /\ SumFunctionOnSet(f, s) \in Int
             /\ \A x \in s : /\ f[x] \in Int
                              /\ SumFunctionOnSet(f, s) = f[x] + SumFunctionOnSet(f, s \ {x})
  <2>1. IsFiniteSet(s) /\ \A x \in s : f[x] \in Int
    BY FS_Subset
  <2>. QED  BY <2>1, SumRemove
<1>. QED  BY <1>1, <1>2 DEF SumsOver

\* Terms that are no greater sum to no more.
LEMMA SumLeq ==
  ASSUME NEW S, IsFiniteSet(S), NEW f, NEW g,
         \A x \in S : f[x] \in Int /\ g[x] \in Int /\ f[x] =< g[x]
  PROVE  SumFunctionOnSet(f, S) =< SumFunctionOnSet(g, S)
<1>1. SumsOver(S, f) /\ SumsOver(S, g)
  BY SumParts
<1>. DEFINE Q == {s \in SUBSET S : SumFunctionOnSet(f, s) =< SumFunctionOnSet(g, s)}
<1>2. {} \in Q
  BY <1>1 DEF SumsOver
<1>3. ASSUME NEW s \in SUBSET S, s # {}, \A x \in s : s \ {x} \in Q  PROVE s \in Q
  <2>1. PICK x \in s : TRUE
    BY <1>3
  <2>. DEFINE a == SumFunctionOnSet(f, s \ {x})  b == SumFunctionOnSet(g, s \ {x})
  <2>2. /\ SumFunctionOnSet(f, s) = f[x] + a /\ SumFunctionOnSet(g, s) = g[x] + b
        /\ a \in Int /\ b \in Int /\ a =< b
    BY <1>1, <1>3, <2>1 DEF SumsOver
  <2>. HIDE DEF a, b
  <2>. QED  BY <2>1, <2>2
<1>4. \A s \in SUBSET S : s \in Q
  <2>. HIDE DEF Q
  <2>. QED  BY <1>2, <1>3, SetInduction
<1>. QED  BY <1>4

\* The same terms have the same sum.
LEMMA SumEqual ==
  ASSUME NEW S, IsFiniteSet(S), NEW f, NEW g,
         \A x \in S : f[x] \in Int /\ g[x] = f[x]
  PROVE  SumFunctionOnSet(f, S) = SumFunctionOnSet(g, S)
<1>1. SumsOver(S, f) /\ SumsOver(S, g)
  BY SumParts
<1>2. SumFunctionOnSet(f, S) \in Int /\ SumFunctionOnSet(g, S) \in Int
  BY <1>1 DEF SumsOver
<1>3. SumFunctionOnSet(f, S) =< SumFunctionOnSet(g, S)
  BY SumLeq
<1>4. SumFunctionOnSet(g, S) =< SumFunctionOnSet(f, S)
  BY SumLeq
<1>. QED  BY <1>2, <1>3, <1>4

\* The sum of sums is the sum of the two.
LEMMA SumAdds ==
  ASSUME NEW S, IsFiniteSet(S), NEW f, NEW g, NEW h,
         \A x \in S : f[x] \in Int /\ g[x] \in Int /\ h[x] = f[x] + g[x]
  PROVE  SumFunctionOnSet(h, S) = SumFunctionOnSet(f, S) + SumFunctionOnSet(g, S)
<1>1. SumsOver(S, f) /\ SumsOver(S, g) /\ SumsOver(S, h)
  BY SumParts
<1>. DEFINE Q == {s \in SUBSET S : SumFunctionOnSet(h, s)
                                      = SumFunctionOnSet(f, s) + SumFunctionOnSet(g, s)}
<1>2. {} \in Q
  BY <1>1 DEF SumsOver
<1>3. ASSUME NEW s \in SUBSET S, s # {}, \A x \in s : s \ {x} \in Q  PROVE s \in Q
  <2>1. PICK x \in s : TRUE
    BY <1>3
  <2>. DEFINE a == SumFunctionOnSet(f, s \ {x})  b == SumFunctionOnSet(g, s \ {x})
  <2>2. /\ SumFunctionOnSet(f, s) = f[x] + a /\ SumFunctionOnSet(g, s) = g[x] + b
        /\ a \in Int /\ b \in Int /\ SumFunctionOnSet(h, s) = h[x] + (a + b)
    BY <1>1, <1>3, <2>1 DEF SumsOver
  <2>. HIDE DEF a, b
  <2>. QED  BY <2>1, <2>2
<1>4. \A s \in SUBSET S : s \in Q
  <2>. HIDE DEF Q
  <2>. QED  BY <1>2, <1>3, SetInduction
<1>. QED  BY <1>4

\* A sum of ones counts the set.
LEMMA SumCounts ==
  ASSUME NEW S, IsFiniteSet(S), NEW f, \A x \in S : f[x] = 1
  PROVE  SumFunctionOnSet(f, S) = Cardinality(S)
<1>1. SumsOver(S, f)
  BY SumParts
<1>. DEFINE Q == {s \in SUBSET S : SumFunctionOnSet(f, s) = Cardinality(s)}
<1>2. {} \in Q
  BY <1>1, FS_EmptySet DEF SumsOver
<1>3. ASSUME NEW s \in SUBSET S, s # {}, \A x \in s : s \ {x} \in Q  PROVE s \in Q
  <2>1. PICK x \in s : TRUE
    BY <1>3
  <2>2. SumFunctionOnSet(f, s) = 1 + Cardinality(s \ {x})
    BY <1>1, <1>3, <2>1 DEF SumsOver
  <2>3. /\ Cardinality(s) \in Nat /\ Cardinality(s \ {x}) = Cardinality(s) - 1
    BY <2>1, FS_Subset, FS_RemoveElement, FS_CardinalityType
  <2>. QED  BY <2>2, <2>3
<1>4. \A s \in SUBSET S : s \in Q
  <2>. HIDE DEF Q
  <2>. QED  BY <1>2, <1>3, SetInduction
<1>. QED  BY <1>4

\* A part of a set of naturals sums to no more than the whole.
LEMMA SumGrows ==
  ASSUME NEW S, IsFiniteSet(S), NEW f, \A x \in S : f[x] \in Nat, NEW T \in SUBSET S
  PROVE  /\ SumFunctionOnSet(f, S) \in Nat
         /\ SumFunctionOnSet(f, T) \in Nat
         /\ SumFunctionOnSet(f, T) =< SumFunctionOnSet(f, S)
<1>1. SumsOver(S, f)
  BY SumParts
<1>. DEFINE Q == {s \in SUBSET S : SumFunctionOnSet(f, s) \in Nat}
            R == {s \in SUBSET S : T \subseteq s
                                    => SumFunctionOnSet(f, T) =< SumFunctionOnSet(f, s)}
<1>2. {} \in Q
  BY <1>1 DEF SumsOver
<1>3. ASSUME NEW s \in SUBSET S, s # {}, \A x \in s : s \ {x} \in Q  PROVE s \in Q
  <2>1. PICK x \in s : TRUE
    BY <1>3
  <2>2. SumFunctionOnSet(f, s) = f[x] + SumFunctionOnSet(f, s \ {x})
    BY <1>1, <1>3, <2>1 DEF SumsOver
  <2>. QED  BY <1>3, <2>1, <2>2
<1>4. \A s \in SUBSET S : s \in Q
  <2>. HIDE DEF Q
  <2>. QED  BY <1>2, <1>3, SetInduction
<1>5. {} \in R
  BY <1>1, <1>4
<1>6. ASSUME NEW s \in SUBSET S, s # {}, \A x \in s : s \ {x} \in R  PROVE s \in R
  <2>. SUFFICES ASSUME T \subseteq s, T # s
                PROVE  SumFunctionOnSet(f, T) =< SumFunctionOnSet(f, s)
    BY <1>4
  <2>1. PICK x \in s : x \notin T
    OBVIOUS
  <2>2. SumFunctionOnSet(f, s) = f[x] + SumFunctionOnSet(f, s \ {x})
    BY <1>1, <1>6, <2>1 DEF SumsOver
  <2>3. SumFunctionOnSet(f, T) =< SumFunctionOnSet(f, s \ {x})
    BY <1>6, <2>1
  <2>. QED  BY <1>4, <2>1, <2>2, <2>3
<1>7. \A s \in SUBSET S : s \in R
  <2>. HIDE DEF R
  <2>. QED  BY <1>5, <1>6, SetInduction
<1>. QED  BY <1>4, <1>7

\* A sum lies between its number of terms times the least and the greatest.
LEMMA SumBounds ==
  ASSUME NEW S, IsFiniteSet(S), NEW f, NEW lo \in Int, NEW hi \in Int,
         \A x \in S : f[x] \in Int /\ lo =< f[x] /\ f[x] =< hi
  PROVE  /\ SumFunctionOnSet(f, S) \in Int
         /\ lo * Cardinality(S) =< SumFunctionOnSet(f, S)
         /\ SumFunctionOnSet(f, S) =< hi * Cardinality(S)
<1>1. SumsOver(S, f)
  BY SumParts
<1>. DEFINE Q == {s \in SUBSET S : /\ lo * Cardinality(s) =< SumFunctionOnSet(f, s)
                                   /\ SumFunctionOnSet(f, s) =< hi * Cardinality(s)}
<1>2. {} \in Q
  BY <1>1, FS_EmptySet DEF SumsOver
<1>3. ASSUME NEW s \in SUBSET S, s # {}, \A x \in s : s \ {x} \in Q  PROVE s \in Q
  <2>1. PICK x \in s : TRUE
    BY <1>3
  <2>. DEFINE a == SumFunctionOnSet(f, s \ {x})  k == Cardinality(s \ {x})
  <2>2. SumFunctionOnSet(f, s) = f[x] + a /\ a \in Int
    BY <1>1, <1>3, <2>1 DEF SumsOver
  <2>3. k \in Nat /\ Cardinality(s) = k + 1
    <3>1. /\ IsFiniteSet(s) /\ IsFiniteSet(s \ {x})
          /\ Cardinality(s \ {x}) = Cardinality(s) - 1
      BY <2>1, FS_Subset, FS_RemoveElement
    <3>. QED  BY <3>1, FS_CardinalityType
  <2>4. lo * k =< a /\ a =< hi * k
    BY <1>3, <2>1
  <2>5. lo * (k + 1) =< f[x] + a /\ f[x] + a =< hi * (k + 1)
    <3>. HIDE DEF a, k
    <3>1. lo * (k + 1) = lo * k + lo /\ hi * (k + 1) = hi * k + hi
      BY <2>3
    <3>2. lo * k \in Int /\ hi * k \in Int /\ f[x] \in Int /\ lo =< f[x] /\ f[x] =< hi
      BY <2>1, <2>3
    <3>. DEFINE b == lo * k  c == hi * k
    <3>. HIDE DEF b, c
    <3>3. b + lo =< f[x] + a /\ f[x] + a =< c + hi
      BY <2>2, <2>4, <3>2 DEF b, c
    <3>. QED  BY <3>1, <3>3 DEF b, c
  <2>. QED  BY <2>2, <2>3, <2>5
<1>4. \A s \in SUBSET S : s \in Q
  <2>. HIDE DEF Q
  <2>. QED  BY <1>2, <1>3, SetInduction
<1>5. SumFunctionOnSet(f, S) \in Int
  BY <1>1 DEF SumsOver
<1>. QED  BY <1>4, <1>5

\* Changing one term changes the sum by as much.
LEMMA SumChange ==
  ASSUME NEW S, IsFiniteSet(S), NEW f, NEW g, NEW m \in S, NEW d \in Int,
         \A x \in S : f[x] \in Int /\ g[x] \in Int,
         \A x \in S \ {m} : f[x] = g[x], f[m] = d + g[m]
  PROVE  SumFunctionOnSet(f, S) = d + SumFunctionOnSet(g, S)
<1>1. SumFunctionOnSet(f, S \ {m}) = SumFunctionOnSet(g, S \ {m})
  <2>. DEFINE T == S \ {m}
  <2>1. IsFiniteSet(T) /\ \A x \in T : f[x] \in Int /\ g[x] = f[x]
    BY FS_Subset
  <2>. HIDE DEF T
  <2>2. SumFunctionOnSet(f, T) = SumFunctionOnSet(g, T)
    BY <2>1, SumEqual
  <2>. QED  BY <2>2 DEF T
<1>2. SumsOver(S, f) /\ SumsOver(S, g)
  BY SumParts
<1>. DEFINE a == SumFunctionOnSet(g, S \ {m})
<1>3. /\ a \in Int /\ SumFunctionOnSet(f, S) = f[m] + a
      /\ SumFunctionOnSet(g, S) = g[m] + a
  BY <1>1, <1>2 DEF SumsOver
<1>. HIDE DEF a
<1>. QED  BY <1>3

\* Counting twice: a sum over the elements, grouped by their value.
LEMMA SumByValue ==
  ASSUME NEW S, IsFiniteSet(S), NEW N, IsFiniteSet(N), NEW v, \A x \in S : v[x] \in N,
         NEW w, \A n \in N : w[n] \in Int
  PROVE  SumFunctionOnSet([n \in N |-> w[n] * Cardinality({x \in S : v[x] = n})], N)
           = SumFunctionOnSet([x \in S |-> w[v[x]]], S)
<1>. DEFINE Having(s, n) == {x \in s : v[x] = n}
            C(s) == [n \in N |-> w[n] * Cardinality(Having(s, n))]
            f == [x \in S |-> w[v[x]]]
            Q == {s \in SUBSET S : SumFunctionOnSet(C(s), N) = SumFunctionOnSet(f, s)}
<1>1. SumsOver(S, f)
  <2>1. \A x \in S : f[x] \in Int
    OBVIOUS
  <2>. HIDE DEF f
  <2>. QED  BY <2>1, SumParts
<1>2. \A s \in SUBSET S : \A n \in N : IsFiniteSet(Having(s, n))
                                      /\ Cardinality(Having(s, n)) \in Nat
  BY FS_Subset, FS_CardinalityType
<1>3. \A s \in SUBSET S : \A n \in N : C(s)[n] \in Int
  <2>. HIDE DEF Having
  <2>. QED  BY <1>2
<1>4. {} \in Q
  <2>1. \A n \in N : C({})[n] = 0
    <3>1. \A n \in N : Having({}, n) = {}
      OBVIOUS
    <3>. HIDE DEF Having
    <3>2. \A n \in N : Cardinality(Having({}, n)) = 0
      BY <3>1, FS_EmptySet
    <3>3. \A n \in N : w[n] * 0 = 0
      OBVIOUS
    <3>. QED  BY <3>2, <3>3
  <2>. DEFINE g == C({})
  <2>2. \A n \in N : g[n] \in Int /\ 0 =< g[n] /\ g[n] =< 0
    BY <2>1
  <2>3. /\ SumFunctionOnSet(g, N) \in Int /\ 0 * Cardinality(N) =< SumFunctionOnSet(g, N)
        /\ SumFunctionOnSet(g, N) =< 0 * Cardinality(N)
    <3>. HIDE DEF g
    <3>. QED  BY <2>2, SumBounds
  <2>4. SumFunctionOnSet(g, N) = 0
    <3>. HIDE DEF g
    <3>. QED  BY <2>3, FS_CardinalityType
  <2>5. SumFunctionOnSet(f, {}) = 0
    BY SumEmpty
  <2>. QED  BY <2>4, <2>5
<1>5. ASSUME NEW s \in SUBSET S, s # {}, \A x \in s : s \ {x} \in Q  PROVE s \in Q
  <2>1. PICK x \in s : TRUE
    BY <1>5
  <2>. DEFINE m == v[x]  p == C(s)  q == C(s \ {x})
  <2>2. m \in N
    OBVIOUS
  <2>3. \A n \in N : p[n] \in Int /\ q[n] \in Int
    BY <1>3
  <2>4. \A n \in N \ {m} : p[n] = q[n]
    <3>1. \A n \in N \ {m} : Having(s, n) = Having(s \ {x}, n)
      OBVIOUS
    <3>. HIDE DEF Having, m
    <3>. QED  BY <3>1
  <2>5. p[m] = w[m] + q[m]
    <3>1. Having(s \ {x}, m) = Having(s, m) \ {x} /\ x \in Having(s, m)
      OBVIOUS
    <3>2. IsFiniteSet(Having(s, m)) /\ Cardinality(Having(s \ {x}, m)) \in Nat
      <4>. HIDE DEF Having, m
      <4>. QED  BY <1>2, <2>2
    <3>. DEFINE A == Having(s, m)
    <3>. HIDE DEF Having, m
    <3>3. Cardinality(Having(s \ {x}, m)) = Cardinality(Having(s, m)) - 1
      <4>1. IsFiniteSet(A) /\ x \in A /\ Having(s \ {x}, m) = A \ {x}
        BY <3>1, <3>2
      <4>2. Cardinality(A \ {x}) = Cardinality(A) - 1
        <5>. HIDE DEF A
        <5>. QED  BY <4>1, FS_RemoveElement
      <4>. QED  BY <4>1, <4>2
    <3>4. Cardinality(Having(s, m)) = Cardinality(Having(s \ {x}, m)) + 1
      BY <3>2, <3>3, FS_CardinalityType
    <3>. DEFINE k == Cardinality(Having(s \ {x}, m))
    <3>5. p[m] = w[m] * (k + 1) /\ q[m] = w[m] * k /\ k \in Nat /\ w[m] \in Int
      BY <2>2, <3>2, <3>4
    <3>. DEFINE d == w[m]
    <3>6. p[m] = d * (k + 1) /\ q[m] = d * k /\ k \in Nat /\ d \in Int
      BY <3>5
    <3>. HIDE DEF k, p, q, d
    <3>7. d * (k + 1) = d + d * k
      BY <3>6
    <3>. QED  BY <3>6, <3>7 DEF d
  <2>6. SumFunctionOnSet(p, N) = w[m] + SumFunctionOnSet(q, N)
    <3>1. w[m] \in Int
      BY <2>2
    <3>. DEFINE d == w[m]
    <3>. HIDE DEF p, q, d, m
    <3>2. d \in Int /\ p[m] = d + q[m]
      BY <2>5, <3>1 DEF d
    <3>3. SumFunctionOnSet(p, N) = d + SumFunctionOnSet(q, N)
      BY <2>2, <2>3, <2>4, <3>2, SumChange
    <3>. QED  BY <3>3 DEF d
  <2>7. SumFunctionOnSet(f, s) = w[m] + SumFunctionOnSet(f, s \ {x})
    <3>1. f[x] = w[m]
      OBVIOUS
    <3>2. SumFunctionOnSet(f, s) = f[x] + SumFunctionOnSet(f, s \ {x})
      <4>. HIDE DEF f
      <4>. QED  BY <1>1 DEF SumsOver
    <3>. HIDE DEF f
    <3>. QED BY <3>1, <3>2
  <2>8. SumFunctionOnSet(q, N) = SumFunctionOnSet(f, s \ {x})
    <3>1. s \ {x} \in Q
      BY <1>5
    <3>. HIDE DEF C, f
    <3>. QED  BY <3>1
  <2>. HIDE DEF C, f
  <2>. QED  BY <2>6, <2>7, <2>8
<1>6. \A s \in SUBSET S : s \in Q
  <2>. HIDE DEF Q
  <2>. QED  BY <1>4, <1>5, SetInduction
<1>. HIDE DEF f
<1>. QED  BY <1>6 DEF f

\* A finite set of integers has a greatest member.
LEMMA GreatestNumber ==
  ASSUME NEW S \in SUBSET Int, IsFiniteSet(S), S # {}
  PROVE  \E n \in S : \A m \in S : m =< n
<1>. DEFINE Q == {s \in SUBSET S : s # {} => \E n \in s : \A m \in s : m =< n}
<1>1. {} \in Q
  OBVIOUS
<1>2. ASSUME NEW s \in SUBSET S, s # {}, \A x \in s : s \ {x} \in Q  PROVE s \in Q
  <2>1. PICK x \in s : TRUE
    BY <1>2
  <2>2. CASE s \ {x} = {}
    <3>1. \A m \in s : m =< x
      BY <2>1, <2>2
    <3>. QED  BY <2>1, <3>1
  <2>3. CASE s \ {x} # {}
    <3>1. PICK n \in s \ {x} : \A m \in s \ {x} : m =< n
      BY <1>2, <2>1, <2>3
    <3>2. CASE x =< n
      BY <3>1, <3>2
    <3>3. CASE ~(x =< n)
      <4>1. \A m \in s : m =< x
        BY <2>1, <3>1, <3>3
      <4>. QED  BY <2>1, <4>1
    <3>. QED  BY <3>2, <3>3
  <2>. QED  BY <2>2, <2>3
<1>3. \A s \in SUBSET S : s \in Q
  <2>. HIDE DEF Q
  <2>. QED  BY <1>1, <1>2, SetInduction
<1>. QED  BY <1>3

\* A finite set of integers has a least member.
LEMMA LeastOfNumbers ==
  ASSUME NEW S \in SUBSET Int, IsFiniteSet(S), S # {}
  PROVE  \E n \in S : \A m \in S : n =< m
<1>. DEFINE T == {0 - n : n \in S}
<1>1. T \in SUBSET Int /\ T # {}
  <2>1. \A n \in S : 0 - n \in Int
    OBVIOUS
  <2>2. T \subseteq Int
    BY <2>1
  <2>3. PICK n \in S : TRUE
    OBVIOUS
  <2>. QED  BY <2>2, <2>3
<1>2. IsFiniteSet(T)
  <2>. DEFINE f == [n \in S |-> 0 - n]
  <2>1. f \in Surjection(S, T)
    BY DEF Surjection
  <2>. QED  BY <2>1, FS_Surjection
<1>3. PICK k \in T : \A m \in T : m =< k
  <2>. HIDE DEF T
  <2>. QED  BY <1>1, <1>2, GreatestNumber
<1>4. PICK n \in S : k = 0 - n
  BY <1>3
<1>5. \A m \in S : 0 - m =< 0 - n
  BY <1>3, <1>4
<1>. QED  BY <1>5

\* What a recursion on the numbers up to n asks of a solution.
RecursionRule(g, n, base, h) == g[0] = base /\ \A i \in 1 .. n : g[i] = h[<<i, g[i - 1]>>]

\* Such a recursion has a solution.
LEMMA NumberRecursion ==
  ASSUME NEW n \in Nat, NEW V, NEW base \in V, NEW h, \A i \in 1 .. n, v \in V : h[<<i, v>>] \in V
  PROVE  \E g \in [0 .. n -> V] : RecursionRule(g, n, base, h)
<1>. DEFINE Solves(g, m) == /\ g \in [0 .. m -> V] /\ g[0] = base
                            /\ \A i \in 1 .. m : g[i] = h[<<i, g[i - 1]>>]
            Q == {m \in Nat : m =< n => \E g : Solves(g, m)}
<1>1. 0 \in Q
  <2>. DEFINE g == [i \in 0 .. 0 |-> base]
  <2>1. Solves(g, 0)
    OBVIOUS
  <2>. QED  BY <2>1
<1>2. ASSUME NEW m \in Nat, m \in Q  PROVE m + 1 \in Q
  <2>0. m + 1 \in Nat
    OBVIOUS
  <2>. SUFFICES ASSUME m + 1 =< n  PROVE \E g : Solves(g, m + 1)
    BY <2>0, Zenon
  <2>1. PICK k : Solves(k, m)
    BY <1>2
  <2>. DEFINE v == h[<<m + 1, k[m]>>]
              g == [i \in 0 .. m + 1 |-> IF i = m + 1 THEN v ELSE k[i]]
  <2>2. m + 1 \in 1 .. n /\ k[m] \in V
    BY <2>1
  <2>3. v \in V
    BY <2>2
  <2>. HIDE DEF v
  <2>4. g \in [0 .. m + 1 -> V] /\ g[0] = base
    BY <2>1, <2>3
  <2>5. ASSUME NEW i \in 1 .. m + 1  PROVE g[i] = h[<<i, g[i - 1]>>]
    <3>1. CASE i = m + 1
      <4>1. g[i] = v /\ g[i - 1] = k[m]
        BY <3>1
      <4>. QED  BY <3>1, <4>1 DEF v
    <3>2. CASE i # m + 1
      <4>1. i \in 1 .. m /\ g[i] = k[i] /\ g[i - 1] = k[i - 1]
        BY <3>2
      <4>. QED  BY <2>1, <4>1
    <3>. QED  BY <3>1, <3>2
  <2>. HIDE DEF g
  <2>. QED  BY <2>4, <2>5
<1>3. \A m \in Nat : m \in Q
  <2>. HIDE DEF Q
  <2>. QED  BY <1>1, <1>2, NumberInduction
<1>. QED  BY <1>3 DEF RecursionRule
=============================================================================
