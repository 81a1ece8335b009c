------------------------- MODULE ComboFailoverProofs -------------------------
(***************************************************************************)
(* Proofs about ComboFailover, for any targets, requests and combos.       *)
(***************************************************************************)
EXTENDS ComboFailover, FiniteSetTheorems, WellFoundedInduction, SequenceTheorems,
        TLAPS

-----------------------------------------------------------------------------
(* Finite sets and least numbers.  An induction over the subsets of a      *)
(* finite set is made by looking at a smallest counterexample.             *)

\* A nonempty set of numbers has a least one.
LEMMA LeastNumber ==
  ASSUME NEW S \in SUBSET Nat, S # {}
  PROVE  \E i \in S : \A j \in S : i <= j
<1> DEFINE less == OpToRel(<, Nat)
<1>1. IsWellFoundedOn(less, Nat)
  BY NatLessThanWellFounded
<1>2. \A x, y \in Nat : <<y, x>> \in less <=> y < x
  BY DEF OpToRel
<1> HIDE DEF less
<1>3. PICK i \in S : \A j \in S : ~(<<j, i>> \in less)
  BY <1>1, WFMin
<1>4. ASSUME NEW j \in S PROVE i <= j
  <2>1. i \in Nat /\ j \in Nat
    BY <1>3
  <2>2. ~(j < i)
    BY <1>2, <1>3, <2>1
  <2> QED BY <2>1, <2>2
<1> QED BY <1>3, <1>4

\* Of any sets of members of a finite set, some are smallest.
LEMMA SmallestSubset ==
  ASSUME NEW S, IsFiniteSet(S), NEW Bad, Bad \subseteq SUBSET S, Bad # {}
  PROVE  \E T \in Bad : \A U \in Bad : ~(U \subseteq T /\ U # T)
<1>1. FiniteSubsetsOf(S) = SUBSET S
  BY FS_FiniteSubsetsOfFinite
<1>2. PICK T \in Bad : \A U \in Bad : ~(<<U, T>> \in StrictSubsetOrdering(S))
  BY <1>1, FS_StrictSubsetOrderingWellFounded, WFMin
<1> QED BY <1>2 DEF StrictSubsetOrdering

\* A nonempty finite set has a member that no other exceeds.
LEMMA GreatestScore ==
  ASSUME NEW S, IsFiniteSet(S), S # {}, NEW f, \A x \in S : f[x] \in Int
  PROVE  \E x \in S : \A y \in S : f[y] <= f[x]
<1> DEFINE Bad == {T \in SUBSET S : T # {} /\ \A x \in T : \E y \in T : ~(f[y] <= f[x])}
<1> SUFFICES ASSUME Bad # {} PROVE FALSE
  OBVIOUS
<1>0. Bad \subseteq SUBSET S
  OBVIOUS
<1>1. PICK T \in Bad : \A U \in Bad : ~(U \subseteq T /\ U # T)
  <2> HIDE DEF Bad
  <2> QED BY <1>0, SmallestSubset
<1>2. PICK z \in T : TRUE
  BY <1>1
<1>3. PICK y \in T : ~(f[y] <= f[z])
  BY <1>1
<1> DEFINE U == T \ {z}
<1>4. y \in U /\ U \notin Bad
  <2>1. f[z] \in Int
    BY <1>1
  <2>2. y # z
    BY <1>3, <2>1
  <2>3. ~(U \subseteq T /\ U # T) \/ U \notin Bad
    BY <1>1
  <2> QED BY <2>2, <2>3
<1>5. PICK x \in U : \A v \in U : f[v] <= f[x]
  BY <1>4
<1>6. f[x] \in Int /\ f[y] \in Int /\ f[z] \in Int
  BY <1>1
<1>7. f[z] <= f[x]
  BY <1>3, <1>4, <1>5, <1>6
<1>8. \A v \in T : f[v] <= f[x]
  BY <1>5, <1>7
<1> QED BY <1>1, <1>5, <1>8

-----------------------------------------------------------------------------
(* Sums over finite sets *)

\* The member that a sum takes out of a set next.
oneOf(s) == CHOOSE x \in s : TRUE

\* What the recursion of a sum says of a function on the subsets of D.
IsSum(F, w, D) ==
  F = [s \in SUBSET D |-> IF s = {} THEN 0 ELSE w[oneOf(s)] + F[s \ {oneOf(s)}]]

\* The sum of w over S is the value at S of such a function.  It is what
\* MapThenSumSet(LAMBDA u : w[u], S) expands to.
sumOver(w, S) == (CHOOSE F : IsSum(F, w, S))[S]

\* There is at most one value for each finite set.
LEMMA SumIsUnique ==
  ASSUME NEW w, NEW D, NEW F, IsSum(F, w, D),
         NEW E, NEW G, IsSum(G, w, E),
         NEW s, IsFiniteSet(s), s \subseteq D, s \subseteq E
  PROVE  F[s] = G[s]
<1> DEFINE Bad == {u \in SUBSET s : F[u] # G[u]}
<1> SUFFICES ASSUME Bad # {} PROVE FALSE
  OBVIOUS
<1>0. Bad \subseteq SUBSET s
  OBVIOUS
<1>1. PICK T \in Bad : \A U \in Bad : ~(U \subseteq T /\ U # T)
  <2> HIDE DEF Bad
  <2> QED BY <1>0, SmallestSubset
<1>2. \A u \in SUBSET s :
        /\ F[u] = IF u = {} THEN 0 ELSE w[oneOf(u)] + F[u \ {oneOf(u)}]
        /\ G[u] = IF u = {} THEN 0 ELSE w[oneOf(u)] + G[u \ {oneOf(u)}]
  BY DEF IsSum
<1>3. T # {}
  BY <1>1, <1>2
<1>4. oneOf(T) \in T
  BY <1>3 DEF oneOf
<1> DEFINE U == T \ {oneOf(T)}
<1>5. F[U] = G[U]
  BY <1>1, <1>4
<1> QED BY <1>1, <1>2, <1>3, <1>5

\* There is such a function: smaller sums are put together to larger ones.
LEMMA SumExists ==
  ASSUME NEW w, NEW S, IsFiniteSet(S)
  PROVE  \E F : IsSum(F, w, S)
<1> DEFINE Bad == {D \in SUBSET S : \A F : ~IsSum(F, w, D)}
<1> SUFFICES ASSUME Bad # {} PROVE FALSE
  OBVIOUS
<1>0. Bad \subseteq SUBSET S
  OBVIOUS
<1>1. PICK D \in Bad : \A U \in Bad : ~(U \subseteq D /\ U # D)
  <2> HIDE DEF Bad
  <2> QED BY <1>0, SmallestSubset
<1> DEFINE sum(u)  == CHOOSE F : IsSum(F, w, u)
           rest(u) == u \ {oneOf(u)}
           G == [s \in SUBSET D |->
                   IF s = {} THEN 0 ELSE w[oneOf(s)] + sum(rest(s))[rest(s)]]
<1>2. \A u \in SUBSET D : u # D => IsSum(sum(u), w, u)
  <2> SUFFICES ASSUME NEW u \in SUBSET D, u # D PROVE IsSum(sum(u), w, u)
    OBVIOUS
  <2>1. u \in SUBSET S /\ u \notin Bad
    BY <1>1
  <2>2. \E F : IsSum(F, w, u)
    BY <2>1
  <2> QED BY <2>2
<1>3. ASSUME NEW u \in SUBSET D, u # {} PROVE oneOf(u) \in u /\ rest(u) \in SUBSET D /\ rest(u) # D
  BY <1>3 DEF oneOf
<1>4. ASSUME NEW v \in SUBSET D, v # D PROVE G[v] = sum(v)[v]
  <2>1. IsSum(sum(v), w, v)
    BY <1>2, <1>4
  <2>2. sum(v)[v] = IF v = {} THEN 0 ELSE w[oneOf(v)] + sum(v)[rest(v)]
    <3> HIDE DEF sum
    <3> QED BY <2>1 DEF IsSum
  <2>3. G[v] = IF v = {} THEN 0 ELSE w[oneOf(v)] + sum(rest(v))[rest(v)]
    OBVIOUS
  <2>4. ASSUME v # {} PROVE sum(v)[rest(v)] = sum(rest(v))[rest(v)]
    <3>1. IsSum(sum(rest(v)), w, rest(v))
      BY <1>2, <1>3, <2>4
    <3>2. IsFiniteSet(rest(v))
      BY <1>1, FS_Subset
    <3> HIDE DEF sum
    <3> QED BY <2>1, <3>1, <3>2, SumIsUnique
  <2> HIDE DEF sum, G, rest
  <2> QED BY <2>2, <2>3, <2>4
<1>5. IsSum(G, w, D)
  <2> HIDE DEF sum
  <2>1. \A s \in SUBSET D : s # {} => G[rest(s)] = sum(rest(s))[rest(s)]
    BY <1>3, <1>4
  <2>2. G = [s \in SUBSET D |-> IF s = {} THEN 0 ELSE w[oneOf(s)] + sum(rest(s))[rest(s)]]
    OBVIOUS
  <2> HIDE DEF G
  <2>3. G = [s \in SUBSET D |-> IF s = {} THEN 0 ELSE w[oneOf(s)] + G[s \ {oneOf(s)}]]
    BY <2>1, <2>2
  <2> QED BY <2>3 DEF IsSum
<1> QED BY <1>1, <1>5

\* A sum of integers over a finite set is an integer.
LEMMA SumIsInteger ==
  ASSUME NEW A, NEW w \in [A -> Int], NEW S \in SUBSET A, IsFiniteSet(S)
  PROVE  sumOver(w, S) \in Int
<1> DEFINE F == CHOOSE F : IsSum(F, w, S)
<1>1. IsSum(F, w, S)
  BY SumExists
<1> HIDE DEF F
<1> DEFINE Bad == {u \in SUBSET S : F[u] \notin Int}
<1>2. Bad = {}
  <2> SUFFICES ASSUME Bad # {} PROVE FALSE
    OBVIOUS
  <2>0. Bad \subseteq SUBSET S
    OBVIOUS
  <2>1. PICK T \in Bad : \A U \in Bad : ~(U \subseteq T /\ U # T)
    <3> HIDE DEF Bad
    <3> QED BY <2>0, SmallestSubset
  <2>2. F[T] = IF T = {} THEN 0 ELSE w[oneOf(T)] + F[T \ {oneOf(T)}]
    BY <1>1 DEF IsSum
  <2>3. T # {}
    BY <2>1, <2>2
  <2>4. oneOf(T) \in T
    BY <2>3 DEF oneOf
  <2>5. F[T \ {oneOf(T)}] \in Int
    BY <2>1, <2>4
  <2>6. w[oneOf(T)] \in Int
    BY <2>4
  <2> QED BY <2>1, <2>2, <2>3, <2>5, <2>6
<1>3. F[S] \in Int
  BY <1>2
<1> QED BY <1>3 DEF F, sumOver

\* A sum takes the chosen member out of its set first.
LEMMA SumStep ==
  ASSUME NEW w, NEW S, IsFiniteSet(S)
  PROVE  sumOver(w, S) = IF S = {} THEN 0
                         ELSE w[oneOf(S)] + sumOver(w, S \ {oneOf(S)})
<1> DEFINE F(u) == CHOOSE G : IsSum(G, w, u)
           rest == S \ {oneOf(S)}
<1>1. IsSum(F(S), w, S)
  BY SumExists
<1>2. IsFiniteSet(rest)
  BY FS_Subset
<1>3. IsSum(F(rest), w, rest)
  BY <1>2, SumExists
<1>4. sumOver(w, S) = F(S)[S] /\ sumOver(w, rest) = F(rest)[rest]
  BY DEF sumOver
<1> HIDE DEF F
<1>5. F(S)[rest] = F(rest)[rest]
  BY <1>1, <1>2, <1>3, SumIsUnique
<1>6. F(S)[S] = IF S = {} THEN 0 ELSE w[oneOf(S)] + F(S)[rest]
  BY <1>1 DEF IsSum
<1> QED BY <1>4, <1>5, <1>6

LEMMA SumOfNothing ==
  ASSUME NEW w
  PROVE  sumOver(w, {}) = 0
BY SumStep, FS_EmptySet

\* Any other member can be taken out first just as well.
LEMMA SumTakesOut ==
  ASSUME NEW A, NEW w \in [A -> Int], NEW S \in SUBSET A, IsFiniteSet(S), NEW x \in S
  PROVE  sumOver(w, S) = w[x] + sumOver(w, S \ {x})
<1> DEFINE Bad == {T \in SUBSET S : \E y \in T : sumOver(w, T) # w[y] + sumOver(w, T \ {y})}
<1> SUFFICES ASSUME Bad # {} PROVE FALSE
  OBVIOUS
<1>0. Bad \subseteq SUBSET S
  OBVIOUS
<1>1. PICK T \in Bad : \A U \in Bad : ~(U \subseteq T /\ U # T)
  <2> HIDE DEF Bad
  <2> QED BY <1>0, SmallestSubset
<1>2. PICK y \in T : sumOver(w, T) # w[y] + sumOver(w, T \ {y})
  BY <1>1
<1>3. PICK o : o = oneOf(T)
  OBVIOUS
<1>4. /\ o \in T
      /\ sumOver(w, T) = w[o] + sumOver(w, T \ {o})
  <2>1. IsFiniteSet(T) /\ T # {}
    BY <1>1, <1>2, FS_Subset
  <2> QED BY <1>3, <2>1, SumStep DEF oneOf
<1>5. y # o
  BY <1>2, <1>4
<1>6. T \ {o} \notin Bad /\ T \ {y} \notin Bad
  BY <1>1, <1>2, <1>4
<1>7. sumOver(w, T \ {o}) = w[y] + sumOver(w, (T \ {o}) \ {y})
  BY <1>1, <1>2, <1>5, <1>6
<1>8. sumOver(w, T \ {y}) = w[o] + sumOver(w, (T \ {y}) \ {o})
  BY <1>1, <1>2, <1>4, <1>5, <1>6
<1>9. (T \ {o}) \ {y} = (T \ {y}) \ {o}
  OBVIOUS
<1>10. w[o] \in Int /\ w[y] \in Int /\ sumOver(w, (T \ {y}) \ {o}) \in Int
  <2>1. T \subseteq A /\ (T \ {y}) \ {o} \in SUBSET A
    BY <1>1
  <2>2. IsFiniteSet((T \ {y}) \ {o})
    BY <1>1, FS_Subset
  <2> QED BY <1>2, <1>4, <2>1, <2>2, SumIsInteger
<1>11. PICK m \in Int : m = sumOver(w, (T \ {y}) \ {o})
  BY <1>10
<1>12. PICK i, j \in Int : i = w[o] /\ j = w[y]
  BY <1>10
<1>13. sumOver(w, T) = i + (j + m)
  BY <1>4, <1>7, <1>9, <1>11, <1>12
<1>14. w[y] + sumOver(w, T \ {y}) = j + (i + m)
  BY <1>8, <1>11, <1>12
<1>15. i + (j + m) = j + (i + m)
  OBVIOUS
<1> QED BY <1>2, <1>13, <1>14, <1>15

\* Adding function to function adds sum to sum.
LEMMA SumAdds ==
  ASSUME NEW A, NEW w \in [A -> Int], NEW d \in [A -> Int], NEW v \in [A -> Int],
         NEW S \in SUBSET A, IsFiniteSet(S), \A x \in S : v[x] = w[x] + d[x]
  PROVE  sumOver(v, S) = sumOver(w, S) + sumOver(d, S)
<1> DEFINE Bad == {T \in SUBSET S : sumOver(v, T) # sumOver(w, T) + sumOver(d, T)}
<1> SUFFICES ASSUME Bad # {} PROVE FALSE
  OBVIOUS
<1>0. Bad \subseteq SUBSET S
  OBVIOUS
<1>1. PICK T \in Bad : \A U \in Bad : ~(U \subseteq T /\ U # T)
  <2> HIDE DEF Bad
  <2> QED BY <1>0, SmallestSubset
<1>2. IsFiniteSet(T)
  BY <1>1, FS_Subset
<1>3. T # {}
  <2>1. sumOver(v, {}) = 0 /\ sumOver(w, {}) = 0 /\ sumOver(d, {}) = 0
    BY SumOfNothing
  <2>2. sumOver(v, {}) = sumOver(w, {}) + sumOver(d, {})
    BY <2>1
  <2> QED BY <1>1, <2>2
<1>4. PICK o : o = oneOf(T)
  OBVIOUS
<1> DEFINE U == T \ {o}
<1>5. /\ o \in T
      /\ sumOver(v, T) = v[o] + sumOver(v, U)
      /\ sumOver(w, T) = w[o] + sumOver(w, U)
      /\ sumOver(d, T) = d[o] + sumOver(d, U)
  BY <1>2, <1>3, <1>4, SumStep DEF oneOf
<1>6. sumOver(v, U) = sumOver(w, U) + sumOver(d, U)
  BY <1>1, <1>5
<1>7. v[o] = w[o] + d[o] /\ w[o] \in Int /\ d[o] \in Int
  BY <1>1, <1>5
<1>8. sumOver(w, U) \in Int /\ sumOver(d, U) \in Int
  <2>1. U \in SUBSET A /\ IsFiniteSet(U)
    BY <1>1, <1>2, FS_Subset
  <2> HIDE DEF U
  <2> QED BY <2>1, SumIsInteger
<1>9. sumOver(v, T) # sumOver(w, T) + sumOver(d, T)
  BY <1>1
<1> HIDE DEF U
<1> QED BY <1>5, <1>6, <1>7, <1>8, <1>9

\* Members that count for nothing may be left out.
LEMMA SumLeavesOut ==
  ASSUME NEW A, NEW w \in [A -> Int], NEW T \in SUBSET A, IsFiniteSet(T),
         NEW S \in SUBSET T, \A x \in T \ S : w[x] = 0
  PROVE  sumOver(w, T) = sumOver(w, S)
<1> DEFINE Bad == {U \in SUBSET T : S \subseteq U /\ sumOver(w, U) # sumOver(w, S)}
<1> SUFFICES ASSUME Bad # {} PROVE FALSE
  OBVIOUS
<1>0. Bad \subseteq SUBSET T
  OBVIOUS
<1>1. PICK U \in Bad : \A V \in Bad : ~(V \subseteq U /\ V # U)
  <2> HIDE DEF Bad
  <2> QED BY <1>0, SmallestSubset
<1>2. PICK x \in U \ S : TRUE
  <2>1. U # S /\ S \subseteq U
    BY <1>1
  <2> QED BY <2>1
<1>3. U \in SUBSET A /\ IsFiniteSet(U)
  BY <1>1, FS_Subset
<1>4. sumOver(w, U) = w[x] + sumOver(w, U \ {x})
  BY <1>2, <1>3, SumTakesOut
<1>5. sumOver(w, U \ {x}) = sumOver(w, S)
  BY <1>1, <1>2
<1>6. w[x] = 0
  BY <1>1, <1>2
<1>7. sumOver(w, S) \in Int
  <2>1. S \in SUBSET A /\ IsFiniteSet(S)
    BY FS_Subset
  <2> QED BY <2>1, SumIsInteger
<1>8. sumOver(w, U) # sumOver(w, S)
  BY <1>1
<1> QED BY <1>4, <1>5, <1>6, <1>7, <1>8

-----------------------------------------------------------------------------
(* Picking *)

\* The targets of a combo: a finite set, each at its own position.
LEMMA ComboTargets ==
  ASSUME NEW c \in Configs
  PROVE  /\ targetsOf(c) \subseteq Targets
         /\ IsFiniteSet(targetsOf(c))
         /\ \A t \in targetsOf(c) :
              position(c, t) \in DOMAIN c.targets /\ c.targets[position(c, t)] = t
         /\ \A t \in targetsOf(c) : position(c, t) \in Nat
         /\ c.weight \in [Targets -> Nat \ {0}]
<1>1. /\ c.targets \in Seq(Targets)
      /\ c.weight \in [Targets -> Nat \ {0}]
      /\ \A i, j \in DOMAIN c.targets : c.targets[i] = c.targets[j] => i = j
  BY ConfigsAssumption
<1> DEFINE n == Len(c.targets)
<1>2. n \in Nat /\ DOMAIN c.targets = 1..n
  BY <1>1
<1>3. targetsOf(c) = {c.targets[i] : i \in 1..n}
  BY <1>2 DEF targetsOf, ToSet
<1>4. targetsOf(c) \subseteq Targets
  BY <1>1, <1>2, <1>3
<1>5. \A t \in targetsOf(c) :
        position(c, t) \in DOMAIN c.targets /\ c.targets[position(c, t)] = t
  BY <1>2, <1>3 DEF position
<1>6. IsFiniteSet(targetsOf(c))
  <2> DEFINE f == [t \in targetsOf(c) |-> position(c, t)]
  <2>1. f \in [targetsOf(c) -> 1..n]
    BY <1>2, <1>5
  <2>2. \A t, u \in targetsOf(c) : f[t] = f[u] => t = u
    BY <1>5
  <2>3. f \in Injection(targetsOf(c), 1..n)
    <3> HIDE DEF f
    <3> QED BY <2>1, <2>2 DEF Injection, IsInjective
  <2>4. IsFiniteSet(1..n)
    BY <1>2, FS_Interval
  <2> HIDE DEF f
  <2> QED BY <2>3, <2>4, FS_Injection
<1> QED BY <1>1, <1>2, <1>4, <1>5, <1>6

\* The earliest of some targets of a combo is one of them.
LEMMA Earliest ==
  ASSUME NEW c \in Configs, NEW S \in SUBSET targetsOf(c), S # {}
  PROVE  earliest(c, S) \in S
<1> DEFINE positions == {position(c, t) : t \in S}
<1>1. positions \in SUBSET Nat /\ positions # {}
  BY ComboTargets
<1>2. PICK i \in positions : \A j \in positions : i <= j
  <2> HIDE DEF positions
  <2> QED BY <1>1, LeastNumber
<1>3. \E t \in S : \A u \in S : position(c, t) <= position(c, u)
  BY <1>2
<1> QED BY <1>3 DEF earliest

\* So is the heaviest, also after any number of picks: some target has a
\* score that no other exceeds.
LEMMA Heaviest ==
  ASSUME NEW c \in Configs, NEW S \in SUBSET targetsOf(c), S # {},
         currentWeights \in [Targets -> Int]
  PROVE  heaviest(c, S) \in S
<1> DEFINE f == [t \in S |-> score(c, t)]
<1>1. S \subseteq Targets /\ IsFiniteSet(S)
  BY ComboTargets, FS_Subset
<1>2. \A t \in S : f[t] \in Int
  BY <1>1, ComboTargets DEF score
<1>3. PICK t \in S : \A u \in S : f[u] <= f[t]
  <2> HIDE DEF f
  <2> QED BY <1>1, <1>2, GreatestScore
<1> DEFINE best == {v \in S : \A u \in S : score(c, u) <= score(c, v)}
<1>4. best # {} /\ best \in SUBSET targetsOf(c)
  BY <1>3
<1>5. earliest(c, best) \in best
  <2> HIDE DEF best
  <2> QED BY <1>4, Earliest
<1> QED BY <1>5 DEF heaviest

\* A pick is one of the targets it is made from, whenever there are any.
LEMMA Picked ==
  ASSUME NEW c \in Configs, NEW S \in SUBSET targetsOf(c),
         currentWeights \in [Targets -> Int]
  PROVE  /\ S # {} => pickedFrom(c, S) \in S /\ pickedFrom(c, S) # None
         /\ S = {} => pickedFrom(c, S) = None
<1>1. None \notin S
  BY ComboTargets, BoundsAssumption
<1>2. S # {} => pickedFrom(c, S) \in S
  BY Earliest, Heaviest DEF pickedFrom
<1> QED BY <1>1, <1>2 DEF pickedFrom

\* A pick changes the smooth weights by integers.
LEMMA WeightsAfter ==
  ASSUME NEW c \in Configs, NEW S \in SUBSET targetsOf(c),
         currentWeights \in [Targets -> Int]
  PROVE  weightsAfter(c, S) \in [Targets -> Int]
<1>1. S \subseteq Targets /\ IsFiniteSet(S)
  BY ComboTargets, FS_Subset
<1>2. c.weight \in [Targets -> Int]
  BY ComboTargets
<1> DEFINE total == MapThenSumSet(LAMBDA u : c.weight[u], S)
<1>3. total \in Int
  <2>1. total = sumOver(c.weight, S)
    BY DEF MapThenSumSet, MapThenFoldSet, sumOver, IsSum, oneOf
  <2>2. sumOver(c.weight, S) \in Int
    BY <1>1, <1>2, SumIsInteger
  <2> QED BY <2>1, <2>2
<1>4. weightsAfter(c, S) =
        [t \in Targets |->
           IF t \notin S THEN currentWeights[t]
           ELSE IF t # heaviest(c, S) THEN score(c, t)
           ELSE score(c, t) - total]
  BY DEF weightsAfter
<1> HIDE DEF total
<1>5. \A t \in Targets : score(c, t) \in Int
  BY <1>2 DEF score
<1> QED BY <1>3, <1>4, <1>5

\* What the eligible targets gain in a pick, its winner pays.
LEMMA PickKeepsBalance ==
  ASSUME NEW c \in Configs, NEW S \in SUBSET targetsOf(c), S # {},
         currentWeights \in [Targets -> Int]
  PROVE  sumOver(weightsAfter(c, S), Targets) = sumOver(currentWeights, Targets)
<1>1. S \subseteq Targets /\ IsFiniteSet(S)
  BY ComboTargets, FS_Subset
<1>2. c.weight \in [Targets -> Int]
  BY ComboTargets
<1>3. PICK h \in S : h = heaviest(c, S)
  BY Heaviest
<1>4. PICK total : total = sumOver(c.weight, S)
  OBVIOUS
<1>5. total \in Int
  BY <1>1, <1>2, <1>4, SumIsInteger
<1>6. PICK v : v = weightsAfter(c, S)
  OBVIOUS
<1>7. v = [t \in Targets |->
             IF t \notin S THEN currentWeights[t]
             ELSE IF t # h THEN score(c, t)
             ELSE score(c, t) - total]
  BY <1>3, <1>4, <1>6
  DEF weightsAfter, MapThenSumSet, MapThenFoldSet, sumOver, IsSum, oneOf
<1>8. v \in [Targets -> Int]
  BY <1>6, WeightsAfter
<1> DEFINE d == [t \in Targets |->
                   IF t \notin S THEN 0
                   ELSE IF t # h THEN c.weight[t]
                   ELSE c.weight[t] - total]
<1>9. d \in [Targets -> Int]
  BY <1>2, <1>5
<1>10. \A t \in Targets : v[t] = currentWeights[t] + d[t]
  BY <1>2, <1>5, <1>7 DEF score
<1>11. /\ \A t \in Targets \ S : d[t] = 0
       /\ d[h] = c.weight[h] - total
       /\ \A t \in S \ {h} : d[t] = c.weight[t] + 0
  BY <1>1, <1>2
<1> HIDE DEF d
<1>12. sumOver(v, Targets) = sumOver(currentWeights, Targets) + sumOver(d, Targets)
  BY <1>8, <1>9, <1>10, TargetsAssumption, SumAdds
<1>13. sumOver(d, Targets) = sumOver(d, S)
  BY <1>1, <1>9, <1>11, TargetsAssumption, SumLeavesOut
<1>14. sumOver(d, S) = d[h] + sumOver(d, S \ {h})
  BY <1>1, <1>9, SumTakesOut
<1>15. total = c.weight[h] + sumOver(c.weight, S \ {h})
  BY <1>1, <1>2, <1>4, SumTakesOut
<1> DEFINE R == S \ {h}
           zero == [t \in Targets |-> 0]
<1>16. R \in SUBSET Targets /\ IsFiniteSet(R)
  BY <1>1, FS_Subset
<1>17. sumOver(zero, R) = 0
  <2>1. zero \in [Targets -> Int] /\ \A t \in R \ {} : zero[t] = 0
    BY <1>16
  <2> HIDE DEF zero, R
  <2>2. sumOver(zero, R) = sumOver(zero, {})
    BY <1>16, <2>1, SumLeavesOut
  <2>3. sumOver(zero, {}) = 0
    BY SumOfNothing
  <2> QED BY <2>2, <2>3
<1>18. sumOver(d, R) = sumOver(c.weight, R) + sumOver(zero, R)
  <2>1. zero \in [Targets -> Int]
    OBVIOUS
  <2>2. \A t \in R : d[t] = c.weight[t] + zero[t]
    BY <1>11, <1>16
  <2> HIDE DEF zero, R
  <2> QED BY <1>2, <1>9, <1>16, <2>1, <2>2, SumAdds
<1>19. sumOver(c.weight, R) \in Int /\ c.weight[h] \in Int
  <2>1. c.weight[h] \in Int
    BY <1>1, <1>2
  <2> HIDE DEF R
  <2> QED BY <1>2, <1>16, <2>1, SumIsInteger
<1>20. sumOver(d, S) = 0
  BY <1>5, <1>11, <1>14, <1>15, <1>17, <1>18, <1>19
<1>21. sumOver(currentWeights, Targets) \in Int
  BY TargetsAssumption, SumIsInteger
<1> QED BY <1>6, <1>12, <1>13, <1>20, <1>21

-----------------------------------------------------------------------------
(* The invariant *)

Request ==
  [pc : {"idle", "waiting", "consuming"} \union Answered,
   aborted : BOOLEAN, target : Targets \union {None},
   attempted : SUBSET Targets, snapshot : Configs \union {None},
   failure : Failures \union {None}]

Gate == [state : {"none", "pending", "committed", "discarded"},
         pending : Callbacks \union {None}]

\* The selection state, the cooldowns and the configuration have their
\* types, and the run of the sticky target is below some saved limit.
SelectionOK ==
  /\ activeKey \in Targets \union {None}
  /\ successes \in Nat
  /\ activeKey = None => successes = 0
  /\ currentWeights \in [Targets -> Int]
  /\ StickyRunIsBounded

OthersOK ==
  /\ now \in 0..MaxNow
  /\ combo \in Configs \union {None}
  /\ enabled \subseteq Targets
  /\ cooldownUntil \in [Targets -> Nat]
  /\ commands \in 0..MaxCommands

\* A request, its gates and what they passed on: a target is attempted when
\* its gate was opened, the gate of the target waited for is the pending
\* one, and only the answer commits one, whose callback alone is passed on.
RequestOK(q, g, p) ==
  /\ q.pc = "idle" => q.attempted = {}
  /\ q.pc \in {"waiting", "consuming"} => q.target \in q.attempted /\ q.snapshot \in Configs
  /\ \A t \in Targets : g[t].state = "none" <=> t \notin q.attempted
  /\ \A t \in Targets : g[t].state = "pending" <=> q.pc = "waiting" /\ t = q.target
  /\ q.pc # "answered" => p = <<>> /\ \A t \in Targets : g[t].state # "committed"
  /\ q.pc = "answered" =>
       \E t \in Targets :
         /\ \A u \in Targets : g[u].state = "committed" <=> u = t
         /\ p = IF g[t].pending = None THEN <<>> ELSE << <<t, g[t].pending>> >>

RequestsOK ==
  /\ req \in [Requests -> Request]
  /\ gate \in [Requests -> [Targets -> Gate]]
  /\ published \in [Requests -> Seq(Targets \X Callbacks)]
  /\ \A r \in Requests : RequestOK(req[r], gate[r], published[r])

ComboInv == OthersOK /\ SelectionOK /\ RequestsOK

LEMMA InvImpliesTypes == ComboInv => TypeOK
BY DEF ComboInv, OthersOK, SelectionOK, RequestsOK, RequestOK, TypeOK, Request, Gate

-----------------------------------------------------------------------------
(* The changes of the selection state *)

\* A pick keeps the selection state right: the run starts anew.
LEMMA SelectOK ==
  ASSUME ComboInv, NEW c \in Configs, NEW S \in SUBSET targetsOf(c), select(c, S)
  PROVE  SelectionOK'
<1>1. CASE c.strategy = "failover" \/ activeKey \in S
  BY <1>1 DEF select, selection, ComboInv, SelectionOK, StickyRunIsBounded
<1>2. CASE ~(c.strategy = "failover" \/ activeKey \in S)
  <2>1. /\ activeKey' = pickedFrom(c, S)
        /\ successes' = 0
        /\ currentWeights' = IF S = {} THEN currentWeights ELSE weightsAfter(c, S)
    BY <1>2 DEF select
  <2>2. currentWeights \in [Targets -> Int]
    BY DEF ComboInv, SelectionOK
  <2>3. S \subseteq Targets
    BY ComboTargets
  <2>4. activeKey' \in Targets \union {None}
    BY <2>1, <2>2, <2>3, Picked
  <2>5. currentWeights' \in [Targets -> Int]
    BY <2>1, <2>2, WeightsAfter
  <2> QED BY <2>1, <2>4, <2>5 DEF SelectionOK, StickyRunIsBounded
<1> QED BY <1>1, <1>2

\* A success lengthens the run only while it stays below the limit.
LEMMA NoteOK ==
  ASSUME ComboInv, NEW c \in Configs, NEW t \in Targets, noteComboSuccess(c, t)
  PROVE  SelectionOK'
<1>1. CASE c.strategy # "round-robin" \/ activeKey # t
  BY <1>1 DEF noteComboSuccess, selection, ComboInv, SelectionOK, StickyRunIsBounded
<1>2. CASE ~(c.strategy # "round-robin" \/ activeKey # t)
  <2>1. /\ activeKey' = IF runIsOver(c) THEN None ELSE activeKey
        /\ successes' = IF runIsOver(c) THEN 0 ELSE successes + 1
        /\ currentWeights' = currentWeights
    BY <1>2 DEF noteComboSuccess
  <2>2. activeKey # None
    BY <1>2, BoundsAssumption
  <2>3. c.stickyLimit \in Nat
    BY ConfigsAssumption
  <2>4. ~runIsOver(c) => successes + 1 < c.stickyLimit
    BY <2>3 DEF runIsOver, ComboInv, SelectionOK
  <2> QED BY <2>1, <2>2, <2>4 DEF ComboInv, SelectionOK, StickyRunIsBounded
<1> QED BY <1>1, <1>2

-----------------------------------------------------------------------------
(* The changes of a request *)

\* One request, its gates and what they passed on get other values.
LEMMA OneRequest ==
  ASSUME RequestsOK, NEW r \in Requests,
         NEW q \in Request, NEW g \in [Targets -> Gate],
         NEW p \in Seq(Targets \X Callbacks), RequestOK(q, g, p),
         req' = [req EXCEPT ![r] = q], gate' = [gate EXCEPT ![r] = g],
         published' = [published EXCEPT ![r] = p]
  PROVE  RequestsOK'
BY DEF RequestsOK

LEMMA OneCallback ==
  \A t \in Targets, v \in Callbacks : << <<t, v>> >> \in Seq(Targets \X Callbacks)
<1> SUFFICES ASSUME NEW t \in Targets, NEW v \in Callbacks
             PROVE  << <<t, v>> >> \in Seq(Targets \X Callbacks)
  OBVIOUS
<1> DEFINE x == <<t, v>>
<1>1. x \in Targets \X Callbacks
  OBVIOUS
<1> HIDE DEF x
<1>2. <<x>> \in Seq(Targets \X Callbacks)
  BY <1>1
<1> QED BY <1>2 DEF x

\* A request that is not waiting ends without an answer.
LEMMA Ends ==
  ASSUME RequestsOK, NEW r \in Requests, req[r].pc # "waiting", req[r].pc # "answered",
         NEW s \in Answered \ {"answered"}, finish(r, s),
         gate' = gate, published' = published
  PROVE  RequestsOK'
<1> DEFINE q == [req[r] EXCEPT !.pc = s, !.target = None,
                               !.failure = None, !.snapshot = None]
<1>1. /\ req[r] \in Request /\ gate[r] \in [Targets -> Gate]
      /\ published[r] \in Seq(Targets \X Callbacks)
      /\ RequestOK(req[r], gate[r], published[r])
  BY DEF RequestsOK
<1>2. s \notin {"idle", "waiting", "consuming", "answered"}
  BY DEF Answered
<1>3. q \in Request
  BY <1>1 DEF Request
<1>4. RequestOK(q, gate[r], published[r])
  BY <1>1, <1>2 DEF RequestOK, Request
<1>5. req' = [req EXCEPT ![r] = q]
  BY <1>1 DEF finish, RequestsOK, Request
<1>6. /\ gate' = [gate EXCEPT ![r] = gate[r]]
      /\ published' = [published EXCEPT ![r] = published[r]]
  BY DEF RequestsOK
<1> DEFINE g == gate[r]
           p == published[r]
<1>7. /\ g \in [Targets -> Gate] /\ p \in Seq(Targets \X Callbacks)
      /\ RequestOK(q, g, p)
      /\ gate' = [gate EXCEPT ![r] = g]
      /\ published' = [published EXCEPT ![r] = p]
  BY <1>1, <1>4, <1>6
<1> HIDE DEF q, g, p
<1> QED BY <1>3, <1>5, <1>7, OneRequest

\* A request starts an attempt with a target it has not tried.
LEMMA Starts ==
  ASSUME RequestsOK, NEW r \in Requests, req[r].pc \in {"idle", "consuming"},
         NEW c \in Configs, NEW t \in Targets \ req[r].attempted,
         attempt(r, c, t), openGate(r, t), published' = published
  PROVE  RequestsOK'
<1> DEFINE q == [req[r] EXCEPT !.pc = "waiting", !.target = t, !.snapshot = c,
                               !.failure = None,
                               !.attempted = req[r].attempted \union {t}]
           g == [gate[r] EXCEPT ![t] = [state |-> "pending", pending |-> None]]
<1>1. /\ req[r] \in Request /\ gate[r] \in [Targets -> Gate]
      /\ published[r] \in Seq(Targets \X Callbacks)
      /\ RequestOK(req[r], gate[r], published[r])
  BY DEF RequestsOK
<1>2. q \in Request /\ g \in [Targets -> Gate]
  BY <1>1 DEF Request, Gate
<1>3. RequestOK(q, g, published[r])
  BY <1>1 DEF RequestOK, Request, Gate
<1>4. gate' = [gate EXCEPT ![r] = g]
  <2>1. [Closed EXCEPT !.state = "pending"] = [state |-> "pending", pending |-> None]
    BY DEF Closed
  <2> QED BY <2>1 DEF openGate, RequestsOK
<1>5. req' = [req EXCEPT ![r] = q]
  BY <1>1 DEF attempt, attemptedWith, RequestsOK, Request
<1>6. published' = [published EXCEPT ![r] = published[r]]
  BY DEF RequestsOK
<1> HIDE DEF q, g
<1> QED BY <1>1, <1>2, <1>3, <1>4, <1>5, <1>6, OneRequest

\* A waiting request discards its attempt and ends or reads the failure.
LEMMA Discards ==
  ASSUME RequestsOK, NEW r \in Requests, req[r].pc = "waiting",
         discard(r, req[r].target), NEW q \in Request,
         q.attempted = req[r].attempted,
         q.pc \notin {"idle", "waiting", "answered"},
         q.pc = "consuming" => q.target = req[r].target /\ q.snapshot = req[r].snapshot,
         req' = [req EXCEPT ![r] = q]
  PROVE  RequestsOK'
<1> DEFINE t == req[r].target
           g == [gate[r] EXCEPT ![t] = [state |-> "discarded", pending |-> None]]
<1>1. /\ req[r] \in Request /\ gate[r] \in [Targets -> Gate]
      /\ published[r] \in Seq(Targets \X Callbacks)
      /\ RequestOK(req[r], gate[r], published[r])
  BY DEF RequestsOK
<1>2. g \in [Targets -> Gate] /\ t \in Targets /\ t \in req[r].attempted
  BY <1>1 DEF Request, Gate, RequestOK
<1>3. RequestOK(q, g, published[r])
  BY <1>1, <1>2 DEF RequestOK, Request, Gate
<1>4. gate' = [gate EXCEPT ![r] = g]
  BY DEF discard, setGate, RequestsOK
<1>5. published' = [published EXCEPT ![r] = published[r]]
  BY DEF discard, RequestsOK
<1> HIDE DEF g, t
<1> QED BY <1>1, <1>2, <1>3, <1>4, <1>5, OneRequest

\* A waiting request is answered; a callback that came early is passed on.
LEMMA Commits ==
  ASSUME RequestsOK, NEW r \in Requests, req[r].pc = "waiting",
         commit(r, req[r].target), finish(r, "answered")
  PROVE  RequestsOK'
<1> DEFINE t == req[r].target
           early == gate[r][t].pending
           q == [req[r] EXCEPT !.pc = "answered", !.target = None,
                               !.failure = None, !.snapshot = None]
           g == [gate[r] EXCEPT ![t] = [state |-> "committed", pending |-> early]]
           p == IF early = None THEN <<>> ELSE << <<t, early>> >>
<1>1. /\ req[r] \in Request /\ gate[r] \in [Targets -> Gate]
      /\ published[r] = <<>>
      /\ RequestOK(req[r], gate[r], published[r])
  BY DEF RequestsOK, RequestOK
<1>2. t \in Targets /\ early \in Callbacks \union {None} /\ g \in [Targets -> Gate]
  BY <1>1 DEF Request, Gate, RequestOK
<1>3. q \in Request
  BY <1>1 DEF Request, Answered
<1>4. p \in Seq(Targets \X Callbacks)
  <2>1. CASE early = None
    BY <2>1
  <2>2. CASE early # None
    BY <1>2, <2>2, OneCallback
  <2> QED BY <2>1, <2>2
<1>5. published' = [published EXCEPT ![r] = p]
  <2>1. CASE early = None
    BY <1>1, <2>1 DEF commit, RequestsOK
  <2>2. CASE early # None
    <3>1. published' = [published EXCEPT ![r] = Append(@, <<t, early>>)]
      BY <2>2 DEF commit, publish
    <3>2. Append(<<>>, <<t, early>>) = << <<t, early>> >>
      OBVIOUS
    <3> QED BY <1>1, <2>2, <3>1, <3>2 DEF RequestsOK
  <2> QED BY <2>1, <2>2
<1>6. /\ req' = [req EXCEPT ![r] = q]
      /\ gate' = [gate EXCEPT ![r] = g]
  <2>1. req' = [req EXCEPT ![r] = q]
    BY <1>1 DEF finish, RequestsOK, Request
  <2>2. gate' = [gate EXCEPT ![r] = g]
    BY DEF commit, setGate, RequestsOK
  <2> QED BY <2>1, <2>2
<1>7. RequestOK(q, g, p)
  <2>1. \A u \in Targets : g[u].state = "committed" <=> u = t
    BY <1>1, <1>2 DEF RequestOK
  <2>2. g[t].pending = early
    BY <1>1, <1>2
  <2>3. \E v \in Targets :
          /\ \A u \in Targets : g[u].state = "committed" <=> u = v
          /\ p = IF g[v].pending = None THEN <<>> ELSE << <<v, g[v].pending>> >>
    BY <1>2, <2>1, <2>2
  <2>4. q.pc = "answered" /\ q.attempted = req[r].attempted
    BY <1>1 DEF Request
  <2>5. t \in req[r].attempted
    BY <1>1 DEF RequestOK
  <2>6. \A u \in Targets : /\ g[u].state = "none" <=> u \notin q.attempted
                           /\ g[u].state # "pending"
    BY <1>1, <1>2, <2>4, <2>5 DEF RequestOK
  <2> HIDE DEF q, g, p
  <2> QED BY <2>3, <2>4, <2>6 DEF RequestOK
<1> HIDE DEF q, g, p
<1> QED BY <1>2, <1>3, <1>4, <1>5, <1>6, <1>7, OneRequest

\* A callback of an attempt is kept, or passed on when it is the answer's.
LEMMA Calls ==
  ASSUME RequestsOK, NEW r \in Requests, NEW t \in Targets, NEW v \in Callbacks,
         ChildCallback(r, t, v)
  PROVE  RequestsOK'
<1> DEFINE s == gate[r][t].state
           g == [gate[r] EXCEPT ![t] = [state |-> s, pending |-> v]]
           p == IF s = "committed" THEN << <<t, v>> >> ELSE published[r]
<1>1. /\ req[r] \in Request /\ gate[r] \in [Targets -> Gate]
      /\ published[r] \in Seq(Targets \X Callbacks)
      /\ RequestOK(req[r], gate[r], published[r])
  BY DEF RequestsOK
<1>2. s \in {"pending", "committed"} /\ gate[r][t].pending = None
  BY DEF ChildCallback
<1>3. g \in [Targets -> Gate]
  BY <1>1, <1>2 DEF Gate
<1>4. p \in Seq(Targets \X Callbacks)
  BY <1>1, OneCallback
<1>5. s = "committed" => req[r].pc = "answered" /\ published[r] = <<>>
                         /\ \A u \in Targets : gate[r][u].state = "committed" <=> u = t
  BY <1>1, <1>2 DEF RequestOK
<1>6. published' = [published EXCEPT ![r] = p]
  <2>1. CASE s = "committed"
    <3>1. published' = [published EXCEPT ![r] = Append(@, <<t, v>>)]
      BY <2>1 DEF ChildCallback, publish
    <3>2. Append(<<>>, <<t, v>>) = << <<t, v>> >>
      OBVIOUS
    <3> QED BY <1>5, <2>1, <3>1, <3>2 DEF RequestsOK
  <2>2. CASE s # "committed"
    BY <2>2 DEF ChildCallback, RequestsOK
  <2> QED BY <2>1, <2>2
<1>7. /\ req' = [req EXCEPT ![r] = req[r]]
      /\ gate' = [gate EXCEPT ![r] = g]
  <2>1. req' = req /\ setGate(r, t, s, v)
    BY DEF ChildCallback
  <2> QED BY <2>1 DEF setGate, RequestsOK
<1>8. /\ \A u \in Targets : g[u].state = gate[r][u].state
      /\ g[t].pending = v /\ v # None
      /\ \A u \in Targets : u # t => g[u].pending = gate[r][u].pending
  BY <1>1, <1>3, BoundsAssumption DEF Callbacks
<1>9. RequestOK(req[r], g, p)
  <2>1. CASE s = "committed"
    BY <1>1, <1>5, <1>8, <2>1 DEF RequestOK
  <2>2. CASE s = "pending"
    <3>1. req[r].pc = "waiting" /\ p = published[r]
      BY <1>1, <2>2 DEF RequestOK
    <3> HIDE DEF g, p
    <3> QED BY <1>1, <1>8, <3>1 DEF RequestOK
  <2> QED BY <1>2, <2>1, <2>2
<1> HIDE DEF g, p
<1> QED BY <1>1, <1>3, <1>4, <1>6, <1>7, <1>9, OneRequest

-----------------------------------------------------------------------------
(* The invariant is inductive *)

\* What one request may pick is some of a combo's targets it has not tried,
\* also when the pick is the one of Begin, before which it tried none.
LEMMA EligibleTargets ==
  ASSUME ComboInv, NEW c \in Configs, NEW A
  PROVE  /\ eligible(c, A) \in SUBSET targetsOf(c)
         /\ eligible(c, A) \cap A = {}
         /\ LET t == pickedFrom(c, eligible(c, A))
            IN  t # None => t \in eligible(c, A) /\ t \in Targets \ A
<1>1. eligible(c, A) \in SUBSET targetsOf(c) /\ eligible(c, A) \cap A = {}
  BY DEF eligible
<1>2. currentWeights \in [Targets -> Int]
  BY DEF ComboInv, SelectionOK
<1>3. targetsOf(c) \subseteq Targets
  BY ComboTargets
<1> QED BY <1>1, <1>2, <1>3, Picked

LEMMA InvInit == Init => ComboInv
<1> SUFFICES ASSUME Init PROVE ComboInv
  OBVIOUS
<1>1. OthersOK
  BY BoundsAssumption DEF Init, OthersOK
<1>2. SelectionOK
  BY DEF Init, SelectionOK, StickyRunIsBounded
<1>3. RequestsOK
  <2>1. NotStarted \in Request /\ Closed \in Gate
    BY DEF NotStarted, Closed, Request, Gate
  <2>2. <<>> \in Seq(Targets \X Callbacks)
    OBVIOUS
  <2>3. RequestOK(NotStarted, [t \in Targets |-> Closed], <<>>)
    BY DEF RequestOK, NotStarted, Closed
  <2> QED BY <2>1, <2>2, <2>3 DEF Init, RequestsOK
<1> QED BY <1>1, <1>2, <1>3 DEF ComboInv

\* The steps of a request.
LEMMA InvRequestStep ==
  ASSUME ComboInv, NEW r \in Requests, RequestStep(r)
  PROVE  ComboInv'
<1> USE DEF config, callbacks
<1>0. /\ OthersOK /\ SelectionOK /\ RequestsOK
      /\ req[r] \in Request /\ RequestOK(req[r], gate[r], published[r])
  BY DEF ComboInv, RequestsOK
<1>1. CASE Begin(r)
  <2> DEFINE S == eligible(combo, {})
             t == pickedFrom(combo, S)
  <2>1. /\ req[r].pc = "idle" /\ combo \in Configs
        /\ select(combo, S)
        /\ IF t = None \/ req[r].aborted
             THEN /\ finish(r, IF t = None THEN "unavailable" ELSE "cancelled")
                  /\ UNCHANGED gate
             ELSE attempt(r, combo, t) /\ openGate(r, t)
        /\ UNCHANGED <<now, combo, enabled, commands, cooldownUntil, published>>
    BY <1>0, <1>1 DEF Begin, OthersOK
  <2>2. SelectionOK'
    BY <2>1, EligibleTargets, SelectOK
  <2>3. t # None => t \in Targets \ req[r].attempted
    BY <1>0, <2>1, EligibleTargets DEF RequestOK
  <2> HIDE DEF S, t
  <2>4. RequestsOK'
    <3>1. CASE t = None \/ req[r].aborted
      BY <1>0, <2>1, <3>1, Ends DEF Answered
    <3>2. CASE ~(t = None \/ req[r].aborted)
      BY <1>0, <2>1, <2>3, <3>2, Starts
    <3> QED BY <3>1, <3>2
  <2> QED BY <1>0, <2>1, <2>2, <2>4 DEF ComboInv, OthersOK
<1>2. CASE BeginUnknown(r)
  <2>1. RequestsOK'
    BY <1>0, <1>2, Ends DEF BeginUnknown, Answered
  <2> QED BY <1>0, <1>2, <2>1
          DEF BeginUnknown, selection, ComboInv, OthersOK, SelectionOK, StickyRunIsBounded
<1>3. CASE ChildCancelled(r) \/ Child499(r) \/ \E f \in Failures : ChildFailed(r, f)
  <2>1. PICK q \in Request :
          /\ req' = [req EXCEPT ![r] = q]
          /\ q.attempted = req[r].attempted
          /\ q.pc \notin {"idle", "waiting", "answered"}
          /\ q.pc = "consuming" => q.target = req[r].target /\ q.snapshot = req[r].snapshot
    <3>1. ASSUME NEW s \in {"cancelled", "thrown"}, finish(r, s)
          PROVE  \E q \in Request :
                   /\ req' = [req EXCEPT ![r] = q]
                   /\ q.attempted = req[r].attempted
                   /\ q.pc \notin {"idle", "waiting", "answered", "consuming"}
      <4> DEFINE q == [req[r] EXCEPT !.pc = s, !.target = None,
                                     !.failure = None, !.snapshot = None]
      <4>1. q \in Request
        BY <1>0 DEF Request, Answered
      <4>2. req' = [req EXCEPT ![r] = q]
        BY <1>0, <3>1 DEF finish, RequestsOK, Request
      <4>3. q.pc = s /\ q.attempted = req[r].attempted
        BY <1>0 DEF Request
      <4> HIDE DEF q
      <4> QED BY <4>1, <4>2, <4>3
    <3>2. ASSUME NEW f \in Failures, ChildFailed(r, f)
          PROVE  \E q \in Request :
                   /\ req' = [req EXCEPT ![r] = q]
                   /\ q.attempted = req[r].attempted
                   /\ q.pc = "consuming"
                   /\ q.target = req[r].target /\ q.snapshot = req[r].snapshot
      <4> DEFINE q == [req[r] EXCEPT !.pc = "consuming", !.failure = f]
      <4>1. q \in Request
        BY <1>0 DEF Request
      <4>2. req' = [req EXCEPT ![r] = q]
        BY <1>0, <3>2 DEF ChildFailed, RequestsOK, Request
      <4>3. /\ q.pc = "consuming" /\ q.attempted = req[r].attempted
            /\ q.target = req[r].target /\ q.snapshot = req[r].snapshot
        BY <1>0 DEF Request
      <4> HIDE DEF q
      <4> QED BY <4>1, <4>2, <4>3
    <3>3. CASE ChildCancelled(r) \/ Child499(r)
      <4>1. PICK s \in {"cancelled", "thrown"} : finish(r, s)
        BY <3>3 DEF ChildCancelled, Child499
      <4> QED BY <3>1, <4>1
    <3> QED BY <1>3, <3>2, <3>3
  <2>2. req[r].pc = "waiting" /\ discard(r, req[r].target)
    BY <1>3 DEF ChildCancelled, Child499, ChildFailed, isWaiting
  <2>3. RequestsOK'
    BY <1>0, <2>1, <2>2, Discards
  <2> QED BY <1>0, <1>3, <2>3
          DEF ChildCancelled, Child499, ChildFailed, selection,
              ComboInv, OthersOK, SelectionOK, StickyRunIsBounded
<1>4. CASE ChildSucceeded(r)
  <2>1. req[r].pc = "waiting" /\ req[r].target \in Targets /\ req[r].snapshot \in Configs
    BY <1>0, <1>4 DEF ChildSucceeded, isWaiting, RequestOK, Request
  <2>2. SelectionOK'
    BY <1>4, <2>1, NoteOK DEF ChildSucceeded
  <2>3. RequestsOK'
    BY <1>0, <1>4, <2>1, Commits DEF ChildSucceeded
  <2> QED BY <1>0, <1>4, <2>2, <2>3 DEF ChildSucceeded, ComboInv, OthersOK
<1>5. CASE FailureCancelled(r) \/ FailureStops(r)
  <2>1. RequestsOK'
    BY <1>0, <1>5, Ends DEF FailureCancelled, FailureStops, isConsuming, Answered
  <2> QED BY <1>0, <1>5, <2>1
          DEF FailureCancelled, FailureStops, selection,
              ComboInv, OthersOK, SelectionOK, StickyRunIsBounded
<1>6. ASSUME hops(r) PROVE cooldownUntil' \in [Targets -> Nat]
  <2>1. PICK d \in Cooldowns :
          cooldownUntil' = [cooldownUntil EXCEPT ![req[r].target] = now + d]
    BY <1>6 DEF hops, coolComboTarget
  <2>2. now + d \in Nat
    BY <1>0, BoundsAssumption DEF OthersOK
  <2> QED BY <1>0, <2>1, <2>2 DEF OthersOK
<1>7. CASE FailureHops(r)
  <2> DEFINE S == eligible(combo, req[r].attempted)
             t == pickedFrom(combo, S)
  <2>1. /\ req[r].pc = "consuming" /\ combo \in Configs
        /\ select(combo, S)
        /\ IF t = None
             THEN finish(r, "exhausted") /\ UNCHANGED gate
             ELSE attempt(r, req[r].snapshot, t) /\ openGate(r, t)
        /\ UNCHANGED <<now, combo, enabled, commands, published>>
    BY <1>0, <1>7 DEF FailureHops, hops, isConsuming, OthersOK
  <2>2. SelectionOK'
    BY <2>1, EligibleTargets, SelectOK
  <2>3. t # None => t \in Targets \ req[r].attempted
    BY <2>1, EligibleTargets
  <2>4. req[r].snapshot \in Configs
    BY <1>0, <2>1 DEF RequestOK
  <2>5. cooldownUntil' \in [Targets -> Nat]
    BY <1>6, <1>7 DEF FailureHops
  <2> HIDE DEF S, t
  <2>6. RequestsOK'
    <3>1. CASE t = None
      BY <1>0, <2>1, <3>1, Ends DEF Answered
    <3>2. CASE t # None
      BY <1>0, <2>1, <2>3, <2>4, <3>2, Starts
    <3> QED BY <3>1, <3>2
  <2> QED BY <1>0, <2>1, <2>2, <2>5, <2>6 DEF ComboInv, OthersOK
<1>8. CASE FailureThrows(r)
  <2>1. cooldownUntil' \in [Targets -> Nat]
    BY <1>6, <1>8 DEF FailureThrows
  <2>2. RequestsOK'
    BY <1>0, <1>8, Ends DEF FailureThrows, hops, isConsuming, Answered
  <2>3. SelectionOK'
    BY <1>0, <1>8 DEF FailureThrows, selection, SelectionOK, StickyRunIsBounded
  <2> QED BY <1>0, <1>8, <2>1, <2>2, <2>3 DEF FailureThrows, ComboInv, OthersOK
<1> QED BY <1>1, <1>2, <1>3, <1>4, <1>5, <1>7, <1>8 DEF RequestStep

\* Every other step.
LEMMA InvStep == ComboInv /\ [Next]_vars => ComboInv'
<1> SUFFICES ASSUME ComboInv, [Next]_vars PROVE ComboInv'
  OBVIOUS
<1> USE DEF config, callbacks, vars
<1>0. OthersOK /\ SelectionOK /\ RequestsOK
  BY DEF ComboInv
<1>1. ASSUME NEW r \in Requests, RequestStep(r) PROVE ComboInv'
  BY <1>1, InvRequestStep
<1>2. ASSUME NEW r \in Requests, Abort(r) PROVE ComboInv'
  <2> DEFINE q == [req[r] EXCEPT !.aborted = TRUE]
             g == gate[r]
             p == published[r]
  <2>1. /\ req[r] \in Request /\ g \in [Targets -> Gate]
        /\ p \in Seq(Targets \X Callbacks) /\ RequestOK(req[r], g, p)
    BY <1>0 DEF RequestsOK
  <2>2. q \in Request /\ RequestOK(q, g, p)
    BY <2>1 DEF Request, RequestOK
  <2>3. /\ req' = [req EXCEPT ![r] = q]
        /\ gate' = [gate EXCEPT ![r] = g]
        /\ published' = [published EXCEPT ![r] = p]
    BY <1>0, <1>2 DEF Abort, RequestsOK
  <2> HIDE DEF q, g, p
  <2>4. RequestsOK'
    BY <1>0, <2>1, <2>2, <2>3, OneRequest
  <2> QED BY <1>0, <1>2, <2>4
          DEF Abort, selection, ComboInv, OthersOK, SelectionOK, StickyRunIsBounded
<1>3. ASSUME NEW r \in Requests, NEW t \in Targets, NEW v \in Callbacks,
             ChildCallback(r, t, v)
      PROVE  ComboInv'
  <2>1. RequestsOK'
    BY <1>0, <1>3, Calls
  <2> QED BY <1>0, <1>3, <2>1
          DEF ChildCallback, selection, ComboInv, OthersOK, SelectionOK, StickyRunIsBounded
<1>4. CASE Tick
  BY <1>0, <1>4, BoundsAssumption
  DEF Tick, selection, ComboInv, OthersOK, SelectionOK, StickyRunIsBounded, RequestsOK
<1>5. ASSUME command PROVE commands' \in 0..MaxCommands /\ RequestsOK' /\ now' = now
  BY <1>0, <1>5, BoundsAssumption DEF command, OthersOK, RequestsOK
<1>6. ASSUME clearCombo PROVE SelectionOK' /\ cooldownUntil' \in [Targets -> Nat]
  BY <1>6 DEF clearCombo, SelectionOK, StickyRunIsBounded
<1>7. ASSUME NEW c \in Configs, PutCombo(c) PROVE ComboInv'
  BY <1>0, <1>5, <1>6, <1>7 DEF PutCombo, ComboInv, OthersOK
<1>8. CASE DeleteCombo
  BY <1>0, <1>5, <1>6, <1>8 DEF DeleteCombo, ComboInv, OthersOK
<1>9. ASSUME NEW t \in Targets, SwitchProvider(t) PROVE ComboInv'
  BY <1>0, <1>5, <1>9
  DEF SwitchProvider, selection, ComboInv, OthersOK, SelectionOK, StickyRunIsBounded
<1>10. CASE UNCHANGED vars
  BY <1>0, <1>10
  DEF selection, ComboInv, OthersOK, SelectionOK, StickyRunIsBounded, RequestsOK
<1> QED BY <1>1, <1>2, <1>3, <1>4, <1>7, <1>8, <1>9, <1>10 DEF Next

LEMMA InvHolds == Spec => []ComboInv
<1> QED BY InvInit, InvStep, PTL DEF Spec

\* Every reachable state is of the declared types.
THEOREM TypeCorrect == Spec => []TypeOK
<1> QED BY InvHolds, InvImpliesTypes, PTL

\* The sticky target is given up before its run of successes reaches the
\* limit, also when requests of several saved combos count for it.
THEOREM StickyRunsEnd == Spec => []StickyRunIsBounded
<1>1. ComboInv => StickyRunIsBounded
  BY DEF ComboInv, SelectionOK
<1> QED BY <1>1, InvHolds, PTL

\* One attempt commits, in an answered request, and its callback is what was
\* passed on: neither the callbacks of the attempts before it nor a second
\* one of its own get through.
THEOREM OneOutcome == Spec => []OutcomeIsTheWinners
<1>1. ComboInv => OutcomeIsTheWinners
  <2> SUFFICES ASSUME ComboInv, NEW r \in Requests
               PROVE  LET won == {t \in Targets : gate[r][t].state = "committed"}
                      IN  /\ won # {} <=> req[r].pc = "answered"
                          /\ published[r] = <<>> => \A t \in won : gate[r][t].pending = None
                          /\ published[r] # <<>> =>
                               \E t \in won : published[r] = << <<t, gate[r][t].pending>> >>
    BY DEF OutcomeIsTheWinners
  <2> DEFINE won == {t \in Targets : gate[r][t].state = "committed"}
  <2>1. RequestOK(req[r], gate[r], published[r])
    BY DEF ComboInv, RequestsOK
  <2>2. CASE req[r].pc # "answered"
    BY <2>1, <2>2 DEF RequestOK
  <2>3. CASE req[r].pc = "answered"
    <3>1. PICK t \in Targets :
            /\ won = {t}
            /\ published[r] = IF gate[r][t].pending = None THEN <<>>
                              ELSE << <<t, gate[r][t].pending>> >>
      BY <2>1, <2>3 DEF RequestOK
    <3>2. \A x : << <<t, x>> >> # <<>>
      OBVIOUS
    <3> HIDE DEF won
    <3>3. published[r] = <<>> => gate[r][t].pending = None
      BY <3>1, <3>2
    <3>4. /\ won # {} <=> req[r].pc = "answered"
          /\ published[r] = <<>> => \A u \in won : gate[r][u].pending = None
          /\ published[r] # <<>> =>
               \E u \in won : published[r] = << <<u, gate[r][u].pending>> >>
      BY <2>3, <3>1, <3>3
    <3> QED BY <3>4 DEF won
  <2> QED BY <2>2, <2>3
<1> QED BY <1>1, InvHolds, PTL

-----------------------------------------------------------------------------
(* What a step may do *)

\* Only the two picks open a gate: in the other steps no gate becomes
\* pending, and no request gives up.
LEMMA OtherStepsOpenNothing ==
  ASSUME ComboInv, [Next]_vars, \A r \in Requests : ~Begin(r) /\ ~FailureHops(r)
  PROVE  \A s \in Requests :
           /\ \A t \in Targets : gate'[s][t].state = "pending" => gate[s][t].state = "pending"
           /\ req'[s].pc \in {"unavailable", "exhausted"} => req'[s].pc = req[s].pc
<1> USE DEF config, callbacks, vars
<1>0. /\ req \in [Requests -> Request] /\ gate \in [Requests -> [Targets -> Gate]]
  BY DEF ComboInv, RequestsOK
<1> DEFINE Nothing ==
      \A s \in Requests :
        /\ \A t \in Targets : gate'[s][t].state = "pending" => gate[s][t].state = "pending"
        /\ req'[s].pc \in {"unavailable", "exhausted"} => req'[s].pc = req[s].pc
<1>1. ASSUME NEW r \in Requests, ChildCancelled(r) \/ Child499(r) PROVE Nothing
  <2>1. PICK x \in {"cancelled", "thrown"} : finish(r, x)
    BY <1>1 DEF ChildCancelled, Child499
  <2>2. discard(r, req[r].target)
    BY <1>1 DEF ChildCancelled, Child499
  <2>3. \A s \in Requests, t \in Targets :
          gate'[s][t].state = "pending" => gate[s][t].state = "pending"
    BY <1>0, <2>2 DEF discard, setGate, Gate
  <2>4. \A s \in Requests :
          req'[s].pc \in {"unavailable", "exhausted"} => req'[s].pc = req[s].pc
    BY <1>0, <2>1 DEF finish, Request
  <2> QED BY <2>3, <2>4
<1>2. ASSUME NEW r \in Requests, NEW f \in Failures, ChildFailed(r, f) PROVE Nothing
  BY <1>0, <1>2 DEF ChildFailed, discard, setGate, Gate, Request
<1>3. ASSUME NEW r \in Requests, ChildSucceeded(r) PROVE Nothing
  BY <1>0, <1>3 DEF ChildSucceeded, commit, setGate, finish, Gate, Request
<1>4. ASSUME NEW r \in Requests,
             BeginUnknown(r) \/ FailureCancelled(r) \/ FailureStops(r) \/ FailureThrows(r)
      PROVE  Nothing
  BY <1>0, <1>4 DEF BeginUnknown, FailureCancelled, FailureStops, FailureThrows,
                    finish, Request
<1>5. ASSUME NEW r \in Requests, Abort(r) PROVE Nothing
  BY <1>0, <1>5 DEF Abort, Request
<1>6. ASSUME NEW r \in Requests, NEW t \in Targets, NEW v \in Callbacks,
             ChildCallback(r, t, v)
      PROVE  Nothing
  BY <1>0, <1>6 DEF ChildCallback, setGate, Gate
<1>7. ASSUME UNCHANGED <<req, gate>> PROVE Nothing
  BY <1>7
<1> HIDE DEF Nothing
<1>8. ASSUME \/ Tick \/ \E c \in Configs : PutCombo(c)
             \/ DeleteCombo \/ \E t \in Targets : SwitchProvider(t)
             \/ UNCHANGED vars
      PROVE  Nothing
  BY <1>7, <1>8 DEF Tick, PutCombo, DeleteCombo, SwitchProvider, command
<1>9. ASSUME NEW r \in Requests, RequestStep(r) PROVE Nothing
  BY <1>1, <1>2, <1>3, <1>4, <1>9 DEF RequestStep
<1>10. Nothing
  BY <1>5, <1>6, <1>8, <1>9 DEF Next
<1> QED BY <1>10 DEF Nothing

\* What a pick does: it opens the gate of a target that may serve and that
\* the request has not tried, or it finds that there is none.
LEMMA PickOpensOne ==
  ASSUME ComboInv, NEW r \in Requests, Begin(r) \/ FailureHops(r)
  PROVE  /\ combo \in Configs
         /\ \A s \in Requests, t \in Targets :
              gate'[s][t].state = "pending" /\ gate[s][t].state # "pending"
              => s = r /\ t \in eligible(combo, req[r].attempted)
         /\ \A s \in Requests :
              req'[s].pc \in {"unavailable", "exhausted"} /\ req'[s].pc # req[s].pc
              => s = r /\ eligible(combo, req[r].attempted) = {}
<1> USE DEF config, callbacks
<1> DEFINE S == eligible(combo, req[r].attempted)
           t == pickedFrom(combo, S)
<1>0. /\ req \in [Requests -> Request] /\ gate \in [Requests -> [Targets -> Gate]]
      /\ combo \in Configs \union {None}
      /\ req[r].pc = "idle" => req[r].attempted = {}
      /\ currentWeights \in [Targets -> Int]
  BY DEF ComboInv, OthersOK, SelectionOK, RequestsOK, RequestOK
<1>1. combo \in Configs
  BY <1>0 DEF Begin, FailureHops
<1>2. \/ t # None /\ openGate(r, t) /\ \E c : attempt(r, c, t)
      \/ t = None /\ UNCHANGED gate /\ \E x : finish(r, x)
      \/ UNCHANGED gate /\ finish(r, "cancelled")
  <2>1. CASE Begin(r)
    BY <1>0, <2>1 DEF Begin
  <2>2. CASE FailureHops(r)
    BY <2>2 DEF FailureHops
  <2> QED BY <2>1, <2>2
<1>3. S \in SUBSET targetsOf(combo)
  BY <1>1, EligibleTargets
<1>4. /\ S # {} => t \in S /\ t # None
      /\ S = {} => t = None
  BY <1>0, <1>1, <1>3, Picked
<1> HIDE DEF S, t
<1>5. CASE t # None /\ openGate(r, t) /\ \E c : attempt(r, c, t)
  <2>1. gate' = [gate EXCEPT ![r][t] = [state |-> "pending", pending |-> None]]
    <3>1. [Closed EXCEPT !.state = "pending"] = [state |-> "pending", pending |-> None]
      BY DEF Closed
    <3> QED BY <1>5, <3>1 DEF openGate
  <2>2. \A s \in Requests : s # r => req'[s] = req[s]
    BY <1>0, <1>5 DEF attempt
  <2>3. req'[r].pc = "waiting"
    BY <1>0, <1>5 DEF attempt, Request
  <2> QED BY <1>0, <1>1, <1>4, <1>5, <2>1, <2>2, <2>3 DEF S
<1>6. CASE t = None /\ UNCHANGED gate /\ \E x : finish(r, x)
  <2>1. \A s \in Requests : s # r => req'[s] = req[s]
    BY <1>0, <1>6 DEF finish
  <2> QED BY <1>1, <1>4, <1>6, <2>1 DEF S
<1>7. CASE UNCHANGED gate /\ finish(r, "cancelled")
  <2>1. \A s \in Requests : s # r => req'[s] = req[s]
    BY <1>0, <1>7 DEF finish
  <2>2. req'[r].pc = "cancelled"
    BY <1>0, <1>7 DEF finish, Request
  <2> QED BY <1>1, <1>7, <2>1, <2>2
<1> QED BY <1>2, <1>5, <1>6, <1>7

\* Every new attempt of every step.
LEMMA EveryAttempt ==
  ASSUME ComboInv, [Next]_vars, NEW r \in Requests, NEW t \in Targets,
         gate[r][t].state # "pending", gate'[r][t].state = "pending"
  PROVE  /\ gate[r][t].state = "none"
         /\ t \in targetsOf(combo) \cap enabled
         /\ ~isComboTargetInCooldown(t)
<1>1. \E s \in Requests : Begin(s) \/ FailureHops(s)
  BY OtherStepsOpenNothing
<1>2. t \in eligible(combo, req[r].attempted)
  BY <1>1, PickOpensOne
<1>3. t \notin req[r].attempted => gate[r][t].state = "none"
  BY DEF ComboInv, RequestsOK, RequestOK
<1> QED BY <1>2, <1>3 DEF eligible

\* No target is tried twice by a request, so a request makes at most as many
\* attempts as there are targets, whatever runs out or changes meanwhile.
THEOREM NoTargetIsRetried == Spec => TargetsAreTriedOnce
<1> DEFINE Once == \A r \in Requests, t \in Targets :
                     gate[r][t].state # "pending" /\ gate'[r][t].state = "pending"
                     => gate[r][t].state = "none"
<1>1. ComboInv /\ [Next]_vars => [Once]_vars
  BY EveryAttempt
<1> QED BY <1>1, InvHolds, PTL DEF Spec, TargetsAreTriedOnce

\* Every attempt is of a target of the combo, enabled and not cooling down.
THEOREM AttemptsAreAvailable == Spec => AttemptsGoToAvailableTargets
<1> DEFINE Available ==
      \A r \in Requests, t \in Targets :
        gate[r][t].state # "pending" /\ gate'[r][t].state = "pending"
        => t \in targetsOf(combo) \cap enabled /\ ~isComboTargetInCooldown(t)
<1>1. ComboInv /\ [Next]_vars => [Available]_vars
  BY EveryAttempt
<1> QED BY <1>1, InvHolds, PTL DEF Spec, AttemptsGoToAvailableTargets

\* A request gives up only when every enabled target is cooling down or was
\* tried by it: a sticky target that cannot serve hides no other.
THEOREM NoTargetIsLeftOut == Spec => GivesUpOnlyWhenExhausted
<1> DEFINE Exhausted ==
      \A r \in Requests :
        req[r].pc \notin Answered /\ req'[r].pc \in {"unavailable", "exhausted"}
        => \A t \in targetsOf(combo) \cap enabled :
             isComboTargetInCooldown(t) \/ gate[r][t].state # "none"
<1>1. ASSUME ComboInv, [Next]_vars, NEW r \in Requests,
             req[r].pc \notin Answered, req'[r].pc \in {"unavailable", "exhausted"},
             NEW t \in targetsOf(combo) \cap enabled
      PROVE  isComboTargetInCooldown(t) \/ gate[r][t].state # "none"
  <2>1. req'[r].pc # req[r].pc
    BY <1>1 DEF Answered
  <2>2. \E s \in Requests : Begin(s) \/ FailureHops(s)
    BY <1>1, <2>1, OtherStepsOpenNothing
  <2>3. combo \in Configs /\ eligible(combo, req[r].attempted) = {}
    BY <1>1, <2>1, <2>2, PickOpensOne
  <2>4. t \in Targets
    BY <2>3, ComboTargets
  <2>5. t \in req[r].attempted => gate[r][t].state # "none"
    BY <1>1, <2>4 DEF ComboInv, RequestsOK, RequestOK
  <2> QED BY <2>3, <2>5 DEF eligible
<1>2. ComboInv /\ [Next]_vars => [Exhausted]_vars
  BY <1>1
<1> QED BY <1>2, InvHolds, PTL DEF Spec, GivesUpOnlyWhenExhausted

\* When the client is gone, its request ends without a trace.
THEOREM CancellationIsClean == Spec => CancelledLeavesNoTrace
<1> DEFINE Clean ==
      \A r \in Requests :
        (/\ req[r].aborted
         /\ req[r].pc \in {"waiting", "consuming"}
         /\ req'[r].pc # req[r].pc)
        => UNCHANGED <<selection, cooldownUntil, published>> /\ req'[r].pc \in Answered
<1>1. ASSUME ComboInv, [Next]_vars, NEW r \in Requests,
             req[r].aborted, req[r].pc \in {"waiting", "consuming"},
             req'[r].pc # req[r].pc
      PROVE  UNCHANGED <<selection, cooldownUntil, published>> /\ req'[r].pc \in Answered
  <2> USE <1>1 DEF config, callbacks, vars
  <2>0. req \in [Requests -> Request]
      BY DEF ComboInv, RequestsOK
  <2>1. ASSUME NEW s \in Requests, RequestStep(s) PROVE s = r
      <3>1. ASSUME s # r PROVE req'[r] = req[r]
        BY <2>0, <2>1, <3>1
        DEF RequestStep, Begin, BeginUnknown, ChildCancelled, Child499, ChildSucceeded,
            ChildFailed, FailureCancelled, FailureStops, FailureHops, FailureThrows,
            finish, attempt
      <3> QED BY <3>1
  <2>2. ASSUME NEW s \in Requests, Abort(s) PROVE req'[r].pc = req[r].pc
    BY <2>0, <2>2 DEF Abort, Request
  <2>3. RequestStep(r)
      BY <2>1, <2>2 DEF Next, ChildCallback, Tick, PutCombo, DeleteCombo,
                        SwitchProvider, command
  <2>4. ChildCancelled(r) \/ Child499(r) \/ FailureCancelled(r)
      BY <2>3 DEF RequestStep, Begin, BeginUnknown, ChildSucceeded, ChildFailed,
                  FailureStops, FailureHops, FailureThrows, hops, clientIsGone
  <2>5. finish(r, "cancelled") \/ finish(r, "thrown")
      BY <2>4 DEF ChildCancelled, Child499, FailureCancelled
  <2>6. req'[r].pc \in Answered
      BY <2>0, <2>5 DEF finish, Request, Answered
  <2> QED BY <2>4, <2>6 DEF ChildCancelled, Child499, FailureCancelled, discard
<1>2. ComboInv /\ [Next]_vars => [Clean]_vars
  BY <1>1
<1> QED BY <1>2, InvHolds, PTL DEF Spec, CancelledLeavesNoTrace

-----------------------------------------------------------------------------
(* The smooth weights *)

Balanced == sumOver(currentWeights, Targets) = 0

\* Only a pick moves weights, and saving or deleting the combo resets them.
LEMMA WeightsMove ==
  ASSUME ComboInv, [Next]_vars
  PROVE  \/ UNCHANGED currentWeights
         \/ currentWeights' = [t \in Targets |-> 0]
         \/ \E c \in Configs : \E S \in SUBSET targetsOf(c) :
              S # {} /\ currentWeights' = weightsAfter(c, S)
<1>1. ASSUME NEW c \in Configs, NEW S \in SUBSET targetsOf(c), select(c, S)
      PROVE  \/ UNCHANGED currentWeights
             \/ S # {} /\ currentWeights' = weightsAfter(c, S)
  BY <1>1 DEF select, selection
<1>2. ASSUME NEW r \in Requests, RequestStep(r)
      PROVE  \/ UNCHANGED currentWeights
             \/ \E c \in Configs : \E S \in SUBSET targetsOf(c) :
                  S # {} /\ currentWeights' = weightsAfter(c, S)
  <2>1. CASE Begin(r) \/ FailureHops(r)
    <3>1. PICK A \in {{}, req[r].attempted} : combo # None /\ select(combo, eligible(combo, A))
      BY <2>1 DEF Begin, FailureHops
    <3>2. combo \in Configs
      BY <3>1 DEF ComboInv, OthersOK
    <3>3. eligible(combo, A) \in SUBSET targetsOf(combo)
      BY DEF eligible
    <3> QED BY <1>1, <3>1, <3>2, <3>3
  <2>2. CASE ~(Begin(r) \/ FailureHops(r))
    BY <1>2, <2>2 DEF RequestStep, BeginUnknown, ChildCancelled, Child499,
       ChildSucceeded, noteComboSuccess, ChildFailed, FailureCancelled, FailureStops,
       FailureThrows, selection
  <2> QED BY <2>1, <2>2
<1> QED BY <1>2 DEF Next, Abort, ChildCallback, Tick, PutCombo, DeleteCombo, clearCombo,
           SwitchProvider, selection, vars

\* The sum of no weights is nothing.
LEMMA NoWeights == sumOver([t \in Targets |-> 0], Targets) = 0
<1> DEFINE zero == [t \in Targets |-> 0]
<1>1. zero \in [Targets -> Int] /\ \A t \in Targets \ {} : zero[t] = 0
  OBVIOUS
<1> HIDE DEF zero
<1>2. sumOver(zero, Targets) = sumOver(zero, {})
  BY <1>1, TargetsAssumption, SumLeavesOut
<1>3. sumOver(zero, {}) = 0
  BY SumOfNothing
<1> QED BY <1>2, <1>3 DEF zero

\* Whatever is picked from, by whichever requests, while the combo is saved
\* and deleted: what one pick gives to the targets it takes from its winner.
THEOREM BalancedWeights == Spec => []WeightsAreBalanced
<1>1. Init => Balanced
  BY NoWeights DEF Init, Balanced
<1>2. ComboInv /\ Balanced /\ [Next]_vars => Balanced'
  <2> SUFFICES ASSUME ComboInv, Balanced, [Next]_vars
               PROVE  sumOver(currentWeights', Targets) = 0
    BY DEF Balanced
  <2>1. currentWeights \in [Targets -> Int]
    BY DEF ComboInv, SelectionOK
  <2> QED BY <2>1, WeightsMove, NoWeights, PickKeepsBalance DEF Balanced
<1>3. Balanced => WeightsAreBalanced
  BY DEF Balanced, WeightsAreBalanced, MapThenSumSet, MapThenFoldSet, sumOver, IsSum, oneOf
<1>4. Spec => []Balanced
  BY <1>1, <1>2, InvHolds, PTL DEF Spec
<1> QED BY <1>3, <1>4, PTL

-----------------------------------------------------------------------------
(* What the client sees *)

\* What the client of a request has asked for and was told.
told(asks, cur, verd, left, reps) ==
  [asked |-> asks, current |-> cur, verdict |-> verd, reader |-> left, told |-> reps]

\* A field of such a record is asked for, or gets another value.
LEMMA Told ==
  ASSUME NEW a, NEW k, NEW v, NEW g, NEW p, NEW x
  PROVE  LET c == told(a, k, v, g, p) IN
         /\ c.asked = a /\ c.current = k /\ c.verdict = v /\ c.reader = g /\ c.told = p
         /\ [c EXCEPT !.current = x] = told(a, x, v, g, p)
         /\ [c EXCEPT !.verdict = x] = told(a, k, x, g, p)
         /\ [c EXCEPT !.reader = x] = told(a, k, v, x, p)
         /\ [c EXCEPT !.told = x] = told(a, k, v, g, x)
BY DEF told

\* The steps of a client, as the combo makes them.
LEMMA ClientAsks ==
  ASSUME NEW A, NEW g, g # "gone", NEW p, NEW t \in usable \ A
  PROVE  Client!Step(told(A, None, "open", g, p), told(A \union {t}, t, "open", g, p))
<1> DEFINE R == [asked : {A, A \union {t}}, current : {None, t}, verdict : {"open"},
                 reader : {g}, told : {p}]
           c == told(A, None, "open", g, p)
           d == told(A \union {t}, t, "open", g, p)
<1>1. c.asked = A /\ c.current = None /\ c.verdict = "open" /\ c.reader = g
  BY Told
<1>2. d = [c EXCEPT !.asked = A \union {t}, !.current = t]
  <2>1. c \in R /\ d \in R /\ d.asked = A \union {t} /\ d.current = t
    BY DEF told
  <2> HIDE DEF c, d
  <2>2. PICK x : x = [c EXCEPT !.asked = A \union {t}, !.current = t]
    OBVIOUS
  <2>3. x \in R /\ x.asked = A \union {t} /\ x.current = t
    BY <2>1, <2>2
  <2>4. x = d
    BY <2>1, <2>3
  <2> QED BY <2>2, <2>4
<1> HIDE DEF c, d
<1>3. Client!Ask(c, d)
  BY <1>1, <1>2 DEF Client!Ask, Client!isOpen, Client!isGone
<1> QED BY <1>3 DEF Client!Step, c, d

LEMMA ClientFails ==
  ASSUME NEW A, NEW g, NEW p, NEW t, t # None
  PROVE  Client!Step(told(A, t, "open", g, p), told(A, None, "open", g, p))
<1>1. Client!Fail(told(A, t, "open", g, p), told(A, None, "open", g, p))
  BY Told DEF Client!Fail, Client!isOpen
<1> QED BY <1>1 DEF Client!Step

LEMMA ClientIsAnswered ==
  ASSUME NEW A, NEW t, t # None, NEW g, g # "gone", NEW reps,
         reps = <<>> \/ \E v \in Callbacks : reps = << <<t, v>> >>
  PROVE  Client!Step(told(A, t, "open", g, <<>>), told(A, t, "answered", g, reps))
<1> DEFINE R == [asked : {A}, current : {t}, verdict : {"open", "answered"},
                 reader : {g}, told : {<<>>, reps}]
           c == told(A, t, "open", g, <<>>)
           d == told(A, t, "answered", g, reps)
<1>1. c.current = t /\ c.verdict = "open" /\ c.reader = g
  BY Told
<1>2. d = [c EXCEPT !.verdict = "answered", !.told = reps]
  <2>1. c \in R /\ d \in R /\ d.verdict = "answered" /\ d.told = reps
    BY DEF told
  <2> HIDE DEF c, d
  <2>2. PICK x : x = [c EXCEPT !.verdict = "answered", !.told = reps]
    OBVIOUS
  <2>3. x \in R /\ x.verdict = "answered" /\ x.told = reps
    BY <2>1, <2>2
  <2>4. x = d
    BY <2>1, <2>3
  <2> QED BY <2>2, <2>4
<1>3. reps = <<>> => d = [c EXCEPT !.verdict = "answered"]
  BY Told
<1> HIDE DEF c, d
<1>4. Client!Answer(c, d)
  BY <1>1, <1>2, <1>3 DEF Client!Answer, Client!isOpen, Client!isGone
<1> QED BY <1>4 DEF Client!Step, c, d

LEMMA ClientIsTold ==
  ASSUME NEW A, NEW t, NEW g, NEW v \in Callbacks
  PROVE  Client!Step(told(A, t, "answered", g, <<>>),
                     told(A, t, "answered", g, << <<t, v>> >>))
<1>1. Client!Report(told(A, t, "answered", g, <<>>),
                    told(A, t, "answered", g, << <<t, v>> >>))
  BY Told DEF Client!Report
<1> QED BY <1>1 DEF Client!Step

LEMMA ClientIsRefused ==
  ASSUME NEW A, NEW g, NEW p, usable \subseteq A
  PROVE  Client!Step(told(A, None, "open", g, p), told(A, None, "refused", g, p))
<1>1. Client!Refuse(told(A, None, "open", g, p), told(A, None, "refused", g, p))
  BY Told DEF Client!Refuse, Client!isOpen
<1> QED BY <1>1 DEF Client!Step

LEMMA ClientIsDropped ==
  ASSUME NEW A, NEW t, NEW g, NEW p, g = "gone" \/ A # {}
  PROVE  Client!Step(told(A, t, "open", g, p), told(A, None, "dropped", g, p))
<1> DEFINE R == [asked : {A}, current : {t, None}, verdict : {"open", "dropped"},
                 reader : {g}, told : {p}]
           c == told(A, t, "open", g, p)
           d == told(A, None, "dropped", g, p)
<1>1. c.asked = A /\ c.verdict = "open" /\ c.reader = g
  BY Told
<1>2. d = [c EXCEPT !.verdict = "dropped", !.current = None]
  <2>1. c \in R /\ d \in R /\ d.verdict = "dropped" /\ d.current = None
    BY DEF told
  <2> HIDE DEF c, d
  <2>2. PICK x : x = [c EXCEPT !.verdict = "dropped", !.current = None]
    OBVIOUS
  <2>3. x \in R /\ x.verdict = "dropped" /\ x.current = None
    BY <2>1, <2>2
  <2>4. x = d
    BY <2>1, <2>3
  <2> QED BY <2>2, <2>4
<1> HIDE DEF c, d
<1>3. Client!Drop(c, d)
  BY <1>1, <1>2 DEF Client!Drop, Client!isOpen, Client!isGone
<1> QED BY <1>3 DEF Client!Step, c, d

LEMMA ClientLeaves ==
  ASSUME NEW A, NEW t, NEW g, g # "gone", NEW p
  PROVE  Client!Step(told(A, t, "open", g, p), told(A, t, "open", "gone", p))
<1>1. Client!Leave(told(A, t, "open", g, p), told(A, t, "open", "gone", p))
  BY Told DEF Client!Leave, Client!isOpen, Client!isGone
<1> QED BY <1>1 DEF Client!Step

\* What the invariant says of a request makes what its client has seen: the
\* targets that were asked are those attempted, and one gate is the answer's.
LEMMA ServiceIs ==
  ASSUME NEW q \in Request, NEW g \in [Targets -> Gate], NEW p, RequestOK(q, g, p)
  PROVE  LET left == IF q.aborted THEN "gone" ELSE "there"
             A    == q.attempted
         IN  /\ q.pc \in {"idle", "consuming"} =>
                  service(q, g, p) = told(A, None, "open", left, <<>>)
             /\ q.pc = "waiting" =>
                  service(q, g, p) = told(A, q.target, "open", left, <<>>)
             /\ \A t \in Targets : q.pc = "answered" /\ g[t].state = "committed" =>
                  service(q, g, p) = told(A, t, "answered", left, p)
             /\ q.pc \in {"unavailable", "exhausted", "unknown"} =>
                  service(q, g, p) = told(A, None, "refused", left, <<>>)
             /\ q.pc \in {"stopped", "cancelled", "thrown"} =>
                  service(q, g, p) = told(A, None, "dropped", left, <<>>)
<1>1. {t \in Targets : g[t].state # "none"} = q.attempted
  BY DEF RequestOK, Request
<1>2. service(q, g, p) = told(q.attempted, current(q, g), verdict(q.pc),
                              IF q.aborted THEN "gone" ELSE "there", p)
  BY <1>1 DEF service, told
<1>3. ASSUME NEW t \in Targets, q.pc = "answered", g[t].state = "committed"
      PROVE  current(q, g) = t
  <2>1. \A u \in Targets : g[u].state = "committed" => u = t
    BY <1>3 DEF RequestOK
  <2> QED BY <1>3, <2>1 DEF current
<1>4. /\ q.pc = "waiting" => current(q, g) = q.target
      /\ q.pc \notin {"waiting", "answered"} => current(q, g) = None
  BY DEF current
<1>5. q.pc # "answered" => p = <<>>
  BY DEF RequestOK
<1> QED BY <1>2, <1>3, <1>4, <1>5 DEF verdict

\* How a request's fields change when it ends, and when it makes an attempt.
LEMMA Finished ==
  ASSUME req \in [Requests -> Request], NEW r \in Requests, NEW s, finish(r, s)
  PROVE  /\ req'[r].pc = s
         /\ req'[r].attempted = req[r].attempted
         /\ req'[r].aborted = req[r].aborted
BY DEF finish, Request

LEMMA Attempted ==
  ASSUME req \in [Requests -> Request], NEW r \in Requests, NEW c, NEW t, attempt(r, c, t)
  PROVE  /\ req'[r].pc = "waiting"
         /\ req'[r].target = t
         /\ req'[r].attempted = req[r].attempted \union {t}
         /\ req'[r].aborted = req[r].aborted
BY DEF attempt, attemptedWith, Request

\* A pick asks a usable target or finds none, as the client's step does.
LEMMA PickIsAskOrRefuse ==
  ASSUME ComboInv, ComboInv', NEW r \in Requests, req[r].pc \in {"idle", "consuming"},
         combo # None, published' = published, NEW c,
         LET t == pickedFrom(combo, eligible(combo, req[r].attempted))
         IN  \/ t # None /\ ~req[r].aborted /\ attempt(r, c, t)
             \/ t = None /\ \E s \in {"unavailable", "exhausted"} : finish(r, s)
  PROVE  Client!Step(client[r], client'[r])
<1> DEFINE A == req[r].attempted
           S == eligible(combo, A)
           t == pickedFrom(combo, S)
           left == IF req[r].aborted THEN "gone" ELSE "there"
<1>0. /\ req \in [Requests -> Request] /\ req' \in [Requests -> Request]
      /\ gate[r] \in [Targets -> Gate] /\ gate'[r] \in [Targets -> Gate]
      /\ RequestOK(req[r], gate[r], published[r])
      /\ RequestOK(req'[r], gate'[r], published'[r])
      /\ combo \in Configs
  BY DEF ComboInv, OthersOK, RequestsOK
<1>1. client[r] = told(A, None, "open", left, <<>>)
  BY <1>0, ServiceIs DEF client
<1>2. usable \ A = S
  BY DEF usable, eligible
<1>3. /\ S # {} => t \in S
      /\ S = {} => t = None
  BY <1>0, EligibleTargets, Picked DEF ComboInv, SelectionOK
<1>4. client'[r] = service(req'[r], gate'[r], published'[r])
  BY DEF client
<1>5. CASE t # None /\ ~req[r].aborted /\ attempt(r, c, t)
  <2>1. t \in usable \ A /\ left # "gone"
    BY <1>2, <1>3, <1>5
  <2>2. /\ req'[r].pc = "waiting" /\ req'[r].target = t
        /\ req'[r].attempted = A \union {t} /\ req'[r].aborted = req[r].aborted
    <3> HIDE DEF t
    <3> QED BY <1>0, <1>5, Attempted
  <2> HIDE DEF t, S
  <2>3. client'[r] = told(req'[r].attempted, req'[r].target, "open", left, <<>>)
    <3>1. PICK q \in Request, g \in [Targets -> Gate], p \in {published'[r]} :
            q = req'[r] /\ g = gate'[r] /\ RequestOK(q, g, p)
      BY <1>0
    <3>2. service(q, g, p)
            = told(q.attempted, q.target, "open", IF q.aborted THEN "gone" ELSE "there", <<>>)
      BY <2>2, <3>1, ServiceIs
    <3>3. ~q.aborted /\ left = "there"
      BY <1>5, <2>2, <3>1
    <3> QED BY <1>4, <3>1, <3>2, <3>3
  <2> HIDE DEF A, left
  <2>4. client'[r] = told(A \union {t}, t, "open", left, <<>>)
    BY <2>2, <2>3
  <2> QED BY <1>1, <2>1, <2>4, ClientAsks
<1>6. CASE t = None /\ \E s \in {"unavailable", "exhausted"} : finish(r, s)
  <2>1. client'[r] = told(A, None, "refused", left, <<>>)
    BY <1>0, <1>4, <1>6, Finished, ServiceIs
  <2>2. usable \subseteq A
    <3>1. None \notin S
      BY <1>0, EligibleTargets, ComboTargets, BoundsAssumption
    <3> QED BY <1>2, <1>3, <1>6, <3>1
  <2> HIDE DEF A, S, t, left
  <2> QED BY <1>1, <2>1, <2>2, ClientIsRefused
<1> QED BY <1>5, <1>6

\* A request that ends without an answer is refused when there is no combo, and
\* else dropped: it has asked a target, or its client has left.
LEMMA EndIsDropOrRefuse ==
  ASSUME ComboInv, ComboInv', NEW r \in Requests,
         req[r].pc \in {"idle", "waiting", "consuming"}, published' = published,
         NEW s \in {"unknown", "stopped", "cancelled", "thrown"}, finish(r, s),
         s = "unknown" => req[r].pc = "idle" /\ combo = None,
         s # "unknown" => req[r].aborted \/ req[r].pc # "idle"
  PROVE  Client!Step(client[r], client'[r])
<1> DEFINE A == req[r].attempted
           left == IF req[r].aborted THEN "gone" ELSE "there"
           t == IF req[r].pc = "waiting" THEN req[r].target ELSE None
<1>0. /\ req \in [Requests -> Request] /\ req' \in [Requests -> Request]
      /\ gate[r] \in [Targets -> Gate] /\ gate'[r] \in [Targets -> Gate]
      /\ RequestOK(req[r], gate[r], published[r])
      /\ RequestOK(req'[r], gate'[r], published'[r])
  BY DEF ComboInv, RequestsOK
<1>1. client[r] = told(A, t, "open", left, <<>>)
  BY <1>0, ServiceIs DEF client
<1>2. client'[r] = service(req'[r], gate'[r], published'[r])
  BY DEF client
<1>3. /\ req'[r].pc = s
      /\ req'[r].attempted = A /\ req'[r].aborted = req[r].aborted
  BY <1>0, Finished
<1>4. CASE s = "unknown"
  <2>1. client'[r] = told(A, None, "refused", left, <<>>)
    BY <1>0, <1>2, <1>3, <1>4, ServiceIs
  <2>2. t = None /\ usable \subseteq A
    BY <1>4 DEF usable
  <2> HIDE DEF A, left, t
  <2> QED BY <1>1, <2>1, <2>2, ClientIsRefused
<1>5. CASE s # "unknown"
  <2>1. client'[r] = told(A, None, "dropped", left, <<>>)
    BY <1>0, <1>2, <1>3, <1>5, ServiceIs
  <2>2. left = "gone" \/ A # {}
    BY <1>0, <1>5 DEF RequestOK
  <2> HIDE DEF A, left, t
  <2> QED BY <1>1, <2>1, <2>2, ClientIsDropped
<1> QED BY <1>4, <1>5

\* The success of a child is the answer, with the report that came before it.
LEMMA SuccessIsAnswer ==
  ASSUME ComboInv, ComboInv', NEW r \in Requests, ChildSucceeded(r)
  PROVE  Client!Step(client[r], client'[r])
<1> DEFINE A == req[r].attempted
           t == req[r].target
           early == gate[r][t].pending
           reps == IF early = None THEN <<>> ELSE << <<t, early>> >>
<1>0. /\ req \in [Requests -> Request] /\ req' \in [Requests -> Request]
      /\ gate \in [Requests -> [Targets -> Gate]]
      /\ gate[r] \in [Targets -> Gate] /\ gate'[r] \in [Targets -> Gate]
      /\ RequestOK(req[r], gate[r], published[r])
      /\ RequestOK(req'[r], gate'[r], published'[r])
  BY DEF ComboInv, RequestsOK
<1>1. req[r].pc = "waiting" /\ ~req[r].aborted /\ commit(r, t) /\ finish(r, "answered")
  BY DEF ChildSucceeded, isWaiting
<1>2. t \in Targets /\ t # None
  BY <1>0, <1>1, BoundsAssumption DEF RequestOK, Request
<1>3. client[r] = told(A, t, "open", "there", <<>>)
  BY <1>0, <1>1, ServiceIs DEF client
<1>4. gate'[r][t].state = "committed" /\ gate'[r][t].pending = early
  BY <1>0, <1>1, <1>2 DEF commit, setGate
<1>5. /\ req'[r].pc = "answered"
      /\ req'[r].attempted = A /\ req'[r].aborted = req[r].aborted
  BY <1>0, <1>1, Finished
<1>6. published'[r] = reps
  <2>1. PICK u \in Targets :
          /\ \A v \in Targets : gate'[r][v].state = "committed" <=> v = u
          /\ published'[r] = IF gate'[r][u].pending = None THEN <<>>
                             ELSE << <<u, gate'[r][u].pending>> >>
    BY <1>0, <1>5 DEF RequestOK
  <2>2. u = t
    BY <1>2, <1>4, <2>1
  <2> HIDE DEF t, early
  <2> QED BY <1>4, <2>1, <2>2
<1>7. client'[r] = told(A, t, "answered", "there", reps)
  <2>1. client'[r] = service(req'[r], gate'[r], published'[r])
    BY DEF client
  <2> HIDE DEF reps, t, A
  <2> QED BY <1>0, <1>1, <1>2, <1>4, <1>5, <1>6, <2>1, ServiceIs
<1>8. reps = <<>> \/ \E v \in Callbacks : reps = << <<t, v>> >>
  BY <1>0, <1>2 DEF Gate
<1> HIDE DEF A, t, reps
<1> QED BY <1>2, <1>3, <1>7, <1>8, ClientIsAnswered

\* A failure frees the client for the next target.
LEMMA FailureIsFail ==
  ASSUME ComboInv, ComboInv', NEW r \in Requests, NEW f \in Failures, ChildFailed(r, f)
  PROVE  Client!Step(client[r], client'[r])
<1> DEFINE A == req[r].attempted
           t == req[r].target
<1>0. /\ req \in [Requests -> Request] /\ req' \in [Requests -> Request]
      /\ gate[r] \in [Targets -> Gate] /\ gate'[r] \in [Targets -> Gate]
      /\ RequestOK(req[r], gate[r], published[r])
      /\ RequestOK(req'[r], gate'[r], published'[r])
  BY DEF ComboInv, RequestsOK
<1>1. req[r].pc = "waiting" /\ ~req[r].aborted
  BY DEF ChildFailed, isWaiting
<1>2. t # None
  BY <1>0, <1>1, BoundsAssumption DEF RequestOK, Request
<1>3. client[r] = told(A, t, "open", "there", <<>>)
  BY <1>0, <1>1, ServiceIs DEF client
<1>4. req'[r].pc = "consuming" /\ req'[r].attempted = A /\ ~req'[r].aborted
  BY <1>0, <1>1 DEF ChildFailed, Request
<1>5. client'[r] = told(A, None, "open", "there", <<>>)
  <2>1. client'[r] = service(req'[r], gate'[r], published'[r])
    BY DEF client
  <2> QED BY <1>0, <1>4, <2>1, ServiceIs
<1> HIDE DEF A, t
<1> QED BY <1>2, <1>3, <1>5, ClientFails

\* A client leaves only before it is answered.
LEMMA AbortIsLeave ==
  ASSUME ComboInv, ComboInv', NEW r \in Requests, Abort(r)
  PROVE  Client!Step(client[r], client'[r])
<1> DEFINE A == req[r].attempted
           t == IF req[r].pc = "waiting" THEN req[r].target ELSE None
<1>0. /\ req \in [Requests -> Request] /\ req' \in [Requests -> Request]
      /\ gate[r] \in [Targets -> Gate] /\ gate'[r] \in [Targets -> Gate]
      /\ RequestOK(req[r], gate[r], published[r])
      /\ RequestOK(req'[r], gate'[r], published'[r])
  BY DEF ComboInv, RequestsOK
<1>1. req[r].pc \in {"idle", "waiting", "consuming"} /\ ~req[r].aborted
  BY DEF Abort
<1>2. client[r] = told(A, t, "open", "there", <<>>)
  BY <1>0, <1>1, ServiceIs DEF client
<1>3. /\ req'[r].pc = req[r].pc /\ req'[r].attempted = A
      /\ req'[r].target = req[r].target /\ req'[r].aborted
  BY <1>0 DEF Abort, Request
<1>4. client'[r] = told(A, t, "open", "gone", <<>>)
  <2>1. client'[r] = service(req'[r], gate'[r], published'[r])
    BY DEF client
  <2> QED BY <1>0, <1>1, <1>3, <2>1, ServiceIs
<1> HIDE DEF A, t
<1> QED BY <1>2, <1>4, ClientLeaves

\* A callback is passed on when its attempt is the answer, and kept for the
\* answer when the attempt is still waited for.
LEMMA CallbackIsReport ==
  ASSUME ComboInv, ComboInv', NEW r \in Requests, NEW t \in Targets,
         NEW v \in Callbacks, ChildCallback(r, t, v)
  PROVE  client'[r] = client[r] \/ Client!Step(client[r], client'[r])
<1> DEFINE A == req[r].attempted
           left == IF req[r].aborted THEN "gone" ELSE "there"
<1>0. /\ req[r] \in Request /\ req' = req
      /\ gate \in [Requests -> [Targets -> Gate]]
      /\ gate[r] \in [Targets -> Gate] /\ gate'[r] \in [Targets -> Gate]
      /\ RequestOK(req[r], gate[r], published[r])
      /\ RequestOK(req'[r], gate'[r], published'[r])
  BY DEF ComboInv, RequestsOK, ChildCallback
<1>1. client'[r] = service(req[r], gate'[r], published'[r])
  BY <1>0 DEF client
<1>2. CASE req[r].pc # "answered"
  <2>1. client'[r] = client[r]
    <3>1. req[r].pc \in {"idle", "waiting", "consuming", "unavailable", "exhausted",
                         "unknown", "stopped", "cancelled", "thrown"}
      BY <1>0, <1>2 DEF Request, Answered
    <3>2. client[r] = service(req[r], gate[r], published[r])
      BY DEF client
    <3> QED BY <1>0, <1>1, <3>1, <3>2, ServiceIs
  <2> QED BY <2>1
<1>3. CASE req[r].pc = "answered"
  <2>1. gate[r][t].state \in {"pending", "committed"} /\ gate[r][t].pending = None
    BY DEF ChildCallback
  <2>2. gate[r][t].state = "committed"
    BY <1>0, <1>3, <2>1 DEF RequestOK
  <2>3. published[r] = <<>>
    <3>1. PICK u \in Targets :
            /\ \A w \in Targets : gate[r][w].state = "committed" <=> w = u
            /\ published[r] = IF gate[r][u].pending = None THEN <<>>
                              ELSE << <<u, gate[r][u].pending>> >>
      BY <1>0, <1>3 DEF RequestOK
    <3>2. u = t
      BY <2>2, <3>1
    <3> QED BY <2>1, <3>1, <3>2
  <2>4. gate'[r][t].state = "committed" /\ gate'[r][t].pending = v
    BY <1>0, <2>2 DEF ChildCallback, setGate
  <2>5. published'[r] = << <<t, v>> >>
    <3>1. PICK u \in Targets :
            /\ \A w \in Targets : gate'[r][w].state = "committed" <=> w = u
            /\ published'[r] = IF gate'[r][u].pending = None THEN <<>>
                               ELSE << <<u, gate'[r][u].pending>> >>
      BY <1>0, <1>3 DEF RequestOK
    <3>2. u = t /\ v # None
      BY <2>4, <3>1, BoundsAssumption
    <3> QED BY <2>4, <3>1, <3>2
  <2>6. client[r] = told(A, t, "answered", left, <<>>)
    <3>1. client[r] = service(req[r], gate[r], published[r])
      BY DEF client
    <3> QED BY <1>0, <1>3, <2>2, <2>3, <3>1, ServiceIs
  <2>7. client'[r] = told(A, t, "answered", left, published'[r])
    BY <1>0, <1>1, <1>3, <2>4, ServiceIs
  <2> HIDE DEF A, left
  <2>8. client'[r] = told(A, t, "answered", left, << <<t, v>> >>)
    BY <2>5, <2>7
  <2> QED BY <2>6, <2>8, ClientIsTold
<1> QED BY <1>2, <1>3

\* Every step of a request is a step of its client.
LEMMA RequestIsServed ==
  ASSUME ComboInv, ComboInv', NEW r \in Requests, RequestStep(r)
  PROVE  Client!Step(client[r], client'[r])
<1> USE DEF config, callbacks
<1>0. /\ req[r].pc = "idle" => req[r].attempted = {}
      /\ combo \in Configs \union {None}
  BY DEF ComboInv, OthersOK, RequestsOK, RequestOK
<1>1. CASE Begin(r)
  <2> DEFINE t == pickedFrom(combo, eligible(combo, req[r].attempted))
  <2>1. /\ req[r].pc = "idle" /\ combo # None /\ published' = published
        /\ \/ t = None /\ finish(r, "unavailable")
           \/ t # None /\ req[r].aborted /\ finish(r, "cancelled")
           \/ t # None /\ ~req[r].aborted /\ attempt(r, combo, t)
    BY <1>0, <1>1 DEF Begin
  <2>2. CASE t # None /\ req[r].aborted /\ finish(r, "cancelled")
    BY <2>1, <2>2, EndIsDropOrRefuse
  <2>3. CASE \/ t # None /\ ~req[r].aborted /\ attempt(r, combo, t)
             \/ t = None /\ \E s \in {"unavailable", "exhausted"} : finish(r, s)
    BY <2>1, <2>3, PickIsAskOrRefuse
  <2> HIDE DEF t
  <2> QED BY <2>1, <2>2, <2>3
<1>2. CASE FailureHops(r)
  <2> DEFINE t == pickedFrom(combo, eligible(combo, req[r].attempted))
  <2>1. /\ req[r].pc = "consuming" /\ combo # None /\ published' = published
        /\ \/ t = None /\ finish(r, "exhausted")
           \/ t # None /\ ~req[r].aborted /\ attempt(r, req[r].snapshot, t)
    BY <1>2 DEF FailureHops, hops, isConsuming, clientIsGone
  <2> QED BY <2>1, PickIsAskOrRefuse
<1>3. CASE BeginUnknown(r)
  <2>1. /\ req[r].pc = "idle" /\ combo = None /\ published' = published
        /\ finish(r, "unknown")
    BY <1>3 DEF BeginUnknown
  <2> QED BY <2>1, EndIsDropOrRefuse
<1>4. CASE ChildCancelled(r) \/ Child499(r) \/ FailureCancelled(r) \/ FailureStops(r)
           \/ FailureThrows(r)
  <2>1. /\ req[r].pc \in {"waiting", "consuming"} /\ published' = published
        /\ \E s \in {"stopped", "cancelled", "thrown"} : finish(r, s)
    BY <1>4 DEF ChildCancelled, Child499, FailureCancelled, FailureStops, FailureThrows,
                hops, isWaiting, isConsuming, discard
  <2> QED BY <2>1, EndIsDropOrRefuse
<1>5. CASE ChildSucceeded(r)
  BY <1>5, SuccessIsAnswer
<1>6. CASE \E f \in Failures : ChildFailed(r, f)
  BY <1>6, FailureIsFail
<1> QED BY <1>1, <1>2, <1>3, <1>4, <1>5, <1>6 DEF RequestStep

\* The other requests rest.
LEMMA OthersRest ==
  ASSUME ComboInv, NEW r \in Requests,
         RequestStep(r) \/ Abort(r)
         \/ \E t \in Targets, v \in Callbacks : ChildCallback(r, t, v),
         NEW s \in Requests, s # r
  PROVE  client'[s] = client[s]
<1> USE DEF config, callbacks
<1>0. /\ req \in [Requests -> Request]
      /\ gate \in [Requests -> [Targets -> Gate]]
      /\ published \in [Requests -> Seq(Targets \X Callbacks)]
  BY DEF ComboInv, RequestsOK
<1>1. req'[s] = req[s]
  BY <1>0 DEF RequestStep, Begin, BeginUnknown, ChildCancelled, Child499, ChildSucceeded,
              ChildFailed, FailureCancelled, FailureStops, FailureHops, FailureThrows,
              finish, attempt, Abort, ChildCallback
<1>2. gate'[s] = gate[s]
  BY <1>0 DEF RequestStep, Begin, BeginUnknown, ChildCancelled, Child499, ChildSucceeded,
              ChildFailed, FailureCancelled, FailureStops, FailureHops, FailureThrows,
              openGate, discard, commit, setGate, Abort, ChildCallback
<1>3. published'[s] = published[s]
  BY <1>0 DEF RequestStep, Begin, BeginUnknown, ChildCancelled, Child499, ChildSucceeded,
              ChildFailed, FailureCancelled, FailureStops, FailureHops, FailureThrows,
              discard, commit, publish, Abort, ChildCallback
<1> QED BY <1>1, <1>2, <1>3 DEF client

\* What may be asked is always some of the targets.
LEMMA UsableTargets == ComboInv => usable \subseteq Targets
<1> SUFFICES ASSUME ComboInv PROVE usable \subseteq Targets
  OBVIOUS
<1>1. CASE combo = None
  BY <1>1 DEF usable
<1>2. CASE combo \in Configs
  <2>1. targetsOf(combo) \subseteq Targets
    BY <1>2, ComboTargets
  <2> QED BY <2>1 DEF usable, eligible
<1> QED BY <1>1, <1>2 DEF ComboInv, OthersOK

\* Nobody is served at first.
LEMMA ClientInit == Init => Client!Init
<1> SUFFICES ASSUME Init PROVE Client!Init
  OBVIOUS
<1>1. usable \subseteq Targets
  BY InvInit, UsableTargets
<1>2. \A r \in Requests : client[r] = told({}, None, "open", "there", <<>>)
  <2> TAKE r \in Requests
  <2>1. /\ req[r] \in Request /\ gate[r] \in [Targets -> Gate]
        /\ RequestOK(req[r], gate[r], published[r])
    BY InvInit DEF ComboInv, RequestsOK
  <2>2. req[r].pc = "idle" /\ req[r].attempted = {} /\ ~req[r].aborted
    BY DEF Init, NotStarted
  <2>3. client[r] = service(req[r], gate[r], published[r])
    BY DEF client
  <2>4. client[r] = told(req[r].attempted, None, "open",
                         IF req[r].aborted THEN "gone" ELSE "there", <<>>)
    BY <2>1, <2>2, <2>3, ServiceIs
  <2> QED BY <2>2, <2>4
<1>3. client = [r \in Requests |-> Client!Unserved]
  BY <1>2 DEF client, told, Client!Unserved
<1> QED BY <1>1, <1>3 DEF Client!Init

\* Every step of the combo is one of its clients, or changes their surroundings.
LEMMA ClientStep ==
  ComboInv /\ ComboInv' /\ [Next]_vars => [Client!Next]_<<usable, client>>
<1> SUFFICES ASSUME ComboInv, ComboInv', [Next]_vars PROVE Client!Next
  OBVIOUS
<1> USE DEF config, callbacks, vars
<1>1. usable' \subseteq Targets
  <2>1. CASE combo' = None
    BY <2>1 DEF usable
  <2>2. CASE combo' \in Configs
    <3>1. targetsOf(combo') \subseteq Targets
      BY <2>2, ComboTargets
    <3> QED BY <3>1 DEF usable, eligible
  <2> QED BY <2>1, <2>2 DEF ComboInv, OthersOK
<1>2. ASSUME NEW r \in Requests,
             RequestStep(r) \/ Abort(r)
             \/ \E t \in Targets, v \in Callbacks : ChildCallback(r, t, v)
      PROVE  \A s \in Requests : client'[s] = client[s] \/ Client!Step(client[s], client'[s])
  <2>1. client'[r] = client[r] \/ Client!Step(client[r], client'[r])
    BY <1>2, RequestIsServed, AbortIsLeave, CallbackIsReport
  <2>2. \A s \in Requests \ {r} : client'[s] = client[s]
    BY <1>2, OthersRest
  <2> QED BY <2>1, <2>2
<1>3. ASSUME UNCHANGED <<req, gate, published>>
      PROVE  \A s \in Requests : client'[s] = client[s]
  BY <1>3 DEF client
<1>4. \A s \in Requests : client'[s] = client[s] \/ Client!Step(client[s], client'[s])
  BY <1>2, <1>3 DEF Next, Tick, PutCombo, DeleteCombo, SwitchProvider, command
<1> QED BY <1>1, <1>4 DEF Client!Next

\* A client gets one answer of one candidate, which is usable when it is
\* asked and asked once, and after the answer one report of it: every
\* behaviour of the combo is one of FailoverRequests.
THEOREM ClientsAreServed == Spec => FailoverSpec
<1>1. Init => Client!Init
  BY ClientInit
<1>2. ComboInv /\ ComboInv' /\ [Next]_vars => [Client!Next]_<<usable, client>>
  BY ClientStep
<1> QED BY <1>1, <1>2, InvHolds, PTL DEF Spec, FailoverSpec, Client!Spec

=============================================================================
