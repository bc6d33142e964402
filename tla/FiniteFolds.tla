---------------------------- MODULE FiniteFolds ----------------------------
(***************************************************************************)
(* Facts about folds over finite sets, their sums and their sorting, for   *)
(* the proofs about modules that use them.  The induction is that of the   *)
(* library: strict inclusion of finite sets is well founded, so among      *)
(* finite sets that refute a claim one is minimal.                         *)
(***************************************************************************)
EXTENDS Integers, FiniteSetsExt, Functions, FiniteSetTheorems, WellFoundedInduction, TLAPS

-----------------------------------------------------------------------------
(* Minimal elements *)

\* A set of naturals has a least element.
LEMMA Least ==
  ASSUME NEW T \in SUBSET Nat, T # {}
  PROVE  \E x \in T : \A y \in T : x <= y
<1>1. IsWellFoundedOn(OpToRel(<, Nat), Nat)
  BY NatLessThanWellFounded, Zenon
<1>2. PICK x \in T : \A y \in T : ~ (<<y, x>> \in OpToRel(<, Nat))
  BY <1>1, WFMin, Zenon
<1>3. \A y \in T : ~ (y < x)
  BY <1>2, Zenon DEF OpToRel
<1> QED
  BY <1>3

\* A set of naturals below a bound has a greatest one.
LEMMA Greatest ==
  ASSUME NEW n \in Nat, NEW T \in SUBSET (1 .. n), T # {}
  PROVE  Max(T) \in T /\ \A y \in T : y <= Max(T)
<1> DEFINE U == {n - x : x \in T}
<1>1. U \in SUBSET Nat /\ U # {}
  <2>1. \A x \in T : n - x \in Nat
    OBVIOUS
  <2> QED
    BY <2>1
<1>2. PICK u \in U : \A v \in U : u <= v
  <2> HIDE DEF U
  <2> QED
    BY <1>1, Least
<1>3. PICK x \in T : u = n - x
  OBVIOUS
<1>4. \A y \in T : x >= y
  <2> SUFFICES ASSUME NEW y \in T PROVE x >= y
    OBVIOUS
  <2>1. u <= n - y
    BY <1>2
  <2>2. x \in 1 .. n /\ y \in 1 .. n
    <3> HIDE DEF U
    <3> QED
      OBVIOUS
  <2> QED
    BY <1>3, <2>1, <2>2
<1> QED
  BY <1>4 DEF Max

\* Among finite sets one is minimal: this is the induction of all that follows.
LEMMA MinimalFinite ==
  ASSUME NEW F, F # {}, \A S \in F : IsFiniteSet(S)
  PROVE  \E S \in F : \A T \in F : T \subseteq S => T = S
<1> DEFINE U == UNION F
<1>1. F \subseteq FiniteSubsetsOf(U)
  BY DEF FiniteSubsetsOf
<1>2. IsWellFoundedOn(StrictSubsetOrdering(U), FiniteSubsetsOf(U))
  BY FS_StrictSubsetOrderingWellFounded
<1>3. PICK S \in F : \A T \in F : ~ (<<T, S>> \in StrictSubsetOrdering(U))
  BY <1>1, <1>2, WFMin
<1>4. ASSUME NEW T \in F, T \subseteq S PROVE T = S
  BY <1>3, <1>4 DEF StrictSubsetOrdering
<1> QED
  BY <1>4

-----------------------------------------------------------------------------
(* Folds *)

\* g[s] folds the elements of s, each time taking out the one that `pick' names.
IsFold(g, S, base, step, pick) ==
    \A s \in SUBSET S :
        g[s] = IF s = {} THEN base ELSE step[<<pick[s], g[s \ {pick[s]}]>>]

Picks(pick, S) == \A s \in SUBSET S : s # {} => pick[s] \in s

\* What holds of the empty set, and of a set when it holds without the element
\* that is picked, holds of every part of a finite set.
LEMMA PickInduction ==
  ASSUME NEW S, IsFiniteSet(S), NEW pick, Picks(pick, S), NEW P, {} \in P,
         \A s \in SUBSET S : s # {} /\ s \ {pick[s]} \in P => s \in P
  PROVE  SUBSET S \subseteq P
<1> DEFINE F == (SUBSET S) \ P
<1> SUFFICES ASSUME F # {} PROVE FALSE
  OBVIOUS
<1>1. \A s \in F : IsFiniteSet(s)
  BY FS_Subset
<1>2. PICK s \in F : \A t \in F : t \subseteq s => t = s
  <2> HIDE DEF F
  <2> QED
    BY <1>1, MinimalFinite
<1>3. s # {} /\ pick[s] \in s
  BY DEF Picks
<1>4. s \ {pick[s]} \notin F
  BY <1>2, <1>3
<1> QED
  BY <1>3, <1>4

\* Two folds of the same elements in the same order agree.
LEMMA FoldUnique ==
  ASSUME NEW S, NEW T, IsFiniteSet(S), NEW base, NEW step, NEW pick, Picks(pick, S),
         NEW g, IsFold(g, S, base, step, pick), NEW h, IsFold(h, T, base, step, pick)
  PROVE  \A s \in SUBSET (S \cap T) : g[s] = h[s]
<1> DEFINE P == {s \in SUBSET (S \cap T) : g[s] = h[s]}
<1>1. IsFiniteSet(S \cap T) /\ Picks(pick, S \cap T)
  BY FS_Subset DEF Picks
<1>2. {} \in P
  BY DEF IsFold
<1>3. ASSUME NEW s \in SUBSET (S \cap T), s # {}, s \ {pick[s]} \in P
      PROVE  s \in P
  <2>1. g[s] = step[<<pick[s], g[s \ {pick[s]}]>>] /\ h[s] = step[<<pick[s], h[s \ {pick[s]}]>>]
    BY <1>3 DEF IsFold
  <2> QED
    BY <1>3, <2>1
<1>4. SUBSET (S \cap T) \subseteq P
  <2> HIDE DEF P
  <2> QED
    BY <1>1, <1>2, <1>3, PickInduction
<1> QED
  BY <1>4

\* There is a fold of every finite set, with values of the type of the steps.
LEMMA FoldExists ==
  ASSUME NEW S, IsFiniteSet(S), NEW V, NEW base \in V, NEW step \in [S \X V -> V],
         NEW pick, Picks(pick, S)
  PROVE  \E g \in [SUBSET S -> V] : IsFold(g, S, base, step, pick)
<1> DEFINE F == {T \in SUBSET S : ~ \E g \in [SUBSET T -> V] : IsFold(g, T, base, step, pick)}
<1> SUFFICES ASSUME F # {} PROVE FALSE
  OBVIOUS
<1>1. \A T \in F : IsFiniteSet(T)
  BY FS_Subset
<1>2. PICK T \in F : \A t \in F : t \subseteq T => t = T
  <2> HIDE DEF F
  <2> QED
    BY <1>1, MinimalFinite
<1>3. T \in SUBSET S
  OBVIOUS
<1>4. \A s \in SUBSET T : s # T =>
         \E g \in [SUBSET s -> V] : IsFold(g, s, base, step, pick)
  <2> SUFFICES ASSUME NEW s \in SUBSET T, s # T
               PROVE  \E g \in [SUBSET s -> V] : IsFold(g, s, base, step, pick)
    OBVIOUS
  <2>1. s \notin F
    BY <1>2
  <2> QED
    BY <2>1, <1>3
<1> DEFINE below(s) == s \ {pick[s]}
           Q(s) == CHOOSE g \in [SUBSET s -> V] : IsFold(g, s, base, step, pick)
           P == [s \in SUBSET T |-> Q(s)]
<1>5. \A s \in SUBSET T : s # T => P[s] \in [SUBSET s -> V] /\ IsFold(P[s], s, base, step, pick)
  <2> SUFFICES ASSUME NEW s \in SUBSET T, s # T
               PROVE  Q(s) \in [SUBSET s -> V] /\ IsFold(Q(s), s, base, step, pick)
    OBVIOUS
  <2>1. \E g \in [SUBSET s -> V] : IsFold(g, s, base, step, pick)
    BY <1>4
  <2> QED
    BY <2>1, Zenon
<1> HIDE DEF P
<1> DEFINE val(s) == IF s = {} THEN base ELSE step[<<pick[s], P[below(s)][below(s)]>>]
           G == [s \in SUBSET T |-> val(s)]
<1>6. \A s \in SUBSET T : s # {} => pick[s] \in s /\ below(s) \in SUBSET T /\ below(s) # T
                                      /\ below(s) # s
  BY <1>3 DEF Picks
<1>7. \A s \in SUBSET T : val(s) \in V
  <2> SUFFICES ASSUME NEW s \in SUBSET T, s # {}
               PROVE  step[<<pick[s], P[below(s)][below(s)]>>] \in V
    OBVIOUS
  <2>1. P[below(s)] \in [SUBSET below(s) -> V]
    BY <1>5, <1>6
  <2>2. P[below(s)][below(s)] \in V
    BY <2>1
  <2>3. pick[s] \in S
    BY <1>6, <1>3
  <2> QED
    BY <2>2, <2>3
<1>8. \A s \in SUBSET T : s # T => P[s][s] = val(s)
  <2> SUFFICES ASSUME NEW s \in SUBSET T, s # T PROVE P[s][s] = val(s)
    OBVIOUS
  <2>1. IsFold(P[s], s, base, step, pick)
    BY <1>5
  <2>2. P[s][s] = IF s = {} THEN base ELSE step[<<pick[s], P[s][below(s)]>>]
    BY <2>1 DEF IsFold
  <2>3. CASE s = {}
    BY <2>2, <2>3
  <2>4. CASE s # {}
    <3>1. IsFold(P[below(s)], below(s), base, step, pick)
      BY <1>5, <1>6, <2>4
    <3>2. IsFiniteSet(s) /\ Picks(pick, s)
      BY <1>3, FS_Subset DEF Picks
    <3> DEFINE b == below(s)
               g == P[s]
               h == P[b]
    <3>4. g[b] = h[b]
      <4>1. IsFold(g, s, base, step, pick) /\ IsFold(h, b, base, step, pick)
        BY <2>1, <3>1
      <4> HIDE DEF b, g, h
      <4>2. \A u \in SUBSET (s \cap b) : g[u] = h[u]
        BY <3>2, <4>1, FoldUnique
      <4>3. b \in SUBSET (s \cap b)
        BY DEF b
      <4> QED
        BY <4>2, <4>3
    <3> QED
      BY <2>2, <2>4, <3>4
  <2> QED
    BY <2>3, <2>4
<1>9. \A s \in SUBSET T : G[s] = IF s = {} THEN base ELSE step[<<pick[s], G[below(s)]>>]
  <2> SUFFICES ASSUME NEW s \in SUBSET T, s # {}
               PROVE  G[s] = step[<<pick[s], G[below(s)]>>]
    OBVIOUS
  <2>1. P[below(s)][below(s)] = val(below(s))
    BY <1>6, <1>8
  <2>2. G[s] = val(s) /\ G[below(s)] = val(below(s))
    BY <1>6
  <2>3. val(s) = step[<<pick[s], P[below(s)][below(s)]>>]
    OBVIOUS
  <2> HIDE DEF G, val, below
  <2> QED
    BY <2>1, <2>2, <2>3
<1>10. G \in [SUBSET T -> V]
  <2> HIDE DEF val
  <2> QED
    BY <1>7
<1>11. IsFold(G, T, base, step, pick)
  <2> HIDE DEF G
  <2> QED
    BY <1>9 DEF IsFold
<1> QED
  <2> HIDE DEF G
  <2> QED
    BY <1>10, <1>11


-----------------------------------------------------------------------------
(* Sums *)

\* g sums the weights of the elements, taken out one by one.
Sums(g, S, w, pick) ==
    /\ g \in [SUBSET S -> Nat] /\ Picks(pick, S)
    /\ g[{}] = 0
    /\ \A s \in SUBSET S : s # {} => g[s] = w[pick[s]] + g[s \ {pick[s]}]
    /\ \A s \in SUBSET S : SumFunctionOnSet(w, s) = g[s]

LEMMA SumSteps ==
  ASSUME NEW S, IsFiniteSet(S), NEW w, \A x \in S : w[x] \in Nat
  PROVE  \E pick, g : Sums(g, S, w, pick)
<1> DEFINE pick == [s \in SUBSET S |-> CHOOSE x \in s : TRUE]
           step == [p \in S \X Nat |-> w[p[1]] + p[2]]
<1>1. \A s \in SUBSET S : s # {} => pick[s] = (CHOOSE x \in s : TRUE) /\ pick[s] \in s
  OBVIOUS
<1>2. Picks(pick, S)
  BY <1>1 DEF Picks
<1>3. step \in [S \X Nat -> Nat] /\ \A x \in S, n \in Nat : step[<<x, n>>] = w[x] + n
  OBVIOUS
<1> HIDE DEF step, pick
<1>4. PICK g \in [SUBSET S -> Nat] : IsFold(g, S, 0, step, pick)
  BY <1>2, <1>3, FoldExists
<1>5. g[{}] = 0
  BY <1>4 DEF IsFold
<1>6. ASSUME NEW s \in SUBSET S, s # {}
      PROVE  /\ pick[s] \in S /\ g[s \ {pick[s]}] \in Nat
             /\ g[s] = w[pick[s]] + g[s \ {pick[s]}]
  <2>1. pick[s] \in S /\ g[s \ {pick[s]}] \in Nat
    BY <1>1, <1>6
  <2>2. g[s] = step[<<pick[s], g[s \ {pick[s]}]>>]
    BY <1>4, <1>6 DEF IsFold
  <2> QED
    BY <1>3, <2>1, <2>2
<1>7. ASSUME NEW s \in SUBSET S PROVE SumFunctionOnSet(w, s) = g[s]
  <2> DEFINE Iter(h) == [u \in SUBSET s |->
                           IF u = {} THEN 0
                           ELSE w[CHOOSE x \in u : TRUE] + h[u \ {CHOOSE x \in u : TRUE}]]
             gs == [u \in SUBSET s |-> g[u]]
             c == CHOOSE h : h = Iter(h)
             P == {u \in SUBSET s : c[u] = g[u]}
  <2>1. SumFunctionOnSet(w, s) = c[s]
    BY Zenon DEF SumFunctionOnSet, FoldFunctionOnSet, MapThenFoldSet
  <2>2. gs = Iter(gs)
    <3>1. ASSUME NEW u \in SUBSET s
          PROVE  gs[u] = IF u = {} THEN 0
                         ELSE w[CHOOSE x \in u : TRUE] + gs[u \ {CHOOSE x \in u : TRUE}]
      BY <1>1, <1>5, <1>6
    <3> QED
      BY <3>1
  <2>3. c = Iter(c)
    <3> HIDE DEF gs, Iter
    <3> QED
      BY <2>2, Zenon
  <2> HIDE DEF c
  <2>4. \A u \in SUBSET s :
          c[u] = IF u = {} THEN 0
                 ELSE w[CHOOSE x \in u : TRUE] + c[u \ {CHOOSE x \in u : TRUE}]
    BY <2>3, Zenon
  <2>5. {} \in P
    BY <2>4, <1>5
  <2>6. ASSUME NEW u \in SUBSET s, u # {}, u \ {pick[u]} \in P PROVE u \in P
    <3>1. c[u] = w[CHOOSE x \in u : TRUE] + c[u \ {CHOOSE x \in u : TRUE}]
      BY <2>4, <2>6
    <3>2. (CHOOSE x \in u : TRUE) = pick[u] /\ u \in SUBSET S
      BY <1>1, <2>6
    <3>3. c[u] = w[pick[u]] + c[u \ {pick[u]}]
      BY <3>1, <3>2, Zenon
    <3>4. g[u] = w[pick[u]] + g[u \ {pick[u]}]
      BY <3>2, <2>6, <1>6
    <3> QED
      BY <3>3, <3>4, <2>6
  <2>7. IsFiniteSet(s) /\ Picks(pick, s)
    BY <1>2, FS_Subset DEF Picks
  <2>8. SUBSET s \subseteq P
    <3> HIDE DEF P
    <3> QED
      BY <2>5, <2>6, <2>7, PickInduction
  <2> QED
    BY <2>1, <2>8
<1> QED
  BY <1>2, <1>5, <1>6, <1>7 DEF Sums

\* Whichever element is taken out, the sum is what is left and that element.
LEMMA SumAdds ==
  ASSUME NEW S, IsFiniteSet(S), NEW w, \A x \in S : w[x] \in Nat, NEW x \in S
  PROVE  /\ SumFunctionOnSet(w, S) \in Nat /\ SumFunctionOnSet(w, S \ {x}) \in Nat
         /\ SumFunctionOnSet(w, S) = w[x] + SumFunctionOnSet(w, S \ {x})
<1>1. PICK pick, g : Sums(g, S, w, pick)
  BY SumSteps
<1>2. /\ g \in [SUBSET S -> Nat] /\ Picks(pick, S)
      /\ \A s \in SUBSET S : s # {} => g[s] = w[pick[s]] + g[s \ {pick[s]}]
      /\ \A s \in SUBSET S : SumFunctionOnSet(w, s) = g[s]
  BY <1>1 DEF Sums
<1> DEFINE F == {s \in SUBSET S : \E y \in s : g[s] # w[y] + g[s \ {y}]}
<1>3. F = {}
  <2> SUFFICES ASSUME F # {} PROVE FALSE
    OBVIOUS
  <2>1. \A s \in F : IsFiniteSet(s)
    BY FS_Subset
  <2>2. PICK s \in F : \A t \in F : t \subseteq s => t = s
    <3> HIDE DEF F
    <3> QED
      BY <2>1, MinimalFinite
  <2>3. PICK y \in s : g[s] # w[y] + g[s \ {y}]
    OBVIOUS
  <2> DEFINE p == pick[s]
             both == s \ {y, p}
  <2>4. s \in SUBSET S /\ p \in s /\ g[s] = w[p] + g[s \ {p}]
    BY <1>2, <2>3 DEF Picks
  <2>5. y # p
    BY <2>3, <2>4
  <2>6. g[s \ {p}] = w[y] + g[both]
    <3>1. s \ {p} \notin F /\ y \in s \ {p}
      BY <2>2, <2>4, <2>5
    <3>2. (s \ {p}) \ {y} = both
      OBVIOUS
    <3> QED
      BY <2>4, <3>1, <3>2
  <2>7. g[s \ {y}] = w[p] + g[both]
    <3>1. s \ {y} \notin F /\ p \in s \ {y}
      BY <2>2, <2>4, <2>5
    <3>2. (s \ {y}) \ {p} = both
      OBVIOUS
    <3> QED
      BY <2>4, <3>1, <3>2
  <2>8. w[p] \in Nat /\ w[y] \in Nat /\ g[both] \in Nat
    BY <1>2, <2>3, <2>4
  <2> QED
    BY <2>3, <2>4, <2>6, <2>7, <2>8
<1>4. g[S] = w[x] + g[S \ {x}] /\ g[S] \in Nat /\ g[S \ {x}] \in Nat
  BY <1>2, <1>3
<1> QED
  BY <1>2, <1>4

LEMMA SumOfNone ==
  ASSUME NEW w
  PROVE  SumFunctionOnSet(w, {}) = 0
<1>1. IsFiniteSet({}) /\ \A x \in {} : w[x] \in Nat
  BY FS_EmptySet
<1>2. PICK pick, g : Sums(g, {}, w, pick)
  BY <1>1, SumSteps
<1> QED
  BY <1>2 DEF Sums

LEMMA SumType ==
  ASSUME NEW S, IsFiniteSet(S), NEW w, \A x \in S : w[x] \in Nat
  PROVE  SumFunctionOnSet(w, S) \in Nat
<1>1. PICK pick, g : Sums(g, S, w, pick)
  BY SumSteps
<1> QED
  BY <1>1 DEF Sums

\* A part of a set sums to no more than the set.
LEMMA SumOfPart ==
  ASSUME NEW S, IsFiniteSet(S), NEW w, \A x \in S : w[x] \in Nat, NEW T \in SUBSET S
  PROVE  SumFunctionOnSet(w, T) <= SumFunctionOnSet(w, S)
<1> DEFINE sum(U) == SumFunctionOnSet(w, U)
           F == {U \in SUBSET S : T \subseteq U /\ ~ sum(T) <= sum(U)}
<1> SUFFICES ASSUME F # {} PROVE FALSE
  OBVIOUS
<1>1. \A U \in SUBSET S : IsFiniteSet(U) /\ sum(U) \in Nat
  BY FS_Subset, SumType
<1>2. PICK U \in F : \A X \in F : X \subseteq U => X = U
  <2>1. \A X \in F : IsFiniteSet(X)
    BY <1>1
  <2> HIDE DEF F
  <2> QED
    BY <2>1, MinimalFinite
<1> HIDE DEF sum
<1>3. U # T
  BY <1>1
<1>4. PICK x \in U : x \notin T
  BY <1>3
<1>5. U \ {x} \notin F /\ U \ {x} \in SUBSET S /\ T \subseteq U \ {x}
  BY <1>2, <1>4
<1>6. sum(U) = w[x] + sum(U \ {x})
  <2>1. IsFiniteSet(U) /\ \A y \in U : w[y] \in Nat
    BY <1>1
  <2> QED
    BY <2>1, SumAdds DEF sum
<1>7. sum(T) <= sum(U \ {x})
  BY <1>5
<1>8. w[x] \in Nat /\ sum(U) \in Nat /\ sum(U \ {x}) \in Nat /\ sum(T) \in Nat
  BY <1>1, <1>5
<1> QED
  BY <1>6, <1>7, <1>8

\* One more element adds at most its weight.
LEMMA SumWithOne ==
  ASSUME NEW S, IsFiniteSet(S), NEW w, NEW x, \A y \in S \cup {x} : w[y] \in Nat
  PROVE  SumFunctionOnSet(w, S \cup {x}) <= SumFunctionOnSet(w, S) + w[x]
<1>1. IsFiniteSet(S \cup {x})
  BY FS_AddElement
<1>2. SumFunctionOnSet(w, S) \in Nat
  BY SumType
<1>3. CASE x \in S
  <2>1. S \cup {x} = S /\ w[x] \in Nat
    BY <1>3
  <2> QED
    BY <1>2, <2>1
<1>4. CASE x \notin S
  <2>1. (S \cup {x}) \ {x} = S
    BY <1>4
  <2> DEFINE T == S \cup {x}
  <2>2. SumFunctionOnSet(w, T) = w[x] + SumFunctionOnSet(w, T \ {x})
    <3>1. x \in T /\ IsFiniteSet(T) /\ \A y \in T : w[y] \in Nat
      BY <1>1
    <3> HIDE DEF T
    <3> QED
      BY <3>1, SumAdds
  <2>3. w[x] \in Nat
    OBVIOUS
  <2> QED
    BY <1>2, <2>1, <2>2, <2>3
<1> QED
  BY <1>3, <1>4

\* Weights of one sum to the number of elements.
LEMMA SumOfOnes ==
  ASSUME NEW S, IsFiniteSet(S), NEW w, \A x \in S : w[x] = 1
  PROVE  SumFunctionOnSet(w, S) = Cardinality(S)
<1> DEFINE F == {T \in SUBSET S : SumFunctionOnSet(w, T) # Cardinality(T)}
<1> SUFFICES ASSUME F # {} PROVE FALSE
  OBVIOUS
<1>1. \A T \in F : IsFiniteSet(T)
  BY FS_Subset
<1>2. PICK T \in F : \A U \in F : U \subseteq T => U = T
  <2> HIDE DEF F
  <2> QED
    BY <1>1, MinimalFinite
<1>3. T \in SUBSET S /\ IsFiniteSet(T) /\ SumFunctionOnSet(w, T) # Cardinality(T)
  BY <1>1, <1>2
<1>4. CASE T = {}
  BY <1>3, <1>4, SumOfNone, FS_EmptySet
<1>5. CASE T # {}
  <2>1. PICK x \in T : TRUE
    BY <1>5
  <2>2. T \ {x} \notin F
    BY <1>2, <2>1
  <2>3. SumFunctionOnSet(w, T \ {x}) = Cardinality(T \ {x})
    BY <1>3, <2>2
  <2>4. SumFunctionOnSet(w, T) = w[x] + SumFunctionOnSet(w, T \ {x})
    <3>1. \A y \in T : w[y] \in Nat
      BY <1>3
    <3> QED
      BY <1>3, <2>1, <3>1, SumAdds
  <2>5. Cardinality(T \ {x}) = Cardinality(T) - 1 /\ Cardinality(T) \in Nat
    BY <1>3, <2>1, FS_RemoveElement, FS_CardinalityType
  <2>6. w[x] = 1
    BY <1>3, <2>1
  <2> HIDE DEF F
  <2> QED
    BY <1>3, <2>3, <2>4, <2>5, <2>6
<1> QED
  BY <1>4, <1>5

-----------------------------------------------------------------------------
(* Sorting *)

\* R orders the elements of S: no two are equal in it.
StrictlyOrders(R, S) ==
    /\ \A x \in S : <<x, x>> \notin R
    /\ \A x, y, z \in S : <<x, y>> \in R /\ <<y, z>> \in R => <<x, z>> \in R
    /\ \A x, y \in S : x = y \/ <<x, y>> \in R \/ <<y, x>> \in R

\* f lists the elements of S in the order of R.
Sorts(f, R, S) ==
    /\ f \in [1 .. Cardinality(S) -> S]
    /\ \A m, n \in 1 .. Cardinality(S) : m < n => <<f[m], f[n]>> \in R

\* A finite set that is ordered has a last element.
LEMMA LastOf ==
  ASSUME NEW S, IsFiniteSet(S), NEW R, StrictlyOrders(R, S), S # {}
  PROVE  \E m \in S : \A x \in S \ {m} : <<x, m>> \in R
<1> DEFINE Has(T) == \E m \in T : \A x \in T \ {m} : <<x, m>> \in R
           F == {T \in SUBSET S : T # {} /\ ~Has(T)}
<1> SUFFICES ASSUME F # {} PROVE FALSE
  OBVIOUS
<1>1. \A T \in F : IsFiniteSet(T)
  BY FS_Subset
<1>2. PICK T \in F : \A U \in F : U \subseteq T => U = T
  <2> HIDE DEF F
  <2> QED
    BY <1>1, MinimalFinite
<1>3. T \subseteq S /\ T # {} /\ ~Has(T)
  OBVIOUS
<1>4. PICK x \in T : TRUE
  BY <1>3
<1>5. T \ {x} # {}
  BY <1>3, <1>4
<1>6. T \ {x} \notin F
  BY <1>2, <1>4
<1>7. Has(T \ {x})
  BY <1>3, <1>5, <1>6
<1>8. PICK m \in T \ {x} : \A y \in (T \ {x}) \ {m} : <<y, m>> \in R
  BY <1>7
<1>9. CASE <<x, m>> \in R
  <2>1. \A y \in T \ {m} : <<y, m>> \in R
    BY <1>8, <1>9
  <2> QED
    BY <1>3, <2>1
<1>10. CASE <<m, x>> \in R
  <2>1. \A y \in T \ {x} : <<y, x>> \in R
    <3> SUFFICES ASSUME NEW y \in T \ {x} PROVE <<y, x>> \in R
      OBVIOUS
    <3>1. x \in S /\ y \in S /\ m \in S
      BY <1>3, <1>4
    <3>2. y = m \/ <<y, m>> \in R
      BY <1>8
    <3> QED
      BY <1>10, <3>1, <3>2 DEF StrictlyOrders
  <2> QED
    BY <1>3, <1>4, <2>1
<1>11. x \in S /\ m \in S /\ x # m
  BY <1>3, <1>4
<1> QED
  BY <1>9, <1>10, <1>11 DEF StrictlyOrders

\* It can be listed in that order.
LEMMA SortExists ==
  ASSUME NEW S, IsFiniteSet(S), NEW R, StrictlyOrders(R, S)
  PROVE  \E f : Sorts(f, R, S)
<1> DEFINE F == {T \in SUBSET S : ~ \E f : Sorts(f, R, T)}
<1> SUFFICES ASSUME F # {} PROVE FALSE
  OBVIOUS
<1>1. \A T \in F : IsFiniteSet(T)
  BY FS_Subset
<1>2. PICK T \in F : \A U \in F : U \subseteq T => U = T
  <2> HIDE DEF F
  <2> QED
    BY <1>1, MinimalFinite
<1>3. T \subseteq S /\ IsFiniteSet(T)
  BY <1>1
<1>4. CASE T = {}
  <2> DEFINE f == [n \in 1 .. 0 |-> 0]
  <2>1. Cardinality(T) = 0
    BY <1>4, FS_EmptySet
  <2>2. 1 .. 0 = {}
    OBVIOUS
  <2>3. f \in [1 .. Cardinality(T) -> T]
    BY <2>1, <2>2
  <2>4. Sorts(f, R, T)
    BY <2>1, <2>2, <2>3 DEF Sorts
  <2> QED
    BY <2>4
<1>5. CASE T # {}
  <2>1. StrictlyOrders(R, T)
    BY <1>3 DEF StrictlyOrders
  <2>2. PICK m \in T : \A x \in T \ {m} : <<x, m>> \in R
    BY <1>3, <1>5, <2>1, LastOf
  <2> DEFINE U == T \ {m}
             n == Cardinality(T)
  <2>3. n \in Nat /\ Cardinality(U) = n - 1 /\ n - 1 \in Nat
    <3>1. IsFiniteSet(U) /\ Cardinality(U) = n - 1
      BY <1>3, <2>2, FS_RemoveElement
    <3> QED
      BY <1>3, <3>1, FS_CardinalityType
  <2>4. U \notin F /\ U \in SUBSET S
    BY <1>2, <1>3, <2>2
  <2>5. PICK g : Sorts(g, R, U)
    BY <2>4
  <2> DEFINE f == [i \in 1 .. n |-> IF i = n THEN m ELSE g[i]]
  <2> HIDE DEF U, n
  <2>6. \A i \in 1 .. n : i = n \/ i \in 1 .. n - 1
    BY <2>3
  <2>7. /\ \A i \in 1 .. n - 1 : g[i] \in T \ {m}
        /\ \A i, j \in 1 .. n - 1 : i < j => <<g[i], g[j]>> \in R
    BY <2>3, <2>5 DEF Sorts, U
  <2>8. f \in [1 .. n -> T]
    BY <2>2, <2>6, <2>7
  <2>9. \A i, j \in 1 .. n : i < j => <<f[i], f[j]>> \in R
    <3> SUFFICES ASSUME NEW i \in 1 .. n, NEW j \in 1 .. n, i < j PROVE <<f[i], f[j]>> \in R
      OBVIOUS
    <3>1. i \in 1 .. n - 1 /\ i # n
      BY <2>3
    <3>2. f[i] = g[i]
      BY <3>1
    <3>3. CASE j = n
      BY <2>2, <2>7, <3>1, <3>2, <3>3
    <3>4. CASE j # n
      <4>1. j \in 1 .. n - 1 /\ f[j] = g[j]
        BY <2>6, <3>4
      <4> QED
        BY <2>7, <3>1, <3>2, <4>1
    <3> QED
      BY <3>3, <3>4
  <2>10. Sorts(f, R, T)
    BY <2>8, <2>9 DEF Sorts, n
  <2> QED
    BY <2>10
<1> QED
  BY <1>4, <1>5

\* A list in that order has every element, once.
LEMMA SortedOnto ==
  ASSUME NEW S, IsFiniteSet(S), NEW R, StrictlyOrders(R, S), NEW f, Sorts(f, R, S)
  PROVE  {f[n] : n \in DOMAIN f} = S
<1> DEFINE n == Cardinality(S)
<1>1. n \in Nat /\ f \in [1 .. n -> S] /\ DOMAIN f = 1 .. n
  BY FS_CardinalityType DEF Sorts
<1>2. \A i, j \in 1 .. n : f[i] = f[j] => i = j
  <2> SUFFICES ASSUME NEW i \in 1 .. n, NEW j \in 1 .. n, f[i] = f[j], i # j PROVE FALSE
    OBVIOUS
  <2>1. f[i] \in S /\ f[j] \in S
    BY <1>1
  <2>2. <<f[i], f[j]>> \in R \/ <<f[j], f[i]>> \in R
    <3>1. i < j \/ j < i
      BY <1>1
    <3> QED
      BY <1>1, <3>1 DEF Sorts
  <2> QED
    BY <2>1, <2>2 DEF StrictlyOrders
<1>3. f \in Injection(1 .. n, S)
  BY <1>1, <1>2 DEF Injection, IsInjective
<1>4. Cardinality(1 .. n) = n
  BY <1>1, FS_Interval
<1>5. f \in Surjection(1 .. n, S)
  BY <1>3, <1>4, FS_Injection
<1> QED
  BY <1>1, <1>5 DEF Surjection
=============================================================================
