----------------------- MODULE AsyncScheduler_proofs -----------------------
(***************************************************************************)
(* Proofs about schedule(): queues, token budgets and KV blocks, for any   *)
(* requests, limits, policies, depths of the pipeline and drafts, with     *)
(* aborts, resets and pauses at any time.                                  *)
(*                                                                         *)
(* Base is the invariant everything rests on.  It types the state; it says *)
(* what schedule()'s local variables hold at each place of the loops, in   *)
(* which queue a request of each status stands, and that what the step has *)
(* so far stands before the cursor, so that the request at the cursor has  *)
(* no share yet, also after a victim left the list.  Counters are integers *)
(* here: that they never go below zero takes the steps in flight, and is   *)
(* shown in AsyncOutput_proofs.                                            *)
(*                                                                         *)
(* On Base stand Budgets (what is left of a budget and what the rows took  *)
(* of it make the whole, also when a victim gives its share back) and      *)
(* Slots (the blocks of the running requests and the free ones are all     *)
(* there are, and a running request owns the blocks of what it computes).  *)
(* Passed (who stands before the cursor got tokens or wants none) needs a  *)
(* budget that does not come to suffice while the loop goes on,            *)
(* SteadyBudget: a victim's share may do for a block-aligned chunk what    *)
(* was left before did not.                                                *)
(*                                                                         *)
(* The queues are recursive functions and the budgets are sums, so the     *)
(* first sections prove what those return, by induction over a number or a *)
(* finite set: of the arguments at which a claim fails take the least.     *)
(***************************************************************************)
EXTENDS AsyncScheduler, ChunkSplit_proofs, FiniteSetTheorems

-----------------------------------------------------------------------------
(* Induction over numbers and finite sets.  The library states it for a     *)
(* predicate; a set that is closed under the step says the same, and its    *)
(* least element outside is found by WFMin.                                 *)

\* A set of numbers that is not empty has a least one.
LEMMA Least ==
  ASSUME NEW T \in SUBSET Nat, T # {}
  PROVE  \E x \in T : \A y \in T : x <= y
<1> DEFINE R == {ss \in Nat \X Nat : ss[1] < ss[2]}
<1>1. IsWellFoundedOn(R, Nat)
  BY NatLessThanWellFounded, Zenon DEF OpToRel
<1>2. \A x, y \in Nat : y < x => <<y, x>> \in R
  OBVIOUS
<1> HIDE DEF R
<1>3. PICK x \in T : \A y \in T : ~(<<y, x>> \in R)
  BY <1>1, WFMin, Zenon
<1>4. \A y \in T : x \in Nat /\ y \in Nat /\ ~(y < x)
  BY <1>2, <1>3, Zenon
<1>5. \A y \in T : x <= y
  BY <1>4
<1> QED
  BY <1>5, Zenon

\* What holds at 0 and is passed on holds up to n.
LEMMA UpTo ==
  ASSUME NEW n \in Nat, NEW T, 0 \in T,
         \A i \in 0..n : i < n /\ i \in T => i + 1 \in T
  PROVE  \A i \in 0..n : i \in T
<1> SUFFICES ASSUME {i \in 0..n : i \notin T} # {} PROVE FALSE
  OBVIOUS
<1>1. PICK x \in {i \in 0..n : i \notin T} : \A y \in {i \in 0..n : i \notin T} : x <= y
  <2>1. {i \in 0..n : i \notin T} \in SUBSET Nat
    OBVIOUS
  <2> QED
    BY <2>1, Least, Zenon
<1>2. x # 0 /\ x \in 0..n /\ x \notin T
  BY <1>1
<1>3. x - 1 \in 0..n /\ x - 1 < n /\ (x - 1) + 1 = x /\ ~(x <= x - 1)
  BY <1>2
<1>4. x - 1 \in T
  BY <1>1, <1>3
<1>5. x \in T
  BY <1>3, <1>4, Zenon
<1> QED
  BY <1>2, <1>5

\* What is needed to recur up to n with the steps G, and a function that does.
CanRecur(n, V, base, G) == n \in Nat /\ base \in V /\ G \in [1..n -> [V -> V]]
Recurs(n, V, base, G, g) ==
  g \in [0..n -> V] /\ g[0] = base /\ \A i \in 1..n : g[i] = G[i][g[i - 1]]

\* A recursively defined function exists.
LEMMA Recursion ==
  ASSUME NEW n, NEW V, NEW base, NEW G, CanRecur(n, V, base, G)
  PROVE  \E g : Recurs(n, V, base, G, g)
<1>0. n \in Nat /\ base \in V /\ G \in [1..n -> [V -> V]]
  BY DEF CanRecur
<1> DEFINE T == {m \in 0..n : \E g \in [0..n -> V] :
                   g[0] = base /\ \A i \in 1..m : g[i] = G[i][g[i - 1]]}
<1>1. 0 \in T
  <2> DEFINE g == [i \in 0..n |-> base]
  <2>1. g \in [0..n -> V] /\ g[0] = base /\ 0 \in 0..n
    BY <1>0
  <2>2. \A i \in 1..0 : g[i] = G[i][g[i - 1]]
    OBVIOUS
  <2> HIDE DEF g
  <2> QED
    BY <2>1, <2>2
<1>2. ASSUME NEW m \in 0..n, m < n, m \in T PROVE m + 1 \in T
  <2>1. PICK g \in [0..n -> V] :
          g[0] = base /\ \A i \in 1..m : g[i] = G[i][g[i - 1]]
    BY <1>2
  <2> DEFINE h == [g EXCEPT ![m + 1] = G[m + 1][g[m]]]
  <2>2. m + 1 \in 1..n /\ m + 1 \in 0..n /\ m \in 0..n /\ g[m] \in V
    BY <1>0, <1>2
  <2>3. G[m + 1][g[m]] \in V
    BY <1>0, <2>2
  <2>4. h \in [0..n -> V] /\ h[0] = base
    BY <1>0, <2>1, <2>2, <2>3
  <2>5. \A i \in 1..(m + 1) : h[i] = G[i][h[i - 1]]
    <3> TAKE i \in 1..(m + 1)
    <3>1. CASE i = m + 1
      BY <2>2, <3>1
    <3>2. CASE i # m + 1
      <4>1. i \in 1..m /\ i \in 0..n /\ i - 1 \in 0..n /\ i - 1 # m + 1
        BY <1>0, <1>2, <3>2
      <4>2. h[i] = g[i] /\ h[i - 1] = g[i - 1]
        BY <3>2, <4>1
      <4> QED
        BY <2>1, <4>1, <4>2
    <3> QED
      BY <3>1, <3>2
  <2> HIDE DEF h
  <2> QED
    BY <2>2, <2>4, <2>5
<1> HIDE DEF T
<1>3. n \in T
  <2>1. \A i \in 0..n : i \in T
    BY <1>0, <1>1, <1>2, UpTo
  <2> QED
    BY <1>0, <2>1
<1> QED
  BY <1>3 DEF T, Recurs

\* What holds for the empty set, and for a set when it holds without one of its
\* elements, holds for every finite set.
LEMMA OverFiniteSets ==
  ASSUME NEW S, IsFiniteSet(S), NEW T, {} \in T,
         \A s \in SUBSET S : s # {} /\ (\A x \in s : s \ {x} \in T) => s \in T
  PROVE  S \in T
<1> DEFINE P == {m \in 0..Cardinality(S) :
                   \A s \in SUBSET S : Cardinality(s) = m => s \in T}
<1>1. Cardinality(S) \in Nat
  BY FS_CardinalityType
<1>2. \A s \in SUBSET S : IsFiniteSet(s) /\ Cardinality(s) \in Nat
  BY FS_Subset, FS_CardinalityType
<1>0. \A s \in SUBSET S : Cardinality(s) = 0 <=> s = {}
  BY <1>2, FS_EmptySet
<1>3. 0 \in P
  <2>1. 0 \in 0..Cardinality(S)
    BY <1>1
  <2>2. \A s \in SUBSET S : Cardinality(s) = 0 => s \in T
    BY <1>0, Zenon
  <2> QED
    BY <2>1, <2>2
<1>4. ASSUME NEW m \in 0..Cardinality(S), m < Cardinality(S), m \in P
      PROVE  m + 1 \in P
  <2>1. ASSUME NEW s \in SUBSET S, Cardinality(s) = m + 1 PROVE s \in T
    <3>1. s # {}
      <4>1. Cardinality(s) # 0
        BY <1>1, <2>1
      <4> QED
        BY <1>0, <4>1, Zenon
    <3>2. ASSUME NEW x \in s PROVE s \ {x} \in T
      <4>1. Cardinality(s \ {x}) = m
        <5>1. Cardinality(s \ {x}) = Cardinality(s) - 1
          BY <1>2, FS_RemoveElement, Zenon
        <5> QED
          BY <1>1, <2>1, <5>1
      <4> QED
        BY <1>4, <4>1
    <3> QED
      BY <3>1, <3>2
  <2> QED
    BY <1>1, <1>4, <2>1
<1> HIDE DEF P
<1>5. Cardinality(S) \in P
  <2>1. \A m \in 0..Cardinality(S) : m \in P
    BY <1>1, <1>3, <1>4, UpTo
  <2> QED
    BY <1>1, <2>1
<1> QED
  BY <1>5 DEF P

-----------------------------------------------------------------------------
(* Sums.                                                                    *)

\* g is the function the definition of the sum recurs with.
Folds(f, S, g) ==
  g = [s \in SUBSET S |->
         IF s = {} THEN 0
         ELSE f[CHOOSE x \in s : TRUE] + g[s \ {CHOOSE x \in s : TRUE}]]

\* There is one function that sums f over the subsets of S ...
LEMMA FoldsUnique ==
  ASSUME NEW f, NEW S, IsFiniteSet(S), NEW g, NEW h, Folds(f, S, g), Folds(f, S, h)
  PROVE  g = h
<1> DEFINE T == {s \in SUBSET S : g[s] = h[s]}
           first == [s \in SUBSET S |-> CHOOSE x \in s : TRUE]
<1>0. \A s \in SUBSET S : s # {} => first[s] \in s
  OBVIOUS
<1>1. /\ g = [s \in SUBSET S |-> IF s = {} THEN 0 ELSE f[first[s]] + g[s \ {first[s]}]]
      /\ h = [s \in SUBSET S |-> IF s = {} THEN 0 ELSE f[first[s]] + h[s \ {first[s]}]]
  BY DEF Folds
<1> HIDE DEF first
<1>2. \A s \in SUBSET S :
        /\ g[s] = IF s = {} THEN 0 ELSE f[first[s]] + g[s \ {first[s]}]
        /\ h[s] = IF s = {} THEN 0 ELSE f[first[s]] + h[s \ {first[s]}]
  BY <1>1
<1>3. {} \in T
  BY <1>2
<1>4. ASSUME NEW s \in SUBSET S, s # {}, \A x \in s : s \ {x} \in T PROVE s \in T
  <2>1. s \ {first[s]} \in T
    BY <1>0, <1>4
  <2>2. g[s \ {first[s]}] = h[s \ {first[s]}]
    BY <2>1
  <2> QED
    BY <1>2, <1>4, <2>2
<1>5. ASSUME NEW s \in SUBSET S PROVE s \in T
  <2>1. IsFiniteSet(s)
    BY FS_Subset
  <2>2. \A t \in SUBSET s : t # {} /\ (\A x \in t : t \ {x} \in T) => t \in T
    BY <1>4
  <2> HIDE DEF T
  <2> QED
    BY <1>3, <2>1, <2>2, OverFiniteSets
<1>6. DOMAIN g = SUBSET S /\ DOMAIN h = SUBSET S
  BY <1>1
<1>7. g = [s \in SUBSET S |-> g[s]] /\ h = [s \in SUBSET S |-> h[s]]
  BY <1>1, <1>6, Zenon
<1> QED
  BY <1>5, <1>7

\* ... and there is one.
LEMMA FoldsExist ==
  ASSUME NEW f, NEW S, IsFiniteSet(S)
  PROVE  \E g : Folds(f, S, g)
<1> DEFINE first == [s \in SUBSET S |-> CHOOSE x \in s : TRUE]
           N == Cardinality(S)
           Rec(g, s) == IF s = {} THEN 0 ELSE f[first[s]] + g[s \ {first[s]}]
           T == {m \in 0..N : \E g :
                   /\ g = [s \in SUBSET S |-> g[s]]
                   /\ \A s \in SUBSET S : Cardinality(s) <= m => g[s] = Rec(g, s)}
<1>0. \A s \in SUBSET S : s # {} => first[s] \in s
  OBVIOUS
<1>1. \A g : Folds(f, S, g) <=> g = [s \in SUBSET S |-> Rec(g, s)]
  BY DEF Folds
<1> HIDE DEF first
<1>2. N \in Nat /\ \A s \in SUBSET S : IsFiniteSet(s) /\ Cardinality(s) \in 0..N
  BY FS_CardinalityType, FS_Subset
<1>3. 0 \in T
  <2> DEFINE g == [s \in SUBSET S |-> 0]
  <2>1. g = [s \in SUBSET S |-> g[s]]
    OBVIOUS
  <2>2. \A s \in SUBSET S : Cardinality(s) <= 0 => g[s] = Rec(g, s)
    <3> TAKE s \in SUBSET S
    <3>1. Cardinality(s) <= 0 => s = {}
      BY <1>2, FS_EmptySet
    <3> QED
      BY <3>1
  <2> HIDE DEF g, Rec
  <2>3. 0 \in 0..N
    BY <1>2
  <2> QED
    BY <2>1, <2>2, <2>3
<1>4. ASSUME NEW m \in 0..N, m < N, m \in T PROVE m + 1 \in T
  <2>1. PICK g : /\ g = [s \in SUBSET S |-> g[s]]
                 /\ \A s \in SUBSET S : Cardinality(s) <= m => g[s] = Rec(g, s)
    BY <1>4
  <2> DEFINE h == [s \in SUBSET S |-> IF Cardinality(s) = m + 1 THEN Rec(g, s) ELSE g[s]]
  <2>2. h = [s \in SUBSET S |-> h[s]]
    OBVIOUS
  <2>3. ASSUME NEW s \in SUBSET S, Cardinality(s) <= m + 1 PROVE h[s] = Rec(h, s)
    <3>1. Cardinality(s) \in Nat /\ IsFiniteSet(s)
      BY <1>2
    <3>2. h[s] = Rec(g, s)
      <4> HIDE DEF Rec
      <4>1. CASE Cardinality(s) = m + 1
        BY <4>1
      <4>2. CASE Cardinality(s) # m + 1
        <5>1. h[s] = g[s]
          BY <4>2
        <5>2. Cardinality(s) <= m
          BY <1>2, <2>3, <3>1, <4>2
        <5> HIDE DEF h
        <5> QED
          BY <2>1, <5>1, <5>2, Zenon
      <4> QED
        BY <4>1, <4>2
    <3>3. CASE s = {}
      BY <3>2, <3>3
    <3>4. CASE s # {}
      <4>1. first[s] \in s /\ s \ {first[s]} \in SUBSET S
        BY <1>0, <3>4
      <4>2. Cardinality(s \ {first[s]}) = Cardinality(s) - 1
        BY <3>1, <4>1, FS_RemoveElement
      <4>3. Cardinality(s \ {first[s]}) # m + 1
        BY <2>3, <3>1, <4>2
      <4>4. h[s \ {first[s]}] = g[s \ {first[s]}]
        BY <4>1, <4>3
      <4> QED
        BY <3>2, <3>4, <4>4
    <3> QED
      BY <3>3, <3>4
  <2> HIDE DEF h, Rec
  <2>4. m + 1 \in 0..N
    BY <1>2, <1>4
  <2> QED
    BY <2>2, <2>3, <2>4
<1> HIDE DEF T
<1>5. N \in T
  <2>1. \A m \in 0..N : m \in T
    BY <1>2, <1>3, <1>4, UpTo
  <2> QED
    BY <1>2, <2>1
<1>6. PICK g : /\ g = [s \in SUBSET S |-> g[s]]
               /\ \A s \in SUBSET S : Cardinality(s) <= N => g[s] = Rec(g, s)
  BY <1>5 DEF T
<1> HIDE DEF Rec
<1>7. \A s \in SUBSET S : g[s] = Rec(g, s)
  <2>1. \A s \in SUBSET S : Cardinality(s) <= N
    BY <1>2
  <2> QED
    BY <1>6, <2>1, Zenon
<1>8. g = [s \in SUBSET S |-> Rec(g, s)]
  <2>1. [s \in SUBSET S |-> g[s]] = [s \in SUBSET S |-> Rec(g, s)]
    BY <1>7
  <2> QED
    BY <1>6, <2>1, Zenon
<1> QED
  BY <1>1, <1>8

\* The library's SumFunctionOnSet is that function.
LEMMA SumIs ==
  ASSUME NEW f, NEW S, IsFiniteSet(S), NEW g, Folds(f, S, g)
  PROVE  SumFunctionOnSet(f, S) = g[S]
<1>1. \A h : Folds(f, S, h) => h = g
  BY FoldsUnique
<1> QED
  BY <1>1, Zenon DEF Folds, SumFunctionOnSet, FoldFunctionOnSet, MapThenFoldSet

\* The sum over no elements is 0.
LEMMA SumEmpty == ASSUME NEW f PROVE SumFunctionOnSet(f, {}) = 0
<1>1. IsFiniteSet({})
  BY FS_EmptySet
<1>2. PICK g : Folds(f, {}, g)
  BY <1>1, FoldsExist
<1>3. SumFunctionOnSet(f, {}) = g[{}]
  BY <1>1, <1>2, SumIs, Zenon
<1>4. g[{}] = 0
  BY <1>2 DEF Folds
<1> QED
  BY <1>3, <1>4

\* A sum takes some element first.
LEMMA SumStep ==
  ASSUME NEW f, NEW S, IsFiniteSet(S), NEW s \in SUBSET S, s # {}
  PROVE  \E x \in s : SumFunctionOnSet(f, s) = f[x] + SumFunctionOnSet(f, s \ {x})
<1> DEFINE c == CHOOSE x \in s : TRUE
<1>1. c \in s
  OBVIOUS
<1>2. IsFiniteSet(s) /\ IsFiniteSet(s \ {c})
  BY FS_Subset, Zenon
<1>3. PICK g : Folds(f, s, g)
  BY <1>2, FoldsExist, Zenon
<1>4. SumFunctionOnSet(f, s) = g[s]
  BY <1>2, <1>3, SumIs, Zenon
<1>5. g[s] = f[c] + g[s \ {c}]
  BY <1>3 DEF Folds
<1>6. Folds(f, s \ {c}, [t \in SUBSET (s \ {c}) |-> g[t]])
  <2> DEFINE h == [t \in SUBSET (s \ {c}) |-> g[t]]
  <2>1. \A t \in SUBSET (s \ {c}) :
          g[t] = IF t = {} THEN 0
                 ELSE f[CHOOSE x \in t : TRUE] + g[t \ {CHOOSE x \in t : TRUE}]
    BY <1>3 DEF Folds
  <2>2. ASSUME NEW t \in SUBSET (s \ {c})
        PROVE  g[t] = IF t = {} THEN 0
                 ELSE f[CHOOSE x \in t : TRUE] + h[t \ {CHOOSE x \in t : TRUE}]
    <3>1. t \ {CHOOSE x \in t : TRUE} \in SUBSET (s \ {c})
      OBVIOUS
    <3>2. h[t \ {CHOOSE x \in t : TRUE}] = g[t \ {CHOOSE x \in t : TRUE}]
      BY <3>1
    <3> QED
      BY <2>1, <3>2, Zenon
  <2>3. h = [t \in SUBSET (s \ {c}) |->
               IF t = {} THEN 0
               ELSE f[CHOOSE x \in t : TRUE] + h[t \ {CHOOSE x \in t : TRUE}]]
    BY <2>2
  <2> QED
    BY <2>3, Zenon DEF Folds
<1>7. SumFunctionOnSet(f, s \ {c}) = g[s \ {c}]
  <2>1. SumFunctionOnSet(f, s \ {c}) = [t \in SUBSET (s \ {c}) |-> g[t]][s \ {c}]
    BY <1>2, <1>6, SumIs, Zenon
  <2> QED
    BY <2>1
<1> HIDE DEF c
<1> QED
  BY <1>1, <1>4, <1>5, <1>7, Zenon

\* A sum of integers is an integer.
LEMMA SumInt ==
  ASSUME NEW f, NEW S, IsFiniteSet(S), \A x \in S : f[x] \in Int
  PROVE  SumFunctionOnSet(f, S) \in Int
<1> DEFINE T == {s \in SUBSET S : SumFunctionOnSet(f, s) \in Int}
<1>1. {} \in T
  <2>1. SumFunctionOnSet(f, {}) \in Int
    BY SumEmpty
  <2> QED
    BY <2>1
<1>2. ASSUME NEW s \in SUBSET S, s # {}, \A x \in s : s \ {x} \in T PROVE s \in T
  <2>1. PICK x \in s : SumFunctionOnSet(f, s) = f[x] + SumFunctionOnSet(f, s \ {x})
    BY <1>2, SumStep, Zenon
  <2>2. f[x] \in Int /\ SumFunctionOnSet(f, s \ {x}) \in Int
    BY <1>2
  <2>3. SumFunctionOnSet(f, s) \in Int
    BY <2>1, <2>2
  <2> QED
    BY <2>3
<1>3. S \in T
  <2> HIDE DEF T
  <2> QED
    BY <1>1, <1>2, OverFiniteSets
<1> QED
  BY <1>3

\* A sum less any of its elements.
LEMMA SumRemove ==
  ASSUME NEW f, NEW S, IsFiniteSet(S), \A x \in S : f[x] \in Int, NEW x \in S
  PROVE  SumFunctionOnSet(f, S) = f[x] + SumFunctionOnSet(f, S \ {x})
<1> DEFINE Sum(s) == SumFunctionOnSet(f, s)
           T == {s \in SUBSET S : \A y \in s : Sum(s) = f[y] + Sum(s \ {y})}
<1>0. ASSUME NEW s \in SUBSET S PROVE Sum(s) \in Int
  <2>1. IsFiniteSet(s) /\ \A y \in s : f[y] \in Int
    BY FS_Subset
  <2> QED
    BY <2>1, SumInt, Zenon
<1>1. {} \in T
  OBVIOUS
<1>2. ASSUME NEW s \in SUBSET S, s # {}, \A y \in s : s \ {y} \in T PROVE s \in T
  <2>1. PICK c \in s : Sum(s) = f[c] + Sum(s \ {c})
    BY <1>2, SumStep
  <2>2. ASSUME NEW y \in s PROVE Sum(s) = f[y] + Sum(s \ {y})
    <3>1. CASE y = c
      BY <2>1, <3>1
    <3>2. CASE y # c
      <4>1. s \ {c} \in T /\ s \ {y} \in T /\ y \in s \ {c} /\ c \in s \ {y}
        BY <1>2, <3>2, Zenon
      <4>2. Sum(s \ {c}) = f[y] + Sum((s \ {c}) \ {y})
        BY <4>1, Zenon
      <4>3. Sum(s \ {y}) = f[c] + Sum((s \ {y}) \ {c})
        BY <4>1, Zenon
      <4>4. (s \ {c}) \ {y} = (s \ {y}) \ {c}
        OBVIOUS
      <4>5. f[y] \in Int /\ f[c] \in Int /\ Sum((s \ {y}) \ {c}) \in Int
        <5>1. (s \ {y}) \ {c} \in SUBSET S
          OBVIOUS
        <5> QED
          BY <1>0, <5>1, Zenon
      <4> HIDE DEF Sum
      <4>6. Sum(s) = f[c] + (f[y] + Sum((s \ {y}) \ {c}))
        BY <2>1, <4>2, <4>4, Zenon
      <4> QED
        BY <4>3, <4>5, <4>6
    <3> QED
      BY <3>1, <3>2
  <2> HIDE DEF Sum
  <2> QED
    BY <2>2
<1>3. S \in T
  <2> HIDE DEF T
  <2> QED
    BY <1>1, <1>2, OverFiniteSets
<1> QED
  BY <1>3

\* A sum depends on the summed elements only.
LEMMA SumSame ==
  ASSUME NEW f, NEW g, NEW S, IsFiniteSet(S), \A x \in S : f[x] = g[x]
  PROVE  SumFunctionOnSet(f, S) = SumFunctionOnSet(g, S)
<1> DEFINE same(s) == [t \in SUBSET s |-> TRUE]
<1>1. PICK h : Folds(f, S, h)
  BY FoldsExist, Zenon
<1>2. Folds(g, S, h)
  <2>1. ASSUME NEW s \in SUBSET S, s # {}
        PROVE  f[CHOOSE x \in s : TRUE] = g[CHOOSE x \in s : TRUE]
    <3>1. (CHOOSE x \in s : TRUE) \in S
      BY <2>1
    <3> QED
      BY <3>1, Zenon
  <2>2. h = [s \in SUBSET S |->
               IF s = {} THEN 0
               ELSE f[CHOOSE x \in s : TRUE] + h[s \ {CHOOSE x \in s : TRUE}]]
    BY <1>1, Zenon DEF Folds
  <2>3. [s \in SUBSET S |->
               IF s = {} THEN 0
               ELSE f[CHOOSE x \in s : TRUE] + h[s \ {CHOOSE x \in s : TRUE}]]
        = [s \in SUBSET S |->
               IF s = {} THEN 0
               ELSE g[CHOOSE x \in s : TRUE] + h[s \ {CHOOSE x \in s : TRUE}]]
    BY <2>1
  <2> QED
    BY <2>2, <2>3, Zenon DEF Folds
<1> QED
  BY <1>1, <1>2, SumIs, Zenon

\* A sum over a set and over the rest of it.
LEMMA SumSplit ==
  ASSUME NEW f, NEW S, IsFiniteSet(S), \A x \in S : f[x] \in Int, NEW s \in SUBSET S
  PROVE  SumFunctionOnSet(f, S) = SumFunctionOnSet(f, s) + SumFunctionOnSet(f, S \ s)
<1> DEFINE Sum(t) == SumFunctionOnSet(f, t)
           T == {t \in SUBSET S : Sum(S) = Sum(t) + Sum(S \ t)}
<1>0. ASSUME NEW t \in SUBSET S PROVE Sum(t) \in Int /\ IsFiniteSet(t)
  <2>1. IsFiniteSet(t) /\ \A y \in t : f[y] \in Int
    BY FS_Subset
  <2> QED
    BY <2>1, SumInt, Zenon
<1>1. {} \in T
  <2>1. Sum({}) = 0 /\ Sum(S \ {}) = Sum(S) /\ Sum(S) \in Int
    BY <1>0, SumEmpty, Zenon
  <2> HIDE DEF Sum
  <2> QED
    BY <2>1
<1>2. ASSUME NEW t \in SUBSET S, t # {}, \A y \in t : t \ {y} \in T PROVE t \in T
  <2>1. PICK c \in t : c \in S
    BY <1>2
  <2>2. Sum(t) = f[c] + Sum(t \ {c})
    BY <1>0, <2>1, SumRemove
  <2>3. Sum(S \ (t \ {c})) = f[c] + Sum(S \ t)
    <3>1. c \in S \ (t \ {c}) /\ (S \ (t \ {c})) \ {c} = S \ t
          /\ S \ (t \ {c}) \in SUBSET S
      BY <2>1
    <3>2. IsFiniteSet(S \ (t \ {c})) /\ \A y \in S \ (t \ {c}) : f[y] \in Int
      BY <1>0, <3>1
    <3> QED
      BY <3>1, <3>2, SumRemove
  <2>4. t \ {c} \in T
    BY <1>2, <2>1, Zenon
  <2>5. Sum(S) = Sum(t \ {c}) + Sum(S \ (t \ {c}))
    BY <2>4
  <2>6. f[c] \in Int /\ Sum(t \ {c}) \in Int /\ Sum(S \ t) \in Int
    <3>1. t \ {c} \in SUBSET S /\ S \ t \in SUBSET S
      OBVIOUS
    <3> QED
      BY <1>0, <2>1, <3>1, Zenon
  <2> HIDE DEF Sum
  <2> QED
    BY <2>2, <2>3, <2>5, <2>6
<1>3. s \in T
  <2>1. IsFiniteSet(s)
    BY <1>0
  <2>2. \A t \in SUBSET s : t # {} /\ (\A x \in t : t \ {x} \in T) => t \in T
    <3> HIDE DEF T
    <3> TAKE t \in SUBSET s
    <3>1. t \in SUBSET S
      OBVIOUS
    <3> QED
      BY <1>2, <3>1, Zenon
  <2> HIDE DEF T
  <2> QED
    BY <1>1, <2>1, <2>2, OverFiniteSets, Zenon
<1> QED
  BY <1>3, Zenon

\* A sum of naturals is a natural, and no less than any of them.
LEMMA SumNat ==
  ASSUME NEW f, NEW S, IsFiniteSet(S), \A x \in S : f[x] \in Nat
  PROVE  /\ SumFunctionOnSet(f, S) \in Nat
         /\ \A x \in S : f[x] <= SumFunctionOnSet(f, S)
<1> DEFINE T == {s \in SUBSET S : SumFunctionOnSet(f, s) \in Nat}
<1>1. {} \in T
  <2>1. SumFunctionOnSet(f, {}) \in Nat
    BY SumEmpty
  <2> QED
    BY <2>1
<1>2. ASSUME NEW s \in SUBSET S, s # {}, \A x \in s : s \ {x} \in T PROVE s \in T
  <2>1. PICK x \in s : SumFunctionOnSet(f, s) = f[x] + SumFunctionOnSet(f, s \ {x})
    BY <1>2, SumStep, Zenon
  <2>2. f[x] \in Nat /\ SumFunctionOnSet(f, s \ {x}) \in Nat
    BY <1>2
  <2>3. SumFunctionOnSet(f, s) \in Nat
    BY <2>1, <2>2
  <2> QED
    BY <2>3
<1>3. \A s \in SUBSET S : s \in T
  <2> TAKE s \in SUBSET S
  <2>1. IsFiniteSet(s) /\ \A t \in SUBSET s : t \in SUBSET S
    BY FS_Subset
  <2> HIDE DEF T
  <2> QED
    BY <1>1, <1>2, <2>1, OverFiniteSets
<1>4. ASSUME NEW x \in S PROVE f[x] <= SumFunctionOnSet(f, S)
  <2>1. SumFunctionOnSet(f, S) = f[x] + SumFunctionOnSet(f, S \ {x})
    <3>1. \A y \in S : f[y] \in Int
      OBVIOUS
    <3> QED
      BY <3>1, SumRemove
  <2>2. SumFunctionOnSet(f, S \ {x}) \in Nat /\ f[x] \in Nat
    BY <1>3
  <2> QED
    BY <2>1, <2>2
<1> QED
  BY <1>3, <1>4

\* The sum over a set and one more element.
LEMMA SumAdd ==
  ASSUME NEW f, NEW g, NEW S, IsFiniteSet(S), NEW x, x \notin S,
         \A y \in S : f[y] = g[y], \A y \in S \cup {x} : g[y] \in Int
  PROVE  SumFunctionOnSet(g, S \cup {x}) = SumFunctionOnSet(f, S) + g[x]
<1>1. IsFiniteSet(S \cup {x})
  BY FS_AddElement
<1>2. (S \cup {x}) \ {x} = S /\ x \in S \cup {x}
  OBVIOUS
<1>3. SumFunctionOnSet(g, S \cup {x}) = g[x] + SumFunctionOnSet(g, S)
  BY <1>1, <1>2, SumRemove
<1>4. SumFunctionOnSet(f, S) = SumFunctionOnSet(g, S)
  BY SumSame, Zenon
<1>5. SumFunctionOnSet(g, S) \in Int /\ g[x] \in Int
  BY SumInt
<1> QED
  BY <1>3, <1>4, <1>5

\* The sum when the term of one element changes.
LEMMA SumChange ==
  ASSUME NEW f, NEW g, NEW S, IsFiniteSet(S), NEW x \in S,
         \A y \in S : f[y] \in Int /\ g[y] \in Int,
         \A y \in S \ {x} : f[y] = g[y]
  PROVE  SumFunctionOnSet(g, S) = SumFunctionOnSet(f, S) - f[x] + g[x]
<1>1. /\ SumFunctionOnSet(f, S) = f[x] + SumFunctionOnSet(f, S \ {x})
      /\ SumFunctionOnSet(g, S) = g[x] + SumFunctionOnSet(g, S \ {x})
  BY SumRemove
<1>2. IsFiniteSet(S \ {x})
  BY FS_RemoveElement
<1>3. SumFunctionOnSet(f, S \ {x}) = SumFunctionOnSet(g, S \ {x})
  BY <1>2, SumSame, Zenon
<1>4. SumFunctionOnSet(g, S \ {x}) \in Int
  <2>1. \A y \in S \ {x} : g[y] \in Int
    OBVIOUS
  <2> QED
    BY <1>2, <2>1, SumInt, Zenon
<1>5. f[x] \in Int /\ g[x] \in Int
  OBVIOUS
<1> QED
  BY <1>1, <1>3, <1>4, <1>5

\* The sum when the indices are shifted by one.
LEMMA SumShift ==
  ASSUME NEW S \in SUBSET Int, IsFiniteSet(S), NEW f, NEW g,
         \A x \in S : f[x] = g[x - 1] /\ f[x] \in Int
  PROVE  SumFunctionOnSet(g, {x - 1 : x \in S}) = SumFunctionOnSet(f, S)
<1> DEFINE Down(s) == {x - 1 : x \in s}
           T == {s \in SUBSET S : /\ SumFunctionOnSet(g, Down(s)) = SumFunctionOnSet(f, s)
                                  /\ IsFiniteSet(Down(s))}
<1>0. \A s \in SUBSET S : s # {} =>
        \E x \in s : SumFunctionOnSet(f, s) = f[x] + SumFunctionOnSet(f, s \ {x})
  <2> HIDE DEF T
  <2> TAKE s \in SUBSET S
  <2> HAVE s # {}
  <2> QED
    BY SumStep, Zenon
<1>1. {} \in T
  <2>1. Down({}) = {} /\ IsFiniteSet({})
    BY FS_EmptySet
  <2> HIDE DEF Down
  <2>2. SumFunctionOnSet(g, Down({})) = SumFunctionOnSet(f, {})
    BY <2>1, SumEmpty
  <2> QED
    BY <2>1, <2>2
<1>2. ASSUME NEW s \in SUBSET S, s # {}, \A x \in s : s \ {x} \in T PROVE s \in T
  <2>1. PICK x \in s : SumFunctionOnSet(f, s) = f[x] + SumFunctionOnSet(f, s \ {x})
    BY <1>0, <1>2, Zenon
  <2>2. /\ SumFunctionOnSet(g, Down(s \ {x})) = SumFunctionOnSet(f, s \ {x})
        /\ IsFiniteSet(Down(s \ {x}))
    BY <1>2, <2>1, Zenon
  <2>3. Down(s) = Down(s \ {x}) \cup {x - 1} /\ x - 1 \notin Down(s \ {x})
    OBVIOUS
  <2>4. \A y \in Down(s) : g[y] \in Int
    OBVIOUS
  <2>5. IsFiniteSet(s) /\ \A y \in s : f[y] \in Int
    BY FS_Subset
  <2>. HIDE DEF Down, T
  <2>7. SumFunctionOnSet(g, Down(s)) = SumFunctionOnSet(g, Down(s \ {x})) + g[x - 1]
    <3> DEFINE D == Down(s \ {x})
    <3>1. \A y \in D \cup {x - 1} : g[y] \in Int
      BY <2>3, <2>4
    <3>2. IsFiniteSet(D) /\ x - 1 \notin D
      BY <2>2, <2>3
    <3> HIDE DEF D
    <3>3. SumFunctionOnSet(g, D \cup {x - 1}) = SumFunctionOnSet(g, D) + g[x - 1]
      BY <3>1, <3>2, SumAdd
    <3> QED
      BY <2>3, <3>3 DEF D
  <2>8. SumFunctionOnSet(f, s \ {x}) \in Int
    <3>1. IsFiniteSet(s \ {x}) /\ \A y \in s \ {x} : f[y] \in Int
      BY <2>5, FS_RemoveElement
    <3> QED
      BY <3>1, SumInt, Zenon
  <2>9. IsFiniteSet(Down(s))
    <3>1. IsFiniteSet(Down(s \ {x}) \cup {x - 1})
      BY <2>2, FS_AddElement
    <3> QED
      BY <2>3, <3>1
  <2>10. f[x] = g[x - 1] /\ f[x] \in Int
    BY <2>1
  <2>11. SumFunctionOnSet(g, Down(s)) = SumFunctionOnSet(f, s)
    BY <2>1, <2>2, <2>7, <2>8, <2>10
  <2> QED
    BY <2>9, <2>11 DEF T
<1>3. S \in T
  <2> HIDE DEF T
  <2> QED
    BY <1>1, <1>2, OverFiniteSets
<1> QED
  BY <1>3, Zenon

-----------------------------------------------------------------------------
(* Queues.                                                                  *)

\* A queue of requests without a repetition.
IsQueue(q) ==
  /\ q \in Seq(Reqs)
  /\ \A i, j \in DOMAIN q : q[i] = q[j] => i = j

\* The empty list is a queue.
LEMMA EmptyQueue == IsQueue(<<>>) /\ Elements(<<>>) = {}
BY DEF IsQueue, Elements

\* A queue holds finitely many requests.
LEMMA ElementsFinite ==
  ASSUME NEW q \in Seq(Reqs)
  PROVE  IsFiniteSet(Elements(q)) /\ Elements(q) \in SUBSET Reqs
<1>1. q \in [1..Len(q) -> Reqs] /\ Len(q) \in Nat
  OBVIOUS
<1>2. Elements(q) \in SUBSET Reqs
  BY <1>1 DEF Elements
<1>3. q \in Surjection(1..Len(q), Elements(q))
  BY <1>1 DEF Elements, Surjection
<1> QED
  <2>1. IsFiniteSet(1..Len(q))
    BY <1>1, FS_Interval
  <2> QED
    BY <1>2, <1>3, <2>1, FS_Surjection

\* A queue is as long as it holds requests: none is in it twice.
LEMMA QueueLength ==
  ASSUME NEW q, IsQueue(q)
  PROVE  Len(q) = Cardinality(Elements(q))
<1>1. q \in [1..Len(q) -> Reqs] /\ Len(q) \in Nat /\ DOMAIN q = 1..Len(q)
  BY DEF IsQueue
<1>2. q \in [1..Len(q) -> Elements(q)]
  BY <1>1 DEF Elements
<1>3. q \in Bijection(1..Len(q), Elements(q))
  BY <1>1, <1>2 DEF Elements, IsQueue, Bijection, Injection, Surjection, IsInjective
<1>4. ExistsBijection(1..Len(q), Elements(q))
  BY <1>3 DEF ExistsBijection
<1> QED
  BY <1>1, <1>4, FS_CountingElements

\* append() of a request that is not in the queue.
LEMMA AppendedQueue ==
  ASSUME NEW q, IsQueue(q), NEW r \in Reqs, r \notin Elements(q)
  PROVE  IsQueue(Append(q, r)) /\ Elements(Append(q, r)) = Elements(q) \cup {r}
<1> DEFINE a == Append(q, r)
<1>1. q \in Seq(Reqs) /\ DOMAIN q = 1..Len(q) /\ Len(q) \in Nat
  BY DEF IsQueue
<1>2. a \in Seq(Reqs) /\ DOMAIN a = 1..(Len(q) + 1) /\ Len(a) = Len(q) + 1
  BY <1>1
<1>3. a[Len(q) + 1] = r /\ \A i \in 1..Len(q) : a[i] = q[i]
  BY <1>1
<1> HIDE DEF a
<1>4. Elements(a) = Elements(q) \cup {r}
  <2>1. \A x \in Elements(a) : x \in Elements(q) \cup {r}
    BY <1>1, <1>2, <1>3 DEF Elements
  <2>2. \A x \in Elements(q) : x \in Elements(a)
    BY <1>1, <1>2, <1>3 DEF Elements
  <2>3. r \in Elements(a)
    BY <1>1, <1>2, <1>3 DEF Elements
  <2> QED
    BY <2>1, <2>2, <2>3
<1>5. \A i, j \in DOMAIN a : a[i] = a[j] => i = j
  <2>1. \A i \in 1..Len(q) : a[i] # r
    BY <1>1, <1>3 DEF Elements
  <2>2. \A i, j \in 1..Len(q) : a[i] = a[j] => i = j
    BY <1>1, <1>3 DEF IsQueue
  <2> QED
    BY <1>1, <1>2, <1>3, <2>1, <2>2
<1> QED
  BY <1>2, <1>4, <1>5 DEF a, IsQueue

\* Two queues with no request in common make one.
LEMMA ConcatQueue ==
  ASSUME NEW p, IsQueue(p), NEW q, IsQueue(q), Elements(p) \cap Elements(q) = {}
  PROVE  IsQueue(p \o q) /\ Elements(p \o q) = Elements(p) \cup Elements(q)
<1> DEFINE a == p \o q
<1>1. /\ p \in Seq(Reqs) /\ DOMAIN p = 1..Len(p) /\ Len(p) \in Nat
      /\ q \in Seq(Reqs) /\ DOMAIN q = 1..Len(q) /\ Len(q) \in Nat
  BY DEF IsQueue
<1>2. a \in Seq(Reqs) /\ DOMAIN a = 1..(Len(p) + Len(q)) /\ Len(a) = Len(p) + Len(q)
  BY <1>1
<1>3. /\ \A i \in 1..Len(p) : a[i] = p[i]
      /\ \A i \in 1..(Len(p) + Len(q)) : i > Len(p) => a[i] = q[i - Len(p)]
  BY <1>1
<1> HIDE DEF a
<1>4. Elements(a) = Elements(p) \cup Elements(q)
  <2>1. \A x \in Elements(a) : x \in Elements(p) \cup Elements(q)
    <3> TAKE x \in Elements(a)
    <3>1. PICK i \in 1..(Len(p) + Len(q)) : x = a[i]
      BY <1>2 DEF Elements
    <3>2. CASE i <= Len(p)
      <4>1. i \in DOMAIN p /\ x = p[i]
        BY <1>1, <1>3, <3>1, <3>2
      <4> QED
        BY <4>1 DEF Elements
    <3>3. CASE i > Len(p)
      <4>1. i - Len(p) \in DOMAIN q /\ x = q[i - Len(p)]
        BY <1>1, <1>3, <3>1, <3>3
      <4> QED
        BY <4>1 DEF Elements
    <3> QED
      BY <1>1, <3>2, <3>3
  <2>2. \A x \in Elements(p) : x \in Elements(a)
    BY <1>1, <1>2, <1>3 DEF Elements
  <2>3. ASSUME NEW x \in Elements(q) PROVE x \in Elements(a)
    <3>1. PICK i \in 1..Len(q) : x = q[i]
      BY <1>1 DEF Elements
    <3>2. i + Len(p) \in DOMAIN a /\ i + Len(p) > Len(p) /\ (i + Len(p)) - Len(p) = i
      BY <1>1, <1>2
    <3>3. x = a[i + Len(p)]
      BY <1>2, <1>3, <3>1, <3>2
    <3> QED
      BY <3>2, <3>3 DEF Elements
  <2> QED
    BY <2>1, <2>2, <2>3
<1>5. ASSUME NEW i \in DOMAIN a, NEW j \in DOMAIN a, a[i] = a[j] PROVE i = j
  <2>1. \A k \in DOMAIN a : \/ k \in DOMAIN p /\ a[k] = p[k]
                            \/ k - Len(p) \in DOMAIN q /\ a[k] = q[k - Len(p)]
    BY <1>1, <1>2, <1>3
  <2>2. \A k \in DOMAIN p : p[k] \notin Elements(q)
    BY DEF Elements
  <2>3. \A k \in DOMAIN q : q[k] \in Elements(q)
    BY DEF Elements
  <2>4. \/ i \in DOMAIN p /\ j \in DOMAIN p /\ p[i] = p[j]
        \/ i - Len(p) \in DOMAIN q /\ j - Len(p) \in DOMAIN q
           /\ q[i - Len(p)] = q[j - Len(p)]
    BY <1>5, <2>1, <2>2, <2>3, Zenon
  <2>5. \/ i = j
        \/ i - Len(p) = j - Len(p)
    BY <2>4, Zenon DEF IsQueue
  <2> QED
    BY <1>1, <1>2, <2>5
<1> QED
  BY <1>2, <1>4, <1>5 DEF a, IsQueue

\* A list of one request is a queue.
LEMMA OneQueue ==
  ASSUME NEW r \in Reqs
  PROVE  IsQueue(<<r>>) /\ Elements(<<r>>) = {r}
BY DEF IsQueue, Elements

\* pop_request(): the queue without its first request.
LEMMA TailQueue ==
  ASSUME NEW q, IsQueue(q), q # <<>>
  PROVE  /\ q[1] \in Elements(q) /\ q[1] \in Reqs
         /\ IsQueue(Tail(q)) /\ Elements(Tail(q)) = Elements(q) \ {q[1]}
         /\ Len(Tail(q)) = Len(q) - 1
<1>1. /\ q \in Seq(Reqs) /\ DOMAIN q = 1..Len(q) /\ Len(q) \in Nat /\ Len(q) >= 1
      /\ 1 \in DOMAIN q /\ q[1] \in Reqs
  BY DEF IsQueue
<1> DEFINE t == Tail(q)
<1>2. /\ t \in Seq(Reqs) /\ DOMAIN t = 1..(Len(q) - 1) /\ Len(t) = Len(q) - 1
      /\ \A i \in 1..(Len(q) - 1) : t[i] = q[i + 1]
  BY <1>1
<1> HIDE DEF t
<1>3. \A i, j \in 1..Len(q) : q[i] = q[j] => i = j
  BY <1>1 DEF IsQueue
<1>4. \A i, j \in DOMAIN t : t[i] = t[j] => i = j
  BY <1>1, <1>2, <1>3
<1>5. \A x \in Elements(t) : x \in Elements(q) /\ x # q[1]
  BY <1>1, <1>2, <1>3 DEF Elements
<1>6. ASSUME NEW x \in Elements(q), x # q[1] PROVE x \in Elements(t)
  <2>1. PICK i \in 1..Len(q) : x = q[i]
    BY <1>1 DEF Elements
  <2>2. i - 1 \in DOMAIN t /\ t[i - 1] = q[(i - 1) + 1] /\ (i - 1) + 1 = i
    BY <1>1, <1>2, <1>6, <2>1
  <2> QED
    BY <2>1, <2>2 DEF Elements
<1>7. q[1] \in Elements(q)
  BY <1>1 DEF Elements
<1> QED
  BY <1>1, <1>2, <1>4, <1>5, <1>6, <1>7 DEF t, IsQueue

\* A recursive function of a step function is the one Recursion gives.
KeepsUpTo(q, S, g) ==
  g = [i \in 0..Len(q) |->
         IF i = 0 THEN <<>>
         ELSE IF q[i] \in S THEN Append(g[i - 1], q[i]) ELSE g[i - 1]]

\* The function Kept recurs with: after i places, it has what is in S of them.
LEMMA KeptFunction ==
  ASSUME NEW q, IsQueue(q), NEW S
  PROVE  \E g \in [0..Len(q) -> Seq(Reqs)] : KeepsUpTo(q, S, g) /\ Kept(q, S) = g[Len(q)]
<1>1. q \in Seq(Reqs) /\ DOMAIN q = 1..Len(q) /\ Len(q) \in Nat /\ <<>> \in Seq(Reqs)
  BY DEF IsQueue
<1> DEFINE G == [i \in 1..Len(q) |-> [z \in Seq(Reqs) |->
                   IF q[i] \in S THEN Append(z, q[i]) ELSE z]]
<1>2. G \in [1..Len(q) -> [Seq(Reqs) -> Seq(Reqs)]]
  <2>1. \A i \in 1..Len(q), z \in Seq(Reqs) : Append(z, q[i]) \in Seq(Reqs)
    BY <1>1
  <2> QED
    BY <2>1
<1>3. \A i \in 1..Len(q), z \in Seq(Reqs) :
        G[i][z] = IF q[i] \in S THEN Append(z, q[i]) ELSE z
  OBVIOUS
<1> HIDE DEF G
<1>4. PICK g \in [0..Len(q) -> Seq(Reqs)] :
        g[0] = <<>> /\ \A i \in 1..Len(q) : g[i] = G[i][g[i - 1]]
  <2>1. CanRecur(Len(q), Seq(Reqs), <<>>, G)
    BY <1>1, <1>2 DEF CanRecur
  <2>2. \E g : Recurs(Len(q), Seq(Reqs), <<>>, G, g)
    BY <2>1, Recursion, Zenon
  <2> QED
    BY <2>2 DEF Recurs
<1>5. KeepsUpTo(q, S, g)
  <2>1. ASSUME NEW i \in 0..Len(q), i # 0
        PROVE  g[i] = IF q[i] \in S THEN Append(g[i - 1], q[i]) ELSE g[i - 1]
    <3>1. i \in 1..Len(q) /\ i - 1 \in 0..Len(q)
      BY <1>1, <2>1
    <3>2. g[i] = G[i][g[i - 1]] /\ g[i - 1] \in Seq(Reqs)
      BY <1>4, <3>1
    <3> QED
      BY <1>3, <3>1, <3>2
  <2>2. g = [i \in 0..Len(q) |-> g[i]]
    OBVIOUS
  <2>3. \A i \in 0..Len(q) :
          g[i] = IF i = 0 THEN <<>>
                 ELSE IF q[i] \in S THEN Append(g[i - 1], q[i]) ELSE g[i - 1]
    BY <1>4, <2>1, Zenon
  <2>4. [i \in 0..Len(q) |-> g[i]]
        = [i \in 0..Len(q) |->
             IF i = 0 THEN <<>>
             ELSE IF q[i] \in S THEN Append(g[i - 1], q[i]) ELSE g[i - 1]]
    BY <2>3, Zenon
  <2> QED
    BY <2>2, <2>4, Zenon DEF KeepsUpTo
<1>6. \A h : KeepsUpTo(q, S, h) => h = g
  <2> SUFFICES ASSUME NEW h, KeepsUpTo(q, S, h) PROVE h = g
    OBVIOUS
  <2> DEFINE T == {i \in 0..Len(q) : h[i] = g[i]}
  <2>1. /\ h = [i \in 0..Len(q) |-> h[i]]
        /\ \A i \in 0..Len(q) :
             h[i] = IF i = 0 THEN <<>>
                    ELSE IF q[i] \in S THEN Append(h[i - 1], q[i]) ELSE h[i - 1]
    <3>1. DOMAIN h = 0..Len(q)
      BY Zenon DEF KeepsUpTo
    <3>2. \A i \in 0..Len(q) :
             h[i] = IF i = 0 THEN <<>>
                    ELSE IF q[i] \in S THEN Append(h[i - 1], q[i]) ELSE h[i - 1]
      BY Zenon DEF KeepsUpTo
    <3>3. h = [i \in 0..Len(q) |->
             IF i = 0 THEN <<>>
             ELSE IF q[i] \in S THEN Append(h[i - 1], q[i]) ELSE h[i - 1]]
      BY DEF KeepsUpTo
    <3>4. [i \in 0..Len(q) |->
             IF i = 0 THEN <<>>
             ELSE IF q[i] \in S THEN Append(h[i - 1], q[i]) ELSE h[i - 1]]
          = [i \in 0..Len(q) |-> h[i]]
      BY <3>2, Zenon
    <3> QED
      BY <3>2, <3>3, <3>4, Zenon
  <2>2. \A i \in 0..Len(q) :
             g[i] = IF i = 0 THEN <<>>
                    ELSE IF q[i] \in S THEN Append(g[i - 1], q[i]) ELSE g[i - 1]
    BY <1>5, Zenon DEF KeepsUpTo
  <2>3. 0 \in T
    <3>1. 0 \in 0..Len(q)
      BY <1>1
    <3>2. h[0] = g[0]
      BY <2>1, <2>2, <3>1, Zenon
    <3> QED
      BY <3>1, <3>2
  <2>4. ASSUME NEW i \in 0..Len(q), i < Len(q), i \in T PROVE i + 1 \in T
    <3>1. i + 1 \in 0..Len(q) /\ i + 1 # 0 /\ (i + 1) - 1 = i /\ h[i] = g[i]
      BY <1>1, <2>4
    <3>2. h[i + 1] = g[i + 1]
      BY <2>1, <2>2, <3>1, Zenon
    <3> QED
      BY <3>1, <3>2
  <2>5. \A i \in 0..Len(q) : i \in T
    <3> HIDE DEF T
    <3> QED
      BY <1>1, <2>3, <2>4, UpTo
  <2>6. \A i \in 0..Len(q) : h[i] = g[i]
    BY <2>5
  <2>7. [i \in 0..Len(q) |-> h[i]] = [i \in 0..Len(q) |-> g[i]]
    BY <2>6, Zenon
  <2>8. g = [i \in 0..Len(q) |-> g[i]]
    OBVIOUS
  <2> QED
    BY <2>1, <2>7, <2>8, Zenon
<1>7. Kept(q, S) = g[Len(q)]
  BY <1>5, <1>6, Zenon DEF Kept, KeepsUpTo
<1> QED
  BY <1>5, <1>7

\* Filtering a queue keeps its order and exactly the requests asked for.
LEMMA KeptIs ==
  ASSUME NEW q, IsQueue(q), NEW S
  PROVE  IsQueue(Kept(q, S)) /\ Elements(Kept(q, S)) = Elements(q) \cap S
<1>1. q \in Seq(Reqs) /\ DOMAIN q = 1..Len(q) /\ Len(q) \in Nat
  BY DEF IsQueue
<1>2. PICK g \in [0..Len(q) -> Seq(Reqs)] :
        KeepsUpTo(q, S, g) /\ Kept(q, S) = g[Len(q)]
  BY KeptFunction
<1>3. \A i \in 0..Len(q) :
             g[i] = IF i = 0 THEN <<>>
                    ELSE IF q[i] \in S THEN Append(g[i - 1], q[i]) ELSE g[i - 1]
    BY <1>2, Zenon DEF KeepsUpTo
<1> DEFINE first(i) == {q[k] : k \in 1..i}
           T == {i \in 0..Len(q) : IsQueue(g[i]) /\ Elements(g[i]) = first(i) \cap S}
<1>4. 0 \in T
  <2>1. first(0) = {} /\ g[0] = <<>> /\ 0 \in 0..Len(q)
    BY <1>1, <1>3
  <2> QED
    BY <2>1, EmptyQueue
<1>5. ASSUME NEW i \in 0..Len(q), i < Len(q), i \in T PROVE i + 1 \in T
  <2>1. i + 1 \in 0..Len(q) /\ i + 1 \in DOMAIN q /\ i + 1 # 0 /\ (i + 1) - 1 = i
    BY <1>1, <1>5
  <2>2. g[i + 1] = IF q[i + 1] \in S THEN Append(g[i], q[i + 1]) ELSE g[i]
    BY <1>3, <2>1, Zenon
  <2>3. first(i + 1) = first(i) \cup {q[i + 1]} /\ q[i + 1] \notin first(i)
    <3>1. 1..(i + 1) = 1..i \cup {i + 1}
      BY <1>1
    <3>2. \A k \in 1..i : k \in DOMAIN q /\ k # i + 1
      BY <1>1, <1>5
    <3>3. \A k \in 1..i : q[k] # q[i + 1]
      BY <2>1, <3>2 DEF IsQueue
    <3> QED
      BY <3>1, <3>3
  <2>4. IsQueue(g[i]) /\ Elements(g[i]) = first(i) \cap S /\ q[i + 1] \in Reqs
    BY <1>1, <1>5, <2>1
  <2> HIDE DEF first
  <2>5. CASE q[i + 1] \in S
    <3>1. g[i + 1] = Append(g[i], q[i + 1]) /\ q[i + 1] \notin Elements(g[i])
      BY <2>2, <2>3, <2>4, <2>5
    <3>2. /\ IsQueue(Append(g[i], q[i + 1]))
          /\ Elements(Append(g[i], q[i + 1])) = Elements(g[i]) \cup {q[i + 1]}
      BY <2>4, <3>1, AppendedQueue
    <3>3. Elements(g[i + 1]) = first(i + 1) \cap S
      BY <2>3, <2>4, <2>5, <3>1, <3>2
    <3> QED
      BY <2>1, <3>1, <3>2, <3>3
  <2>6. CASE q[i + 1] \notin S
    <3>1. g[i + 1] = g[i]
      BY <2>2, <2>6
    <3>2. first(i + 1) \cap S = first(i) \cap S
      BY <2>3, <2>6
    <3> QED
      BY <2>1, <2>4, <3>1, <3>2
  <2> QED
    BY <2>5, <2>6
<1>6. Len(q) \in T
  <2> HIDE DEF T
  <2>1. \A i \in 0..Len(q) : i \in T
    BY <1>1, <1>4, <1>5, UpTo
  <2> QED
    BY <1>1, <2>1
<1>7. first(Len(q)) = Elements(q)
  BY <1>1 DEF Elements
<1> QED
  BY <1>2, <1>6, <1>7

\* Without one request, what was behind it moves up one place.
LEMMA WithoutOne ==
  ASSUME NEW q, IsQueue(q), NEW v \in DOMAIN q
  PROVE  Without(q, {q[v]}) = [j \in 1..(Len(q) - 1) |-> IF j < v THEN q[j] ELSE q[j + 1]]
<1>1. q \in Seq(Reqs) /\ DOMAIN q = 1..Len(q) /\ Len(q) \in Nat
      /\ v \in 1..Len(q) /\ \A i \in 1..Len(q) : q[i] \in Reqs
  BY DEF IsQueue
<1> DEFINE S == Reqs \ {q[v]}
           t(n) == [j \in 1..n |-> IF j < v THEN q[j] ELSE q[j + 1]]
<1>2. PICK g \in [0..Len(q) -> Seq(Reqs)] :
        KeepsUpTo(q, S, g) /\ Kept(q, S) = g[Len(q)]
  BY KeptFunction
<1>3. \A i \in 0..Len(q) :
             g[i] = IF i = 0 THEN <<>>
                    ELSE IF q[i] \in S THEN Append(g[i - 1], q[i]) ELSE g[i - 1]
    BY <1>2, Zenon DEF KeepsUpTo
<1>4. \A i \in 1..Len(q) : q[i] \in S <=> i # v
  BY <1>1 DEF IsQueue
<1> HIDE DEF S
<1> DEFINE T == {i \in 0..Len(q) : g[i] = t(IF i < v THEN i ELSE i - 1)}
<1>5. 0 \in T
  BY <1>1, <1>3
<1>6. ASSUME NEW i \in 0..Len(q), i < Len(q), i \in T PROVE i + 1 \in T
  <2>1. i + 1 \in 0..Len(q) /\ i + 1 \in 1..Len(q) /\ i + 1 # 0 /\ (i + 1) - 1 = i
    BY <1>1, <1>6
  <2>2. g[i + 1] = IF i + 1 # v THEN Append(g[i], q[i + 1]) ELSE g[i]
    BY <1>3, <1>4, <2>1, Zenon
  <2>3. CASE i + 1 = v
    BY <1>1, <1>6, <2>1, <2>2, <2>3
  <2>4. CASE i + 1 < v
    <3>1. g[i] = [j \in 1..i |-> q[j]]
      BY <1>1, <1>6, <2>4
    <3>2. g[i + 1] = [j \in 1..(i + 1) |-> q[j]]
      BY <1>1, <2>1, <2>2, <2>4, <3>1
    <3> QED
      BY <1>1, <2>1, <2>4, <3>2
  <2>5. CASE i + 1 > v
    <3>1. g[i] = t(i - 1) /\ i - 1 \in Nat /\ g[i] \in Seq(Reqs)
      BY <1>1, <1>6, <2>5
    <3>2. Len(g[i]) = i - 1
      BY <3>1
    <3>3. g[i + 1] = Append(g[i], q[i + 1])
      BY <2>2, <2>5
    <3>4. Append(g[i], q[i + 1]) = t(i)
      <4>1. /\ Append(g[i], q[i + 1]) = [j \in 1..i |-> IF j = i THEN q[i + 1] ELSE g[i][j]]
        BY <3>1, <3>2, <1>1
      <4>2. \A j \in 1..i : (IF j = i THEN q[i + 1] ELSE g[i][j])
                            = (IF j < v THEN q[j] ELSE q[j + 1])
        BY <1>1, <2>5, <3>1
      <4> QED
        BY <4>1, <4>2
    <3> QED
      BY <1>1, <2>1, <2>5, <3>3, <3>4
  <2> QED
    BY <1>1, <2>1, <2>3, <2>4, <2>5
<1>7. Len(q) \in T
  <2> HIDE DEF T
  <2>1. \A i \in 0..Len(q) : i \in T
    BY <1>1, <1>5, <1>6, UpTo
  <2> QED
    BY <1>1, <2>1
<1>8. g[Len(q)] = t(Len(q) - 1)
  <2>1. ~(Len(q) < v)
    BY <1>1
  <2>2. g[Len(q)] = t(IF Len(q) < v THEN Len(q) ELSE Len(q) - 1)
    BY <1>7
  <2> QED
    BY <2>1, <2>2, Zenon
<1> QED
  BY <1>2, <1>8 DEF Without, S

\* remove_requests(): the queue loses these requests and no other.
LEMMA WithoutIs ==
  ASSUME NEW q, IsQueue(q), NEW S
  PROVE  IsQueue(Without(q, S)) /\ Elements(Without(q, S)) = Elements(q) \ S
<1>1. Elements(q) \in SUBSET Reqs
  BY ElementsFinite DEF IsQueue
<1> QED
  BY <1>1, KeptIs DEF Without

\* A push to the priority queue adds exactly that request.
LEMMA InOrderIs ==
  ASSUME NEW q, IsQueue(q), NEW r \in Reqs, r \notin Elements(q)
  PROVE  IsQueue(InOrder(q, r)) /\ Elements(InOrder(q, r)) = Elements(q) \cup {r}
<1> DEFINE A == {s \in Reqs : Rank[s] < Rank[r]}
           B == {s \in Reqs : Rank[s] > Rank[r]}
<1>1. /\ IsQueue(Kept(q, A)) /\ Elements(Kept(q, A)) = Elements(q) \cap A
      /\ IsQueue(Kept(q, B)) /\ Elements(Kept(q, B)) = Elements(q) \cap B
  BY KeptIs
<1>2. IsQueue(<<r>>) /\ Elements(<<r>>) = {r}
  BY OneQueue
<1>3. \A s \in Reqs : s # r => s \in A \cup B
  BY AsyncSchedulerAssumption
<1>4. A \cap B = {} /\ r \notin A \cup B
  BY AsyncSchedulerAssumption
<1>5. Elements(q) \in SUBSET Reqs
  BY ElementsFinite DEF IsQueue
<1> HIDE DEF A, B
<1> DEFINE p == Kept(q, A) \o <<r>>
<1>6. IsQueue(p) /\ Elements(p) = Elements(Kept(q, A)) \cup {r}
  <2>1. Elements(Kept(q, A)) \cap Elements(<<r>>) = {}
    BY <1>1, <1>2, <1>4
  <2>2. /\ IsQueue(Kept(q, A) \o <<r>>)
        /\ Elements(Kept(q, A) \o <<r>>) = Elements(Kept(q, A)) \cup Elements(<<r>>)
    BY <1>1, <1>2, <2>1, ConcatQueue, Zenon
  <2> QED
    BY <1>2, <2>2, Zenon
<1>7. /\ IsQueue(p \o Kept(q, B))
      /\ Elements(p \o Kept(q, B)) = Elements(p) \cup Elements(Kept(q, B))
  <2> HIDE DEF p
  <2>1. Elements(p) \cap Elements(Kept(q, B)) = {}
    BY <1>1, <1>4, <1>6
  <2> QED
    BY <1>1, <1>6, <2>1, ConcatQueue, Zenon
<1>8. InOrder(q, r) = p \o Kept(q, B)
  BY Zenon DEF InOrder, A, B
<1> HIDE DEF p
<1>9. Elements(p \o Kept(q, B)) = Elements(q) \cup {r}
  BY <1>1, <1>3, <1>5, <1>6, <1>7
<1> QED
  BY <1>7, <1>8, <1>9, Zenon

\* add_request() of either policy's queue adds exactly that request.
LEMMA AddedIs ==
  ASSUME NEW q, IsQueue(q), NEW r \in Reqs, r \notin Elements(q)
  PROVE  IsQueue(Added(q, r)) /\ Elements(Added(q, r)) = Elements(q) \cup {r}
BY InOrderIs, AppendedQueue DEF Added

\* prepend_request() of either policy's queue adds exactly that request.
LEMMA PrependedIs ==
  ASSUME NEW q, IsQueue(q), NEW r \in Reqs, r \notin Elements(q)
  PROVE  IsQueue(Prepended(q, r)) /\ Elements(Prepended(q, r)) = Elements(q) \cup {r}
<1>1. IsQueue(<<r>>) /\ Elements(<<r>>) = {r}
  BY OneQueue
<1>2. Elements(<<r>>) \cap Elements(q) = {}
  BY <1>1
<1>3. /\ IsQueue(<<r>> \o q)
      /\ Elements(<<r>> \o q) = Elements(<<r>>) \cup Elements(q)
  BY <1>1, <1>2, ConcatQueue, Zenon
<1>4. Elements(<<r>> \o q) = Elements(q) \cup {r}
  BY <1>1, <1>3
<1> QED
  BY <1>3, <1>4, InOrderIs DEF Prepended

\* The function AllPrepended recurs with.
PrependsUpTo(q, s, g) ==
  g = [i \in 0..Len(s) |->
         IF i = 0 THEN q ELSE Prepended(g[i - 1], s[Len(s) + 1 - i])]

\* prepend_requests() loses no request and makes none twice.
LEMMA AllPrependedIs ==
  ASSUME NEW q, IsQueue(q), NEW s, IsQueue(s), Elements(q) \cap Elements(s) = {}
  PROVE  /\ IsQueue(AllPrepended(q, s))
         /\ Elements(AllPrepended(q, s)) = Elements(q) \cup Elements(s)
<1> DEFINE n == Len(s)
           at(i) == s[n + 1 - i]
           last(i) == {s[k] : k \in (n + 1 - i)..n}
           G == [i \in 1..n |-> [z \in Seq(Reqs) |->
                  IF at(i) \in Elements(z) \/ ~IsQueue(z) THEN z ELSE Prepended(z, at(i))]]
<1>1. /\ s \in Seq(Reqs) /\ DOMAIN s = 1..n /\ n \in Nat /\ q \in Seq(Reqs)
      /\ \A i \in 1..n : at(i) \in Reqs /\ n + 1 - i \in DOMAIN s
  BY DEF IsQueue
<1>2. G \in [1..n -> [Seq(Reqs) -> Seq(Reqs)]]
  <2>1. ASSUME NEW i \in 1..n, NEW z \in Seq(Reqs), ~(at(i) \in Elements(z) \/ ~IsQueue(z))
        PROVE  Prepended(z, at(i)) \in Seq(Reqs)
    <3>1. IsQueue(Prepended(z, at(i)))
      BY <1>1, <2>1, PrependedIs
    <3> QED
      BY <3>1 DEF IsQueue
  <2> QED
    BY <2>1
<1>3. \A i \in 1..n, z \in Seq(Reqs) :
        IsQueue(z) /\ at(i) \notin Elements(z) => G[i][z] = Prepended(z, at(i))
  OBVIOUS
<1> HIDE DEF n, G
<1>4. PICK g \in [0..n -> Seq(Reqs)] :
        g[0] = q /\ \A i \in 1..n : g[i] = G[i][g[i - 1]]
  <2>1. CanRecur(n, Seq(Reqs), q, G)
    BY <1>1, <1>2 DEF CanRecur
  <2>2. \E g : Recurs(n, Seq(Reqs), q, G, g)
    BY <2>1, Recursion, Zenon
  <2> QED
    BY <2>2 DEF Recurs
<1>5. \A i \in 0..n : IsQueue(g[i]) /\ Elements(g[i]) = Elements(q) \cup last(i)
  <2> DEFINE T == {i \in 0..n : IsQueue(g[i]) /\ Elements(g[i]) = Elements(q) \cup last(i)}
  <2>1. 0 \in T
    <3>1. last(0) = {} /\ 0 \in 0..n
      BY <1>1
    <3> QED
      BY <1>4, <3>1
  <2>2. ASSUME NEW i \in 0..n, i < n, i \in T PROVE i + 1 \in T
    <3>0. i \in Nat /\ i < n /\ n \in Nat /\ DOMAIN s = 1..n
      <4>1. i \in 0..n /\ i < n
        BY <2>2
      <4> QED
        BY <1>1, <4>1
    <3>1. /\ i + 1 \in 0..n /\ i + 1 \in 1..n /\ (i + 1) - 1 = i
          /\ n + 1 - (i + 1) = n - i /\ n - i \in DOMAIN s
      BY <3>0
    <3>2. at(i + 1) = s[n - i] /\ s[n - i] \in Reqs
      BY <1>1, <3>1
    <3>3. g[i + 1] = G[i + 1][g[i]] /\ IsQueue(g[i]) /\ g[i] \in Seq(Reqs)
          /\ Elements(g[i]) = Elements(q) \cup last(i)
      BY <1>4, <2>2, <3>1
    <3>4. last(i + 1) = last(i) \cup {s[n - i]} /\ s[n - i] \notin last(i)
      <4>1. (n + 1 - (i + 1))..n = ((n + 1 - i)..n) \cup {n - i}
        BY <3>0
      <4>2. \A k \in (n + 1 - i)..n : k \in DOMAIN s /\ k # n - i
        BY <3>0
      <4>3. \A k \in (n + 1 - i)..n : s[k] # s[n - i]
        BY <3>1, <4>2 DEF IsQueue
      <4> QED
        BY <4>1, <4>3
    <3>5. s[n - i] \notin Elements(q)
      BY <3>1 DEF Elements
    <3> HIDE DEF last, at
    <3>6. s[n - i] \notin Elements(g[i])
      BY <3>3, <3>4, <3>5
    <3>7. g[i + 1] = Prepended(g[i], s[n - i])
      BY <1>3, <3>1, <3>2, <3>3, <3>6
    <3>8. /\ IsQueue(Prepended(g[i], s[n - i]))
          /\ Elements(Prepended(g[i], s[n - i])) = Elements(g[i]) \cup {s[n - i]}
      BY <3>2, <3>3, <3>6, PrependedIs
    <3>9. Elements(g[i + 1]) = Elements(q) \cup last(i + 1)
      BY <3>3, <3>4, <3>7, <3>8
    <3> QED
      BY <3>1, <3>7, <3>8, <3>9
  <2>3. \A i \in 0..n : i \in T
    <3> HIDE DEF T
    <3> QED
      BY <1>1, <2>1, <2>2, UpTo
  <2> QED
    BY <2>3
<1>6. \A i \in 1..n : /\ g[i] = Prepended(g[i - 1], at(i))
                      /\ IsQueue(g[i - 1]) /\ at(i) \notin Elements(g[i - 1])
  <2> TAKE i \in 1..n
  <2>1. i - 1 \in 0..n /\ n + 1 - i \in DOMAIN s
    BY <1>1
  <2>2. IsQueue(g[i - 1]) /\ Elements(g[i - 1]) = Elements(q) \cup last(i - 1)
        /\ g[i - 1] \in Seq(Reqs)
    BY <1>5, <2>1
  <2>3. at(i) \notin last(i - 1)
    <3>1. \A k \in (n + 1 - (i - 1))..n : k \in DOMAIN s /\ k # n + 1 - i
      BY <1>1
    <3> QED
      BY <2>1, <3>1 DEF IsQueue
  <2>4. at(i) \notin Elements(q)
    BY <2>1 DEF Elements
  <2>5. g[i] = G[i][g[i - 1]]
    BY <1>4
  <2> HIDE DEF at, last
  <2>6. at(i) \notin Elements(g[i - 1])
    BY <2>2, <2>3, <2>4
  <2> QED
    BY <1>3, <2>2, <2>5, <2>6
<1> USE DEF n
<1>7. PrependsUpTo(q, s, g)
  <2>1. \A i \in 0..Len(s) :
          g[i] = IF i = 0 THEN q ELSE Prepended(g[i - 1], s[Len(s) + 1 - i])
    <3> TAKE i \in 0..Len(s)
    <3>1. i # 0 => i \in 1..n
      BY <1>1
    <3> QED
      BY <1>4, <1>6, <3>1, Zenon
  <2>2. g = [i \in 0..Len(s) |-> g[i]]
    OBVIOUS
  <2>3. [i \in 0..Len(s) |-> g[i]] = [i \in 0..Len(s) |->
         IF i = 0 THEN q ELSE Prepended(g[i - 1], s[Len(s) + 1 - i])]
    BY <2>1, Zenon
  <2> QED
    BY <2>2, <2>3, Zenon DEF PrependsUpTo
<1>8. \A h : PrependsUpTo(q, s, h) => h = g
  <2> SUFFICES ASSUME NEW h, PrependsUpTo(q, s, h) PROVE h = g
    OBVIOUS
  <2> DEFINE T == {i \in 0..n : h[i] = g[i]}
             rec(f, i) == IF i = 0 THEN q ELSE Prepended(f[i - 1], at(i))
  <2>1. \A i \in 0..n : h[i] = rec(h, i) /\ g[i] = rec(g, i)
    BY <1>7, Zenon DEF PrependsUpTo
  <2>2. h = [i \in 0..n |-> rec(h, i)]
    BY Zenon DEF PrependsUpTo
  <2>3. 0 \in T
    <3>1. 0 \in 0..n
      BY <1>1
    <3>2. h[0] = g[0]
      BY <2>1, <3>1, Zenon
    <3> QED
      BY <3>1, <3>2
  <2>4. ASSUME NEW i \in 0..n, i < n, i \in T PROVE i + 1 \in T
    <3>1. i + 1 \in 0..n /\ i + 1 # 0 /\ (i + 1) - 1 = i /\ h[i] = g[i]
      BY <1>1, <2>4
    <3>2. h[i + 1] = g[i + 1]
      BY <2>1, <3>1, Zenon
    <3> QED
      BY <3>1, <3>2
  <2>5. \A i \in 0..n : i \in T
    <3> HIDE DEF T, n
    <3> QED
      BY <1>1, <2>3, <2>4, UpTo
  <2>6. \A i \in 0..n : h[i] = g[i]
    BY <2>5
  <2> HIDE DEF rec
  <2>7. [i \in 0..n |-> rec(h, i)] = [i \in 0..n |-> g[i]]
    BY <2>1, <2>6, Zenon
  <2>8. g = [i \in 0..n |-> g[i]]
    OBVIOUS
  <2> QED
    BY <2>2, <2>7, <2>8, Zenon
<1>9. AllPrepended(q, s) = g[n]
  BY <1>7, <1>8, Zenon DEF AllPrepended, PrependsUpTo
<1>10. last(n) = Elements(s) /\ n \in 0..n
  BY <1>1 DEF Elements
<1> QED
  BY <1>5, <1>9, <1>10

-----------------------------------------------------------------------------
(* What schedule() offers.                                                  *)

\* Rounding down to a block does not go up.
LEMMA FloorBelow ==
  ASSUME NEW x \in Int
  PROVE  Floor(x) \in Int /\ Floor(x) <= x
<1>1. x % BlockSize \in 0..(BlockSize - 1)
  BY ChunkSplitAssumption
<1>2. BlockSize \in Int
  BY ChunkSplitAssumption
<1> QED
  BY <1>1, <1>2 DEF Floor

\* Where a chunk of n tokens may stop, and where it does.
StopsOf(start, n, prompt, tokens) ==
  Stops(start, AlignedEnd(start, start + n, prompt, tokens), prompt, tokens, 0)
EndOf(start, n, prompt, tokens) ==
  EarliestStop(StopsOf(start, n, prompt, tokens),
               AlignedEnd(start, start + n, prompt, tokens))

EndsInside(start, n, prompt, tokens) ==
  LET end == AlignedEnd(start, start + n, prompt, tokens)
      S   == StopsOf(start, n, prompt, tokens)
      e   == EndOf(start, n, prompt, tokens)
  IN  /\ end \in Int /\ end <= start + n
      /\ e \in Int /\ e <= end
      /\ S = {} => e = end
      /\ S # {} => start < e

\* A chunk ends at its end or at the first stop inside it, wherever it starts.
LEMMA EarliestIs ==
  ASSUME NEW start \in Int, NEW n \in Int, NEW prompt \in Nat, NEW tokens \in Nat
  PROVE  EndsInside(start, n, prompt, tokens)
<1> USE ChunkSplitAssumption
<1> DEFINE end == AlignedEnd(start, start + n, prompt, tokens)
           a == BlockStop(start)
           b == LastCachePosition(tokens)
           c == TailStop(prompt, tokens)
           d == JunctionStop(start, end, 0)
           S == Stops(start, end, prompt, tokens, 0)
           Has(T) == T # {} => \E s \in T : \A t \in T : s <= t
<1>1. end \in Int /\ end <= start + n
  <2>1. Floor(start + n) \in Int /\ Floor(start + n) <= start + n
    BY FloorBelow
  <2> QED
    BY <2>1 DEF AlignedEnd
<1>2. a \in Int /\ b \in Int /\ c \in Int /\ d \in Int
  <2>1. a \in Int
    BY FloorBelow DEF BlockStop
  <2>2. b \in Int
    BY SplitTypes
  <2>3. c \in Int
    BY SplitTypes
  <2>4. d \in Int
    BY FloorBelow DEF JunctionStop
  <2> QED
    BY <2>1, <2>2, <2>3, <2>4
<1>3. S \subseteq {a, b, c, d} /\ \A s \in S : start < s /\ s < end
  BY DEF Stops
<1> HIDE DEF a, b, c, d, S
<1>4. Has(S)
  <2>1. Has(S \cap {a})
    BY <1>2
  <2>2. Has(S \cap {a, b})
    <3>1. S \cap {a, b} = IF b \in S THEN (S \cap {a}) \cup {b} ELSE S \cap {a}
      OBVIOUS
    <3>2. S \cap {a} \in SUBSET Int
      BY <1>2
    <3> QED
      BY <1>2, <2>1, <3>1, <3>2, LeastWithOneMore
  <2>3. Has(S \cap {a, b, c})
    <3>1. S \cap {a, b, c} = IF c \in S THEN (S \cap {a, b}) \cup {c} ELSE S \cap {a, b}
      OBVIOUS
    <3>2. S \cap {a, b} \in SUBSET Int
      BY <1>2
    <3> QED
      BY <1>2, <2>2, <3>1, <3>2, LeastWithOneMore
  <2>4. Has(S \cap {a, b, c, d})
    <3>1. S \cap {a, b, c, d} = IF d \in S THEN (S \cap {a, b, c}) \cup {d}
                                ELSE S \cap {a, b, c}
      OBVIOUS
    <3>2. S \cap {a, b, c} \in SUBSET Int
      BY <1>2
    <3> QED
      BY <1>2, <2>3, <3>1, <3>2, LeastWithOneMore
  <2>5. S \cap {a, b, c, d} = S
    BY <1>3
  <2> QED
    BY <2>4, <2>5
<1> HIDE DEF end
<1> DEFINE f == EarliestStop(S, end)
<1>5. S # {} => f \in S
  BY <1>4 DEF EarliestStop
<1>6. S = {} => f = end
  BY DEF EarliestStop
<1> HIDE DEF f, Has
<1>7. \A s \in S : s \in Int
  BY <1>2, <1>3
<1> QED
  BY <1>1, <1>3, <1>5, <1>6, <1>7 DEF f, S, end, StopsOf, EndOf, EndsInside

\* A split takes no more than is wanted, wherever it starts.
LEMMA SplitNoMore ==
  ASSUME NEW start \in Int, NEW n \in Int, NEW prompt \in Nat, NEW tokens \in Nat
  PROVE  /\ Split(start, n, prompt, tokens, 0) \in Int
         /\ n >= 0 => Split(start, n, prompt, tokens, 0) \in 0..n
         /\ n < 0 => Split(start, n, prompt, tokens, 0) <= 0
<1> DEFINE end == AlignedEnd(start, start + n, prompt, tokens)
           e == EndOf(start, n, prompt, tokens)
<1>1. Split(start, n, prompt, tokens, 0) =
        IF start >= PrefillEnd(prompt, tokens) THEN n ELSE Larger(e - start, 0)
  BY DEF Split, EndOf, StopsOf
<1>2. e \in Int /\ e <= end /\ end \in Int /\ end <= start + n
  BY EarliestIs DEF EndsInside
<1> HIDE DEF e, end
<1>3. e <= start + n
  BY <1>2
<1>4. Larger(e - start, 0) \in Int /\ (n >= 0 => Larger(e - start, 0) \in 0..n)
      /\ (n < 0 => Larger(e - start, 0) <= 0)
  BY <1>2, <1>3 DEF Larger
<1> QED
  BY <1>1, <1>4

\* What a request gets is no more than it wants.
LEMMA CutNoMore ==
  ASSUME NEW start \in Int, NEW n \in Int, NEW r \in Reqs, Tokens(r) \in Nat
  PROVE  /\ Cut(start, n, r) \in Nat
         /\ n >= 0 => Cut(start, n, r) <= n
         /\ n < 0 => Cut(start, n, r) = 0
<1>1. Prompt[r] \in Nat /\ Lookahead \in Nat
  BY AsyncSchedulerAssumption, ChunkSplitAssumption
<1> DEFINE m == IF AlignedSplit THEN Split(start, n, Prompt[r], Tokens(r), 0) ELSE n
<1>2. m \in Int /\ (n >= 0 => m \in 0..n) /\ (n < 0 => m <= 0)
  <2> DEFINE s == Split(start, n, Prompt[r], Tokens(r), 0)
  <2>1. s \in Int /\ (n >= 0 => s \in 0..n) /\ (n < 0 => s <= 0)
    BY <1>1, SplitNoMore
  <2> HIDE DEF s
  <2>2. m = IF AlignedSplit THEN s ELSE n
    BY DEF s
  <2> HIDE DEF m
  <2> QED
    BY <2>1, <2>2
<1>3. Cut(start, n, r) = Reserve(start, m, Tokens(r))
  BY DEF Cut
<1> HIDE DEF m
<1> QED
  BY <1>1, <1>2, <1>3 DEF Reserve, Larger

\* The blocks for n tokens have room for them.
LEMMA BlocksForIs ==
  ASSUME NEW n \in Int
  PROVE  /\ BlocksFor(n) \in Int
         /\ n <= MaxModelLen => n <= BlocksFor(n) * KVBlock
<1>1. KVBlock \in Nat \ {0} /\ MaxModelLen \in Nat
  BY AsyncSchedulerAssumption
<1> DEFINE x == Smaller(n, MaxModelLen) + KVBlock - 1
           q == x \div KVBlock
<1>2. x \in Int /\ (n <= MaxModelLen => x = n + KVBlock - 1)
  BY <1>1 DEF Smaller
<1>3. q \in Int /\ x < (q + 1) * KVBlock
  <2> HIDE DEF x
  <2>1. q \in Int /\ x % KVBlock \in 0..(KVBlock - 1)
        /\ x = KVBlock * q + (x % KVBlock)
    BY <1>1, <1>2
  <2> HIDE DEF q
  <2> DEFINE m == x % KVBlock
  <2>2. m \in 0..(KVBlock - 1) /\ x = KVBlock * q + m
    BY <2>1
  <2> HIDE DEF m
  <2>3. (q + 1) * KVBlock = KVBlock * q + KVBlock
    BY <1>1, <2>1
  <2>4. KVBlock * q \in Int
    BY <1>1, <2>1
  <2> QED
    BY <1>1, <2>1, <2>2, <2>3, <2>4
<1>4. BlocksFor(n) = q
  BY DEF BlocksFor
<1> HIDE DEF q
<1>5. (q + 1) * KVBlock = q * KVBlock + KVBlock /\ q * KVBlock \in Int
  BY <1>1, <1>3
<1> QED
  BY <1>1, <1>2, <1>3, <1>4, <1>5

\* What allocate_slots asks for covers the step's last position.
LEMMA NewBlocksAre ==
  ASSUME NEW r \in Reqs, NEW start \in Int, NEW n \in Int, req[r].blocks \in Nat,
         start + n <= MaxModelLen
  PROVE  /\ NewBlocks(r, start, n) \in Nat
         /\ start + n <= (req[r].blocks + NewBlocks(r, start, n)) * KVBlock
<1>1. KVBlock \in Nat \ {0} /\ MaxModelLen \in Nat /\ LookaheadSlots \in Nat
  BY AsyncSchedulerAssumption
<1> DEFINE b == BlocksFor(start + n + LookaheadSlots)
           x == req[r].blocks + NewBlocks(r, start, n)
<1>2. b \in Int /\ start + n <= b * KVBlock
  <2>1. b \in Int
    BY <1>1, BlocksForIs
  <2>2. CASE start + n + LookaheadSlots <= MaxModelLen
    <3>1. start + n + LookaheadSlots <= b * KVBlock
      BY <1>1, <2>2, BlocksForIs
    <3>2. b * KVBlock \in Int
      BY <1>1, <2>1
    <3> HIDE DEF b
    <3> QED
      BY <1>1, <2>1, <3>1, <3>2
  <2>3. CASE ~(start + n + LookaheadSlots <= MaxModelLen)
    <3>1. b = BlocksFor(MaxModelLen)
      BY <1>1, <2>3 DEF BlocksFor, Smaller
    <3>2. MaxModelLen <= b * KVBlock
      BY <1>1, <3>1, BlocksForIs
    <3>3. b * KVBlock \in Int
      BY <1>1, <2>1
    <3> HIDE DEF b
    <3> QED
      BY <1>1, <2>1, <3>2, <3>3
  <2> QED
    BY <2>1, <2>2, <2>3
<1>3. NewBlocks(r, start, n) \in Nat /\ x >= b /\ x \in Nat
  <2> HIDE DEF b
  <2>1. NewBlocks(r, start, n) = Larger(b - req[r].blocks, 0)
    BY DEF NewBlocks, b
  <2> QED
    BY <1>2, <2>1 DEF Larger
<1> HIDE DEF b, x
<1>4. b * KVBlock <= x * KVBlock
  BY <1>1, <1>2, <1>3
<1>5. b * KVBlock \in Int /\ x * KVBlock \in Int
  BY <1>1, <1>2, <1>3
<1>6. start + n <= x * KVBlock
  BY <1>2, <1>4, <1>5
<1> QED
  BY <1>3, <1>6 DEF x

-----------------------------------------------------------------------------
(* Types.  Whether the counters stay natural numbers is shown further down. *)

\* Functions from finitely many requests.
Maps(V) == UNION {[S -> V] : S \in {T \in SUBSET Reqs : IsFiniteSet(T)}}

\* A map over some requests has a finite domain and values of its type.
LEMMA MapIs ==
  ASSUME NEW V, NEW f \in Maps(V)
  PROVE  /\ DOMAIN f \in SUBSET Reqs /\ IsFiniteSet(DOMAIN f)
         /\ \A r \in DOMAIN f : r \in Reqs /\ f[r] \in V
BY DEF Maps

\* The empty map.
LEMMA EmptyMap ==
  ASSUME NEW V
  PROVE  <<>> \in Maps(V) /\ DOMAIN <<>> = {}
<1>1. <<>> \in [{} -> V] /\ DOMAIN <<>> = {}
  OBVIOUS
<1>2. {} \in SUBSET Reqs /\ IsFiniteSet({})
  BY FS_EmptySet
<1> QED
  BY <1>1, <1>2 DEF Maps

\* A map with one entry set.
LEMMA MapWith ==
  ASSUME NEW V, NEW f \in Maps(V), NEW r \in Reqs, NEW v \in V
  PROVE  /\ With(f, r, v) \in Maps(V)
         /\ DOMAIN With(f, r, v) = DOMAIN f \cup {r}
         /\ With(f, r, v)[r] = v
         /\ \A s \in DOMAIN f : s # r => With(f, r, v)[s] = f[s]
<1>1. PICK S \in SUBSET Reqs : IsFiniteSet(S) /\ f \in [S -> V]
  BY DEF Maps
<1>2. S \cup {r} \in SUBSET Reqs /\ IsFiniteSet(S \cup {r}) /\ DOMAIN f = S
  BY <1>1, FS_AddElement
<1>3. With(f, r, v) \in [S \cup {r} -> V]
  BY <1>1 DEF With
<1>4. /\ DOMAIN With(f, r, v) = DOMAIN f \cup {r}
      /\ With(f, r, v)[r] = v
      /\ \A s \in DOMAIN f : s # r => With(f, r, v)[s] = f[s]
  BY DEF With
<1> QED
  BY <1>2, <1>3, <1>4 DEF Maps

\* A map with one entry removed, as a victim's share of the step is.
LEMMA MapDropped ==
  ASSUME NEW V, NEW f \in Maps(V), NEW r
  PROVE  /\ Dropped(f, r) \in Maps(V)
         /\ DOMAIN Dropped(f, r) = DOMAIN f \ {r}
         /\ \A s \in DOMAIN f : s # r => Dropped(f, r)[s] = f[s]
<1>1. PICK S \in SUBSET Reqs : IsFiniteSet(S) /\ f \in [S -> V]
  BY DEF Maps
<1>2. S \ {r} \in SUBSET Reqs /\ IsFiniteSet(S \ {r}) /\ DOMAIN f = S
  BY <1>1, FS_Subset
<1>3. Dropped(f, r) \in [S \ {r} -> V]
  BY <1>1 DEF Dropped
<1>4. /\ DOMAIN Dropped(f, r) = DOMAIN f \ {r}
      /\ \A s \in DOMAIN f : s # r => Dropped(f, r)[s] = f[s]
  BY DEF Dropped
<1> QED
  BY <1>2, <1>3, <1>4 DEF Maps

Counts == Nat \ {0}
Rows == Maps(Counts)
Drafts == Maps(0..NumSpec)
RowStates == Maps([computed : Nat, prefill : Nat])

Statuses == {"new", "waiting", "running", "preempted", "finished"}
RequestType ==
  [status : Statuses, computed : Int, holders : Int, spec : 0..NumSpec,
   flight : Int, stale : Int, drop : BOOLEAN, chunk : BOOLEAN,
   cool : 0..PPSize, blocks : Nat]
LoopType ==
  [i : Counts, want : Nat, tokens : Int, input : Int, n : Rows, d : Drafts,
   fresh : RowStates, preempted : BOOLEAN, prefills : BOOLEAN, skipped : Seq(Reqs)]
StepType == [n : Rows, d : Drafts, fresh : RowStates]

\* Every row has its drafts, and a new request is a row.
RowsFit(s) == DOMAIN s.d = DOMAIN s.n /\ DOMAIN s.fresh \subseteq DOMAIN s.n

Types ==
  /\ req \in [Reqs -> RequestType]
  /\ out \in [Reqs -> Seq(Int)]
  /\ finished \in SUBSET Reqs
  /\ free \in Int
  /\ pause \in {"unpaused", "new", "all"}
  /\ pc \in {"engine", "running", "waiting", "update", "process"}
  /\ loop \in LoopType /\ RowsFit(loop)
  /\ steps \in Seq(StepType) /\ \A j \in DOMAIN steps : RowsFit(steps[j])
  /\ worker \in [Reqs -> [computed : Int, prefill : Nat]]
  /\ controls \in 0..MaxControls

\* What schedule()'s variables hold at each place.
Places ==
  /\ pc \in {"engine", "process"} => loop = NoLoop
  /\ pc = "running" => DOMAIN loop.fresh = {}
  /\ pc # "waiting" => loop.skipped = <<>>
  /\ pc = "process" => steps # <<>>

Apart(p, q) == Elements(p) \cap Elements(q) = {}

\* Every request is in the queue its status says, once.
Queues ==
  /\ IsQueue(running) /\ IsQueue(waiting) /\ IsQueue(skipped) /\ IsQueue(loop.skipped)
  /\ Apart(running, waiting) /\ Apart(running, skipped) /\ Apart(running, loop.skipped)
  /\ Apart(waiting, skipped) /\ Apart(waiting, loop.skipped) /\ Apart(skipped, loop.skipped)
  /\ \A r \in Reqs :
       /\ r \in Elements(running) <=> req[r].status = "running"
       /\ r \in Elements(waiting) \cup Elements(skipped) \cup Elements(loop.skipped)
            <=> req[r].status \in {"waiting", "preempted"}

\* n tokens for the running request r are within its need and the budgets.
WantFits(r, n) ==
  /\ n <= loop.tokens /\ n <= InputLeft /\ ~Throttled(r)
  /\ n <= Tokens(r) + req[r].spec + req[r].holders - req[r].computed
  /\ req[r].computed + n <= MaxModelLen

\* What is scheduled runs, and stands before the cursor; an amount is kept only
\* for the request at the cursor.
Cursor ==
  /\ DOMAIN loop.n \subseteq Elements(running)
  /\ pc = "running" => /\ loop.i <= Len(running) + 1
                       /\ DOMAIN loop.n \subseteq {running[k] : k \in 1..(loop.i - 1)}
  /\ loop.want > 0 => /\ pc = "running" /\ loop.i <= Len(running)
                      /\ WantFits(Current, loop.want)

Base == Types /\ Places /\ Queues /\ Cursor

\* schedule()'s local variables before it starts.
LEMMA NoLoopType ==
  /\ NoLoop \in LoopType /\ RowsFit(NoLoop)
  /\ NoLoop.skipped = <<>> /\ NoLoop.want = 0 /\ NoLoop.i = 1
  /\ NoLoop.n = <<>> /\ NoLoop.d = <<>> /\ NoLoop.fresh = <<>>
  /\ NoLoop.prefills = FALSE /\ NoLoop.preempted = FALSE
  /\ DOMAIN NoLoop.n = {} /\ DOMAIN NoLoop.fresh = {}
<1>1. /\ <<>> \in Rows /\ <<>> \in Drafts /\ <<>> \in RowStates
      /\ DOMAIN <<>> = {} /\ <<>> \in Seq(Reqs)
  BY EmptyMap DEF Rows, Drafts, RowStates
<1> QED
  BY <1>1 DEF NoLoop, LoopType, RowsFit, Counts

\* Initially nothing is queued, scheduled or in flight.
LEMMA BaseInit == Init => Base
<1> SUFFICES ASSUME Init PROVE Base
  OBVIOUS
<1>1. NewRequest \in RequestType /\ NewRequest.status = "new"
  BY AsyncSchedulerAssumption DEF NewRequest, RequestType, Statuses
<1>2. IsQueue(<<>>) /\ Elements(<<>>) = {}
  BY EmptyQueue
<1>3. Types
  BY <1>1, NoLoopType, AsyncSchedulerAssumption DEF Init, Types
<1>4. Places
  BY NoLoopType DEF Init, Places
<1>5. Queues
  BY <1>1, <1>2, NoLoopType DEF Init, Queues, Apart
<1>6. Cursor
  BY NoLoopType DEF Init, Cursor
<1> QED
  BY <1>3, <1>4, <1>5, <1>6 DEF Base

-----------------------------------------------------------------------------
(* The requests the loops look at.                                          *)

\* What the types say of one request: it always has a token to compute.
LEMMA RequestFacts ==
  ASSUME Base, NEW r \in Reqs
  PROVE  /\ req[r] \in RequestType /\ out[r] \in Seq(Int)
         /\ Len(out[r]) \in Nat /\ Tokens(r) \in Nat /\ Tokens(r) >= 1
         /\ Prompt[r] \in Nat /\ Prompt[r] >= 1 /\ Tokens(r) >= Prompt[r]
<1>1. out[r] \in Seq(Int) /\ req[r] \in RequestType
  BY DEF Base, Types
<1>2. Prompt[r] \in Nat \ {0} /\ Len(out[r]) \in Nat
  BY <1>1, AsyncSchedulerAssumption
<1> QED
  BY <1>1, <1>2 DEF Tokens

\* The cursor of the loop over the running requests points at one of them,
\* which has no share of the step yet.
LEMMA CurrentIs ==
  ASSUME Base, AtRunning
  PROVE  /\ loop.i \in DOMAIN running /\ loop.i \in 1..Len(running)
         /\ Current \in Reqs /\ Current \in Elements(running)
         /\ Current \notin DOMAIN loop.n
<1>1. running \in Seq(Reqs) /\ IsQueue(running)
  BY DEF Base, Queues, IsQueue
<1>2. loop.i \in Nat /\ loop.i >= 1 /\ loop.i <= Len(running)
  BY DEF Base, Types, LoopType, AtRunning, Counts
<1>3. loop.i \in DOMAIN running /\ loop.i \in 1..Len(running) /\ Current \in Reqs
  BY <1>1, <1>2 DEF Current
<1>4. Current \in Elements(running)
  BY <1>3 DEF Current, Elements
<1>5. Current \notin DOMAIN loop.n
  <2>1. DOMAIN loop.n \subseteq {running[k] : k \in 1..(loop.i - 1)}
    BY DEF Base, Cursor, AtRunning
  <2>2. \A k \in 1..(loop.i - 1) : k \in DOMAIN running /\ k # loop.i
    BY <1>1, <1>2
  <2>3. \A k \in 1..(loop.i - 1) : running[k] # running[loop.i]
    BY <1>1, <1>3, <2>2 DEF IsQueue
  <2> QED
    BY <2>1, <2>3 DEF Current
<1> QED
  BY <1>3, <1>4, <1>5

\* What a running request gets is within its need and the budgets.
LEMMA WantedByRunningIs ==
  ASSUME Base, NEW r \in Reqs
  PROVE  LET n == WantedByRunning(r)
         IN  /\ n \in Nat
             /\ n > 0 => /\ n <= Tokens(r) + req[r].spec + req[r].holders - req[r].computed
                         /\ n <= ChunkLimit /\ n <= loop.tokens /\ n <= InputLeft
                         /\ req[r].computed + n < MaxModelLen
<1> DEFINE ask == Tokens(r) + req[r].spec + req[r].holders - req[r].computed
           m == Smaller(Smaller(ask, ChunkLimit), Smaller(loop.tokens, InputLeft))
           z == Smaller(m, MaxModelLen - req[r].computed - 1)
           n == WantedByRunning(r)
<1>1. /\ Tokens(r) \in Nat /\ req[r].spec \in Int /\ req[r].holders \in Int
      /\ req[r].computed \in Int
  BY RequestFacts DEF RequestType
<1>2. loop.tokens \in Int /\ InputLeft \in Int /\ ChunkLimit \in Int /\ MaxModelLen \in Int
  BY AsyncSchedulerAssumption, ChunkSplitAssumption
     DEF Base, Types, LoopType, InputLeft
<1>3. /\ z \in Int /\ z <= ask /\ z <= ChunkLimit /\ z <= loop.tokens /\ z <= InputLeft
      /\ z <= MaxModelLen - req[r].computed - 1
  BY <1>1, <1>2 DEF Smaller
<1>4. n = Cut(req[r].computed, z, r)
  BY DEF WantedByRunning
<1> HIDE DEF z, n
<1>5. n \in Nat /\ (z >= 0 => n <= z) /\ (z < 0 => n = 0)
  BY <1>1, <1>3, <1>4, CutNoMore
<1> HIDE DEF ask
<1>6. ask \in Int
  BY <1>1 DEF ask
<1>7. n > 0 => n <= z
  BY <1>3, <1>5
<1>8. n > 0 => /\ n <= ask /\ n <= ChunkLimit /\ n <= loop.tokens /\ n <= InputLeft
               /\ req[r].computed + n < MaxModelLen
  BY <1>1, <1>2, <1>3, <1>5, <1>6, <1>7
<1> QED
  BY <1>5, <1>8 DEF n, ask

\* What the current request gets respects its need and what is left of the
\* budgets, also when it was kept during preemptions.
LEMMA WantedNowIs ==
  ASSUME Base, AtRunning
  PROVE  WantedNow \in Nat /\ (WantedNow > 0 => WantFits(Current, WantedNow))
<1> DEFINE r == Current
           n == WantedNow
<1>1. loop.want \in Nat /\ r \in Reqs
  BY CurrentIs DEF Base, Types, LoopType
<1>2. CASE loop.want > 0
  <2>1. n = loop.want /\ WantFits(r, loop.want)
    BY <1>2 DEF WantedNow, Base, Cursor
  <2> QED
    BY <1>1, <2>1
<1>3. CASE ~(loop.want > 0) /\ (LastStepScheduled(r) \/ Throttled(r))
  BY <1>3 DEF WantedNow
<1>4. CASE ~(loop.want > 0) /\ ~(LastStepScheduled(r) \/ Throttled(r))
  <2>1. n = WantedByRunning(r)
    BY <1>4 DEF WantedNow
  <2>2. /\ n \in Nat
        /\ n > 0 => /\ n <= Tokens(r) + req[r].spec + req[r].holders - req[r].computed
                    /\ n <= loop.tokens /\ n <= InputLeft
                    /\ req[r].computed + n < MaxModelLen
    <3> HIDE DEF r, n
    <3> QED
      BY <1>1, <2>1, WantedByRunningIs
  <2>3. req[r].computed \in Int /\ MaxModelLen \in Int
    <3> HIDE DEF r
    <3> QED
      BY <1>1, RequestFacts, AsyncSchedulerAssumption DEF RequestType
  <2> HIDE DEF r, n
  <2>4. req[r].computed + n < MaxModelLen => req[r].computed + n <= MaxModelLen
    BY <2>2, <2>3
  <2> QED
    BY <1>4, <2>2, <2>4 DEF WantFits, r, n
<1> QED
  BY <1>2, <1>3, <1>4

\* One of a queue's requests comes last in the order.
LEMMA LastInOrder ==
  ASSUME NEW q, IsQueue(q), q # <<>>
  PROVE  \E j \in DOMAIN q : \A k \in DOMAIN q : Rank[q[k]] <= Rank[q[j]]
<1> DEFINE T == {s \in SUBSET Elements(q) :
                   s # {} => \E x \in s : \A y \in s : Rank[y] <= Rank[x]}
<1>1. /\ q \in Seq(Reqs) /\ IsFiniteSet(Elements(q)) /\ Elements(q) \in SUBSET Reqs
  BY ElementsFinite DEF IsQueue
<1>2. \A x \in Elements(q) : Rank[x] \in Nat
  BY <1>1, AsyncSchedulerAssumption
<1>3. {} \in T
  OBVIOUS
<1>4. ASSUME NEW s \in SUBSET Elements(q), s # {}, \A x \in s : s \ {x} \in T
      PROVE  s \in T
  <2>1. PICK x \in s : s \ {x} \in T
    BY <1>4
  <2>2. CASE s \ {x} = {}
    <3>1. \A y \in s : y = x
      BY <2>2
    <3>2. Rank[x] <= Rank[x]
      BY <1>2
    <3> QED
      BY <3>1, <3>2
  <2>3. CASE s \ {x} # {}
    <3>1. PICK z \in s \ {x} : \A y \in s \ {x} : Rank[y] <= Rank[z]
      BY <2>1, <2>3
    <3>2. CASE Rank[x] <= Rank[z]
      BY <3>1, <3>2
    <3>3. CASE ~(Rank[x] <= Rank[z])
      <4>1. \A y \in s : Rank[y] <= Rank[x]
        BY <1>2, <3>1, <3>3
      <4> QED
        BY <4>1
    <3> QED
      BY <3>2, <3>3
  <2> QED
    BY <2>2, <2>3
<1>5. Elements(q) \in T
  <2> HIDE DEF T
  <2> QED
    BY <1>1, <1>3, <1>4, OverFiniteSets
<1>6. Elements(q) # {}
  <2>1. 1 \in DOMAIN q
    BY <1>1
  <2> QED
    BY <2>1 DEF Elements
<1>7. PICK x \in Elements(q) : \A y \in Elements(q) : Rank[y] <= Rank[x]
  BY <1>5, <1>6
<1> QED
  BY <1>7 DEF Elements

\* Preemption of the request at place v of the running list.
PreemptAt(v) ==
  LET r      == Current
      victim == running[v]
      back   == GivenBack(victim)
  IN
  /\ AtRunning /\ WantedNow > 0 /\ ~Fits(r, req[r].computed, WantedNow)
  /\ running' = Without(running, {victim})
  /\ waiting' = Prepended(waiting, victim)
  /\ req' = [req EXCEPT ![victim] = Preempted(@, KVDelivery)]
  /\ free' = free + req[victim].blocks
  /\ loop' = [loop EXCEPT !.preempted = TRUE,
                !.i = CursorAfter(v),
                !.want = IF victim = r THEN 0 ELSE WantedNow,
                !.tokens = @ + back,
                !.input = @ + (IF back > 0 THEN back + DraftSlots ELSE 0),
                !.n = Dropped(@, victim), !.d = Dropped(@, victim)]
  /\ pc' = IF victim = r THEN "update" ELSE pc
  /\ UNCHANGED <<out, skipped, finished, pause, steps, worker, controls>>

\* A preemption takes some running request, the last one under fcfs.
LEMMA PreemptIs ==
  ASSUME Base, PreemptForRoom
  PROVE  \E v \in DOMAIN running : /\ PreemptAt(v)
                                   /\ Policy = "fcfs" => v = Len(running)
<1> DEFINE v == IF Policy = "fcfs" THEN Len(running)
                ELSE CHOOSE j \in DOMAIN running :
                       \A k \in DOMAIN running : Rank[running[k]] <= Rank[running[j]]
<1>1. PreemptAt(v)
  BY Zenon DEF PreemptForRoom, PreemptAt
<1>2. IsQueue(running) /\ loop.i \in 1..Len(running) /\ running \in Seq(Reqs)
  <2>1. AtRunning
    BY DEF PreemptForRoom
  <2> QED
    BY <2>1, CurrentIs DEF Base, Queues, IsQueue
<1>3. running # <<>>
  BY <1>2
<1>4. v \in DOMAIN running
  <2>1. CASE Policy = "fcfs"
    <3>1. Len(running) \in DOMAIN running
      BY <1>2
    <3> QED
      BY <2>1, <3>1
  <2>2. CASE Policy # "fcfs"
    <3>1. \E j \in DOMAIN running :
            \A k \in DOMAIN running : Rank[running[k]] <= Rank[running[j]]
      BY <1>2, <1>3, LastInOrder
    <3> QED
      BY <2>2, <3>1
  <2> QED
    BY <2>1, <2>2
<1>5. Policy = "fcfs" => v = Len(running)
  OBVIOUS
<1> HIDE DEF v
<1> QED
  BY <1>1, <1>4, <1>5

\* The candidate of the loop over the waiting requests waits in one of the
\* queues.
LEMMA CandidateIs ==
  ASSUME Base, AtWaiting
  PROVE  /\ FromSkipped => skipped # <<>> /\ Candidate = skipped[1]
         /\ ~FromSkipped => waiting # <<>> /\ Candidate = waiting[1]
         /\ Candidate \in Reqs /\ req[Candidate].status \in {"waiting", "preempted"}
         /\ Candidate \in Elements(waiting) \cup Elements(skipped)
         /\ Candidate \notin Elements(running)
<1>0. IsQueue(waiting) /\ IsQueue(skipped) /\ waiting \in Seq(Reqs) /\ skipped \in Seq(Reqs)
  BY DEF Base, Queues, IsQueue
<1>1. FromSkipped => skipped # <<>> /\ Candidate = skipped[1]
  BY DEF FromSkipped, Candidate
<1>2. ~FromSkipped => waiting # <<>> /\ Candidate = waiting[1]
  <2>1. waiting \o skipped # <<>>
    BY DEF AtWaiting
  <2>2. waiting = <<>> => waiting \o skipped = skipped
    BY <1>0
  <2> QED
    BY <2>1, <2>2 DEF FromSkipped, Candidate
<1>3. Candidate \in Elements(waiting) \cup Elements(skipped) /\ Candidate \in Reqs
  BY <1>0, <1>1, <1>2, TailQueue
<1> QED
  BY <1>1, <1>2, <1>3 DEF Base, Queues

\* Popping the candidate takes it, and only it, out of the waiting queues.
LEMMA PopIs ==
  ASSUME Base, AtWaiting, PopCandidate
  PROVE  /\ IsQueue(waiting') /\ IsQueue(skipped')
         /\ Elements(waiting') \in SUBSET Elements(waiting)
         /\ Elements(skipped') \in SUBSET Elements(skipped)
         /\ Elements(waiting') \cup Elements(skipped') =
              (Elements(waiting) \cup Elements(skipped)) \ {Candidate}
<1>0. IsQueue(waiting) /\ IsQueue(skipped) /\ Apart(waiting, skipped)
  BY DEF Base, Queues
<1>1. CASE FromSkipped
  <2>1. skipped' = Tail(skipped) /\ waiting' = waiting
    BY <1>1 DEF PopCandidate
  <2>2. skipped # <<>> /\ Candidate = skipped[1]
    BY <1>1, CandidateIs
  <2>3. /\ IsQueue(skipped') /\ Elements(skipped') = Elements(skipped) \ {Candidate}
        /\ Candidate \in Elements(skipped)
    BY <1>0, <2>1, <2>2, TailQueue
  <2>4. Candidate \notin Elements(waiting)
    BY <1>0, <2>3 DEF Apart
  <2> QED
    BY <1>0, <2>1, <2>3, <2>4
<1>2. CASE ~FromSkipped
  <2>1. waiting' = Tail(waiting) /\ skipped' = skipped
    BY <1>2 DEF PopCandidate
  <2>2. waiting # <<>> /\ Candidate = waiting[1]
    BY <1>2, CandidateIs
  <2>3. /\ IsQueue(waiting') /\ Elements(waiting') = Elements(waiting) \ {Candidate}
        /\ Candidate \in Elements(waiting)
    BY <1>0, <2>1, <2>2, TailQueue
  <2>4. Candidate \notin Elements(skipped)
    BY <1>0, <2>3 DEF Apart
  <2> QED
    BY <1>0, <2>1, <2>3, <2>4
<1> QED
  BY <1>1, <1>2

\* What a waiting request is offered is within its need and the budgets.
LEMMA OfferIs ==
  ASSUME Base, NEW r \in Reqs, NEW hit \in Nat, hit < Tokens(r)
  PROVE  LET n == OfferToWaiting(r, hit).n
             d == OfferToWaiting(r, hit).d
         IN  /\ n \in Nat /\ d \in 0..NumSpec
             /\ n > 0 => /\ n <= loop.tokens /\ n <= InputLeft
                         /\ \/ d = 0 /\ hit + n <= Tokens(r)
                            \/ /\ d = NumSpec /\ hit + 1 = Tokens(r)
                               /\ hit + n <= MaxModelLen
                               /\ n = IF AlignedSplit THEN 1 + NumSpec
                                      ELSE Smaller(1 + NumSpec, ChunkLimit)
                               /\ PadNewReqs
<1> DEFINE padded == PadsNew(r, hit)
           ask    == IF padded THEN 1 + NumSpec ELSE Tokens(r) - hit
           room   == Smaller(loop.tokens, InputLeft)
           z      == Smaller(Smaller(ask, ChunkLimit), room)
           split  == IF AlignedSplit THEN Split(hit, z, Prompt[r], Tokens(r), 0) ELSE z
           clipped == padded /\ Clipped(split)
           one    == IF clipped /\ split > 0 THEN 1 ELSE split
           m      == Reserve(hit, one, Tokens(r))
           n == OfferToWaiting(r, hit).n
           d == OfferToWaiting(r, hit).d
<1>1. /\ Tokens(r) \in Nat /\ Prompt[r] \in Nat /\ NumSpec \in Nat /\ Lookahead \in Nat
      /\ loop.tokens \in Int /\ InputLeft \in Int /\ ChunkLimit \in Nat \ {0}
      /\ MaxModelLen \in Nat
  BY RequestFacts, AsyncSchedulerAssumption, ChunkSplitAssumption
     DEF Base, Types, LoopType, InputLeft
<1>2. padded => Tokens(r) = hit + 1 /\ PadNewReqs /\ NumSpec > 0
  BY <1>1 DEF PadsNew
<1>3. IF padded /\ (ask > room \/ hit + ask > MaxModelLen)
      THEN n = 0 /\ d = 0
      ELSE n = m /\ d = IF padded /\ ~clipped THEN NumSpec ELSE 0
  BY DEF OfferToWaiting
<1>4. clipped => padded
  OBVIOUS
<1>5. ~clipped /\ padded /\ AlignedSplit => split = 1 + NumSpec
  BY DEF Clipped
<1> HIDE DEF padded, clipped, n, d
<1>6. room \in Int /\ ask \in Nat /\ ask >= 1 /\ room <= loop.tokens /\ room <= InputLeft
  BY <1>1, <1>2 DEF Smaller
<1>7. z \in Int /\ z <= ask /\ z <= ChunkLimit /\ z <= room
  <2> HIDE DEF room, ask
  <2> QED
    BY <1>1, <1>6 DEF Smaller
<1>8. split \in Int /\ (z >= 0 => split \in 0..z) /\ (z < 0 => split <= 0)
  <2> DEFINE s == Split(hit, z, Prompt[r], Tokens(r), 0)
  <2> HIDE DEF z
  <2>0. z \in Int /\ hit \in Int
    BY <1>7
  <2>1. s \in Int /\ (z >= 0 => s \in 0..z) /\ (z < 0 => s <= 0)
    <3> HIDE DEF room, ask
    <3> QED
      BY <1>1, <2>0, SplitNoMore
  <2>2. split = IF AlignedSplit THEN s ELSE z
    OBVIOUS
  <2> HIDE DEF s, split
  <2> QED
    BY <1>7, <2>1, <2>2
<1>9. CASE padded
  <2>1. ask = 1 + NumSpec /\ Tokens(r) = hit + 1 /\ PadNewReqs /\ NumSpec > 0
    BY <1>2, <1>9
  <2>2. CASE ask > room \/ hit + ask > MaxModelLen
    <3>1. n = 0 /\ d = 0
      BY <1>3, <1>9, <2>2
    <3> QED
      BY <1>1, <3>1 DEF n, d
  <2>3. CASE ~(ask > room \/ hit + ask > MaxModelLen)
    <3>1. n = m /\ d = IF ~clipped THEN NumSpec ELSE 0
      BY <1>3, <1>9, <2>3
    <3>2. z = Smaller(1 + NumSpec, ChunkLimit) /\ z >= 1 /\ hit + ask <= MaxModelLen
      <4> HIDE DEF room
      <4> QED
        BY <1>1, <1>6, <2>1, <2>3 DEF Smaller
    <3>3. m = IF one > 0 THEN one ELSE 0
      <4> HIDE DEF one
      <4>1. one \in Int
        BY <1>8 DEF one
      <4> QED
        BY <1>1, <2>1, <4>1 DEF Reserve, Larger
    <3> HIDE DEF z, room, ask, m
    <3>4. CASE clipped
      <4>1. d = 0 /\ m \in {0, 1}
        BY <1>8, <3>1, <3>3, <3>4
      <4>2. n \in {0, 1}
        BY <3>1, <4>1
      <4>3. 1 <= loop.tokens /\ 1 <= InputLeft
        BY <1>1, <1>6, <1>7, <3>2
      <4> HIDE DEF split
      <4> QED
        BY <1>1, <2>1, <4>1, <4>2, <4>3 DEF n, d
    <3>5. CASE ~clipped
      <4>1. d = NumSpec /\ m = split
        <5>1. one = split
          BY <3>5
        <5>2. split >= 0
          <6> HIDE DEF split
          <6> QED
            BY <1>7, <1>8, <3>2
        <5> HIDE DEF split, one
        <5> QED
          BY <1>8, <3>1, <3>3, <3>5, <5>1, <5>2
      <4>2. split = IF AlignedSplit THEN 1 + NumSpec ELSE Smaller(1 + NumSpec, ChunkLimit)
        BY <1>5, <1>9, <3>2, <3>5
      <4> HIDE DEF split
      <4>3. split \in 0..z
        BY <1>7, <1>8, <3>2
      <4>4. split <= ask /\ split <= loop.tokens /\ split <= InputLeft /\ split \in Nat
        BY <1>1, <1>6, <1>7, <4>3
      <4>5. hit + split <= MaxModelLen
        BY <1>1, <1>6, <3>2, <4>4
      <4>6. n = split
        BY <3>1, <4>1
      <4> QED
        BY <1>1, <2>1, <4>1, <4>2, <4>4, <4>5, <4>6 DEF n, d
    <3> QED
      BY <3>4, <3>5
  <2> QED
    BY <2>2, <2>3
<1>10. CASE ~padded
  <2>1. ask = Tokens(r) - hit /\ n = m /\ d = 0 /\ one = split
    BY <1>3, <1>4, <1>10
  <2> HIDE DEF z, split, room, ask
  <2>2. m = Reserve(hit, split, Tokens(r))
    BY <2>1
  <2>3. m \in Nat /\ (split >= 0 => m <= split) /\ (split < 0 => m = 0)
    <3> HIDE DEF m
    <3> QED
      BY <1>1, <1>8, <2>2 DEF Reserve, Larger
  <2> HIDE DEF m
  <2>4. m > 0 => m <= ask /\ m <= loop.tokens /\ m <= InputLeft
    BY <1>1, <1>6, <1>7, <1>8, <2>3
  <2> QED
    BY <1>1, <2>1, <2>3, <2>4 DEF n, d
<1> QED
  BY <1>9, <1>10

-----------------------------------------------------------------------------
(* The output of a step.                                                    *)

OldestRows == DOMAIN steps[1].n
Outcome(accepted, given, eos) ==
  /\ ProcessesOldest /\ steps # <<>>
  /\ accepted \in [OldestRows -> 0..NumSpec]
  /\ given \in [OldestRows -> 0..(1 + NumSpec)]
  /\ eos \in SUBSET OldestRows
  /\ MayOutput(accepted, given, eos)
  /\ UpdateFromOutput(accepted, given, eos)

Rejects(accepted, r) == IF Samples(r) THEN steps[1].d[r] - accepted[r] ELSE 0
FirstGiven(r) == RowState(r).computed + steps[1].n[r] - steps[1].d[r]
Given(given, r) == [i \in 1..given[r] |-> FirstGiven(r) + i - 1]
EndsWith(given, eos, r) ==
  r \in OldestRows /\ given[r] > 0 /\ (r \in eos \/ given[r] = Room(r))
Stopped(given, eos) == {r \in Reqs : EndsWith(given, eos, r)}
AfterOutput(accepted, given, r) ==
  LET rej  == IF CountsOutput(r) THEN Rejects(accepted, r) ELSE 0
      kept == IF CountsOutput(r) THEN given[r] ELSE 0
  IN  [req[r] EXCEPT !.flight = @ - steps[1].n[r],
         !.stale = IF @ > 0 THEN @ - steps[1].n[r] ELSE 0,
         !.computed = IF @ > 0 THEN @ - rej ELSE @,
         !.holders = (IF @ > 0 THEN @ - rej ELSE @) - kept]

\* Processing the oldest step has some outcome.
LEMMA OutcomeExists ==
  ASSUME Base, ProcessOldest
  PROVE  \E accepted, given, eos : Outcome(accepted, given, eos)
<1>1. steps # <<>>
  BY DEF ProcessOldest, ProcessesOldest, Base, Places
<1> QED
  BY <1>1, Zenon DEF ProcessOldest, Outcome, OldestRows

\* What an outcome assigns.
LEMMA OutcomeIs ==
  ASSUME NEW accepted, NEW given, NEW eos, Outcome(accepted, given, eos)
  PROVE  /\ req' = [r \in Reqs |->
               IF r \notin OldestRows \/ req[r].status = "finished" THEN req[r]
               ELSE IF EndsWith(given, eos, r) THEN Closed
               ELSE AfterOutput(accepted, given, r)]
         /\ out' = [r \in Reqs |-> IF r \notin OldestRows THEN out[r]
                      ELSE out[r] \o Given(given, r)]
         /\ worker' = [r \in Reqs |->
              IF r \notin OldestRows THEN worker[r]
              ELSE [RowState(r) EXCEPT !.computed = @ + steps[1].n[r] - Rejects(accepted, r)]]
         /\ running' = Without(running, Stopped(given, eos))
         /\ waiting' = Without(waiting, Stopped(given, eos))
         /\ skipped' = Without(skipped, Stopped(given, eos))
         /\ finished' = finished \cup Stopped(given, eos)
         /\ free' = free + BlocksOf(Stopped(given, eos))
         /\ steps' = Tail(steps)
         /\ pc' = "engine"
         /\ UNCHANGED <<pause, loop, controls>>
BY Zenon DEF Outcome, UpdateFromOutput, OldestRows, Rejects, FirstGiven, Given, EndsWith,
             Stopped, AfterOutput

\* The oldest step in flight, its rows and the states they start from.
LEMMA OldestIs ==
  ASSUME Base, steps # <<>>
  PROVE  /\ Len(steps) \in Nat /\ Len(steps) >= 1 /\ 1 \in DOMAIN steps
         /\ DOMAIN steps = 1..Len(steps)
         /\ steps[1] \in StepType /\ RowsFit(steps[1])
         /\ OldestRows \in SUBSET Reqs /\ IsFiniteSet(OldestRows)
         /\ \A r \in OldestRows : /\ r \in Reqs /\ steps[1].n[r] \in Counts
                                  /\ steps[1].d[r] \in 0..NumSpec
         /\ \A r \in Reqs : RowState(r) \in [computed : Int, prefill : Nat]
<1>1. steps \in Seq(StepType) /\ Len(steps) \in Nat /\ Len(steps) >= 1 /\ 1 \in DOMAIN steps
      /\ DOMAIN steps = 1..Len(steps)
  BY DEF Base, Types
<1>2. steps[1] \in StepType /\ RowsFit(steps[1])
  <2>1. steps[1] \in StepType
    BY <1>1
  <2>2. \A j \in DOMAIN steps : RowsFit(steps[j])
    BY DEF Base, Types
  <2> QED
    BY <1>1, <2>1, <2>2
<1>3. steps[1].n \in Rows /\ steps[1].d \in Drafts /\ steps[1].fresh \in RowStates
  BY <1>2 DEF StepType
<1>4. /\ OldestRows \in SUBSET Reqs /\ IsFiniteSet(OldestRows)
      /\ \A r \in OldestRows : r \in Reqs /\ steps[1].n[r] \in Counts
  BY <1>3, MapIs DEF Rows, OldestRows
<1>5. \A r \in OldestRows : steps[1].d[r] \in 0..NumSpec
  BY <1>2, <1>3, MapIs DEF Drafts, OldestRows, RowsFit
<1>6. \A r \in DOMAIN steps[1].fresh : steps[1].fresh[r] \in [computed : Nat, prefill : Nat]
  BY <1>3, MapIs DEF RowStates
<1>7. ASSUME NEW r \in Reqs PROVE RowState(r) \in [computed : Int, prefill : Nat]
  <2>1. worker[r] \in [computed : Int, prefill : Nat]
    BY DEF Base, Types
  <2>2. r \in DOMAIN steps[1].fresh =>
          steps[1].fresh[r] \in [computed : Int, prefill : Nat]
    <3> HAVE r \in DOMAIN steps[1].fresh
    <3> DEFINE w == steps[1].fresh[r]
    <3>1. w \in [computed : Nat, prefill : Nat]
      BY <1>6
    <3> HIDE DEF w
    <3>2. w \in [computed : Int, prefill : Nat]
      BY <3>1
    <3> QED
      BY <3>2 DEF w
  <2> QED
    BY <2>1, <2>2 DEF RowState
<1> QED
  BY <1>1, <1>2, <1>4, <1>5, <1>7

\* A row rejects none of the tokens it keeps, and delivers at most the room left.
LEMMA GivenIs ==
  ASSUME Base, NEW accepted, NEW given, NEW eos, Outcome(accepted, given, eos),
         NEW r \in OldestRows
  PROVE  /\ given[r] \in 0..(1 + NumSpec) /\ accepted[r] \in 0..NumSpec
         /\ Rejects(accepted, r) \in 0..steps[1].d[r]
         /\ given[r] > 0 => /\ Delivers(r) /\ given[r] <= 1 + accepted[r]
                            /\ given[r] <= Room(r)
                            /\ accepted[r] = steps[1].d[r] - Rejects(accepted, r)
         /\ Delivers(r) /\ r \notin eos => given[r] = Smaller(1 + accepted[r], Room(r))
         /\ r \in eos => Delivers(r) /\ given[r] >= 1
         /\ Room(r) \in Int
<1>1. given[r] \in 0..(1 + NumSpec) /\ accepted[r] \in 0..NumSpec /\ NumSpec \in Nat
  BY AsyncSchedulerAssumption DEF Outcome
<1>2. steps[1].d[r] \in 0..NumSpec /\ r \in Reqs
  BY OldestIs DEF Outcome
<1>3. /\ accepted[r] <= (IF Samples(r) THEN steps[1].d[r] ELSE 0)
      /\ IF ~Delivers(r) THEN given[r] = 0 /\ r \notin eos
         ELSE LET most == Smaller(1 + accepted[r], Room(r))
              IN  IF r \in eos THEN EarlyStop /\ given[r] \in 1..most
                               ELSE given[r] = most
  BY DEF Outcome, MayOutput, OldestRows
<1>4. Rejects(accepted, r) \in 0..steps[1].d[r]
  BY <1>1, <1>2, <1>3 DEF Rejects
<1>5. Room(r) \in Int
  BY <1>2, RequestFacts, AsyncSchedulerAssumption DEF Room, Smaller
<1>6. ASSUME given[r] > 0
      PROVE  /\ Delivers(r) /\ given[r] <= 1 + accepted[r]
             /\ given[r] <= Room(r)
             /\ accepted[r] = steps[1].d[r] - Rejects(accepted, r)
  <2>1. Delivers(r)
    BY <1>1, <1>3, <1>6
  <2>2. Samples(r)
    BY <2>1 DEF Delivers
  <2>3. given[r] <= Smaller(1 + accepted[r], Room(r))
    BY <1>1, <1>3, <1>5, <2>1 DEF Smaller
  <2>4. given[r] <= 1 + accepted[r] /\ given[r] <= Room(r)
    BY <1>1, <1>5, <2>3 DEF Smaller
  <2>5. accepted[r] = steps[1].d[r] - Rejects(accepted, r)
    BY <1>1, <1>2, <2>2 DEF Rejects
  <2> QED
    BY <2>1, <2>4, <2>5
<1>7. /\ Delivers(r) /\ r \notin eos => given[r] = Smaller(1 + accepted[r], Room(r))
      /\ r \in eos => Delivers(r) /\ given[r] >= 1
  BY <1>1, <1>3
<1> QED
  BY <1>1, <1>4, <1>5, <1>6, <1>7

-----------------------------------------------------------------------------
(* The types are kept.                                                      *)

\* A preempted request.
LEMMA PreemptedType ==
  ASSUME NEW q \in RequestType, NEW drop \in BOOLEAN
  PROVE  /\ Preempted(q, drop) \in RequestType
         /\ Preempted(q, drop).status = "preempted" /\ Preempted(q, drop).blocks = 0
         /\ Preempted(q, drop).computed = 0 /\ Preempted(q, drop).holders = 0
         /\ Preempted(q, drop).spec = 0 /\ Preempted(q, drop).flight = q.flight
         /\ Preempted(q, drop).stale = q.flight
         /\ Preempted(q, drop).drop = KeepsDropping(q, drop)
         /\ Preempted(q, drop).chunk = q.chunk /\ Preempted(q, drop).cool = q.cool
<1> DEFINE p == Preempted(q, drop)
           s == StaleShare(q)
           k == KeepsDropping(q, drop)
<1>1. p = [q EXCEPT !.status = "preempted", !.computed = 0, !.spec = 0, !.holders = 0,
            !.drop = k, !.stale = s, !.blocks = 0]
  BY DEF Preempted
<1>2. s = q.flight /\ s \in Int
  BY DEF StaleShare, RequestType
<1>3. k \in BOOLEAN
  BY DEF KeepsDropping, RequestType
<1>4. "preempted" \in Statuses /\ 0 \in 0..NumSpec /\ 0 \in Int /\ 0 \in Nat
  BY AsyncSchedulerAssumption DEF Statuses
<1> HIDE DEF p, k, s
<1>5. /\ p.status = "preempted" /\ p.blocks = 0 /\ p.computed = 0 /\ p.holders = 0 /\ p.spec = 0
      /\ p.flight = q.flight /\ p.stale = s /\ p.chunk = q.chunk /\ p.cool = q.cool
  BY <1>1 DEF RequestType
<1>6. p.drop = k
  BY <1>1, Zenon DEF RequestType
<1>7. p \in RequestType
  BY <1>1, <1>2, <1>3, <1>4, Zenon DEF RequestType
<1> QED
  BY <1>2, <1>5, <1>6, <1>7 DEF p, k

\* A closed request holds no blocks and has computed nothing.
LEMMA ClosedType ==
  /\ Closed \in RequestType /\ Closed.status = "finished" /\ Closed.blocks = 0
  /\ Closed.computed = 0
<1>1. 0 \in 0..NumSpec /\ 0 \in 0..PPSize
  BY AsyncSchedulerAssumption
<1>2. /\ NewRequest \in RequestType /\ NewRequest.blocks = 0 /\ NewRequest.computed = 0
  BY <1>1 DEF NewRequest, RequestType, Statuses
<1>3. /\ Closed.status = "finished" /\ Closed.blocks = NewRequest.blocks
      /\ Closed.computed = NewRequest.computed
  BY <1>2 DEF Closed, RequestType
<1>4. Closed \in RequestType
  BY <1>2, Zenon DEF Closed, RequestType, Statuses
<1> QED
  BY <1>2, <1>3, <1>4

\* The fields of a request after its output was processed.
LEMMA AfterOutputType ==
  ASSUME Base, NEW accepted, NEW given, NEW eos, Outcome(accepted, given, eos),
         NEW r \in OldestRows
  PROVE  LET q == AfterOutput(accepted, given, r)
             rej  == IF CountsOutput(r) THEN Rejects(accepted, r) ELSE 0
             kept == IF CountsOutput(r) THEN given[r] ELSE 0
         IN  /\ q \in RequestType
             /\ q.status = req[r].status /\ q.spec = req[r].spec /\ q.drop = req[r].drop
             /\ q.chunk = req[r].chunk /\ q.cool = req[r].cool /\ q.blocks = req[r].blocks
             /\ q.flight = req[r].flight - steps[1].n[r]
             /\ q.stale = IF req[r].stale > 0 THEN req[r].stale - steps[1].n[r] ELSE 0
             /\ q.computed = IF req[r].computed > 0 THEN req[r].computed - rej
                             ELSE req[r].computed
             /\ q.holders = (IF req[r].holders > 0 THEN req[r].holders - rej
                             ELSE req[r].holders) - kept
<1> DEFINE rej  == IF CountsOutput(r) THEN Rejects(accepted, r) ELSE 0
           kept == IF CountsOutput(r) THEN given[r] ELSE 0
<1>1. r \in Reqs /\ steps[1].n[r] \in Nat
  BY OldestIs DEF Outcome, Counts
<1>2. req[r] \in RequestType
  BY <1>1, RequestFacts
<1>3. rej \in Int /\ kept \in Int
  <2>1. given[r] \in Int /\ Rejects(accepted, r) \in Int
    <3>1. steps # <<>> /\ NumSpec \in Nat
      BY AsyncSchedulerAssumption DEF Outcome
    <3>2. steps[1].d[r] \in 0..NumSpec
      BY <3>1, OldestIs
    <3>3. given[r] \in 0..(1 + NumSpec) /\ Rejects(accepted, r) \in 0..steps[1].d[r]
      BY GivenIs
    <3> QED
      BY <3>1, <3>2, <3>3
  <2> QED
    BY <2>1
<1>4. AfterOutput(accepted, given, r) =
        [req[r] EXCEPT !.flight = @ - steps[1].n[r],
         !.stale = IF @ > 0 THEN @ - steps[1].n[r] ELSE 0,
         !.computed = IF @ > 0 THEN @ - rej ELSE @,
         !.holders = (IF @ > 0 THEN @ - rej ELSE @) - kept]
  BY DEF AfterOutput
<1> HIDE DEF rej, kept
<1> DEFINE p == req[r]
<1>5. p \in RequestType
  BY <1>2
<1> DEFINE k == steps[1].n[r]
<1>6. k \in Int
  BY <1>1
<1>7. AfterOutput(accepted, given, r) =
        [p EXCEPT !.flight = @ - k,
         !.stale = IF @ > 0 THEN @ - k ELSE 0,
         !.computed = IF @ > 0 THEN @ - rej ELSE @,
         !.holders = (IF @ > 0 THEN @ - rej ELSE @) - kept]
  BY <1>4
<1> HIDE DEF p, k
<1> DEFINE q == AfterOutput(accepted, given, r)
<1>8. /\ q.status = p.status /\ q.spec = p.spec /\ q.drop = p.drop
      /\ q.chunk = p.chunk /\ q.cool = p.cool /\ q.blocks = p.blocks
      /\ q.flight = p.flight - k
      /\ q.stale = IF p.stale > 0 THEN p.stale - k ELSE 0
      /\ q.computed = IF p.computed > 0 THEN p.computed - rej ELSE p.computed
      /\ q.holders = (IF p.holders > 0 THEN p.holders - rej ELSE p.holders) - kept
  BY <1>3, <1>5, <1>6, <1>7 DEF RequestType
<1>9. q \in RequestType
  <2> DEFINE flight   == p.flight - k
             stale    == IF p.stale > 0 THEN p.stale - k ELSE 0
             computed == IF p.computed > 0 THEN p.computed - rej ELSE p.computed
             holders  == (IF p.holders > 0 THEN p.holders - rej ELSE p.holders) - kept
  <2>1. flight \in Int /\ stale \in Int /\ computed \in Int /\ holders \in Int
    BY <1>3, <1>5, <1>6 DEF RequestType
  <2>2. q = [p EXCEPT !.flight = flight, !.stale = stale, !.computed = computed,
                      !.holders = holders]
    BY <1>5, <1>7 DEF RequestType
  <2> HIDE DEF q, flight, stale, computed, holders
  <2> QED
    BY <1>5, <2>1, <2>2, Zenon DEF RequestType
<1> QED
  BY <1>8, <1>9 DEF p, k, rej, kept

\* Processing the oldest step keeps the types.
LEMMA OutputTypes ==
  ASSUME Base, ProcessOldest
  PROVE  Types' /\ Places'
<1>1. PICK accepted, given, eos : Outcome(accepted, given, eos)
  BY OutcomeExists
<1>2. steps # <<>> /\ ProcessesOldest
  BY <1>1 DEF Outcome
<1>3. req' \in [Reqs -> RequestType]
  <2>1. \A r \in Reqs : req[r] \in RequestType
    BY DEF Base, Types
  <2>2. \A r \in Reqs : r \in OldestRows => AfterOutput(accepted, given, r) \in RequestType
    BY <1>1, AfterOutputType
  <2>3. \A r \in Reqs : (IF r \notin OldestRows \/ req[r].status = "finished" THEN req[r]
               ELSE IF EndsWith(given, eos, r) THEN Closed
               ELSE AfterOutput(accepted, given, r)) \in RequestType
    BY <2>1, <2>2, ClosedType
  <2>4. req' = [r \in Reqs |->
               IF r \notin OldestRows \/ req[r].status = "finished" THEN req[r]
               ELSE IF EndsWith(given, eos, r) THEN Closed
               ELSE AfterOutput(accepted, given, r)]
    BY <1>1, OutcomeIs
  <2> QED
    BY <2>3, <2>4
<1>4. out' \in [Reqs -> Seq(Int)]
  <2>1. ASSUME NEW r \in Reqs, r \in OldestRows
        PROVE  out[r] \o Given(given, r) \in Seq(Int)
    <3>1. out[r] \in Seq(Int)
      BY RequestFacts
    <3>2. FirstGiven(r) \in Int
      BY <1>2, <2>1, OldestIs DEF FirstGiven, Counts
    <3>3. given[r] \in Nat
      BY <1>1, <2>1, GivenIs, AsyncSchedulerAssumption
    <3>4. Given(given, r) \in Seq(Int)
      BY <3>2, <3>3 DEF Given
    <3> QED
      BY <3>1, <3>4
  <2>2. \A r \in Reqs : out[r] \in Seq(Int)
    BY RequestFacts
  <2>3. out' = [r \in Reqs |-> IF r \notin OldestRows THEN out[r]
                      ELSE out[r] \o Given(given, r)]
    BY <1>1, OutcomeIs
  <2> QED
    BY <2>1, <2>2, <2>3
<1>5. worker' \in [Reqs -> [computed : Int, prefill : Nat]]
  <2>1. ASSUME NEW r \in Reqs, r \in OldestRows
        PROVE  [RowState(r) EXCEPT !.computed = @ + steps[1].n[r] - Rejects(accepted, r)]
                 \in [computed : Int, prefill : Nat]
    <3>1. RowState(r) \in [computed : Int, prefill : Nat]
      BY <1>2, OldestIs
    <3>2. steps[1].n[r] \in Int /\ Rejects(accepted, r) \in Int
      BY <1>1, <1>2, <2>1, OldestIs, GivenIs DEF Counts
    <3> QED
      BY <3>1, <3>2
  <2>2. \A r \in Reqs : worker[r] \in [computed : Int, prefill : Nat]
    BY DEF Base, Types
  <2>3. worker' = [r \in Reqs |->
              IF r \notin OldestRows THEN worker[r]
              ELSE [RowState(r) EXCEPT !.computed = @ + steps[1].n[r] - Rejects(accepted, r)]]
    BY <1>1, OutcomeIs
  <2> QED
    BY <2>1, <2>2, <2>3
<1>6. finished' \in SUBSET Reqs /\ pc' = "engine" /\ pause' = pause /\ controls' = controls
      /\ loop' = loop
  <2>1. Stopped(given, eos) \in SUBSET Reqs
    BY DEF Stopped
  <2> QED
    BY <1>1, <2>1, OutcomeIs DEF Base, Types
<1>7. free' \in Int
  <2>1. free' = free + BlocksOf(Stopped(given, eos))
    BY <1>1, OutcomeIs
  <2>2. BlocksOf(Stopped(given, eos)) \in Int
    <3> DEFINE f == [r \in Reqs |-> req[r].blocks]
               S == Stopped(given, eos)
    <3>1. S \in SUBSET OldestRows /\ S \in SUBSET Reqs
      BY DEF Stopped, EndsWith
    <3>2. IsFiniteSet(S)
      BY <1>2, <3>1, OldestIs, FS_Subset
    <3>3. \A r \in S : f[r] \in Int
      BY <3>1, RequestFacts DEF RequestType
    <3> HIDE DEF f, S
    <3>4. SumFunctionOnSet(f, S) \in Int
      BY <3>2, <3>3, SumInt
    <3> QED
      BY <3>4 DEF f, S, BlocksOf
  <2> QED
    BY <2>1, <2>2 DEF Base, Types
<1>8. steps' \in Seq(StepType) /\ \A j \in DOMAIN steps' : RowsFit(steps'[j])
  <2>1. steps' = Tail(steps)
    BY <1>1, OutcomeIs
  <2>2. steps \in Seq(StepType) /\ \A j \in DOMAIN steps : RowsFit(steps[j])
    BY DEF Base, Types
  <2>3. Tail(steps) \in Seq(StepType)
    BY <1>2, <2>2
  <2>4. \A j \in DOMAIN Tail(steps) : j + 1 \in DOMAIN steps /\ Tail(steps)[j] = steps[j + 1]
    BY <1>2, <2>2
  <2> QED
    BY <2>1, <2>2, <2>3, <2>4
<1>9. loop = NoLoop /\ RowsFit(NoLoop) /\ NoLoop \in LoopType
  BY <1>2, NoLoopType DEF ProcessesOldest, Base, Places
<1>10. Types'
  <2>1. pause' \in {"unpaused", "new", "all"} /\ controls' \in 0..MaxControls
    BY <1>6 DEF Base, Types
  <2>2. loop' \in LoopType /\ RowsFit(loop')
    BY <1>6, <1>9
  <2>3. pc' \in {"engine", "running", "waiting", "update", "process"}
    BY <1>6
  <2> QED
    BY <1>3, <1>4, <1>5, <1>6, <1>7, <1>8, <2>1, <2>2, <2>3 DEF Types
<1>11. Places'
  BY <1>6, <1>9, NoLoopType DEF Places
<1> QED
  BY <1>10, <1>11

\* What _update_after_schedule makes of a scheduled request.
ScheduledIs(r, q) ==
  LET p        == req[r]
      computed == p.computed + loop.n[r]
      chunk    == computed < Tokens(r) + p.holders
  IN  /\ q \in RequestType
      /\ q.status = p.status /\ q.stale = p.stale /\ q.drop = p.drop /\ q.blocks = p.blocks
      /\ q.computed = computed /\ q.flight = p.flight + loop.n[r] /\ q.chunk = chunk
      /\ q.holders = IF chunk THEN p.holders ELSE p.holders + 1 + loop.d[r]
      /\ q.spec = IF chunk THEN p.spec ELSE NumSpec
      /\ q.cool = IF chunk THEN p.cool ELSE PPSize

\* The fields of a scheduled request after _update_after_schedule.
LEMMA UpdatedIs ==
  ASSUME Base, UpdateAfterSchedule, NEW r \in DOMAIN loop.n
  PROVE  r \in Reqs /\ ScheduledIs(r, req'[r])
<1> DEFINE p == req[r]
           n == loop.n[r]
           d == loop.d[r]
           computed == p.computed + n
           chunk    == computed < Tokens(r) + p.holders
           holders  == IF chunk THEN p.holders ELSE p.holders + 1 + d
           spec     == IF chunk THEN p.spec ELSE NumSpec
           cool     == IF chunk THEN p.cool ELSE PPSize
           flight   == p.flight + n
           q        == req'[r]
<1>1. loop.n \in Rows /\ loop.d \in Drafts /\ RowsFit(loop)
  BY DEF Base, Types, LoopType
<1>2. r \in Reqs /\ n \in Nat /\ d \in 0..NumSpec
  BY <1>1, MapIs DEF Rows, Drafts, RowsFit, Counts
<1>3. p \in RequestType /\ Tokens(r) \in Int
  BY <1>2, RequestFacts
<1>4. NumSpec \in 0..NumSpec /\ PPSize \in 0..PPSize /\ NumSpec \in Nat
  BY AsyncSchedulerAssumption
<1>5. /\ chunk \in BOOLEAN /\ computed \in Int /\ holders \in Int /\ flight \in Int
      /\ spec \in 0..NumSpec /\ cool \in 0..PPSize
  <2> HIDE DEF n, d, p
  <2> QED
    BY <1>2, <1>3, <1>4 DEF RequestType
<1>6. q = [p EXCEPT !.computed = computed, !.flight = p.flight + n,
               !.chunk = chunk,
               !.holders = IF chunk THEN p.holders ELSE p.holders + 1 + d,
               !.spec = IF chunk THEN p.spec ELSE NumSpec,
               !.cool = IF chunk THEN p.cool ELSE PPSize]
  BY <1>2 DEF UpdateAfterSchedule
<1>7. q = [p EXCEPT !.computed = computed, !.flight = flight, !.chunk = chunk,
               !.holders = holders, !.spec = spec, !.cool = cool]
  BY <1>6
<1> HIDE DEF q, computed, flight, chunk, holders, spec, cool, p, n, d
<1>8. q \in RequestType
  BY <1>3, <1>5, <1>7, Zenon DEF RequestType
<1>9. /\ q.status = p.status /\ q.stale = p.stale /\ q.blocks = p.blocks
      /\ q.computed = computed /\ q.flight = flight
      /\ q.holders = holders /\ q.spec = spec /\ q.cool = cool
  BY <1>3, <1>7 DEF RequestType
<1>10. q.drop = p.drop /\ q.chunk = chunk
  BY <1>3, <1>7, Zenon DEF RequestType
<1> QED
  BY <1>2, <1>8, <1>9, <1>10, Zenon
     DEF ScheduledIs, q, computed, flight, chunk, holders, spec, cool, p, n, d

\* What _update_after_schedule assigns.
LEMMA UpdateIs ==
  ASSUME Base, UpdateAfterSchedule
  PROVE  /\ pc = "update" /\ finished' = {} /\ pc' = "process" /\ loop' = NoLoop
         /\ steps' = Append(steps, [n |-> loop.n, d |-> loop.d, fresh |-> loop.fresh])
         /\ req' = [r \in Reqs |-> req'[r]]
         /\ \A r \in Reqs : r \notin DOMAIN loop.n => req'[r] = req[r]
         /\ \A r \in DOMAIN loop.n : r \in Reqs /\ ScheduledIs(r, req'[r])
         /\ UNCHANGED <<out, running, waiting, skipped, free, pause, worker, controls>>
<1>1. \A r \in DOMAIN loop.n : r \in Reqs /\ ScheduledIs(r, req'[r])
  BY UpdatedIs
<1>2. /\ pc = "update" /\ finished' = {} /\ pc' = "process" /\ loop' = NoLoop
      /\ steps' = Append(steps, [n |-> loop.n, d |-> loop.d, fresh |-> loop.fresh])
      /\ UNCHANGED <<out, running, waiting, skipped, free, pause, worker, controls>>
  BY DEF UpdateAfterSchedule, queueVars
<1>3. req' = [r \in Reqs |-> req'[r]] /\ \A r \in Reqs : r \notin DOMAIN loop.n => req'[r] = req[r]
  BY DEF UpdateAfterSchedule
<1> QED
  BY <1>1, <1>2, <1>3

\* _update_after_schedule keeps the types.
LEMMA UpdateTypes ==
  ASSUME Base, UpdateAfterSchedule
  PROVE  Types' /\ Places'
<1>1. loop.n \in Rows /\ loop.d \in Drafts /\ loop.fresh \in RowStates /\ RowsFit(loop)
  BY DEF Base, Types, LoopType
<1>2. req' \in [Reqs -> RequestType]
  <2>1. \A r \in Reqs : req'[r] \in RequestType
    BY UpdateIs, RequestFacts DEF ScheduledIs
  <2> QED
    BY <2>1, UpdateIs
<1>3. steps' \in Seq(StepType) /\ (\A j \in DOMAIN steps' : RowsFit(steps'[j])) /\ steps' # <<>>
  <2> DEFINE s == [n |-> loop.n, d |-> loop.d, fresh |-> loop.fresh]
  <2>1. s \in StepType /\ RowsFit(s)
    BY <1>1 DEF StepType, RowsFit
  <2>2. steps' = Append(steps, s)
    BY UpdateIs
  <2>3. steps \in Seq(StepType) /\ \A j \in DOMAIN steps : RowsFit(steps[j])
    BY DEF Base, Types
  <2> HIDE DEF s
  <2>4. Append(steps, s) \in Seq(StepType) /\ Append(steps, s) # <<>>
        /\ \A j \in DOMAIN Append(steps, s) :
              Append(steps, s)[j] = s \/ (j \in DOMAIN steps /\ Append(steps, s)[j] = steps[j])
    BY <2>1, <2>3
  <2> QED
    BY <2>1, <2>2, <2>3, <2>4
<1>4. /\ finished' = {} /\ pc' = "process" /\ loop' = NoLoop
      /\ UNCHANGED <<out, running, waiting, skipped, free, pause, worker, controls>>
  BY UpdateIs
<1>5. Types'
  BY <1>2, <1>3, <1>4, NoLoopType DEF Base, Types
<1>6. Places'
  BY <1>3, <1>4, NoLoopType DEF Places
<1> QED
  BY <1>5, <1>6

-----------------------------------------------------------------------------
(* The actions, field by field.                                             *)

\* The cadence counts down and a step begins.
BeginEffect ==
  /\ pc = "engine" /\ pc' = "running" /\ HasRequests
  /\ loop' \in LoopType /\ RowsFit(loop') /\ DOMAIN loop'.n = {} /\ DOMAIN loop'.fresh = {}
  /\ loop'.i = 1 /\ loop'.want = 0 /\ loop'.n = <<>> /\ loop'.d = <<>> /\ loop'.fresh = <<>>
  /\ loop'.tokens = (IF pause = "all" THEN 0 ELSE MaxScheduled) /\ loop'.input = MaxBatched
  /\ loop'.skipped = <<>> /\ loop'.prefills = FALSE /\ loop'.preempted = FALSE
  /\ req' \in [Reqs -> RequestType]
  /\ \A r \in Reqs :
       LET q == req'[r]
           p == req[r]
       IN  /\ q.status = p.status /\ q.computed = p.computed /\ q.holders = p.holders
           /\ q.spec = p.spec /\ q.flight = p.flight /\ q.stale = p.stale /\ q.drop = p.drop
           /\ q.chunk = p.chunk /\ q.blocks = p.blocks /\ q.cool = Larger(p.cool - 1, 0)
  /\ UNCHANGED <<out, running, waiting, skipped, finished, free, pause, steps, worker, controls>>

\* What the beginning of schedule() assigns.
LEMMA BeginIs ==
  ASSUME Base, BeginSchedule
  PROVE  BeginEffect
<1> DEFINE t == IF pause = "all" THEN 0 ELSE MaxScheduled
<1>1. t \in Int /\ MaxBatched \in Int
  BY AsyncSchedulerAssumption
<1>2. loop' = [NoLoop EXCEPT !.tokens = t, !.input = MaxBatched]
  BY DEF BeginSchedule
<1> HIDE DEF t
<1>3. NoLoop \in LoopType
  BY NoLoopType
<1>4. loop' \in LoopType
  BY <1>1, <1>2, <1>3, Zenon DEF LoopType
<1>5. /\ loop'.tokens = t /\ loop'.input = MaxBatched /\ loop'.i = NoLoop.i
      /\ loop'.want = NoLoop.want /\ loop'.n = NoLoop.n /\ loop'.d = NoLoop.d
      /\ loop'.fresh = NoLoop.fresh /\ loop'.skipped = NoLoop.skipped
      /\ loop'.prefills = NoLoop.prefills /\ loop'.preempted = NoLoop.preempted
  BY <1>2, <1>3, Zenon DEF LoopType
<1>6. /\ pc = "engine" /\ pc' = "running" /\ HasRequests
      /\ UNCHANGED <<out, running, waiting, skipped, finished, free, pause, steps, worker, controls>>
      /\ req' = [r \in Reqs |-> [req[r] EXCEPT !.cool = Larger(@ - 1, 0)]]
  BY DEF BeginSchedule, queueVars
<1>7. ASSUME NEW r \in Reqs
      PROVE  LET q == req'[r]
                 p == req[r]
             IN  /\ q \in RequestType
                 /\ q.status = p.status /\ q.computed = p.computed /\ q.holders = p.holders
                 /\ q.spec = p.spec /\ q.flight = p.flight /\ q.stale = p.stale
                 /\ q.drop = p.drop /\ q.chunk = p.chunk /\ q.blocks = p.blocks
                 /\ q.cool = Larger(p.cool - 1, 0)
  <2> DEFINE p == req[r]
             q == req'[r]
             c == Larger(p.cool - 1, 0)
  <2>1. p \in RequestType
    BY RequestFacts
  <2>2. c \in 0..PPSize
    BY <2>1, AsyncSchedulerAssumption DEF RequestType, Larger
  <2>3. q = [p EXCEPT !.cool = c]
    BY <1>6
  <2> HIDE DEF p, q, c
  <2>4. /\ q.status = p.status /\ q.computed = p.computed /\ q.holders = p.holders
        /\ q.spec = p.spec /\ q.flight = p.flight /\ q.stale = p.stale
        /\ q.blocks = p.blocks /\ q.cool = c
    BY <2>1, <2>3 DEF RequestType
  <2>5. q \in RequestType /\ q.drop = p.drop /\ q.chunk = p.chunk
    BY <2>1, <2>2, <2>3, Zenon DEF RequestType
  <2> QED
    BY <2>4, <2>5 DEF p, q, c
<1>8. req' \in [Reqs -> RequestType]
  BY <1>6, <1>7
<1>9. RowsFit(loop') /\ DOMAIN loop'.n = {} /\ DOMAIN loop'.fresh = {}
  BY <1>5, NoLoopType DEF RowsFit
<1> QED
  BY <1>4, <1>5, <1>6, <1>7, <1>8, <1>9, NoLoopType DEF BeginEffect, t

\* Request r gets n tokens.
RunningEffect(r, n) ==
  LET q == req'[r]
      p == req[r]
  IN
  /\ AtRunning /\ pc = "running" /\ pc' = pc /\ r = Current /\ n = WantedNow
  /\ r \in Reqs /\ r \in Elements(running) /\ r \notin DOMAIN loop.n /\ n \in Counts
  /\ Fits(r, p.computed, n) /\ NewBlocks(r, p.computed, n) \in Nat
  /\ req' \in [Reqs -> RequestType] /\ \A s \in Reqs \ {r} : req'[s] = req[s]
  /\ q.status = p.status /\ q.computed = p.computed /\ q.holders = p.holders
  /\ q.spec = 0 /\ q.flight = p.flight /\ q.stale = p.stale /\ q.drop = p.drop
  /\ q.chunk = p.chunk /\ q.cool = p.cool
  /\ q.blocks = p.blocks + NewBlocks(r, p.computed, n)
  /\ free' = free - NewBlocks(r, p.computed, n)
  /\ loop' \in LoopType /\ RowsFit(loop') /\ DraftsOf(r, n) \in 0..NumSpec
  /\ loop'.i = loop.i + 1 /\ loop'.want = 0
  /\ loop'.tokens = loop.tokens - n /\ loop'.input = loop.input - (n + DraftSlots)
  /\ loop'.n = With(loop.n, r, n) /\ loop'.d = With(loop.d, r, DraftsOf(r, n))
  /\ loop'.fresh = loop.fresh /\ loop'.skipped = loop.skipped
  /\ loop'.prefills = (loop.prefills \/ p.chunk) /\ loop'.preempted = loop.preempted
  /\ UNCHANGED <<out, running, waiting, skipped, finished, pause, steps, worker, controls>>

\* Blocks are only ever added by an allocation.
LEMMA NewBlocksNat ==
  ASSUME NEW r \in Reqs, NEW start \in Int, NEW n \in Int, req[r].blocks \in Nat
  PROVE  NewBlocks(r, start, n) \in Nat
<1>1. start + n + LookaheadSlots \in Int
  BY AsyncSchedulerAssumption
<1>2. BlocksFor(start + n + LookaheadSlots) \in Int
  BY <1>1, BlocksForIs
<1> QED
  BY <1>2 DEF NewBlocks, Larger

\* The scheduled tokens with one more request.
LEMMA RowsWith ==
  ASSUME NEW f \in Rows, NEW r \in Reqs, NEW n \in Counts
  PROVE  With(f, r, n) \in Rows /\ DOMAIN With(f, r, n) = DOMAIN f \cup {r}
<1> DEFINE V == Counts
<1>1. PICK S \in SUBSET Reqs : IsFiniteSet(S) /\ f \in [S -> V]
  BY DEF Rows, Maps
<1>2. S \cup {r} \in SUBSET Reqs /\ IsFiniteSet(S \cup {r}) /\ DOMAIN f = S
  BY <1>1, FS_AddElement
<1>3. With(f, r, n) \in [S \cup {r} -> V] /\ DOMAIN With(f, r, n) = DOMAIN f \cup {r}
  BY <1>1 DEF With
<1> HIDE DEF V
<1>4. With(f, r, n) \in Maps(V)
  BY <1>2, <1>3, Zenon DEF Maps
<1> QED
  BY <1>3, <1>4 DEF Rows, V

\* The scheduled drafts with one more request.
LEMMA DraftsWith ==
  ASSUME NEW f \in Drafts, NEW r \in Reqs, NEW d \in 0..NumSpec
  PROVE  With(f, r, d) \in Drafts /\ DOMAIN With(f, r, d) = DOMAIN f \cup {r}
<1> DEFINE V == 0..NumSpec
<1>1. PICK S \in SUBSET Reqs : IsFiniteSet(S) /\ f \in [S -> V]
  BY DEF Drafts, Maps
<1>2. S \cup {r} \in SUBSET Reqs /\ IsFiniteSet(S \cup {r}) /\ DOMAIN f = S
  BY <1>1, FS_AddElement
<1>3. With(f, r, d) \in [S \cup {r} -> V] /\ DOMAIN With(f, r, d) = DOMAIN f \cup {r}
  BY <1>1 DEF With
<1> HIDE DEF V
<1>4. With(f, r, d) \in Maps(V)
  BY <1>2, <1>3, Zenon DEF Maps
<1> QED
  BY <1>3, <1>4 DEF Drafts, V

\* The new requests of a step with one more.
LEMMA RowStatesWith ==
  ASSUME NEW f \in RowStates, NEW r \in Reqs, NEW w \in [computed : Nat, prefill : Nat]
  PROVE  With(f, r, w) \in RowStates /\ DOMAIN With(f, r, w) = DOMAIN f \cup {r}
<1> DEFINE V == [computed : Nat, prefill : Nat]
<1>1. PICK S \in SUBSET Reqs : IsFiniteSet(S) /\ f \in [S -> V]
  BY DEF RowStates, Maps
<1>2. S \cup {r} \in SUBSET Reqs /\ IsFiniteSet(S \cup {r}) /\ DOMAIN f = S
  BY <1>1, FS_AddElement
<1>3. With(f, r, w) \in [S \cup {r} -> V] /\ DOMAIN With(f, r, w) = DOMAIN f \cup {r}
  BY <1>1 DEF With
<1> HIDE DEF V
<1>4. With(f, r, w) \in Maps(V)
  BY <1>2, <1>3, Zenon DEF Maps
<1> QED
  BY <1>3, <1>4 DEF RowStates, V

\* What the types say of schedule()'s local variables.
LEMMA LoopFacts ==
  ASSUME Base
  PROVE  /\ loop \in LoopType /\ RowsFit(loop)
         /\ loop.i \in Counts /\ loop.want \in Nat /\ loop.tokens \in Int /\ loop.input \in Int
         /\ loop.n \in Rows /\ loop.d \in Drafts /\ loop.fresh \in RowStates
         /\ loop.prefills \in BOOLEAN /\ loop.preempted \in BOOLEAN /\ loop.skipped \in Seq(Reqs)
         /\ NumSpec \in Nat /\ DraftSlots \in Nat
BY AsyncSchedulerAssumption DEF Base, Types, LoopType

\* What scheduling a running request assigns.
LEMMA RunningIs ==
  ASSUME Base, ScheduleRunning
  PROVE  \E r \in Reqs, n \in Counts : RunningEffect(r, n)
<1> DEFINE r == Current
           n == WantedNow
           p == req[r]
           q == req'[r]
           b == NewBlocks(r, p.computed, n)
           d == DraftsOf(r, n)
<1>1. /\ AtRunning /\ n > 0 /\ Fits(r, p.computed, n)
      /\ req' = [req EXCEPT ![r].spec = 0, ![r].blocks = @ + b]
      /\ free' = free - b
      /\ loop' = [loop EXCEPT !.i = @ + 1, !.want = 0,
                          !.tokens = @ - n, !.input = @ - (n + DraftSlots),
                          !.n = With(@, r, n), !.d = With(@, r, d),
                          !.prefills = @ \/ p.chunk]
      /\ UNCHANGED <<out, running, waiting, skipped, finished, pause, pc, steps, worker, controls>>
  BY DEF ScheduleRunning, queueVars
<1>2. r \in Reqs /\ r \in Elements(running) /\ r \notin DOMAIN loop.n /\ n \in Counts
  BY <1>1, CurrentIs, WantedNowIs DEF Counts
<1>3. p \in RequestType /\ Tokens(r) \in Nat
  BY <1>2, RequestFacts
<1>4. b \in Nat
  <2> HIDE DEF r, n
  <2>1. p.computed \in Int /\ p.blocks \in Nat /\ n \in Int
    BY <1>2, <1>3 DEF RequestType, Counts
  <2> HIDE DEF p
  <2>2. req[r].blocks \in Nat
    BY <2>1 DEF p
  <2> QED
    BY <1>2, <2>1, <2>2, NewBlocksNat
<1>5. d \in 0..NumSpec
  <2>1. p.computed \in Int /\ p.spec \in 0..NumSpec /\ n \in Int /\ p.holders \in Int
    BY <1>2, <1>3 DEF RequestType, Counts
  <2>2. d = Smaller(p.spec, Larger(n + p.computed - Tokens(r) - p.holders, 0))
    BY DEF DraftsOf
  <2> HIDE DEF d, n, p, r
  <2> QED
    BY <1>3, <2>1, <2>2, AsyncSchedulerAssumption DEF Smaller, Larger
<1>6. q = [p EXCEPT !.spec = 0, !.blocks = p.blocks + b]
      /\ req' \in [Reqs -> {q} \cup RequestType] /\ \A s \in Reqs \ {r} : req'[s] = req[s]
  <2>1. req \in [Reqs -> RequestType]
    BY DEF Base, Types
  <2> HIDE DEF r, b
  <2> QED
    BY <1>1, <1>2, <2>1
<1>7. /\ loop \in LoopType /\ loop.i + 1 \in Counts /\ loop.tokens - n \in Int
      /\ loop.input - (n + DraftSlots) \in Int /\ (loop.prefills \/ p.chunk) \in BOOLEAN
  <2>1. p.chunk \in BOOLEAN
    BY <1>3 DEF RequestType
  <2> HIDE DEF n, p, r
  <2> QED
    BY <1>2, <2>1, LoopFacts DEF Counts
<1>8. With(loop.n, r, n) \in Rows /\ With(loop.d, r, d) \in Drafts
      /\ DOMAIN With(loop.n, r, n) = DOMAIN loop.n \cup {r}
      /\ DOMAIN With(loop.d, r, d) = DOMAIN loop.d \cup {r}
  <2> HIDE DEF n, r, d
  <2>1. loop.n \in Rows /\ loop.d \in Drafts
    BY LoopFacts
  <2>2. With(loop.n, r, n) \in Rows /\ DOMAIN With(loop.n, r, n) = DOMAIN loop.n \cup {r}
    BY <1>2, <2>1, RowsWith
  <2>3. With(loop.d, r, d) \in Drafts /\ DOMAIN With(loop.d, r, d) = DOMAIN loop.d \cup {r}
    BY <1>2, <1>5, <2>1, DraftsWith
  <2> QED
    BY <2>2, <2>3
<1>9. pc = "running"
  BY <1>1 DEF AtRunning
<1> HIDE DEF r, n, p, q, b, d
<1>10. q.status = p.status /\ q.computed = p.computed /\ q.holders = p.holders
      /\ q.spec = 0 /\ q.flight = p.flight /\ q.stale = p.stale /\ q.cool = p.cool
      /\ q.blocks = p.blocks + b
  BY <1>3, <1>6 DEF RequestType
<1>11. q.drop = p.drop /\ q.chunk = p.chunk
  BY <1>3, <1>6, Zenon DEF RequestType
<1>12. q \in RequestType
  <2>1. p.blocks + b \in Nat /\ 0 \in 0..NumSpec
    BY <1>3, <1>4, LoopFacts DEF RequestType
  <2> QED
    BY <1>3, <1>6, <2>1, Zenon DEF RequestType
<1>13. req' \in [Reqs -> RequestType]
  BY <1>6, <1>12
<1> DEFINE i == loop.i + 1
           t == loop.tokens - n
           u == loop.input - (n + DraftSlots)
           x == With(loop.n, r, n)
           y == With(loop.d, r, d)
           z == loop.prefills \/ p.chunk
<1>14. loop' = [loop EXCEPT !.i = i, !.want = 0, !.tokens = t, !.input = u,
                            !.n = x, !.d = y, !.prefills = z]
  BY <1>1
<1>15. i \in Counts /\ t \in Int /\ u \in Int /\ z \in BOOLEAN /\ x \in Rows /\ y \in Drafts
       /\ 0 \in Nat
  BY <1>7, <1>8
<1> HIDE DEF i, t, u, x, y, z
<1>16. loop' \in LoopType
  BY <1>7, <1>14, <1>15, Zenon DEF LoopType
<1>17. /\ loop'.i = i /\ loop'.want = 0 /\ loop'.tokens = t /\ loop'.input = u /\ loop'.n = x
       /\ loop'.d = y /\ loop'.prefills = z /\ loop'.fresh = loop.fresh
       /\ loop'.skipped = loop.skipped /\ loop'.preempted = loop.preempted
  BY <1>7, <1>14, Zenon DEF LoopType
<1>18. RowsFit(loop')
  BY <1>8, <1>17, LoopFacts DEF RowsFit, x, y
<1>19. RunningEffect(r, n)
  BY <1>1, <1>2, <1>4, <1>5, <1>6, <1>9, <1>10, <1>11, <1>13, <1>16, <1>17, <1>18, Zenon
     DEF RunningEffect, r, n, p, q, b, d, i, t, u, x, y, z
<1> QED
  BY <1>2, <1>19

\* The request at place v is preempted for the current one, r.
PreemptEffect(v, victim, r) ==
  LET q    == req'[victim]
      p    == req[victim]
      back == GivenBack(victim)
  IN
  /\ AtRunning /\ pc = "running" /\ r = Current /\ WantedNow \in Counts
  /\ ~Fits(r, req[r].computed, WantedNow)
  /\ v \in DOMAIN running /\ victim = running[v] /\ victim \in Reqs /\ victim \in Elements(running)
  /\ r \in Reqs /\ r \in Elements(running) /\ r \notin DOMAIN loop.n
  /\ Policy = "fcfs" => v = Len(running)
  /\ running' = Without(running, {victim})
  /\ waiting' = Prepended(waiting, victim)
  /\ req' \in [Reqs -> RequestType] /\ \A s \in Reqs \ {victim} : req'[s] = req[s]
  /\ q.status = "preempted" /\ q.computed = 0 /\ q.holders = 0 /\ q.spec = 0
  /\ q.flight = p.flight /\ q.stale = p.flight /\ q.drop = KeepsDropping(p, KVDelivery)
  /\ q.chunk = p.chunk /\ q.cool = p.cool /\ q.blocks = 0
  /\ free' = free + p.blocks
  /\ loop' \in LoopType /\ RowsFit(loop') /\ back \in Nat
  /\ loop'.i = CursorAfter(v) /\ loop'.want = (IF victim = r THEN 0 ELSE WantedNow)
  /\ loop'.tokens = loop.tokens + back
  /\ loop'.input = loop.input + (IF back > 0 THEN back + DraftSlots ELSE 0)
  /\ loop'.n = Dropped(loop.n, victim) /\ loop'.d = Dropped(loop.d, victim)
  /\ loop'.fresh = loop.fresh /\ loop'.skipped = loop.skipped
  /\ loop'.prefills = loop.prefills /\ loop'.preempted = TRUE
  /\ pc' = (IF victim = r THEN "update" ELSE "running")
  /\ UNCHANGED <<out, skipped, finished, pause, steps, worker, controls>>

\* What a preemption for room assigns.
LEMMA PreemptEffectIs ==
  ASSUME Base, PreemptForRoom
  PROVE  \E v, victim, r : PreemptEffect(v, victim, r)
<1>1. PICK v \in DOMAIN running : PreemptAt(v) /\ (Policy = "fcfs" => v = Len(running))
  BY PreemptIs
<1> DEFINE r == Current
           victim == running[v]
           back == GivenBack(victim)
           w == WantedNow
           p == req[victim]
           q == req'[victim]
           i == CursorAfter(v)
           want == IF victim = r THEN 0 ELSE w
           t == loop.tokens + back
           u == loop.input + (IF back > 0 THEN back + DraftSlots ELSE 0)
           x == Dropped(loop.n, victim)
           y == Dropped(loop.d, victim)
<1>2. /\ AtRunning /\ w > 0 /\ ~Fits(r, req[r].computed, w)
      /\ running' = Without(running, {victim})
      /\ waiting' = Prepended(waiting, victim)
      /\ req' = [req EXCEPT ![victim] = Preempted(p, KVDelivery)]
      /\ free' = free + p.blocks
      /\ loop' = [loop EXCEPT !.preempted = TRUE, !.i = i, !.want = want,
                  !.tokens = t, !.input = u, !.n = x, !.d = y]
      /\ pc' = IF victim = r THEN "update" ELSE pc
      /\ UNCHANGED <<out, skipped, finished, pause, steps, worker, controls>>
  BY <1>1, Zenon DEF PreemptAt
<1>3. /\ r \in Reqs /\ r \in Elements(running) /\ r \notin DOMAIN loop.n /\ w \in Counts
      /\ loop.i \in 1..Len(running) /\ pc = "running"
  BY <1>2, CurrentIs, WantedNowIs DEF Counts, AtRunning
<1>4. running \in Seq(Reqs) /\ victim \in Reqs /\ victim \in Elements(running)
  <2>1. running \in Seq(Reqs)
    BY DEF Base, Queues, IsQueue
  <2> QED
    BY <1>1, <2>1 DEF Elements
<1>5. p \in RequestType
  BY <1>4, RequestFacts
<1>6. back \in Nat
  <2>1. victim \in DOMAIN loop.n => loop.n[victim] \in Nat
    BY LoopFacts, MapIs DEF Rows, Counts
  <2> QED
    BY <2>1 DEF GivenBack
<1>7. i \in Counts
  <2>1. v \in Nat /\ v >= 1
    BY <1>1, <1>4
  <2>2. loop.i \in Counts
    BY LoopFacts
  <2> QED
    BY <2>1, <2>2 DEF CursorAfter, Counts
<1>8. want \in Nat /\ t \in Int /\ u \in Int
  <2> HIDE DEF back, w, victim, r
  <2> QED
    BY <1>3, <1>6, LoopFacts DEF Counts
<1>9. x \in Rows /\ DOMAIN x = DOMAIN loop.n \ {victim}
  <2>1. loop.n \in Maps(Counts)
    BY LoopFacts DEF Rows
  <2> HIDE DEF victim
  <2> QED
    BY <2>1, MapDropped DEF Rows
<1>10. y \in Drafts /\ DOMAIN y = DOMAIN loop.d \ {victim}
  <2>1. loop.d \in Maps(0..NumSpec)
    BY LoopFacts DEF Drafts
  <2> HIDE DEF victim
  <2> QED
    BY <2>1, MapDropped DEF Drafts
<1>11. KVDelivery \in BOOLEAN /\ loop \in LoopType
  BY LoopFacts, AsyncSchedulerAssumption
<1>12. q = Preempted(p, KVDelivery) /\ req' \in [Reqs -> {q} \cup RequestType]
       /\ \A s \in Reqs \ {victim} : req'[s] = req[s]
  <2>1. req \in [Reqs -> RequestType]
    BY DEF Base, Types
  <2> HIDE DEF victim
  <2> QED
    BY <1>2, <1>4, <2>1
<1> HIDE DEF r, victim, back, w, p, q, i, want, t, u, x, y
<1>13. loop' \in LoopType
  BY <1>2, <1>7, <1>8, <1>9, <1>10, <1>11, Zenon DEF LoopType
<1>14. /\ loop'.i = i /\ loop'.want = want /\ loop'.tokens = t /\ loop'.input = u /\ loop'.n = x
       /\ loop'.d = y /\ loop'.prefills = loop.prefills /\ loop'.fresh = loop.fresh
       /\ loop'.skipped = loop.skipped /\ loop'.preempted = TRUE
  BY <1>2, <1>11, Zenon DEF LoopType
<1>15. RowsFit(loop')
  <2>1. DOMAIN loop.fresh = {}
    BY <1>3 DEF Base, Places
  <2> QED
    BY <1>9, <1>10, <1>14, <2>1, LoopFacts DEF RowsFit
<1>16. q \in RequestType /\ q.status = "preempted" /\ q.computed = 0 /\ q.holders = 0
       /\ q.spec = 0 /\ q.flight = p.flight /\ q.stale = p.flight
       /\ q.drop = KeepsDropping(p, KVDelivery)
       /\ q.chunk = p.chunk /\ q.cool = p.cool /\ q.blocks = 0
  BY <1>5, <1>11, <1>12, PreemptedType
<1>17. req' \in [Reqs -> RequestType]
  BY <1>12, <1>16
<1>18. PreemptEffect(v, victim, r)
  BY <1>1, <1>2, <1>3, <1>4, <1>6, <1>12, <1>13, <1>14, <1>15, <1>16, <1>17, Zenon
     DEF PreemptEffect, r, victim, back, w, p, q, i, want, t, u, x, y
<1> QED
  BY <1>18

\* Request r is admitted with n tokens after a cache hit.
AdmitEffect(hit, r, n, d) ==
  LET q == req'[r]
      p == req[r]
  IN
  /\ AtWaiting /\ pc = "waiting" /\ r = Candidate /\ ~AwaitsOutput(r) /\ hit \in HitsOf(r)
  /\ hit \in Nat /\ hit < Tokens(r)
  /\ n = OfferToWaiting(r, hit).n /\ d = OfferToWaiting(r, hit).d
  /\ n \in Counts /\ d \in 0..NumSpec /\ r \in Reqs
  /\ Fits(r, hit, n) /\ NewBlocks(r, hit, n) \in Nat
  /\ PopCandidate /\ running' = Append(running, r)
  /\ r \notin Elements(running) /\ r \notin DOMAIN loop.n
  /\ p.status \in {"waiting", "preempted"}
  /\ req' \in [Reqs -> RequestType] /\ \A s \in Reqs \ {r} : req'[s] = req[s]
  /\ q.status = "running" /\ q.computed = hit /\ q.holders = p.holders
  /\ q.spec = p.spec /\ q.flight = p.flight /\ q.stale = p.stale /\ q.drop = p.drop
  /\ q.chunk = p.chunk /\ q.cool = p.cool /\ q.blocks = p.blocks + NewBlocks(r, hit, n)
  /\ free' = free - NewBlocks(r, hit, n)
  /\ loop' \in LoopType /\ RowsFit(loop')
  /\ loop'.i = loop.i /\ loop'.want = loop.want
  /\ loop'.tokens = loop.tokens - n /\ loop'.input = loop.input - (n + DraftSlots)
  /\ loop'.n = With(loop.n, r, n) /\ loop'.d = With(loop.d, r, d)
  /\ loop'.fresh = With(loop.fresh, r, [computed |-> hit, prefill |-> Tokens(r)])
  /\ loop'.skipped = loop.skipped
  /\ loop'.prefills = loop.prefills /\ loop'.preempted = loop.preempted
  /\ UNCHANGED <<out, finished, pause, pc, steps, worker, controls>>

\* What the admission of a waiting request assigns.
LEMMA AdmitIs ==
  ASSUME Base, NEW hit \in Hits, AtWaiting, hit \in HitsOf(Candidate), Admit(hit)
  PROVE  \E r \in Reqs, n \in Counts, d \in 0..NumSpec : AdmitEffect(hit, r, n, d)
<1> DEFINE r == Candidate
           n == OfferToWaiting(r, hit).n
           d == OfferToWaiting(r, hit).d
           p == req[r]
           q == req'[r]
           b == NewBlocks(r, hit, n)
           f == [computed |-> hit, prefill |-> Tokens(r)]
           t == loop.tokens - n
           u == loop.input - (n + DraftSlots)
           x == With(loop.n, r, n)
           y == With(loop.d, r, d)
           z == With(loop.fresh, r, f)
<1>1. /\ ~AwaitsOutput(r) /\ n > 0 /\ Fits(r, hit, n) /\ PopCandidate
      /\ running' = Append(running, r)
      /\ req' = [req EXCEPT ![r].status = "running", ![r].computed = hit,
                        ![r].blocks = @ + b]
      /\ free' = free - b
      /\ loop' = [loop EXCEPT !.tokens = t, !.input = u, !.n = x, !.d = y, !.fresh = z]
      /\ UNCHANGED <<out, finished, pause, pc, steps, worker, controls>>
  BY Zenon DEF Admit
<1>2. /\ r \in Reqs /\ p.status \in {"waiting", "preempted"} /\ r \notin Elements(running)
      /\ pc = "waiting"
  BY CandidateIs DEF AtWaiting
<1>3. hit \in Nat /\ hit < Tokens(r) /\ Tokens(r) \in Nat /\ p \in RequestType
  BY <1>2, RequestFacts, AsyncSchedulerAssumption DEF HitsOf
<1>4. r \notin DOMAIN loop.n
  BY <1>2 DEF Base, Cursor
<1>5. n \in Counts /\ d \in 0..NumSpec
  <2>1. n \in Nat /\ d \in 0..NumSpec
    <3> HIDE DEF r
    <3> QED
      BY <1>2, <1>3, OfferIs
  <2> QED
    BY <1>1, <2>1 DEF Counts
<1> HIDE DEF r, n, d
<1>6. b \in Nat
  <2>1. p.blocks \in Nat /\ n \in Int /\ hit \in Int
    BY <1>3, <1>5 DEF RequestType, Counts
  <2>2. req[r].blocks \in Nat
    BY <2>1
  <2> HIDE DEF p
  <2> QED
    BY <1>2, <2>1, <2>2, NewBlocksNat
<1>7. q = [p EXCEPT !.status = "running", !.computed = hit, !.blocks = p.blocks + b]
      /\ req' \in [Reqs -> {q} \cup RequestType] /\ \A s \in Reqs \ {r} : req'[s] = req[s]
  <2>1. req \in [Reqs -> RequestType]
    BY DEF Base, Types
  <2> HIDE DEF b
  <2> QED
    BY <1>1, <1>2, <2>1
<1>8. f \in [computed : Nat, prefill : Nat]
  BY <1>3
<1> HIDE DEF f, x, y, z
<1>9. x \in Rows /\ DOMAIN x = DOMAIN loop.n \cup {r}
  BY <1>2, <1>5, LoopFacts, RowsWith DEF x
<1>10. y \in Drafts /\ DOMAIN y = DOMAIN loop.d \cup {r}
  BY <1>2, <1>5, LoopFacts, DraftsWith DEF y
<1>11. z \in RowStates /\ DOMAIN z = DOMAIN loop.fresh \cup {r}
  BY <1>2, <1>8, LoopFacts, RowStatesWith DEF z
<1>12. t \in Int /\ u \in Int /\ loop \in LoopType
  BY <1>5, LoopFacts DEF Counts
<1> HIDE DEF p, q, b, t, u, x, y, z
<1>13. loop' \in LoopType
  BY <1>1, <1>9, <1>10, <1>11, <1>12, Zenon DEF LoopType
<1>14. /\ loop'.i = loop.i /\ loop'.want = loop.want /\ loop'.tokens = t /\ loop'.input = u
       /\ loop'.n = x /\ loop'.d = y /\ loop'.prefills = loop.prefills /\ loop'.fresh = z
       /\ loop'.skipped = loop.skipped /\ loop'.preempted = loop.preempted
  BY <1>1, <1>12, Zenon DEF LoopType
<1>15. RowsFit(loop')
  BY <1>9, <1>10, <1>11, <1>14, LoopFacts DEF RowsFit
<1>16. q.status = "running" /\ q.computed = hit /\ q.holders = p.holders
       /\ q.spec = p.spec /\ q.flight = p.flight /\ q.stale = p.stale /\ q.cool = p.cool
       /\ q.blocks = p.blocks + b
  BY <1>3, <1>7 DEF RequestType
<1>17. q.drop = p.drop /\ q.chunk = p.chunk
  BY <1>3, <1>7, Zenon DEF RequestType
<1>18. q \in RequestType
  <2>1. p.blocks + b \in Nat /\ hit \in Int /\ "running" \in Statuses
    BY <1>3, <1>6 DEF RequestType, Statuses
  <2> QED
    BY <1>3, <1>7, <2>1, Zenon DEF RequestType
<1>19. req' \in [Reqs -> RequestType]
  BY <1>7, <1>18
<1>20. AdmitEffect(hit, r, n, d)
  BY <1>1, <1>2, <1>3, <1>4, <1>5, <1>6, <1>7, <1>13, <1>14, <1>15, <1>16, <1>17, <1>19, Zenon
     DEF AdmitEffect, r, n, d, p, q, b, t, u, x, y, z, f
<1> QED
  BY <1>2, <1>5, <1>20

\* A new request arrives.
AddEffect(r) ==
  LET q == req'[r]
      p == req[r]
  IN
  /\ pc = "engine" /\ r \in Reqs /\ p.status = "new" /\ q.status = "waiting"
  /\ req' \in [Reqs -> RequestType] /\ \A s \in Reqs \ {r} : req'[s] = req[s]
  /\ q.computed = p.computed /\ q.holders = p.holders
  /\ q.spec = p.spec /\ q.flight = p.flight /\ q.stale = p.stale /\ q.drop = p.drop
  /\ q.chunk = p.chunk /\ q.cool = p.cool /\ q.blocks = p.blocks
  /\ waiting' = Added(waiting, r)
  /\ UNCHANGED <<out, running, skipped, finished, free, pause, pc, loop, steps, worker, controls>>

\* What add_request assigns.
LEMMA AddIs ==
  ASSUME Base, NEW r \in Reqs, AddRequest(r)
  PROVE  AddEffect(r)
<1> DEFINE q == req'[r]
           p == req[r]
<1>1. /\ pc = "engine" /\ p.status = "new" /\ waiting' = Added(waiting, r)
      /\ req' = [req EXCEPT ![r].status = "waiting"]
      /\ UNCHANGED <<out, running, skipped, finished, free, pause, pc, loop, steps, worker, controls>>
  BY DEF AddRequest
<1>2. req \in [Reqs -> RequestType] /\ p \in RequestType
  BY RequestFacts DEF Base, Types
<1>3. /\ q = [p EXCEPT !.status = "waiting"] /\ req' \in [Reqs -> {q} \cup RequestType]
      /\ \A s \in Reqs \ {r} : req'[s] = req[s]
  BY <1>1, <1>2
<1> HIDE DEF p, q
<1>4. q.computed = p.computed /\ q.holders = p.holders /\ q.status = "waiting"
      /\ q.spec = p.spec /\ q.flight = p.flight /\ q.stale = p.stale
      /\ q.cool = p.cool /\ q.blocks = p.blocks
  BY <1>2, <1>3 DEF RequestType
<1>5. q \in RequestType /\ q.drop = p.drop /\ q.chunk = p.chunk
  BY <1>2, <1>3, Zenon DEF RequestType, Statuses
<1>6. req' \in [Reqs -> RequestType]
  BY <1>3, <1>5
<1> QED
  BY <1>1, <1>3, <1>4, <1>5, <1>6, Zenon DEF AddEffect, p, q

\* An unfinished request is aborted.
AbortEffect(r) ==
  /\ pc = "engine" /\ r \in Reqs /\ req[r].status \in {"waiting", "running", "preempted"}
  /\ req' \in [Reqs -> RequestType] /\ \A s \in Reqs \ {r} : req'[s] = req[s]
  /\ req'[r] = Closed
  /\ running' = Without(running, {r}) /\ waiting' = Without(waiting, {r})
  /\ skipped' = Without(skipped, {r}) /\ finished' = finished \cup {r}
  /\ free' = free + req[r].blocks /\ controls' \in 0..MaxControls
  /\ UNCHANGED <<out, pause, pc, loop, steps, worker>>

\* A call from outside is counted, and comes between two turns.
LEMMA ControlIs ==
  ASSUME Base, NEW c, Control(c)
  PROVE  controls' \in 0..MaxControls /\ pc = "engine"
BY AsyncSchedulerAssumption DEF Base, Types, Control

\* What an abort assigns.
LEMMA AbortIs ==
  ASSUME Base, NEW r \in Reqs, AbortRequest(r)
  PROVE  AbortEffect(r)
<1>1. /\ Control("abort") /\ req[r].status \in {"waiting", "running", "preempted"}
      /\ req' = [req EXCEPT ![r] = Closed]
      /\ running' = Without(running, {r}) /\ waiting' = Without(waiting, {r})
      /\ skipped' = Without(skipped, {r}) /\ finished' = finished \cup {r}
      /\ free' = free + req[r].blocks
      /\ UNCHANGED <<out, pause, pc, loop, steps, worker>>
  BY DEF AbortRequest
<1>2. req \in [Reqs -> RequestType] /\ Closed \in RequestType
  BY ClosedType DEF Base, Types
<1>3. /\ req' \in [Reqs -> RequestType] /\ req'[r] = Closed
      /\ \A s \in Reqs \ {r} : req'[s] = req[s]
  BY <1>1, <1>2
<1> QED
  BY <1>1, <1>3, ControlIs DEF AbortEffect

\* All running requests are preempted.
ResetEffect ==
  /\ pc = "engine" /\ running # <<>>
  /\ req' \in [Reqs -> RequestType]
  /\ \A r \in Reqs : r \notin Elements(running) => req'[r] = req[r]
  /\ \A r \in Elements(running) :
       LET q == req'[r]
           p == req[r]
       IN  /\ q.status = "preempted" /\ q.computed = 0 /\ q.holders = 0 /\ q.spec = 0
           /\ q.flight = p.flight /\ q.stale = p.flight /\ q.drop = KeepsDropping(p, TRUE)
           /\ q.chunk = p.chunk /\ q.cool = p.cool /\ q.blocks = 0
  /\ waiting' = AllPrepended(waiting, running) /\ running' = <<>>
  /\ free' = free + BlocksOf(Elements(running)) /\ controls' \in 0..MaxControls
  /\ UNCHANGED <<out, skipped, finished, pause, pc, loop, steps, worker>>

\* What a reset of the prefix cache assigns: it preempts every running request.
LEMMA ResetIs ==
  ASSUME Base, ResetPrefixCache
  PROVE  ResetEffect
<1>1. /\ Control("reset") /\ running # <<>>
      /\ req' = [r \in Reqs |-> IF r \in Elements(running) THEN Preempted(req[r], TRUE)
                                ELSE req[r]]
      /\ waiting' = AllPrepended(waiting, running) /\ running' = <<>>
      /\ free' = free + BlocksOf(Elements(running))
      /\ UNCHANGED <<out, skipped, finished, pause, pc, loop, steps, worker>>
  BY DEF ResetPrefixCache
<1>2. \A r \in Reqs : req[r] \in RequestType
  BY RequestFacts
<1>3. \A r \in Reqs : req'[r] = IF r \in Elements(running) THEN Preempted(req[r], TRUE)
                                ELSE req[r]
  BY <1>1
<1>4. \A r \in Reqs : req'[r] \in RequestType
  BY <1>2, <1>3, PreemptedType
<1>5. req' \in [Reqs -> RequestType]
  BY <1>1, <1>4
<1>6. Elements(running) \in SUBSET Reqs
  BY ElementsFinite DEF Base, Queues, IsQueue
<1>7. ASSUME NEW r \in Elements(running)
      PROVE  LET q == req'[r]
                 p == req[r]
             IN  /\ q.status = "preempted" /\ q.computed = 0 /\ q.holders = 0 /\ q.spec = 0
                 /\ q.flight = p.flight /\ q.stale = p.flight
                 /\ q.drop = KeepsDropping(p, TRUE)
                 /\ q.chunk = p.chunk /\ q.cool = p.cool /\ q.blocks = 0
  <2>1. req'[r] = Preempted(req[r], TRUE) /\ req[r] \in RequestType
    BY <1>2, <1>3, <1>6
  <2> DEFINE p == req[r]
             q == Preempted(p, TRUE)
  <2>2. p \in RequestType /\ TRUE \in BOOLEAN
    BY <2>1
  <2> HIDE DEF p
  <2>3. /\ q.status = "preempted" /\ q.computed = 0 /\ q.holders = 0 /\ q.spec = 0
        /\ q.flight = p.flight /\ q.stale = p.flight
        /\ q.drop = KeepsDropping(p, TRUE)
        /\ q.chunk = p.chunk /\ q.cool = p.cool /\ q.blocks = 0
    BY <2>2, PreemptedType
  <2> QED
    BY <2>1, <2>3, Zenon DEF p
<1> QED
  BY <1>1, <1>3, <1>5, <1>7, ControlIs, Zenon DEF ResetEffect

\* Only the cursor, or what was skipped, changes in schedule()'s variables.
LoopButI(i) ==
  /\ loop' \in LoopType /\ RowsFit(loop') /\ loop'.i = i /\ loop'.skipped = loop.skipped
  /\ loop'.want = loop.want /\ loop'.tokens = loop.tokens /\ loop'.input = loop.input
  /\ loop'.n = loop.n /\ loop'.d = loop.d /\ loop'.fresh = loop.fresh
  /\ loop'.prefills = loop.prefills /\ loop'.preempted = loop.preempted
LoopButSkipped(s) ==
  /\ loop' \in LoopType /\ RowsFit(loop') /\ loop'.i = loop.i /\ loop'.skipped = s
  /\ loop'.want = loop.want /\ loop'.tokens = loop.tokens /\ loop'.input = loop.input
  /\ loop'.n = loop.n /\ loop'.d = loop.d /\ loop'.fresh = loop.fresh
  /\ loop'.prefills = loop.prefills /\ loop'.preempted = loop.preempted

\* schedule() moves its cursor and nothing else.
LEMMA LoopMoves ==
  ASSUME Base, NEW i \in Counts, loop' = [loop EXCEPT !.i = i]
  PROVE  LoopButI(i)
<1>1. loop \in LoopType /\ RowsFit(loop)
  BY LoopFacts
<1>2. /\ loop' \in LoopType /\ loop'.i = i /\ loop'.skipped = loop.skipped
      /\ loop'.want = loop.want /\ loop'.tokens = loop.tokens /\ loop'.input = loop.input
      /\ loop'.n = loop.n /\ loop'.d = loop.d /\ loop'.fresh = loop.fresh
      /\ loop'.prefills = loop.prefills /\ loop'.preempted = loop.preempted
  BY <1>1, Zenon DEF LoopType
<1> QED
  BY <1>1, <1>2 DEF LoopButI, RowsFit

\* schedule() sets requests aside and nothing else.
LEMMA LoopSkips ==
  ASSUME Base, NEW s \in Seq(Reqs), loop' = [loop EXCEPT !.skipped = s]
  PROVE  LoopButSkipped(s)
<1>1. loop \in LoopType /\ RowsFit(loop)
  BY LoopFacts
<1>2. /\ loop' \in LoopType /\ loop'.i = loop.i /\ loop'.skipped = s
      /\ loop'.want = loop.want /\ loop'.tokens = loop.tokens /\ loop'.input = loop.input
      /\ loop'.n = loop.n /\ loop'.d = loop.d /\ loop'.fresh = loop.fresh
      /\ loop'.prefills = loop.prefills /\ loop'.preempted = loop.preempted
  BY <1>1, Zenon DEF LoopType
<1> QED
  BY <1>1, <1>2 DEF LoopButSkipped, RowsFit

\* What passing over a running request assigns.
LEMMA SkipRunningIs ==
  ASSUME Base, SkipRunning
  PROVE  /\ AtRunning /\ pc = "running" /\ WantedNow = 0 /\ LoopButI(loop.i + 1)
         /\ UNCHANGED <<req, out, running, waiting, skipped, finished, free, pause, pc, steps,
                        worker, controls>>
<1>1. /\ AtRunning /\ pc = "running" /\ WantedNow = 0 /\ loop' = [loop EXCEPT !.i = loop.i + 1]
      /\ UNCHANGED <<req, out, running, waiting, skipped, finished, free, pause, pc, steps,
                     worker, controls>>
  BY DEF SkipRunning, queueVars, AtRunning
<1>2. loop.i + 1 \in Counts
  BY LoopFacts DEF Counts
<1> QED
  BY <1>1, <1>2, LoopMoves

\* What setting a waiting request aside assigns.
LEMMA SkipWaitingIs ==
  ASSUME Base, SkipWaiting
  PROVE  /\ AtWaiting /\ pc = "waiting" /\ AwaitsOutput(Candidate) /\ PopCandidate
         /\ LoopButSkipped(Append(loop.skipped, Candidate))
         /\ UNCHANGED <<req, out, running, finished, free, pause, pc, steps, worker, controls>>
<1>1. /\ AtWaiting /\ pc = "waiting" /\ AwaitsOutput(Candidate) /\ PopCandidate
      /\ loop' = [loop EXCEPT !.skipped = Append(loop.skipped, Candidate)]
      /\ UNCHANGED <<req, out, running, finished, free, pause, pc, steps, worker, controls>>
  BY DEF SkipWaiting, AtWaiting
<1>2. Append(loop.skipped, Candidate) \in Seq(Reqs)
  BY <1>1, CandidateIs, LoopFacts
<1> QED
  BY <1>1, <1>2, LoopSkips

\* What the end of the loop over the waiting requests assigns.
LEMMA EndWaitingIs ==
  ASSUME Base, EndWaiting
  PROVE  /\ pc = "waiting" /\ pc' = "update" /\ LoopButSkipped(<<>>)
         /\ skipped' = AllPrepended(skipped, loop.skipped)
         /\ UNCHANGED <<req, out, running, waiting, finished, free, pause, steps, worker, controls>>
<1>1. /\ pc = "waiting" /\ pc' = "update" /\ loop' = [loop EXCEPT !.skipped = <<>>]
      /\ skipped' = AllPrepended(skipped, loop.skipped)
      /\ UNCHANGED <<req, out, running, waiting, finished, free, pause, steps, worker, controls>>
  BY DEF EndWaiting
<1>2. <<>> \in Seq(Reqs)
  OBVIOUS
<1> QED
  BY <1>1, <1>2, LoopSkips

-----------------------------------------------------------------------------
(* Base is inductive.                                                       *)

\* Counts of blocks are numbers.
LEMMA BlocksNat ==
  ASSUME Base, NEW r \in Reqs
  PROVE  req[r].blocks \in Nat /\ free \in Int
<1>1. req[r] \in RequestType
  BY RequestFacts
<1> QED
  BY <1>1 DEF Base, Types, RequestType

\* An interval has one end.
LEMMA SameEnd ==
  ASSUME NEW a \in Nat, NEW b \in Nat, 1..a = 1..b
  PROVE  a = b
<1>1. ~(a < b)
  <2> SUFFICES ASSUME a < b PROVE FALSE
    OBVIOUS
  <2>1. b \in 1..b /\ b \notin 1..a
    OBVIOUS
  <2> QED
    BY <2>1
<1>2. ~(b < a)
  <2> SUFFICES ASSUME b < a PROVE FALSE
    OBVIOUS
  <2>1. a \in 1..a /\ a \notin 1..b
    OBVIOUS
  <2> QED
    BY <2>1
<1> QED
  BY <1>1, <1>2

\* add_request keeps Base: the request enters one queue.
LEMMA AddBase ==
  ASSUME Base, NEW r \in Reqs, AddRequest(r)
  PROVE  Base'
<1>1. AddEffect(r)
  BY AddIs
<1>2. Types'
  BY <1>1 DEF AddEffect, Base, Types
<1>3. Places'
  BY <1>1 DEF AddEffect, Base, Places
<1>4. Cursor'
  BY <1>1, NoLoopType DEF AddEffect, Base, Places, Cursor
<1>5. /\ r \notin Elements(running) /\ r \notin Elements(waiting)
      /\ r \notin Elements(skipped) /\ r \notin Elements(loop.skipped)
  BY <1>1 DEF AddEffect, Base, Queues
<1>6. IsQueue(waiting') /\ Elements(waiting') = Elements(waiting) \cup {r}
  BY <1>1, <1>5, AddedIs DEF AddEffect, Base, Queues
<1>7. Queues'
  BY <1>1, <1>5, <1>6 DEF AddEffect, Base, Queues, Apart
<1> QED
  BY <1>2, <1>3, <1>4, <1>7 DEF Base

\* An abort keeps Base: the request leaves the queue it was in.
LEMMA AbortBase ==
  ASSUME Base, NEW r \in Reqs, AbortRequest(r)
  PROVE  Base'
<1>1. AbortEffect(r)
  BY AbortIs
<1>2. Types'
  <2>1. free' \in Int
    BY <1>1, BlocksNat DEF AbortEffect
  <2> QED
    BY <1>1, <2>1 DEF AbortEffect, Base, Types
<1>3. Places'
  BY <1>1 DEF AbortEffect, Base, Places
<1>4. /\ IsQueue(running') /\ Elements(running') = Elements(running) \ {r}
      /\ IsQueue(waiting') /\ Elements(waiting') = Elements(waiting) \ {r}
      /\ IsQueue(skipped') /\ Elements(skipped') = Elements(skipped) \ {r}
  BY <1>1, WithoutIs DEF AbortEffect, Base, Queues
<1>5. loop = NoLoop /\ loop' = loop /\ pc' = "engine"
  BY <1>1 DEF AbortEffect, Base, Places
<1>6. Cursor'
  BY <1>5, NoLoopType DEF Cursor
<1>7. Elements(loop.skipped) = {}
  BY <1>5, NoLoopType, EmptyQueue
<1>8. Queues'
  <2>1. Closed.status = "finished"
    BY ClosedType
  <2> QED
    BY <1>1, <1>4, <1>5, <1>7, <2>1 DEF AbortEffect, Base, Queues, Apart
<1> QED
  BY <1>2, <1>3, <1>6, <1>8 DEF Base

\* The blocks of a set of requests are a number.
LEMMA BlocksInt ==
  ASSUME Base, NEW S \in SUBSET Reqs, IsFiniteSet(S)
  PROVE  BlocksOf(S) \in Int
<1> DEFINE f == [r \in Reqs |-> req[r].blocks]
<1>1. \A r \in S : f[r] \in Int
  BY RequestFacts DEF RequestType
<1> HIDE DEF f
<1>2. SumFunctionOnSet(f, S) \in Int
  BY <1>1, SumInt
<1> QED
  BY <1>2 DEF f, BlocksOf

\* A reset keeps Base: the running requests move to the waiting queue.
LEMMA ResetBase ==
  ASSUME Base, ResetPrefixCache
  PROVE  Base'
<1>1. ResetEffect
  BY ResetIs
<1>2. IsQueue(running) /\ IsQueue(waiting) /\ Apart(running, waiting)
  BY DEF Base, Queues
<1>3. IsFiniteSet(Elements(running)) /\ Elements(running) \in SUBSET Reqs
  BY <1>2, ElementsFinite DEF IsQueue
<1>4. Types'
  <2>1. free' \in Int
    BY <1>1, <1>3, BlocksInt DEF ResetEffect, Base, Types
  <2> QED
    BY <1>1, <2>1 DEF ResetEffect, Base, Types
<1>5. Places'
  BY <1>1 DEF ResetEffect, Base, Places
<1>6. IsQueue(waiting') /\ Elements(waiting') = Elements(waiting) \cup Elements(running)
  <2>1. Elements(waiting) \cap Elements(running) = {}
    BY <1>2 DEF Apart
  <2> QED
    BY <1>1, <1>2, <2>1, AllPrependedIs DEF ResetEffect
<1>7. IsQueue(running') /\ Elements(running') = {}
  BY <1>1, EmptyQueue DEF ResetEffect
<1>8. loop = NoLoop /\ loop' = loop /\ pc' = "engine"
  BY <1>1 DEF ResetEffect, Base, Places
<1>9. Cursor'
  BY <1>8, NoLoopType DEF Cursor
<1>10. Elements(loop.skipped) = {}
  BY <1>8, NoLoopType, EmptyQueue
<1>11. Queues'
  BY <1>1, <1>3, <1>6, <1>7, <1>8, <1>10 DEF ResetEffect, Base, Queues, Apart
<1> QED
  BY <1>4, <1>5, <1>9, <1>11 DEF Base

\* Setting the pause state keeps Base.
LEMMA PauseBase ==
  ASSUME Base, NEW p \in {"unpaused", "new", "all"}, SetPauseState(p)
  PROVE  Base'
<1>1. /\ Control("pause") /\ pause' = p
      /\ UNCHANGED <<req, out, running, waiting, skipped, finished, free, pc, loop, steps, worker>>
  BY DEF SetPauseState, queueVars
<1>2. Types'
  BY <1>1, ControlIs DEF Base, Types
<1>3. Places' /\ Queues'
  BY <1>1 DEF Base, Places, Queues
<1>4. Cursor'
  BY <1>1, ControlIs, NoLoopType DEF Base, Places, Cursor
<1> QED
  BY <1>2, <1>3, <1>4 DEF Base

\* The beginning of schedule() keeps Base: no request has a share yet.
LEMMA BeginBase ==
  ASSUME Base, BeginSchedule
  PROVE  Base'
<1>1. BeginEffect
  BY BeginIs
<1>2. Types'
  BY <1>1 DEF BeginEffect, Base, Types
<1>3. Places'
  BY <1>1 DEF BeginEffect, Base, Places
<1>4. Cursor'
  <2>1. running \in Seq(Reqs)
    BY DEF Base, Queues, IsQueue
  <2> QED
    BY <1>1, <2>1 DEF BeginEffect, Base, Cursor
<1>5. loop.skipped = <<>>
  BY <1>1, NoLoopType DEF BeginEffect, Base, Places
<1>6. Queues'
  BY <1>1, <1>5 DEF BeginEffect, Base, Queues
<1> QED
  BY <1>2, <1>3, <1>4, <1>6 DEF Base

\* Passing over a running request keeps Base: the cursor stays within the list.
LEMMA SkipRunningBase ==
  ASSUME Base, SkipRunning
  PROVE  Base'
<1>1. /\ AtRunning /\ pc = "running" /\ WantedNow = 0 /\ LoopButI(loop.i + 1)
      /\ UNCHANGED <<req, out, running, waiting, skipped, finished, free, pause, pc, steps,
                     worker, controls>>
  BY SkipRunningIs
<1>2. Types'
  BY <1>1 DEF LoopButI, Base, Types
<1>3. Places'
  BY <1>1 DEF LoopButI, Base, Places
<1>4. Queues'
  BY <1>1 DEF LoopButI, Base, Queues
<1>5. loop.want = 0 /\ loop.i \in 1..Len(running) /\ Len(running) \in Nat
  <2>1. loop.i \in 1..Len(running) /\ Len(running) \in Nat
    BY <1>1, CurrentIs DEF Base, Queues, IsQueue
  <2>2. loop.want = 0
    BY <1>1, LoopFacts DEF WantedNow
  <2> QED
    BY <2>1, <2>2
<1>6. DOMAIN loop.n \subseteq {running[k] : k \in 1..(loop.i - 1)}
  BY <1>1 DEF Base, Cursor
<1>7. Cursor'
  <2>1. {running[k] : k \in 1..(loop.i - 1)} \subseteq {running[k] : k \in 1..loop.i}
    BY <1>5
  <2>2. loop'.i - 1 = loop.i /\ loop'.i <= Len(running) + 1
    BY <1>1, <1>5 DEF LoopButI
  <2> QED
    BY <1>1, <1>5, <1>6, <2>1, <2>2 DEF LoopButI, Base, Cursor
<1> QED
  BY <1>2, <1>3, <1>4, <1>7 DEF Base

\* Scheduling a running request keeps Base: it is behind the cursor now.
LEMMA RunningBase ==
  ASSUME Base, ScheduleRunning
  PROVE  Base'
<1>1. PICK r \in Reqs, n \in Counts : RunningEffect(r, n)
  BY RunningIs
<1>2. Types'
  <2>1. free' \in Int
    BY <1>1 DEF RunningEffect, Base, Types
  <2> QED
    BY <1>1, <2>1 DEF RunningEffect, Base, Types
<1>3. Places'
  BY <1>1 DEF RunningEffect, Base, Places
<1>4. Queues'
  <2>1. \A s \in Reqs : req'[s].status = req[s].status
    BY <1>1 DEF RunningEffect
  <2> QED
    BY <1>1, <2>1 DEF RunningEffect, Base, Queues
<1>5. loop.i \in 1..Len(running) /\ Len(running) \in Nat /\ r = running[loop.i]
  BY <1>1, CurrentIs DEF RunningEffect, Base, Queues, IsQueue, Current
<1>6. DOMAIN loop.n \subseteq {running[k] : k \in 1..(loop.i - 1)}
  BY <1>1 DEF RunningEffect, Base, Cursor
<1>7. DOMAIN loop'.n = DOMAIN loop.n \cup {r}
  BY <1>1 DEF RunningEffect, With
<1>8. Cursor'
  <2>1. {running[k] : k \in 1..(loop.i - 1)} \cup {r} \subseteq {running[k] : k \in 1..loop.i}
    BY <1>5
  <2>2. loop'.i - 1 = loop.i /\ loop'.i <= Len(running) + 1 /\ loop'.want = 0
    BY <1>1, <1>5 DEF RunningEffect
  <2>3. DOMAIN loop'.n \subseteq {running[k] : k \in 1..(loop'.i - 1)}
    BY <1>6, <1>7, <2>1, <2>2
  <2>4. DOMAIN loop'.n \subseteq Elements(running)
    BY <1>1, <1>7 DEF RunningEffect, Base, Cursor
  <2>5. running' = running /\ pc' = "running"
    BY <1>1 DEF RunningEffect
  <2> QED
    BY <2>2, <2>3, <2>4, <2>5 DEF Cursor
<1> QED
  BY <1>2, <1>3, <1>4, <1>8 DEF Base

\* The request whose turn it is keeps its turn, wherever the victim stood.
LEMMA PreemptCursor ==
  ASSUME Base, NEW v, NEW victim, NEW r, PreemptEffect(v, victim, r), victim # r
  PROVE  /\ loop'.i \in DOMAIN running' /\ running'[loop'.i] = r
         /\ DOMAIN running' = 1..Len(running') /\ Len(running') \in Nat
         /\ DOMAIN loop'.n \subseteq {running'[k] : k \in 1..(loop'.i - 1)}
<1> DEFINE i == loop.i
           L == Len(running)
           j == CursorAfter(v)
<1>1. /\ IsQueue(running) /\ running \in Seq(Reqs) /\ i \in 1..L /\ L \in Nat
      /\ DOMAIN running = 1..L /\ r = running[i]
  BY CurrentIs DEF PreemptEffect, Base, Queues, IsQueue, Current
<1>2. v \in 1..L /\ victim = running[v] /\ v # i
  BY <1>1 DEF PreemptEffect
<1>3. running' = [k \in 1..(L - 1) |-> IF k < v THEN running[k] ELSE running[k + 1]]
  <2>1. running' = Without(running, {running[v]}) /\ v \in DOMAIN running
    BY <1>1, <1>2 DEF PreemptEffect
  <2>2. Without(running, {running[v]}) =
          [k \in 1..(Len(running) - 1) |-> IF k < v THEN running[k] ELSE running[k + 1]]
    BY <1>1, <2>1, WithoutOne
  <2> QED
    BY <2>1, <2>2
<1>4. DOMAIN running' = 1..(L - 1)
  BY <1>3
<1>5. running' \in Seq(Reqs)
  BY <1>1, WithoutIs DEF PreemptEffect, IsQueue
<1>6. Len(running') = L - 1
  <2> DEFINE m == Len(running')
             l == L - 1
  <2>1. m \in Nat /\ 1..m = 1..l
    BY <1>4, <1>5
  <2>2. l \in Nat
    BY <1>1
  <2> HIDE DEF m, l
  <2>3. m = l
    BY <2>1, <2>2, SameEnd
  <2> QED
    BY <2>3 DEF m, l
<1>7. j = (IF v < i THEN i - 1 ELSE i) /\ loop'.i = j
  BY DEF PreemptEffect, CursorAfter
<1> HIDE DEF i, L, j
<1>8. j \in 1..(L - 1) /\ (IF j < v THEN j = i ELSE j + 1 = i)
  BY <1>1, <1>2, <1>7
<1>9. running'[j] = r
  BY <1>1, <1>3, <1>8
<1>10. DOMAIN loop.n \subseteq {running[k] : k \in 1..(i - 1)}
  BY DEF PreemptEffect, Base, Cursor, i
<1>11. DOMAIN loop'.n = DOMAIN loop.n \ {victim}
  BY DEF PreemptEffect, Dropped
<1>12. ASSUME NEW s \in DOMAIN loop'.n
       PROVE  \E k \in 1..(j - 1) : running'[k] = s
  <2>1. PICK k \in 1..(i - 1) : s = running[k]
    BY <1>10, <1>11
  <2>2. k # v
    BY <1>2, <1>11, <2>1
  <2>3. CASE k < v
    <3>1. k \in 1..(j - 1) /\ k \in 1..(L - 1)
      BY <1>1, <1>2, <1>7, <2>1, <2>3
    <3> QED
      BY <1>3, <2>1, <2>3, <3>1
  <2>4. CASE k > v
    <3>1. k - 1 \in 1..(j - 1) /\ k - 1 \in 1..(L - 1) /\ ~(k - 1 < v) /\ (k - 1) + 1 = k
      BY <1>1, <1>2, <1>7, <2>1, <2>4
    <3>2. running'[k - 1] = s
      BY <1>3, <2>1, <3>1
    <3> QED
      BY <3>1, <3>2
  <2> QED
    BY <1>1, <1>2, <2>1, <2>2, <2>3, <2>4
<1> QED
  BY <1>1, <1>2, <1>4, <1>6, <1>7, <1>8, <1>9, <1>12

\* The amount kept for it stays within its need and the budgets.
KeptFits(r, n) ==
  /\ n <= loop'.tokens /\ n <= loop'.input - DraftSlots /\ ~(req'[r].cool > 0)
  /\ n <= Prompt[r] + Len(out'[r]) + req'[r].spec + req'[r].holders - req'[r].computed
  /\ req'[r].computed + n <= MaxModelLen

\* What the current request was to get still fits after a preemption for it.
LEMMA PreemptFits ==
  ASSUME Base, NEW v, NEW victim, NEW r, PreemptEffect(v, victim, r), victim # r
  PROVE  KeptFits(r, WantedNow)
<1> DEFINE back == GivenBack(victim)
           n == WantedNow
<1>1. /\ AtRunning /\ n \in Counts /\ r = Current /\ r \in Reqs /\ req'[r] = req[r]
      /\ out' = out /\ back \in Nat /\ loop'.tokens = loop.tokens + back
      /\ loop'.input = loop.input + (IF back > 0 THEN back + DraftSlots ELSE 0)
  BY DEF PreemptEffect
<1>2. WantFits(r, n)
  BY <1>1, WantedNowIs DEF Counts
<1>3. n <= loop.tokens /\ n <= loop.input - DraftSlots
  BY <1>2 DEF WantFits, InputLeft
<1> HIDE DEF n, back
<1>4. n <= loop'.tokens /\ n <= loop'.input - DraftSlots
  BY <1>1, <1>3, LoopFacts DEF Counts
<1> QED
  BY <1>1, <1>2, <1>4 DEF WantFits, KeptFits, Throttled, Tokens, n

\* A preemption keeps Base: the victim changes queues, the cursor still points
\* at the request it was for.
LEMMA PreemptBase ==
  ASSUME Base, PreemptForRoom
  PROVE  Base'
<1>1. PICK v, victim, r : PreemptEffect(v, victim, r)
  BY PreemptEffectIs
<1>2. Types'
  <2>1. victim \in Reqs /\ free' = free + req[victim].blocks
    BY <1>1 DEF PreemptEffect
  <2>2. free' \in Int
    BY <2>1, BlocksNat
  <2>3. pc' \in {"engine", "running", "waiting", "update", "process"}
    BY <1>1 DEF PreemptEffect
  <2> QED
    BY <1>1, <2>2, <2>3 DEF PreemptEffect, Base, Types
<1>3. Places'
  BY <1>1 DEF PreemptEffect, Base, Places
<1>4. /\ IsQueue(running) /\ IsQueue(waiting)
      /\ victim \in Reqs /\ victim \in Elements(running) /\ victim \notin Elements(waiting)
      /\ victim \notin Elements(skipped) /\ victim \notin Elements(loop.skipped)
  BY <1>1 DEF PreemptEffect, Base, Queues, Apart
<1>5. /\ IsQueue(running') /\ Elements(running') = Elements(running) \ {victim}
      /\ IsQueue(waiting') /\ Elements(waiting') = Elements(waiting) \cup {victim}
  BY <1>1, <1>4, WithoutIs, PrependedIs DEF PreemptEffect
<1>6. Queues'
  <2>1. /\ req'[victim].status = "preempted" /\ \A s \in Reqs \ {victim} : req'[s] = req[s]
        /\ skipped' = skipped /\ loop'.skipped = loop.skipped
    BY <1>1 DEF PreemptEffect
  <2>2. Queues
    BY DEF Base
  <2> QED
    BY <1>4, <1>5, <2>1, <2>2 DEF Queues, Apart
<1>7. DOMAIN loop'.n = DOMAIN loop.n \ {victim}
  BY <1>1 DEF PreemptEffect, Dropped
<1>8. DOMAIN loop'.n \subseteq Elements(running')
  BY <1>5, <1>7 DEF Base, Cursor
<1>9. Cursor'
  <2>1. CASE victim = r
    <3>1. pc' = "update" /\ loop'.want = 0
      BY <1>1, <2>1 DEF PreemptEffect
    <3> QED
      BY <1>8, <3>1 DEF Cursor
  <2>2. CASE victim # r
    <3>1. pc' = "running" /\ loop'.want = WantedNow
      BY <1>1, <2>2 DEF PreemptEffect
    <3>2. /\ loop'.i \in 1..Len(running') /\ Len(running') \in Nat
          /\ DOMAIN loop'.n \subseteq {running'[k] : k \in 1..(loop'.i - 1)}
          /\ Current' = r
      BY <1>1, <2>2, PreemptCursor DEF Current
    <3>3. KeptFits(r, WantedNow)
      BY <1>1, <2>2, PreemptFits
    <3>4. WantFits(Current, loop.want)'
      <4>1. KeptFits(Current', loop'.want)
        BY <3>1, <3>2, <3>3
      <4> QED
        BY <4>1 DEF WantFits, KeptFits, InputLeft, Throttled, Tokens
    <3> QED
      BY <1>8, <3>1, <3>2, <3>4 DEF Cursor
  <2> QED
    BY <2>1, <2>2
<1> QED
  BY <1>2, <1>3, <1>6, <1>9 DEF Base

\* The end of the loop over the running requests keeps Base.
LEMMA EndRunningBase ==
  ASSUME Base, EndRunning
  PROVE  Base'
<1>1. /\ pc = "running" /\ pc' \in {"update", "waiting"} /\ ~AtRunning
      /\ UNCHANGED <<req, out, running, waiting, skipped, finished, free, pause, loop, steps,
                     worker, controls>>
  BY DEF EndRunning, queueVars
<1>2. Types' /\ Places' /\ Queues'
  <2>1. Types'
    BY <1>1 DEF Base, Types
  <2>2. Places'
    BY <1>1 DEF Base, Places
  <2>3. Queues'
    BY <1>1 DEF Base, Queues
  <2> QED
    BY <2>1, <2>2, <2>3
<1>3. ~(loop.want > 0)
  <2> SUFFICES ASSUME loop.want > 0 PROVE FALSE
    OBVIOUS
  <2>1. loop.i <= Len(running) /\ loop.want <= loop.tokens /\ loop.want <= loop.input - DraftSlots
    BY DEF Base, Cursor, WantFits, InputLeft
  <2>2. loop.tokens > 0 /\ loop.input > DraftSlots
    BY <2>1, LoopFacts
  <2> QED
    BY <1>1, <2>1, <2>2 DEF AtRunning
<1>4. Cursor'
  BY <1>1, <1>3 DEF Base, Cursor
<1> QED
  BY <1>2, <1>4 DEF Base

\* Setting a waiting request aside keeps Base: it changes queues.
LEMMA SkipWaitingBase ==
  ASSUME Base, SkipWaiting
  PROVE  Base'
<1> DEFINE r == Candidate
<1>1. /\ AtWaiting /\ pc = "waiting" /\ PopCandidate
      /\ LoopButSkipped(Append(loop.skipped, r))
      /\ UNCHANGED <<req, out, running, finished, free, pause, pc, steps, worker, controls>>
  BY SkipWaitingIs
<1>2. Types'
  BY <1>1 DEF LoopButSkipped, Base, Types
<1>3. Places'
  BY <1>1 DEF LoopButSkipped, Base, Places
<1>4. Cursor'
  BY <1>1 DEF LoopButSkipped, Base, Cursor
<1>5. /\ r \in Reqs /\ r \in Elements(waiting) \cup Elements(skipped)
      /\ r \notin Elements(running)
  BY <1>1, CandidateIs
<1>6. /\ IsQueue(waiting') /\ IsQueue(skipped')
      /\ Elements(waiting') \in SUBSET Elements(waiting)
      /\ Elements(skipped') \in SUBSET Elements(skipped)
      /\ Elements(waiting') \cup Elements(skipped') =
              (Elements(waiting) \cup Elements(skipped)) \ {r}
  BY <1>1, PopIs
<1> HIDE DEF r
<1>7. Queues
  BY DEF Base
<1>8. r \notin Elements(loop.skipped) /\ IsQueue(loop.skipped)
  BY <1>5, <1>7 DEF Queues, Apart
<1>9. IsQueue(loop'.skipped) /\ Elements(loop'.skipped) = Elements(loop.skipped) \cup {r}
  BY <1>1, <1>5, <1>8, AppendedQueue DEF LoopButSkipped
<1>10. Queues'
  BY <1>1, <1>5, <1>6, <1>7, <1>9 DEF Queues, Apart
<1> QED
  BY <1>2, <1>3, <1>4, <1>10 DEF Base

\* An admission keeps Base: the request moves to the running list.
LEMMA AdmitBase ==
  ASSUME Base, NEW hit \in Hits, AtWaiting, hit \in HitsOf(Candidate), Admit(hit)
  PROVE  Base'
<1>1. PICK r \in Reqs, n \in Counts, d \in 0..NumSpec : AdmitEffect(hit, r, n, d)
  BY AdmitIs
<1>2. Types'
  <2>1. free' \in Int
    BY <1>1, BlocksNat DEF AdmitEffect
  <2> QED
    BY <1>1, <2>1 DEF AdmitEffect, Base, Types
<1>3. Places'
  BY <1>1 DEF AdmitEffect, Base, Places
<1>4. /\ IsQueue(waiting') /\ IsQueue(skipped')
      /\ Elements(waiting') \in SUBSET Elements(waiting)
      /\ Elements(skipped') \in SUBSET Elements(skipped)
      /\ Elements(waiting') \cup Elements(skipped') =
              (Elements(waiting) \cup Elements(skipped)) \ {r}
  BY <1>1, PopIs DEF AdmitEffect
<1>5. r \in Elements(waiting) \cup Elements(skipped)
  BY <1>1, CandidateIs DEF AdmitEffect
<1>6. IsQueue(running') /\ Elements(running') = Elements(running) \cup {r}
  BY <1>1, AppendedQueue DEF AdmitEffect, Base, Queues
<1>7. Queues'
  <2>1. /\ req'[r].status = "running" /\ \A s \in Reqs \ {r} : req'[s] = req[s]
        /\ loop'.skipped = loop.skipped
    BY <1>1 DEF AdmitEffect
  <2>2. Queues
    BY DEF Base
  <2>3. r \notin Elements(loop.skipped)
    BY <1>5, <2>2 DEF Queues, Apart
  <2> QED
    BY <1>4, <1>5, <1>6, <2>1, <2>2, <2>3 DEF Queues, Apart
<1>8. DOMAIN loop'.n = DOMAIN loop.n \cup {r}
  BY <1>1 DEF AdmitEffect, With
<1>9. Cursor'
  <2>1. pc' = "waiting" /\ loop'.want = loop.want /\ ~(loop.want > 0)
    BY <1>1 DEF AdmitEffect, Base, Cursor
  <2> QED
    BY <1>6, <1>8, <2>1 DEF Base, Cursor
<1> QED
  BY <1>2, <1>3, <1>7, <1>9 DEF Base

\* The end of the loop over the waiting requests keeps Base: those set aside
\* return to their queue.
LEMMA EndWaitingBase ==
  ASSUME Base, EndWaiting
  PROVE  Base'
<1>1. /\ pc = "waiting" /\ pc' = "update" /\ LoopButSkipped(<<>>)
      /\ skipped' = AllPrepended(skipped, loop.skipped)
      /\ UNCHANGED <<req, out, running, waiting, finished, free, pause, steps, worker, controls>>
  BY EndWaitingIs
<1>2. Types'
  BY <1>1 DEF LoopButSkipped, Base, Types
<1>3. Places'
  BY <1>1 DEF LoopButSkipped, Base, Places
<1>4. Cursor'
  BY <1>1 DEF LoopButSkipped, Base, Cursor
<1>5. Queues
  BY DEF Base
<1>6. IsQueue(skipped') /\ Elements(skipped') = Elements(skipped) \cup Elements(loop.skipped)
  BY <1>1, <1>5, AllPrependedIs DEF Queues, Apart
<1>7. IsQueue(loop'.skipped) /\ Elements(loop'.skipped) = {}
  BY <1>1, EmptyQueue DEF LoopButSkipped
<1>8. Queues'
  BY <1>1, <1>5, <1>6, <1>7 DEF Queues, Apart
<1> QED
  BY <1>2, <1>3, <1>4, <1>8 DEF Base

\* Sending a step keeps Base.
LEMMA UpdateBase ==
  ASSUME Base, UpdateAfterSchedule
  PROVE  Base'
<1>1. Types' /\ Places'
  BY UpdateTypes
<1>2. /\ pc = "update" /\ loop' = NoLoop /\ UNCHANGED <<running, waiting, skipped>>
      /\ \A r \in Reqs : req'[r].status = req[r].status
  <2>1. \A r \in DOMAIN loop.n : req'[r].status = req[r].status
    BY UpdateIs DEF ScheduledIs
  <2>2. \A r \in Reqs : r \notin DOMAIN loop.n => req'[r] = req[r]
    BY UpdateIs
  <2> QED
    BY <2>1, <2>2, UpdateIs
<1>3. Cursor'
  BY <1>2, NoLoopType DEF Cursor
<1>4. loop.skipped = <<>> /\ loop'.skipped = <<>>
  BY <1>2, NoLoopType DEF Base, Places
<1>5. Queues'
  BY <1>2, <1>4 DEF Base, Queues
<1> QED
  BY <1>1, <1>3, <1>5 DEF Base

\* Scheduling ahead keeps Base.
LEMMA AheadBase ==
  ASSUME Base, ScheduleAhead
  PROVE  Base'
<1>1. /\ pc = "process" /\ pc' = "engine"
      /\ UNCHANGED <<req, out, running, waiting, skipped, finished, free, pause, loop, steps,
                     worker, controls>>
  BY DEF ScheduleAhead, queueVars
<1>2. Types'
  BY <1>1 DEF Base, Types
<1>3. Places' /\ Queues'
  BY <1>1 DEF Base, Places, Queues
<1>4. Cursor'
  BY <1>1, NoLoopType DEF Base, Places, Cursor
<1> QED
  BY <1>2, <1>3, <1>4 DEF Base

\* Processing the oldest step keeps Base: the stopped requests leave their
\* queues.
LEMMA OutputBase ==
  ASSUME Base, ProcessOldest
  PROVE  Base'
<1>1. PICK accepted, given, eos : Outcome(accepted, given, eos)
  BY OutcomeExists
<1> DEFINE S == Stopped(given, eos)
<1>2. Types' /\ Places'
  BY OutputTypes
<1>3. /\ running' = Without(running, S) /\ waiting' = Without(waiting, S)
      /\ skipped' = Without(skipped, S) /\ pc' = "engine" /\ loop' = loop
  BY <1>1, OutcomeIs
<1>4. loop = NoLoop /\ pc \in {"engine", "process"}
  BY <1>1 DEF Outcome, ProcessesOldest, Base, Places
<1>5. Cursor'
  BY <1>3, <1>4, NoLoopType DEF Cursor
<1>6. \A r \in Reqs : IF r \notin OldestRows \/ req[r].status = "finished" THEN req'[r] = req[r]
                      ELSE IF r \in S THEN req'[r].status = "finished"
                      ELSE req'[r].status = req[r].status
  <2>1. ASSUME NEW r \in Reqs
        PROVE  req'[r] = IF r \notin OldestRows \/ req[r].status = "finished" THEN req[r]
                         ELSE IF EndsWith(given, eos, r) THEN Closed
                         ELSE AfterOutput(accepted, given, r)
    BY <1>1, OutcomeIs
  <2>2. \A r \in OldestRows : AfterOutput(accepted, given, r).status = req[r].status
    BY <1>1, AfterOutputType
  <2>3. \A r \in Reqs : r \in S <=> EndsWith(given, eos, r)
    BY DEF Stopped
  <2> QED
    BY <2>1, <2>2, <2>3, ClosedType
<1>7. \A r \in Reqs : r \in S => r \in OldestRows /\ req[r].status # "finished"
  <2> SUFFICES ASSUME NEW r \in Reqs, EndsWith(given, eos, r)
               PROVE  r \in OldestRows /\ req[r].status # "finished"
    BY DEF Stopped
  <2>1. r \in OldestRows /\ given[r] > 0
    BY DEF EndsWith
  <2>2. Delivers(r)
    BY <1>1, <2>1, GivenIs
  <2> QED
    BY <2>1, <2>2 DEF Delivers
<1>8. \A r \in Reqs : IF r \in S THEN req'[r].status = "finished"
                      ELSE req'[r].status = req[r].status
  BY <1>6, <1>7
<1> HIDE DEF S
<1>9. Queues
  BY DEF Base
<1>10. /\ IsQueue(running') /\ Elements(running') = Elements(running) \ S
       /\ IsQueue(waiting') /\ Elements(waiting') = Elements(waiting) \ S
       /\ IsQueue(skipped') /\ Elements(skipped') = Elements(skipped) \ S
  BY <1>3, <1>9, WithoutIs DEF Queues
<1>11. loop.skipped = <<>> /\ Elements(loop.skipped) = {}
  BY <1>4, NoLoopType, EmptyQueue
<1>12. Queues'
  BY <1>3, <1>8, <1>9, <1>10, <1>11 DEF Queues, Apart
<1> QED
  BY <1>2, <1>5, <1>12 DEF Base

\* Every step keeps Base.
LEMMA BaseStep == Base /\ [Next]_vars => Base'
<1> SUFFICES ASSUME Base, [Next]_vars PROVE Base'
  OBVIOUS
<1>1. CASE UNCHANGED vars
  <2>1. UNCHANGED <<req, out, running, waiting, skipped, finished, free, pause, pc, loop, steps,
                    worker, controls>>
    BY <1>1 DEF vars, queueVars
  <2>2. Types'
    BY <2>1 DEF Base, Types
  <2>3. Places' /\ Queues'
    BY <2>1 DEF Base, Places, Queues
  <2>4. Cursor'
    BY <2>1 DEF Base, Cursor, WantFits, Current, InputLeft, Throttled, Tokens
  <2> QED
    BY <2>2, <2>3, <2>4 DEF Base
<1>2. CASE \E r \in Reqs : AddRequest(r) \/ AbortRequest(r)
  BY <1>2, AddBase, AbortBase
<1>3. CASE ResetPrefixCache
  BY <1>3, ResetBase
<1>4. CASE \E p \in {"unpaused", "new", "all"} : SetPauseState(p)
  BY <1>4, PauseBase
<1>5. CASE Turn
  <2>1. CASE BeginSchedule
    BY <2>1, BeginBase
  <2>2. CASE SkipRunning \/ ScheduleRunning \/ PreemptForRoom \/ EndRunning
    BY <2>2, SkipRunningBase, RunningBase, PreemptBase, EndRunningBase
  <2>3. CASE SkipWaiting \/ EndWaiting
    BY <2>3, SkipWaitingBase, EndWaitingBase
  <2>4. CASE \E hit \in Hits : AtWaiting /\ hit \in HitsOf(Candidate) /\ Admit(hit)
    BY <2>4, AdmitBase
  <2>5. CASE UpdateAfterSchedule \/ ScheduleAhead \/ ProcessOldest
    BY <2>5, UpdateBase, AheadBase, OutputBase
  <2> QED
    BY <1>5, <2>1, <2>2, <2>3, <2>4, <2>5 DEF Turn
<1> QED
  BY <1>1, <1>2, <1>3, <1>4, <1>5 DEF Next

\* Every state has the types of Base, local variables that fit the place of the
\* engine thread, each request in one queue by its status, and a cursor that
\* has passed exactly the requests with a share of the step.
THEOREM BaseHolds == Spec => []Base
BY BaseInit, BaseStep, PTL DEF Spec

\* The queues are exact in every state of Base.
LEMMA QueuesFromBase == Base => QueuesExact
<1> SUFFICES ASSUME Base PROVE QueuesExact
  OBVIOUS
<1> DEFINE x == running \o waiting
           y == x \o skipped
           z == y \o loop.skipped
<1>1. Queues
  BY DEF Base
<1>2. IsQueue(x) /\ Elements(x) = Elements(running) \cup Elements(waiting)
  BY <1>1, ConcatQueue DEF Queues, Apart
<1> HIDE DEF x
<1>3. IsQueue(y) /\ Elements(y) = Elements(x) \cup Elements(skipped)
  BY <1>1, <1>2, ConcatQueue DEF Queues, Apart
<1> HIDE DEF y
<1>4. IsQueue(z) /\ Elements(z) = Elements(y) \cup Elements(loop.skipped)
  BY <1>1, <1>2, <1>3, ConcatQueue DEF Queues, Apart
<1> HIDE DEF z
<1>5. Len(z) = Cardinality(Elements(z))
  BY <1>4, QueueLength
<1>6. Elements(z) \in SUBSET Reqs /\ Elements(running) \in SUBSET Reqs
  BY <1>1, <1>4, ElementsFinite DEF IsQueue, Queues
<1>7. \A r \in Reqs : r \in Elements(running) <=> req[r].status = "running"
  BY <1>1 DEF Queues
<1>8. ASSUME NEW r \in Reqs
      PROVE  r \in Elements(z) <=> req[r].status \notin {"new", "finished"}
  <2>1. req[r].status \in Statuses
    BY RequestFacts DEF RequestType
  <2> QED
    BY <1>1, <1>2, <1>3, <1>4, <2>1 DEF Queues, Statuses
<1>9. z = running \o waiting \o skipped \o loop.skipped
  BY DEF x, y, z
<1>10. /\ Elements(running) = {r \in Reqs : req[r].status = "running"}
       /\ Elements(z) = {r \in Reqs : req[r].status \notin {"new", "finished"}}
  BY <1>6, <1>7, <1>8
<1> QED
  BY <1>5, <1>9, <1>10 DEF QueuesExact

\* Every accepted, unfinished request is in exactly one queue, once, the one
\* its status says: no preemption, reset, skip, stop or abort loses one.
THEOREM QueuesHold == Spec => []QueuesExact
BY BaseHolds, QueuesFromBase, PTL

-----------------------------------------------------------------------------
(* The budgets.                                                             *)

\* What the rows scheduled so far take of the input budget.
InputOf(f) == SumFunction(f) + DraftSlots * Cardinality(DOMAIN f)

Budgets ==
  /\ Len(running) <= MaxRunning
  /\ pc \in {"running", "waiting", "update"} =>
       /\ loop.tokens >= 0 /\ loop.input >= 0
       /\ IF pause = "all" THEN loop.tokens = 0
                           ELSE SumFunction(loop.n) = MaxScheduled - loop.tokens
       /\ InputOf(loop.n) = MaxBatched - loop.input

\* The sums over no rows, one more and one less.
LEMMA SpentInt ==
  ASSUME NEW f \in Rows
  PROVE  /\ SumFunction(f) \in Int /\ IsFiniteSet(DOMAIN f) /\ Cardinality(DOMAIN f) \in Nat
         /\ InputOf(f) \in Int
<1>1. IsFiniteSet(DOMAIN f) /\ \A r \in DOMAIN f : f[r] \in Int
  BY MapIs DEF Rows, Counts
<1>2. SumFunctionOnSet(f, DOMAIN f) \in Int /\ Cardinality(DOMAIN f) \in Nat
  BY <1>1, SumInt, FS_CardinalityType
<1>3. SumFunction(f) \in Int
  BY <1>2 DEF SumFunction
<1>4. DraftSlots * Cardinality(DOMAIN f) \in Int
  BY <1>2, AsyncSchedulerAssumption
<1> QED
  BY <1>1, <1>2, <1>3, <1>4 DEF InputOf

\* An empty step spends nothing.
LEMMA SpentNothing == SumFunction(<<>>) = 0 /\ InputOf(<<>>) = 0
<1>1. DOMAIN <<>> = {}
  OBVIOUS
<1>2. SumFunctionOnSet(<<>>, {}) = 0 /\ Cardinality({}) = 0
  BY SumEmpty, FS_EmptySet
<1>3. SumFunction(<<>>) = 0
  BY <1>1, <1>2 DEF SumFunction
<1>4. DraftSlots * 0 = 0
  BY AsyncSchedulerAssumption
<1> QED
  BY <1>1, <1>2, <1>3, <1>4 DEF InputOf

\* One request's drafting slots more, or less.
LEMMA SlotsMore ==
  ASSUME NEW a \in Int, NEW c \in Int
  PROVE  a * (c + 1) = a * c + a /\ a * (c - 1) = a * c - a
OBVIOUS

\* What a step spends with one more request ...
LEMMA SpentWith ==
  ASSUME NEW f \in Rows, NEW r \in Reqs, r \notin DOMAIN f, NEW n \in Counts
  PROVE  /\ SumFunction(With(f, r, n)) = SumFunction(f) + n
         /\ InputOf(With(f, r, n)) = InputOf(f) + n + DraftSlots
<1> DEFINE g == With(f, r, n)
           S == DOMAIN f
           c == Cardinality(S)
<1>1. IsFiniteSet(S) /\ \A s \in S : f[s] \in Int
  BY MapIs DEF Rows, Counts
<1>2. DOMAIN g = S \cup {r} /\ g[r] = n /\ \A s \in S : g[s] = f[s]
  BY DEF With
<1>3. \A s \in S \cup {r} : g[s] \in Int
  BY <1>1, <1>2 DEF Counts
<1> HIDE DEF g, S
<1>4. r \notin S
  BY DEF S
<1>5. SumFunctionOnSet(g, S \cup {r}) = SumFunctionOnSet(f, S) + n
  BY <1>1, <1>2, <1>3, <1>4, SumAdd
<1>6. SumFunction(g) = SumFunction(f) + n
  BY <1>2, <1>5 DEF SumFunction, S
<1>7. Cardinality(DOMAIN g) = c + 1
  BY <1>1, <1>2, <1>4, FS_AddElement
<1>8. SumFunction(f) \in Int /\ c \in Int /\ DraftSlots \in Int /\ n \in Int
  BY SpentInt, AsyncSchedulerAssumption DEF Counts, S
<1>9. InputOf(g) = SumFunction(g) + DraftSlots * Cardinality(DOMAIN g)
      /\ InputOf(f) = SumFunction(f) + DraftSlots * c
  BY DEF InputOf, S
<1> HIDE DEF c
<1>10. DraftSlots * (c + 1) = DraftSlots * c + DraftSlots /\ DraftSlots * c \in Int
  BY <1>8, SlotsMore
<1>11. InputOf(g) = InputOf(f) + n + DraftSlots
  BY <1>6, <1>7, <1>8, <1>9, <1>10
<1> QED
  BY <1>6, <1>11 DEF g

\* ... and without one.
LEMMA SpentDropped ==
  ASSUME NEW f \in Rows, NEW r
  PROVE  IF r \in DOMAIN f
         THEN /\ SumFunction(Dropped(f, r)) = SumFunction(f) - f[r]
              /\ InputOf(Dropped(f, r)) = InputOf(f) - (f[r] + DraftSlots)
         ELSE Dropped(f, r) = f
<1> DEFINE g == Dropped(f, r)
           S == DOMAIN f
           c == Cardinality(S)
<1>1. IsFiniteSet(S) /\ \A s \in S : f[s] \in Int
  BY MapIs DEF Rows, Counts
<1>2. CASE r \notin S
  <2>1. S \ {r} = S /\ f = [s \in S |-> f[s]]
    BY <1>2 DEF Rows, Maps
  <2> QED
    BY <1>2, <2>1 DEF Dropped
<1>3. CASE r \in S
  <2>1. DOMAIN g = S \ {r} /\ \A s \in S \ {r} : g[s] = f[s]
    BY DEF Dropped
  <2>2. IsFiniteSet(S \ {r}) /\ \A s \in S \ {r} : f[s] \in Int
    BY <1>1, FS_Subset
  <2> HIDE DEF g, S
  <2>3. SumFunctionOnSet(g, S \ {r}) = SumFunctionOnSet(f, S \ {r})
    BY <2>1, <2>2, SumSame
  <2>4. SumFunctionOnSet(f, S) = f[r] + SumFunctionOnSet(f, S \ {r})
    BY <1>1, <1>3, SumRemove
  <2>5. SumFunctionOnSet(f, S \ {r}) \in Int
    BY <2>2, SumInt
  <2>6. f[r] \in Int
    BY <1>1, <1>3
  <2>7. SumFunction(g) = SumFunction(f) - f[r]
    BY <2>1, <2>3, <2>4, <2>5, <2>6 DEF SumFunction, S
  <2>8. Cardinality(DOMAIN g) = c - 1
    BY <1>1, <1>3, <2>1, FS_RemoveElement
  <2>9. SumFunction(f) \in Int /\ c \in Int /\ DraftSlots \in Int
    BY SpentInt, AsyncSchedulerAssumption DEF S
  <2>10. InputOf(g) = SumFunction(g) + DraftSlots * Cardinality(DOMAIN g)
         /\ InputOf(f) = SumFunction(f) + DraftSlots * c
    BY DEF InputOf, S
  <2> HIDE DEF c
  <2>11. DraftSlots * (c - 1) = DraftSlots * c - DraftSlots /\ DraftSlots * c \in Int
    BY <2>9, SlotsMore
  <2>12. InputOf(g) = InputOf(f) - (f[r] + DraftSlots)
    BY <2>6, <2>7, <2>8, <2>9, <2>10, <2>11
  <2> QED
    BY <1>3, <2>7, <2>12 DEF g, S
<1> QED
  BY <1>2, <1>3

\* Initially nothing runs.
LEMMA BudgetsInit == Init => Budgets
<1>1. Len(<<>>) = 0
  OBVIOUS
<1> QED
  BY <1>1, AsyncSchedulerAssumption DEF Init, Budgets

\* A running request is given no more than is left of the budgets.
LEMMA RunningBudgets ==
  ASSUME Base, Budgets, ScheduleRunning
  PROVE  Budgets'
<1>1. PICK r \in Reqs, n \in Counts : RunningEffect(r, n)
  BY RunningIs
<1>2. /\ AtRunning /\ pc = "running" /\ pc' = pc /\ r = Current /\ n = WantedNow
      /\ r \notin DOMAIN loop.n /\ running' = running /\ pause' = pause
      /\ loop'.tokens = loop.tokens - n /\ loop'.input = loop.input - (n + DraftSlots)
      /\ loop'.n = With(loop.n, r, n)
  BY <1>1 DEF RunningEffect
<1>3. n <= loop.tokens /\ n <= loop.input - DraftSlots
  <2>1. WantFits(r, n)
    BY <1>2, WantedNowIs DEF Counts
  <2> QED
    BY <2>1 DEF WantFits, InputLeft
<1>4. /\ loop.tokens \in Int /\ loop.input \in Int /\ DraftSlots \in Nat /\ loop.n \in Rows
      /\ MaxScheduled \in Nat /\ MaxBatched \in Nat /\ n \in Nat /\ n > 0
  BY LoopFacts, AsyncSchedulerAssumption DEF Counts
<1>5. /\ SumFunction(loop'.n) = SumFunction(loop.n) + n
      /\ InputOf(loop'.n) = InputOf(loop.n) + n + DraftSlots
  BY <1>2, <1>4, SpentWith
<1>6. SumFunction(loop.n) \in Int /\ InputOf(loop.n) \in Int
  BY <1>4, SpentInt
<1>7. loop.tokens > 0 /\ pause # "all"
  BY <1>2, <1>3, <1>4 DEF Budgets
<1>8. /\ pause # "all" /\ SumFunction(loop.n) = MaxScheduled - loop.tokens
        /\ InputOf(loop.n) = MaxBatched - loop.input
  BY <1>2, <1>7 DEF Budgets
<1>9. /\ loop'.tokens >= 0 /\ loop'.input >= 0
        /\ SumFunction(loop'.n) = MaxScheduled - loop'.tokens
        /\ InputOf(loop'.n) = MaxBatched - loop'.input
  BY <1>2, <1>3, <1>4, <1>5, <1>6, <1>8
<1> QED
  BY <1>2, <1>8, <1>9 DEF Budgets

\* A victim gives back exactly its share of both budgets.
LEMMA PreemptBudgets ==
  ASSUME Base, Budgets, PreemptForRoom
  PROVE  Budgets'
<1>1. PICK v, victim, r : PreemptEffect(v, victim, r)
  BY PreemptEffectIs
<1> DEFINE back == GivenBack(victim)
<1>2. /\ pc = "running" /\ pc' \in {"running", "update"} /\ pause' = pause
      /\ loop'.tokens = loop.tokens + back
      /\ loop'.input = loop.input + (IF back > 0 THEN back + DraftSlots ELSE 0)
      /\ loop'.n = Dropped(loop.n, victim) /\ back \in Nat
      /\ v \in DOMAIN running /\ victim = running[v] /\ AtRunning
      /\ Policy = "fcfs" => v = Len(running)
  BY <1>1 DEF PreemptEffect
<1>3. /\ loop.tokens \in Int /\ loop.input \in Int /\ DraftSlots \in Nat /\ loop.n \in Rows
      /\ MaxScheduled \in Nat /\ MaxBatched \in Nat
      /\ SumFunction(loop.n) \in Int /\ InputOf(loop.n) \in Int
  BY LoopFacts, AsyncSchedulerAssumption, SpentInt
<1>4. IsQueue(running) /\ loop.i \in 1..Len(running) /\ running \in Seq(Reqs)
  BY <1>2, CurrentIs DEF Base, Queues, IsQueue
\* Under "fcfs" the last request runs, which is not scheduled yet.
<1>5. victim \in DOMAIN loop.n => Policy = "priority"
  <2> SUFFICES ASSUME victim \in DOMAIN loop.n, Policy # "priority" PROVE FALSE
    OBVIOUS
  <2>1. v = Len(running)
    BY <1>2, AsyncSchedulerAssumption
  <2>2. PICK k \in 1..(loop.i - 1) : victim = running[k]
    BY <1>2 DEF Base, Cursor
  <2>3. k \in DOMAIN running /\ k # v
    BY <1>4, <2>1, <2>2
  <2> QED
    BY <1>2, <1>4, <2>2, <2>3 DEF IsQueue
<1>6. back = IF victim \in DOMAIN loop.n THEN loop.n[victim] ELSE 0
  BY <1>5 DEF GivenBack
<1>7. victim \in DOMAIN loop.n => loop.n[victim] \in Nat /\ loop.n[victim] > 0
  BY <1>3, MapIs DEF Rows, Counts
<1> HIDE DEF back
<1>8. Len(running') <= MaxRunning
  <2>1. IsQueue(running') /\ Elements(running') = Elements(running) \ {victim}
    BY <1>1, <1>4, WithoutIs DEF PreemptEffect
  <2>2. Len(running') = Cardinality(Elements(running'))
        /\ Len(running) = Cardinality(Elements(running))
    BY <1>4, <2>1, QueueLength
  <2>3. IsFiniteSet(Elements(running))
    BY <1>4, ElementsFinite
  <2>4. Cardinality(Elements(running) \ {victim}) <= Cardinality(Elements(running))
        /\ Cardinality(Elements(running) \ {victim}) \in Nat
    BY <2>3, FS_Subset, FS_CardinalityType
  <2>5. Len(running) \in Nat /\ MaxRunning \in Nat
    BY <1>4, AsyncSchedulerAssumption
  <2> QED
    BY <2>1, <2>2, <2>4, <2>5 DEF Budgets
<1>9. IF victim \in DOMAIN loop.n
      THEN /\ SumFunction(loop'.n) = SumFunction(loop.n) - loop.n[victim]
           /\ InputOf(loop'.n) = InputOf(loop.n) - (loop.n[victim] + DraftSlots)
      ELSE loop'.n = loop.n
  BY <1>2, <1>3, SpentDropped
<1>10. pause # "all"
  BY <1>2, <1>3 DEF AtRunning, Budgets
<1>11. /\ pause # "all" /\ SumFunction(loop.n) = MaxScheduled - loop.tokens
        /\ InputOf(loop.n) = MaxBatched - loop.input
  BY <1>2, <1>10 DEF Budgets
<1>12. loop.tokens >= 0 /\ loop.input >= 0
  BY <1>2 DEF Budgets
<1>13. /\ loop'.tokens >= 0 /\ loop'.input >= 0
        /\ SumFunction(loop'.n) = MaxScheduled - loop'.tokens
        /\ InputOf(loop'.n) = MaxBatched - loop'.input
  <2>1. CASE victim \in DOMAIN loop.n
    <3> DEFINE m == loop.n[victim]
    <3>1. /\ loop'.tokens = loop.tokens + m /\ loop'.input = loop.input + m + DraftSlots
          /\ m \in Nat
      BY <1>2, <1>3, <1>6, <1>7, <2>1
    <3>2. /\ SumFunction(loop'.n) = SumFunction(loop.n) - m
          /\ InputOf(loop'.n) = InputOf(loop.n) - (m + DraftSlots)
      BY <1>9, <2>1
    <3> HIDE DEF m
    <3> QED
      BY <1>3, <1>11, <1>12, <3>1, <3>2
  <2>2. CASE victim \notin DOMAIN loop.n
    <3>1. loop'.tokens = loop.tokens /\ loop'.input = loop.input /\ loop'.n = loop.n
      BY <1>2, <1>3, <1>6, <1>9, <2>2
    <3> QED
      BY <1>11, <1>12, <3>1
  <2> QED
    BY <2>1, <2>2
<1> QED
  BY <1>2, <1>8, <1>11, <1>13 DEF Budgets

\* An admitted request is given no more than is left, and runs within the
\* limit.
LEMMA AdmitBudgets ==
  ASSUME Base, Budgets, NEW hit \in Hits, AtWaiting, hit \in HitsOf(Candidate), Admit(hit)
  PROVE  Budgets'
<1>1. PICK r \in Reqs, n \in Counts, d \in 0..NumSpec : AdmitEffect(hit, r, n, d)
  BY AdmitIs
<1>2. /\ AtWaiting /\ pc = "waiting" /\ pc' = pc /\ pause' = pause
      /\ n = OfferToWaiting(r, hit).n /\ hit \in Nat /\ hit < Tokens(r)
      /\ r \notin DOMAIN loop.n /\ running' = Append(running, r)
      /\ loop'.tokens = loop.tokens - n /\ loop'.input = loop.input - (n + DraftSlots)
      /\ loop'.n = With(loop.n, r, n)
  BY <1>1 DEF AdmitEffect
<1>3. n <= loop.tokens /\ n <= loop.input - DraftSlots
  BY <1>2, OfferIs DEF Counts, InputLeft
<1>4. /\ loop.tokens \in Int /\ loop.input \in Int /\ DraftSlots \in Nat /\ loop.n \in Rows
      /\ MaxScheduled \in Nat /\ MaxBatched \in Nat /\ n \in Nat /\ n > 0
  BY LoopFacts, AsyncSchedulerAssumption DEF Counts
<1>5. /\ SumFunction(loop'.n) = SumFunction(loop.n) + n
      /\ InputOf(loop'.n) = InputOf(loop.n) + n + DraftSlots
  BY <1>2, <1>4, SpentWith
<1>6. SumFunction(loop.n) \in Int /\ InputOf(loop.n) \in Int
  BY <1>4, SpentInt
<1>7. loop.tokens > 0 /\ pause # "all"
  BY <1>2, <1>3, <1>4 DEF Budgets
<1>8. Len(running') <= MaxRunning
  <2>1. running \in Seq(Reqs) /\ MaxRunning \in Nat /\ Len(running) < MaxRunning
    BY <1>2, AsyncSchedulerAssumption DEF AtWaiting, Base, Queues, IsQueue
  <2>2. Len(Append(running, r)) = Len(running) + 1 /\ Len(running) \in Nat
    BY <2>1
  <2> QED
    BY <1>2, <2>1, <2>2
<1>9. /\ pause # "all" /\ SumFunction(loop.n) = MaxScheduled - loop.tokens
        /\ InputOf(loop.n) = MaxBatched - loop.input
  BY <1>2, <1>7 DEF Budgets
<1>10. /\ loop'.tokens >= 0 /\ loop'.input >= 0
        /\ SumFunction(loop'.n) = MaxScheduled - loop'.tokens
        /\ InputOf(loop'.n) = MaxBatched - loop'.input
  <2>1. loop'.tokens = loop.tokens - n /\ loop'.input = loop.input - (n + DraftSlots)
    BY <1>2
  <2> QED
    BY <1>3, <1>4, <1>5, <1>6, <1>9, <2>1
<1> QED
  BY <1>2, <1>8, <1>9, <1>10 DEF Budgets

\* A queue that loses requests is no longer.
LEMMA NoLonger ==
  ASSUME NEW q, IsQueue(q), NEW S
  PROVE  Len(Without(q, S)) <= Len(q) /\ Len(Without(q, S)) \in Nat /\ Len(q) \in Nat
<1>1. IsQueue(Without(q, S)) /\ Elements(Without(q, S)) = Elements(q) \ S
  BY WithoutIs
<1>2. /\ Len(Without(q, S)) = Cardinality(Elements(q) \ S)
      /\ Len(q) = Cardinality(Elements(q))
  BY <1>1, QueueLength
<1>3. IsFiniteSet(Elements(q))
  BY ElementsFinite DEF IsQueue
<1>4. /\ Cardinality(Elements(q) \ S) <= Cardinality(Elements(q))
      /\ Cardinality(Elements(q) \ S) \in Nat /\ Cardinality(Elements(q)) \in Nat
  BY <1>3, FS_Subset, FS_CardinalityType
<1> QED
  BY <1>2, <1>4

\* The other steps leave the budgets alone or start new ones.
LEMMA OtherBudgets ==
  ASSUME Base, Budgets, [Next]_vars,
         ~ScheduleRunning, ~PreemptForRoom,
         ~(\E hit \in Hits : AtWaiting /\ hit \in HitsOf(Candidate) /\ Admit(hit))
  PROVE  Budgets'
<1>0. MaxRunning \in Nat /\ IsQueue(running) /\ Len(running) <= MaxRunning
  BY AsyncSchedulerAssumption DEF Base, Queues, Budgets
<1>1. CASE UNCHANGED vars
  <2>1. UNCHANGED <<running, pc, pause, loop>>
    BY <1>1 DEF vars, queueVars
  <2> QED
    BY <2>1 DEF Budgets
<1>2. ASSUME NEW r \in Reqs, AddRequest(r) PROVE Budgets'
  <2>1. pc' = "engine" /\ running' = running
    BY <1>2, AddIs DEF AddEffect
  <2> QED
    BY <2>1 DEF Budgets
<1>3. ASSUME NEW r \in Reqs, AbortRequest(r) PROVE Budgets'
  <2>1. pc' = "engine" /\ running' = Without(running, {r})
    BY <1>3, AbortIs DEF AbortEffect
  <2>2. Len(Without(running, {r})) <= Len(running) /\ Len(Without(running, {r})) \in Nat
        /\ Len(running) \in Nat
    BY <1>0, NoLonger
  <2> QED
    BY <1>0, <2>1, <2>2 DEF Budgets
<1>4. CASE ResetPrefixCache
  <2>1. pc' = "engine" /\ running' = <<>>
    BY <1>4, ResetIs DEF ResetEffect
  <2>2. Len(<<>>) = 0
    OBVIOUS
  <2> QED
    BY <1>0, <2>1, <2>2 DEF Budgets
<1>5. ASSUME NEW p, SetPauseState(p) PROVE Budgets'
  <2>1. pc' = "engine" /\ running' = running
    BY <1>5 DEF SetPauseState, Control, queueVars
  <2> QED
    BY <2>1 DEF Budgets
<1>6. CASE BeginSchedule
  <2>1. BeginEffect
    BY <1>6, BeginIs
  <2> QED
    BY <2>1, SpentNothing, AsyncSchedulerAssumption DEF BeginEffect, Budgets
<1>7. CASE SkipRunning \/ SkipWaiting \/ EndWaiting
  <2>1. /\ loop'.tokens = loop.tokens /\ loop'.input = loop.input /\ loop'.n = loop.n
        /\ running' = running /\ pause' = pause /\ pc \in {"running", "waiting"}
    BY <1>7, SkipRunningIs, SkipWaitingIs, EndWaitingIs DEF LoopButI, LoopButSkipped
  <2> QED
    BY <2>1 DEF Budgets
<1>8. CASE EndRunning
  <2>1. loop' = loop /\ running' = running /\ pause' = pause /\ pc = "running"
    BY <1>8 DEF EndRunning, queueVars
  <2> QED
    BY <2>1 DEF Budgets
<1>9. CASE UpdateAfterSchedule
  <2>1. pc' = "process" /\ running' = running
    BY <1>9, UpdateIs
  <2> QED
    BY <2>1 DEF Budgets
<1>10. CASE ScheduleAhead
  <2>1. pc' = "engine" /\ running' = running
    BY <1>10 DEF ScheduleAhead, queueVars
  <2> QED
    BY <2>1 DEF Budgets
<1>11. CASE ProcessOldest
  <2>1. PICK accepted, given, eos : Outcome(accepted, given, eos)
    BY <1>11, OutcomeExists
  <2> DEFINE S == Stopped(given, eos)
  <2>2. pc' = "engine" /\ running' = Without(running, S)
    BY <2>1, OutcomeIs
  <2> HIDE DEF S
  <2>3. Len(Without(running, S)) <= Len(running) /\ Len(Without(running, S)) \in Nat
        /\ Len(running) \in Nat
    BY <1>0, NoLonger
  <2> QED
    BY <1>0, <2>2, <2>3 DEF Budgets
<1> QED
  BY <1>1, <1>2, <1>3, <1>4, <1>5, <1>6, <1>7, <1>8, <1>9, <1>10, <1>11 DEF Next, Turn

\* Every step keeps the budgets.
LEMMA BudgetsStep == Base /\ Budgets /\ [Next]_vars => Budgets'
BY RunningBudgets, PreemptBudgets, AdmitBudgets, OtherBudgets

\* The assertions at the end of schedule() follow.
LEMMA BudgetsFromBase == Base /\ Budgets => BudgetsExact
BY DEF Base, Cursor, Budgets, BudgetsExact, InputOf

\* What schedule() asserts at its end holds for every policy, budget and
\* sequence of preemptions that gave back their share: what is spent is what
\* the scheduled requests, which all run, were given.
THEOREM BudgetsHold == Spec => []BudgetsExact
<1>1. Init => Base /\ Budgets
  BY BaseInit, BudgetsInit
<1>2. (Base /\ Budgets) /\ [Next]_vars => (Base /\ Budgets)'
  BY BaseStep, BudgetsStep
<1> QED
  BY <1>1, <1>2, BudgetsFromBase, PTL DEF Spec

-----------------------------------------------------------------------------
(* The blocks.                                                              *)

Owned(q) == [r \in Reqs |-> q[r].blocks]

\* What the step under construction has a running request compute.
Share(r) == IF r \in DOMAIN loop.n THEN loop.n[r] ELSE 0

Covered(r) == /\ req[r].computed + Share(r) <= MaxModelLen
              /\ req[r].computed + Share(r) <= req[r].blocks * KVBlock

Slots ==
  /\ free >= 0 /\ free + BlocksOf(Elements(running)) = NumBlocks
  /\ \A r \in Reqs :
       /\ Tokens(r) <= MaxModelLen
       /\ IF r \in Elements(running) THEN Covered(r) ELSE req[r].blocks = 0

\* The blocks of a set of requests, as a sum over a given state of the
\* requests.
LEMMA OwnedIs == \A S : BlocksOf(S) = SumFunctionOnSet(Owned(req), S)
BY DEF BlocksOf, Owned

\* Finitely many requests run.
LEMMA RunningSet ==
  ASSUME Base
  PROVE  IsFiniteSet(Elements(running)) /\ Elements(running) \in SUBSET Reqs
BY ElementsFinite DEF Base, Queues, IsQueue

\* The state q of the requests differs from req at most in r.
SameBut(q, r) ==
  q \in [Reqs -> RequestType] /\ \A s \in Reqs \ {r} : q[s] = req[s]

\* The blocks of S and r in the state q.
Gains(q, S, r) ==
  SumFunctionOnSet(Owned(q), S \cup {r}) = BlocksOf(S \ {r}) + q[r].blocks

\* The blocks of a set of requests when one of them, or one that joins or leaves,
\* changes.
LEMMA BlocksWith ==
  ASSUME Base, NEW S \in SUBSET Reqs, IsFiniteSet(S), NEW r \in Reqs,
         NEW q, SameBut(q, r)
  PROVE  /\ Gains(q, S, r)
         /\ SumFunctionOnSet(Owned(q), S \ {r}) = BlocksOf(S \ {r})
         /\ BlocksOf(S) = BlocksOf(S \ {r}) + (IF r \in S THEN req[r].blocks ELSE 0)
         /\ BlocksOf(S) \in Int /\ BlocksOf(S \ {r}) \in Int
<1> DEFINE f == Owned(req)
           g == Owned(q)
           T == S \ {r}
<1>0. q \in [Reqs -> RequestType] /\ \A s \in Reqs \ {r} : q[s] = req[s]
  BY DEF SameBut
<1>1. IsFiniteSet(T) /\ T \in SUBSET Reqs /\ r \notin T
  BY FS_Subset
<1>2. \A s \in Reqs : f[s] = req[s].blocks /\ f[s] \in Int /\ g[s] = q[s].blocks
  <2>1. \A s \in Reqs : req[s] \in RequestType
    BY RequestFacts
  <2> QED
    BY <2>1 DEF Owned, RequestType
<1>3. \A s \in Reqs : g[s] \in Int
  BY <1>0, <1>2 DEF RequestType
<1>4. \A s \in T : f[s] = g[s]
  BY <1>0, <1>1, <1>2
<1>5. \A s \in S : f[s] \in Int
  BY <1>2
<1>6. S \cup {r} = T \cup {r} /\ (r \notin S => S = T)
  OBVIOUS
<1>7. BlocksOf(S) = SumFunctionOnSet(f, S) /\ BlocksOf(T) = SumFunctionOnSet(f, T)
  BY OwnedIs
<1> HIDE DEF f, g, T
<1>8. SumFunctionOnSet(g, T \cup {r}) = SumFunctionOnSet(f, T) + g[r]
  BY <1>1, <1>3, <1>4, SumAdd
<1>9. SumFunctionOnSet(f, T) = SumFunctionOnSet(g, T)
  BY <1>1, <1>4, SumSame
<1>10. SumFunctionOnSet(f, S) \in Int /\ SumFunctionOnSet(f, T) \in Int
  BY <1>1, <1>2, SumInt
<1>11. r \in S => SumFunctionOnSet(f, S) = f[r] + SumFunctionOnSet(f, T)
  BY <1>5, SumRemove DEF T
<1>12. SumFunctionOnSet(f, S) = SumFunctionOnSet(f, T) + (IF r \in S THEN req[r].blocks ELSE 0)
  BY <1>2, <1>6, <1>10, <1>11
<1>13. SumFunctionOnSet(g, S \cup {r}) = SumFunctionOnSet(f, T) + q[r].blocks
  BY <1>2, <1>6, <1>8
<1> QED
  BY <1>7, <1>9, <1>10, <1>12, <1>13 DEF f, g, T, Gains

\* Initially all blocks are free.
LEMMA SlotsInit == Init => Slots
<1> SUFFICES ASSUME Init PROVE Slots
  OBVIOUS
<1>1. Elements(running) = {} /\ free = NumBlocks /\ NumBlocks \in Nat
  BY EmptyQueue, AsyncSchedulerAssumption DEF Init
<1>2. BlocksOf({}) = 0
  BY OwnedIs, SumEmpty
<1>3. \A r \in Reqs : req[r].blocks = 0
  BY DEF Init, NewRequest
<1>4. \A r \in Reqs : Tokens(r) <= MaxModelLen
  <2> SUFFICES ASSUME NEW r \in Reqs PROVE Tokens(r) <= MaxModelLen
    OBVIOUS
  <2>1. Len(out[r]) = 0 /\ Prompt[r] \in Nat /\ Prompt[r] < MaxModelLen /\ MaxModelLen \in Nat
    BY AsyncSchedulerAssumption DEF Init
  <2> QED
    BY <2>1 DEF Tokens
<1> QED
  BY <1>1, <1>2, <1>3, <1>4 DEF Slots

\* A running request gets blocks for what it is scheduled, from the pool.
LEMMA RunningSlots ==
  ASSUME Base, Slots, ScheduleRunning
  PROVE  Slots'
<1>1. PICK r \in Reqs, n \in Counts : RunningEffect(r, n)
  BY RunningIs
<1> DEFINE S == Elements(running)
           p == req[r]
           b == NewBlocks(r, p.computed, n)
<1>2. /\ AtRunning /\ r = Current /\ n = WantedNow /\ r \in S /\ r \notin DOMAIN loop.n
      /\ Fits(r, p.computed, n) /\ b \in Nat
      /\ req' \in [Reqs -> RequestType] /\ \A s \in Reqs \ {r} : req'[s] = req[s]
      /\ req'[r].computed = p.computed /\ req'[r].blocks = p.blocks + b
      /\ free' = free - b /\ loop'.n = With(loop.n, r, n)
      /\ running' = running /\ out' = out
  BY <1>1 DEF RunningEffect
<1>3. p.computed + n <= MaxModelLen /\ p.computed \in Int /\ p.blocks \in Nat /\ n \in Nat
  <2>1. WantFits(r, n)
    BY <1>2, WantedNowIs DEF Counts
  <2>2. p \in RequestType
    BY RequestFacts
  <2> QED
    BY <2>1, <2>2 DEF WantFits, RequestType, Counts
<1>4. p.computed + n <= (p.blocks + b) * KVBlock
  BY <1>3, NewBlocksAre
<1> HIDE DEF b, S
<1>5. S \cup {r} = S
  BY <1>2 DEF S
<1>5a. IsFiniteSet(S) /\ S \in SUBSET Reqs
  BY <1>2, RunningSet DEF S
<1>6. SumFunctionOnSet(Owned(req'), S) = BlocksOf(S) + b
  <2>0. SameBut(req', r) /\ r \in Reqs
    BY <1>2 DEF SameBut
  <2>0a. SumFunctionOnSet(Owned(req'), S \cup {r}) = BlocksOf(S \ {r}) + req'[r].blocks
    <3>1. Gains(req', S, r)
      BY <1>5a, <2>0, BlocksWith
    <3> QED
      BY <3>1 DEF Gains
  <2>1. /\ SumFunctionOnSet(Owned(req'), S \cup {r}) = BlocksOf(S \ {r}) + req'[r].blocks
        /\ BlocksOf(S) = BlocksOf(S \ {r}) + (IF r \in S THEN p.blocks ELSE 0)
        /\ BlocksOf(S) \in Int /\ BlocksOf(S \ {r}) \in Int
    BY <1>5a, <2>0, <2>0a, BlocksWith
  <2>2. SumFunctionOnSet(Owned(req'), S) = BlocksOf(S \ {r}) + req'[r].blocks
    BY <1>5, <2>1
  <2>3. BlocksOf(S) = BlocksOf(S \ {r}) + p.blocks
    BY <1>2, <2>1
  <2>4. req'[r].blocks = p.blocks + b /\ p.blocks \in Int /\ b \in Int
    BY <1>2, <1>3
  <2> HIDE DEF p
  <2>5. BlocksOf(S \ {r}) \in Int
    BY <2>1
  <2> QED
    BY <2>2, <2>3, <2>4, <2>5
<1>7. BlocksOf(Elements(running))' = SumFunctionOnSet(Owned(req'), S)
  BY <1>2 DEF BlocksOf, Owned, S
<1>8. free' >= 0
  <2>1. free \in Int /\ b <= free
    BY <1>2, BlocksNat DEF Fits, b
  <2> QED
    BY <1>2, <2>1
<1>9. free' + BlocksOf(Elements(running))' = NumBlocks
  <2>1. BlocksOf(S) \in Int /\ free \in Int /\ free + BlocksOf(S) = NumBlocks
    BY <1>5a, BlocksInt, BlocksNat DEF Slots, S
  <2> QED
    BY <1>2, <1>6, <1>7, <2>1
<1>10. Covered(r)'
  <2>1. r \in DOMAIN loop'.n /\ loop'.n[r] = n
    BY <1>2 DEF With
  <2>2. Share(r)' = n
    BY <2>1 DEF Share
  <2> QED
    BY <1>2, <1>3, <1>4, <2>2 DEF Covered
<1>11. ASSUME NEW s \in Reqs, s # r
       PROVE  IF s \in S THEN Covered(s)' ELSE req'[s].blocks = 0
  <2>1. req'[s] = req[s]
    BY <1>2, <1>11
  <2>2. Share(s)' = Share(s)
    BY <1>2, <1>11 DEF Share, With
  <2> QED
    BY <2>1, <2>2 DEF Slots, Covered, S
<1>12. \A s \in Reqs : Tokens(s)' <= MaxModelLen
  BY <1>2 DEF Slots, Tokens
<1> QED
  BY <1>2, <1>8, <1>9, <1>10, <1>11, <1>12 DEF Slots, S

\* An admitted request gets blocks for its cache hit and its first chunk.
LEMMA AdmitSlots ==
  ASSUME Base, Slots, NEW hit \in Hits, AtWaiting, hit \in HitsOf(Candidate), Admit(hit)
  PROVE  Slots'
<1>1. PICK r \in Reqs, n \in Counts, d \in 0..NumSpec : AdmitEffect(hit, r, n, d)
  BY AdmitIs
<1> DEFINE S == Elements(running)
           p == req[r]
           b == NewBlocks(r, hit, n)
<1>2. /\ n = OfferToWaiting(r, hit).n /\ hit \in Nat /\ hit < Tokens(r)
      /\ r \notin S /\ r \notin DOMAIN loop.n
      /\ Fits(r, hit, n) /\ b \in Nat
      /\ req' \in [Reqs -> RequestType] /\ \A s \in Reqs \ {r} : req'[s] = req[s]
      /\ req'[r].computed = hit /\ req'[r].blocks = p.blocks + b
      /\ free' = free - b /\ loop'.n = With(loop.n, r, n)
      /\ running' = Append(running, r) /\ out' = out
  BY <1>1 DEF AdmitEffect
<1>3. hit + n <= MaxModelLen /\ p.blocks = 0 /\ n \in Nat
  <2>1. n > 0 /\ n \in Nat
    BY DEF Counts
  <2>2. hit + n <= Tokens(r) \/ hit + n <= MaxModelLen
    BY <1>2, <2>1, OfferIs
  <2>3. Tokens(r) <= MaxModelLen /\ p.blocks = 0
    BY <1>2 DEF Slots
  <2>4. Tokens(r) \in Nat /\ MaxModelLen \in Nat
    BY RequestFacts, AsyncSchedulerAssumption
  <2> QED
    BY <1>2, <2>1, <2>2, <2>3, <2>4
<1>4. hit + n <= (p.blocks + b) * KVBlock
  BY <1>2, <1>3, NewBlocksAre
<1> HIDE DEF b, S
<1>5. S \ {r} = S
  BY <1>2 DEF S
<1>5a. IsFiniteSet(S) /\ S \in SUBSET Reqs
  BY <1>2, RunningSet DEF S
<1>6. SumFunctionOnSet(Owned(req'), S \cup {r}) = BlocksOf(S) + b
  <2>0. SameBut(req', r) /\ r \in Reqs
    BY <1>2 DEF SameBut
  <2>0a. SumFunctionOnSet(Owned(req'), S \cup {r}) = BlocksOf(S \ {r}) + req'[r].blocks
    <3>1. Gains(req', S, r)
      BY <1>5a, <2>0, BlocksWith
    <3> QED
      BY <3>1 DEF Gains
  <2>1. /\ SumFunctionOnSet(Owned(req'), S \cup {r}) = BlocksOf(S \ {r}) + req'[r].blocks
        /\ BlocksOf(S) \in Int
    BY <1>5a, <2>0, <2>0a, BlocksWith
  <2>2. req'[r].blocks = b
    BY <1>2, <1>3
  <2>3. BlocksOf(S \ {r}) = BlocksOf(S)
    BY <1>5
  <2> QED
    BY <2>1, <2>2, <2>3
<1>7. Elements(running') = S \cup {r}
  BY <1>2, AppendedQueue DEF Base, Queues, S
<1>8. BlocksOf(Elements(running))' = SumFunctionOnSet(Owned(req'), S \cup {r})
  BY <1>7 DEF BlocksOf, Owned
<1>9. free' >= 0
  <2>1. free \in Int /\ b <= free
    BY <1>2, BlocksNat DEF Fits, b
  <2> QED
    BY <1>2, <2>1
<1>10. free' + BlocksOf(Elements(running))' = NumBlocks
  <2>1. BlocksOf(S) \in Int /\ free \in Int /\ free + BlocksOf(S) = NumBlocks
    BY <1>5a, BlocksInt, BlocksNat DEF Slots, S
  <2> QED
    BY <1>2, <1>6, <1>8, <2>1
<1>11. Covered(r)'
  <2>1. r \in DOMAIN loop'.n /\ loop'.n[r] = n
    BY <1>2 DEF With
  <2>2. Share(r)' = n
    BY <2>1 DEF Share
  <2> QED
    BY <1>2, <1>3, <1>4, <2>2 DEF Covered
<1>12. ASSUME NEW s \in Reqs, s # r
       PROVE  IF s \in S THEN Covered(s)' ELSE req'[s].blocks = 0
  <2>1. req'[s] = req[s]
    BY <1>2, <1>12
  <2>2. Share(s)' = Share(s)
    BY <1>2, <1>12 DEF Share, With
  <2> QED
    BY <2>1, <2>2 DEF Slots, Covered, S
<1>13. \A s \in Reqs : Tokens(s)' <= MaxModelLen
  BY <1>2 DEF Slots, Tokens
<1> QED
  BY <1>7, <1>9, <1>10, <1>11, <1>12, <1>13 DEF Slots

\* A victim returns all its blocks, and its share of the step with them.
LEMMA PreemptSlots ==
  ASSUME Base, Slots, PreemptForRoom
  PROVE  Slots'
<1>1. PICK v, victim, r : PreemptEffect(v, victim, r)
  BY PreemptEffectIs
<1> DEFINE S == Elements(running)
           p == req[victim]
<1>2. /\ victim \in Reqs /\ victim \in S
      /\ req' \in [Reqs -> RequestType] /\ \A s \in Reqs \ {victim} : req'[s] = req[s]
      /\ req'[victim].blocks = 0
      /\ free' = free + p.blocks /\ loop'.n = Dropped(loop.n, victim)
      /\ running' = Without(running, {victim}) /\ out' = out
  BY <1>1 DEF PreemptEffect
<1>3. Elements(running') = S \ {victim}
  BY <1>2, WithoutIs DEF Base, Queues
<1> HIDE DEF S
<1>4. IsFiniteSet(S) /\ S \in SUBSET Reqs
  BY RunningSet DEF S
<1>5. /\ SumFunctionOnSet(Owned(req'), S \ {victim}) = BlocksOf(S \ {victim})
      /\ BlocksOf(S) = BlocksOf(S \ {victim}) + p.blocks
      /\ BlocksOf(S) \in Int /\ BlocksOf(S \ {victim}) \in Int
  <2>0. SameBut(req', victim) /\ victim \in Reqs
    BY <1>2 DEF SameBut
  <2>1. /\ SumFunctionOnSet(Owned(req'), S \ {victim}) = BlocksOf(S \ {victim})
        /\ BlocksOf(S) = BlocksOf(S \ {victim}) + (IF victim \in S THEN p.blocks ELSE 0)
        /\ BlocksOf(S) \in Int /\ BlocksOf(S \ {victim}) \in Int
    BY <1>4, <2>0, BlocksWith
  <2> QED
    BY <1>2, <2>1
<1>6. BlocksOf(Elements(running))' = SumFunctionOnSet(Owned(req'), S \ {victim})
  BY <1>3 DEF BlocksOf, Owned
<1>7. free \in Int /\ free >= 0 /\ free + BlocksOf(S) = NumBlocks /\ p.blocks \in Nat
  BY <1>2, BlocksNat DEF Slots, S
<1>8. free' >= 0 /\ free' + BlocksOf(Elements(running))' = NumBlocks
  <2> HIDE DEF p
  <2> QED
    BY <1>2, <1>5, <1>6, <1>7
<1>9. ASSUME NEW s \in Reqs, s # victim
      PROVE  IF s \in S THEN Covered(s)' ELSE req'[s].blocks = 0
  <2>1. req'[s] = req[s]
    BY <1>2, <1>9
  <2>2. Share(s)' = Share(s)
    BY <1>2, <1>9 DEF Share, Dropped
  <2> QED
    BY <2>1, <2>2 DEF Slots, Covered, S
<1>10. \A s \in Reqs : Tokens(s)' <= MaxModelLen
  BY <1>2 DEF Slots, Tokens
<1> QED
  BY <1>2, <1>3, <1>8, <1>9, <1>10 DEF Slots

\* An aborted request returns all its blocks.
LEMMA AbortSlots ==
  ASSUME Base, Slots, NEW r \in Reqs, AbortRequest(r)
  PROVE  Slots'
<1>1. AbortEffect(r)
  BY AbortIs
<1> DEFINE S == Elements(running)
           p == req[r]
<1>2. /\ req' \in [Reqs -> RequestType] /\ \A s \in Reqs \ {r} : req'[s] = req[s]
      /\ req'[r] = Closed /\ free' = free + p.blocks /\ loop' = loop
      /\ running' = Without(running, {r}) /\ out' = out
  BY <1>1 DEF AbortEffect
<1>3. Elements(running') = S \ {r} /\ req'[r].blocks = 0
  BY <1>2, WithoutIs, ClosedType DEF Base, Queues
<1>4. r \notin S => p.blocks = 0
  BY DEF Slots
<1> HIDE DEF S
<1>5. IsFiniteSet(S) /\ S \in SUBSET Reqs
  BY RunningSet DEF S
<1>6. /\ SumFunctionOnSet(Owned(req'), S \ {r}) = BlocksOf(S \ {r})
      /\ BlocksOf(S) = BlocksOf(S \ {r}) + (IF r \in S THEN p.blocks ELSE 0)
      /\ BlocksOf(S) \in Int /\ BlocksOf(S \ {r}) \in Int
  <2>1. SameBut(req', r)
    BY <1>2 DEF SameBut
  <2>2. /\ SumFunctionOnSet(Owned(req'), S \ {r}) = BlocksOf(S \ {r})
        /\ BlocksOf(S) = BlocksOf(S \ {r}) + (IF r \in S THEN req[r].blocks ELSE 0)
        /\ BlocksOf(S) \in Int /\ BlocksOf(S \ {r}) \in Int
    BY <1>5, <2>1, BlocksWith
  <2> QED
    BY <2>2
<1>7. BlocksOf(Elements(running))' = SumFunctionOnSet(Owned(req'), S \ {r})
  BY <1>3 DEF BlocksOf, Owned
<1>8. free \in Int /\ free >= 0 /\ free + BlocksOf(S) = NumBlocks /\ p.blocks \in Nat
  BY BlocksNat DEF Slots, S
<1>9. free' >= 0 /\ free' + BlocksOf(Elements(running))' = NumBlocks
  <2>1. BlocksOf(S) = BlocksOf(S \ {r}) + p.blocks
    BY <1>4, <1>6
  <2> HIDE DEF p
  <2> QED
    BY <1>2, <1>6, <1>7, <1>8, <2>1
<1>10. ASSUME NEW s \in Reqs, s # r
       PROVE  IF s \in S THEN Covered(s)' ELSE req'[s].blocks = 0
  BY <1>2, <1>10 DEF Slots, Covered, S, Share
<1>11. \A s \in Reqs : Tokens(s)' <= MaxModelLen
  BY <1>2 DEF Slots, Tokens
<1> QED
  BY <1>3, <1>9, <1>10, <1>11 DEF Slots

\* A reset returns the blocks of every running request.
LEMMA ResetSlots ==
  ASSUME Base, Slots, ResetPrefixCache
  PROVE  Slots'
<1> DEFINE S == Elements(running)
<1>1. /\ \A r \in Reqs : r \notin S => req'[r] = req[r]
      /\ \A r \in S : req'[r].blocks = 0
      /\ running' = <<>> /\ free' = free + BlocksOf(S) /\ out' = out
  BY ResetIs DEF ResetEffect
<1>2. IsFiniteSet(S) /\ S \in SUBSET Reqs
  BY RunningSet
<1>3. Elements(running') = {}
  BY <1>1, EmptyQueue
<1>4. BlocksOf(Elements(running))' = 0
  <2>1. BlocksOf(Elements(running))' = SumFunctionOnSet(Owned(req'), {})
    BY <1>3 DEF BlocksOf, Owned
  <2> QED
    BY <2>1, SumEmpty
<1>5. free \in Int /\ free >= 0 /\ free + BlocksOf(S) = NumBlocks /\ NumBlocks \in Nat
  BY <1>2, BlocksInt, AsyncSchedulerAssumption DEF Slots, Base, Types
<1>6. \A r \in Reqs : req'[r].blocks = 0
  BY <1>1 DEF Slots
<1>7. \A s \in Reqs : Tokens(s)' <= MaxModelLen
  BY <1>1 DEF Slots, Tokens
<1> QED
  BY <1>1, <1>3, <1>4, <1>5, <1>6, <1>7 DEF Slots

\* Sending a step turns the share of the step into computed tokens.
LEMMA UpdateSlots ==
  ASSUME Base, Slots, UpdateAfterSchedule
  PROVE  Slots'
<1> DEFINE S == Elements(running)
<1>1. /\ \A r \in Reqs : r \notin DOMAIN loop.n => req'[r] = req[r]
      /\ \A r \in DOMAIN loop.n : r \in Reqs /\ ScheduledIs(r, req'[r])
      /\ loop' = NoLoop /\ running' = running /\ out' = out /\ free' = free
  BY UpdateIs
<1>2. \A r \in Reqs : req'[r].blocks = req[r].blocks
  BY <1>1 DEF ScheduledIs
<1>3. BlocksOf(S)' = BlocksOf(S)
  BY <1>1, <1>2 DEF BlocksOf
<1>4. \A r \in Reqs : Share(r)' = 0
  BY <1>1, NoLoopType DEF Share
<1>5. ASSUME NEW r \in Reqs, r \in S PROVE Covered(r)'
  <2>1. req'[r].computed = req[r].computed + Share(r) /\ req'[r].computed \in Int
    <3>1. CASE r \in DOMAIN loop.n
      BY <1>1, <3>1 DEF ScheduledIs, Share, RequestType
    <3>2. CASE r \notin DOMAIN loop.n
      <4>1. req'[r] = req[r] /\ req[r] \in RequestType
        BY <1>1, <3>2, RequestFacts
      <4> QED
        BY <3>2, <4>1 DEF Share, RequestType
    <3> QED
      BY <3>1, <3>2
  <2>2. req'[r].computed + Share(r)' = req[r].computed + Share(r)
    BY <1>4, <2>1
  <2>3. Covered(r)
    BY <1>5 DEF Slots
  <2> QED
    BY <1>2, <2>2, <2>3 DEF Covered
<1>6. \A s \in Reqs : Tokens(s)' <= MaxModelLen
  BY <1>1 DEF Slots, Tokens
<1> QED
  BY <1>1, <1>2, <1>3, <1>5, <1>6 DEF Slots

\* A sum of zeros.
LEMMA SumZero ==
  ASSUME NEW f, NEW S, IsFiniteSet(S), \A x \in S : f[x] = 0
  PROVE  SumFunctionOnSet(f, S) = 0
<1> DEFINE T == {s \in SUBSET S : SumFunctionOnSet(f, s) = 0}
<1>1. {} \in T
  BY SumEmpty
<1>2. ASSUME NEW s \in SUBSET S, s # {}, \A x \in s : s \ {x} \in T
      PROVE  s \in T
  <2>1. PICK x \in s : SumFunctionOnSet(f, s) = f[x] + SumFunctionOnSet(f, s \ {x})
    BY <1>2, SumStep
  <2>2. f[x] = 0 /\ SumFunctionOnSet(f, s \ {x}) = 0
    BY <1>2
  <2>3. SumFunctionOnSet(f, s) = 0
    BY <2>1, <2>2
  <2> QED
    BY <2>3
<1> HIDE DEF T
<1>3. S \in T
  BY <1>1, <1>2, OverFiniteSets
<1> QED
  BY <1>3 DEF T

\* The output a row delivers.
LEMMA OutputLength ==
  ASSUME Base, NEW accepted, NEW given, NEW eos, Outcome(accepted, given, eos), steps # <<>>,
         NEW r \in Reqs, r \in OldestRows
  PROVE  /\ Len(out'[r]) = Len(out[r]) + given[r]
         /\ \A i \in 1..Len(out'[r]) :
              out'[r][i] = IF i <= Len(out[r]) THEN out[r][i]
                           ELSE FirstGiven(r) + i - Len(out[r]) - 1
<1> DEFINE g == Given(given, r)
           o == out[r]
           k == given[r]
           a == FirstGiven(r)
<1>1. out'[r] = o \o g
  BY OutcomeIs
<1>2. o \in Seq(Int)
  BY RequestFacts
<1>3. k \in Nat
  BY GivenIs, AsyncSchedulerAssumption
<1>4. a \in Int
  BY OldestIs DEF FirstGiven, Counts
<1>5. g = [i \in 1..k |-> a + i - 1]
  BY DEF Given
<1> HIDE DEF g, o, k, a
<1>6. g \in Seq(Int) /\ Len(g) = k /\ \A i \in 1..k : g[i] = a + i - 1
  BY <1>3, <1>4, <1>5
<1>7. Len(o \o g) = Len(o) + k /\ Len(o) \in Nat
  <2>1. Len(o \o g) = Len(o) + Len(g) /\ Len(o) \in Nat
    BY <1>2, <1>6
  <2> QED
    BY <1>6, <2>1
<1>8. ASSUME NEW i \in 1..Len(o \o g)
      PROVE  (o \o g)[i] = IF i <= Len(o) THEN o[i] ELSE a + i - Len(o) - 1
  <2>1. CASE i <= Len(o)
    BY <1>2, <1>6, <1>7, <2>1
  <2>2. CASE ~(i <= Len(o))
    <3>1. i - Len(o) \in 1..k
      BY <1>3, <1>7, <2>2
    <3>2. (o \o g)[i] = g[i - Len(o)]
      BY <1>2, <1>6, <1>7, <2>2
    <3> QED
      BY <1>4, <1>6, <1>7, <2>2, <3>1, <3>2
  <2> QED
    BY <2>1, <2>2
<1> QED
  BY <1>1, <1>7, <1>8 DEF o, k, a

\* A stopped request returns its blocks; rejected tokens need none.
LEMMA OutputSlots ==
  ASSUME Base, Slots, ProcessOldest
  PROVE  Slots'
<1>1. PICK accepted, given, eos : Outcome(accepted, given, eos)
  BY OutcomeExists
<1> DEFINE S == Elements(running)
           D == Stopped(given, eos)
<1>2. steps # <<>> /\ loop = NoLoop
  BY <1>1 DEF Outcome, ProcessesOldest, Base, Places
<1>3. /\ running' = Without(running, D) /\ free' = free + BlocksOf(D) /\ loop' = loop
  BY <1>1, OutcomeIs
<1>4. \A r \in Reqs : req'[r] =
               IF r \notin OldestRows \/ req[r].status = "finished" THEN req[r]
               ELSE IF EndsWith(given, eos, r) THEN Closed
               ELSE AfterOutput(accepted, given, r)
  BY <1>1, OutcomeIs
<1>5. D \in SUBSET Reqs /\ D \in SUBSET OldestRows /\ IsFiniteSet(D)
  <2>1. D \in SUBSET Reqs /\ D \in SUBSET OldestRows
    BY DEF Stopped, EndsWith
  <2>2. IsFiniteSet(OldestRows)
    BY <1>2, OldestIs
  <2> QED
    BY <2>1, <2>2, FS_Subset
<1>6. \A r \in D : req[r].status # "finished"
  <2> SUFFICES ASSUME NEW r \in D PROVE Delivers(r)
    BY DEF Delivers
  <2>1. r \in OldestRows /\ given[r] > 0
    BY DEF Stopped, EndsWith
  <2> QED
    BY <1>1, <2>1, GivenIs
<1>7. \A r \in D : req'[r] = Closed
  BY <1>4, <1>5, <1>6 DEF Stopped
<1>8. \A r \in Reqs : r \notin D =>
         /\ req'[r].blocks = req[r].blocks /\ req'[r].computed <= req[r].computed
         /\ req'[r].computed \in Int
  <2> SUFFICES ASSUME NEW r \in Reqs, r \notin D
               PROVE  /\ req'[r].blocks = req[r].blocks
                      /\ req'[r].computed <= req[r].computed /\ req'[r].computed \in Int
    OBVIOUS
  <2>1. req[r].computed \in Int
    BY RequestFacts DEF RequestType
  <2>2. CASE r \notin OldestRows \/ req[r].status = "finished"
    BY <1>4, <2>1, <2>2
  <2>3. CASE ~(r \notin OldestRows \/ req[r].status = "finished")
    <3> DEFINE q == AfterOutput(accepted, given, r)
               rej == IF CountsOutput(r) THEN Rejects(accepted, r) ELSE 0
    <3>1. req'[r] = q
      BY <1>4, <2>3 DEF Stopped
    <3>2. /\ q.blocks = req[r].blocks
          /\ q.computed = IF req[r].computed > 0 THEN req[r].computed - rej
                          ELSE req[r].computed
      BY <1>1, <2>3, AfterOutputType
    <3>3. rej \in Nat
      <4>1. Rejects(accepted, r) \in 0..steps[1].d[r] /\ steps[1].d[r] \in Int
        BY <1>1, <1>2, <2>3, GivenIs, OldestIs
      <4> QED
        BY <4>1
    <3> HIDE DEF rej, q
    <3> QED
      BY <2>1, <3>1, <3>2, <3>3
  <2> QED
    BY <2>2, <2>3
<1> HIDE DEF D, S
<1>9. Elements(running') = S \ D
  BY <1>3, WithoutIs DEF Base, Queues, S
<1>10. IsFiniteSet(S) /\ S \in SUBSET Reqs
  BY RunningSet DEF S
\* Those that stop and do not run own nothing.
<1>11. BlocksOf(D) = BlocksOf(D \cap S)
  <2> DEFINE f == Owned(req)
  <2>1. IsFiniteSet(D \ S) /\ IsFiniteSet(D) /\ D \cap S \in SUBSET D /\ D \ (D \cap S) = D \ S
    BY <1>5, FS_Subset
  <2>2. \A r \in D : f[r] \in Int
    BY <1>5, BlocksNat DEF Owned
  <2>3. \A r \in D \ S : f[r] = 0
    BY <1>5 DEF Slots, Owned, S
  <2> HIDE DEF f
  <2>4. SumFunctionOnSet(f, D) =
          SumFunctionOnSet(f, D \cap S) + SumFunctionOnSet(f, D \ (D \cap S))
    BY <2>1, <2>2, SumSplit
  <2>5. SumFunctionOnSet(f, D \ S) = 0
    BY <2>1, <2>3, SumZero
  <2>6. SumFunctionOnSet(f, D \cap S) \in Int
    <3>1. IsFiniteSet(D \cap S) /\ \A r \in D \cap S : f[r] \in Int
      BY <2>1, <2>2, FS_Subset
    <3> QED
      BY <3>1, SumInt
  <2>7. SumFunctionOnSet(f, D \ (D \cap S)) = 0
    BY <2>1, <2>5
  <2>8. SumFunctionOnSet(f, D) = SumFunctionOnSet(f, D \cap S)
    BY <2>4, <2>6, <2>7
  <2> QED
    BY <2>8, OwnedIs DEF f
<1>12. BlocksOf(S) = BlocksOf(D \cap S) + SumFunctionOnSet(Owned(req'), S \ D)
       /\ BlocksOf(D \cap S) \in Int /\ SumFunctionOnSet(Owned(req'), S \ D) \in Int
  <2> DEFINE f == Owned(req)
             g == Owned(req')
             T == D \cap S
  <2>1. IsFiniteSet(T) /\ IsFiniteSet(S \ D) /\ S \ T = S \ D /\ T \in SUBSET S
    BY <1>10, FS_Subset
  <2>2. \A r \in S : f[r] \in Int
    BY <1>10, BlocksNat DEF Owned
  <2>3. \A r \in S \ D : g[r] = f[r]
    BY <1>8, <1>10 DEF Owned
  <2> HIDE DEF f, g, T
  <2>4. SumFunctionOnSet(f, S) = SumFunctionOnSet(f, T) + SumFunctionOnSet(f, S \ T)
    BY <1>10, <2>1, <2>2, SumSplit
  <2>5. SumFunctionOnSet(g, S \ D) = SumFunctionOnSet(f, S \ D)
    BY <2>1, <2>3, SumSame
  <2>6. SumFunctionOnSet(f, T) \in Int /\ SumFunctionOnSet(f, S \ D) \in Int
    BY <2>1, <2>2, SumInt
  <2> QED
    BY <2>1, <2>4, <2>5, <2>6, OwnedIs DEF f, g, T
<1>13. BlocksOf(Elements(running))' = SumFunctionOnSet(Owned(req'), S \ D)
  BY <1>9 DEF BlocksOf, Owned
<1>14. free' + BlocksOf(Elements(running))' = NumBlocks
  <2>1. free \in Int /\ free + BlocksOf(S) = NumBlocks
    BY DEF Slots, S, Base, Types
  <2> QED
    BY <1>3, <1>11, <1>12, <1>13, <2>1
<1>15. free' >= 0
  <2>1. BlocksOf(D) >= 0 /\ BlocksOf(D) \in Int
    <3> DEFINE f == Owned(req)
    <3>1. \A r \in D : f[r] \in Nat
      BY <1>5, BlocksNat DEF Owned
    <3> HIDE DEF f
    <3>2. SumFunctionOnSet(f, D) \in Nat
      BY <1>5, <3>1, SumNat
    <3> QED
      BY <3>2, OwnedIs DEF f
  <2>2. free \in Int /\ free >= 0
    BY DEF Slots, Base, Types
  <2> QED
    BY <1>3, <2>1, <2>2
<1>16. ASSUME NEW r \in Reqs
       PROVE  IF r \in S \ D THEN Covered(r)' ELSE req'[r].blocks = 0
  <2>1. CASE r \in D
    BY <1>7, <2>1, ClosedType
  <2>2. CASE r \notin S /\ r \notin D
    BY <1>8, <2>2 DEF Slots, S
  <2>3. CASE r \in S /\ r \notin D
    <3>1. /\ req'[r].blocks = req[r].blocks /\ req'[r].computed <= req[r].computed
          /\ req'[r].computed \in Int
      BY <1>8, <2>3
    <3>2. Share(r) = 0 /\ Share(r)' = 0
      BY <1>2, <1>3, NoLoopType DEF Share
    <3>3. /\ req[r].computed <= MaxModelLen /\ req[r].computed <= req[r].blocks * KVBlock
          /\ req[r].computed \in Int
      <4>1. req[r].computed \in Int
        BY RequestFacts DEF RequestType
      <4>2. req[r].computed + 0 = req[r].computed
        BY <4>1
      <4> QED
        BY <2>3, <3>2, <4>1, <4>2 DEF Slots, Covered, S
    <3>4. req[r].blocks * KVBlock \in Int /\ MaxModelLen \in Int
      BY BlocksNat, AsyncSchedulerAssumption
    <3>5. req'[r].computed + 0 <= MaxModelLen /\ req'[r].computed + 0 <= req[r].blocks * KVBlock
      BY <3>1, <3>3, <3>4
    <3> QED
      BY <2>3, <3>1, <3>2, <3>5 DEF Covered
  <2> QED
    BY <2>1, <2>2, <2>3
<1>17. ASSUME NEW r \in Reqs PROVE Tokens(r)' <= MaxModelLen
  <2>1. Tokens(r) <= MaxModelLen /\ out[r] \in Seq(Int) /\ Prompt[r] \in Nat
        /\ MaxModelLen \in Nat /\ Len(out[r]) \in Nat
    BY RequestFacts, AsyncSchedulerAssumption DEF Slots
  <2>2. CASE r \notin OldestRows
    <3>1. out'[r] = out[r]
      BY <1>1, <2>2, OutcomeIs
    <3> QED
      BY <2>1, <3>1 DEF Tokens
  <2>3. CASE r \in OldestRows
    <3>1. out'[r] = out[r] \o Given(given, r)
      BY <1>1, <2>3, OutcomeIs
    <3>2. given[r] \in Nat /\ (given[r] > 0 => given[r] <= MaxModelLen - Tokens(r))
      <4>1. given[r] \in 0..(1 + NumSpec) /\ (given[r] > 0 => given[r] <= Room(r))
        BY <1>1, <2>3, GivenIs
      <4>2. Room(r) <= MaxModelLen - Tokens(r)
        BY <2>1, AsyncSchedulerAssumption DEF Room, Smaller, Tokens
      <4>3. Room(r) \in Int /\ MaxModelLen - Tokens(r) \in Int /\ NumSpec \in Nat
        BY <1>1, <2>1, <2>3, GivenIs, RequestFacts, AsyncSchedulerAssumption
      <4> QED
        BY <4>1, <4>2, <4>3
    <3>3. Len(out'[r]) = Len(out[r]) + given[r]
      BY <1>1, <2>3, <1>2, OutputLength
    <3>4. Tokens(r)' = Tokens(r) + given[r]
      BY <2>1, <3>2, <3>3 DEF Tokens
    <3>5. Tokens(r) \in Nat
      BY RequestFacts
    <3> QED
      BY <2>1, <3>2, <3>4, <3>5
  <2> QED
    BY <2>2, <2>3
<1> QED
  BY <1>9, <1>14, <1>15, <1>16, <1>17 DEF Slots

\* The other steps move no block.
LEMMA OtherSlots ==
  ASSUME Base, Slots,
         \/ UNCHANGED vars
         \/ \E r \in Reqs : AddRequest(r)
         \/ \E p \in {"unpaused", "new", "all"} : SetPauseState(p)
         \/ BeginSchedule \/ SkipRunning \/ EndRunning \/ SkipWaiting \/ EndWaiting
         \/ ScheduleAhead
  PROVE  Slots'
<1>1. /\ running' = running /\ free' = free /\ out' = out
      /\ \A r \in Reqs : req'[r].blocks = req[r].blocks /\ req'[r].computed = req[r].computed
      /\ loop'.n = loop.n
  <2>1. CASE UNCHANGED vars
    BY <2>1 DEF vars, queueVars
  <2>2. CASE \E r \in Reqs : AddRequest(r)
    <3>1. PICK r \in Reqs : AddEffect(r)
      BY <2>2, AddIs
    <3> QED
      BY <3>1 DEF AddEffect
  <2>3. CASE \E p \in {"unpaused", "new", "all"} : SetPauseState(p)
    BY <2>3 DEF SetPauseState, queueVars
  <2>4. CASE BeginSchedule
    <3>1. BeginEffect /\ loop = NoLoop
      BY <2>4, BeginIs DEF BeginEffect, Base, Places
    <3> QED
      BY <3>1, NoLoopType DEF BeginEffect
  <2>5. CASE SkipRunning \/ SkipWaiting \/ EndWaiting
    BY <2>5, SkipRunningIs, SkipWaitingIs, EndWaitingIs DEF LoopButI, LoopButSkipped
  <2>6. CASE EndRunning \/ ScheduleAhead
    BY <2>6 DEF EndRunning, ScheduleAhead, queueVars
  <2> QED
    BY <2>1, <2>2, <2>3, <2>4, <2>5, <2>6
<1>2. BlocksOf(Elements(running))' = BlocksOf(Elements(running))
  BY <1>1 DEF BlocksOf
<1>3. \A r \in Reqs : Covered(r)' <=> Covered(r)
  BY <1>1 DEF Covered, Share
<1>4. \A r \in Reqs : Tokens(r)' = Tokens(r)
  BY <1>1 DEF Tokens
<1> QED
  BY <1>1, <1>2, <1>3, <1>4 DEF Slots

\* Every step keeps the blocks accounted for.
LEMMA SlotsStep == Base /\ Slots /\ [Next]_vars => Slots'
<1> SUFFICES ASSUME Base, Slots, [Next]_vars PROVE Slots'
  OBVIOUS
<1>1. CASE UNCHANGED vars
  BY <1>1, OtherSlots
<1>2. ASSUME NEW r \in Reqs, AddRequest(r) \/ AbortRequest(r) PROVE Slots'
  BY <1>2, OtherSlots, AbortSlots
<1>3. CASE ResetPrefixCache
  BY <1>3, ResetSlots
<1>4. CASE \E p \in {"unpaused", "new", "all"} : SetPauseState(p)
  BY <1>4, OtherSlots
<1>5. CASE BeginSchedule \/ SkipRunning \/ EndRunning \/ SkipWaiting \/ EndWaiting
           \/ ScheduleAhead
  BY <1>5, OtherSlots
<1>6. CASE ScheduleRunning \/ PreemptForRoom
  BY <1>6, RunningSlots, PreemptSlots
<1>7. CASE \E hit \in Hits : AtWaiting /\ hit \in HitsOf(Candidate) /\ Admit(hit)
  BY <1>7, AdmitSlots
<1>8. CASE UpdateAfterSchedule \/ ProcessOldest
  BY <1>8, UpdateSlots, OutputSlots
<1> QED
  BY <1>1, <1>2, <1>3, <1>4, <1>5, <1>6, <1>7, <1>8 DEF Next, Turn

\* SlotsCovered follows.
LEMMA SlotsFromBase == Base /\ Slots => SlotsCovered
<1> SUFFICES ASSUME Base, Slots PROVE SlotsCovered
  OBVIOUS
<1>1. ASSUME NEW r \in Reqs, r \in Elements(running)
      PROVE  req[r].computed <= MaxModelLen /\ req[r].computed <= req[r].blocks * KVBlock
  <2>1. Share(r) \in Nat
    BY LoopFacts, MapIs DEF Share, Rows, Counts
  <2>2. Covered(r)
    BY <1>1 DEF Slots
  <2>3. /\ req[r].computed \in Int /\ req[r].blocks * KVBlock \in Int /\ MaxModelLen \in Int
    <3>1. req[r].computed \in Int
      BY RequestFacts DEF RequestType
    <3>2. req[r].blocks \in Int
      BY BlocksNat
    <3> QED
      BY <3>1, <3>2, AsyncSchedulerAssumption
  <2>4. /\ req[r].computed + Share(r) <= MaxModelLen
        /\ req[r].computed + Share(r) <= req[r].blocks * KVBlock
    BY <2>2 DEF Covered
  <2> QED
    BY <2>1, <2>3, <2>4
<1> QED
  BY <1>1 DEF Slots, SlotsCovered

\* Every position a step in flight may write is in a block of the request that
\* writes it, whatever is preempted and given back; no block is lost or given
\* twice, and only running requests hold any.
THEOREM SlotsHold == Spec => []SlotsCovered
<1>1. Init => Base /\ Slots
  BY BaseInit, SlotsInit
<1>2. (Base /\ Slots) /\ [Next]_vars => (Base /\ Slots)'
  BY BaseStep, SlotsStep
<1> QED
  BY <1>1, <1>2, SlotsFromBase, PTL DEF Spec

-----------------------------------------------------------------------------
(* The loop over the running requests omits none.                           *)

\* A budget that was too small for a request does not come to suffice while the
\* loop goes on: it never grows, or every budget suffices for a token.
SteadyBudget == Lookahead <= 1 /\ (Policy = "priority" => ~AlignedSplit)

\* What the running request r wants of a budget.
WantedOf(r, budget) ==
  LET q   == req[r]
      ask == Tokens(r) + q.spec + q.holders - q.computed
  IN  Cut(q.computed,
          Smaller(Smaller(Smaller(ask, ChunkLimit), budget), MaxModelLen - q.computed - 1), r)
Budget == Smaller(loop.tokens, InputLeft)

\* The running request r has been given tokens, or wants none of the budget.
Served(r) ==
  \/ r \in DOMAIN loop.n
  \/ LastStepScheduled(r) \/ Throttled(r) \/ WantedByRunning(r) = 0
Passed == pc = "running" => \A k \in 1..(loop.i - 1), r \in Reqs : r = running[k] => Served(r)

\* What a request gets is what it wants of the smaller budget.
LEMMA WantedOfBudget == \A r : WantedByRunning(r) = WantedOf(r, Budget)
<1> SUFFICES ASSUME NEW r PROVE WantedByRunning(r) = WantedOf(r, Budget)
  OBVIOUS
<1> QED
  BY DEF WantedByRunning, WantedOf, Budget

\* Rounding down to a block keeps the order.
LEMMA FloorGrows ==
  ASSUME NEW x \in Int, NEW y \in Int, x <= y
  PROVE  Floor(x) <= Floor(y)
<1> DEFINE b == BlockSize
           p == x \div b
           q == y \div b
<1>1. b \in Int /\ b > 0
  BY ChunkSplitAssumption
<1>2. /\ p \in Int /\ x % b \in 0..(b - 1) /\ x = b * p + (x % b)
      /\ q \in Int /\ y % b \in 0..(b - 1) /\ y = b * q + (y % b)
  BY <1>1
<1>3. Floor(x) = x - (x % b) /\ Floor(y) = y - (y % b)
  BY DEF Floor
<1> DEFINE i == x % b
           j == y % b
<1> HIDE DEF b, p, q, i, j
<1>4. b * p \in Int /\ b * q \in Int /\ i \in Int /\ j \in Int
  BY <1>1, <1>2 DEF i, j
<1>5. p <= q
  <2> SUFFICES ASSUME p >= q + 1 PROVE FALSE
    BY <1>2
  <2>1. b * p >= b * (q + 1)
    BY <1>1, <1>2
  <2>2. b * (q + 1) = b * q + b
    BY <1>1, <1>2
  <2> QED
    BY <1>1, <1>2, <1>4, <2>1, <2>2 DEF i, j
<1>6. b * p <= b * q
  BY <1>1, <1>2, <1>5
<1> QED
  BY <1>2, <1>3, <1>4, <1>6 DEF i, j

\* A split that is empty is also empty for fewer tokens.
LEMMA SplitStaysEmpty ==
  ASSUME NEW start \in Int, NEW n \in Int, NEW m \in Int, m <= n,
         NEW prompt \in Nat, NEW tokens \in Nat, Split(start, n, prompt, tokens, 0) <= 0
  PROVE  Split(start, m, prompt, tokens, 0) <= 0
<1> DEFINE end(k) == AlignedEnd(start, start + k, prompt, tokens)
           S(k) == StopsOf(start, k, prompt, tokens)
           e(k) == EndOf(start, k, prompt, tokens)
           last == PrefillEnd(prompt, tokens)
<1>1. \A k \in Int : /\ end(k) \in Int /\ e(k) \in Int /\ e(k) <= end(k)
                     /\ S(k) = {} => e(k) = end(k)
                     /\ S(k) # {} => start < e(k)
  <2> SUFFICES ASSUME NEW k \in Int
               PROVE  /\ end(k) \in Int /\ e(k) \in Int /\ e(k) <= end(k)
                      /\ S(k) = {} => e(k) = end(k)
                      /\ S(k) # {} => start < e(k)
    OBVIOUS
  <2>1. EndsInside(start, k, prompt, tokens)
    BY EarliestIs
  <2> QED
    BY <2>1 DEF EndsInside
<1>2. \A k : Split(start, k, prompt, tokens, 0) =
               IF start >= last THEN k ELSE Larger(e(k) - start, 0)
  BY DEF Split, StopsOf, EndOf
<1>3. \A k : \A s \in S(k) : start < s /\ s < end(k)
  BY DEF Stops, StopsOf
<1>4. \A k : end(k) = IF start + k < last /\ (Floor(start + k) > start \/ BlockSize <= ChunkLimit)
                      THEN Floor(start + k) ELSE start + k
  BY DEF AlignedEnd
<1>5. last \in Int /\ BlockSize \in Int /\ ChunkLimit \in Int /\ BlockSize > 0
  BY SplitTypes, ChunkSplitAssumption
<1>6. \A k \in Int : Floor(start + k) \in Int /\ Floor(start + k) <= start + k
  BY FloorBelow
<1>7. CASE start >= last
  BY <1>2, <1>7
<1>8. CASE ~(start >= last)
  <2>1. S(n) = {} /\ end(n) <= start
    <3> HIDE DEF e, S, end, last
    <3> QED
      BY <1>1, <1>2, <1>8 DEF Larger
  <2>2. end(m) <= start
    <3> HIDE DEF e, S, end, last
    <3>1. CASE n <= 0
      <4>1. end(m) <= start + m
        BY <1>4, <1>6
      <4>2. end(m) \in Int
        BY <1>1
      <4> QED
        BY <3>1, <4>1, <4>2
    <3>2. CASE n > 0
      <4>1. end(n) = Floor(start + n) /\ BlockSize <= ChunkLimit /\ start + n < last
        BY <1>4, <1>5, <1>6, <2>1, <3>2
      <4>2. end(m) = Floor(start + m)
        BY <1>4, <1>5, <4>1
      <4>3. Floor(start + m) <= Floor(start + n)
        BY FloorGrows
      <4> QED
        BY <1>6, <2>1, <4>1, <4>2, <4>3
    <3> QED
      BY <3>1, <3>2
  <2>3. S(m) = {}
    <3> HIDE DEF e, S, end, last
    <3> QED
      BY <1>1, <1>3, <2>2
  <2> HIDE DEF e, S, end, last
  <2>4. e(m) <= start /\ e(m) \in Int
    BY <1>1, <2>2, <2>3
  <2> QED
    BY <1>2, <1>8, <2>4 DEF Larger
<1> QED
  BY <1>7, <1>8

\* A request that wants nothing of a positive budget wants nothing of the next one.
LEMMA WantedStaysZero ==
  ASSUME Base, SteadyBudget, NEW r \in Reqs, NEW a \in Int, NEW b \in Int, a > 0,
         Policy = "fcfs" => b <= a, WantedOf(r, a) = 0
  PROVE  WantedOf(r, b) = 0
<1> DEFINE start == req[r].computed
           ask == Tokens(r) + req[r].spec + req[r].holders - start
           left == MaxModelLen - start - 1
           n(k) == Smaller(Smaller(Smaller(ask, ChunkLimit), k), left)
           s(k) == Split(start, n(k), Prompt[r], Tokens(r), 0)
           m(k) == IF AlignedSplit THEN s(k) ELSE n(k)
<1>1. /\ Tokens(r) \in Nat /\ Prompt[r] \in Nat /\ start \in Int
      /\ req[r].spec \in Int /\ req[r].holders \in Int
  BY RequestFacts DEF RequestType
<1>2. ChunkLimit \in Int /\ ChunkLimit > 0 /\ MaxModelLen \in Int /\ AlignedSplit \in BOOLEAN
      /\ Lookahead \in Nat /\ Policy \in {"fcfs", "priority"}
  BY AsyncSchedulerAssumption, ChunkSplitAssumption
<1>3. ask \in Int /\ left \in Int
  BY <1>1, <1>2
<1>4. \A k \in Int : WantedOf(r, k) = Reserve(start, m(k), Tokens(r))
  BY DEF WantedOf, Cut
<1> HIDE DEF ask, left
<1>5. \A k \in Int : n(k) \in Int
  BY <1>2, <1>3 DEF Smaller
<1>6. n(a) <= 0 => n(b) <= 0
  BY <1>2, <1>3 DEF Smaller
<1>7. b <= a => n(b) <= n(a)
  BY <1>2, <1>3 DEF Smaller
<1>8. \A k \in Int : m(k) \in Int
  <2> SUFFICES ASSUME NEW k \in Int PROVE m(k) \in Int
    OBVIOUS
  <2>1. n(k) \in Int
    BY <1>5
  <2> HIDE DEF n
  <2>2. s(k) \in Int
    BY <1>1, <2>1, SplitNoMore
  <2> QED
    BY <2>1, <2>2
<1>9. \A k \in Int : WantedOf(r, k) = 0 <=> m(k) <= 0
  <2> SUFFICES ASSUME NEW k \in Int PROVE WantedOf(r, k) = 0 <=> m(k) <= 0
    OBVIOUS
  <2>1. m(k) \in Int /\ WantedOf(r, k) = Reserve(start, m(k), Tokens(r))
    BY <1>4, <1>8
  <2> HIDE DEF m
  <2> QED
    BY <1>1, <1>2, <2>1 DEF Reserve, Larger, SteadyBudget
<1>10. m(a) <= 0 => m(b) <= 0
  <2> HIDE DEF n
  <2>1. CASE ~AlignedSplit
    BY <1>6, <2>1
  <2>2. CASE AlignedSplit
    <3>1. b <= a
      BY <1>2, <2>2 DEF SteadyBudget
    <3>2. n(a) \in Int /\ n(b) \in Int /\ n(b) <= n(a)
      BY <1>5, <1>7, <3>1
    <3>3. s(a) <= 0 => s(b) <= 0
      BY <1>1, <3>2, SplitStaysEmpty
    <3> QED
      BY <2>2, <3>3
  <2> QED
    BY <2>1, <2>2
<1> QED
  BY <1>9, <1>10

\* A request that is not scheduled stays served while the loop goes on.
LEMMA ServedStays ==
  ASSUME Base, SteadyBudget, AtRunning, NEW r \in Reqs, Served(r),
         req'[r] = req[r], out' = out, loop'.tokens \in Int, loop'.input \in Int,
         Policy = "fcfs" => loop'.tokens <= loop.tokens /\ loop'.input <= loop.input,
         r \in DOMAIN loop.n => r \in DOMAIN loop'.n
  PROVE  Served(r)'
<1>1. CASE r \in DOMAIN loop.n
  BY <1>1 DEF Served
<1>2. CASE LastStepScheduled(r) \/ Throttled(r)
  BY <1>2 DEF Served, LastStepScheduled, Throttled
<1>3. CASE WantedByRunning(r) = 0
  <2> DEFINE a == Budget
             b == Smaller(loop'.tokens, loop'.input - DraftSlots)
  <2>1. loop.tokens \in Int /\ loop.input \in Int /\ DraftSlots \in Nat
    BY LoopFacts
  <2>2. /\ a \in Int /\ a > 0 /\ b \in Int
        /\ Policy = "fcfs" => b <= a
    BY <2>1 DEF AtRunning, Budget, Smaller, InputLeft
  <2>3. WantedOf(r, a) = 0
    BY <1>3, WantedOfBudget
  <2>4. WantedByRunning(r)' = WantedOf(r, b)
    BY DEF WantedByRunning, WantedOf, InputLeft, Cut, Tokens
  <2> HIDE DEF a, b
  <2>5. WantedOf(r, b) = 0
    BY <2>2, <2>3, WantedStaysZero
  <2> QED
    BY <2>4, <2>5 DEF Served
<1> QED
  BY <1>1, <1>2, <1>3 DEF Served

\* The cursor goes past a request that wants nothing ...
LEMMA SkipPassed ==
  ASSUME Base, SteadyBudget, Passed, SkipRunning
  PROVE  Passed'
<1>1. /\ AtRunning /\ pc = "running" /\ WantedNow = 0 /\ LoopButI(loop.i + 1)
      /\ UNCHANGED <<req, out, running, waiting, skipped, finished, free, pause, pc, steps,
                     worker, controls>>
  BY SkipRunningIs
<1>2. Served(Current)
  BY <1>1, LoopFacts DEF WantedNow, Served
<1>3. loop.i \in 1..Len(running) /\ Len(running) \in Nat
  BY <1>1, CurrentIs DEF Base, Queues, IsQueue
<1>4. \A k \in 1..loop.i, r \in Reqs : r = running[k] => Served(r)
  BY <1>1, <1>2, <1>3 DEF Passed, Current
<1>5. ASSUME NEW k \in 1..(loop'.i - 1), NEW r \in Reqs, r = running'[k] PROVE Served(r)'
  <2>1. k \in 1..loop.i /\ r = running[k]
    BY <1>1, <1>3, <1>5 DEF LoopButI
  <2>2. Served(r)
    BY <1>4, <2>1
  <2>3. /\ req' = req /\ out' = out /\ loop'.tokens = loop.tokens /\ loop'.input = loop.input
        /\ loop'.n = loop.n /\ loop.tokens \in Int /\ loop.input \in Int
    BY <1>1, LoopFacts DEF LoopButI
  <2> QED
    BY <1>1, <2>2, <2>3, ServedStays
<1> QED
  BY <1>5 DEF Passed

\* ... or past one that gets tokens.
LEMMA RunningPassed ==
  ASSUME Base, SteadyBudget, Passed, ScheduleRunning
  PROVE  Passed'
<1>1. PICK s \in Reqs, n \in Counts : RunningEffect(s, n)
  BY RunningIs
<1>2. /\ AtRunning /\ pc = "running" /\ s = running[loop.i] /\ running' = running
      /\ \A r \in Reqs \ {s} : req'[r] = req[r]
      /\ loop'.i = loop.i + 1 /\ out' = out
      /\ loop'.tokens = loop.tokens - n /\ loop'.input = loop.input - (n + DraftSlots)
      /\ DOMAIN loop'.n = DOMAIN loop.n \cup {s}
  BY <1>1 DEF RunningEffect, Current, With
<1>3. loop.i \in 1..Len(running) /\ Len(running) \in Nat
  BY <1>2, CurrentIs DEF Base, Queues, IsQueue
<1>4. loop.tokens \in Int /\ loop.input \in Int /\ DraftSlots \in Nat /\ n \in Nat
  BY LoopFacts DEF Counts
<1>5. ASSUME NEW k \in 1..(loop'.i - 1), NEW r \in Reqs, r = running'[k] PROVE Served(r)'
  <2>1. k \in 1..loop.i /\ r = running[k]
    BY <1>2, <1>3, <1>5
  <2>2. CASE r = s
    BY <1>2, <2>2 DEF Served
  <2>3. CASE r # s
    <3>1. k \in 1..(loop.i - 1)
      BY <1>2, <1>3, <2>1, <2>3
    <3>2. Served(r) /\ req'[r] = req[r]
      BY <1>2, <2>1, <2>3, <3>1 DEF Passed
    <3>3. loop'.tokens \in Int /\ loop'.input \in Int
          /\ loop'.tokens <= loop.tokens /\ loop'.input <= loop.input
      BY <1>2, <1>4
    <3> QED
      BY <1>2, <3>2, <3>3, ServedStays
  <2> QED
    BY <2>2, <2>3
<1> QED
  BY <1>5 DEF Passed

\* A victim leaves the list; the others move up with the cursor.
LEMMA PreemptPassed ==
  ASSUME Base, SteadyBudget, Passed, PreemptForRoom
  PROVE  Passed'
<1>1. PICK v, victim, s : PreemptEffect(v, victim, s)
  BY PreemptEffectIs
<1> DEFINE back == GivenBack(victim)
           i == loop.i
           L == Len(running)
<1>2. /\ AtRunning /\ pc = "running" /\ s = running[i] /\ v \in DOMAIN running
      /\ victim = running[v] /\ running' = Without(running, {running[v]})
      /\ \A r \in Reqs \ {victim} : req'[r] = req[r]
      /\ loop'.i = CursorAfter(v) /\ out' = out /\ back \in Nat
      /\ loop'.tokens = loop.tokens + back
      /\ loop'.input = loop.input + (IF back > 0 THEN back + DraftSlots ELSE 0)
      /\ DOMAIN loop'.n = DOMAIN loop.n \ {victim}
      /\ pc' = (IF victim = s THEN "update" ELSE "running")
  BY <1>1 DEF PreemptEffect, Current, Dropped
<1> SUFFICES ASSUME victim # s, NEW k \in 1..(loop'.i - 1), NEW r \in Reqs, r = running'[k]
             PROVE  Served(r)'
  BY <1>2 DEF Passed
<1>3. /\ IsQueue(running) /\ i \in 1..L /\ L \in Nat /\ DOMAIN running = 1..L
  BY <1>2, CurrentIs DEF Base, Queues, IsQueue
<1>4. running' = [j \in 1..(L - 1) |-> IF j < v THEN running[j] ELSE running[j + 1]]
  BY <1>2, <1>3, WithoutOne
<1>5. loop'.i = IF v < i THEN i - 1 ELSE i
  BY <1>2 DEF CursorAfter
<1> HIDE DEF i, L, back
<1>6. PICK j \in 1..(i - 1) : r = running[j] /\ j # v
  <2>1. v \in 1..L /\ v # i
    BY <1>2, <1>3
  <2>2. k \in 1..(L - 1)
    BY <1>3, <1>5, <2>1
  <2>3. CASE k < v
    BY <1>3, <1>4, <1>5, <2>1, <2>2, <2>3
  <2>4. CASE ~(k < v)
    <3>1. k + 1 \in 1..(i - 1) /\ k + 1 # v
      BY <1>3, <1>5, <2>1, <2>4
    <3>2. r = running[k + 1]
      BY <1>4, <2>2, <2>4
    <3> QED
      BY <3>1, <3>2
  <2> QED
    BY <2>3, <2>4
<1>7. r # victim
  BY <1>2, <1>3, <1>6 DEF IsQueue
<1>8. Served(r) /\ req'[r] = req[r] /\ (r \in DOMAIN loop.n => r \in DOMAIN loop'.n)
  BY <1>2, <1>6, <1>7 DEF Passed, i
<1>9. Policy = "fcfs" => back = 0
  BY DEF back, GivenBack
<1>10. loop.tokens \in Int /\ loop.input \in Int /\ DraftSlots \in Nat
  BY LoopFacts
<1>11. /\ loop'.tokens \in Int /\ loop'.input \in Int
       /\ Policy = "fcfs" => loop'.tokens <= loop.tokens /\ loop'.input <= loop.input
  BY <1>2, <1>9, <1>10
<1> QED
  BY <1>2, <1>8, <1>11, ServedStays

\* Initially, and when the loop starts, there is nothing before the cursor.
LEMMA PassedStep == SteadyBudget /\ Base /\ Passed /\ [Next]_vars => Passed'
<1> SUFFICES ASSUME SteadyBudget, Base, Passed, [Next]_vars PROVE Passed'
  OBVIOUS
<1>1. CASE UNCHANGED vars
  BY <1>1 DEF vars, queueVars, Passed, Served, LastStepScheduled, Throttled, WantedByRunning,
              Cut, Tokens, InputLeft
<1>2. CASE BeginSchedule
  <2>1. loop'.i = 1
    BY <1>2, BeginIs DEF BeginEffect
  <2> QED
    BY <2>1 DEF Passed
<1>3. CASE SkipRunning \/ ScheduleRunning \/ PreemptForRoom
  BY <1>3, SkipPassed, RunningPassed, PreemptPassed
<1>4. ASSUME ~(UNCHANGED vars), ~BeginSchedule,
             ~(SkipRunning \/ ScheduleRunning \/ PreemptForRoom)
      PROVE  pc' # "running"
  BY <1>4 DEF Next, Turn, AddRequest, AbortRequest, Control, ResetPrefixCache, SetPauseState,
              EndRunning, SkipWaiting, Admit, EndWaiting, UpdateAfterSchedule, ScheduleAhead,
              ProcessOldest, UpdateFromOutput, AtWaiting
<1> QED
  BY <1>1, <1>2, <1>3, <1>4 DEF Passed

\* When the loop ends at the end of the list, all of it has been passed.
LEMMA OmittedNone == Base /\ Passed => NoneOmitted
<1> SUFFICES ASSUME Base, Passed, pc = "running", loop.i > Len(running),
                    NEW r \in Elements(running) \ DOMAIN loop.n
             PROVE  LastStepScheduled(r) \/ Throttled(r) \/ WantedByRunning(r) = 0
  BY DEF NoneOmitted
<1>1. running \in Seq(Reqs) /\ loop.i \in Nat
  BY LoopFacts DEF Base, Queues, IsQueue, Counts
<1>2. PICK k \in DOMAIN running : r = running[k]
  BY DEF Elements
<1>3. k \in 1..(loop.i - 1) /\ r \in Reqs
  BY <1>1, <1>2
<1> QED
  BY <1>2, <1>3 DEF Passed, Served

\* The loop over the running requests looks at every one of them, however many are
\* preempted before, at or behind its cursor, and whatever share they give back.
THEOREM NoneOmittedHolds == ASSUME SteadyBudget PROVE Spec => []NoneOmitted
<1>1. Init => Base /\ Passed
  BY BaseInit DEF Init, Passed
<1>2. (Base /\ Passed) /\ [Next]_vars => (Base /\ Passed)'
  BY BaseStep, PassedStep
<1> QED
  BY <1>1, <1>2, OmittedNone, PTL DEF Spec
=============================================================================
