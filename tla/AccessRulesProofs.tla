---------------------------- MODULE AccessRulesProofs --------------------------
(***************************************************************************)
(* Lemmas that the proofs about several components share: induction and    *)
(* recursion over data, in a form whose parameters are sets and functions  *)
(* and not operators, prefixes of paths, and the rules of AccessRules.     *)
(***************************************************************************)
EXTENDS AccessRules, WellFoundedInduction, TLAPS

(* Induction and recursion. *)

\* The least number of a set.
LEMMA LeastNatural ==
  ASSUME NEW T, T \subseteq Nat, T # {}
  PROVE  \E m \in T : \A k \in T : m <= k
<1> DEFINE R == OpToRel(<, Nat)
<1>1. IsWellFoundedOn(R, Nat)
  BY NatLessThanWellFounded
<1> HIDE DEF R
<1>2. PICK m \in T : \A k \in T : ~(<<k, m>> \in R)
  BY <1>1, WFMin, Zenon
<1>3. \A k \in T : ~(k < m)
  BY <1>2 DEF R, OpToRel
<1> QED
  BY <1>3

\* below[x] is what a definition at x, or a proof for x, falls back on. It has to
\* come to an end: every set has an element with nothing of the set below it.
WellFounded(S, below) ==
  /\ below \in [S -> SUBSET S]
  /\ \A T \in SUBSET S : T # {} => \E x \in T : below[x] \cap T = {}

\* What holds below x holds at x.
Inductive(S, below, Good) == \A x \in S : below[x] \subseteq Good => x \in Good

LEMMA Induction ==
  ASSUME NEW S, NEW below, WellFounded(S, below), NEW Good, Inductive(S, below, Good)
  PROVE  S \subseteq Good
<1> SUFFICES ASSUME S \ Good # {}
             PROVE  FALSE
  OBVIOUS
<1>1. PICK x \in S \ Good : below[x] \cap (S \ Good) = {}
  BY DEF WellFounded
<1>2. below[x] \subseteq S
  BY DEF WellFounded
<1> QED
  BY <1>1, <1>2 DEF Inductive

\* A rank that falls, or two of which the first decides, comes to an end.
LEMMA FallingRank ==
  ASSUME NEW S, NEW below \in [S -> SUBSET S], NEW rank \in [S -> Nat],
         \A x \in S : \A y \in below[x] : rank[y] < rank[x]
  PROVE  WellFounded(S, below)
<1> SUFFICES ASSUME NEW T \in SUBSET S, T # {}
             PROVE  \E x \in T : below[x] \cap T = {}
  BY DEF WellFounded
<1> DEFINE ranks == {rank[x] : x \in T}
<1>1. ranks \subseteq Nat /\ ranks # {}
  OBVIOUS
<1> HIDE DEF ranks
<1>2. PICK m \in ranks : \A k \in ranks : m <= k
  BY <1>1, LeastNatural
<1>3. PICK x \in T : rank[x] = m
  BY <1>2 DEF ranks
<1>4. \A y \in T : rank[x] <= rank[y]
  BY <1>2, <1>3 DEF ranks
<1>5. ASSUME NEW y \in below[x], y \in T
      PROVE  FALSE
  <2>1. rank[y] < rank[x] /\ rank[x] <= rank[y] /\ rank[x] \in Nat /\ rank[y] \in Nat
    BY <1>4, <1>5
  <2> QED
    BY <2>1
<1> QED
  BY <1>5

LEMMA FallingRanks ==
  ASSUME NEW S, NEW below \in [S -> SUBSET S],
         NEW major \in [S -> Nat], NEW minor \in [S -> Nat],
         \A x \in S : \A y \in below[x] :
           major[y] < major[x] \/ (major[y] = major[x] /\ minor[y] < minor[x])
  PROVE  WellFounded(S, below)
<1> SUFFICES ASSUME NEW T \in SUBSET S, T # {}
             PROVE  \E x \in T : below[x] \cap T = {}
  BY DEF WellFounded
<1> DEFINE majors == {major[x] : x \in T}
<1>1. majors \subseteq Nat /\ majors # {}
  OBVIOUS
<1> HIDE DEF majors
<1>2. PICK m \in majors : \A k \in majors : m <= k
  BY <1>1, LeastNatural
<1> DEFINE U == {x \in T : major[x] = m}
           minors == {minor[x] : x \in U}
<1>3. U # {} /\ \A x \in U, y \in T : major[x] <= major[y]
  BY <1>2 DEF majors
<1>4. minors \subseteq Nat /\ minors # {}
  BY <1>3
<1> HIDE DEF minors
<1>5. PICK k \in minors : \A j \in minors : k <= j
  BY <1>4, LeastNatural
<1>6. PICK x \in U : minor[x] = k
  BY <1>5 DEF minors
<1>7. \A y \in T : major[x] <= major[y] /\ (major[y] = major[x] => minor[x] <= minor[y])
  BY <1>3, <1>5, <1>6 DEF minors
<1>8. ASSUME NEW y \in below[x], y \in T
      PROVE  FALSE
  <2>1. \/ major[y] < major[x] \/ (major[y] = major[x] /\ minor[y] < minor[x])
    BY <1>8
  <2>2. /\ major[y] \in Nat /\ major[x] \in Nat /\ minor[y] \in Nat /\ minor[x] \in Nat
    BY <1>8
  <2> QED
    BY <1>7, <1>8, <2>1, <2>2
<1> QED
  BY <1>8

\* A function defined by what it is below its argument: step[<<x, g>>] is its
\* value at x when g is the function below x.
Computes(step, S, V, below) ==
  \A x \in S : \A g \in [below[x] -> V] : step[<<x, g>>] \in V

Solution(f, step, S, V, below) ==
  /\ f \in [S -> V]
  /\ \A x \in S : f[x] = step[<<x, [y \in below[x] |-> f[y]]>>]

LEMMA Recursion ==
  ASSUME NEW S, NEW V, NEW below, WellFounded(S, below),
         NEW step, Computes(step, S, V, below)
  PROVE  \E f : Solution(f, step, S, V, below)
<1> USE DEF WellFounded, Computes
<1> DEFINE Value(g, x) == step[<<x, [y \in below[x] |-> g[y]]>>]
           Solves(A, g) == /\ A \subseteq S /\ g \in [A -> V]
                           /\ \A x \in A : below[x] \subseteq A /\ g[x] = Value(g, x)
<1>1. ASSUME NEW g, NEW h, NEW x, \A y \in below[x] : g[y] = h[y]
      PROVE  Value(g, x) = Value(h, x)
  <2>1. [y \in below[x] |-> g[y]] = [y \in below[x] |-> h[y]]
    BY <1>1
  <2> QED
    BY <2>1
<1>2. ASSUME NEW x \in S, NEW g, \A y \in below[x] : g[y] \in V
      PROVE  Value(g, x) \in V
  <2>1. [y \in below[x] |-> g[y]] \in [below[x] -> V]
    BY <1>2
  <2> QED
    BY <2>1
<1> HIDE DEF Value
\* Two solutions agree where both are defined.
<1>3. ASSUME NEW A, NEW B, NEW g, NEW h, Solves(A, g), Solves(B, h)
      PROVE  \A x \in A \cap B : g[x] = h[x]
  <2> DEFINE Good == {x \in S : x \in A \cap B => g[x] = h[x]}
  <2>1. ASSUME NEW x \in S, below[x] \subseteq Good
        PROVE  x \in Good
    <3>1. CASE x \in A \cap B
      <4>1. \A y \in below[x] : g[y] = h[y]
        BY <1>3, <2>1, <3>1
      <4>2. g[x] = Value(g, x) /\ h[x] = Value(h, x)
        BY <1>3, <3>1
      <4> QED
        BY <1>1, <4>1, <4>2
    <3> QED
      BY <3>1
  <2>2. S \subseteq Good
    <3>1. Inductive(S, below, Good)
      BY <2>1 DEF Inductive
    <3> HIDE DEF Good, WellFounded, Computes
    <3> QED
      BY <3>1, Induction
  <2> HIDE DEF Good
  <2> QED
    BY <1>3, <2>2 DEF Good
<1> DEFINE Solved == {x \in S : \E A, g : Solves(A, g) /\ x \in A}
           IsValue(x, v) == \E A, g : Solves(A, g) /\ x \in A /\ v = g[x]
           sol == [x \in Solved |-> CHOOSE v : IsValue(x, v)]
<1>4. ASSUME NEW A, NEW g, Solves(A, g), NEW x \in A
      PROVE  x \in Solved /\ sol[x] = g[x]
  <2>1. x \in Solved
    BY <1>4
  <2>2. IsValue(x, g[x])
    BY <1>4
  <2> HIDE DEF IsValue
  <2>3. IsValue(x, sol[x])
    <3>1. sol[x] = CHOOSE v : IsValue(x, v)
      BY <2>1
    <3> HIDE DEF sol
    <3> QED
      BY <2>2, <3>1, Zenon
  <2>4. PICK B, h : Solves(B, h) /\ x \in B /\ sol[x] = h[x]
    BY <2>3 DEF IsValue
  <2> HIDE DEF Solves, sol
  <2> QED
    BY <1>3, <1>4, <2>1, <2>4
<1>5. ASSUME NEW x \in Solved
      PROVE  below[x] \subseteq Solved /\ sol[x] \in V /\ sol[x] = Value(sol, x)
  <2>1. PICK A, g : Solves(A, g) /\ x \in A
    OBVIOUS
  <2>2. below[x] \subseteq A /\ g[x] \in V /\ g[x] = Value(g, x)
    BY <2>1
  <2> HIDE DEF Solves, Solved, sol
  <2>3. sol[x] = g[x] /\ \A y \in below[x] : y \in Solved /\ sol[y] = g[y]
    BY <1>4, <2>1, <2>2
  <2> QED
    BY <1>1, <2>2, <2>3
<1>6. Solved \subseteq S /\ sol = [x \in Solved |-> sol[x]]
  <2>1. Solved \subseteq S
    OBVIOUS
  <2> HIDE DEF Solved, IsValue
  <2> QED
    BY <2>1
<1>7. ASSUME NEW x \in S, below[x] \subseteq Solved
      PROVE  x \in Solved
  <2> SUFFICES ASSUME x \notin Solved
               PROVE  FALSE
    OBVIOUS
  <2> HIDE DEF Solved, sol
  <2> DEFINE A == Solved \cup {x}
             g == [z \in A |-> IF z = x THEN Value(sol, x) ELSE sol[z]]
  <2>1. \A z \in A : below[z] \subseteq Solved
    BY <1>5, <1>7
  <2>2. \A z \in Solved : g[z] = sol[z]
    OBVIOUS
  <2>3. ASSUME NEW z \in A
        PROVE  below[z] \subseteq A /\ g[z] \in V /\ g[z] = Value(g, z)
    <3>1. \A y \in below[z] : g[y] = sol[y] /\ sol[y] \in V
      BY <1>5, <2>1, <2>2
    <3>2. z \in S /\ Value(g, z) = Value(sol, z) /\ Value(sol, z) \in V
      <4>1. z \in S
        BY <1>6
      <4> HIDE DEF g
      <4> QED
        BY <1>1, <1>2, <3>1, <4>1
    <3>3. g[z] = Value(sol, z)
      BY <1>5
    <3> QED
      BY <2>1, <3>2, <3>3
  <2>4. Solves(A, g)
    <3>1. A \subseteq S
      BY <1>6
    <3>2. g \in [A -> V]
      BY <2>3
    <3> HIDE DEF A, g
    <3> QED
      BY <2>3, <3>1, <3>2
  <2>5. x \in A
    OBVIOUS
  <2> HIDE DEF Solves, A, g
  <2> QED
    BY <1>4, <2>4, <2>5
<1> HIDE DEF Solved, sol
<1>8. S \subseteq Solved
  <2>1. Inductive(S, below, Solved)
    BY <1>7 DEF Inductive
  <2> HIDE DEF WellFounded, Computes
  <2> QED
    BY <2>1, Induction
<1>9. Solved = S
  BY <1>6, <1>8
<1>10. sol \in [S -> V] /\ \A x \in S : sol[x] = Value(sol, x)
  BY <1>5, <1>6, <1>9
<1> QED
  BY <1>10 DEF Value, Solution

--------------------------------------------------------------------------------
(* Prefixes. *)

LEMMA PrefixElements ==
  ASSUME NEW S, NEW p \in Seq(S), NEW q \in Seq(S)
  PROVE  IsPrefix(p, q) <=> /\ Len(p) <= Len(q)
                            /\ \A i \in 1..Len(p) : q[i] = p[i]
BY DEF IsPrefix

LEMMA PrefixTransitive ==
  ASSUME NEW S, NEW p \in Seq(S), NEW q \in Seq(S), NEW r \in Seq(S),
         IsPrefix(p, q), IsPrefix(q, r)
  PROVE  IsPrefix(p, r)
<1>1. Len(p) <= Len(q) /\ \A i \in 1..Len(p) : q[i] = p[i]
  BY PrefixElements
<1>2. Len(q) <= Len(r) /\ \A i \in 1..Len(q) : r[i] = q[i]
  BY PrefixElements
<1>3. Len(p) <= Len(r) /\ \A i \in 1..Len(p) : r[i] = p[i]
  BY <1>1, <1>2
<1> QED
  BY <1>3, PrefixElements

LEMMA PrefixOfAppend ==
  ASSUME NEW S, NEW p \in Seq(S), NEW n \in S
  PROVE  IsPrefix(p, Append(p, n))
BY DEF IsPrefix

(* Patterns and allow entries: what holds of a path holds below it. *)

\* A pattern that matches a path matches everything underneath it (match_from).
LEMMA MatchedBelow ==
  ASSUME NEW d \in Pattern, NEW p \in Path, NEW q \in Path, IsPrefix(p, q), Matches(d, p)
  PROVE  Matches(d, q)
<1>1. Len(p) <= Len(q) /\ \A i \in 1..Len(p) : q[i] = p[i]
  BY PrefixElements DEF Path
<1>2. Len(p) \in Nat /\ Len(q) \in Nat /\ Len(d) \in Nat
  BY DEF Path, Pattern
<1>3. CASE Len(d) = 1
  BY <1>1, <1>2, <1>3 DEF Matches
<1>4. CASE Len(d) # 1
  <2>1. PICK end \in [0..Len(d) -> 0..Len(p)] :
          /\ end[0] = 0
          /\ \A i \in 1..Len(d) :
               /\ end[i-1] < Len(p)
               /\ \/ d[i] = DoubleStar /\ end[i] >= end[i-1]
                  \/ /\ d[i] # DoubleStar
                     /\ end[i] = end[i-1] + 1
                     /\ SegmentMatches(d[i], p[end[i]])
    BY <1>4 DEF Matches, MatchFrom
  <2>2. end \in [0..Len(d) -> 0..Len(q)]
    BY <1>1, <1>2
  <2>3. ASSUME NEW i \in 1..Len(d)
        PROVE  /\ end[i-1] < Len(q)
               /\ \/ d[i] = DoubleStar /\ end[i] >= end[i-1]
                  \/ /\ d[i] # DoubleStar
                     /\ end[i] = end[i-1] + 1
                     /\ SegmentMatches(d[i], q[end[i]])
    <3>1. end[i-1] \in 0..Len(p) /\ end[i] \in 0..Len(p) /\ end[i-1] < Len(p)
      BY <1>2, <2>1
    <3>2. end[i] = end[i-1] + 1 => q[end[i]] = p[end[i]]
      BY <1>1, <1>2, <3>1
    <3> QED
      BY <1>1, <1>2, <2>1, <3>1, <3>2
  <2> QED
    BY <1>4, <2>1, <2>2, <2>3 DEF Matches, MatchFrom
<1> QED
  BY <1>3, <1>4

\* Every allow entry of a validated configuration is one.
LEMMA EntriesTyped ==
  ASSUME NEW a, IsAccessConfig(a), NEW gs, NEW e \in Entries(a, gs)
  PROVE  e.path \in Path /\ e.deny \in SUBSET Pattern
BY DEF IsAccessConfig, Entries, Grant, AllowEntry

\* One more group takes no allow entry away.
LEMMA EntriesGrow ==
  ASSUME NEW a, NEW gs, NEW hs, gs \subseteq hs
  PROVE  Entries(a, gs) \subseteq Entries(a, hs)
BY DEF Entries

\* An allow that covers a path covers everything underneath it (allow_covers).
LEMMA AllowedBelow ==
  ASSUME NEW a, IsAccessConfig(a), NEW gs, NEW p \in Path, NEW q \in Path,
         IsPrefix(p, q)
  PROVE  /\ Covering(a, gs, p) \subseteq Covering(a, gs, q)
         /\ Allowed(a, gs, p) => Allowed(a, gs, q)
<1>1. ASSUME NEW l \in Path, AllowCovers(l, p)
      PROVE  AllowCovers(l, q)
  BY <1>1, PrefixTransitive DEF AllowCovers, Path
<1>2. Covering(a, gs, p) \subseteq Covering(a, gs, q)
  BY <1>1, EntriesTyped DEF Covering
<1> QED
  BY <1>1, <1>2 DEF Allowed, IsAccessConfig

\* A deny that hides a path hides everything underneath it (evaluate).
LEMMA DeniedBelow ==
  ASSUME NEW a, IsAccessConfig(a), NEW gs, NEW p \in Path, NEW q \in Path,
         IsPrefix(p, q), Denied(a, gs, p)
  PROVE  Denied(a, gs, q)
<1>1. CASE \E d \in a.globalDeny : Matches(d, p)
  BY <1>1, MatchedBelow DEF Denied, IsAccessConfig
<1>2. CASE \E e \in Covering(a, gs, p) : \E d \in e.deny : Matches(d, p)
  <2>1. PICK e \in Covering(a, gs, p) : \E d \in e.deny : Matches(d, p)
    BY <1>2
  <2>2. PICK d \in e.deny : Matches(d, p)
    BY <2>1
  <2>3. d \in Pattern
    BY EntriesTyped DEF Covering
  <2>4. Matches(d, q)
    BY <2>2, <2>3, MatchedBelow
  <2>5. e \in Covering(a, gs, q)
    BY AllowedBelow
  <2> QED
    BY <2>4, <2>5 DEF Denied
<1> QED
  BY <1>1, <1>2 DEF Denied

\* The verdict on a path is inherited by the paths underneath it.
LEMMA VerdictBelow ==
  ASSUME NEW a, IsAccessConfig(a), NEW gs, NEW p \in Path, NEW q \in Path,
         IsPrefix(p, q), p # <<>>
  PROVE  /\ Evaluate(a, gs, p) = "denied" => Evaluate(a, gs, q) = "denied"
         /\ Evaluate(a, gs, p) = "visible" => Evaluate(a, gs, q) # "noAllow"
<1>1. q # <<>>
  BY PrefixElements DEF Path
<1>2. Allowed(a, gs, p) => Allowed(a, gs, q)
  BY AllowedBelow
<1>3. Denied(a, gs, p) => Denied(a, gs, q)
  BY DeniedBelow
<1> QED
  BY <1>1, <1>2, <1>3 DEF Evaluate

\* Once a path is denied, one more group does not reveal it.
LEMMA DenialKept ==
  ASSUME NEW a, NEW gs, NEW hs, gs \subseteq hs, NEW p,
         Evaluate(a, gs, p) = "denied"
  PROVE  Evaluate(a, hs, p) = "denied"
<1>1. Covering(a, gs, p) \subseteq Covering(a, hs, p)
  BY EntriesGrow DEF Covering
<1>2. p # <<>> /\ Allowed(a, gs, p) /\ Denied(a, gs, p)
  BY DEF Evaluate
<1>3. Allowed(a, hs, p) /\ Denied(a, hs, p)
  BY <1>1, <1>2 DEF Allowed, Denied
<1> QED
  BY <1>2, <1>3 DEF Evaluate
================================================================================
