------------------------------ MODULE StartupProofs ------------------------------
(***************************************************************************)
(* For every start, every configuration file and every share: the types of *)
(* Startup and of the walk of CheckWalk, the order of the report, what the *)
(* walk misses, and what is served without a session.                      *)
(***************************************************************************)
EXTENDS Startup, AccessRulesProofs, FiniteSetTheorems

--------------------------------------------------------------------------------
(* Names in order. *)

Sorted(s, names) ==
  /\ s \in [1..Cardinality(names) -> names]
  /\ \A i, j \in 1..Cardinality(names) : i < j => NameRank[s[i]] < NameRank[s[j]]

\* The number of names that come no later is where a name goes.
LEMMA SortedExists ==
  ASSUME NEW names \in SUBSET Names, IsFiniteSet(names)
  PROVE  \E s : Sorted(s, names)
<1> DEFINE N == Cardinality(names)
           UpTo(m) == {k \in names : NameRank[k] <= NameRank[m]}
           place == [m \in names |-> Cardinality(UpTo(m))]
<1>1. N \in Nat
  BY FS_CardinalityType
<1>2. \A m \in names : NameRank[m] \in Nat
  BY TreesAssumption
<1>3. \A m \in names : IsFiniteSet(UpTo(m)) /\ Cardinality(UpTo(m)) <= N
  <2>1. ASSUME NEW m \in names
        PROVE  UpTo(m) \in SUBSET names
    OBVIOUS
  <2> HIDE DEF UpTo
  <2> QED
    BY <2>1, FS_Subset
<1>4. \A m \in names : Cardinality(UpTo(m)) \in 1..N
  <2> SUFFICES ASSUME NEW m \in names
               PROVE  Cardinality(UpTo(m)) \in 1..N
    OBVIOUS
  <2>1. m \in UpTo(m)
    BY <1>2
  <2> HIDE DEF UpTo
  <2>2. Cardinality(UpTo(m)) \in Nat /\ Cardinality(UpTo(m)) # 0
    BY <1>3, <2>1, FS_CardinalityType, FS_EmptySet
  <2> QED
    BY <1>1, <1>3, <2>2
<1>5. ASSUME NEW m \in names, NEW k \in names, NameRank[m] < NameRank[k]
      PROVE  Cardinality(UpTo(m)) < Cardinality(UpTo(k))
  <2>1. UpTo(m) \in SUBSET UpTo(k)
    BY <1>2, <1>5
  <2>2. k \in UpTo(k) /\ k \notin UpTo(m)
    BY <1>2, <1>5
  <2> HIDE DEF UpTo
  <2>3. Cardinality(UpTo(m)) <= Cardinality(UpTo(k))
        /\ Cardinality(UpTo(k)) # Cardinality(UpTo(m))
    BY <1>3, <2>1, <2>2, FS_Subset
  <2> QED
    BY <1>4, <2>3
<1> HIDE DEF UpTo
<1>6. place \in Injection(names, 1..N)
  <2>1. ASSUME NEW m \in names, NEW k \in names, m # k
        PROVE  place[m] # place[k]
    <3>1. NameRank[m] # NameRank[k]
      BY <2>1, TreesAssumption DEF IsInjective
    <3>2. NameRank[m] < NameRank[k] \/ NameRank[k] < NameRank[m]
      BY <1>2, <3>1
    <3>3. Cardinality(UpTo(m)) # Cardinality(UpTo(k))
      BY <1>4, <1>5, <3>2
    <3> QED
      BY <3>3
  <2>2. place \in [names -> 1..N]
    BY <1>4
  <2> HIDE DEF place
  <2> QED
    BY <2>1, <2>2 DEF Injection, IsInjective
<1>7. place \in Surjection(names, 1..N)
  <2>1. IsFiniteSet(1..N) /\ Cardinality(1..N) = N
    BY <1>1, FS_Interval
  <2> HIDE DEF place
  <2> QED
    BY <1>6, <2>1, FS_Injection
<1>8. \A i \in 1..N : \E m \in names : place[m] = i
  <2> HIDE DEF place
  <2> QED
    BY <1>7 DEF Surjection
<1> DEFINE s == [i \in 1..N |-> CHOOSE m \in names : place[m] = i]
<1>9. \A i \in 1..N : s[i] \in names /\ place[s[i]] = i
  <2> HIDE DEF place, N
  <2> QED
    BY <1>8
<1>10. s \in [1..N -> names]
  <2> HIDE DEF place, N
  <2> QED
    BY <1>9
<1>11. ASSUME NEW i \in 1..N, NEW j \in 1..N, i < j
       PROVE  NameRank[s[i]] < NameRank[s[j]]
  <2> DEFINE m == s[i]
             k == s[j]
  <2>1. m \in names /\ k \in names /\ place[m] = i /\ place[k] = j
    BY <1>9
  <2> HIDE DEF m, k, s
  <2>2. place[m] = Cardinality(UpTo(m)) /\ place[k] = Cardinality(UpTo(k))
    BY <2>1
  <2>3. ~(NameRank[k] < NameRank[m])
    BY <1>1, <1>5, <1>11, <2>1, <2>2
  <2>4. m # k
    BY <1>1, <1>11, <2>1
  <2>5. NameRank[m] # NameRank[k]
    BY <2>1, <2>4, TreesAssumption DEF IsInjective
  <2>6. NameRank[m] < NameRank[k]
    BY <1>2, <2>1, <2>3, <2>5
  <2> QED
    BY <2>6 DEF m, k
<1> HIDE DEF s, place
<1> QED
  BY <1>10, <1>11 DEF Sorted

\* The names, each of them once.
LEMMA AscendingSorts ==
  ASSUME NEW names \in SUBSET Names, IsFiniteSet(names)
  PROVE  /\ Ascending(names) \in Seq(names)
         /\ \A i, j \in 1..Len(Ascending(names)) :
              i < j => NameRank[Ascending(names)[i]] < NameRank[Ascending(names)[j]]
         /\ \A n \in names : \E i \in 1..Len(Ascending(names)) : Ascending(names)[i] = n
<1> DEFINE N == Cardinality(names)
<1>1. N \in Nat
  BY FS_CardinalityType
<1>2. PICK s : s = Ascending(names)
  OBVIOUS
<1>3. Sorted(s, names)
  BY <1>2, SortedExists DEF Sorted, Ascending
<1>4. s \in [1..N -> names] /\ \A i, j \in 1..N : i < j => NameRank[s[i]] < NameRank[s[j]]
  BY <1>3 DEF Sorted
<1> HIDE DEF N
<1>5. s \in Seq(names) /\ Len(s) = N
  BY <1>1, <1>4
<1>6. s \in Injection(1..N, names)
  <2>1. \A i \in 1..N : NameRank[s[i]] \in Nat
    BY <1>4, TreesAssumption
  <2>2. ASSUME NEW i \in 1..N, NEW j \in 1..N, s[i] = s[j]
        PROVE  i = j
    <3>1. ~(i < j) /\ ~(j < i)
      BY <1>4, <2>1, <2>2
    <3> QED
      BY <1>1, <3>1
  <2> QED
    BY <1>4, <2>2 DEF Injection, IsInjective
<1>7. s \in Surjection(1..N, names)
  <2>1. Cardinality(1..N) = Cardinality(names)
    BY <1>1, FS_Interval DEF N
  <2> QED
    BY <1>6, <2>1, FS_Injection
<1>8. \A n \in names : \E i \in 1..N : s[i] = n
  BY <1>7 DEF Surjection
<1> QED
  BY <1>2, <1>4, <1>5, <1>8

--------------------------------------------------------------------------------
(* The types of the walk. *)

Verdicts == {"visible", "noAllow", "denied"}
Sections == [path : Path, verdict : Verdicts, names : SUBSET Names, blocked : Seq(Names)]

WalkInv ==
  /\ WalkTypeOK
  /\ IsShare(tree)
  /\ queue \in Seq(Path) /\ report \in Seq(Sections)
  /\ walk = "idle" => queue = <<>> /\ report = <<>> /\ used = {}
  /\ walk = "done" => queue = <<>>

\* What a step of Startup is for the walk.
WalkStep ==
  \/ \E a, scenario : IsAccessConfig(a) /\ StartCheck(a, scenario)
  \/ StepCheck \/ Unlink \/ UNCHANGED walkVars

LEMMA NoAccessIsConfig == IsAccessConfig(NoAccess)
<1>1. DOMAIN NoAccess.grants = {}
  BY DEF NoAccess
<1> QED
  BY <1>1 DEF NoAccess, IsAccessConfig

LEMMA FrontOfPath ==
  ASSUME NEW S, NEW p \in Seq(S), p # <<>>
  PROVE  /\ Len(p) \in Nat \ {0} /\ Last(p) = p[Len(p)] /\ Last(p) \in S
         /\ Front(p) \in Seq(S) /\ Len(Front(p)) = Len(p) - 1
         /\ \A i \in 1..Len(p) - 1 : Front(p)[i] = p[i]
         /\ p = Append(Front(p), Last(p))
<1>1. PICK k \in Nat \ {0} : k = Len(p)
  OBVIOUS
<1>2. Front(p) = SubSeq(p, 1, k - 1) /\ Last(p) = p[k]
  BY <1>1 DEF Front, Last
<1>3. SubSeq(p, 1, k - 1) \in Seq(S) /\ Len(SubSeq(p, 1, k - 1)) = k - 1 /\ p[k] \in S
  BY <1>1
<1>4. p = Append(SubSeq(p, 1, k - 1), p[k])
  BY <1>1
<1>5. \A i \in 1..k - 1 : SubSeq(p, 1, k - 1)[i] = p[i]
  BY <1>1
<1> QED
  BY <1>1, <1>2, <1>3, <1>4, <1>5

LEMMA FrontOfAppend ==
  ASSUME NEW S, NEW p \in Seq(S), NEW n \in S
  PROVE  /\ Append(p, n) \in Seq(S) /\ Append(p, n) # <<>>
         /\ Front(Append(p, n)) = p /\ Last(Append(p, n)) = n
         /\ Len(Append(p, n)) = Len(p) + 1 /\ Append(p, n)[Len(p) + 1] = n
         /\ \A i \in 1..Len(p) : Append(p, n)[i] = p[i]
BY DEF Front, Last

\* A directory holds finitely many names.
LEMMA NamesAreFinite ==
  ASSUME IsShare(tree), NEW dir \in Path, NEW names \in SUBSET NamesIn(dir)
  PROVE  names \in SUBSET Names /\ IsFiniteSet(names)
<1> DEFINE f == [n \in names |-> Append(dir, n)]
<1>1. names \in SUBSET Names
  BY DEF NamesIn
<1>2. \A n \in names : f[n] \in DOMAIN tree
  BY DEF NamesIn
<1>3. ASSUME NEW m \in names, NEW n \in names, f[m] = f[n]
      PROVE  m = n
  <2>1. Append(dir, m) = Append(dir, n)
    BY <1>3
  <2>2. m \in Names /\ n \in Names /\ dir \in Seq(Names)
    BY <1>1 DEF Path
  <2> QED
    BY <2>1, <2>2, FrontOfAppend
<1>4. f \in Injection(names, DOMAIN tree)
  <2>1. f \in [names -> DOMAIN tree]
    BY <1>2
  <2> HIDE DEF f
  <2> QED
    BY <1>3, <2>1 DEF Injection, IsInjective
<1> HIDE DEF f
<1> QED
  BY <1>1, <1>4, FS_Injection DEF IsShare

Subdirs(dir) ==
  {n \in NamesIn(dir) : /\ IsDir(Append(dir, n))
                        /\ ~IsHidden(access, groups, Append(dir, n))}

KnownSubdirs(dir, unknown) == Subdirs(dir) \ unknown

\* The visible subdirectories, each once, the last name first.
LEMMA PushSorts ==
  ASSUME IsShare(tree), NEW dir \in Path, NEW unknown
  PROVE  \E names \in Seq(KnownSubdirs(dir, unknown)) :
           /\ Push(dir, unknown) \in Seq(Path) /\ Len(Push(dir, unknown)) = Len(names)
           /\ \A i \in 1..Len(names) : names[i] \in Names /\ Push(dir, unknown)[i] = Append(dir, names[i])
           /\ \A i, j \in 1..Len(names) : i < j => NameRank[names[j]] < NameRank[names[i]]
           /\ \A n \in KnownSubdirs(dir, unknown) : \E i \in 1..Len(names) : names[i] = n
<1> DEFINE D == KnownSubdirs(dir, unknown)
<1>1. D \in SUBSET Names /\ IsFiniteSet(D)
  <2>1. D \in SUBSET NamesIn(dir)
    BY DEF KnownSubdirs, Subdirs
  <2> QED
    BY <2>1, NamesAreFinite
<1> DEFINE s == Ascending(D)
           names == [i \in 1..Len(s) |-> s[Len(s) - i + 1]]
<1>2. /\ s \in Seq(D)
      /\ \A i, j \in 1..Len(s) : i < j => NameRank[s[i]] < NameRank[s[j]]
      /\ \A n \in D : \E i \in 1..Len(s) : s[i] = n
  BY <1>1, AscendingSorts
<1>3. Push(dir, unknown) = Reverse([i \in 1..Len(s) |-> Append(dir, s[i])])
  <2>1. D = {n \in NamesIn(dir) \ unknown : /\ IsDir(Append(dir, n))
                                           /\ ~IsHidden(access, groups, Append(dir, n))}
    BY DEF KnownSubdirs, Subdirs
  <2> QED
    BY <2>1 DEF Push
<1> HIDE DEF s, D
<1>4. PICK k \in Nat : k = Len(s)
  BY <1>2
<1>5. \A i \in 1..k : k - i + 1 \in 1..k /\ (k - i) + 1 = k - i + 1
  BY <1>4
<1>6. names \in Seq(D) /\ Len(names) = k
  BY <1>2, <1>4, <1>5
<1>7. Push(dir, unknown) = [i \in 1..k |-> Append(dir, names[i])]
  BY <1>3, <1>4, <1>5 DEF Reverse
<1>8. \A i \in 1..k : names[i] = s[k - i + 1] /\ names[i] \in Names
  BY <1>1, <1>4, <1>6
<1> HIDE DEF names
<1>9. \A i \in 1..k : Append(dir, names[i]) \in Path
  BY <1>8 DEF Path
<1>10. Push(dir, unknown) \in Seq(Path) /\ Len(Push(dir, unknown)) = k
  BY <1>7, <1>9
<1>11. ASSUME NEW i \in 1..k, NEW j \in 1..k, i < j
       PROVE  NameRank[names[j]] < NameRank[names[i]]
  <2>1. k - j + 1 < k - i + 1
    BY <1>4, <1>11
  <2> QED
    BY <1>2, <1>4, <1>5, <1>8, <2>1
<1>12. ASSUME NEW n \in D
       PROVE  \E i \in 1..k : names[i] = n
  <2>1. PICK j \in 1..k : s[j] = n
    BY <1>2, <1>4
  <2>2. k - (k - j + 1) + 1 = j /\ k - j + 1 \in 1..k
    BY <1>4
  <2> QED
    BY <1>8, <2>1, <2>2
<1> QED
  BY <1>6, <1>7, <1>8, <1>10, <1>11, <1>12 DEF D

LEMMA SectionTyped ==
  ASSUME IsShare(tree), NEW dir \in Path, NEW names \in SUBSET NamesIn(dir)
  PROVE  /\ Section(dir, names) \in Sections
         /\ Section(dir, names).path = dir /\ Section(dir, names).names = names
<1> DEFINE hidden == {n \in names : IsHidden(access, groups, Append(dir, n))}
<1>1. names \in SUBSET Names /\ hidden \in SUBSET Names /\ IsFiniteSet(hidden)
  BY NamesAreFinite
<1>2. Ascending(hidden) \in Seq(hidden)
  BY <1>1, AscendingSorts
<1> HIDE DEF hidden
<1>3. Ascending(hidden) \in Seq(Names)
  BY <1>1, <1>2
<1>4. Evaluate(access, groups, dir) \in Verdicts
  BY DEF Evaluate, Verdicts
<1> QED
  BY <1>1, <1>3, <1>4 DEF Section, Sections, hidden

\* What is below a removed entry goes with it, so the rest is a share.
LEMMA ShareShrinks ==
  ASSUME IsShare(tree), Unlink
  PROVE  /\ IsShare(tree)'
         /\ DOMAIN tree' \subseteq DOMAIN tree
         /\ \A p \in DOMAIN tree' : tree'[p] = tree[p]
<1>1. PICK p \in DOMAIN tree :
        tree' = [q \in {q \in DOMAIN tree : ~IsPrefix(p, q)} |-> tree[q]]
  BY DEF Unlink
<1>2. /\ DOMAIN tree' = {q \in DOMAIN tree : ~IsPrefix(p, q)}
      /\ \A q \in DOMAIN tree' : tree'[q] = tree[q]
  BY <1>1
<1>3. IsFiniteSet(DOMAIN tree')
  BY <1>2, FS_Subset DEF IsShare
<1>4. p \in Seq(OsNames)
  BY DEF IsShare
<1>5. ASSUME NEW q \in DOMAIN tree'
      PROVE  /\ q \in Seq(OsNames) \ {<<>>}
             /\ Front(q) = <<>> \/ (Front(q) \in DOMAIN tree' /\ tree'[Front(q)] = "dir")
  <2>1. q \in Seq(OsNames) \ {<<>>} /\ ~IsPrefix(p, q)
    BY <1>2 DEF IsShare
  <2>2. Front(q) = <<>> \/ (Front(q) \in DOMAIN tree /\ tree[Front(q)] = "dir")
    BY <1>2 DEF IsShare
  <2>3. Front(q) \in Seq(OsNames) /\ IsPrefix(Front(q), q)
    <3>1. /\ Front(q) \in Seq(OsNames) /\ Last(q) \in OsNames
          /\ q = Append(Front(q), Last(q))
      BY <2>1, FrontOfPath
    <3> QED
      BY <3>1, PrefixOfAppend
  <2>4. ~IsPrefix(p, Front(q))
    BY <1>4, <2>1, <2>3, PrefixTransitive
  <2> QED
    BY <1>2, <2>1, <2>2, <2>4
<1> QED
  BY <1>2, <1>3, <1>5 DEF IsShare

LEMMA WalkKept ==
  ASSUME WalkInv, WalkStep
  PROVE  WalkInv'
<1> USE DEF WalkInv, WalkTypeOK
<1>0. /\ tree' = tree => IsShare(tree)'
      /\ access' = access => CheckRules(access)' = CheckRules(access)
  OBVIOUS
<1>1. CASE UNCHANGED walkVars
  BY <1>0, <1>1 DEF walkVars
<1>2. ASSUME NEW a, NEW scenario, IsAccessConfig(a), StartCheck(a, scenario)
      PROVE  WalkInv'
  <2>1. <<>> \in Path
    BY DEF Path
  <2> QED
    BY <1>0, <1>2, <2>1 DEF StartCheck
<1>3. CASE Unlink
  <2>1. IsShare(tree)'
    BY <1>3, ShareShrinks
  <2>2. unlinks' \in 0..MaxUnlinks
    BY <1>3, TreesAssumption DEF Unlink
  <2> QED
    BY <1>0, <1>3, <2>1, <2>2 DEF Unlink
<1>4. ASSUME queue # <<>>, UNCHANGED <<access, groups, tree, walk, unlinks>>,
             queue' \in Seq(Path), NEW names \in SUBSET NamesIn(Last(queue)),
             report' = Append(report, Section(Last(queue), names)),
             used' = used \cup Marked(Last(queue), names), walk = "walking"
      PROVE  WalkInv'
  <2>1. Last(queue) \in Path
    BY <1>4, FrontOfPath
  <2>2. report' \in Seq(Sections)
    BY <1>4, <2>1, SectionTyped
  <2>3. used' \subseteq CheckRules(access)
    BY <1>4 DEF Marked
  <2> QED
    BY <1>0, <1>4, <2>2, <2>3
<1>5. CASE SkipHidden
  <2>1. Front(queue) \in Seq(Path)
    BY <1>5, FrontOfPath DEF SkipHidden
  <2> QED
    BY <1>4, <1>5, <2>1 DEF SkipHidden
<1>6. CASE Visit
  <2>1. Last(queue) \in Path /\ Front(queue) \in Seq(Path)
    BY <1>6, FrontOfPath DEF Visit
  <2>2. PICK unknown : queue' = Front(queue) \o Push(Last(queue), unknown)
    BY <1>6 DEF Visit
  <2>3. Push(Last(queue), unknown) \in Seq(Path)
    BY <2>1, PushSorts
  <2>4. queue' \in Seq(Path)
    BY <2>1, <2>2, <2>3
  <2> QED
    BY <1>4, <1>6, <2>4 DEF Visit
<1>7. CASE Unreadable
  BY <1>0, <1>7 DEF Unreadable
<1>8. CASE FinishReport
  BY <1>0, <1>8 DEF FinishReport
<1> QED
  BY <1>1, <1>2, <1>3, <1>5, <1>6, <1>7, <1>8 DEF WalkStep, StepCheck

--------------------------------------------------------------------------------
(* The order of the report. *)

\* At the first name in which they differ, p comes first.
Diverges(p, q) ==
  \E i \in 1..Len(p) :
    /\ i <= Len(q)
    /\ \A k \in 1..i - 1 : p[k] = q[k]
    /\ NameRank[p[i]] < NameRank[q[i]]

LEMMA BeforeMeans ==
  ASSUME NEW p \in Path, NEW q \in Path
  PROVE  PathBefore(p, q) <=> IsStrictPrefix(p, q) \/ Diverges(p, q)
<1>1. p \in Seq(Names) /\ q \in Seq(Names) /\ Len(p) \in Nat /\ Len(q) \in Nat
  BY DEF Path
<1>2. ASSUME NEW i \in 1..Len(p), i <= Len(q)
      PROVE  SubSeq(p, 1, i - 1) = SubSeq(q, 1, i - 1) <=> \A k \in 1..i - 1 : p[k] = q[k]
  <2>1. PICK n \in Nat : n = i - 1 /\ n <= Len(p) /\ n <= Len(q)
    BY <1>1, <1>2
  <2>2. /\ SubSeq(p, 1, n) \in Seq(Names) /\ Len(SubSeq(p, 1, n)) = n
        /\ SubSeq(q, 1, n) \in Seq(Names) /\ Len(SubSeq(q, 1, n)) = n
        /\ \A k \in 1..n : SubSeq(p, 1, n)[k] = p[k] /\ SubSeq(q, 1, n)[k] = q[k]
    BY <1>1, <2>1
  <2>3. SubSeq(p, 1, n) = SubSeq(q, 1, n) <=>
          \A k \in 1..n : SubSeq(p, 1, n)[k] = SubSeq(q, 1, n)[k]
    BY <2>2
  <2> QED
    BY <2>1, <2>2, <2>3
<1> QED
  BY <1>2 DEF PathBefore, Diverges

LEMMA StrictPrefixOfChild ==
  ASSUME NEW p \in Path, NEW q \in Path, NEW n \in Names, p = q \/ IsStrictPrefix(p, q)
  PROVE  IsStrictPrefix(p, Append(q, n))
<1>1. /\ p \in Seq(Names) /\ q \in Seq(Names) /\ Append(q, n) \in Seq(Names)
      /\ Len(Append(q, n)) = Len(q) + 1
      /\ Len(p) \in Nat /\ Len(q) \in Nat
  BY DEF Path
<1>2. IsPrefix(p, q)
  BY <1>1, PrefixElements DEF IsStrictPrefix
<1>3. IsPrefix(p, Append(q, n))
  BY <1>1, <1>2, PrefixOfAppend, PrefixTransitive
<1>4. Len(p) <= Len(q)
  BY <1>1, <1>2, PrefixElements
<1>5. p # Append(q, n)
  BY <1>1, <1>4
<1> QED
  BY <1>3, <1>5 DEF IsStrictPrefix

\* What comes before a directory, or after it, does so of what is in it.
LEMMA DivergesBelow ==
  ASSUME NEW p \in Path, NEW q \in Path, NEW n \in Names
  PROVE  /\ Diverges(p, q) => Diverges(p, Append(q, n)) /\ Diverges(Append(p, n), q)
         /\ PathBefore(p, q) => PathBefore(p, Append(q, n))
         /\ Append(p, n) \in Path
<1>1. /\ p \in Seq(Names) /\ q \in Seq(Names) /\ Len(p) \in Nat /\ Len(q) \in Nat
      /\ Append(p, n) \in Path /\ Append(q, n) \in Path
  BY DEF Path
<1>2. /\ Len(Append(p, n)) = Len(p) + 1 /\ \A i \in 1..Len(p) : Append(p, n)[i] = p[i]
      /\ Len(Append(q, n)) = Len(q) + 1 /\ \A i \in 1..Len(q) : Append(q, n)[i] = q[i]
  BY <1>1, FrontOfAppend
<1>3. ASSUME Diverges(p, q)
      PROVE  Diverges(p, Append(q, n)) /\ Diverges(Append(p, n), q)
  <2>1. PICK i \in 1..Len(p) : /\ i <= Len(q)
                               /\ \A k \in 1..i - 1 : p[k] = q[k]
                               /\ NameRank[p[i]] < NameRank[q[i]]
    BY <1>3 DEF Diverges
  <2>2. /\ i \in 1..Len(q) /\ i \in 1..Len(Append(p, n)) /\ i <= Len(Append(q, n))
        /\ \A k \in 1..i - 1 : k \in 1..Len(p) /\ k \in 1..Len(q)
    BY <1>1, <1>2, <2>1
  <2>3. /\ Append(q, n)[i] = q[i] /\ Append(p, n)[i] = p[i]
        /\ \A k \in 1..i - 1 : Append(q, n)[k] = q[k] /\ Append(p, n)[k] = p[k]
    BY <1>2, <2>1, <2>2
  <2> QED
    BY <2>1, <2>2, <2>3 DEF Diverges
<1> QED
  BY <1>1, <1>3, BeforeMeans, StrictPrefixOfChild

LEMMA SiblingsDiverge ==
  ASSUME NEW dir \in Path, NEW m \in Names, NEW n \in Names, NameRank[m] < NameRank[n]
  PROVE  Diverges(Append(dir, m), Append(dir, n))
<1>1. dir \in Seq(Names) /\ Len(dir) \in Nat
  BY DEF Path
<1>2. /\ Len(Append(dir, m)) = Len(dir) + 1 /\ Append(dir, m)[Len(dir) + 1] = m
      /\ Len(Append(dir, n)) = Len(dir) + 1 /\ Append(dir, n)[Len(dir) + 1] = n
      /\ \A i \in 1..Len(dir) : Append(dir, m)[i] = dir[i] /\ Append(dir, n)[i] = dir[i]
  BY <1>1, FrontOfAppend
<1>3. /\ Len(dir) + 1 \in 1..Len(Append(dir, m))
      /\ \A k \in 1..(Len(dir) + 1) - 1 : Append(dir, m)[k] = Append(dir, n)[k]
  BY <1>1, <1>2
<1> QED
  BY <1>2, <1>3 DEF Diverges

\* The stack holds what is still to come, the next on top.
OrderInv ==
  /\ ReportIsOrdered
  /\ \A i \in 1..Len(report), k \in 1..Len(queue) : PathBefore(report[i].path, queue[k])
  /\ \A k, l \in 1..Len(queue) : k < l => Diverges(queue[l], queue[k])

\* The popped path goes to the end of the report, and what is pushed is below it.
LEMMA OrderByPop ==
  ASSUME WalkInv, OrderInv, queue # <<>>,
         NEW section, section.path = Last(queue), report' = Append(report, section),
         NEW names \in Seq(Names), NEW pushed \in Seq(Path), Len(pushed) = Len(names),
         \A i \in 1..Len(names) : pushed[i] = Append(Last(queue), names[i]),
         \A i, j \in 1..Len(names) : i < j => NameRank[names[j]] < NameRank[names[i]],
         queue' = Front(queue) \o pushed
  PROVE  OrderInv'
<1> DEFINE dir == Last(queue)
<1>1. PICK m \in Nat \ {0} : m = Len(queue)
  BY FrontOfPath DEF WalkInv
<1>2. /\ dir \in Path /\ dir = queue[m] /\ Front(queue) \in Seq(Path)
      /\ Len(Front(queue)) = m - 1 /\ \A k \in 1..m - 1 : Front(queue)[k] = queue[k]
  BY <1>1, FrontOfPath DEF WalkInv
<1> HIDE DEF dir
<1>3. PICK n \in Nat : n = Len(names)
  OBVIOUS
<1>4. /\ Len(queue') = (m - 1) + n
      /\ \A k \in 1..m - 1 : queue'[k] = queue[k]
      /\ \A k \in 1..n : queue'[(m - 1) + k] = Append(dir, names[k])
  <2>0. PICK rest \in Seq(Path) : rest = Front(queue)
    BY <1>2
  <2>1. Len(queue') = (m - 1) + n
    <3>1. \A a, b \in Seq(Path) : Len(a \o b) = Len(a) + Len(b)
      OBVIOUS
    <3> QED
      BY <1>2, <1>3, <2>0, <3>1
  <2>2. \A k \in 1..(m - 1) + n :
          queue'[k] = IF k <= m - 1 THEN Front(queue)[k] ELSE pushed[k - (m - 1)]
    BY <1>1, <1>2, <1>3, <2>0
  <2>3. \A k \in 1..m - 1 : queue'[k] = queue[k]
    BY <1>2, <1>3, <2>2
  <2>4. ASSUME NEW k \in 1..n
        PROVE  queue'[(m - 1) + k] = Append(dir, names[k])
    <3>1. (m - 1) + k \in 1..(m - 1) + n /\ ~((m - 1) + k <= m - 1)
          /\ ((m - 1) + k) - (m - 1) = k
      BY <1>1, <1>3
    <3> QED
      BY <1>3, <2>2, <3>1 DEF dir
  <2> QED
    BY <2>1, <2>3, <2>4
<1>5. PICK r \in Nat : r = Len(report)
  BY DEF WalkInv
<1>6. /\ Len(report') = r + 1 /\ report'[r + 1].path = dir
      /\ \A i \in 1..r : report'[i] = report[i] /\ report[i].path \in Path
  <2>1. report \in Seq(Sections)
    BY DEF WalkInv
  <2>2. Len(report') = r + 1 /\ report'[r + 1] = section
        /\ \A i \in 1..r : report'[i] = report[i] /\ report[i] \in Sections
    BY <1>5, <2>1
  <2> QED
    BY <2>2 DEF dir, Sections
\* Where a path of the new stack comes from.
<1>7. ASSUME NEW k \in 1..(m - 1) + n
      PROVE  \/ k \in 1..m - 1 /\ queue'[k] = queue[k]
             \/ \E j \in 1..n : k = (m - 1) + j /\ queue'[k] = Append(dir, names[j])
  <2>1. CASE k <= m - 1
    BY <1>1, <1>3, <1>4, <2>1
  <2>2. CASE ~(k <= m - 1)
    <3>1. k - (m - 1) \in 1..n /\ k = (m - 1) + (k - (m - 1))
      BY <1>1, <1>3, <2>2
    <3> QED
      BY <1>4, <3>1
  <2> QED
    BY <2>1, <2>2
<1>8. \A k \in 1..m - 1 : queue[k] \in Path /\ Diverges(dir, queue[k])
  <2>1. \A k \in 1..m - 1 : k \in 1..m /\ m \in 1..m /\ k < m
    BY <1>1
  <2> QED
    BY <1>1, <1>2, <2>1 DEF WalkInv, OrderInv
<1>9. \A i \in 1..r : PathBefore(report[i].path, dir)
  BY <1>1, <1>2, <1>5 DEF OrderInv
<1>10. \A j \in 1..n : names[j] \in Names
  BY <1>3
<1>11. ReportIsOrdered'
  <2> SUFFICES ASSUME NEW i \in 1..r + 1, NEW j \in 1..r + 1, i < j
               PROVE  PathBefore(report'[i].path, report'[j].path)
    BY <1>6 DEF ReportIsOrdered
  <2>1. i \in 1..r
    BY <1>5
  <2>2. CASE j = r + 1
    BY <1>6, <1>9, <2>1, <2>2
  <2>3. CASE j # r + 1
    <3>1. j \in 1..r
      <4>1. \A z \in 1..r + 1 : z # r + 1 => z \in 1..r
        BY <1>5
      <4> QED
        BY <2>3, <4>1
    <3>2. PathBefore(report[i].path, report[j].path)
      BY <1>5, <2>1, <3>1 DEF OrderInv, ReportIsOrdered
    <3> QED
      BY <1>6, <2>1, <3>1, <3>2
  <2> QED
    BY <2>2, <2>3
<1>12. ASSUME NEW i \in 1..r + 1, NEW k \in 1..(m - 1) + n
       PROVE  PathBefore(report'[i].path, queue'[k])
  <2>1. CASE i = r + 1 /\ k \in 1..m - 1 /\ queue'[k] = queue[k]
    <3>1. queue[k] \in Path /\ Diverges(dir, queue[k])
      BY <1>8, <2>1
    <3>2. PathBefore(dir, queue[k])
      BY <1>2, <3>1, BeforeMeans
    <3> QED
      BY <1>6, <2>1, <3>2
  <2>2. ASSUME i = r + 1, NEW j \in 1..n, queue'[k] = Append(dir, names[j])
        PROVE  PathBefore(report'[i].path, queue'[k])
    <3>1. names[j] \in Names
      BY <1>10
    <3>2. Append(dir, names[j]) \in Path /\ IsStrictPrefix(dir, Append(dir, names[j]))
      BY <1>2, <3>1, StrictPrefixOfChild, DivergesBelow
    <3>3. PathBefore(dir, Append(dir, names[j]))
      BY <1>2, <3>2, BeforeMeans
    <3> QED
      BY <1>6, <2>2, <3>3
  <2>3. CASE i # r + 1 /\ k \in 1..m - 1 /\ queue'[k] = queue[k]
    <3>1. i \in 1..r /\ k \in 1..m
      BY <1>1, <1>5, <2>3
    <3> QED
      BY <1>1, <1>5, <1>6, <2>3, <3>1 DEF OrderInv
  <2>4. ASSUME i # r + 1, NEW j \in 1..n, queue'[k] = Append(dir, names[j])
        PROVE  PathBefore(report'[i].path, queue'[k])
    <3>1. i \in 1..r
      BY <1>5, <2>4
    <3> QED
      BY <1>2, <1>6, <1>9, <1>10, <2>4, <3>1, DivergesBelow
  <2> QED
    BY <1>7, <2>1, <2>2, <2>3, <2>4
<1>13. ASSUME NEW k \in 1..(m - 1) + n, NEW l \in 1..(m - 1) + n, k < l
       PROVE  Diverges(queue'[l], queue'[k])
  <2>1. CASE k \in 1..m - 1 /\ queue'[k] = queue[k] /\ l \in 1..m - 1 /\ queue'[l] = queue[l]
    <3>1. k \in 1..m /\ l \in 1..m
      BY <1>1, <2>1
    <3> QED
      BY <1>1, <1>13, <2>1, <3>1 DEF OrderInv
  <2>2. ASSUME k \in 1..m - 1, queue'[k] = queue[k],
               NEW j \in 1..n, queue'[l] = Append(dir, names[j])
        PROVE  Diverges(queue'[l], queue'[k])
    BY <1>2, <1>8, <1>10, <2>2, DivergesBelow
  <2>3. ASSUME NEW i \in 1..n, k = (m - 1) + i, queue'[k] = Append(dir, names[i]),
               NEW j \in 1..n, l = (m - 1) + j, queue'[l] = Append(dir, names[j])
        PROVE  Diverges(queue'[l], queue'[k])
    <3>1. i < j
      BY <1>1, <1>3, <1>13, <2>3
    <3>2. NameRank[names[j]] < NameRank[names[i]]
      BY <1>3, <3>1
    <3> QED
      BY <1>2, <1>10, <2>3, <3>2, SiblingsDiverge
  <2>4. ASSUME NEW i \in 1..n, k = (m - 1) + i, l \in 1..m - 1
        PROVE  FALSE
    BY <1>1, <1>3, <1>13, <2>4
  <2> QED
    BY <1>7, <2>1, <2>2, <2>3, <2>4
<1> QED
  BY <1>4, <1>6, <1>11, <1>12, <1>13 DEF OrderInv

LEMMA OrderKept ==
  ASSUME WalkInv, OrderInv, WalkStep
  PROVE  OrderInv'
<1>1. CASE UNCHANGED <<report, queue>>
  BY <1>1 DEF OrderInv, ReportIsOrdered
<1>2. ASSUME NEW a, NEW scenario, StartCheck(a, scenario)
      PROVE  OrderInv'
  <2>1. report' = <<>> /\ queue' = <<(<<>>)>>
    BY <1>2 DEF StartCheck, WalkInv
  <2>2. Len(report') = 0 /\ Len(queue') = 1
    BY <2>1
  <2> QED
    BY <2>2 DEF OrderInv, ReportIsOrdered
<1>3. CASE SkipHidden
  <2>1. Last(queue) \in Path /\ Front(queue) \in Seq(Path)
    BY <1>3, FrontOfPath DEF SkipHidden, WalkInv
  <2>2. Section(Last(queue), {}).path = Last(queue)
    BY DEF Section
  <2>3. PICK nothing : nothing \in Seq(Path) /\ nothing \in Seq(Names) /\ Len(nothing) = 0
                       /\ queue' = Front(queue) \o nothing
    <3>1. <<>> \in Seq(Path) /\ <<>> \in Seq(Names) /\ Len(<<>>) = 0
      OBVIOUS
    <3>2. \A s \in Seq(Path) : s \o <<>> = s
      OBVIOUS
    <3>3. queue' = Front(queue) \o <<>>
      BY <1>3, <2>1, <3>2 DEF SkipHidden
    <3> QED
      BY <3>1, <3>3
  <2>4. \A i \in 1..Len(nothing) : FALSE
    BY <2>3
  <2>5. queue # <<>> /\ report' = Append(report, Section(Last(queue), {}))
    BY <1>3 DEF SkipHidden
  <2> QED
    BY <2>2, <2>3, <2>4, <2>5, OrderByPop
<1>4. CASE Visit
  <2>1. Last(queue) \in Path /\ IsShare(tree)
    BY <1>4, FrontOfPath DEF Visit, WalkInv
  <2>2. PICK unknown : queue' = Front(queue) \o Push(Last(queue), unknown)
    BY <1>4 DEF Visit
  <2>3. PICK names \in Seq(KnownSubdirs(Last(queue), unknown)) :
          /\ Push(Last(queue), unknown) \in Seq(Path)
          /\ Len(Push(Last(queue), unknown)) = Len(names)
          /\ \A i \in 1..Len(names) :
               names[i] \in Names /\ Push(Last(queue), unknown)[i] = Append(Last(queue), names[i])
          /\ \A i, j \in 1..Len(names) : i < j => NameRank[names[j]] < NameRank[names[i]]
    BY <2>1, PushSorts
  <2>4. names \in Seq(Names)
    BY <2>3
  <2>5. Section(Last(queue), NamesIn(Last(queue))).path = Last(queue)
    BY DEF Section
  <2> QED
    BY <1>4, <2>2, <2>3, <2>4, <2>5, OrderByPop DEF Visit
<1> QED
  BY <1>1, <1>2, <1>3, <1>4 DEF WalkStep, StepCheck, Unlink, Unreadable, FinishReport, walkVars

--------------------------------------------------------------------------------
(* What the walk came past. *)

Written == {report[i] : i \in 1..Len(report)}
Listed == {section.path : section \in Written}
Pending == {queue[k] : k \in 1..Len(queue)}
Child(p) ==
  /\ p # <<>>
  /\ \E section \in Written : Front(p) = section.path /\ Last(p) \in section.names

CoverInv ==
  \* A directory that was read was read whole, and the visible directories in it
  \* are walked, if they were known for directories.
  /\ \A section \in Written :
       /\ ~IsHidden(access, groups, section.path) => NamesIn(section.path) \subseteq section.names
       /\ \A n \in section.names \cap Subdirs(section.path) :
            Append(section.path, n) \in Listed \cup Pending \cup blind
  /\ walk # "idle" => <<>> \in Listed \cup Pending
  \* The walk comes to a directory through the one it is in.
  /\ \A p \in Listed \cup Pending : p = <<>> \/ Child(p)
  /\ \A rule \in used : rule.kind = "allow" =>
       \E p \in Path : Evaluated(p) /\ AllowCovers(rule.allow, p)

LEMMA EvaluatedMeans ==
  \A p : Evaluated(p) <=> p \in Listed \/ Child(p)
BY DEF Evaluated, Listed, Written, Child

LEMMA CoverByPop ==
  ASSUME WalkInv, CoverInv, walk = "walking", queue # <<>>,
         UNCHANGED <<access, groups, tree, walk>>,
         NEW names, names \subseteq NamesIn(Last(queue)),
         ~IsHidden(access, groups, Last(queue)) => names = NamesIn(Last(queue)),
         report' = Append(report, Section(Last(queue), names)),
         used' = used \cup Marked(Last(queue), names),
         NEW pushed \in Seq(Path), queue' = Front(queue) \o pushed,
         blind \subseteq blind',
         \A n \in names \cap Subdirs(Last(queue)) :
           \/ Append(Last(queue), n) \in blind'
           \/ \E i \in 1..Len(pushed) : pushed[i] = Append(Last(queue), n),
         \A i \in 1..Len(pushed) :
           \E n \in names : pushed[i] = Append(Last(queue), n)
  PROVE  CoverInv'
<1>1. PICK m \in Nat \ {0} : m = Len(queue)
  BY FrontOfPath DEF WalkInv
<1>2. PICK dir \in Path : dir = Last(queue)
  BY FrontOfPath DEF WalkInv
<1>3. PICK front \in Seq(Path) :
        /\ front = Front(queue) /\ Len(front) = m - 1
        /\ \A k \in 1..m - 1 : front[k] = queue[k]
  <2>1. /\ Front(queue) \in Seq(Path) /\ Len(Front(queue)) = m - 1
        /\ \A k \in 1..m - 1 : Front(queue)[k] = queue[k]
    BY <1>1, FrontOfPath DEF WalkInv
  <2> QED
    BY <2>1
<1>4. dir = queue[m]
  BY <1>1, <1>2, FrontOfPath DEF WalkInv
<1>5. \A p \in Pending' : p \in Pending \/ \E i \in 1..Len(pushed) : p = pushed[i]
  <2> SUFFICES ASSUME NEW p, NEW k \in 1..Len(front \o pushed), p = (front \o pushed)[k]
               PROVE  p \in Pending \/ \E i \in 1..Len(pushed) : p = pushed[i]
    BY <1>3 DEF Pending
  <2>1. CASE k \in 1..m - 1
    <3>1. p = queue[k] /\ k \in 1..m
      BY <1>1, <1>3, <2>1
    <3> QED
      BY <1>1, <3>1 DEF Pending
  <2>2. CASE k \notin 1..m - 1
    <3>1. k - (m - 1) \in 1..Len(pushed) /\ p = pushed[k - (m - 1)]
      BY <1>1, <1>3, <2>2
    <3> QED
      BY <3>1
  <2> QED
    BY <2>1, <2>2
<1>6. ASSUME NEW p \in Pending
      PROVE  p \in Pending' \/ p = dir
  <2>1. PICK k \in 1..m : p = queue[k]
    BY <1>1, <1>6 DEF Pending
  <2>2. CASE k = m
    BY <1>4, <2>1, <2>2
  <2>3. CASE k # m
    <3>1. k \in 1..Len(front \o pushed) /\ p = (front \o pushed)[k]
      BY <1>1, <1>3, <2>1, <2>3
    <3> QED
      BY <1>3, <3>1 DEF Pending
  <2> QED
    BY <2>2, <2>3
<1>7. ASSUME NEW i \in 1..Len(pushed)
      PROVE  pushed[i] \in Pending'
  <2>1. (m - 1) + i \in 1..Len(front \o pushed) /\ (front \o pushed)[(m - 1) + i] = pushed[i]
    BY <1>1, <1>3
  <2> QED
    BY <1>3, <2>1 DEF Pending
<1>8. PICK new : /\ Written' = Written \cup {new}
                 /\ new.path = dir /\ new.names = names
  <2>1. PICK new : new = Section(Last(queue), names)
    OBVIOUS
  <2>2. PICK r \in Nat : r = Len(report)
    BY DEF WalkInv
  <2>3. /\ Len(report') = r + 1 /\ report'[r + 1] = new
        /\ \A i \in 1..r : report'[i] = report[i]
    BY <2>1, <2>2 DEF WalkInv
  <2>4. \A i : i \in 1..r + 1 <=> i \in 1..r \/ i = r + 1
    BY <2>2
  <2>5. Written' = Written \cup {new}
    BY <2>2, <2>3, <2>4 DEF Written
  <2>6. new.path = Last(queue) /\ new.names = names
    BY <2>1 DEF Section
  <2> QED
    BY <1>2, <2>5, <2>6
<1>9. /\ Listed' = Listed \cup {dir}
      /\ \A p : Child(p) => Child(p)'
  BY <1>8 DEF Listed, Child
<1>10. Listed \cup Pending \subseteq Listed' \cup Pending'
  BY <1>6, <1>9
<1>11. \A n \in names : Child(Append(dir, n))'
  <2> SUFFICES ASSUME NEW n \in names
               PROVE  Child(Append(dir, n))'
    OBVIOUS
  <2>1. n \in Names /\ dir \in Seq(Names)
    BY <1>2 DEF NamesIn, Path
  <2>2. Append(dir, n) # <<>> /\ Front(Append(dir, n)) = dir /\ Last(Append(dir, n)) = n
    BY <2>1, FrontOfAppend
  <2> QED
    BY <1>8, <2>2 DEF Child
<1>12. \A p : Subdirs(p)' = Subdirs(p) /\ NamesIn(p)' = NamesIn(p)
  BY DEF Subdirs, NamesIn, IsDir
<1>13. ASSUME NEW s \in Written'
       PROVE  /\ ~IsHidden(access, groups, s.path) => NamesIn(s.path) \subseteq s.names
              /\ \A n \in s.names \cap Subdirs(s.path) :
                   Append(s.path, n) \in Listed' \cup Pending' \cup blind'
  <2>1. CASE s \in Written
    BY <1>10, <2>1 DEF CoverInv
  <2>2. CASE s = new
    <3>1. \A n \in names \cap Subdirs(dir) : Append(dir, n) \in Pending' \cup blind'
      BY <1>2, <1>7
    <3> QED
      BY <1>2, <1>8, <2>2, <3>1
  <2> QED
    BY <1>8, <2>1, <2>2
<1>14. walk' # "idle" => <<>> \in Listed' \cup Pending'
  BY <1>10 DEF CoverInv
<1>15. ASSUME NEW p \in Listed' \cup Pending'
       PROVE  p = <<>> \/ Child(p)'
  <2>1. dir \in Pending
    BY <1>1, <1>4 DEF Pending
  <2>2. p \in Listed \cup Pending \/ \E n \in names : p = Append(dir, n)
    BY <1>2, <1>5, <1>9, <2>1
  <2> QED
    BY <1>9, <1>11, <2>2 DEF CoverInv
<1>16. ASSUME NEW rule \in used', rule.kind = "allow"
       PROVE  \E p \in Path : Evaluated(p)' /\ AllowCovers(rule.allow, p)
  <2>0. \A p : Evaluated(p)' <=> p \in Listed' \/ Child(p)'
    BY DEF Evaluated, Listed, Written, Child
  <2>1. CASE rule \in used
    <3>1. PICK p \in Path : Evaluated(p) /\ AllowCovers(rule.allow, p)
      BY <1>16, <2>1 DEF CoverInv
    <3>2. Evaluated(p)'
      BY <1>9, <2>0, <3>1, EvaluatedMeans
    <3> QED
      BY <3>1, <3>2
  <2>2. CASE rule \in Marked(dir, names)
    <3>1. UsedBy(rule, dir) \/ \E n \in names : UsedBy(rule, Append(dir, n))
      BY <1>16, <2>2 DEF Marked
    <3>2. CASE UsedBy(rule, dir)
      <4>1. Evaluated(dir)'
        BY <1>9, <2>0
      <4> QED
        BY <1>16, <3>2, <4>1 DEF UsedBy
    <3>3. CASE \E n \in names : UsedBy(rule, Append(dir, n))
      <4>1. PICK n \in names : UsedBy(rule, Append(dir, n))
        BY <3>3
      <4>2. PICK c : c = Append(dir, n)
        OBVIOUS
      <4>3. Evaluated(c)' /\ c \in Path
        BY <1>2, <1>11, <2>0, <4>2 DEF NamesIn, Path
      <4> QED
        BY <1>16, <4>1, <4>2, <4>3 DEF UsedBy
    <3> QED
      BY <3>1, <3>2, <3>3
  <2> QED
    BY <1>2, <1>16, <2>1, <2>2
<1> QED
  BY <1>12, <1>13, <1>14, <1>15, <1>16 DEF CoverInv

LEMMA CoverKept ==
  ASSUME WalkInv, CoverInv, WalkStep
  PROVE  CoverInv'
<1>1. ASSUME UNCHANGED <<access, groups, report, queue, used, blind>>,
             walk' # "idle" => walk # "idle",
             \A p : NamesIn(p)' \subseteq NamesIn(p) /\ Subdirs(p)' \subseteq Subdirs(p)
      PROVE  CoverInv'
  <2>1. /\ Written' = Written /\ Listed' = Listed /\ Pending' = Pending
        /\ \A p : (Child(p)' <=> Child(p)) /\ (Evaluated(p)' <=> Evaluated(p))
    BY <1>1 DEF Written, Listed, Pending, Child, Evaluated
  <2>2. \A s \in Written :
          /\ ~IsHidden(access, groups, s.path) => NamesIn(s.path)' \subseteq s.names
          /\ \A n \in s.names \cap Subdirs(s.path)' :
               Append(s.path, n) \in Listed \cup Pending \cup blind
    BY <1>1 DEF CoverInv
  <2>3. /\ walk' # "idle" => <<>> \in Listed \cup Pending
        /\ \A p \in Listed \cup Pending : p = <<>> \/ Child(p)
        /\ \A rule \in used : rule.kind = "allow" =>
             \E p \in Path : Evaluated(p) /\ AllowCovers(rule.allow, p)
    BY <1>1 DEF CoverInv
  <2> QED
    BY <1>1, <2>1, <2>2, <2>3 DEF CoverInv
<1>2. CASE UNCHANGED <<access, groups, tree, report, queue, used, blind>>
           /\ (walk' # "idle" => walk # "idle")
  <2>1. \A p : NamesIn(p)' = NamesIn(p) /\ Subdirs(p)' = Subdirs(p)
    BY <1>2 DEF NamesIn, Subdirs, IsDir
  <2> QED
    BY <1>1, <1>2, <2>1
<1>3. CASE Unlink
  <2>1. DOMAIN tree' \subseteq DOMAIN tree /\ \A p \in DOMAIN tree' : tree'[p] = tree[p]
    BY <1>3, ShareShrinks DEF WalkInv
  <2>2. \A p : NamesIn(p)' \subseteq NamesIn(p) /\ (IsDir(p)' => IsDir(p))
    BY <2>1 DEF NamesIn, IsDir
  <2>3. UNCHANGED <<access, groups, report, queue, used, walk, blind>>
    BY <1>3 DEF Unlink
  <2>4. \A p : Subdirs(p)' \subseteq Subdirs(p)
    BY <2>2, <2>3 DEF Subdirs
  <2> QED
    BY <1>1, <2>2, <2>3, <2>4
<1>4. ASSUME NEW a, NEW scenario, StartCheck(a, scenario)
      PROVE  CoverInv'
  <2>1. report' = <<>> /\ queue' = <<(<<>>)>> /\ used' = {}
    BY <1>4 DEF StartCheck, WalkInv
  <2>2. Len(report') = 0 /\ Len(queue') = 1 /\ queue'[1] = <<>>
    BY <2>1
  <2>3. Written' = {} /\ Listed' = {} /\ Pending' = {<<>>}
    BY <2>2 DEF Written, Listed, Pending
  <2> QED
    BY <2>1, <2>2, <2>3 DEF CoverInv
<1>5. CASE SkipHidden
  <2>1. PICK nothing \in Seq(Path) : Len(nothing) = 0 /\ queue' = Front(queue) \o nothing
    <3>1. <<>> \in Seq(Path) /\ Len(<<>>) = 0
      OBVIOUS
    <3>2. \A s \in Seq(Path) : s \o <<>> = s
      OBVIOUS
    <3>3. Front(queue) \in Seq(Path)
      BY <1>5, FrontOfPath DEF SkipHidden, WalkInv
    <3>4. queue' = Front(queue) \o <<>>
      BY <1>5, <3>2, <3>3 DEF SkipHidden
    <3> QED
      BY <3>1, <3>4
  <2>2. \A i \in 1..Len(nothing) : FALSE
    BY <2>1
  <2>3. PICK names : names = {}
    OBVIOUS
  <2>4. /\ walk = "walking" /\ queue # <<>> /\ UNCHANGED <<access, groups, tree, walk>>
        /\ IsHidden(access, groups, Last(queue))
        /\ report' = Append(report, Section(Last(queue), names))
        /\ used' = used \cup Marked(Last(queue), names) /\ blind' = blind
    BY <1>5, <2>3 DEF SkipHidden
  <2>5. /\ names \subseteq NamesIn(Last(queue))
        /\ ~IsHidden(access, groups, Last(queue)) => names = NamesIn(Last(queue))
        /\ \A n \in names \cap Subdirs(Last(queue)) :
             \E i \in 1..Len(nothing) : nothing[i] = Append(Last(queue), n)
        /\ \A i \in 1..Len(nothing) :
             \E n \in names : nothing[i] = Append(Last(queue), n)
    BY <2>2, <2>3, <2>4
  <2> QED
    BY <2>1, <2>4, <2>5, CoverByPop
<1>6. CASE Visit
  <2>1. Last(queue) \in Path /\ IsShare(tree)
    BY <1>6, FrontOfPath DEF Visit, WalkInv
  <2>2. PICK unknown : /\ queue' = Front(queue) \o Push(Last(queue), unknown)
                       /\ blind' = blind \cup {Append(Last(queue), n) : n \in unknown}
    BY <1>6 DEF Visit
  <2>3. PICK pushed : pushed = Push(Last(queue), unknown)
    OBVIOUS
  <2>4. PICK names \in Seq(KnownSubdirs(Last(queue), unknown)) :
          /\ pushed \in Seq(Path) /\ Len(pushed) = Len(names)
          /\ \A i \in 1..Len(names) : pushed[i] = Append(Last(queue), names[i])
          /\ \A n \in KnownSubdirs(Last(queue), unknown) : \E i \in 1..Len(names) : names[i] = n
    BY <2>1, <2>3, PushSorts
  <2>5. /\ \A n \in Subdirs(Last(queue)) :
             \/ Append(Last(queue), n) \in blind'
             \/ \E i \in 1..Len(pushed) : pushed[i] = Append(Last(queue), n)
        /\ \A i \in 1..Len(pushed) :
             \E n \in NamesIn(Last(queue)) : pushed[i] = Append(Last(queue), n)
    <3>1. \A i \in 1..Len(names) : names[i] \in NamesIn(Last(queue))
      BY <2>4 DEF KnownSubdirs, Subdirs
    <3> QED
      BY <2>2, <2>4, <3>1 DEF KnownSubdirs
  <2>6. /\ walk = "walking" /\ queue # <<>> /\ UNCHANGED <<access, groups, tree, walk>>
        /\ report' = Append(report, Section(Last(queue), NamesIn(Last(queue))))
        /\ used' = used \cup Marked(Last(queue), NamesIn(Last(queue)))
        /\ queue' = Front(queue) \o pushed /\ blind \subseteq blind'
    BY <1>6, <2>2, <2>3 DEF Visit
  <2>7. PICK all : all = NamesIn(Last(queue))
    OBVIOUS
  <2>8. /\ pushed \in Seq(Path)
        /\ \A n \in all \cap Subdirs(Last(queue)) :
             \/ Append(Last(queue), n) \in blind'
             \/ \E i \in 1..Len(pushed) : pushed[i] = Append(Last(queue), n)
        /\ \A i \in 1..Len(pushed) : \E n \in all : pushed[i] = Append(Last(queue), n)
    BY <2>4, <2>5, <2>7
  <2>9. /\ all \subseteq NamesIn(Last(queue)) /\ all = NamesIn(Last(queue))
        /\ report' = Append(report, Section(Last(queue), all))
        /\ used' = used \cup Marked(Last(queue), all)
    BY <2>6, <2>7
  <2> QED
    BY <2>6, <2>8, <2>9, CoverByPop
<1> QED
  BY <1>2, <1>3, <1>4, <1>5, <1>6 DEF WalkStep, StepCheck, Unreadable, FinishReport, walkVars

--------------------------------------------------------------------------------
(* What the walk never looked at. *)

\* The first k names of a path.
Upper(p, k) == SubSeq(p, 1, k)

LEMMA UpperElements ==
  ASSUME NEW S, NEW p \in Seq(S), NEW k \in 0..Len(p)
  PROVE  /\ Upper(p, k) \in Seq(S) /\ Len(Upper(p, k)) = k
         /\ \A i \in 1..k : Upper(p, k)[i] = p[i]
BY DEF Upper

LEMMA UpperParent ==
  ASSUME NEW S, NEW p \in Seq(S), NEW k \in 1..Len(p)
  PROVE  /\ Upper(p, k) \in Seq(S) /\ Upper(p, k) # <<>> /\ Len(Upper(p, k)) = k
         /\ Upper(p, k) = Append(Upper(p, k - 1), p[k])
         /\ Front(Upper(p, k)) = Upper(p, k - 1) /\ Last(Upper(p, k)) = p[k]
         /\ p[k] \in S
         /\ Upper(p, k - 1) \in Seq(S) /\ Len(Upper(p, k - 1)) = k - 1
<1>1. PICK n \in Nat : n = Len(p) /\ k \in 1..n
  OBVIOUS
<1>2. PICK q, r : q = Upper(p, k) /\ r = Upper(p, k - 1)
  OBVIOUS
<1>3. q \in Seq(S) /\ Len(q) = k /\ \A i \in 1..k : q[i] = p[i]
  <2>1. k \in 0..Len(p)
    BY <1>1
  <2> QED
    BY <1>2, <2>1, UpperElements
<1>4. r \in Seq(S) /\ Len(r) = k - 1 /\ \A i \in 1..k - 1 : r[i] = p[i]
  <2>1. k - 1 \in 0..Len(p)
    BY <1>1
  <2> QED
    BY <1>2, <2>1, UpperElements
<1>5. p[k] \in S
  BY <1>1
<1>6. Append(r, p[k]) \in Seq(S) /\ Len(Append(r, p[k])) = k
      /\ \A i \in 1..k : Append(r, p[k])[i] = p[i]
  BY <1>1, <1>4, <1>5
<1>7. q = Append(r, p[k])
  BY <1>3, <1>6
<1>8. q # <<>>
  BY <1>1, <1>3
<1>9. Front(Append(r, p[k])) = r /\ Last(Append(r, p[k])) = p[k]
  BY <1>4, <1>5, FrontOfAppend
<1> QED
  BY <1>2, <1>3, <1>4, <1>5, <1>7, <1>8, <1>9

LEMMA UpperPrefix ==
  ASSUME NEW S, NEW p \in Seq(S), NEW q \in Seq(S)
  PROVE  /\ Upper(p, Len(p)) = p
         /\ IsPrefix(q, p) => Len(q) \in 0..Len(p) /\ Upper(p, Len(q)) = q
<1>1. PICK n \in Nat, m \in Nat : n = Len(p) /\ m = Len(q)
  OBVIOUS
<1>2. SubSeq(p, 1, n) = p /\ SubSeq(q, 1, m) = q
  BY <1>1
<1> QED
  BY <1>1, <1>2 DEF IsPrefix, Upper

\* Above what the walk came past there is nothing it did not come past.
LEMMA EvaluatedAbove ==
  ASSUME CoverInv, NEW p \in Path, Evaluated(p), NEW k \in 0..Len(p)
  PROVE  Evaluated(Upper(p, k))
<1>0. p \in Seq(Names)
  BY DEF Path
<1>1. PICK n \in Nat : n = Len(p) /\ k \in 0..n
  BY <1>0
<1> DEFINE T == {i \in 0..n : ~Evaluated(Upper(p, n - i))}
<1> SUFFICES ASSUME T # {}
             PROVE  FALSE
  <2>1. n - k \in 0..n /\ n - (n - k) = k
    BY <1>1
  <2> QED
    BY <2>1
<1>2. PICK i \in T : \A j \in T : i <= j
  <2>1. T \subseteq Nat
    OBVIOUS
  <2> HIDE DEF T
  <2> QED
    BY <2>1, LeastNatural
<1>3. i # 0
  <2>1. Upper(p, n - 0) = p
    BY <1>0, <1>1, UpperPrefix
  <2> QED
    BY <1>2, <2>1
<1>4. PICK c \in 1..n : c = n - (i - 1)
  BY <1>2, <1>3
<1>5. Evaluated(Upper(p, c)) /\ ~Evaluated(Upper(p, c - 1))
  <2>1. i - 1 \in 0..n /\ ~(i <= i - 1) /\ n - i = c - 1
    BY <1>2, <1>3, <1>4
  <2> QED
    BY <1>2, <1>4, <2>1
<1> HIDE DEF T
<1>6. PICK q : q = Upper(p, c)
  OBVIOUS
<1>7. q # <<>> /\ Front(q) = Upper(p, c - 1)
  <2>1. c \in 1..Len(p)
    BY <1>1
  <2> QED
    BY <1>0, <1>6, <2>1, UpperParent
<1>8. Child(q)
  BY <1>5, <1>6, <1>7, EvaluatedMeans DEF CoverInv
<1>9. Front(q) \in Listed
  BY <1>8 DEF Child, Listed
<1> QED
  BY <1>5, <1>7, <1>9, EvaluatedMeans

\* Above an entry of the share there are directories.
LEMMA DirsAbove ==
  ASSUME IsShare(tree), NEW p \in DOMAIN tree, NEW k \in 0..Len(p), k # Len(p)
  PROVE  IsDir(Upper(p, k))
<1>0. p \in Seq(OsNames) \ {<<>>}
  BY DEF IsShare
<1>1. PICK n \in Nat : n = Len(p) /\ k \in 0..n
  BY <1>0
<1> DEFINE T == {i \in 1..n : ~IsDir(Upper(p, n - i))}
<1> SUFFICES ASSUME T # {}
             PROVE  FALSE
  <2>1. n - k \in 1..n /\ n - (n - k) = k
    BY <1>1
  <2> QED
    BY <2>1
<1>2. PICK i \in T : \A j \in T : i <= j
  <2>1. T \subseteq Nat
    OBVIOUS
  <2> HIDE DEF T
  <2> QED
    BY <2>1, LeastNatural
<1>3. PICK c \in 1..n : c = n - (i - 1)
  BY <1>2
<1>4. ~IsDir(Upper(p, c - 1))
  BY <1>2, <1>3
<1>5. c = n \/ IsDir(Upper(p, c))
  <2>1. CASE i = 1
    BY <1>3, <2>1
  <2>2. CASE i # 1
    <3>1. i - 1 \in 1..n /\ ~(i <= i - 1)
      BY <1>2, <2>2
    <3> QED
      BY <1>2, <1>3, <3>1
  <2> QED
    BY <2>1, <2>2
<1> HIDE DEF T
<1>6. PICK q : q = Upper(p, c)
  OBVIOUS
<1>7. q # <<>> /\ Front(q) = Upper(p, c - 1)
  <2>1. c \in 1..Len(p) /\ p \in Seq(OsNames)
    BY <1>0, <1>1
  <2> QED
    BY <1>6, <2>1, UpperParent
<1>8. c = n => q = p
  BY <1>0, <1>1, <1>6, UpperPrefix
<1>9. q \in DOMAIN tree
  BY <1>5, <1>6, <1>7, <1>8 DEF IsDir
<1>10. IsDir(Front(q))
  BY <1>9 DEF IsShare, IsDir
<1> QED
  BY <1>4, <1>7, <1>10

\* An allow rule that covers a visible path is used as soon as the walk comes to
\* a path it covers: from there it is walked down to the visible path.
LEMMA WalkedFromAllow ==
  ASSUME WalkInv, CoverInv, walk = "done",
         NEW p \in DOMAIN tree, p \in Path, ~IsHidden(access, groups, p), ~Evaluated(p),
         NEW a \in Path, AllowCovers(a, p),
         \A q \in Path : AllowCovers(a, q) => Allowed(access, groups, q),
         Allowed(access, groups, <<>>) =>
           access.globalAllow # {} \/ Entries(access, groups) # {},
         \A b \in blind : ~IsPrefix(b, p),
         NEW q \in Path, Evaluated(q), AllowCovers(a, q)
  PROVE  FALSE
<1>0. p \in Seq(Names) /\ a \in Seq(Names) /\ q \in Seq(Names)
  BY DEF Path
<1>1. PICK n \in Nat, l \in Nat : n = Len(p) /\ l = Len(a) /\ l \in 0..n
  BY <1>0, UpperPrefix DEF AllowCovers
<1>2. a = Upper(p, l) /\ a = Upper(q, l) /\ l \in 0..Len(q) /\ Upper(p, n) = p
  BY <1>0, <1>1, UpperPrefix DEF AllowCovers
<1>3. Evaluated(a)
  BY <1>2, EvaluatedAbove
<1> DEFINE T == {k \in l..n : ~Evaluated(Upper(p, k))}
<1>4. n \in T
  <2>1. n \in l..n
    BY <1>1
  <2> QED
    BY <1>2, <2>1
<1>5. PICK c \in T : \A k \in T : c <= k
  <2>1. T \subseteq Nat /\ T # {}
    BY <1>4
  <2> HIDE DEF T
  <2> QED
    BY <2>1, LeastNatural
<1>6. c \in 1..n /\ l <= c - 1 /\ ~Evaluated(Upper(p, c))
  BY <1>1, <1>2, <1>3, <1>5
<1>7. Evaluated(Upper(p, c - 1))
  <2>1. c - 1 \in l..n /\ ~(c <= c - 1)
    BY <1>1, <1>6
  <2> QED
    BY <1>5, <2>1
<1> HIDE DEF T
<1>8. PICK dir \in Path, child \in Path :
        /\ dir = Upper(p, c - 1) /\ child = Upper(p, c) /\ child # <<>>
        /\ dir = Front(child) /\ Last(child) = p[c] /\ p[c] \in Names
        /\ child = Append(dir, p[c]) /\ Len(dir) = c - 1
  <2>1. c \in 1..Len(p)
    BY <1>1, <1>6
  <2>2. PICK d, e : d = Upper(p, c - 1) /\ e = Upper(p, c)
    OBVIOUS
  <2>3. /\ e \in Seq(Names) /\ e # <<>> /\ Front(e) = d /\ Last(e) = p[c] /\ p[c] \in Names
        /\ e = Append(d, p[c]) /\ d \in Seq(Names) /\ Len(d) = c - 1
    BY <1>0, <2>1, <2>2, UpperParent
  <2> QED
    BY <2>2, <2>3 DEF Path
<1>9. Allowed(access, groups, dir)
  <2>1. IsPrefix(a, dir)
    <3>1. /\ Len(a) <= Len(dir)
          /\ \A i \in 1..l : a[i] = p[i]
          /\ \A i \in 1..c - 1 : dir[i] = p[i]
      <4>1. l \in 0..Len(p) /\ c - 1 \in 0..Len(p)
        BY <1>1, <1>6
      <4> QED
        BY <1>0, <1>1, <1>2, <1>6, <1>8, <4>1, UpperElements
    <3>2. \A i \in 1..Len(a) : dir[i] = a[i]
      BY <1>1, <1>6, <3>1
    <3> QED
      BY <1>0, <3>1, <3>2, PrefixElements DEF Path
  <2> QED
    BY <2>1 DEF AllowCovers
<1>9a. IsPrefix(dir, p)
  <2>1. \A i \in 1..c - 1 : dir[i] = p[i]
    <3>1. c - 1 \in 0..Len(p)
      BY <1>1, <1>6
    <3> QED
      BY <1>0, <1>8, <3>1, UpperElements
  <2>2. Len(dir) <= Len(p) /\ \A i \in 1..Len(dir) : p[i] = dir[i]
    BY <1>1, <1>6, <1>8, <2>1
  <2> QED
    BY <1>0, <2>2, PrefixElements DEF Path
<1>10. ~IsHidden(access, groups, dir)
  <2>1. CASE dir = <<>>
    BY <1>9, <2>1 DEF IsHidden, Evaluate
  <2>2. CASE dir # <<>>
    <3>2. IsAccessConfig(access)
      BY DEF WalkInv, WalkTypeOK
    <3>3. ~Denied(access, groups, dir)
      <4>1. p # <<>>
        BY <1>0, <1>1, <1>6
      <4>2. ~Denied(access, groups, p)
        BY <4>1 DEF IsHidden, Evaluate
      <4> QED
        BY <1>9a, <3>2, <4>2, DeniedBelow
    <3> QED
      BY <1>9, <2>2, <3>3 DEF IsHidden, Evaluate
  <2> QED
    BY <2>1, <2>2
<1>11. IsShare(tree) /\ queue = <<>>
  BY DEF WalkInv
<1>12. IsDir(dir) /\ child \in DOMAIN tree
  <2>1. IsDir(dir)
    <3>1. c - 1 \in 0..Len(p) /\ c - 1 # Len(p)
      BY <1>1, <1>6
    <3> QED
      BY <1>8, <1>11, <3>1, DirsAbove
  <2>2. CASE c = n
    BY <1>2, <1>8, <2>1, <2>2
  <2>3. CASE c # n
    <3>1. c \in 0..Len(p) /\ c # Len(p)
      BY <1>1, <1>6, <2>3
    <3>2. IsDir(child)
      BY <1>8, <1>11, <3>1, DirsAbove
    <3> QED
      BY <1>8, <2>1, <3>2 DEF IsDir
  <2> QED
    BY <2>2, <2>3
<1>13. p[c] \in NamesIn(dir)
  BY <1>8, <1>12 DEF NamesIn
<1>14. Pending = {}
  <2>1. Len(queue) = 0
    BY <1>11
  <2> QED
    BY <2>1 DEF Pending
<1>15. dir \in Listed
  <2>1. CASE dir \notin Listed
    <3>1. Child(dir)
      BY <1>7, <1>8, <2>1, EvaluatedMeans
    <3>2. PICK s \in Written : Front(dir) = s.path /\ Last(dir) \in s.names /\ dir # <<>>
      BY <3>1 DEF Child
    <3>3. /\ Front(dir) \in Path /\ Last(dir) \in Names /\ dir = Append(Front(dir), Last(dir))
      BY <3>2, FrontOfPath DEF Path
    <3>4. dir \in DOMAIN tree
      BY <1>12, <3>2 DEF IsDir
    <3>5. Last(dir) \in Subdirs(s.path)
      BY <1>10, <1>12, <3>2, <3>3, <3>4 DEF Subdirs, NamesIn
    <3> QED
      BY <1>9a, <1>14, <2>1, <3>2, <3>3, <3>5 DEF CoverInv
  <2> QED
    BY <2>1
<1>16. PICK s \in Written : s.path = dir
  BY <1>15 DEF Listed
<1>17. p[c] \in s.names
  BY <1>10, <1>13, <1>16 DEF CoverInv
<1>18. Child(child)
  BY <1>8, <1>16, <1>17 DEF Child
<1> QED
  BY <1>6, <1>8, <1>18, EvaluatedMeans

LEMMA CoverMeans ==
  ASSUME WalkInv, CoverInv
  PROVE  NothingHiddenSilently
<1> SUFFICES ASSUME walk = "done", NEW p \in DOMAIN tree, p \in Path,
                    ~IsHidden(access, groups, p), ~Evaluated(p),
                    \A b \in blind : ~IsPrefix(b, p)
             PROVE  \E r \in Unmatched : /\ r.kind = "allow"
                                         /\ AllowCovers(r.allow, p)
                                         /\ r.by = <<>> \/ Head(r.by) \in groups
  BY DEF NothingHiddenSilently
<1>0. IsAccessConfig(access)
  BY DEF WalkInv, WalkTypeOK
<1>1. p # <<>>
  BY DEF WalkInv, IsShare
<1>2. Allowed(access, groups, p)
  BY <1>1 DEF IsHidden, Evaluate
<1>3. Allowed(access, groups, <<>>) =>
        access.globalAllow # {} \/ Entries(access, groups) # {}
  BY DEF Allowed, Covering
<1>4. ASSUME NEW r \in CheckRules(access), r.kind = "allow", r.allow \in Path,
             AllowCovers(r.allow, p),
             \A q \in Path : AllowCovers(r.allow, q) => Allowed(access, groups, q)
      PROVE  r \in Unmatched
  <2> SUFFICES ASSUME r \in used
               PROVE  FALSE
    BY <1>4 DEF Unmatched
  <2>1. PICK q \in Path : Evaluated(q) /\ AllowCovers(r.allow, q)
    BY <1>4 DEF CoverInv
  <2> QED
    BY <1>3, <1>4, <2>1, WalkedFromAllow
<1>5. CASE \E a \in access.globalAllow : AllowCovers(a, p)
  <2>1. PICK a \in access.globalAllow : AllowCovers(a, p)
    BY <1>5
  <2>2. PICK r : r = AllowRule(a, <<>>)
    OBVIOUS
  <2>3. r \in CheckRules(access)
    BY <2>2 DEF CheckRules
  <2>4. r.kind = "allow" /\ r.allow = a /\ r.by = <<>> /\ a \in Path
    BY <1>0, <2>2 DEF AllowRule, IsAccessConfig
  <2>5. \A q \in Path : AllowCovers(a, q) => Allowed(access, groups, q)
    BY DEF Allowed
  <2> QED
    BY <1>4, <2>1, <2>3, <2>4, <2>5
<1>6. CASE Covering(access, groups, p) # {}
  <2>1. PICK e \in Entries(access, groups) : AllowCovers(e.path, p)
    BY <1>6 DEF Covering
  <2>2. PICK g \in DOMAIN access.grants \cap groups : e \in access.grants[g].allow
    BY DEF Entries
  <2>3. PICK r : r = AllowRule(e.path, <<g>>)
    OBVIOUS
  <2>4. r \in CheckRules(access)
    <3>1. <<g, e>> \in GrantEntries(access)
      BY <2>2 DEF GrantEntries
    <3>2. r \in {AllowRule(ge[2].path, <<ge[1]>>) : ge \in GrantEntries(access)}
      BY <2>3, <3>1
    <3> QED
      BY <3>2 DEF CheckRules
  <2>5. r.kind = "allow" /\ r.allow = e.path /\ Head(r.by) = g /\ e.path \in Path
    BY <1>0, <2>3, EntriesTyped DEF AllowRule
  <2>6. \A q \in Path : AllowCovers(e.path, q) => Allowed(access, groups, q)
    BY DEF Allowed, Covering
  <2> QED
    BY <1>4, <2>1, <2>2, <2>4, <2>5, <2>6
<1> QED
  BY <1>2, <1>5, <1>6 DEF Allowed

--------------------------------------------------------------------------------
(* The access block. *)

\* Normalizing leaves at least one segment, and none that was not there.
LEMMA NormalizedTyped ==
  ASSUME NEW S, NEW raw, raw.segments \in Seq(S), raw.segments # <<>>
  PROVE  Normalized(raw) \in Seq(S) /\ Normalized(raw) # <<>>
<1>1. ASSUME NEW s \in Seq(S), s # <<>>
      PROVE  /\ WithoutSlash(s) \in Seq(S) /\ WithoutSlash(s) # <<>>
             /\ WithoutDotSlash(s) \in Seq(S) /\ WithoutDotSlash(s) # <<>>
  <2>1. Len(s) > 1 => Tail(s) \in Seq(S) /\ Tail(s) # <<>>
    <3>1. PICK n \in Nat : n = Len(s)
      OBVIOUS
    <3>2. Tail(s) \in Seq(S) /\ Len(Tail(s)) = n - 1
      BY <1>1, <3>1
    <3>3. \A t \in Seq(S) : Len(t) # 0 => t # <<>>
      OBVIOUS
    <3>4. n > 1 => Len(Tail(s)) # 0
      BY <3>2
    <3> QED
      BY <3>1, <3>2, <3>3, <3>4
  <2> QED
    BY <1>1, <2>1 DEF WithoutSlash, WithoutDotSlash
<1>2. PICK s \in Seq(S) : s = WithoutSlash(raw.segments) /\ s # <<>>
  BY <1>1
<1> QED
  BY <1>1, <1>2 DEF Normalized

LEMMA GoodSegments ==
  ASSUME NEW S, NEW s \in Seq(S \cup {Empty, DotDot}), ~HasBadSegment(s)
  PROVE  s \in Seq(S)
<1>1. \A i \in 1..Len(s) : s[i] \in S
  BY DEF HasBadSegment
<1>2. PICK n \in Nat : n = Len(s) /\ s \in [1..n -> S \cup {Empty, DotDot}]
  OBVIOUS
<1>3. s \in [1..n -> S]
  BY <1>1, <1>2
<1> QED
  BY <1>2, <1>3

LEMMA AllowTyped ==
  ASSUME NEW raw \in RawPath, ValidAllow(raw)
  PROVE  AllowPath(raw) \in Path
<1>1. Normalized(raw) \in Seq(Names \cup {Empty, DotDot})
  BY NormalizedTyped DEF RawPath
<1>2. CASE Normalized(raw) = <<Empty>>
  BY <1>2 DEF AllowPath, Path
<1>3. CASE Normalized(raw) # <<Empty>>
  <2>1. Normalized(raw) \in Seq(Names)
    BY <1>1, <1>3, GoodSegments DEF ValidAllow
  <2> QED
    BY <1>3, <2>1 DEF AllowPath, Path
<1> QED
  BY <1>2, <1>3

LEMMA DenyTyped ==
  ASSUME NEW raw \in RawPattern, ValidDeny(raw)
  PROVE  Normalized(raw) \in Pattern
<1>1. Normalized(raw) \in Seq(Globs \cup {Empty, DotDot}) /\ Normalized(raw) # <<>>
  BY NormalizedTyped DEF RawPattern
<1>2. Normalized(raw) \in Seq(Globs)
  BY <1>1, GoodSegments DEF ValidDeny
<1> QED
  BY <1>1, <1>2 DEF Pattern

LEMMA RangeOfSequence ==
  ASSUME NEW S, NEW s \in Seq(S)
  PROVE  Range(s) \subseteq S
BY DEF Range

LEMMA GrantTyped ==
  ASSUME NEW g \in RawGrant, g.allow # <<>>,
         \A e \in Range(g.allow) :
           ValidAllow(e.path) /\ \A r \in Range(e.deny) : ValidDeny(r)
  PROVE  ValidatedGrant(g) \in Grant /\ ValidatedGrant(g).allow # {}
<1>1. Range(g.allow) \subseteq RawEntry
  BY RangeOfSequence DEF RawGrant
<1>2. ASSUME NEW e \in Range(g.allow)
      PROVE  [path |-> AllowPath(e.path), deny |-> {Normalized(r) : r \in Range(e.deny)}]
               \in AllowEntry
  <2>1. e.path \in RawPath /\ e.deny \in Seq(RawPattern)
    BY <1>1, <1>2 DEF RawEntry
  <2>2. AllowPath(e.path) \in Path
    BY <1>2, <2>1, AllowTyped
  <2>3. Range(e.deny) \subseteq RawPattern
    BY <2>1, RangeOfSequence
  <2>4. \A r \in Range(e.deny) : Normalized(r) \in Pattern
    BY <1>2, <2>3, DenyTyped
  <2> QED
    BY <2>2, <2>4 DEF AllowEntry
<1>3. PICK e : e \in Range(g.allow)
  <2>1. g.allow \in Seq(RawEntry)
    BY DEF RawGrant
  <2>2. 1 \in DOMAIN g.allow
    BY <2>1
  <2> QED
    BY <2>2 DEF Range
<1>4. g.delete \in BOOLEAN
  BY DEF RawGrant
<1> QED
  BY <1>2, <1>3, <1>4 DEF ValidatedGrant, Grant

\* The last grant of a group is one of the grants.
LEMMA LastOfTyped ==
  ASSUME NEW grants \in Seq(RawGrant), NEW g \in Range(grants)
  PROVE  LastOf(grants, g.group) \in Range(grants)
<1> DEFINE T == {i \in DOMAIN grants : grants[i].group = g.group}
<1>1. PICK n \in Nat : n = Len(grants) /\ DOMAIN grants = 1..n
  OBVIOUS
<1>2. PICK k \in T : TRUE
  BY DEF Range
<1> DEFINE U == {n - i : i \in T}
<1>3. U \subseteq Nat /\ U # {}
  BY <1>1, <1>2
<1> HIDE DEF U
<1>4. PICK m \in U : \A j \in U : m <= j
  BY <1>3, LeastNatural
<1>5. PICK i \in T : m = n - i
  BY <1>4 DEF U
<1>6. \A j \in T : n - i <= n - j
  BY <1>4, <1>5 DEF U
<1>7. \A j \in T : i >= j
  BY <1>1, <1>6
<1> HIDE DEF T
<1>8. Max(T) \in T
  BY <1>7 DEF Max
<1> QED
  BY <1>8 DEF LastOf, T, Range

(* What validate_access_config accepts is a configuration as the access rules  *)
(* assume it.                                                                  *)
LEMMA ValidatedIsConfig ==
  ASSUME NEW block \in AccessBlock, ValidAccess(block)
  PROVE  IsAccessConfig(Validated(block))
<1> DEFINE a == Validated(block)
<1>1. /\ block.allow \in Seq(RawPath) /\ block.deny \in Seq(RawPattern)
      /\ block.grants \in Seq(RawGrant)
  BY DEF AccessBlock
<1>2. /\ Range(block.allow) \subseteq RawPath /\ Range(block.deny) \subseteq RawPattern
      /\ Range(block.grants) \subseteq RawGrant
  BY <1>1, RangeOfSequence
<1>3. /\ a.globalAllow = {AllowPath(r) : r \in Range(block.allow)}
      /\ a.globalDeny = {Normalized(r) : r \in Range(block.deny)}
      /\ DOMAIN a.grants = {g.group : g \in Range(block.grants)}
      /\ \A group \in DOMAIN a.grants :
           a.grants[group] = ValidatedGrant(LastOf(block.grants, group))
  BY DEF Validated
<1> HIDE DEF a
<1>4. a.globalAllow \subseteq Path
  <2>1. \A r \in Range(block.allow) : AllowPath(r) \in Path
    BY <1>2, AllowTyped DEF ValidAccess
  <2> QED
    BY <1>3, <2>1
<1>5. a.globalDeny \subseteq Pattern
  <2>1. \A r \in Range(block.deny) : Normalized(r) \in Pattern
    BY <1>2, DenyTyped DEF ValidAccess
  <2> QED
    BY <1>3, <2>1
<1>6. \A g \in Range(block.grants) :
        /\ g.group \in Groups
        /\ ValidatedGrant(g) \in Grant /\ ValidatedGrant(g).allow # {}
  <2>1. \A g \in Range(block.grants) :
          ValidatedGrant(g) \in Grant /\ ValidatedGrant(g).allow # {}
    BY <1>2, GrantTyped DEF ValidAccess
  <2>2. \A g \in Range(block.grants) : g.group \in Groups
    BY <1>2 DEF ValidAccess, RawGrant
  <2> QED
    BY <2>1, <2>2
<1>7. DOMAIN a.grants \subseteq Groups
  BY <1>3, <1>6
<1>8. ASSUME NEW group \in DOMAIN a.grants
      PROVE  a.grants[group] \in Grant /\ a.grants[group].allow # {}
  <2>1. PICK g \in Range(block.grants) : group = g.group
    BY <1>3, <1>8
  <2>2. LastOf(block.grants, group) \in Range(block.grants)
    BY <1>1, <2>1, LastOfTyped
  <2> QED
    BY <1>3, <1>6, <1>8, <2>2
<1> QED
  BY <1>4, <1>5, <1>7, <1>8 DEF IsAccessConfig, a

--------------------------------------------------------------------------------
(* The start. *)

StartInv ==
  /\ WalkInv
  /\ startup \in Startups
  /\ phase \in {"arguments", "config", "auth", "mode", "check", "serving", "exited"}
  /\ auth \in AuthStates
  /\ (config # Absent \/ phase \in {"auth", "mode"}) /\ config.access # Absent
       => IsAccessConfig(config.access)
  /\ status \in {Absent, 0, 1}
  /\ printed \in BOOLEAN

LEMMA StepIsWalkStep ==
  ASSUME StartInv, [Next]_vars
  PROVE  WalkStep
<1>1. CASE BeginCheck
  <2>1. CASE StartCheck(config.access, options.groups) /\ config.access # Absent
    <3>1. IsAccessConfig(config.access)
      BY <1>1, <2>1 DEF StartInv, BeginCheck
    <3> QED
      BY <2>1, <3>1 DEF WalkStep
  <2> QED
    BY <1>1, <2>1 DEF BeginCheck, WalkStep
<1>2. CASE Check \/ Meanwhile
  BY <1>2 DEF Check, Meanwhile, WalkStep
<1>3. CASE UNCHANGED walkVars
  BY <1>3 DEF WalkStep
<1> QED
  BY <1>1, <1>2, <1>3 DEF Next, Run, ResolveOptions, LoadConfig, InitializeAuth,
     CheckFailed, PrintReport, Serve, vars, walkVars

LEMMA StartKept ==
  ASSUME StartInv, [Next]_vars
  PROVE  StartInv'
<1>0. WalkInv'
  BY StepIsWalkStep, WalkKept DEF StartInv
<1> DEFINE Rest ==
      /\ startup \in Startups
      /\ phase \in {"arguments", "config", "auth", "mode", "check", "serving", "exited"}
      /\ auth \in AuthStates
      /\ (config # Absent \/ phase \in {"auth", "mode"}) /\ config.access # Absent
           => IsAccessConfig(config.access)
      /\ status \in {Absent, 0, 1}
      /\ printed \in BOOLEAN
<1> SUFFICES Rest'
  BY <1>0 DEF StartInv
<1> USE DEF StartInv
<1>1. ASSUME Fail
      PROVE  Rest'
  BY <1>1 DEF Fail
<1>2. CASE ResolveOptions
  BY <1>1, <1>2 DEF ResolveOptions
<1>3. CASE LoadConfig
  <2>1. CASE Loads(options.path, ConfigFile)
    <3>1. PICK file : file = ConfigFile
      OBVIOUS
    <3>2. /\ config'.access = IF file.access = Absent THEN Absent ELSE Validated(file.access)
          /\ phase' = "auth" /\ UNCHANGED <<startup, auth, status, printed>>
      BY <1>3, <2>1, <3>1 DEF LoadConfig
    <3>3. ASSUME file.access # Absent
          PROVE  IsAccessConfig(Validated(file.access))
      <4>1. file # Absent /\ ValidAccess(file.access)
        BY <2>1, <3>1, <3>3 DEF Loads
      <4>2. file.access \in AccessBlock
        BY <3>1, <3>3, <4>1, StartupsAssumption DEF ConfigFile
      <4> QED
        BY <4>1, <4>2, ValidatedIsConfig
    <3> QED
      BY <3>2, <3>3
  <2> QED
    BY <1>1, <1>3, <2>1 DEF LoadConfig
<1>4. CASE InitializeAuth
  <2>1. CASE Fail
    BY <1>1, <2>1
  <2>2. CASE ~Fail
    <3>1. /\ phase = "auth" /\ phase' = "mode" /\ auth' \in {"Disabled", "Oidc"}
          /\ UNCHANGED <<startup, config, status, printed>>
      BY <1>4, <2>2 DEF InitializeAuth
    <3> QED
      BY <3>1 DEF AuthStates
  <2> QED
    BY <2>1, <2>2
<1>5. CASE BeginCheck
  BY <1>1, <1>5 DEF BeginCheck
<1>6. CASE Check \/ Meanwhile \/ UNCHANGED vars
  BY <1>6 DEF Check, Meanwhile, startVars, vars
<1>7. CASE CheckFailed
  BY <1>1, <1>7 DEF CheckFailed
<1>8. CASE PrintReport
  BY <1>8 DEF PrintReport
<1>9. CASE Serve
  BY <1>1, <1>9 DEF Serve
<1> QED
  BY <1>2, <1>3, <1>4, <1>5, <1>6, <1>7, <1>8, <1>9 DEF Next, Run

LEMMA StartHolds == Spec => []StartInv
<1>1. Init => StartInv
  <2> SUFFICES ASSUME Init
               PROVE  StartInv
    OBVIOUS
  <2>1. WalkInv
    BY NoAccessIsConfig, TreesAssumption DEF Init, InitWalk, WalkInv, WalkTypeOK
  <2> QED
    BY <2>1 DEF Init, StartInv, AuthStates
<1> QED
  BY <1>1, StartKept, PTL DEF Spec

(* TypeOK: what load_app_config and validate_access_config accept of any file, *)
(* the access rules can be evaluated with, and the walk keeps its types.       *)
THEOREM TypeCorrect == Spec => []TypeOK
<1>1. StartInv => TypeOK
  BY DEF StartInv, WalkInv, TypeOK
<1> QED
  BY <1>1, StartHolds, PTL

(* ReportIsOrdered: whatever the share holds and loses, the sections of the    *)
(* report are in the order of their paths (run_access_check).                  *)
THEOREM ReportsAreOrdered == Spec => []ReportIsOrdered
<1>1. Init => OrderInv
  <2> SUFFICES ASSUME Init
               PROVE  OrderInv
    OBVIOUS
  <2>1. Len(report) = 0 /\ Len(queue) = 0
    BY DEF Init, InitWalk
  <2> QED
    BY <2>1 DEF OrderInv, ReportIsOrdered
<1>2. StartInv /\ OrderInv /\ [Next]_vars => OrderInv'
  BY StepIsWalkStep, OrderKept DEF StartInv
<1>3. OrderInv => ReportIsOrdered
  BY DEF OrderInv
<1> QED
  BY <1>1, <1>2, <1>3, StartHolds, PTL DEF Spec

(* NothingHiddenSilently: for any share, any rules and any scenario, a visible *)
(* path the walk of run_access_check misses is below an allow rule that the    *)
(* report names as unmatched, or below an entry whose file_type failed.        *)
THEOREM UnwalkedIsReported == Spec => []NothingHiddenSilently
<1>1. Init => CoverInv
  <2> SUFFICES ASSUME Init
               PROVE  CoverInv
    OBVIOUS
  <2>1. Len(report) = 0 /\ Len(queue) = 0 /\ walk = "idle" /\ used = {}
    BY DEF Init, InitWalk
  <2>2. Written = {} /\ Listed = {} /\ Pending = {}
    BY <2>1 DEF Written, Listed, Pending
  <2> QED
    BY <2>1, <2>2 DEF CoverInv
<1>2. StartInv /\ CoverInv /\ [Next]_vars => CoverInv'
  BY StepIsWalkStep, CoverKept DEF StartInv
<1>3. StartInv /\ CoverInv => NothingHiddenSilently
  BY CoverMeans DEF StartInv
<1> QED
  BY <1>1, <1>2, <1>3, StartHolds, PTL DEF Spec

--------------------------------------------------------------------------------
(* The gate. *)

\* What validation leaves of an oidc block: its cookie is safe to send.
CookieIsSafe(oidc) == oidc.cookieSecure \/ oidc.redirectUri.loopback

\* How far run comes with which blocks.
BlocksFit ==
  /\ phase \in {"auth", "mode", "check", "serving"} /\ config.oidc # Absent
       => CookieIsSafe(config.oidc)
  /\ phase \in {"mode", "check", "serving"} /\ ~Backdoor
       => auth = "Oidc" /\ config.oidc # Absent /\ config.access # Absent

LEMMA ValidOidcIsSafe ==
  ASSUME NEW block, ValidOidc(block)
  PROVE  CookieIsSafe(ValidatedOidc(block))
BY DEF ValidOidc, ValidUrl, ValidatedOidc, CookieIsSafe

LEMMA BlocksKept ==
  ASSUME BlocksFit, [Next]_vars
  PROVE  BlocksFit'
<1> USE DEF startVars
<1>1. ASSUME Fail
      PROVE  BlocksFit'
  BY <1>1 DEF Fail, BlocksFit
<1>2. ASSUME UNCHANGED <<startup, config, auth>>, phase' = phase \/ phase' = "exited"
      PROVE  BlocksFit'
  BY <1>2 DEF BlocksFit, Backdoor
<1>3. CASE ResolveOptions
  <2>1. Fail \/ phase' = "config"
    BY <1>3 DEF ResolveOptions
  <2> QED
    BY <1>1, <2>1 DEF BlocksFit
<1>4. CASE LoadConfig
  <2> DEFINE file == ConfigFile
  <2>1. CASE ~Loads(options.path, file)
    BY <1>1, <1>4, <2>1 DEF LoadConfig
  <2>2. CASE Loads(options.path, file)
    <3>1. phase' = "auth"
          /\ config'.oidc = IF file.oidc = Absent THEN Absent ELSE ValidatedOidc(file.oidc)
      BY <1>4, <2>2 DEF LoadConfig
    <3>2. file.oidc # Absent => CookieIsSafe(ValidatedOidc(file.oidc))
      BY <2>2, ValidOidcIsSafe DEF Loads
    <3> QED
      BY <3>1, <3>2 DEF BlocksFit
  <2> QED
    BY <2>1, <2>2
<1>5. CASE InitializeAuth
  <2>1. CASE Fail
    BY <1>1, <2>1
  <2>2. CASE ~Fail
    <3>1. /\ phase = "auth" /\ phase' = "mode" /\ UNCHANGED <<startup, config>>
          /\ ~Backdoor => auth' = "Oidc" /\ config.oidc # Absent /\ config.access # Absent
      BY <1>5, <2>2 DEF InitializeAuth
    <3> QED
      BY <3>1 DEF BlocksFit, Backdoor
  <2> QED
    BY <2>1, <2>2
<1>6. CASE BeginCheck
  <2>1. Fail \/ (phase = "mode" /\ phase' = "check" /\ UNCHANGED <<startup, config, auth>>)
    BY <1>6 DEF BeginCheck
  <2> QED
    BY <1>1, <2>1 DEF BlocksFit, Backdoor
<1>7. CASE Check \/ Meanwhile \/ UNCHANGED vars
  BY <1>2, <1>7 DEF Check, Meanwhile, vars
<1>8. CASE CheckFailed
  BY <1>1, <1>8 DEF CheckFailed
<1>9. CASE PrintReport
  BY <1>2, <1>9 DEF PrintReport
<1>10. CASE Serve
  <2>1. Fail \/ (phase = "mode" /\ phase' = "serving" /\ UNCHANGED <<startup, config, auth>>)
    BY <1>10 DEF Serve
  <2> QED
    BY <1>1, <2>1 DEF BlocksFit, Backdoor
<1> QED
  BY <1>3, <1>4, <1>5, <1>6, <1>7, <1>8, <1>9, <1>10 DEF Next, Run

(* ServedWithoutSession: whatever main.rs is started with, a server without   *)
(* mandatory authentication is a debug build with YAFM_DISABLE_AUTH=1.        *)
THEOREM NothingServedWithoutSession == Spec => []ServedWithoutSession
<1>1. Init => BlocksFit
  BY DEF Init, BlocksFit
<1>2. BlocksFit => ServedWithoutSession
  <2> SUFFICES ASSUME BlocksFit, phase = "serving", ~Backdoor
               PROVE  /\ \A kind \in PathKinds \ {"auth"} :
                           ~Served(GateDecision(auth, kind, FALSE))
                      /\ config.access # Absent
                      /\ CookieIsSafe(config.oidc)
    BY DEF ServedWithoutSession, Backdoor, CookieIsSafe
  <2>1. auth = "Oidc" /\ config.access # Absent /\ CookieIsSafe(config.oidc)
    BY DEF BlocksFit
  <2>2. ASSUME NEW kind \in PathKinds \ {"auth"}
        PROVE  ~Served(GateDecision(auth, kind, FALSE))
    BY <2>1, <2>2 DEF PathKinds, GateDecision, Served
  <2> QED
    BY <2>1, <2>2
<1> QED
  BY <1>1, <1>2, BlocksKept, PTL DEF Spec

================================================================================
