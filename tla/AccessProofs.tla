----------------------------- MODULE AccessProofs ------------------------------
(***************************************************************************)
(* The matchers of GlobMatch and the evaluation of AccessRules along a     *)
(* walk, for every configuration, set of groups, alphabet and length.      *)
(***************************************************************************)
EXTENDS AccessWalk, GlobMatch, AccessRulesProofs

(* Chains: positions 0 = end[0], end[1], ..., end[m] in 0..n whose steps     *)
(* <<i, end[i-1], end[i]>> are all in T. The three references of GlobMatch   *)
(* are chains, the consumption of a subject by a pattern.                    *)

Chain(end, T, m, n) ==
  /\ end \in [0..m -> 0..n]
  /\ end[0] = 0
  /\ \A i \in 1..m : <<i, end[i-1], end[i]>> \in T

Chained(T, m, n) == \E end : Chain(end, T, m, n)

\* Steps never lead back.
Forward(T) == \A i, a, b \in Nat : <<i, a, b>> \in T => a <= b

\* The steps after the first, of a chain whose first step ends at k.
After(T, k) == {t \in Nat \X Nat \X Nat : <<t[1] + 1, t[2] + k, t[3] + k>> \in T}

LEMMA AfterStep ==
  ASSUME NEW T, NEW k \in Nat, NEW i \in Nat, NEW a \in Nat, NEW b \in Nat
  PROVE  <<i, a, b>> \in After(T, k) <=> <<i + 1, a + k, b + k>> \in T
BY DEF After

\* No position of a chain comes before the first one reached.
LEMMA ChainAhead ==
  ASSUME NEW T, Forward(T), NEW m \in Nat, NEW n \in Nat,
         NEW end, Chain(end, T, m, n)
  PROVE  \A i \in 1..m : end[1] <= end[i]
<1> DEFINE behind == {i \in 1..m : end[i] < end[1]}
<1>1. \A i \in 0..m : end[i] \in Nat
  BY DEF Chain
<1> SUFFICES ASSUME behind # {}
             PROVE  FALSE
  BY <1>1
<1>2. behind \subseteq Nat
  OBVIOUS
<1> HIDE DEF behind
<1>3. PICK i \in behind : \A k \in behind : i <= k
  BY <1>2, LeastNatural
<1>4. i \in 1..m /\ end[i] < end[1]
  BY <1>3 DEF behind
<1>5. i # 1 /\ i - 1 \in 1..m /\ i \in Nat /\ i - 1 \in Nat
  BY <1>1, <1>4
<1>6. i - 1 \notin behind
  BY <1>3, <1>5
<1>7. end[1] <= end[i-1]
  BY <1>1, <1>5, <1>6 DEF behind
<1>8. end[i-1] <= end[i]
  <2>1. <<i, end[i-1], end[i]>> \in T
    BY <1>4 DEF Chain
  <2>2. i \in Nat /\ end[i-1] \in Nat /\ end[i] \in Nat
    BY <1>1, <1>4, <1>5
  <2> QED
    BY <2>1, <2>2 DEF Forward
<1> QED
  BY <1>1, <1>4, <1>5, <1>7, <1>8

\* A chain is its first step and a chain of the steps after it.
LEMMA ChainSplit ==
  ASSUME NEW T, Forward(T), NEW m \in Nat \ {0}, NEW n \in Nat
  PROVE  Chained(T, m, n) <=>
           \E k \in 0..n : <<1, 0, k>> \in T /\ Chained(After(T, k), m - 1, n - k)
<1>1. ASSUME NEW end, Chain(end, T, m, n)
      PROVE  \E k \in 0..n : <<1, 0, k>> \in T /\ Chained(After(T, k), m - 1, n - k)
  <2> DEFINE k == end[1]
             rest == [i \in 0..(m-1) |-> end[i+1] - k]
  <2>1. \A i \in 0..m : end[i] \in 0..n
    BY <1>1 DEF Chain
  <2>2. k \in 0..n /\ <<1, 0, k>> \in T
    BY <1>1, <2>1 DEF Chain
  <2>3. \A i \in 1..m : k <= end[i]
    BY <1>1, ChainAhead
  <2>4. ASSUME NEW i \in 0..(m-1)
        PROVE  rest[i] \in 0..(n-k) /\ rest[i] + k = end[i+1]
    BY <2>1, <2>2, <2>3
  <2>5. ASSUME NEW i \in 1..(m-1)
        PROVE  <<i, rest[i-1], rest[i]>> \in After(T, k)
    <3>1. /\ rest[i-1] \in 0..(n-k) /\ rest[i] \in 0..(n-k)
          /\ rest[i-1] + k = end[i] /\ rest[i] + k = end[i+1]
      <4>1. i - 1 \in 0..(m-1) /\ i \in 0..(m-1) /\ (i - 1) + 1 = i
        OBVIOUS
      <4> HIDE DEF rest, k
      <4> QED
        BY <2>4, <4>1
    <3>2. rest[i-1] \in Nat /\ rest[i] \in Nat /\ k \in Nat
      <4> HIDE DEF rest, k
      <4> QED
        BY <2>2, <3>1
    <3>3. <<i + 1, end[i], end[i+1]>> \in T
      <4>1. i + 1 \in 1..m /\ (i + 1) - 1 = i
        OBVIOUS
      <4> HIDE DEF rest
      <4> QED
        BY <1>1, <4>1 DEF Chain
    <3> HIDE DEF rest, k
    <3> QED
      BY <3>1, <3>2, <3>3, AfterStep
  <2>6. rest \in [0..(m-1) -> 0..(n-k)] /\ rest[0] = 0
    BY <2>1, <2>4
  <2>7. Chain(rest, After(T, k), m - 1, n - k)
    <3> HIDE DEF rest, k
    <3> QED
      BY <2>5, <2>6 DEF Chain
  <2> HIDE DEF rest, k
  <2> QED
    BY <2>2, <2>7 DEF Chained
<1>2. ASSUME NEW k \in 0..n, <<1, 0, k>> \in T,
             NEW rest, Chain(rest, After(T, k), m - 1, n - k)
      PROVE  Chained(T, m, n)
  <2> DEFINE end == [i \in 0..m |-> IF i = 0 THEN 0 ELSE rest[i-1] + k]
  <2>1. \A i \in 0..(m-1) : rest[i] \in 0..(n-k)
    BY <1>2 DEF Chain
  <2>2. rest[0] = 0
    BY <1>2 DEF Chain
  <2>3. ASSUME NEW i \in 1..m
        PROVE  end[i] = rest[i-1] + k /\ end[i] \in 0..n
    <3>1. i - 1 \in 0..(m-1) /\ i \in 0..m /\ i # 0
      OBVIOUS
    <3>2. rest[i-1] \in 0..(n-k)
      BY <2>1, <3>1
    <3>3. end[i] = rest[i-1] + k
      BY <3>1
    <3> HIDE DEF end
    <3> QED
      BY <3>2, <3>3
  <2>4. end \in [0..m -> 0..n] /\ end[0] = 0
    <3>1. 0 \in 0..m /\ 0 \in 0..n
      OBVIOUS
    <3>2. end[0] = 0
      BY <3>1
    <3>3. ASSUME NEW i \in 0..m
          PROVE  end[i] \in 0..n
      <4>1. i = 0 \/ i \in 1..m
        OBVIOUS
      <4> HIDE DEF end
      <4> QED
        BY <2>3, <3>1, <3>2, <4>1
    <3>4. end = [i \in 0..m |-> end[i]]
      OBVIOUS
    <3> HIDE DEF end
    <3> QED
      BY <3>2, <3>3, <3>4
  <2>5. ASSUME NEW i \in 1..m
        PROVE  <<i, end[i-1], end[i]>> \in T
    <3>1. CASE i = 1
      <4>1. end[1] = k
        BY <2>2, <2>3
      <4>2. i - 1 = 0
        BY <3>1
      <4> HIDE DEF end
      <4> QED
        BY <1>2, <2>4, <3>1, <4>1, <4>2
    <3>2. CASE i # 1
      <4>1. i - 1 \in 1..(m-1) /\ (i - 1) - 1 = i - 2 /\ i - 1 \in Nat /\ (i - 1) + 1 = i
        BY <3>2
      <4>2. <<i - 1, rest[i-2], rest[i-1]>> \in After(T, k)
        BY <1>2, <4>1 DEF Chain
      <4>3. rest[i-2] \in Nat /\ rest[i-1] \in Nat /\ k \in Nat
        BY <2>1, <3>2
      <4>4. <<i, rest[i-2] + k, rest[i-1] + k>> \in T
        BY <4>1, <4>2, <4>3, AfterStep
      <4>5. end[i-1] = rest[i-2] + k /\ end[i] = rest[i-1] + k
        BY <2>3, <3>2
      <4> QED
        BY <4>4, <4>5
    <3> QED
      BY <3>1, <3>2
  <2>6. Chain(end, T, m, n)
    <3> HIDE DEF end
    <3> QED
      BY <2>4, <2>5 DEF Chain
  <2> QED
    BY <2>6 DEF Chained
<1> QED
  BY <1>1, <1>2 DEF Chained

\* Two sets of steps that agree up to m and n have the same chains.
LEMMA ChainSame ==
  ASSUME NEW T, NEW U, NEW m \in Nat, NEW n \in Nat,
         \A i \in 1..m : \A a, b \in 0..n : <<i, a, b>> \in T <=> <<i, a, b>> \in U
  PROVE  Chained(T, m, n) <=> Chained(U, m, n)
<1>1. ASSUME NEW end
      PROVE  Chain(end, T, m, n) <=> Chain(end, U, m, n)
  <2>1. end \in [0..m -> 0..n] =>
          \A i \in 1..m : end[i-1] \in 0..n /\ end[i] \in 0..n
    OBVIOUS
  <2> QED
    BY <2>1 DEF Chain
<1> QED
  BY <1>1 DEF Chained

LEMMA EmptyChain ==
  ASSUME NEW T, NEW n \in Nat
  PROVE  Chained(T, 0, n)
<1>1. Chain([i \in 0..0 |-> 0], T, 0, n)
  BY DEF Chain
<1> QED
  BY <1>1 DEF Chained

\* What is left of a sequence when its first k elements are consumed.
Drop(s, k) == SubSeq(s, k + 1, Len(s))

LEMMA DropElements ==
  ASSUME NEW S, NEW s \in Seq(S), NEW k \in 0..Len(s)
  PROVE  /\ Drop(s, k) \in Seq(S)
         /\ Len(Drop(s, k)) = Len(s) - k
         /\ \A j \in 1..(Len(s) - k) : Drop(s, k)[j] = s[j + k]
<1>1. Len(s) \in Nat /\ k + 1 \in 1..(Len(s) + 1)
  OBVIOUS
<1> QED
  BY <1>1 DEF Drop

LEMMA TailIsDrop ==
  ASSUME NEW S, NEW s \in Seq(S), s # <<>>
  PROVE  /\ 1 \in 0..Len(s) /\ Len(s) \in Nat \ {0} /\ Head(s) = s[1]
         /\ Tail(s) = Drop(s, 1)
         /\ Tail(s) \in Seq(S) /\ Len(Tail(s)) = Len(s) - 1
         /\ \A j \in 1..(Len(s) - 1) : Tail(s)[j] = s[j + 1]
<1>1. Len(s) \in Nat \ {0}
  OBVIOUS
<1>2. Tail(s) \in Seq(S) /\ Len(Tail(s)) = Len(s) - 1
  OBVIOUS
<1>3. \A j \in 1..(Len(s) - 1) : Tail(s)[j] = s[j + 1]
  OBVIOUS
<1>4. Tail(s) = Drop(s, 1)
  <2>1. /\ Drop(s, 1) \in Seq(S) /\ Len(Drop(s, 1)) = Len(s) - 1
        /\ \A j \in 1..(Len(s) - 1) : Drop(s, 1)[j] = s[j + 1]
    <3>1. 1 \in 0..Len(s)
      BY <1>1
    <3> QED
      BY <3>1, DropElements
  <2> HIDE DEF Drop
  <2> QED
    BY <1>1, <1>2, <1>3, <2>1
<1> QED
  BY <1>1, <1>2, <1>3, <1>4

(* The glob of one segment. *)

\* The i-th symbol of the glob consumes the bytes after a up to b.
CharFits(glob, name, i, a, b) ==
  /\ IF glob[i] = Star THEN a <= b
     ELSE b = a + 1 /\ glob[i] \in {Question, name[b]}
  /\ i = Len(glob) => b = Len(name)

CharSteps(glob, name) ==
  {t \in Nat \X Nat \X Nat : CharFits(glob, name, t[1], t[2], t[3])}

LEMMA CharStep ==
  ASSUME NEW glob, NEW name, NEW i \in Nat, NEW a \in Nat, NEW b \in Nat
  PROVE  <<i, a, b>> \in CharSteps(glob, name) <=> CharFits(glob, name, i, a, b)
BY DEF CharSteps

LEMMA CharsForward ==
  ASSUME NEW glob, NEW name
  PROVE  Forward(CharSteps(glob, name))
<1> SUFFICES ASSUME NEW i \in Nat, NEW a \in Nat, NEW b \in Nat,
                    <<i, a, b>> \in CharSteps(glob, name)
             PROVE  a <= b
  BY DEF Forward
<1>1. CharFits(glob, name, i, a, b)
  BY CharStep
<1> QED
  BY <1>1 DEF CharFits

LEMMA GlobIsChain ==
  ASSUME NEW glob \in Seq(GlobBytes), glob # <<>>, NEW name \in Seq(Bytes)
  PROVE  GlobReference(glob, name) <=> Chained(CharSteps(glob, name), Len(glob), Len(name))
<1> DEFINE Fits(end) == /\ end \in [0..Len(glob) -> 0..Len(name)]
                        /\ end[0] = 0 /\ end[Len(glob)] = Len(name)
                        /\ \A i \in 1..Len(glob) :
                             IF glob[i] = Star THEN end[i] >= end[i-1]
                             ELSE /\ end[i] = end[i-1] + 1
                                  /\ glob[i] \in {Question, name[end[i]]}
<1>1. ASSUME NEW end
      PROVE  Fits(end) <=> Chain(end, CharSteps(glob, name), Len(glob), Len(name))
  <2>1. CASE end \in [0..Len(glob) -> 0..Len(name)]
    <3>1. Len(glob) \in 1..Len(glob) /\ Len(glob) \in Nat /\ Len(name) \in Nat
      OBVIOUS
    <3>2. ASSUME NEW i \in 1..Len(glob)
          PROVE  <<i, end[i-1], end[i]>> \in CharSteps(glob, name) <=>
                   CharFits(glob, name, i, end[i-1], end[i])
      <4>1. i \in Nat /\ end[i-1] \in Nat /\ end[i] \in Nat
        BY <2>1
      <4> QED
        BY <4>1, CharStep
    <3>3. \A i \in 1..Len(glob) : end[i-1] \in Nat /\ end[i] \in Nat
      BY <2>1
    <3>4. \A i \in 1..Len(glob) : end[i-1] <= end[i] <=> end[i] >= end[i-1]
      BY <3>3
    <3> QED
      BY <2>1, <3>1, <3>2, <3>4 DEF Chain, CharFits
  <2>2. CASE end \notin [0..Len(glob) -> 0..Len(name)]
    BY <2>2 DEF Chain
  <2> QED
    BY <2>1, <2>2
<1>2. GlobReference(glob, name) <=> \E end : Fits(end)
  BY DEF GlobReference
<1> HIDE DEF Fits
<1> QED
  BY <1>1, <1>2 DEF Chained

LEMMA EmptyGlob ==
  ASSUME NEW name \in Seq(Bytes)
  PROVE  GlobReference(<<>>, name) <=> name = <<>>
<1>1. Len(<<>>) = 0 /\ Len(name) \in Nat /\ (name = <<>> <=> Len(name) = 0)
  OBVIOUS
<1>2. [i \in 0..0 |-> 0] \in [0..0 -> 0..Len(name)]
  BY <1>1
<1>3. CASE name = <<>>
  <2> DEFINE end == [i \in 0..0 |-> 0]
  <2>1. end \in [0..Len(<<>>) -> 0..Len(name)]
    BY <1>1, <1>2
  <2>2. end[0] = 0 /\ end[Len(<<>>)] = Len(name) /\ 1..Len(<<>>) = {}
    BY <1>1, <1>3
  <2> HIDE DEF end
  <2> QED
    BY <1>3, <2>1, <2>2 DEF GlobReference
<1>4. CASE name # <<>>
  BY <1>1, <1>4 DEF GlobReference
<1> QED
  BY <1>3, <1>4

\* The first symbol of a glob can consume the first k bytes of a name.
Consumes(glob, name, k) ==
  glob[1] = Star \/ (k = 1 /\ glob[1] \in {Question, name[1]})

LEMMA GlobSplit ==
  ASSUME NEW glob \in Seq(GlobBytes), glob # <<>>, NEW name \in Seq(Bytes),
         NEW k \in 0..Len(name)
  PROVE  /\ <<1, 0, k>> \in CharSteps(glob, name)
         /\ Chained(After(CharSteps(glob, name), k), Len(glob) - 1, Len(name) - k)
         <=> Consumes(glob, name, k) /\ GlobReference(Tail(glob), Drop(name, k))
<1> DEFINE m == Len(glob)  n == Len(name)
           T == CharSteps(glob, name)  U == CharSteps(Tail(glob), Drop(name, k))
<1>1. /\ m \in Nat \ {0} /\ n \in Nat /\ k \in Nat /\ m - 1 \in Nat /\ n - k \in Nat
      /\ Tail(glob) \in Seq(GlobBytes) /\ Len(Tail(glob)) = m - 1
      /\ \A j \in 1..(m - 1) : Tail(glob)[j] = glob[j + 1]
  BY TailIsDrop
<1>2. /\ Drop(name, k) \in Seq(Bytes) /\ Len(Drop(name, k)) = n - k
      /\ \A j \in 1..(n - k) : Drop(name, k)[j] = name[j + k]
  BY DropElements
<1>3. <<1, 0, k>> \in T <=> Consumes(glob, name, k) /\ (m = 1 => k = n)
  <2>1. <<1, 0, k>> \in T <=> CharFits(glob, name, 1, 0, k)
    BY <1>1, CharStep
  <2> QED
    BY <1>1, <2>1 DEF Consumes, CharFits
<1>4. CASE m = 1
  <2>1. Tail(glob) = <<>> /\ Chained(After(T, k), m - 1, n - k)
    <3>1. Tail(glob) = <<>> /\ m - 1 = 0
      <4>1. \A s \in Seq(GlobBytes) : Len(s) = 0 => s = <<>>
        OBVIOUS
      <4>2. Tail(glob) \in Seq(GlobBytes) /\ Len(Tail(glob)) = 0 /\ m - 1 = 0
        BY <1>1, <1>4
      <4> QED
        BY <4>1, <4>2
    <3>2. \A T1 : Chained(T1, 0, n - k)
      BY <1>1, EmptyChain
    <3> HIDE DEF T, m
    <3> QED
      BY <3>1, <3>2
  <2>2. Drop(name, k) = <<>> <=> k = n
    BY <1>1, <1>2
  <2>3. GlobReference(Tail(glob), Drop(name, k)) <=> k = n
    BY <1>2, <2>1, <2>2, EmptyGlob
  <2> QED
    BY <1>3, <1>4, <2>1, <2>3
<1>5. CASE m # 1
  <2>1. ASSUME NEW i \in 1..(m - 1), NEW a \in 0..(n - k), NEW b \in 0..(n - k)
        PROVE  <<i, a, b>> \in After(T, k) <=> <<i, a, b>> \in U
    <3>1. i \in Nat /\ a \in Nat /\ b \in Nat /\ i + 1 \in Nat /\ a + k \in Nat /\ b + k \in Nat
      BY <1>1
    <3>2. Tail(glob)[i] = glob[i + 1] /\ (b = a + 1 => Drop(name, k)[b] = name[b + k])
      BY <1>1, <1>2
    <3>3. <<i, a, b>> \in After(T, k) <=> <<i + 1, a + k, b + k>> \in T
      BY <1>1, <3>1, AfterStep
    <3>4. <<i + 1, a + k, b + k>> \in T <=>
            CharFits(glob, name, i + 1, a + k, b + k)
      BY <3>1, CharStep
    <3>5. <<i, a, b>> \in U <=>
            CharFits(Tail(glob), Drop(name, k), i, a, b)
      BY <3>1, CharStep
    <3>6. /\ a + k <= b + k <=> a <= b
          /\ b + k = (a + k) + 1 <=> b = a + 1
          /\ i + 1 = m <=> i = m - 1
          /\ b + k = n <=> b = n - k
      BY <1>1, <3>1
    <3>7. CharFits(glob, name, i + 1, a + k, b + k) <=>
            CharFits(Tail(glob), Drop(name, k), i, a, b)
      BY <1>1, <1>2, <3>2, <3>6 DEF CharFits
    <3> HIDE DEF T, U, m, n
    <3> QED
      BY <3>3, <3>4, <3>5, <3>7
  <2>2. Chained(After(T, k), m - 1, n - k) <=> Chained(U, m - 1, n - k)
    <3> HIDE DEF T, U, m, n
    <3> QED
      BY <1>1, <2>1, ChainSame
  <2>3. GlobReference(Tail(glob), Drop(name, k)) <=> Chained(U, m - 1, n - k)
    <3>1. Len(Tail(glob)) # 0
      BY <1>1, <1>5
    <3>2. \A s \in Seq(GlobBytes) : s = <<>> => Len(s) = 0
      OBVIOUS
    <3>3. Tail(glob) # <<>>
      BY <1>1, <3>1, <3>2
    <3> QED
      BY <1>1, <1>2, <3>3, GlobIsChain
  <2> HIDE DEF T, U, m, n
  <2>4. <<1, 0, k>> \in T <=> Consumes(glob, name, k)
    BY <1>3, <1>5
  <2> QED
    BY <2>2, <2>3, <2>4 DEF T, m, n
<1> QED
  BY <1>4, <1>5

\* The reference has the recursion of glob_match_chars.
LEMMA GlobReferenceStep ==
  ASSUME NEW glob \in Seq(GlobBytes), NEW name \in Seq(Bytes)
  PROVE  GlobReference(glob, name) <=>
           IF glob = <<>> THEN name = <<>>
           ELSE \/ /\ Head(glob) = Star
                   /\ \E i \in 0..Len(name) : GlobReference(Tail(glob), Drop(name, i))
                \/ /\ Head(glob) # Star /\ name # <<>>
                   /\ Head(glob) \in {Question, Head(name)}
                   /\ GlobReference(Tail(glob), Tail(name))
<1>1. CASE glob = <<>>
  BY <1>1, EmptyGlob
<1>2. CASE glob # <<>>
  <2>1. Len(glob) \in Nat \ {0} /\ Len(name) \in Nat /\ Head(glob) = glob[1]
    BY <1>2, TailIsDrop
  <2>2. GlobReference(glob, name) <=>
          \E k \in 0..Len(name) :
            /\ <<1, 0, k>> \in CharSteps(glob, name)
            /\ Chained(After(CharSteps(glob, name), k), Len(glob) - 1, Len(name) - k)
    <3> DEFINE m == Len(glob)  n == Len(name)  T == CharSteps(glob, name)
    <3>1. Forward(T) /\ m \in Nat \ {0} /\ n \in Nat
      BY <2>1, CharsForward
    <3>2. GlobReference(glob, name) <=> Chained(T, m, n)
      BY <1>2, GlobIsChain
    <3> HIDE DEF m, n, T
    <3>3. GlobReference(glob, name) <=>
            \E k \in 0..n : <<1, 0, k>> \in T /\ Chained(After(T, k), m - 1, n - k)
      BY <3>1, <3>2, ChainSplit
    <3> QED
      BY <3>3 DEF m, n, T
  <2>3. GlobReference(glob, name) <=>
          \E k \in 0..Len(name) :
            Consumes(glob, name, k) /\ GlobReference(Tail(glob), Drop(name, k))
    BY <1>2, <2>2, GlobSplit
  <2>4. CASE name = <<>>
    <3>1. 0..Len(name) = {0}
      BY <2>4
    <3> QED
      BY <1>2, <2>1, <2>3, <2>4, <3>1 DEF Consumes
  <2>5. CASE name # <<>>
    <3>1. Tail(name) = Drop(name, 1) /\ Head(name) = name[1] /\ 1 \in 0..Len(name)
      BY <2>5, TailIsDrop
    <3> QED
      BY <1>2, <2>1, <2>3, <2>5, <3>1 DEF Consumes
  <2> QED
    BY <2>4, <2>5
<1> QED
  BY <1>1, <1>2

LEMMA EqualTruths ==
  \A a, b \in BOOLEAN : (a <=> b) => a = b
OBVIOUS

\* One step of glob_match_chars, with g in place of the recursive calls.
GlobMatchStep(g, w) ==
  IF w[1] = <<>> THEN w[2] = <<>>
  ELSE \/ /\ Head(w[1]) = Star
          /\ \E i \in 0..Len(w[2]) : g[<<Tail(w[1]), Drop(w[2], i)>>]
       \/ /\ Head(w[1]) # Star /\ w[2] # <<>>
          /\ Head(w[1]) \in {Question, Head(w[2])}
          /\ g[<<Tail(w[1]), Tail(w[2])>>]

BelowGlob ==
  [w \in GlobRests |-> IF w[1] = <<>> THEN {} ELSE {<<Tail(w[1]), s>> : s \in Seq(Bytes)}]

LEMMA GlobsEnd == WellFounded(GlobRests, BelowGlob)
<1> DEFINE rank == [w \in GlobRests |-> Len(w[1])]
<1>1. rank \in [GlobRests -> Nat]
  BY DEF GlobRests
<1>2. \A g \in Seq(GlobBytes) : g # <<>> =>
        Tail(g) \in Seq(GlobBytes) /\ Len(Tail(g)) < Len(g)
  OBVIOUS
<1>3. BelowGlob \in [GlobRests -> SUBSET GlobRests]
  <2>1. ASSUME NEW w \in GlobRests
        PROVE  BelowGlob[w] \subseteq GlobRests
    <3>1. w[1] \in Seq(GlobBytes) /\ (w[1] # <<>> => Tail(w[1]) \in Seq(GlobBytes))
      BY <1>2 DEF GlobRests
    <3>2. w[1] # <<>> => \A s \in Seq(Bytes) : <<Tail(w[1]), s>> \in GlobRests
      BY <3>1 DEF GlobRests
    <3> QED
      BY <3>2 DEF BelowGlob
  <2>2. BelowGlob = [w \in GlobRests |-> BelowGlob[w]]
    BY DEF BelowGlob
  <2> QED
    BY <2>1, <2>2
<1>4. ASSUME NEW w \in GlobRests, NEW y \in BelowGlob[w]
      PROVE  rank[y] < rank[w]
  BY <1>2, <1>3 DEF BelowGlob, GlobRests
<1> HIDE DEF rank
<1> QED
  BY <1>1, <1>3, <1>4, FallingRank

\* What the recursive calls are made on.
LEMMA GlobRecursion ==
  ASSUME NEW g, NEW h, NEW w \in GlobRests, \A y \in BelowGlob[w] : g[y] <=> h[y]
  PROVE  GlobMatchStep(g, w) <=> GlobMatchStep(h, w)
<1>1. w[1] \in Seq(GlobBytes) /\ w[2] \in Seq(Bytes)
  BY DEF GlobRests
<1>2. CASE w[1] = <<>>
  BY <1>2 DEF GlobMatchStep
<1>3. CASE w[1] # <<>>
  <2>1. \A s \in Seq(Bytes) : g[<<Tail(w[1]), s>>] <=> h[<<Tail(w[1]), s>>]
    BY <1>3 DEF BelowGlob
  <2>2. \A i \in 0..Len(w[2]) : Drop(w[2], i) \in Seq(Bytes)
    BY <1>1, DropElements
  <2>3. w[2] # <<>> => Tail(w[2]) \in Seq(Bytes)
    BY <1>1
  <2> QED
    BY <1>3, <2>1, <2>2, <2>3 DEF GlobMatchStep
<1> QED
  BY <1>2, <1>3

\* glob_match_chars is the one solution of its recursion, and the reference is
\* a solution.
LEMMA GlobMatchIsReference ==
  \A w \in GlobRests : GlobMatchChars[w] <=> GlobReference(w[1], w[2])
<1> DEFINE Text(h, w) ==
             LET glob == w[1]
                 name == w[2]
             IN IF glob = <<>> THEN name = <<>>
                ELSE \/ /\ Head(glob) = Star
                        /\ \E i \in 0..Len(name) :
                             h[<<Tail(glob), SubSeq(name, i + 1, Len(name))>>]
                     \/ /\ Head(glob) # Star /\ name # <<>>
                        /\ Head(glob) \in {Question, Head(name)}
                        /\ h[<<Tail(glob), Tail(name)>>]
           Recurses(h) == h = [w \in GlobRests |-> Text(h, w)]
           ref == [w \in GlobRests |-> GlobReference(w[1], w[2])]
<1>1. ASSUME NEW h, NEW w
      PROVE  Text(h, w) = GlobMatchStep(h, w)
  BY DEF GlobMatchStep, Drop
<1>2. ASSUME NEW w \in GlobRests
      PROVE  ref[w] <=> GlobMatchStep(ref, w)
  <2>1. w[1] \in Seq(GlobBytes) /\ w[2] \in Seq(Bytes) /\ w = <<w[1], w[2]>>
    BY DEF GlobRests
  <2>2. \A glob \in Seq(GlobBytes), name \in Seq(Bytes) :
          ref[<<glob, name>>] <=> GlobReference(glob, name)
    BY DEF GlobRests
  <2>3. w[1] # <<>> => Tail(w[1]) \in Seq(GlobBytes)
    BY <2>1
  <2>4. /\ w[2] # <<>> => Tail(w[2]) \in Seq(Bytes)
        /\ \A i \in 0..Len(w[2]) : Drop(w[2], i) \in Seq(Bytes)
    BY <2>1, DropElements
  <2>5. GlobReference(w[1], w[2]) <=>
           IF w[1] = <<>> THEN w[2] = <<>>
           ELSE \/ /\ Head(w[1]) = Star
                   /\ \E i \in 0..Len(w[2]) : GlobReference(Tail(w[1]), Drop(w[2], i))
                \/ /\ Head(w[1]) # Star /\ w[2] # <<>>
                   /\ Head(w[1]) \in {Question, Head(w[2])}
                   /\ GlobReference(Tail(w[1]), Tail(w[2]))
    BY <2>1, GlobReferenceStep
  <2>6. ref[w] <=> GlobReference(w[1], w[2])
    BY <2>1, <2>2
  <2> HIDE DEF ref
  <2> QED
    BY <2>2, <2>3, <2>4, <2>5, <2>6 DEF GlobMatchStep
<1>3. Recurses(ref)
  <2>1. \A w \in GlobRests : ref[w] = GlobReference(w[1], w[2])
    OBVIOUS
  <2>2. \A w \in GlobRests : ref[w] = Text(ref, w)
    <3>1. ASSUME NEW w \in GlobRests
          PROVE  GlobReference(w[1], w[2]) = GlobMatchStep(ref, w)
      <4>1. GlobReference(w[1], w[2]) \in BOOLEAN /\ GlobMatchStep(ref, w) \in BOOLEAN
        BY DEF GlobReference, GlobMatchStep
      <4>2. GlobReference(w[1], w[2]) <=> GlobMatchStep(ref, w)
        BY <1>2
      <4> HIDE DEF ref
      <4> QED
        BY <4>1, <4>2, EqualTruths
    <3> HIDE DEF ref, Text
    <3> QED
      BY <1>1, <2>1, <3>1
  <2>3. ref = [w \in GlobRests |-> ref[w]]
    OBVIOUS
  <2> HIDE DEF ref, Text
  <2> QED
    BY <2>2, <2>3
<1>4. GlobMatchChars = CHOOSE h : Recurses(h)
  BY DEF GlobMatchChars
<1>5. Recurses(GlobMatchChars)
  <2> HIDE DEF Recurses, ref
  <2> QED
    BY <1>3, <1>4, Zenon
<1>6. ASSUME NEW w \in GlobRests
      PROVE  GlobMatchChars[w] = GlobMatchStep(GlobMatchChars, w)
  <2> HIDE DEF Text
  <2> QED
    BY <1>1, <1>5
<1> DEFINE Good == {w \in GlobRests : GlobMatchChars[w] <=> ref[w]}
<1>7. ASSUME NEW w \in GlobRests, BelowGlob[w] \subseteq Good
      PROVE  w \in Good
  <2>1. \A y \in BelowGlob[w] : GlobMatchChars[y] <=> ref[y]
    BY <1>7
  <2> HIDE DEF ref
  <2>2. GlobMatchStep(GlobMatchChars, w) <=> GlobMatchStep(ref, w)
    BY <2>1, GlobRecursion
  <2> QED
    BY <1>2, <1>6, <2>2
<1>8. GlobRests \subseteq Good
  <2>1. Inductive(GlobRests, BelowGlob, Good)
    BY <1>7 DEF Inductive
  <2> HIDE DEF Good
  <2> QED
    BY <2>1, GlobsEnd, Induction
<1> QED
  BY <1>8

(* The pattern of a path. *)

\* The i-th segment of the pattern consumes the names after a up to b.
SegmentFits(d, p, i, a, b) ==
  /\ a < Len(p)
  /\ \/ d[i] = DoubleStar /\ b >= a
     \/ d[i] # DoubleStar /\ b = a + 1 /\ SegmentMatches(d[i], p[b])

SegmentSteps(d, p) ==
  {t \in Nat \X Nat \X Nat : SegmentFits(d, p, t[1], t[2], t[3])}

LEMMA SegmentStep ==
  ASSUME NEW d, NEW p, NEW i \in Nat, NEW a \in Nat, NEW b \in Nat
  PROVE  <<i, a, b>> \in SegmentSteps(d, p) <=> SegmentFits(d, p, i, a, b)
BY DEF SegmentSteps

LEMMA SegmentsForward ==
  ASSUME NEW d, NEW p
  PROVE  Forward(SegmentSteps(d, p))
<1> SUFFICES ASSUME NEW i \in Nat, NEW a \in Nat, NEW b \in Nat,
                    <<i, a, b>> \in SegmentSteps(d, p)
             PROVE  a <= b
  BY DEF Forward
<1>1. SegmentFits(d, p, i, a, b)
  BY SegmentStep
<1> QED
  BY <1>1 DEF SegmentFits

LEMMA MatchFromIsChain ==
  ASSUME NEW d \in Seq(Globs), NEW p \in Path
  PROVE  MatchFrom(d, p) <=> Chained(SegmentSteps(d, p), Len(d), Len(p))
<1> DEFINE Fits(end) == /\ end \in [0..Len(d) -> 0..Len(p)]
                        /\ end[0] = 0
                        /\ \A i \in 1..Len(d) : SegmentFits(d, p, i, end[i-1], end[i])
<1>1. ASSUME NEW end
      PROVE  Fits(end) <=> Chain(end, SegmentSteps(d, p), Len(d), Len(p))
  <2>1. CASE end \in [0..Len(d) -> 0..Len(p)]
    <3>1. Len(d) \in Nat /\ Len(p) \in Nat
      BY DEF Path
    <3>2. ASSUME NEW i \in 1..Len(d)
          PROVE  <<i, end[i-1], end[i]>> \in SegmentSteps(d, p) <=>
                   SegmentFits(d, p, i, end[i-1], end[i])
      <4>1. i \in Nat /\ end[i-1] \in Nat /\ end[i] \in Nat
        BY <2>1, <3>1
      <4> QED
        BY <4>1, SegmentStep
    <3> QED
      BY <2>1, <3>2 DEF Chain
  <2>2. CASE end \notin [0..Len(d) -> 0..Len(p)]
    BY <2>2 DEF Chain
  <2> QED
    BY <2>1, <2>2
<1>2. MatchFrom(d, p) <=> \E end : Fits(end)
  <2>1. MatchFrom(d, p) => \E end : Fits(end)
    BY DEF MatchFrom, SegmentFits
  <2>2. ASSUME NEW end, Fits(end)
        PROVE  MatchFrom(d, p)
    BY <2>2 DEF MatchFrom, SegmentFits
  <2> QED
    BY <2>1, <2>2
<1> HIDE DEF Fits
<1> QED
  BY <1>1, <1>2 DEF Chained

\* The first segment of a pattern can consume the first k names of a path.
WalksOver(d, p, k) ==
  /\ p # <<>>
  /\ \/ d[1] = DoubleStar
     \/ d[1] # DoubleStar /\ k = 1 /\ SegmentMatches(d[1], p[1])

LEMMA MatchFromSplit ==
  ASSUME NEW d \in Seq(Globs), d # <<>>, NEW p \in Path, NEW k \in 0..Len(p)
  PROVE  /\ <<1, 0, k>> \in SegmentSteps(d, p)
         /\ Chained(After(SegmentSteps(d, p), k), Len(d) - 1, Len(p) - k)
         <=> WalksOver(d, p, k) /\ MatchFrom(Tail(d), Drop(p, k))
<1> DEFINE m == Len(d)  n == Len(p)
           T == SegmentSteps(d, p)  U == SegmentSteps(Tail(d), Drop(p, k))
<1>1. /\ m \in Nat \ {0} /\ n \in Nat /\ k \in Nat /\ m - 1 \in Nat /\ n - k \in Nat
      /\ Tail(d) \in Seq(Globs) /\ Len(Tail(d)) = m - 1
      /\ \A j \in 1..(m - 1) : Tail(d)[j] = d[j + 1]
  BY TailIsDrop DEF Path
<1>2. /\ Drop(p, k) \in Path /\ Len(Drop(p, k)) = n - k
      /\ \A j \in 1..(n - k) : Drop(p, k)[j] = p[j + k]
  BY DropElements DEF Path
<1>3. <<1, 0, k>> \in T <=> WalksOver(d, p, k)
  <2>1. <<1, 0, k>> \in T <=> SegmentFits(d, p, 1, 0, k)
    BY <1>1, SegmentStep
  <2>2. p # <<>> <=> 0 < Len(p)
    BY DEF Path
  <2> QED
    BY <1>1, <2>1, <2>2 DEF WalksOver, SegmentFits
<1>4. ASSUME NEW i \in 1..(m - 1), NEW a \in 0..(n - k), NEW b \in 0..(n - k)
      PROVE  <<i, a, b>> \in After(T, k) <=> <<i, a, b>> \in U
  <2>1. i \in Nat /\ a \in Nat /\ b \in Nat /\ i + 1 \in Nat /\ a + k \in Nat /\ b + k \in Nat
    BY <1>1
  <2>2. Tail(d)[i] = d[i + 1] /\ (b = a + 1 => Drop(p, k)[b] = p[b + k])
    BY <1>1, <1>2
  <2>3. <<i, a, b>> \in After(T, k) <=> <<i + 1, a + k, b + k>> \in T
    BY <1>1, <2>1, AfterStep
  <2>4. <<i + 1, a + k, b + k>> \in T <=> SegmentFits(d, p, i + 1, a + k, b + k)
    BY <2>1, SegmentStep
  <2>5. <<i, a, b>> \in U <=> SegmentFits(Tail(d), Drop(p, k), i, a, b)
    BY <2>1, SegmentStep
  <2>6. /\ a + k < n <=> a < n - k
        /\ b + k >= a + k <=> b >= a
        /\ b + k = (a + k) + 1 <=> b = a + 1
    BY <1>1, <2>1
  <2>7. SegmentFits(d, p, i + 1, a + k, b + k) <=> SegmentFits(Tail(d), Drop(p, k), i, a, b)
    BY <1>2, <2>2, <2>6 DEF SegmentFits
  <2> HIDE DEF T, U, m, n
  <2> QED
    BY <2>3, <2>4, <2>5, <2>7
<1>5. Chained(After(T, k), m - 1, n - k) <=> Chained(U, m - 1, n - k)
  <2> HIDE DEF T, U, m, n
  <2> QED
    BY <1>1, <1>4, ChainSame
<1>6. MatchFrom(Tail(d), Drop(p, k)) <=> Chained(U, m - 1, n - k)
  BY <1>1, <1>2, MatchFromIsChain
<1> HIDE DEF T, U, m, n
<1> QED
  BY <1>3, <1>5, <1>6 DEF T, m, n

\* MatchFrom of AccessRules has the recursion of match_from.
LEMMA MatchFromStep ==
  ASSUME NEW d \in Seq(Globs), NEW p \in Path
  PROVE  MatchFrom(d, p) <=>
           \/ d = <<>>
           \/ /\ p # <<>>
              /\ IF Head(d) = DoubleStar
                   THEN \E skip \in 0..Len(p) : MatchFrom(Tail(d), Drop(p, skip))
                   ELSE SegmentMatches(Head(d), Head(p)) /\ MatchFrom(Tail(d), Tail(p))
<1>1. CASE d = <<>>
  <2>1. Len(d) = 0 /\ Len(p) \in Nat
    BY <1>1 DEF Path
  <2>2. \A T : Chained(T, 0, Len(p))
    BY <2>1, EmptyChain
  <2>3. MatchFrom(d, p)
    BY <2>1, <2>2, MatchFromIsChain
  <2> QED
    BY <1>1, <2>3
<1>2. CASE d # <<>>
  <2> DEFINE m == Len(d)  n == Len(p)  T == SegmentSteps(d, p)
  <2>1. m \in Nat \ {0} /\ n \in Nat /\ Head(d) = d[1] /\ Forward(T)
    BY <1>2, TailIsDrop, SegmentsForward DEF Path
  <2>2. MatchFrom(d, p) <=> Chained(T, m, n)
    BY MatchFromIsChain
  <2>3. MatchFrom(d, p) <=>
          \E k \in 0..n : <<1, 0, k>> \in T /\ Chained(After(T, k), m - 1, n - k)
    <3> HIDE DEF m, n, T
    <3> QED
      BY <2>1, <2>2, ChainSplit
  <2>4. MatchFrom(d, p) <=>
          \E k \in 0..Len(p) : WalksOver(d, p, k) /\ MatchFrom(Tail(d), Drop(p, k))
    BY <1>2, <2>3, MatchFromSplit
  <2>5. CASE p = <<>>
    BY <1>2, <2>4, <2>5 DEF WalksOver
  <2>6. CASE p # <<>>
    <3>1. Tail(p) = Drop(p, 1) /\ Head(p) = p[1] /\ 1 \in 0..Len(p)
      BY <2>6, TailIsDrop DEF Path
    <3> QED
      BY <1>2, <2>1, <2>4, <2>6, <3>1 DEF WalksOver
  <2> QED
    BY <2>5, <2>6
<1> QED
  BY <1>1, <1>2

\* One step of match_from, with g in place of the recursive calls.
WalkStep(g, w) ==
  \/ w[1] = <<>>
  \/ /\ w[2] # <<>>
     /\ IF Head(w[1]) = DoubleStar
          THEN \E skip \in 0..Len(w[2]) : g[<<Tail(w[1]), Drop(w[2], skip)>>]
          ELSE /\ SegmentMatches(Head(w[1]), Head(w[2]))
               /\ g[<<Tail(w[1]), Tail(w[2])>>]

BelowWalk ==
  [w \in WalkRests |-> IF w[1] = <<>> THEN {} ELSE {<<Tail(w[1]), p>> : p \in Path}]

LEMMA WalksEnd == WellFounded(WalkRests, BelowWalk)
<1> DEFINE rank == [w \in WalkRests |-> Len(w[1])]
<1>1. rank \in [WalkRests -> Nat]
  BY DEF WalkRests
<1>2. \A d \in Seq(Globs) : d # <<>> => Tail(d) \in Seq(Globs) /\ Len(Tail(d)) < Len(d)
  OBVIOUS
<1>3. BelowWalk \in [WalkRests -> SUBSET WalkRests]
  <2>1. ASSUME NEW w \in WalkRests
        PROVE  BelowWalk[w] \subseteq WalkRests
    <3>1. w[1] \in Seq(Globs) /\ (w[1] # <<>> => Tail(w[1]) \in Seq(Globs))
      BY <1>2 DEF WalkRests
    <3>2. w[1] # <<>> => \A p \in Path : <<Tail(w[1]), p>> \in WalkRests
      BY <3>1 DEF WalkRests
    <3> QED
      BY <3>2 DEF BelowWalk
  <2>2. BelowWalk = [w \in WalkRests |-> BelowWalk[w]]
    BY DEF BelowWalk
  <2> QED
    BY <2>1, <2>2
<1>4. ASSUME NEW w \in WalkRests, NEW y \in BelowWalk[w]
      PROVE  rank[y] < rank[w]
  BY <1>2, <1>3 DEF BelowWalk, WalkRests
<1> HIDE DEF rank
<1> QED
  BY <1>1, <1>3, <1>4, FallingRank

LEMMA RestsOfPath ==
  ASSUME NEW p \in Path
  PROVE  /\ p # <<>> => Tail(p) \in Path
         /\ \A i \in 0..Len(p) : Drop(p, i) \in Path
BY DropElements DEF Path

\* What the recursive calls are made on.
LEMMA WalkRecursion ==
  ASSUME NEW g, NEW h, NEW w \in WalkRests, \A y \in BelowWalk[w] : g[y] <=> h[y]
  PROVE  WalkStep(g, w) <=> WalkStep(h, w)
<1>1. w[1] \in Seq(Globs) /\ w[2] \in Path
  BY DEF WalkRests
<1>2. CASE w[1] = <<>>
  BY <1>2 DEF WalkStep
<1>3. CASE w[1] # <<>>
  <2>1. \A p \in Path : g[<<Tail(w[1]), p>>] <=> h[<<Tail(w[1]), p>>]
    BY <1>3 DEF BelowWalk
  <2> QED
    BY <1>1, <1>3, <2>1, RestsOfPath DEF WalkStep
<1> QED
  BY <1>2, <1>3

\* match_from is the one solution of its recursion, and MatchFrom is a solution.
LEMMA WalkIsMatchFrom ==
  \A w \in WalkRests : Walk[w] <=> MatchFrom(w[1], w[2])
<1> DEFINE Text(h, w) ==
             LET d == w[1]
                 p == w[2]
             IN \/ d = <<>>
                \/ /\ p # <<>>
                   /\ IF Head(d) = DoubleStar
                        THEN \E skip \in 0..Len(p) :
                               h[<<Tail(d), SubSeq(p, skip + 1, Len(p))>>]
                        ELSE /\ SegmentMatches(Head(d), Head(p))
                             /\ h[<<Tail(d), Tail(p)>>]
           Recurses(h) == h = [w \in WalkRests |-> Text(h, w)]
           ref == [w \in WalkRests |-> MatchFrom(w[1], w[2])]
<1>1. ASSUME NEW h, NEW w
      PROVE  Text(h, w) = WalkStep(h, w)
  BY DEF WalkStep, Drop
<1>2. ASSUME NEW w \in WalkRests
      PROVE  ref[w] <=> WalkStep(ref, w)
  <2>1. w[1] \in Seq(Globs) /\ w[2] \in Path /\ w = <<w[1], w[2]>>
    BY DEF WalkRests
  <2>2. \A d \in Seq(Globs), p \in Path : ref[<<d, p>>] <=> MatchFrom(d, p)
    BY DEF WalkRests
  <2>3. w[1] # <<>> => Tail(w[1]) \in Seq(Globs)
    BY <2>1
  <2>4. MatchFrom(w[1], w[2]) <=>
          \/ w[1] = <<>>
          \/ /\ w[2] # <<>>
             /\ IF Head(w[1]) = DoubleStar
                  THEN \E skip \in 0..Len(w[2]) : MatchFrom(Tail(w[1]), Drop(w[2], skip))
                  ELSE /\ SegmentMatches(Head(w[1]), Head(w[2]))
                       /\ MatchFrom(Tail(w[1]), Tail(w[2]))
    BY <2>1, MatchFromStep
  <2>5. ref[w] <=> MatchFrom(w[1], w[2])
    BY <2>1, <2>2
  <2> HIDE DEF ref
  <2> QED
    BY <2>1, <2>2, <2>3, <2>4, <2>5, RestsOfPath DEF WalkStep
<1>3. Recurses(ref)
  <2>1. \A w \in WalkRests : ref[w] = MatchFrom(w[1], w[2])
    OBVIOUS
  <2>2. \A w \in WalkRests : ref[w] = Text(ref, w)
    <3>1. ASSUME NEW w \in WalkRests
          PROVE  MatchFrom(w[1], w[2]) = WalkStep(ref, w)
      <4>1. MatchFrom(w[1], w[2]) \in BOOLEAN /\ WalkStep(ref, w) \in BOOLEAN
        BY DEF MatchFrom, WalkStep
      <4>2. MatchFrom(w[1], w[2]) <=> WalkStep(ref, w)
        BY <1>2
      <4> HIDE DEF ref
      <4> QED
        BY <4>1, <4>2, EqualTruths
    <3> HIDE DEF ref, Text
    <3> QED
      BY <1>1, <2>1, <3>1
  <2>3. ref = [w \in WalkRests |-> ref[w]]
    OBVIOUS
  <2> HIDE DEF ref, Text
  <2> QED
    BY <2>2, <2>3
<1>4. Walk = CHOOSE h : Recurses(h)
  BY DEF Walk
<1>5. Recurses(Walk)
  <2> HIDE DEF Recurses, ref
  <2> QED
    BY <1>3, <1>4, Zenon
<1>6. ASSUME NEW w \in WalkRests
      PROVE  Walk[w] = WalkStep(Walk, w)
  <2> HIDE DEF Text
  <2> QED
    BY <1>1, <1>5
<1> DEFINE Good == {w \in WalkRests : Walk[w] <=> ref[w]}
<1>7. ASSUME NEW w \in WalkRests, BelowWalk[w] \subseteq Good
      PROVE  w \in Good
  <2>1. \A y \in BelowWalk[w] : Walk[y] <=> ref[y]
    BY <1>7
  <2> HIDE DEF ref
  <2>2. WalkStep(Walk, w) <=> WalkStep(ref, w)
    BY <2>1, WalkRecursion
  <2> QED
    BY <1>2, <1>6, <2>2
<1>8. WalkRests \subseteq Good
  <2>1. Inductive(WalkRests, BelowWalk, Good)
    BY <1>7 DEF Inductive
  <2> HIDE DEF Good
  <2> QED
    BY <2>1, WalksEnd, Induction
<1> QED
  BY <1>8

(* The documented grammar. *)

\* With positions that fit the grammar, every segment finds a name left: the
\* last one consumes a name, and positions never fall.
LEMMA NameLeft ==
  ASSUME NEW m \in Nat \ {0}, NEW n \in Nat, NEW end \in [0..m -> 0..n],
         \A i \in 1..m : end[i-1] <= end[i],
         end[m-1] < end[m]
  PROVE  \A i \in 1..m : end[i-1] < n
<1> DEFINE stuck == {j \in 0..(m-1) : end[m-1-j] = n}
<1>1. \A i \in 0..m : end[i] \in Nat /\ end[i] <= n
  OBVIOUS
<1> SUFFICES ASSUME stuck # {}
             PROVE  FALSE
  <2>1. ASSUME NEW i \in 1..m
        PROVE  end[i-1] < n
    <3>1. m - i \in 0..(m-1) /\ m - 1 - (m - i) = i - 1 /\ i - 1 \in 0..m
      OBVIOUS
    <3>2. end[i-1] # n
      BY <3>1
    <3> QED
      BY <1>1, <3>1, <3>2
  <2> QED
    BY <2>1
<1>2. stuck \subseteq Nat
  OBVIOUS
<1> HIDE DEF stuck
<1>3. PICK j \in stuck : \A k \in stuck : j <= k
  BY <1>2, LeastNatural
<1>4. j \in 0..(m-1) /\ end[m-1-j] = n
  BY <1>3 DEF stuck
<1>5. CASE j = 0
  BY <1>1, <1>4, <1>5
<1>6. CASE j # 0
  <2>1. j - 1 \in 0..(m-1) /\ m-1-(j-1) = m-j /\ m-j \in 1..m /\ (m-j)-1 = m-1-j
    BY <1>4, <1>6
  <2>2. end[m-1-j] <= end[m-j]
    BY <2>1
  <2>3. end[m-j] = n
    BY <1>1, <1>4, <2>1, <2>2
  <2>4. j - 1 \in stuck
    BY <2>1, <2>3 DEF stuck
  <2> QED
    BY <1>3, <1>4, <2>4
<1> QED
  BY <1>5, <1>6

LEMMA GitignoreIsMatchFrom ==
  ASSUME NEW d \in Seq(Globs), NEW p \in Path
  PROVE  Gitignore(d, p) <=> MatchFrom(d, p)
<1> DEFINE m == Len(d)  n == Len(p)
<1>1. m \in Nat /\ n \in Nat
  BY DEF Path
<1>2. ASSUME NEW end \in [0..m -> 0..n], end[0] = 0,
             \A i \in 1..m :
               IF d[i] = DoubleStar
                 THEN end[i] >= end[i-1] + (IF i = m THEN 1 ELSE 0)
                 ELSE end[i] = end[i-1] + 1 /\ SegmentMatches(d[i], p[end[i]])
      PROVE  MatchFrom(d, p)
  <2>1. \A i \in 1..m : end[i-1] \in Nat /\ end[i] \in Nat
    BY <1>1
  <2>2. \A i \in 1..m : end[i] >= end[i-1]
    BY <1>2, <2>1
  <2>3. m # 0 => end[m-1] < end[m]
    <3> SUFFICES ASSUME m # 0
                 PROVE  end[m-1] < end[m]
      OBVIOUS
    <3>1. m \in 1..m
      BY <1>1
    <3>2. end[m-1] \in Nat /\ end[m] \in Nat
      BY <2>1, <3>1
    <3>3. end[m] >= end[m-1] + 1
      <4>1. CASE d[m] = DoubleStar
        BY <1>2, <3>1, <4>1
      <4>2. CASE d[m] # DoubleStar
        <5>1. end[m] = end[m-1] + 1
          BY <1>2, <3>1, <4>2
        <5> QED
          BY <3>2, <5>1
      <4> QED
        BY <4>1, <4>2
    <3> QED
      BY <3>2, <3>3
  <2>4. ASSUME NEW i \in 1..m
        PROVE  end[i-1] < n
    <3>1. m \in Nat \ {0}
      BY <1>1
    <3>2. \A j \in 1..m : end[j-1] <= end[j]
      BY <2>1, <2>2
    <3> HIDE DEF m, n
    <3> QED
      BY <1>1, <2>3, <3>1, <3>2, NameLeft
  <2>5. \A i \in 1..m :
          /\ end[i-1] < n
          /\ \/ d[i] = DoubleStar /\ end[i] >= end[i-1]
             \/ /\ d[i] # DoubleStar
                /\ end[i] = end[i-1] + 1
                /\ SegmentMatches(d[i], p[end[i]])
    BY <1>2, <2>2, <2>4
  <2> QED
    BY <1>2, <2>5 DEF MatchFrom
<1>3. ASSUME NEW end \in [0..m -> 0..n], end[0] = 0,
             \A i \in 1..m :
               /\ end[i-1] < n
               /\ \/ d[i] = DoubleStar /\ end[i] >= end[i-1]
                  \/ /\ d[i] # DoubleStar
                     /\ end[i] = end[i-1] + 1
                     /\ SegmentMatches(d[i], p[end[i]])
      PROVE  Gitignore(d, p)
  <2>1. CASE m # 0 /\ d[m] = DoubleStar
    <3> DEFINE full == [end EXCEPT ![m] = n]
    <3>1. full \in [0..m -> 0..n] /\ full[0] = 0 /\ full[m] = n
      BY <1>1, <1>3, <2>1
    <3>2. \A i \in 1..m : /\ full[i-1] = end[i-1]
                          /\ i # m => full[i] = end[i]
      BY <1>1
    <3>3. ASSUME NEW i \in 1..m
          PROVE  IF d[i] = DoubleStar
                   THEN full[i] >= full[i-1] + (IF i = m THEN 1 ELSE 0)
                   ELSE full[i] = full[i-1] + 1 /\ SegmentMatches(d[i], p[full[i]])
      <4>1. end[i-1] \in Nat /\ end[i] \in Nat
        BY <1>1
      <4>2. CASE i = m
        <5>1. full[i] = n /\ end[i-1] < n /\ full[i-1] = end[i-1]
          BY <1>3, <3>1, <3>2, <4>2
        <5> HIDE DEF full
        <5> QED
          BY <1>1, <2>1, <4>1, <4>2, <5>1
      <4>3. CASE i # m
        <5> HIDE DEF full
        <5> QED
          BY <1>3, <3>2, <4>1, <4>3
      <4> QED
        BY <4>2, <4>3
    <3> HIDE DEF full
    <3> QED
      BY <3>1, <3>3 DEF Gitignore
  <2>2. CASE m = 0 \/ d[m] # DoubleStar
    <3>1. ASSUME NEW i \in 1..m
          PROVE  IF d[i] = DoubleStar
                   THEN end[i] >= end[i-1] + (IF i = m THEN 1 ELSE 0)
                   ELSE end[i] = end[i-1] + 1 /\ SegmentMatches(d[i], p[end[i]])
      <4>1. end[i-1] \in Nat /\ end[i] \in Nat
        BY <1>1
      <4> QED
        BY <1>3, <2>2, <4>1
    <3> QED
      BY <1>3, <3>1 DEF Gitignore
  <2> QED
    BY <2>1, <2>2
<1>4. Gitignore(d, p) => MatchFrom(d, p)
  <2> SUFFICES ASSUME Gitignore(d, p)
               PROVE  MatchFrom(d, p)
    OBVIOUS
  <2>1. PICK end \in [0..m -> 0..n] :
          /\ end[0] = 0
          /\ \A i \in 1..m :
               IF d[i] = DoubleStar
                 THEN end[i] >= end[i-1] + (IF i = m THEN 1 ELSE 0)
                 ELSE end[i] = end[i-1] + 1 /\ SegmentMatches(d[i], p[end[i]])
    BY DEF Gitignore
  <2> QED
    BY <1>2, <2>1
<1>5. MatchFrom(d, p) => Gitignore(d, p)
  <2> SUFFICES ASSUME MatchFrom(d, p)
               PROVE  Gitignore(d, p)
    OBVIOUS
  <2>1. PICK end \in [0..m -> 0..n] :
          /\ end[0] = 0
          /\ \A i \in 1..m :
               /\ end[i-1] < n
               /\ \/ d[i] = DoubleStar /\ end[i] >= end[i-1]
                  \/ /\ d[i] # DoubleStar
                     /\ end[i] = end[i-1] + 1
                     /\ SegmentMatches(d[i], p[end[i]])
    BY DEF MatchFrom
  <2> QED
    BY <1>3, <2>1
<1> QED
  BY <1>4, <1>5

(* The behaviours. *)

LEMMA SubjectTyped ==
  MatchSpec => []MatchTypeOK
<1>1. MatchInit => MatchTypeOK
  BY DEF MatchInit, MatchTypeOK, Path
<1>2. MatchTypeOK /\ [MatchNext]_matchVars => MatchTypeOK'
  <2> SUFFICES ASSUME MatchTypeOK, [MatchNext]_matchVars
               PROVE  MatchTypeOK'
    OBVIOUS
  <2>1. CASE GrowPattern
    <3>1. CASE level = "bytes"
      BY <2>1, <3>1, EncodingAssumption DEF GrowPattern, MatchTypeOK, GlobBytes
    <3>2. CASE level = "chars"
      BY <2>1, <3>2 DEF GrowPattern, MatchTypeOK
    <3>3. CASE level = "segments"
      BY <2>1, <3>3, EncodingAssumption DEF GrowPattern, MatchTypeOK
    <3> QED
      BY <3>1, <3>2, <3>3 DEF MatchTypeOK
  <2>2. CASE GrowSubject
    <3>1. CASE level = "bytes"
      BY <2>2, <3>1, EncodingAssumption DEF GrowSubject, MatchTypeOK
    <3>2. CASE level = "chars"
      BY <2>2, <3>2 DEF GrowSubject, MatchTypeOK
    <3>3. CASE level = "segments"
      BY <2>2, <3>3, EncodingAssumption DEF GrowSubject, MatchTypeOK, Path
    <3> QED
      BY <3>1, <3>2, <3>3 DEF MatchTypeOK
  <2>3. CASE UNCHANGED matchVars
    BY <2>3 DEF MatchTypeOK, matchVars
  <2> QED
    BY <2>1, <2>2, <2>3 DEF MatchNext
<1> QED
  BY <1>1, <1>2, PTL DEF MatchSpec

\* glob_match_chars accepts exactly the byte strings its glob describes, for globs
\* and names of any length over any bytes: its search of the split points of a
\* star misses no match and invents none.
THEOREM GlobSearchIsExact == MatchSpec => []GlobIsExact
<1>1. MatchTypeOK => GlobIsExact
  <2> SUFFICES ASSUME MatchTypeOK, level = "bytes"
               PROVE  BytesMatch(pattern, subject) <=> GlobReference(pattern, subject)
    BY DEF GlobIsExact
  <2>1. pattern \in Seq(GlobBytes) /\ subject \in Seq(Bytes)
    BY DEF MatchTypeOK
  <2>2. <<pattern, subject>> \in GlobRests
    BY <2>1 DEF GlobRests
  <2> QED
    BY <2>2, GlobMatchIsReference DEF BytesMatch
<1> QED
  BY <1>1, SubjectTyped, PTL

\* match_from denies exactly what the documented grammar denies, for patterns
\* and paths of any length and any segment matcher, and the evaluation of
\* AccessRules, which all the other modules build on, uses the same relation.
THEOREM WalkFollowsGrammar == MatchSpec => []WalkIsGitignore
<1>1. MatchTypeOK => WalkIsGitignore
  <2> SUFFICES ASSUME MatchTypeOK, level = "segments"
               PROVE  /\ WalkMatches(pattern, subject) <=> Gitignore(pattern, subject)
                      /\ WalkMatches(pattern, subject) <=> MatchFrom(pattern, subject)
    BY DEF WalkIsGitignore
  <2>1. pattern \in Seq(Globs) /\ subject \in Path
    BY DEF MatchTypeOK
  <2>2. <<pattern, subject>> \in WalkRests
    BY <2>1 DEF WalkRests
  <2>3. WalkMatches(pattern, subject) <=> MatchFrom(pattern, subject)
    BY <2>2, WalkIsMatchFrom DEF WalkMatches
  <2> QED
    BY <2>1, <2>3, GitignoreIsMatchFrom
<1> QED
  BY <1>1, SubjectTyped, PTL

--------------------------------------------------------------------------------
(* The walk. *)

LEMMA TypeKept ==
  ASSUME TypeOK, [Next]_vars
  PROVE  TypeOK'
<1>1. ASSUME NEW name \in Names, Descend(name)
      PROVE  TypeOK'
  BY <1>1 DEF TypeOK, Descend, Path
<1>2. CASE Ascend
  BY <1>2 DEF TypeOK, Ascend, Front, Path
<1>3. ASSUME NEW group \in Groups, Join(group)
      PROVE  TypeOK'
  BY <1>3 DEF TypeOK, Join
<1>4. CASE UNCHANGED vars
  BY <1>4 DEF TypeOK, vars
<1> QED
  BY <1>1, <1>2, <1>3, <1>4 DEF Next

\* The walk keeps to the configuration it started from, to the groups there are
\* and to the paths that the names of the share make up.
LEMMA WalkTyped == Spec => []TypeOK
<1>1. Init => TypeOK
  BY DEF Init, TypeOK, Path
<1> QED
  BY <1>1, TypeKept, PTL DEF Spec

\* A step that lengthens the path is a descent to a child, all else unchanged.
LEMMA DescentIsDescend ==
  ASSUME TypeOK, [Next]_vars, Descended
  PROVE  /\ access' = access /\ groups' = groups
         /\ path' \in Path /\ IsPrefix(path, path')
<1>1. PICK name \in Names : Descend(name)
  <2>1. ~Ascend
    BY DEF Ascend, Descended, TypeOK, Path, Front
  <2>2. ASSUME NEW group \in Groups
        PROVE  ~Join(group)
    BY DEF Join, Descended, TypeOK, Path
  <2>3. ~UNCHANGED vars
    BY DEF vars, Descended, TypeOK, Path
  <2> QED
    BY <2>1, <2>2, <2>3 DEF Next
<1> QED
  BY <1>1, PrefixOfAppend DEF Descend, TypeOK, Path

\* No descent leaves a denied path: a deny hides everything underneath it,
\* whatever other rules and groups apply there (evaluate, match_from).
THEOREM DenialIsInherited == Spec => DenialInherited
<1>1. TypeOK /\ [Next]_vars => [Descended /\ IsDenied => IsDenied']_vars
  <2> SUFFICES ASSUME TypeOK, [Next]_vars, Descended, IsDenied
               PROVE  IsDenied'
    OBVIOUS
  <2>1. path # <<>> /\ path \in Path /\ IsAccessConfig(access)
    BY ConfigsAssumption DEF IsDenied, Evaluate, TypeOK
  <2>2. Evaluate(access, groups, path') = "denied"
    BY <2>1, DescentIsDescend, VerdictBelow DEF IsDenied
  <2> QED
    BY <2>2, DescentIsDescend DEF IsDenied
<1> QED
  BY <1>1, WalkTyped, PTL DEF Spec, DenialInherited

\* A group gained never reveals a denied path (evaluate: the denies of every
\* covering entry count, whichever of them made the path visible).
THEOREM DenialSurvivesJoining == Spec => JoiningKeepsDenials
<1>1. TypeOK /\ [Next]_vars => [groups' # groups /\ IsDenied => IsDenied']_vars
  <2> SUFFICES ASSUME TypeOK, [Next]_vars, groups' # groups, IsDenied
               PROVE  IsDenied'
    OBVIOUS
  <2>1. groups \subseteq groups' /\ access' = access /\ path' = path
    BY DEF Next, Descend, Ascend, Join, vars
  <2> QED
    BY <2>1, DenialKept DEF IsDenied
<1> QED
  BY <1>1, WalkTyped, PTL DEF Spec, JoiningKeepsDenials

\* Below a visible directory nothing is hidden for want of an allow
\* (allow_covers: an allow covers its whole subtree).
THEOREM OnlyDeniesMakeGaps == Spec => GapsAreDenials
<1>1. ASSUME TypeOK, [Next]_vars, Descended, path # <<>>,
             Evaluate(access, groups, path) = "visible"
      PROVE  Evaluate(access, groups, path)' # "noAllow"
  <2>1. path \in Path /\ IsAccessConfig(access)
    BY <1>1, ConfigsAssumption DEF TypeOK
  <2>2. Evaluate(access, groups, path') # "noAllow"
    BY <1>1, <2>1, DescentIsDescend, VerdictBelow
  <2> QED
    BY <1>1, <2>2, DescentIsDescend
<1> QED
  BY <1>1, WalkTyped, PTL DEF Spec, GapsAreDenials

\* A deny on the decoded form of an ancestor hides a path, like a deny on the
\* literal form (is_path_visible).
THEOREM DecodedFormCounts == Spec => []DecodedDenialHides
<1>1. ASSUME TypeOK, HasDecodeEquivalent(path), NEW k \in 1..Len(path),
             Evaluate(access, groups, SubSeq(DecodeEquivalent(path), 1, k)) = "denied"
      PROVE  ~IsPathVisible(access, groups, path)
  <2> DEFINE q == DecodeEquivalent(path)
             p == SubSeq(q, 1, k)
  <2>1. path \in Path /\ IsAccessConfig(access)
    BY <1>1, ConfigsAssumption DEF TypeOK
  <2>2. q \in Path /\ Len(q) = Len(path)
    BY <1>1, <2>1 DEF HasDecodeEquivalent, DecodeEquivalent, Path
  <2> HIDE DEF q
  <2>3. p \in Path /\ Len(p) = k /\ \A i \in 1..k : p[i] = q[i]
    BY <2>1, <2>2 DEF Path
  <2> HIDE DEF p
  <2>4. IsPrefix(p, q) /\ p # <<>>
    BY <2>1, <2>2, <2>3, PrefixElements DEF Path
  <2>5. Evaluate(access, groups, p) = "denied"
    BY <1>1 DEF p, q
  <2>6. Evaluate(access, groups, q) = "denied"
    BY <2>1, <2>2, <2>3, <2>4, <2>5, VerdictBelow
  <2> QED
    BY <1>1, <2>6 DEF IsPathVisible, IsHidden, q
<1>2. TypeOK => DecodedDenialHides
  BY <1>1 DEF DecodedDenialHides
<1> QED
  BY <1>2, WalkTyped, PTL
================================================================================
