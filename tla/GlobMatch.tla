------------------------------- MODULE GlobMatch -------------------------------
(***************************************************************************)
(* The two backtracking matchers of backend/src/access.rs, written with    *)
(* the recursion of the code: glob_match_chars over the bytes of one       *)
(* segment and match_from over the segments of a path. The behaviours grow *)
(* a pattern and a subject symbol by symbol, and in every state the        *)
(* matchers are compared with what the rules promise.                      *)
(***************************************************************************)
EXTENDS AccessRules

CONSTANTS
  Bytes,            \* the bytes a name consists of
  Star, Question,   \* the wildcards `*` and `?`, one byte each
  Chars,            \* the characters a name is spelled with
  Encoding,         \* the bytes of each
  GrownBytes,       \* the bytes, and the segments and names along a path, that
  WalkGlobs,        \* behaviours are built from
  WalkNames,
  MaxPattern,       \* bounds on the lengths of the pattern
  MaxSubject        \* and of what it is matched against

GlobBytes == Bytes \cup {Star, Question}
GlobChars == Chars \cup {Star, Question}

ASSUME EncodingAssumption ==
  /\ Encoding \in [Chars -> Seq(Bytes) \ {<<>>}]
  /\ {Star, Question} \cap (Bytes \cup Chars) = {}
  /\ GrownBytes \subseteq Bytes /\ WalkGlobs \subseteq Globs /\ WalkNames \subseteq Names

--------------------------------------------------------------------------------
(* The matchers as the code computes them. *)

\* What is left of the glob or pattern, and of the name or path.
GlobRests == Seq(GlobBytes) \X Seq(Bytes)
WalkRests == Seq(Globs) \X Path

\* Faulty variant (GlobIsExact): the star has to consume a byte.
GreedyGlobMatchChars[w \in GlobRests] ==
  LET glob == w[1]
      name == w[2]
  IN IF glob = <<>> THEN name = <<>>
     ELSE \/ /\ Head(glob) = Star
             /\ \E i \in 1..Len(name) :
                  GreedyGlobMatchChars[<<Tail(glob), SubSeq(name, i + 1, Len(name))>>]
          \/ /\ Head(glob) # Star /\ name # <<>>
             /\ Head(glob) \in {Question, Head(name)}
             /\ GreedyGlobMatchChars[<<Tail(glob), Tail(name)>>]
GreedyBytesMatch(glob, name) == GreedyGlobMatchChars[<<glob, name>>]

GlobMatchChars[w \in GlobRests] ==
  LET glob == w[1]
      name == w[2]
  IN IF glob = <<>> THEN name = <<>>
     ELSE \/ /\ Head(glob) = Star
             /\ \E i \in 0..Len(name) :
                  GlobMatchChars[<<Tail(glob), SubSeq(name, i + 1, Len(name))>>]
          \/ /\ Head(glob) # Star /\ name # <<>>
             /\ Head(glob) \in {Question, Head(name)}
             /\ GlobMatchChars[<<Tail(glob), Tail(name)>>]
BytesMatch(glob, name) == GlobMatchChars[<<glob, name>>]

\* as_bytes: a wildcard is one byte, a character has those of its encoding.
AsBytes(text) ==
  FlattenSeq([i \in 1..Len(text) |->
                IF text[i] \in {Star, Question} THEN <<text[i]>> ELSE Encoding[text[i]]])

\* Faulty variant (WildcardsTakeCharacters): any name with such a beginning.
SegmentBegins(glob, name) == BytesMatch(Append(AsBytes(glob), Star), AsBytes(name))

\* segment_matches, over the texts of a segment and of a name.
SegmentMatchesText(glob, name) == BytesMatch(AsBytes(glob), AsBytes(name))

\* Faulty variant (WalkIsGitignore): no check that a name is left for a `**`.
UncheckedWalk[w \in WalkRests] ==
  LET pattern == w[1]
      p == w[2]
  IN \/ pattern = <<>>
     \/ /\ Head(pattern) = DoubleStar
        /\ \E skip \in 0..Len(p) :
             UncheckedWalk[<<Tail(pattern), SubSeq(p, skip + 1, Len(p))>>]
     \/ /\ p # <<>> /\ Head(pattern) # DoubleStar
        /\ SegmentMatches(Head(pattern), Head(p))
        /\ UncheckedWalk[<<Tail(pattern), Tail(p)>>]
UncheckedWalkMatches(pattern, p) == UncheckedWalk[<<pattern, p>>]

\* match_from, with the rest of the path in place of an offset into it.
Walk[w \in WalkRests] ==
  LET pattern == w[1]
      p == w[2]
  IN \/ pattern = <<>>
     \/ /\ p # <<>>
        /\ IF Head(pattern) = DoubleStar
             THEN \E skip \in 0..Len(p) :
                    Walk[<<Tail(pattern), SubSeq(p, skip + 1, Len(p))>>]
             ELSE /\ SegmentMatches(Head(pattern), Head(p))
                  /\ Walk[<<Tail(pattern), Tail(p)>>]
WalkMatches(pattern, p) == Walk[<<pattern, p>>]

--------------------------------------------------------------------------------
(* What the rules promise. *)

\* `*` stands for any run of symbols, `?` for exactly one, any other symbol for
\* itself, and the whole name has to be consumed.
GlobReference(glob, name) ==
  \E end \in [0..Len(glob) -> 0..Len(name)] :
    /\ end[0] = 0 /\ end[Len(glob)] = Len(name)
    /\ \A i \in 1..Len(glob) :
         IF glob[i] = Star THEN end[i] >= end[i-1]
         ELSE end[i] = end[i-1] + 1 /\ glob[i] \in {Question, name[end[i]]}

\* The pattern matches a prefix of the path: a `**` in the middle stands for
\* zero or more names and a trailing `**` for one or more.
Gitignore(pattern, p) ==
  \E end \in [0..Len(pattern) -> 0..Len(p)] :
    /\ end[0] = 0
    /\ \A i \in 1..Len(pattern) :
         IF pattern[i] = DoubleStar
           THEN end[i] >= end[i-1] + (IF i = Len(pattern) THEN 1 ELSE 0)
           ELSE end[i] = end[i-1] + 1 /\ SegmentMatches(pattern[i], p[end[i]])

--------------------------------------------------------------------------------
VARIABLES
  level,    \* "bytes" or "chars" inside one segment, "segments" along a path
  pattern,
  subject

matchVars == <<level, pattern, subject>>

MatchTypeOK ==
  \/ level = "bytes" /\ pattern \in Seq(GlobBytes) /\ subject \in Seq(Bytes)
  \/ level = "chars" /\ pattern \in Seq(GlobChars) /\ subject \in Seq(Chars)
  \/ level = "segments" /\ pattern \in Seq(Globs) /\ subject \in Path

MatchInit ==
  /\ level \in {"bytes", "chars", "segments"}
  /\ pattern = <<>>
  /\ subject = <<>>

GrowPattern ==
  /\ Len(pattern) < MaxPattern
  /\ \E s \in CASE level = "bytes" -> GrownBytes \cup {Star, Question}
              [] level = "chars" -> GlobChars
              [] level = "segments" -> WalkGlobs : pattern' = Append(pattern, s)
  /\ UNCHANGED <<level, subject>>

GrowSubject ==
  /\ Len(subject) < MaxSubject
  /\ \E s \in CASE level = "bytes" -> GrownBytes
              [] level = "chars" -> Chars
              [] level = "segments" -> WalkNames : subject' = Append(subject, s)
  /\ UNCHANGED <<level, pattern>>

MatchNext == GrowPattern \/ GrowSubject

MatchSpec == MatchInit /\ [][MatchNext]_matchVars

(* glob_match_chars accepts exactly the byte strings its glob describes:     *)
(* trying the split points of every star neither misses a match nor invents  *)
(* one.                                                                      *)
GlobIsExact ==
  level = "bytes" => (BytesMatch(pattern, subject) <=> GlobReference(pattern, subject))

(* "`?` matches one character" (group-based-access-control.md) and `*` any   *)
(* run of them, although the matcher only knows bytes (segment_matches): it  *)
(* decides as if it saw characters, unless a `?` meets a name that has       *)
(* characters of several bytes. There `?` takes one byte, against the        *)
(* document: `caf?` does not match a name that ends in a two-byte letter.    *)
WildcardsTakeCharacters ==
  level = "chars" =>
    \/ SegmentMatchesText(pattern, subject) <=> GlobReference(pattern, subject)
    \/ /\ \E i \in 1..Len(pattern) : pattern[i] = Question
       /\ \E i \in 1..Len(subject) : Len(Encoding[subject[i]]) > 1

(* match_from denies exactly what the documented pattern grammar denies      *)
(* (ADR-0005, decision 5), and MatchFrom of AccessRules is the same relation.*)
WalkIsGitignore ==
  level = "segments" =>
    /\ WalkMatches(pattern, subject) <=> Gitignore(pattern, subject)
    /\ WalkMatches(pattern, subject) <=> MatchFrom(pattern, subject)
================================================================================
