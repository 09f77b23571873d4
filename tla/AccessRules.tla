------------------------------ MODULE AccessRules ------------------------------
(***************************************************************************)
(* The access evaluation of backend/src/access.rs: which request paths a   *)
(* user sees and which files the user may delete, as pure operators over a *)
(* validated access configuration and the user's groups.                   *)
(*                                                                         *)
(* A path is the sequence of its names below the shared root (<<>> is the  *)
(* root). A name is an element of Names when it is text a request or the   *)
(* configuration can spell; OsNames adds the names on disk that are not    *)
(* valid UTF-8. How a glob of one segment matches a name is the relation   *)
(* SegmentMatch; module GlobMatch checks that relation and the segment     *)
(* walk against the recursive code.                                        *)
(***************************************************************************)
EXTENDS Naturals, Sequences, SequencesExt

CONSTANTS
  Names,         \* the names a request path or a rule can spell
  OsNames,       \* every name a directory entry can have
  Groups,        \* the groups an identity provider can put in a claim
  Globs,         \* the segments deny patterns are made of
  DoubleStar,    \* the segment `**`
  SegmentMatch,  \* <<glob, name>> pairs for which segment_matches holds
  Decoded,       \* what percent-decoding one name yields
  Slash, DotDot, \* decoding to a name with a `/`, `\` or NUL in it; to `..`
  Dot            \* the name `.`, which a name can decode to

Undecodable == {Slash, DotDot}

ASSUME NamesAssumption ==
  /\ Names \subseteq OsNames
  /\ OsNames \cap Undecodable = {} /\ Slash # DotDot
  /\ Dot \in Names
  /\ Decoded \in [Names -> OsNames \cup Undecodable]
  /\ DoubleStar \in Globs
  /\ SegmentMatch \subseteq Globs \X OsNames

Path == Seq(Names)
Pattern == Seq(Globs) \ {<<>>}
AllowEntry == [path : Path, deny : SUBSET Pattern]
Grant == [delete : BOOLEAN, allow : SUBSET AllowEntry]

\* What validate_access_config can return: every grant names at least one
\* allow entry.
IsAccessConfig(access) ==
  /\ access.globalAllow \subseteq Path
  /\ access.globalDeny \subseteq Pattern
  /\ DOMAIN access.grants \subseteq Groups
  /\ \A g \in DOMAIN access.grants :
       access.grants[g] \in Grant /\ access.grants[g].allow # {}

--------------------------------------------------------------------------------
(* Patterns and allow paths. A definition called a faulty variant is a bug  *)
(* the property named with it would catch; nothing uses it.                 *)

SegmentMatches(glob, name) == <<glob, name>> \in SegmentMatch

\* Faulty variant (DenialInherited): the pattern has to reach the end of p.
MatchFromToTheEnd(pattern, p) ==
  \E end \in [0..Len(pattern) -> 0..Len(p)] :
    /\ end[0] = 0 /\ end[Len(pattern)] = Len(p)
    /\ \A i \in 1..Len(pattern) :
         \/ pattern[i] = DoubleStar /\ end[i] >= end[i-1]
         \/ end[i] = end[i-1] + 1 /\ SegmentMatches(pattern[i], p[end[i]])

\* match_from: end[i] names of p are consumed once i segments of the pattern
\* are. `**` consumes any number of them, but every segment of the pattern,
\* `**` included, needs a name that is not consumed yet. A pattern that ends
\* before p does denies everything below the path it matched.
MatchFrom(pattern, p) ==
  \E end \in [0..Len(pattern) -> 0..Len(p)] :
    /\ end[0] = 0
    /\ \A i \in 1..Len(pattern) :
         /\ end[i-1] < Len(p)
         /\ \/ pattern[i] = DoubleStar /\ end[i] >= end[i-1]
            \/ /\ pattern[i] # DoubleStar
               /\ end[i] = end[i-1] + 1
               /\ SegmentMatches(pattern[i], p[end[i]])

\* A pattern of one segment is unanchored: it matches a name at any depth.
Matches(pattern, p) ==
  IF Len(pattern) = 1
    THEN \E i \in 1..Len(p) : SegmentMatches(pattern[1], p[i])
    ELSE MatchFrom(pattern, p)

\* Faulty variant (GapsAreDenials): an allow covers its directory's children.
AllowCoversChildren(allowPath, p) ==
  IsPrefix(allowPath, p) /\ Len(p) <= Len(allowPath) + 1

AllowCovers(allowPath, p) == IsPrefix(allowPath, p)

--------------------------------------------------------------------------------
(* The evaluation. *)

\* The allow entries of those of the user's groups the configuration names.
Entries(access, groups) ==
  UNION {access.grants[g].allow : g \in DOMAIN access.grants \cap groups}

Covering(access, groups, p) ==
  {e \in Entries(access, groups) : AllowCovers(e.path, p)}

Allowed(access, groups, p) ==
  \/ \E a \in access.globalAllow : AllowCovers(a, p)
  \/ Covering(access, groups, p) # {}

\* Faulty variant (JoiningKeepsDenials): one allow without a matching deny is
\* enough.
DeniedByEveryEntry(access, groups, p) ==
  \/ \E d \in access.globalDeny : Matches(d, p)
  \/ /\ Covering(access, groups, p) # {}
     /\ \A e \in Covering(access, groups, p) : \E d \in e.deny : Matches(d, p)

\* The global denies, and the denies of every covering entry whichever entry
\* made the path visible.
Denied(access, groups, p) ==
  \/ \E d \in access.globalDeny : Matches(d, p)
  \/ \E e \in Covering(access, groups, p) : \E d \in e.deny : Matches(d, p)

\* The root is visible as soon as any allow entry exists; below it a path
\* needs a covering allow and no deny.
Evaluate(access, groups, p) ==
  IF p = <<>>
    THEN IF access.globalAllow # {} \/ Entries(access, groups) # {}
           THEN "visible" ELSE "noAllow"
    ELSE IF ~Allowed(access, groups, p) THEN "noAllow"
    ELSE IF Denied(access, groups, p) THEN "denied"
    ELSE "visible"

IsHidden(access, groups, p) == Evaluate(access, groups, p) # "visible"

\* decode_equivalent: None when a name decodes to something no name can be, or
\* to bytes that are not text. A name that decodes to `.` stays in the path that
\* is evaluated, as a name of its own, although no lookup goes by it.
HasDecodeEquivalent(p) == \A i \in 1..Len(p) : Decoded[p[i]] \in Names
DecodeEquivalent(p) == [i \in 1..Len(p) |-> Decoded[p[i]]]

\* Faulty variant (DecodedDenialHides): only the literal form is evaluated.
IsLiteralPathVisible(access, groups, p) == ~IsHidden(access, groups, p)

IsPathVisible(access, groups, p) ==
  /\ ~IsHidden(access, groups, p)
  /\ HasDecodeEquivalent(p) => ~IsHidden(access, groups, DecodeEquivalent(p))

CanDelete(access, groups, p) ==
  /\ p # <<>>
  /\ IsPathVisible(access, groups, p)
  /\ \E g \in DOMAIN access.grants \cap groups :
       /\ access.grants[g].delete
       /\ \E e \in access.grants[g].allow : AllowCovers(e.path, p)
================================================================================
