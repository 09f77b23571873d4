------------------------------ MODULE AccessWalk -------------------------------
(***************************************************************************)
(* A user's walk through the share under one access configuration: the     *)
(* listing leads from a path to a child of it or back to its parent, and a *)
(* new login can bring one more group. What the evaluation of AccessRules  *)
(* may never do along such a walk.                                         *)
(***************************************************************************)
EXTENDS AccessRules

CONSTANTS
  Configs,   \* the validated configurations the walk starts from
  MaxDepth   \* bound on the length of a path

ASSUME ConfigsAssumption == \A access \in Configs : IsAccessConfig(access)
ASSUME MaxDepthAssumption == MaxDepth \in Nat

VARIABLES
  access,  \* the process-wide configuration, never changed after startup
  groups,  \* the groups of the session
  path     \* the request path reached

vars == <<access, groups, path>>

TypeOK ==
  /\ access \in Configs
  /\ groups \subseteq Groups
  /\ path \in Path

Init ==
  /\ access \in Configs
  /\ groups = {}
  /\ path = <<>>

\* The child path of a listed entry: the directory's path, `/`, the name. No
\* entry has the name `.`.
Descend(name) ==
  /\ Len(path) < MaxDepth /\ name # Dot
  /\ path' = Append(path, name)
  /\ UNCHANGED <<access, groups>>

\* parent_path: the listing leads back up, never above the root.
Ascend ==
  /\ path # <<>>
  /\ path' = Front(path)
  /\ UNCHANGED <<access, groups>>

\* The claim of the next login names one more group.
Join(group) ==
  /\ group \notin groups
  /\ groups' = groups \cup {group}
  /\ UNCHANGED <<access, path>>

Next ==
  \/ \E name \in Names : Descend(name)
  \/ Ascend
  \/ \E group \in Groups : Join(group)

Spec == Init /\ [][Next]_vars

--------------------------------------------------------------------------------
IsDenied == Evaluate(access, groups, path) = "denied"
Descended == Len(path') > Len(path)

(* A denied path hides everything underneath it (access.rs, the comments on  *)
(* AccessConfig and match_from): no descent from a denied path reaches one   *)
(* that is not denied, whichever rule and whichever allow applies below.     *)
DenialInherited == [][Descended /\ IsDenied => IsDenied']_vars

(* A deny wins regardless of which covering allow made the path visible      *)
(* (access.rs, evaluate): one more group can reveal a path no allow covered, *)
(* but never one that a deny hid.                                            *)
JoiningKeepsDenials == [][groups' # groups /\ IsDenied => IsDenied']_vars

(* An allow covers its whole subtree: below the root a visible path has no   *)
(* child that is hidden for want of an allow, so every gap in a listing is a *)
(* deny.                                                                     *)
GapsAreDenials ==
  [][/\ Descended /\ path # <<>>
     /\ Evaluate(access, groups, path) = "visible"
     => Evaluate(access, groups, path)' # "noAllow"]_vars

(* The decoded form counts as much as the literal one (access.rs,            *)
(* is_path_visible): as long as every name decodes to text, a deny on the    *)
(* decoded form of any ancestor hides the path.                              *)
DecodedDenialHides ==
  HasDecodeEquivalent(path) =>
    \A k \in 1..Len(path) :
      Evaluate(access, groups, SubSeq(DecodeEquivalent(path), 1, k)) = "denied"
        => ~IsPathVisible(access, groups, path)
================================================================================
