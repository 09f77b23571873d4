-------------------------------- MODULE MCAccess --------------------------------
(* The evaluation along a user's walk, and the matchers it rests on. While the   *)
(* user stands at the root without a group, a pattern and a subject may grow; the *)
(* configuration has no part in that, so it is the same one for all of them.     *)
EXTENDS AccessWalk, GlobMatch

MCNames == {"tv", "dev", "nfo", "%nfo", "%2F", "%2E", "."}
MCGroups == {"viewers", "devs"}
MCDoubleStar == "**"
\* "n*" matches "nfo"; a literal segment matches itself; "?" matches "."; "**"
\* alone is a glob that matches every name.
MCGlobs == {"tv", "dev", "nfo", "n*", "?", "**"}
MCSegmentMatch ==
  {<<n, n>> : n \in {"tv", "dev", "nfo"}} \cup {<<"n*", "nfo">>, <<"?", ".">>}
    \cup {<<"**", n>> : n \in MCNames}
\* "%nfo" stands for a spelling of "nfo" with an escape in it.
MCDecoded ==
  [n \in MCNames |->
    CASE n = "%nfo" -> "nfo" [] n = "%2F" -> Slash [] n = "%2E" -> "." [] OTHER -> n]

NoDeny(p) == [path |-> p, deny |-> {}]

MCConfigs == {
  \* The example of the feature document: a baseline, global denies, denies
  \* scoped to one allow entry.
  [globalAllow |-> {<<"dev">>},
   globalDeny |-> {<<"nfo">>},
   grants |-> "viewers" :> [delete |-> TRUE, allow |-> {NoDeny(<<"tv">>)}]],
  \* Two groups cover the same subtree, one of them with denies.
  [globalAllow |-> {},
   globalDeny |-> {},
   grants |->
     ("viewers" :> [delete |-> FALSE, allow |-> {NoDeny(<<"tv">>)}]) @@
     ("devs" :> [delete |-> TRUE,
                 allow |-> {[path |-> <<>>,
                             deny |-> {<<"tv", "**", "nfo">>, <<"dev", "**">>}],
                            NoDeny(<<"dev", "tv">>)}])],
  \* Root allow with an anchored deny of a directory and an unanchored glob.
  [globalAllow |-> {<<>>},
   globalDeny |-> {<<"tv", "dev">>, <<"**", "dev", "n*">>},
   grants |->
     ("devs" :> [delete |-> TRUE,
                 allow |-> {[path |-> <<"dev">>, deny |-> {<<"n*">>}]}])]
}

\* Two letters of two bytes that begin alike, and one of one byte.
MCBytes == {"61", "c3", "a9", "a8"}
MCChars == {"a", "eAcute", "eGrave"}
MCEncoding ==
  ("a" :> <<"61">>) @@ ("eAcute" :> <<"c3", "a9">>) @@ ("eGrave" :> <<"c3", "a8">>)

MCInit == Init /\ MatchInit
MCNext ==
  \/ pattern = <<>> /\ subject = <<>> /\ level = "bytes" /\ Next /\ UNCHANGED matchVars
  \/ path = <<>> /\ groups = {} /\ access.globalAllow = {} /\ MatchNext /\ UNCHANGED vars
MCSpec == MCInit /\ [][MCNext]_<<vars, matchVars>>
================================================================================
