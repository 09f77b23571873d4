----------------------------- MODULE MCFileService -----------------------------
EXTENDS FileService

\* "r" stands for a name that is not valid UTF-8: the listing shows it as "%r".
\* "%s" is text whose escape decodes to other text, "%." the text `%2E`. "a " is
\* a name that ends with a blank, "a|" one with a backslash in it.
MCNames == {"d", "a", "s", "%s", "%r", "out", "lnk", ".", "%.", "a ", "a|"}
MCOsNames == MCNames \cup {"share", "r"}
MCRender == [n \in MCOsNames |-> IF n = "r" THEN "%r" ELSE IF n = "share" THEN "d" ELSE n]
MCDecoded ==
  [n \in MCNames |-> CASE n = "%r" -> "r" [] n = "%s" -> "s" [] n = "%." -> "."
                       [] n = "a|" -> Slash [] OTHER -> n]
MCTrimStart == [n \in Segments |-> n]
MCTrimEnd == [n \in Segments |-> IF n = "a " THEN "a" ELSE n]

MCGroups == {"devs"}
MCSegmentMatch == {<<"s", "s">>}
MCAccess ==
  [globalAllow |-> {<<>>},
   globalDeny |-> {<<"s">>},
   grants |-> "devs" :> [delete |-> TRUE, allow |-> {[path |-> <<"d">>, deny |-> {}]}]]

MCRoot == <<"share">>
InD(n) == <<"share", "d", n>>
MCLocs == {<<"out">>, <<"share", "d">>, <<"share", "lnk">>} \cup {InD(n) : n \in {"a", "r", "s"}}

CONSTANTS D, A1, R1, S1, L1, O1, P1, E1

MCKind ==
  [f \in Files |-> CASE f = D -> "dir" [] f = L1 -> "link" [] f = P1 -> "fifo" [] OTHER -> "file"]
MCTarget == [f \in {L1} \cap Files |-> <<"out">>]
MCIno == [f \in Files |-> f]

Share(held) == [l \in MCLocs |-> IF l \in DOMAIN held THEN held[l] ELSE None]

MCShares == {
  Share((<<"out">> :> O1) @@ (<<"share", "d">> :> D) @@ (<<"share", "lnk">> :> L1)
        @@ (InD("a") :> A1) @@ (InD("r") :> R1) @@ (InD("s") :> S1))}

MCEnvLocs == {InD("a"), InD("r")}

Ask(op, path, groups) == [op |-> op, path |-> path, groups |-> groups]
MCRequests ==
  LET gets == {<<"d", "a">>, <<"d", "%r">>, <<"d", "%s">>, <<"lnk">>}
  IN [r \in Reqs |-> {Ask("get", p, {}) : p \in gets}
       \cup {Ask("delete", p, {"devs"}) : p \in {<<"d", "a">>, <<"d", "%r">>}}
       \cup {Ask("get", UpPath, {}), Ask("delete", BadPath, {"devs"})}
       \cup {Ask("get", <<"d", "%.", "a">>, {})}]

\* Every task can be asked the same.
MCSymmetry == Permutations(Reqs)

\* One task lists the directory, the others change it. Of its entries only "a"
\* can be deleted by the members of "devs", and by a request for "a " too.
CONSTANT Lister
MCListAccess ==
  [MCAccess EXCEPT !.grants =
    "devs" :> [delete |-> TRUE, allow |-> {[path |-> <<"d", "a">>, deny |-> {}]}]]
MCListEnvLocs == {InD("a")}
MCListRequests ==
  [r \in Reqs |->
    IF r = Lister THEN {Ask("list", <<"d">>, {"devs"})}
    ELSE {Ask("delete", <<"d", n>>, {"devs"}) : n \in {"a", "%r", "a ", "a|"}}
           \cup {Ask("get", <<"d", "a">>, {})}]
MCListLocs == MCLocs \cup {InD("a ")}
MCListShares == {[l \in MCListLocs |-> IF l = InD("a ") THEN E1 ELSE s[l]] : s \in MCShares}

\* The listing shows a file "%s" and a file "s"; both can be deleted.
MCNamedLocs == MCLocs \cup {InD("%s")}
MCNamedShares == {[l \in MCNamedLocs |-> IF l = InD("%s") THEN E1 ELSE s[l]] : s \in MCShares}
MCNamedAccess == [MCAccess EXCEPT !.globalDeny = {}]
MCNamedRequests == [r \in Reqs |-> {Ask("delete", <<"d", "%s">>, {"devs"})}]

\* A deny of "d/s" and a request that reaches "d/s" as "d/%./s".
MCDotAccess == [MCAccess EXCEPT !.globalDeny = {<<"d", "s">>}]
MCDotSegmentMatch == MCSegmentMatch \cup {<<"d", "d">>}
MCDotRequests ==
  [r \in Reqs |-> {Ask("get", p, {}) : p \in {<<"d", "s">>, <<"d", "%s">>, <<"d", "%.", "s">>}}]

ASSUME LinksAssumption == NoNewLinks
ASSUME NamesShownAssumption == ShownNamesApart
================================================================================
