------------------------------- MODULE CheckWalk -------------------------------
(***************************************************************************)
(* The access check of backend/src/access.rs (run_access_check): the walk  *)
(* of `backend --check-access` through the real share for one scenario of  *)
(* groups, the report it writes and the rules it found in use. Reading one *)
(* directory is one step; other programs remove entries between two steps. *)
(* Which rule caused a verdict is wording and left out: a verdict is what  *)
(* Evaluate returns. Module Startup decides when the check runs.           *)
(***************************************************************************)
EXTENDS AccessRules

CONSTANTS
  Trees,        \* shares: functions from paths below the root to a kind
  NameRank,     \* the byte order of the names
  MaxUnlinks,   \* bound on the removals by other programs
  MaxBlind      \* bound on the failing calls of file_type

Kinds == {"dir", "file", "link"}

\* Every entry of a share is in a directory.
IsShare(tree) ==
  /\ IsFiniteSet(DOMAIN tree)
  /\ \A p \in DOMAIN tree :
       /\ p \in Seq(OsNames) \ {<<>>}
       /\ Front(p) = <<>> \/ (Front(p) \in DOMAIN tree /\ tree[Front(p)] = "dir")

ASSUME TreesAssumption ==
  /\ \A tree \in Trees : IsShare(tree)
  /\ NameRank \in [Names -> Nat] /\ IsInjective(NameRank)
  /\ {MaxUnlinks, MaxBlind} \subseteq Nat

VARIABLES
  access,   \* the validated configuration the check was given
  groups,   \* the scenario
  tree,     \* the share
  walk,     \* "idle", "walking", "done" or "failed"
  queue,    \* the LIFO stack of directories to visit
  report,   \* the sections written so far, one per visited directory
  used,     \* the rules whose `used` is set
  unlinks,  \* removals so far
  blind     \* history: the paths whose file_type failed

walkVars == <<access, groups, tree, walk, queue, report, used, unlinks, blind>>

NoAccess == [globalAllow |-> {}, globalDeny |-> {}, grants |-> <<>>]

InitWalk ==
  /\ access = NoAccess /\ groups = {}
  /\ tree \in Trees
  /\ walk = "idle" /\ queue = <<>> /\ report = <<>> /\ used = {}
  /\ unlinks = 0 /\ blind = {}

--------------------------------------------------------------------------------
(* The rules of the configuration, of every grant, whoever is in it. `by`    *)
(* is the provenance in a rule's label.                                      *)

AllowRule(path, by) == [kind |-> "allow", allow |-> path, deny |-> <<>>, by |-> by]
DenyRule(pattern, by) == [kind |-> "deny", allow |-> <<>>, deny |-> pattern, by |-> by]

GrantEntries(a) ==
  UNION {{<<g, e>> : e \in a.grants[g].allow} : g \in DOMAIN a.grants}

CheckRules(a) ==
  {AllowRule(p, <<>>) : p \in a.globalAllow}
    \cup {DenyRule(d, <<>>) : d \in a.globalDeny}
    \cup {AllowRule(ge[2].path, <<ge[1]>>) : ge \in GrantEntries(a)}
    \cup UNION {{DenyRule(d, <<ge[1], ge[2].path>>) : d \in ge[2].deny}
                  : ge \in GrantEntries(a)}

\* Faulty variant (NothingHiddenSilently): an allow counts as used when the
\* walk came past an ancestor of its path.
UsedByPassing(rule, p) ==
  IF rule.kind = "allow" THEN IsPrefix(p, rule.allow) ELSE Matches(rule.deny, p)

\* An allow rule is used by a path it covers, a deny rule by a path its
\* pattern matches, inside the scope of its allow or not.
UsedBy(rule, p) ==
  IF rule.kind = "allow" THEN AllowCovers(rule.allow, p) ELSE Matches(rule.deny, p)

Unmatched == CheckRules(access) \ used

--------------------------------------------------------------------------------
(* The walk. *)

\* The check starts at the root of the share.
StartCheck(a, scenario) ==
  /\ walk = "idle"
  /\ access' = a /\ groups' = scenario
  /\ walk' = "walking"
  /\ queue' = <<(<<>>)>>
  /\ UNCHANGED <<tree, report, used, unlinks, blind>>

IsDir(p) == p = <<>> \/ (p \in DOMAIN tree /\ tree[p] = "dir")

\* Names that are not valid UTF-8 are skipped.
NamesIn(dir) == {n \in Names : Append(dir, n) \in DOMAIN tree}

\* The names in their order.
Ascending(names) ==
  CHOOSE s \in [1..Cardinality(names) -> names] :
    \A i, j \in 1..Cardinality(names) : i < j => NameRank[s[i]] < NameRank[s[j]]

Section(dir, names) ==
  [path    |-> dir,
   verdict |-> Evaluate(access, groups, dir),
   names   |-> names,
   blocked |-> Ascending({n \in names : IsHidden(access, groups, Append(dir, n))})]

\* Faulty variant (ReportIsOrdered): pushed in the order of the names.
PushAscending(dir, unknown) ==
  LET subdirs == {n \in NamesIn(dir) \ unknown : /\ IsDir(Append(dir, n))
                                                 /\ ~IsHidden(access, groups, Append(dir, n))}
  IN [i \in 1..Len(Ascending(subdirs)) |-> Append(dir, Ascending(subdirs)[i])]

\* The visible subdirectories, pushed in descending order to be popped in
\* ascending order. file_type does not follow a link, so no link is walked; where
\* it fails the entry is taken for no directory.
Push(dir, unknown) ==
  LET subdirs == {n \in NamesIn(dir) \ unknown : /\ IsDir(Append(dir, n))
                                                 /\ ~IsHidden(access, groups, Append(dir, n))}
  IN Reverse([i \in 1..Len(Ascending(subdirs)) |-> Append(dir, Ascending(subdirs)[i])])

\* The rules of the configuration that one of the paths uses. A directory
\* itself only counts for allow rules: its denies were counted when its
\* parent was read.
Marked(dir, names) ==
  {r \in CheckRules(access) :
     \/ r.kind = "allow" /\ UsedBy(r, dir)
     \/ \E n \in names : UsedBy(r, Append(dir, n))}

\* A hidden directory is reported and not read.
SkipHidden ==
  /\ walk = "walking" /\ queue # <<>>
  /\ IsHidden(access, groups, Last(queue))
  /\ report' = Append(report, Section(Last(queue), {}))
  /\ used' = used \cup Marked(Last(queue), {})
  /\ queue' = Front(queue)
  /\ UNCHANGED <<access, groups, tree, walk, unlinks, blind>>

\* The popped directory is read, and its visible subdirectories are pushed. The kind
\* of some entries may stay unknown, without a word in the report.
Visit ==
  /\ walk = "walking" /\ queue # <<>>
  /\ ~IsHidden(access, groups, Last(queue))
  /\ IsDir(Last(queue))
  /\ LET dir == Last(queue)
     IN /\ report' = Append(report, Section(dir, NamesIn(dir)))
        /\ used' = used \cup Marked(dir, NamesIn(dir))
        /\ \E unknown \in SUBSET NamesIn(dir) :
             /\ queue' = Front(queue) \o Push(dir, unknown)
             /\ blind' = blind \cup {Append(dir, n) : n \in unknown}
        /\ Cardinality(blind') <= MaxBlind
  /\ UNCHANGED <<access, groups, tree, walk, unlinks>>

\* A directory that cannot be read ends the check with an error.
Unreadable ==
  /\ walk = "walking" /\ queue # <<>>
  /\ ~IsHidden(access, groups, Last(queue))
  /\ ~IsDir(Last(queue))
  /\ walk' = "failed"
  /\ UNCHANGED <<access, groups, tree, queue, report, used, unlinks, blind>>

\* The rules that matched nothing end the report.
FinishReport ==
  /\ walk = "walking" /\ queue = <<>>
  /\ walk' = "done"
  /\ UNCHANGED <<access, groups, tree, queue, report, used, unlinks, blind>>

\* Another program removes an entry, with all there is below it.
Unlink ==
  /\ walk = "walking" /\ unlinks < MaxUnlinks
  /\ \E p \in DOMAIN tree :
       tree' = [q \in {q \in DOMAIN tree : ~IsPrefix(p, q)} |-> tree[q]]
  /\ unlinks' = unlinks + 1
  /\ UNCHANGED <<access, groups, walk, queue, report, used, blind>>

StepCheck == SkipHidden \/ Visit \/ Unreadable \/ FinishReport

--------------------------------------------------------------------------------
WalkTypeOK ==
  /\ IsAccessConfig(access)
  /\ walk \in {"idle", "walking", "done", "failed"}
  /\ \A i \in 1..Len(queue) : queue[i] \in Path
  /\ used \subseteq CheckRules(access)
  /\ unlinks \in 0..MaxUnlinks

Evaluated(p) ==
  \E i \in 1..Len(report) :
    \/ p = report[i].path
    \/ p # <<>> /\ Front(p) = report[i].path /\ Last(p) \in report[i].names

(* A directory listed as blocked is not walked: "everything underneath is    *)
(* blocked by the same verdict" (access.rs, run_access_check). That is not   *)
(* so when an allow of the scenario names a path further down, but the       *)
(* report does not keep it to itself: every path of the share that is        *)
(* visible and that the walk never looked at is covered by an allow rule     *)
(* that the report names as having matched nothing. That is all the report   *)
(* keeps silent about, but for one thing: what is below an entry whose       *)
(* file_type failed (unwrap_or(false)) is left out and no rule says so.      *)
NothingHiddenSilently ==
  walk = "done" =>
    \A p \in DOMAIN tree \cap Path :
      (/\ ~IsHidden(access, groups, p) /\ ~Evaluated(p)
       /\ \A b \in blind : ~IsPrefix(b, p))
        => \E r \in Unmatched :
             /\ r.kind = "allow"
             /\ AllowCovers(r.allow, p)
             /\ r.by = <<>> \/ Head(r.by) \in groups

\* The order of the paths name by name, a directory before what is in it.
PathBefore(p, q) ==
  \/ IsStrictPrefix(p, q)
  \/ \E i \in 1..Len(p) :
       /\ i <= Len(q)
       /\ SubSeq(p, 1, i - 1) = SubSeq(q, 1, i - 1)
       /\ NameRank[p[i]] < NameRank[q[i]]

(* The report is stable regardless of readdir order (access.rs): the stack   *)
(* and its reversed pushes write each directory once, every directory before *)
(* what is in it and siblings with all they contain in the order of their    *)
(* names, whatever disappears meanwhile.                                     *)
ReportIsOrdered ==
  \A i, j \in 1..Len(report) : i < j => PathBefore(report[i].path, report[j].path)
================================================================================
