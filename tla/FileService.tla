------------------------------ MODULE FileService ------------------------------
(***************************************************************************)
(* The three data endpoints of backend/src/lib.rs (directory, download,    *)
(* delete_file) behind the access gate, serving concurrent requests over a *)
(* share that other programs change at the same time. Every system call    *)
(* that the code awaits is a step of its own, so the share can change      *)
(* between any two of them.                                                *)
(*                                                                         *)
(* The share is a map from absolute locations (sequences of names) to the  *)
(* files, directories, links and pipes found there. The requests arrive    *)
(* with an authenticated session: its groups are part of the request.      *)
(***************************************************************************)
EXTENDS AccessRules

CONSTANTS
  Reqs,        \* the requests, as handled by tasks of the server
  Requests,    \* what each of them can be asked
  BadPath,     \* a path with a backslash, a NUL or a leading `/`
  UpPath,      \* a path with a `..` component
  Blank,       \* what is left of a name that was white space
  TrimStart, TrimEnd,  \* a name without the white space it begins, or ends, with
  Backslashed, \* the names that hold a backslash
  Access,      \* the validated access configuration
  Render,      \* how the listing spells the name of an entry
  DotNames,    \* the names that start with a dot
  ShowHidden,  \* the configuration's showHidden
  Root,        \* the canonical location of the shared root
  Locs,        \* the locations below and beside the root that can hold an entry
  Files,       \* every file, directory, link and pipe there ever is
  Kind,        \* "file", "dir", "link" or "fifo" of each of them
  Target,      \* where a link points
  Ino,         \* the device and inode number of each of them
  RootDir,     \* the directory at Root and at its ancestors
  None,        \* no file
  Missing, Broken,  \* a lookup fails with NotFound; with any other error
  MaxHops,     \* links followed before a lookup gives up
  Shares,      \* the initial contents of the share
  EnvLocs,     \* where other programs change the share
  Workers,     \* the threads of the runtime's blocking pool
  Faults       \* whether system calls can fail for other reasons

Ops == {"list", "get", "delete"}
Request == [op : Ops, path : Path \cup {BadPath, UpPath}, groups : SUBSET Groups]

\* The text of a path is taken without its empty and `.` segments.
PathText == Seq(Names \ {Dot})
TextRequest == [op : Ops, path : PathText \cup {BadPath, UpPath}, groups : SUBSET Groups]
Segments == Names \cup {Blank, DotDot}

Kinds == {"file", "dir", "link", "fifo"}
AboveRoot == {SubSeq(Root, 1, i) : i \in 0..Len(Root)}
Places == Locs \cup AboveRoot

\* Hard links are not modelled: a file has one name at a time.
HasOneName(share) ==
  \A l, k \in Locs : share[l] = share[k] => share[l] = None \/ l = k

ASSUME ShareAssumption ==
  /\ Requests \in [Reqs -> SUBSET TextRequest]
  /\ BadPath \notin Path /\ UpPath \notin Path
  /\ Blank \notin OsNames \cup {DotDot}
  /\ TrimStart \in [Segments -> Segments] /\ TrimEnd \in [Segments -> Segments]
  /\ Backslashed \subseteq Names
  /\ Render \in [OsNames -> Names]
  /\ \A n \in OsNames \ {Dot} : Render[n] # Dot
  /\ Root \in Seq(OsNames)
  /\ Locs \subseteq Seq(OsNames)
  /\ \A l \in Places : \A i \in 1..Len(l) : l[i] # Dot
  /\ \A l \in Locs : l # <<>> /\ Front(l) \in Places /\ l \notin AboveRoot
  /\ Kind \in [Files -> Kinds]
  /\ Target \in [{f \in Files : Kind[f] = "link"} -> Seq(OsNames)]
  /\ DOMAIN Ino = Files
  /\ RootDir \notin Files /\ None \notin Files \cup {RootDir} /\ None \notin Request
  /\ {Missing, Broken} \cap Seq(OsNames) = {} /\ Missing # Broken
  /\ MaxHops \in Nat
  /\ Shares \subseteq [Locs -> Files \cup {None}]
  /\ \A share \in Shares : HasOneName(share)
  /\ EnvLocs \subseteq Locs
  /\ Workers \in Nat \ {0}
  /\ Faults \in BOOLEAN

\* What a share holds at a location. Every entry is in a directory.
NodeIn(share, l) ==
  IF l \in AboveRoot THEN RootDir ELSE IF l \in Locs THEN share[l] ELSE None
IsKind(node, kind) == node \in Files /\ Kind[node] = kind
IsTree(share) ==
  \A l \in Locs : share[l] # None =>
    NodeIn(share, Front(l)) = RootDir \/ IsKind(NodeIn(share, Front(l)), "dir")

ASSUME TreeAssumption == \A share \in Shares : IsTree(share)

VARIABLES
  fs,     \* what each location holds
  fresh,  \* the files that do not exist yet
  req,    \* the state of each request's handler
  scan    \* the state of each listing's directory stream

vars == <<fs, fresh, req, scan>>

--------------------------------------------------------------------------------
(* Lookups. *)

NodeAt(l) == NodeIn(fs, l)
IsDir(l) == NodeAt(l) = RootDir \/ IsKind(NodeAt(l), "dir")

\* canonicalize: the location a path leads to once every link in it is
\* followed. A missing component is NotFound; a component below something that
\* is no directory, or too many links, is another error; `.` is the directory
\* reached. A walk along a path has reached a location, has the rest before it
\* and may follow so many links yet.
Walks == [hops : 0..MaxHops, at : Seq(OsNames), rest : Seq(OsNames)]

Follow[w \in Walks] ==
  LET next == Append(w.at, Head(w.rest))
      rest == Tail(w.rest)
  IN IF w.rest = <<>> THEN w.at
     ELSE IF Head(w.rest) = Dot THEN Follow[[w EXCEPT !.rest = rest]]
     ELSE IF IsDir(next) THEN Follow[[w EXCEPT !.at = next, !.rest = rest]]
     ELSE IF NodeAt(next) = None THEN Missing
     ELSE IF IsKind(NodeAt(next), "link")
       THEN IF w.hops = 0 THEN Broken
            ELSE Follow[[hops |-> w.hops - 1, at |-> <<>>,
                         rest |-> Target[NodeAt(next)] \o rest]]
     ELSE IF rest = <<>> THEN next ELSE Broken

Resolve(p) == Follow[[hops |-> MaxHops, at |-> <<>>, rest |-> p]]

\* The entry of a directory, its own links not followed (symlink_metadata,
\* remove_file).
Entry(dir, name) ==
  LET d == Resolve(dir)
  IN IF d \in {Missing, Broken} THEN d
     ELSE IF ~IsDir(d) THEN Broken
     ELSE IF name = Dot THEN d
     ELSE IF NodeAt(Append(d, name)) = None THEN Missing
     ELSE Append(d, name)

Children(share, dir) == {n \in OsNames : NodeIn(share, Append(dir, n)) # None}

WithinRoot(l) == IsPrefix(Root, l)

\* percent_decode_relative_path: the first name that cannot be decoded decides
\* how the request is refused.
\* Faulty variant (RowReopens) of DecodedPath: an encoded name stays encoded.
EncodedPath(p) == p

Refusals(p) == {i \in 1..Len(p) : Decoded[p[i]] \in Undecodable}
DecodedPath(p) == [i \in 1..Len(p) |-> Decoded[p[i]]]
Refusal(p) == IF Decoded[p[Min(Refusals(p))]] = Slash THEN "badRequest" ELSE "notFound"

\* validate_relative_path: the text is trimmed, which changes its first and last
\* segments only; one of them that becomes empty or `.` is dropped, unless the
\* text then begins with a `/`.
Trimmed(text) ==
  [i \in 1..Len(text) |->
     LET n == IF i = 1 THEN TrimStart[text[i]] ELSE text[i]
     IN IF i = Len(text) THEN TrimEnd[n] ELSE n]

DropFirst(t) == IF t # <<>> /\ Head(t) = Dot THEN Tail(t) ELSE t
DropLast(t) == IF t # <<>> /\ Last(t) \in {Dot, Blank} THEN Front(t) ELSE t

ValidPath(text) ==
  LET t == Trimmed(text)
  IN IF text \in {BadPath, UpPath} THEN text
     ELSE IF (Len(t) > 1 /\ t[1] = Blank) \/ \E i \in 1..Len(t) : t[i] \in Backslashed
       THEN BadPath
     ELSE IF \E i \in 1..Len(t) : t[i] = DotDot THEN UpPath
     ELSE DropLast(DropFirst(t))

\* The gate and the handlers know a request by its validated path.
Validated(call) == [op |-> call.op, path |-> ValidPath(call.path), groups |-> call.groups]

--------------------------------------------------------------------------------
(* Handlers. *)

Statuses == {"pending", "served", "noContent", "listed", "badRequest",
             "forbidden", "notFound", "unavailable", "none"}

\* Where a handler waits for a system call; each is left by one step below. At
\* "blocked" an open waits for the writer of a pipe, on a thread it keeps. An
\* "orphan" is a call handed to the pool whose client has left before it began;
\* "held" is what is left of a blocked open whose client has left.
Calls == {"canon", "canonDecoded", "stat", "open", "verify", "isDir", "lstat",
          "lstatDecoded", "unlink", "readDir", "next", "entryCanon", "entryMeta"}
PCs == Calls \cup {"idle", "blocked", "orphan", "held", "done", "dropped"}

Idle == [call |-> None, pc |-> "idle", status |-> "pending", decoded |-> FALSE,
         at |-> Root, name |-> None, known |-> None, file |-> None, source |-> None]

NoScan == [home |-> Root, dir |-> None, may |-> {}, must |-> {}, seen |-> {},
           lost |-> {}, item |-> None, spot |-> Root, rows |-> {}]

Become(r, state) == req' = [req EXCEPT ![r] = state]
Goto(r, pc) == Become(r, [req[r] EXCEPT !.pc = pc])
\* What is left of a handler that is over: the request, the answer, and the
\* file that was served or removed.
Over(r, pc, status, file, source) ==
  Become(r, [Idle EXCEPT !.call = req[r].call, !.pc = pc, !.status = status,
                         !.file = file, !.source = source])
Answer(r, status) == Over(r, "done", status, None, None)

At(r, pc) == req[r].pc = pc
Asked(r) == req[r].call.path

\* Every system call needs a thread of the blocking pool while it runs.
WorkerFree == Cardinality({r \in Reqs : req[r].pc \in {"blocked", "held"}}) < Workers

\* The location whose canonical form the handler needs first: the directory or
\* file itself, or the directory of the file to delete.
Sought(r) == IF req[r].call.op = "delete" THEN Front(Asked(r)) ELSE Asked(r)

\* Faulty variant (TakesEffectAtOnce): downloads pass beside the gate.
ScreenUngated(call) ==
  IF call.path \in {BadPath, <<>>} THEN "badRequest"
  ELSE IF call.path = UpPath THEN "notFound"
  ELSE IF call.op # "get" /\ ~IsPathVisible(Access, call.groups, call.path) THEN "notFound"
  ELSE IF call.op = "delete" /\ ~CanDelete(Access, call.groups, call.path)
    THEN "forbidden"
  ELSE "pending"

\* What the gate and the handler decide before their first system call.
Screen(call) ==
  IF call.path = BadPath THEN "badRequest"
  ELSE IF call.path = UpPath THEN "notFound"
  ELSE IF ~IsPathVisible(Access, call.groups, call.path) THEN "notFound"
  ELSE IF call.path = <<>> /\ call.op # "list" THEN "badRequest"
  ELSE IF call.op = "delete" /\ ~CanDelete(Access, call.groups, call.path)
    THEN "forbidden"
  ELSE "pending"

\* A task that is done, or whose client has left, is free for another request.
Arrive(r, call) ==
  /\ req[r].pc \in {"idle", "done", "dropped"}
  /\ LET valid == Validated(call)
         verdict == Screen(valid)
     IN Become(r, [Idle EXCEPT !.call = valid, !.status = verdict,
                               !.pc = IF verdict = "pending" THEN "canon" ELSE "done"])
  /\ scan' = [scan EXCEPT ![r] = NoScan]
  /\ UNCHANGED <<fs, fresh>>

\* Faulty variant (StaysInRoot): the canonical location is not checked.
ResolvedAnywhere(r, l, decoded) ==
  Become(r, [req[r] EXCEPT !.at = l, !.decoded = decoded,
                    !.pc = IF req[r].call.op = "get" THEN "stat" ELSE "isDir"])

\* ensure_within_root follows the canonicalization without a step between.
Resolved(r, l, decoded) ==
  IF WithinRoot(l)
    THEN Become(r, [req[r] EXCEPT !.at = l, !.decoded = decoded,
                      !.pc = IF req[r].call.op = "get" THEN "stat" ELSE "isDir"])
    ELSE Answer(r, "notFound")

\* canonical_entry_target: the literal form first, the decoded form of the
\* whole path when the literal one does not exist.
Canonicalize(r) ==
  LET l == Resolve(Root \o Sought(r))
  IN /\ At(r, "canon")
     /\ \/ l \in Places /\ Resolved(r, l, FALSE)
        \/ /\ l = Missing
           /\ IF Refusals(Sought(r)) = {} THEN Goto(r, "canonDecoded")
              ELSE Answer(r, Refusal(Sought(r)))
        \/ l = Broken /\ Answer(r, "unavailable")
     /\ UNCHANGED <<fs, fresh, scan>>

\* Faulty variant (EventuallyAnswered): the literal form is tried once more.
CanonicalizeAgain(r) ==
  LET l == Resolve(Root \o DecodedPath(Sought(r)))
  IN /\ At(r, "canonDecoded")
     /\ \/ l \in Places /\ Resolved(r, l, TRUE)
        \/ l \notin Places /\ Goto(r, "canon")
     /\ UNCHANGED <<fs, fresh, scan>>

CanonicalizeDecoded(r) ==
  LET l == Resolve(Root \o DecodedPath(Sought(r)))
  IN /\ At(r, "canonDecoded")
     /\ \/ l \in Places /\ Resolved(r, l, TRUE)
        \/ l = Missing /\ Answer(r, "notFound")
        \/ l = Broken /\ Answer(r, "unavailable")
     /\ UNCHANGED <<fs, fresh, scan>>

--------------------------------------------------------------------------------
(* download: open_download_target. *)

Stat(r) ==
  LET l == Resolve(req[r].at)
  IN /\ At(r, "stat")
     /\ \/ /\ l \in Places
           /\ Become(r, [req[r] EXCEPT !.known = NodeAt(l), !.pc = "open"])
        \/ l = Missing /\ Answer(r, "notFound")
        \/ l = Broken /\ Answer(r, "unavailable")
     /\ UNCHANGED <<fs, fresh, scan>>

Opened(r, l, pc) ==
  Become(r, [req[r] EXCEPT !.file = NodeAt(l), !.source = l, !.pc = pc])

\* The open of a pipe blocks until a writer opens it too.
Open(r) ==
  LET l == Resolve(req[r].at)
  IN /\ At(r, "open")
     /\ \/ l \in Places /\ Opened(r, l, IF IsKind(NodeAt(l), "fifo") THEN "blocked" ELSE "verify")
        \/ l = Missing /\ Answer(r, "notFound")
        \/ l = Broken /\ Answer(r, "unavailable")
     /\ UNCHANGED <<fs, fresh, scan>>

\* An open that was handed to the pool runs although the client has left.
OpenLate(r) ==
  LET l == Resolve(req[r].at)
  IN /\ At(r, "orphan") /\ req[r].call.op = "get"
     /\ Over(r, IF l \in Places /\ IsKind(NodeAt(l), "fifo") THEN "held" ELSE "dropped",
             "none", None, None)
     /\ UNCHANGED <<fs, fresh, scan>>

WriterOpens(r) ==
  /\ \/ At(r, "blocked") /\ Goto(r, "verify")
     \/ At(r, "held") /\ Over(r, "dropped", "none", None, None)
  /\ UNCHANGED <<fs, fresh, scan>>

SameInode(f, g) == {f, g} \subseteq Files /\ Ino[f] = Ino[g]

\* Served (200, 206, 304 or 416, all decided from the handle) only when the
\* handle is the regular file that was there before the open.
Verify(r) ==
  /\ At(r, "verify")
  /\ IF IsKind(req[r].file, "file") /\ SameInode(req[r].file, req[r].known)
       THEN Become(r, [req[r] EXCEPT !.pc = "done", !.status = "served"])
       ELSE Answer(r, "notFound")
  /\ UNCHANGED <<fs, fresh, scan>>

--------------------------------------------------------------------------------
(* The share changes. *)

\* What the directory streams may and must still return: an entry that was
\* there at some time since the stream was opened, one that was there, and the
\* same, all the time.
Track ==
  scan' = [r \in Reqs |->
    IF scan[r].dir = None THEN scan[r]
    ELSE IF NodeIn(fs', scan[r].home) # scan[r].dir
      THEN [scan[r] EXCEPT !.must = {}]
    ELSE [scan[r] EXCEPT
            !.may = @ \cup Children(fs', scan[r].home),
            !.must = {n \in @ : NodeIn(fs', Append(scan[r].home, n))
                                   = NodeAt(Append(scan[r].home, n))}]]

ChangeShare(share) == fs' = share /\ Track

--------------------------------------------------------------------------------
(* delete_file. *)

\* `is_dir` answers false for any error.
CheckDirectory(r) ==
  /\ At(r, "isDir")
  /\ IF Resolve(req[r].at) \in Places /\ IsDir(Resolve(req[r].at))
       THEN Goto(r, IF req[r].call.op = "list" THEN "readDir" ELSE "lstat")
       ELSE Answer(r, "notFound")
  /\ UNCHANGED <<fs, fresh, scan>>

\* entry_metadata found an entry: only a regular file goes on to the removal.
Found(r, l, name) ==
  IF IsKind(NodeAt(l), "file")
    THEN Become(r, [req[r] EXCEPT !.known = NodeAt(l), !.name = name, !.pc = "unlink"])
    ELSE Answer(r, "badRequest")

Lstat(r) ==
  LET name  == Last(Asked(r))
      entry == Entry(req[r].at, name)
  IN /\ At(r, "lstat")
     /\ \/ entry \in Places /\ Found(r, entry, name)
        \/ /\ entry = Missing
           /\ IF Decoded[name] \in Undecodable THEN Answer(r, Refusal(<<name>>))
              ELSE Goto(r, "lstatDecoded")
        \/ entry = Broken /\ Answer(r, "unavailable")
     /\ UNCHANGED <<fs, fresh, scan>>

LstatDecoded(r) ==
  LET name  == Decoded[Last(Asked(r))]
      entry == Entry(req[r].at, name)
  IN /\ At(r, "lstatDecoded")
     /\ \/ entry \in Places /\ Found(r, entry, name)
        \/ entry = Missing /\ Answer(r, "notFound")
        \/ entry = Broken /\ Answer(r, "unavailable")
     /\ UNCHANGED <<fs, fresh, scan>>

\* Faulty variant (RemovalAccounted): a file that is already gone counts as
\* deleted.
ConcludeGone(r, status, file, source) ==
  IF At(r, "orphan") THEN Over(r, "dropped", "none", file, source)
  ELSE Over(r, "done", IF status = "notFound" THEN "noContent" ELSE status, file, source)

\* An orphan is a removal whose handler is gone: it takes effect unanswered.
Conclude(r, status, file, source) ==
  IF At(r, "orphan") THEN Over(r, "dropped", "none", file, source)
  ELSE Over(r, "done", status, file, source)

\* remove_file removes whatever is at the name now, unless it is a directory.
Unlink(r) ==
  LET entry == Entry(req[r].at, req[r].name)
  IN /\ req[r].pc \in {"unlink", "orphan"} /\ req[r].call.op = "delete"
     /\ \/ /\ NodeAt(entry) \in Files /\ ~IsDir(entry)
           /\ ChangeShare([fs EXCEPT ![entry] = None])
           /\ Conclude(r, "noContent", NodeAt(entry), entry)
        \/ /\ entry = Missing
           /\ Conclude(r, "notFound", None, None)
           /\ UNCHANGED <<fs, scan>>
        \/ /\ entry = Broken \/ (entry \in Places /\ IsDir(entry))
           /\ Conclude(r, "unavailable", None, None)
           /\ UNCHANGED <<fs, scan>>
     /\ UNCHANGED fresh

--------------------------------------------------------------------------------
(* directory. *)

\* Entries that a listing has to show if they stay: files and directories.
Plain(share, dir) ==
  {n \in OsNames : NodeIn(share, Append(dir, n)) \in {f \in Files : Kind[f] \in {"file", "dir"}}}

ReadDir(r) ==
  LET l == Resolve(req[r].at)
  IN /\ At(r, "readDir")
     /\ IF l \in Places /\ IsDir(l)
          THEN /\ scan' = [scan EXCEPT ![r] =
                     [NoScan EXCEPT !.home = l, !.dir = NodeAt(l),
                                    !.may = Children(fs, l), !.must = Plain(fs, l)]]
               /\ Goto(r, "next")
          ELSE Answer(r, "unavailable") /\ UNCHANGED scan
     /\ UNCHANGED <<fs, fresh>>

ChildPath(r, n) == Append(Asked(r), Render[n])

Shown(r, n) ==
  /\ ShowHidden \/ Render[n] \notin DotNames
  /\ IsPathVisible(Access, req[r].call.groups, ChildPath(r, n))

\* The stream yields an entry; the filters come before any system call on it.
NextEntry(r) ==
  /\ At(r, "next")
  /\ \E n \in scan[r].may \ scan[r].seen :
       IF Shown(r, n)
         THEN /\ scan' = [scan EXCEPT ![r].seen = @ \cup {n}, ![r].item = n]
              /\ Goto(r, "entryCanon")
         ELSE /\ scan' = [scan EXCEPT ![r].seen = @ \cup {n}]
              /\ UNCHANGED req
  /\ UNCHANGED <<fs, fresh>>

\* The stream ends once nothing it owes is left; the sorted rows are sent.
EndOfDirectory(r) ==
  /\ At(r, "next")
  /\ scan[r].must \subseteq scan[r].seen
  /\ scan' = [scan EXCEPT ![r].dir = None, ![r].may = {}, ![r].seen = {}]
  /\ Answer(r, "listed")
  /\ UNCHANGED <<fs, fresh>>

\* Faulty variant (ListingComplete): an entry that is gone ends the loop.
CanonicalizeEntryOrEnd(r) ==
  LET l == Resolve(Append(req[r].at, scan[r].item))
  IN /\ At(r, "entryCanon")
     /\ IF l \in Places /\ WithinRoot(l)
          THEN Goto(r, "entryMeta") /\ scan' = [scan EXCEPT ![r].spot = l]
          ELSE Answer(r, "listed") /\ scan' = [scan EXCEPT ![r].dir = None]
     /\ UNCHANGED <<fs, fresh>>

\* An entry that cannot be resolved, or that leads out of the root, is skipped.
CanonicalizeEntry(r) ==
  LET l == Resolve(Append(req[r].at, scan[r].item))
  IN /\ At(r, "entryCanon")
     /\ IF l \in Places /\ WithinRoot(l)
          THEN Goto(r, "entryMeta") /\ scan' = [scan EXCEPT ![r].spot = l]
          ELSE Goto(r, "next") /\ scan' = [scan EXCEPT ![r].item = None]
     /\ UNCHANGED <<fs, fresh>>

\* Faulty variant (ListingAgreesWithDelete): any grant that allows deletion.
RowAnyGrant(r, node) ==
  LET n == scan[r].item
      isDir == node = RootDir \/ IsKind(node, "dir")
  IN [entry |-> n, name |-> Render[n], file |-> node,
      kind |-> IF isDir THEN "dir" ELSE "file",
      canDelete |-> ~isDir /\ \E g \in DOMAIN Access.grants \cap req[r].call.groups :
                                 Access.grants[g].delete]

\* Faulty variant (TypeOK): the name of the row is not rendered.
RowUnrendered(r, node) ==
  [entry |-> scan[r].item, name |-> scan[r].item, file |-> node,
   kind |-> IF IsKind(node, "dir") THEN "dir" ELSE "file", canDelete |-> FALSE]

Row(r, node) ==
  LET n == scan[r].item
      isDir == node = RootDir \/ IsKind(node, "dir")
  IN [entry |-> n, name |-> Render[n], file |-> node,
      kind |-> IF isDir THEN "dir" ELSE "file",
      canDelete |-> ~isDir /\ CanDelete(Access, req[r].call.groups, ChildPath(r, n))]

StatEntry(r) ==
  LET l == Resolve(scan[r].spot)
  IN /\ At(r, "entryMeta")
     /\ Goto(r, "next")
     /\ scan' = [scan EXCEPT ![r].item = None, ![r].spot = Root,
            ![r].rows = IF l \in Places THEN @ \cup {Row(r, NodeAt(l))} ELSE @]
     /\ UNCHANGED <<fs, fresh>>

--------------------------------------------------------------------------------
(* Failures. *)

\* A system call fails for a reason of its own: no permission, an I/O error.
Fail(r) ==
  /\ Faults /\ req[r].pc \in Calls \cup {"orphan"}
  /\ WorkerFree \/ At(r, "isDir")
  /\ IF req[r].pc \in {"entryCanon", "entryMeta"}
       THEN /\ Goto(r, "next")
            /\ scan' = [scan EXCEPT ![r].lost = @ \cup {scan[r].item},
                                    ![r].item = None, ![r].spot = Root]
     ELSE IF At(r, "orphan")
       THEN Over(r, "dropped", "none", None, None) /\ UNCHANGED scan
     ELSE /\ Answer(r, IF At(r, "isDir") THEN "notFound" ELSE "unavailable")
          /\ scan' = [scan EXCEPT ![r] = NoScan]
  /\ UNCHANGED <<fs, fresh>>

\* The client goes away and the handler is dropped where it waits. What was
\* handed to the blocking pool still runs: a removal, an open. (The other calls
\* leave nothing behind.)
Disconnect(r) ==
  /\ req[r].pc \in Calls \cup {"blocked"}
  /\ scan' = [scan EXCEPT ![r] = NoScan]
  /\ \/ Over(r, IF At(r, "blocked") THEN "held" ELSE "dropped", "none", None, None)
     \/ /\ req[r].pc \in {"open", "unlink"}
        /\ Become(r, [req[r] EXCEPT !.pc = "orphan", !.status = "none"])
  /\ UNCHANGED <<fs, fresh>>

--------------------------------------------------------------------------------
(* Other programs. *)

\* An inode number is in use while a name or an open handle refers to it.
Live ==
  {fs[l] : l \in Locs} \cup {req[r].file : r \in {q \in Reqs : req[q].pc \in {"blocked", "verify"}}}

CreateEntry(l, f) ==
  /\ f \in fresh /\ IsDir(Front(l))
  /\ \A g \in Live \cap Files : Ino[g] # Ino[f]
  /\ NodeAt(l) = None \/ (~IsDir(l) /\ Kind[f] # "dir")
  /\ ChangeShare([fs EXCEPT ![l] = f])
  /\ fresh' = fresh \ {f}
  /\ UNCHANGED req

RemoveEntry(l) ==
  /\ NodeAt(l) # None
  /\ IsDir(l) => Children(fs, l) = {}
  /\ ChangeShare([fs EXCEPT ![l] = None])
  /\ UNCHANGED <<fresh, req>>

\* A rename of a file, over whatever the new name held.
MoveEntry(l, k) ==
  /\ l # k /\ IsKind(NodeAt(l), "file")
  /\ IsDir(Front(k)) /\ ~IsDir(k)
  /\ ChangeShare([fs EXCEPT ![l] = None, ![k] = fs[l]])
  /\ UNCHANGED <<fresh, req>>

--------------------------------------------------------------------------------
Init ==
  /\ fs \in Shares
  /\ fresh = Files \ {fs[l] : l \in Locs}
  /\ req = [r \in Reqs |-> Idle]
  /\ scan = [r \in Reqs |-> NoScan]

\* The steps by which the server itself carries a request on. `is_dir` asks the
\* system on the handler's own thread, and entries read ahead need no thread.
Work(r) ==
  \/ CheckDirectory(r) \/ NextEntry(r) \/ EndOfDirectory(r)
  \/ /\ WorkerFree
     /\ \/ Canonicalize(r) \/ CanonicalizeDecoded(r)
        \/ Stat(r) \/ Open(r) \/ OpenLate(r) \/ Verify(r)
        \/ Lstat(r) \/ LstatDecoded(r) \/ Unlink(r)
        \/ ReadDir(r) \/ CanonicalizeEntry(r) \/ StatEntry(r)

Others ==
  \/ \E l \in EnvLocs, f \in Files : CreateEntry(l, f)
  \/ \E l \in EnvLocs : RemoveEntry(l)
  \/ \E l, k \in EnvLocs : MoveEntry(l, k)

Next ==
  \/ \E r \in Reqs : \E call \in Requests[r] : Arrive(r, call)
  \/ \E r \in Reqs : Work(r) \/ WriterOpens(r) \/ Fail(r) \/ Disconnect(r)
  \/ Others

\* Calls wait for a thread of the pool in a queue: one that is waiting runs if
\* threads become free again and again, and the operating system completes it.
\* Nothing is assumed of clients, of failures, of the other programs, of the
\* writers of pipes among them.
Fairness == \A r \in Reqs : SF_vars(WorkerFree /\ Work(r))

Spec == Init /\ [][Next]_vars /\ Fairness

--------------------------------------------------------------------------------
(* Properties. *)

States ==
  [call : Request \cup {None}, pc : PCs, status : Statuses, decoded : BOOLEAN,
   at : Places, name : OsNames \cup {None},
   known : Files \cup {RootDir, None}, file : Files \cup {RootDir, None},
   source : Places \cup {None}]

Rows == [entry : OsNames, name : Names, file : Files \cup {RootDir, None},
         kind : {"file", "dir"}, canDelete : BOOLEAN]

Scans ==
  [home : Places, dir : Files \cup {RootDir, None}, may : SUBSET OsNames,
   must : SUBSET OsNames, seen : SUBSET OsNames, lost : SUBSET OsNames,
   item : OsNames \cup {None}, spot : Places, rows : SUBSET Rows]

TypeOK ==
  /\ fs \in [Locs -> Files \cup {None}]
  /\ fresh \subseteq Files
  /\ req \in [Reqs -> States]
  /\ scan \in [Reqs -> Scans]

Done(r, status) == At(r, "done") /\ req[r].status = status

(* Nothing outside the shared root is served or removed, although links lead *)
(* out of it and names are looked up again after the check (lib.rs,          *)
(* ensure_within_root). The links of the share do not change while requests  *)
(* run: with them the window before the stat is documented as open.          *)
StaysInRoot ==
  \A r \in Reqs :
    req[r].source # None /\ req[r].pc \in {"done", "dropped"} => WithinRoot(req[r].source)

\* The premise of that: no link is made or moved while requests run.
NoNewLinks ==
  \A share \in Shares : \A f \in Files :
    Kind[f] = "link" => \E l \in Locs : share[l] = f

\* What a handler has come to, without the calls it makes.
Standing(h) ==
  LET state ==
        IF h.pc = "idle" THEN "free"
        ELSE IF h.pc \in {"dropped", "held"} \/ (h.pc = "orphan" /\ h.call.op = "get")
          THEN "gone"
        ELSE IF h.pc = "done"
          THEN CASE h.status = "served"    -> "served"
                 [] h.status = "noContent" -> "removed"
                 [] h.status = "listed"    -> "listed"
                 [] OTHER                  -> "refused"
        ELSE IF h.pc \in {"open", "blocked", "verify"} /\ IsKind(h.known, "file")
          THEN "found"
        ELSE "asked"
  IN [call  |-> h.call,
      state |-> state,
      file  |-> CASE state = "found" -> h.known
                  [] state = "asked" \/ h.pc \in {"orphan", "held"} -> None
                  [] OTHER           -> h.file]

(* Each request takes effect at one instant, although its path is looked up  *)
(* several times while other programs change the share: the handlers         *)
(* implement SharedFiles. A download that passes the identity check of       *)
(* open_download_target is of the file its stat found inside the root; a     *)
(* delete that is answered 204 took one file out of the share as it was      *)
(* then, inside the root; and both were granted by the gate.                 *)
Promise == INSTANCE SharedFiles WITH
  share   <- fs,
  unused  <- fresh,
  request <- [r \in Reqs |-> Standing(req[r])],
  Requests <- [r \in Reqs |-> {Validated(call) : call \in Requests[r]}],
  Granted <- {call \in Request :
                /\ call.path \in Path /\ IsPathVisible(Access, call.groups, call.path)
                /\ call.op = "delete" => CanDelete(Access, call.groups, call.path)},
  Inside  <- {l \in Locs : WithinRoot(l)},
  RegularFiles <- {f \in Files : Kind[f] = "file"},
  Directories  <- {f \in Files : Kind[f] = "dir"}
TakesEffectAtOnce == Promise!Spec

(* The answer to a delete tells what happened: a file is gone through it if  *)
(* and only if it was answered 204 or could not be answered, and no two      *)
(* requests remove the same file (docs/features/file-delete.md).             *)
RemovalAccounted ==
  \A r \in Reqs :
    LET removed == req[r].call # None /\ req[r].call.op = "delete" /\ req[r].file # None
    IN /\ Done(r, "noContent") => removed
       /\ removed => Done(r, "noContent") \/ At(r, "dropped")
       /\ removed => \A l \in Locs : fs[l] # req[r].file
       /\ \A q \in Reqs \ {r} :
            removed /\ req[q].call # None /\ req[q].call.op = "delete"
              => req[q].file # req[r].file

(* A delete removes the entry that the listing shows under the requested     *)
(* name, never another one (lib.rs, the comment in delete_file on names that *)
(* contain `%` sequences).                                                   *)
DeletesNamedEntry ==
  \A r \in Reqs :
    req[r].call # None /\ req[r].call.op = "delete" /\ req[r].source # None =>
      Render[Last(req[r].source)] = Last(Asked(r))

\* The path that names what a request reached, when it has such a path.
Reached(r) ==
  IF req[r].call.op = "delete" THEN Append(Front(Asked(r)), Last(req[r].source))
  ELSE IF req[r].decoded THEN DecodedPath(Asked(r)) ELSE Asked(r)

\* The rules evaluate a path as it is spelled and decoded as a whole. delete_file
\* looks the directory and the name up separately: a delete of which only one of
\* them was decoded reached a form that is neither.
EvaluatedForm(r) ==
  /\ req[r].pc \in {"done", "dropped"} /\ req[r].source # None
  /\ req[r].call.op = "delete" => DecodedPath(Front(Asked(r))) = Front(Asked(r))

(* A rule hides a file whichever form of its name leads to it (access.rs,    *)
(* is_path_visible): what is served or removed through the decoded form is   *)
(* visible under the decoded form too, as far as rules can spell it. That    *)
(* takes names of which none decodes to `.`; of the others see               *)
(* DeniesHoldDecoded.                                                        *)
ReachedFormVisible ==
  \A r \in Reqs :
    /\ EvaluatedForm(r) /\ Reached(r) \in Path
    /\ \A i \in 1..Len(Asked(r)) : Decoded[Asked(r)[i]] # Dot
    => ~IsHidden(Access, req[r].call.groups, Reached(r))

(* The same of every request: denies hold for the decoded form of a path too *)
(* (docs/features/group-based-access-control.md, the paragraph on decoding). *)
(* What was reached by a path with `.` in it is reached without it.          *)
DeniesHoldDecoded ==
  \A r \in Reqs :
    LET reached == SelectSeq(Reached(r), LAMBDA n : n # Dot)
    IN EvaluatedForm(r) /\ reached \in Path
         => ~IsHidden(Access, req[r].call.groups, reached)

(* A listing misses nothing: an entry the user may see, that was in the      *)
(* directory unchanged while the stream was read, has its row, once, unless  *)
(* a call on it failed.                                                      *)
ListingComplete ==
  \A r \in Reqs : Done(r, "listed") =>
    \A n \in scan[r].must \ scan[r].lost :
      Shown(r, n) => Cardinality({row \in scan[r].rows : row.entry = n}) = 1

\* Whether a request for the row's path is a request for that path: it is not
\* when the name begins or ends with white space, which is trimmed, or holds a
\* backslash, which is refused.
Addressable(p, name) == ValidPath(Append(p, name)) = Append(p, name)

(* The canDelete flag of a row and the delete endpoint cannot drift (lib.rs, *)
(* the comment in directory): the same user is never refused for a row that  *)
(* offers deletion and never succeeds on one that does not. That is of rows  *)
(* whose path is not changed by validate_relative_path: a request for the    *)
(* row `x ` acts on `x`, whose own row tells what comes of it.               *)
ListingAgreesWithDelete ==
  \A r, q \in Reqs :
    /\ Done(r, "listed")
    /\ req[q].call # None /\ req[q].call.op = "delete"
    /\ req[q].call.groups = req[r].call.groups
    => \A row \in scan[r].rows :
         /\ req[q].call.path = ValidPath(Append(Asked(r), row.name)) /\ row.kind = "file"
         /\ Addressable(Asked(r), row.name)
         => IF row.canDelete THEN ~Done(q, "forbidden") ELSE ~Done(q, "noContent")

\* Where a request for p would lead now.
Leads(p) ==
  IF Resolve(Root \o p) # Missing THEN Resolve(Root \o p)
  ELSE IF Refusals(p) = {} THEN Resolve(Root \o DecodedPath(p)) ELSE Missing

\* A request is decoded as a whole or not at all: a row that shows a name with
\* escapes as it is needs a directory that is reached as its path is spelled, and
\* a row that shows an escape needs one that is reached by decoding, unless the
\* other of the two has no escapes.
OneForm(p, row) ==
  IF row.name = row.entry THEN Resolve(Root \o p) # Missing \/ Decoded[row.name] = row.name
  ELSE Resolve(Root \o p) = Missing \/ DecodedPath(p) = p

(* A listed file that is still in its place can be opened under the name its *)
(* row shows (lib.rs, percent_encode_entry_name and canonical_entry_target:  *)
(* an encoded name resolves back to its original file), if a request can     *)
(* address that name: the path of the request is the validated one.          *)
RowReopens ==
  \A r \in Reqs : Done(r, "listed") =>
    \A row \in scan[r].rows :
      LET l == Append(scan[r].home, row.entry)
      IN /\ row.kind = "file" /\ NodeAt(l) = row.file
         /\ Leads(Asked(r)) = scan[r].home /\ OneForm(Asked(r), row)
         /\ Addressable(Asked(r), row.name)
         => Leads(ValidPath(Append(Asked(r), row.name))) = l

\* The premise of that: an entry that is shown under another name has the shown
\* name as its escape, and nothing else has that name.
ShownNamesApart ==
  \A l \in Locs :
    \/ Render[Last(l)] = Last(l)
    \/ /\ Decoded[Render[Last(l)]] = Last(l)
       /\ \A k \in Places \ {<<>>} : Last(k) # Render[Last(l)]

(* While threads of the blocking pool become free again and again, no        *)
(* request is at work forever: it is answered, or its client leaves, or it   *)
(* waits for the writer of a pipe. That opens of pipes can keep every thread *)
(* is the documented limit of the download path (lib.rs, open_download_      *)
(* target).                                                                  *)
EventuallyAnswered ==
  \A r \in Reqs : []<>WorkerFree => []<>(req[r].pc \notin Calls \cup {"orphan"})
================================================================================
