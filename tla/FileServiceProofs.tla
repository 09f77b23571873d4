--------------------------- MODULE FileServiceProofs ---------------------------
(***************************************************************************)
(* For every share, configuration and set of concurrent requests: the      *)
(* types of FileService, that the answer to a delete tells what became of  *)
(* the file, what the answers say about the file that was reached and      *)
(* about the rules, that nothing outside the root is reached, that a       *)
(* listing is complete, and that each request takes effect at one instant  *)
(* (the handlers implement SharedFiles).                                   *)
(***************************************************************************)
EXTENDS FileService, AccessRulesProofs, FiniteSetTheorems

Active == PCs \ {"idle", "held", "done", "dropped"}

\* What a handler that is at work knows of its request.
HandlerOK(h) ==
  h.pc \in Active =>
    /\ h.call \in Request /\ h.call.path \in Path
    /\ h.call.op = "delete" => h.call.path # <<>>
    /\ h.pc \in {"stat", "open", "blocked", "verify"} => h.call.op = "get"
    /\ h.pc \in {"readDir", "next", "entryCanon", "entryMeta"} => h.call.op = "list"
    /\ h.pc \in {"lstat", "lstatDecoded", "unlink"} => h.call.op = "delete"
    /\ h.pc = "orphan" => h.call.op # "list"
    /\ h.pc = "isDir" => h.call.op # "get"
    /\ h.pc = "lstatDecoded" => Decoded[Last(h.call.path)] \notin Undecodable

\* A listing that works on an entry has one.
ScanOK(h, s) == h.pc \in {"entryCanon", "entryMeta"} => s.item \in OsNames

Inv ==
  /\ TypeOK
  /\ \A r \in Reqs : HandlerOK(req[r]) /\ ScanOK(req[r], scan[r])

\* What a delete has removed.
Removed(r) ==
  req[r].call # None /\ req[r].call.op = "delete" /\ req[r].file # None

RemovalInv ==
  /\ HasOneName(fs)
  /\ \A l \in Locs : fs[l] \notin fresh
  /\ \A r \in Reqs :
       /\ Done(r, "noContent") => Removed(r)
       /\ Removed(r) =>
            /\ Done(r, "noContent") \/ At(r, "dropped")
            /\ req[r].file \in Files \ fresh
            /\ \A l \in Locs : fs[l] # req[r].file
            /\ \A q \in Reqs \ {r} : Removed(q) => req[q].file # req[r].file

--------------------------------------------------------------------------------
(* Types. *)

LEMMA RootPlace == Root \in Places
<1>1. Root \in Seq(OsNames) /\ Len(Root) \in 0..Len(Root) /\ SubSeq(Root, 1, Len(Root)) = Root
  BY ShareAssumption
<1> QED
  BY <1>1 DEF Places, AboveRoot

LEMMA NodeTyped ==
  ASSUME TypeOK, NEW l
  PROVE  NodeAt(l) \in Files \cup {RootDir, None}
BY DEF TypeOK, NodeAt, NodeIn

\* A handler that changes leaves the others as they were.
LEMMA BecomeOne ==
  ASSUME req \in [Reqs -> States], NEW r \in Reqs, NEW h \in States, Become(r, h)
  PROVE  /\ req' \in [Reqs -> States]
         /\ req'[r] = h
         /\ \A q \in Reqs \ {r} : req'[q] = req[q]
BY DEF Become

\* What remains of a handler that is over, and that it has its types.
Outcome(r, pc, status, file, source) ==
  [Idle EXCEPT !.call = req[r].call, !.pc = pc, !.status = status,
               !.file = file, !.source = source]

LEMMA OverTyped ==
  ASSUME TypeOK, NEW r \in Reqs, NEW pc \in {"done", "dropped", "held"}, NEW status \in Statuses,
         NEW file \in Files \cup {RootDir, None}, NEW source \in Places \cup {None}
  PROVE  /\ Outcome(r, pc, status, file, source) \in States
         /\ Outcome(r, pc, status, file, source).pc = pc
<1>1. req[r].call \in Request \cup {None}
  BY DEF TypeOK, States
<1> QED
  BY <1>1, RootPlace DEF Outcome, Idle, States, PCs

\* A step of one handler that keeps the types, and what is known of its request,
\* keeps the invariant.
LEMMA InvByHandler ==
  ASSUME Inv, NEW r \in Reqs, NEW h \in States, HandlerOK(h), Become(r, h),
         fs' \in [Locs -> Files \cup {None}], fresh' \in SUBSET Files,
         scan' \in [Reqs -> Scans], ScanOK(h, scan'[r]),
         \A q \in Reqs \ {r} : scan'[q].item = scan[q].item
  PROVE  Inv'
<1>1. /\ req' \in [Reqs -> States]
      /\ req'[r] = h
      /\ \A q \in Reqs \ {r} : req'[q] = req[q]
  BY BecomeOne DEF Inv, TypeOK
<1>2. ASSUME NEW q \in Reqs
      PROVE  HandlerOK(req'[q]) /\ ScanOK(req'[q], scan'[q])
  BY <1>1, <1>2 DEF Inv, ScanOK
<1> QED
  BY <1>1, <1>2 DEF Inv, TypeOK, HandlerOK, ScanOK

\* So does a handler that is over.
LEMMA InvByOver ==
  ASSUME Inv, NEW r \in Reqs, NEW pc \in {"done", "dropped", "held"}, NEW status \in Statuses,
         NEW file \in Files \cup {RootDir, None}, NEW source \in Places \cup {None},
         Over(r, pc, status, file, source),
         fs' \in [Locs -> Files \cup {None}], fresh' \in SUBSET Files,
         scan' \in [Reqs -> Scans],
         \A q \in Reqs \ {r} : scan'[q].item = scan[q].item
  PROVE  Inv'
<1> DEFINE h == Outcome(r, pc, status, file, source)
<1>1. TypeOK /\ Become(r, h)
  BY DEF Inv, Over, Outcome
<1>2. h \in States /\ h.pc = pc
  BY <1>1, OverTyped
<1> HIDE DEF h
<1>3. HandlerOK(h) /\ ScanOK(h, scan'[r])
  BY <1>2 DEF HandlerOK, ScanOK, Active
<1> QED
  BY <1>1, <1>2, <1>3, InvByHandler

\* A handler that answers without having touched the share.
LEMMA InvByAnswer ==
  ASSUME Inv, NEW r \in Reqs, NEW status \in Statuses, Answer(r, status),
         UNCHANGED <<fs, fresh, scan>>
  PROVE  Inv'
BY InvByOver DEF Inv, TypeOK, Answer

\* What the directory streams owe changes with the share, not their items.
LEMMA TrackTyped ==
  ASSUME TypeOK, Track
  PROVE  /\ scan' \in [Reqs -> Scans]
         /\ \A q \in Reqs : scan'[q].item = scan[q].item
<1>1. ASSUME NEW q \in Reqs
      PROVE  scan'[q] \in Scans /\ scan'[q].item = scan[q].item
  <2>1. scan[q] \in Scans
    BY DEF TypeOK
  <2>2. Children(fs', scan[q].home) \in SUBSET OsNames
    BY DEF Children
  <2> QED
    BY <2>1, <2>2 DEF Track, Scans
<1> QED
  BY <1>1 DEF Track

\* A step to another call, with the share and the streams as they were.
LEMMA InvByWork ==
  ASSUME Inv, NEW r \in Reqs, NEW h \in States, HandlerOK(h), Become(r, h),
         h.pc \notin {"entryCanon", "entryMeta"}, UNCHANGED <<fs, fresh, scan>>
  PROVE  Inv'
<1>1. ScanOK(h, scan'[r])
  BY DEF ScanOK
<1> QED
  BY <1>1, InvByHandler DEF Inv, TypeOK

LEMMA NoScanTyped == NoScan \in Scans
BY RootPlace DEF NoScan, Scans

\* What validate_relative_path makes of a text is a path or none that is served.
LEMMA TrimmedTyped ==
  ASSUME NEW text \in PathText
  PROVE  /\ Trimmed(text) \in Seq(Segments)
         /\ Len(Trimmed(text)) = Len(text)
         /\ \A i \in 1..Len(text) : i # 1 /\ i # Len(text) => Trimmed(text)[i] \in Names
<1>1. /\ Len(text) \in Nat
      /\ \A i \in 1..Len(text) : text[i] \in Names /\ text[i] \in Segments
  BY DEF PathText, Segments
<1>2. ASSUME NEW i \in 1..Len(text)
      PROVE  LET n == IF i = 1 THEN TrimStart[text[i]] ELSE text[i]
             IN (IF i = Len(text) THEN TrimEnd[n] ELSE n) \in Segments
  BY <1>1, ShareAssumption
<1>3. Trimmed(text) \in [1..Len(text) -> Segments]
  BY <1>2 DEF Trimmed
<1> QED
  BY <1>1, <1>3 DEF Trimmed

\* The rest of a sequence, and what is before its last element.
LEMMA TailAt ==
  ASSUME NEW S, NEW s \in Seq(S), s # <<>>
  PROVE  /\ Tail(s) \in Seq(S) /\ Len(Tail(s)) = Len(s) - 1 /\ Len(Tail(s)) \in Nat
         /\ \A i \in 1..Len(Tail(s)) : Tail(s)[i] = s[i + 1] /\ i + 1 \in 1..Len(s)
<1>1. Tail(s) \in Seq(S) /\ Len(Tail(s)) = Len(s) - 1 /\ Len(s) \in Nat /\ Len(s) # 0
  OBVIOUS
<1>2. \A i \in 1..(Len(s) - 1) : Tail(s)[i] = s[i + 1]
  OBVIOUS
<1> QED
  BY <1>1, <1>2

LEMMA FrontAt ==
  ASSUME NEW S, NEW s \in Seq(S), s # <<>>
  PROVE  /\ Front(s) \in Seq(S) /\ Len(Front(s)) = Len(s) - 1
         /\ \A i \in 1..Len(Front(s)) : Front(s)[i] = s[i] /\ i \in 1..Len(s) /\ i # Len(s)
<1>1. Len(s) \in Nat /\ Len(s) # 0
  OBVIOUS
<1>2. PICK n \in Nat : n = Len(s) - 1
  BY <1>1
<1>3. SubSeq(s, 1, n) \in Seq(S) /\ Len(SubSeq(s, 1, n)) = n
  BY <1>1, <1>2
<1>4. \A i \in 1..n : SubSeq(s, 1, n)[i] = s[i]
  BY <1>1, <1>2
<1>5. Front(s) = SubSeq(s, 1, n)
  BY <1>2 DEF Front
<1> QED
  BY <1>1, <1>2, <1>3, <1>4, <1>5

LEMMA ValidPathTyped ==
  ASSUME NEW text \in PathText \cup {BadPath, UpPath}
  PROVE  ValidPath(text) \in Path \cup {BadPath, UpPath}
<1> DEFINE t == Trimmed(text)
<1> SUFFICES ASSUME text \in PathText,
                    ~(Len(t) > 1 /\ t[1] = Blank), \A i \in 1..Len(t) : t[i] # DotDot
             PROVE  DropLast(DropFirst(t)) \in Seq(Names)
  BY DEF ValidPath, Path
<1>1. /\ t \in Seq(Segments) /\ Len(t) \in Nat
      /\ \A i \in 1..Len(t) : t[i] \in Names \/ (i = Len(t) /\ t[i] = Blank)
  BY TrimmedTyped DEF Segments
<1> HIDE DEF t
<1> DEFINE d == DropFirst(t)
<1>2. /\ d \in Seq(Segments) /\ Len(d) \in Nat
      /\ \A i \in 1..Len(d) : d[i] \in Names \/ (i = Len(d) /\ d[i] = Blank)
  <2>1. CASE t # <<>> /\ Head(t) = Dot
    <3>1. d = Tail(t)
      BY <2>1 DEF DropFirst
    <3> HIDE DEF d
    <3>2. /\ d \in Seq(Segments) /\ Len(d) = Len(t) - 1 /\ Len(d) \in Nat
          /\ \A i \in 1..Len(d) : d[i] = t[i + 1] /\ i + 1 \in 1..Len(t)
      BY <1>1, <2>1, <3>1, TailAt
    <3>3. ASSUME NEW i \in 1..Len(d)
          PROVE  d[i] \in Names \/ (i = Len(d) /\ d[i] = Blank)
      <4>1. t[i + 1] \in Names \/ (i + 1 = Len(t) /\ t[i + 1] = Blank)
        BY <1>1, <3>2
      <4> QED
        BY <1>1, <3>2, <4>1
    <3> QED
      BY <3>2, <3>3
  <2>2. CASE ~(t # <<>> /\ Head(t) = Dot)
    BY <1>1, <2>2 DEF DropFirst
  <2> QED
    BY <2>1, <2>2
<1> HIDE DEF d
<1>5. \A s \in Seq(Segments) :
        (\A i \in 1..Len(s) : s[i] \in Names) => s \in Seq(Names)
  OBVIOUS
<1>3. CASE d # <<>> /\ Last(d) \in {Dot, Blank}
  <2> DEFINE e == Front(d)
  <2>1. DropLast(d) = e
    BY <1>3 DEF DropLast
  <2>2. /\ e \in Seq(Segments)
        /\ \A i \in 1..Len(e) : e[i] = d[i] /\ i \in 1..Len(d) /\ i # Len(d)
    BY <1>2, <1>3, FrontAt
  <2> HIDE DEF e
  <2>3. \A i \in 1..Len(e) : e[i] \in Names
    BY <1>2, <2>2
  <2>4. e \in Seq(Names)
    BY <1>5, <2>2, <2>3
  <2> QED
    BY <2>1, <2>4 DEF d
<1>4. CASE ~(d # <<>> /\ Last(d) \in {Dot, Blank})
  <2>1. DropLast(d) = d
    BY <1>4 DEF DropLast
  <2>2. d # <<>> => d[Len(d)] # Blank
    BY <1>4 DEF Last
  <2>3. \A i \in 1..Len(d) : d[i] \in Names
    BY <1>2, <2>2
  <2>4. d \in Seq(Names)
    BY <1>2, <1>5, <2>3
  <2> QED
    BY <2>1, <2>4 DEF d
<1> QED
  BY <1>3, <1>4

LEMMA ValidatedTyped ==
  ASSUME NEW r \in Reqs, NEW call \in Requests[r]
  PROVE  /\ Validated(call) \in Request
         /\ Validated(call).op = call.op
         /\ Validated(call).groups = call.groups
         /\ Validated(call).path = ValidPath(call.path)
<1>1. call \in TextRequest
  BY ShareAssumption
<1> QED
  BY <1>1, ValidPathTyped DEF TextRequest, Request, Validated

\* A request that the gate and the handler let through has a path they can use.
LEMMA InvByArrive ==
  ASSUME Inv, NEW r \in Reqs, NEW call \in Requests[r], Arrive(r, call)
  PROVE  Inv'
<1> DEFINE valid == Validated(call)
           verdict == Screen(valid)
           h == [Idle EXCEPT !.call = valid, !.status = verdict,
                             !.pc = IF verdict = "pending" THEN "canon" ELSE "done"]
<1>1. valid \in Request
  BY ValidatedTyped
<1>2. verdict \in Statuses
  BY DEF Screen, Statuses
<1> HIDE DEF valid
<1>3. h \in States /\ h.call = valid
  BY <1>1, <1>2, RootPlace DEF Idle, States, PCs, Calls
<1>4. verdict = "pending" => valid.path \in Path /\ (valid.op = "delete" => valid.path # <<>>)
  BY <1>1 DEF Screen, Request, Ops
<1>5. /\ h.pc = IF verdict = "pending" THEN "canon" ELSE "done"
  BY DEF Idle
<1>6. HandlerOK(h)
  BY <1>1, <1>3, <1>4, <1>5 DEF HandlerOK, Active
<1>7. /\ scan' \in [Reqs -> Scans]
      /\ \A q \in Reqs \ {r} : scan'[q].item = scan[q].item
  BY NoScanTyped DEF Arrive, Inv, TypeOK
<1>8. ScanOK(h, scan'[r])
  BY <1>5 DEF ScanOK
<1>9. Become(r, h)
  BY DEF Arrive, valid
<1> HIDE DEF h
<1>10. fs' \in [Locs -> Files \cup {None}] /\ fresh' \in SUBSET Files
  BY DEF Arrive, Inv, TypeOK
<1> QED
  BY <1>3, <1>6, <1>7, <1>8, <1>9, <1>10, InvByHandler

\* A canonical location within the root leads on, another one to 404.
LEMMA InvByResolved ==
  ASSUME Inv, NEW r \in Reqs, NEW l \in Places, NEW decoded \in BOOLEAN,
         req[r].pc \in {"canon", "canonDecoded"},
         Resolved(r, l, decoded), UNCHANGED <<fs, fresh, scan>>
  PROVE  Inv'
<1>1. CASE ~WithinRoot(l)
  BY <1>1, InvByAnswer DEF Resolved, Statuses
<1>2. CASE WithinRoot(l)
  <2> DEFINE pc == IF req[r].call.op = "get" THEN "stat" ELSE "isDir"
             h == [req[r] EXCEPT !.at = l, !.decoded = decoded, !.pc = pc]
  <2>1. req[r] \in States /\ HandlerOK(req[r])
    BY DEF Inv, TypeOK
  <2>2. pc \in PCs /\ Become(r, h)
    BY <1>2 DEF Resolved, PCs, Calls
  <2> HIDE DEF pc
  <2>3. h \in States /\ h.call = req[r].call /\ h.pc = pc
    BY <2>1, <2>2 DEF States
  <2>4. h.pc = IF req[r].call.op = "get" THEN "stat" ELSE "isDir"
    BY <2>3 DEF pc
  <2> HIDE DEF h
  <2>5. HandlerOK(h)
    BY <2>1, <2>3, <2>4 DEF HandlerOK, Active, PCs, Calls
  <2> QED
    BY <2>2, <2>3, <2>4, <2>5, InvByWork
<1> QED
  BY <1>1, <1>2

\* A step that changes only where the handler waits.
LEMMA InvByGoto ==
  ASSUME Inv, NEW r \in Reqs, NEW pc \in PCs \ {"entryCanon", "entryMeta"}, Goto(r, pc),
         HandlerOK([req[r] EXCEPT !.pc = pc]), UNCHANGED <<fs, fresh, scan>>
  PROVE  Inv'
<1> DEFINE h == [req[r] EXCEPT !.pc = pc]
<1>1. req[r] \in States
  BY DEF Inv, TypeOK
<1>2. h \in States /\ h.pc = pc /\ Become(r, h)
  BY <1>1 DEF States, Goto
<1> QED
  BY <1>2, InvByWork

\* Steps of a download and of a delete that take note of a file.
LEMMA InvByNote ==
  ASSUME Inv, NEW r \in Reqs, NEW pc \in {"open", "unlink"}, NEW l,
         NEW name \in OsNames \cup {None},
         Become(r, [req[r] EXCEPT !.known = NodeAt(l), !.name = name, !.pc = pc]),
         req[r].pc \in IF pc = "open" THEN {"stat"} ELSE {"lstat", "lstatDecoded"},
         UNCHANGED <<fs, fresh, scan>>
  PROVE  Inv'
<1> DEFINE h == [req[r] EXCEPT !.known = NodeAt(l), !.name = name, !.pc = pc]
<1>1. req[r] \in States /\ HandlerOK(req[r])
  BY DEF Inv, TypeOK
<1>2. NodeAt(l) \in Files \cup {RootDir, None}
  BY NodeTyped DEF Inv
<1>3. pc \in PCs
  BY DEF PCs, Calls
<1>4. h \in States /\ h.call = req[r].call /\ h.pc = pc
  BY <1>1, <1>2, <1>3 DEF States
<1> HIDE DEF h
<1>5. HandlerOK(h)
  BY <1>1, <1>4 DEF HandlerOK, Active, PCs, Calls
<1>6. Become(r, h)
  BY DEF h
<1> QED
  BY <1>4, <1>5, <1>6, InvByWork

\* A regular file goes on to the removal, any other entry is refused.
LEMMA InvByFound ==
  ASSUME Inv, NEW r \in Reqs, NEW l, NEW name \in OsNames, Found(r, l, name),
         req[r].pc \in {"lstat", "lstatDecoded"}, UNCHANGED <<fs, fresh, scan>>
  PROVE  Inv'
<1>1. CASE IsKind(NodeAt(l), "file")
  BY <1>1, InvByNote DEF Found
<1>2. CASE ~IsKind(NodeAt(l), "file")
  BY <1>2, InvByAnswer DEF Found, Statuses
<1> QED
  BY <1>1, <1>2

\* The handle of a download.
LEMMA InvByOpened ==
  ASSUME Inv, NEW r \in Reqs, NEW l \in Places, NEW to \in {"blocked", "verify"},
         Opened(r, l, to), req[r].pc = "open", UNCHANGED <<fs, fresh, scan>>
  PROVE  Inv'
<1> DEFINE h == [req[r] EXCEPT !.file = NodeAt(l), !.source = l, !.pc = to]
<1>1. req[r] \in States /\ HandlerOK(req[r])
  BY DEF Inv, TypeOK
<1>2. NodeAt(l) \in Files \cup {RootDir, None}
  BY NodeTyped DEF Inv
<1>3. h \in States /\ h.call = req[r].call /\ h.pc = to
  BY <1>1, <1>2 DEF States, PCs, Calls
<1> HIDE DEF h
<1>4. HandlerOK(h)
  BY <1>1, <1>3 DEF HandlerOK, Active, PCs, Calls
<1>5. Become(r, h)
  BY DEF h, Opened
<1> QED
  BY <1>3, <1>4, <1>5, InvByWork

\* The paths of a request at work are spelled with names.
LEMMA AskedTyped ==
  ASSUME Inv, NEW r \in Reqs, req[r].pc \in {"lstat", "lstatDecoded"}
  PROVE  /\ Last(Asked(r)) \in Names
         /\ Last(Asked(r)) \in OsNames
         /\ Decoded[Last(Asked(r))] \in OsNames \cup Undecodable
<1>1. HandlerOK(req[r])
  BY DEF Inv
<1>2. req[r].call.path \in Seq(Names) /\ req[r].call.path # <<>>
  BY <1>1 DEF HandlerOK, Active, PCs, Calls, Path
<1>3. Last(Asked(r)) \in Names
  BY <1>2 DEF Last, Asked
<1> QED
  BY <1>3, NamesAssumption

\* What the open of a download comes to, at once or when a writer opens the pipe.
LEMMA OpenSteps ==
  ASSUME NEW r \in Reqs, Open(r) \/ OpenLate(r) \/ WriterOpens(r)
  PROVE  /\ UNCHANGED <<fs, fresh, scan>>
         /\ \/ /\ req[r].pc = "open"
               /\ \E to \in {"blocked", "verify"} :
                    /\ Resolve(req[r].at) \in Places
                    /\ Opened(r, Resolve(req[r].at), to)
            \/ /\ req[r].pc = "open"
               /\ Answer(r, "notFound") \/ Answer(r, "unavailable")
            \/ /\ req[r].pc = "held" \/ (req[r].pc = "orphan" /\ req[r].call.op = "get")
               /\ \E pc \in {"done", "dropped", "held"} : Over(r, pc, "none", None, None)
            \/ req[r].pc = "blocked" /\ Goto(r, "verify")
<1>1. CASE Open(r)
  BY <1>1 DEF Open, At
<1>2. CASE OpenLate(r)
  BY <1>2 DEF OpenLate, At
<1>3. CASE WriterOpens(r)
  BY <1>3 DEF WriterOpens, At
<1> QED
  BY <1>1, <1>2, <1>3

\* What becomes of a request whose client leaves.
LEMMA LeaveSteps ==
  ASSUME NEW r \in Reqs, Disconnect(r)
  PROVE  /\ UNCHANGED <<fs, fresh>> /\ scan' = [scan EXCEPT ![r] = NoScan]
         /\ req[r].pc \in Active
         /\ \/ \E pc \in {"done", "dropped", "held"} : Over(r, pc, "none", None, None)
            \/ /\ req[r].pc \in {"open", "unlink"}
               /\ Become(r, [req[r] EXCEPT !.pc = "orphan", !.status = "none"])
BY DEF Disconnect, Active, PCs, Calls, At

\* The calls of download and those of delete before the removal.
LEMMA InvByLookup ==
  ASSUME Inv, NEW r \in Reqs,
         \/ Canonicalize(r) \/ CanonicalizeDecoded(r)
         \/ Stat(r) \/ Open(r) \/ OpenLate(r) \/ WriterOpens(r) \/ Verify(r)
         \/ Lstat(r) \/ LstatDecoded(r)
  PROVE  Inv'
<1>0. req[r] \in States /\ HandlerOK(req[r])
  BY DEF Inv, TypeOK
<1>1. CASE Canonicalize(r)
  <2> DEFINE l == Resolve(Root \o Sought(r))
  <2> HIDE DEF l
  <2>1. UNCHANGED <<fs, fresh, scan>> /\ req[r].pc = "canon"
    BY <1>1 DEF Canonicalize, At
  <2>2. CASE l \in Places /\ Resolved(r, l, FALSE)
    BY <2>1, <2>2, InvByResolved
  <2>3. CASE Goto(r, "canonDecoded")
    <3>1. HandlerOK([req[r] EXCEPT !.pc = "canonDecoded"])
      BY <1>0, <2>1 DEF HandlerOK, States, Active, PCs, Calls
    <3> QED
      BY <2>1, <2>3, <3>1, InvByGoto DEF PCs, Calls
  <2>4. CASE Answer(r, Refusal(Sought(r)))
    BY <2>1, <2>4, InvByAnswer DEF Refusal, Statuses
  <2>5. CASE Answer(r, "unavailable")
    BY <2>1, <2>5, InvByAnswer DEF Statuses
  <2> QED
    BY <1>1, <2>2, <2>3, <2>4, <2>5 DEF Canonicalize, l
<1>2. CASE CanonicalizeDecoded(r)
  <2> DEFINE l == Resolve(Root \o DecodedPath(Sought(r)))
  <2> HIDE DEF l
  <2>1. UNCHANGED <<fs, fresh, scan>> /\ req[r].pc = "canonDecoded"
    BY <1>2 DEF CanonicalizeDecoded, At
  <2>2. CASE l \in Places /\ Resolved(r, l, TRUE)
    BY <2>1, <2>2, InvByResolved
  <2>3. CASE Answer(r, "notFound") \/ Answer(r, "unavailable")
    BY <2>1, <2>3, InvByAnswer DEF Statuses
  <2> QED
    BY <1>2, <2>2, <2>3 DEF CanonicalizeDecoded, l
<1>3. CASE Stat(r)
  <2> DEFINE l == Resolve(req[r].at)
  <2> HIDE DEF l
  <2>1. UNCHANGED <<fs, fresh, scan>> /\ req[r].pc = "stat"
    BY <1>3 DEF Stat, At
  <2>2. CASE Become(r, [req[r] EXCEPT !.known = NodeAt(l), !.pc = "open"])
    <3>1. [req[r] EXCEPT !.known = NodeAt(l), !.pc = "open"]
            = [req[r] EXCEPT !.known = NodeAt(l), !.name = req[r].name, !.pc = "open"]
      BY <1>0 DEF States
    <3>2. req[r].name \in OsNames \cup {None}
      BY <1>0 DEF States
    <3> QED
      BY <2>1, <2>2, <3>1, <3>2, InvByNote
  <2>3. CASE Answer(r, "notFound") \/ Answer(r, "unavailable")
    BY <2>1, <2>3, InvByAnswer DEF Statuses
  <2> QED
    BY <1>3, <2>2, <2>3 DEF Stat, l
<1>4. CASE Open(r) \/ OpenLate(r) \/ WriterOpens(r)
  <2>1. UNCHANGED <<fs, fresh, scan>>
    BY <1>4, OpenSteps
  <2>2. CASE req[r].pc = "open" /\ \E to \in {"blocked", "verify"} :
               Resolve(req[r].at) \in Places /\ Opened(r, Resolve(req[r].at), to)
    BY <2>1, <2>2, InvByOpened
  <2>3. CASE Answer(r, "notFound") \/ Answer(r, "unavailable")
    BY <2>1, <2>3, InvByAnswer DEF Statuses
  <2>4. CASE \E pc \in {"done", "dropped", "held"} : Over(r, pc, "none", None, None)
    BY <2>1, <2>4, InvByOver DEF Inv, TypeOK, Statuses
  <2>5. CASE req[r].pc = "blocked" /\ Goto(r, "verify")
    <3>1. HandlerOK([req[r] EXCEPT !.pc = "verify"])
      BY <1>0, <2>5 DEF HandlerOK, States, Active, PCs, Calls
    <3> QED
      BY <2>1, <2>5, <3>1, InvByGoto DEF PCs, Calls
  <2> QED
    BY <1>4, <2>2, <2>3, <2>4, <2>5, OpenSteps
<1>5. CASE Verify(r)
  <2>1. UNCHANGED <<fs, fresh, scan>>
    BY <1>5 DEF Verify
  <2>2. CASE Answer(r, "notFound")
    BY <2>1, <2>2, InvByAnswer DEF Statuses
  <2>3. CASE Become(r, [req[r] EXCEPT !.pc = "done", !.status = "served"])
    <3> DEFINE h == [req[r] EXCEPT !.pc = "done", !.status = "served"]
    <3>1. h \in States /\ h.pc = "done"
      BY <1>0 DEF States, PCs, Statuses
    <3>2. HandlerOK(h)
      BY <3>1 DEF HandlerOK, Active
    <3> QED
      BY <2>1, <2>3, <3>1, <3>2, InvByWork
  <2> QED
    BY <1>5, <2>2, <2>3 DEF Verify
<1>6. CASE Lstat(r)
  <2> DEFINE name == Last(Asked(r))
             entry == Entry(req[r].at, name)
  <2>1. UNCHANGED <<fs, fresh, scan>> /\ req[r].pc = "lstat"
    BY <1>6 DEF Lstat, At
  <2>2. name \in OsNames
    BY <2>1, AskedTyped
  <2>3. CASE Found(r, entry, name)
    BY <2>1, <2>2, <2>3, InvByFound
  <2>4. CASE Answer(r, Refusal(<<name>>)) \/ Answer(r, "unavailable")
    BY <2>1, <2>4, InvByAnswer DEF Refusal, Statuses
  <2>5. CASE Goto(r, "lstatDecoded") /\ Decoded[name] \notin Undecodable
    <3>1. HandlerOK([req[r] EXCEPT !.pc = "lstatDecoded"])
      BY <1>0, <2>1, <2>5 DEF HandlerOK, States, Active, PCs, Calls, Asked
    <3> QED
      BY <2>1, <2>5, <3>1, InvByGoto DEF PCs, Calls
  <2> QED
    BY <1>6, <2>3, <2>4, <2>5 DEF Lstat
<1>7. CASE LstatDecoded(r)
  <2> DEFINE name == Decoded[Last(Asked(r))]
             entry == Entry(req[r].at, name)
  <2>1. UNCHANGED <<fs, fresh, scan>> /\ req[r].pc = "lstatDecoded"
    BY <1>7 DEF LstatDecoded, At
  <2>2. name \in OsNames
    BY <1>0, <2>1, AskedTyped DEF HandlerOK, Active, PCs, Calls, Asked
  <2>3. CASE Found(r, entry, name)
    BY <2>1, <2>2, <2>3, InvByFound
  <2>4. CASE Answer(r, "notFound") \/ Answer(r, "unavailable")
    BY <2>1, <2>4, InvByAnswer DEF Statuses
  <2> QED
    BY <1>7, <2>3, <2>4 DEF LstatDecoded
<1> QED
  BY <1>1, <1>2, <1>3, <1>4, <1>5, <1>6, <1>7

\* The removal, and the end of the handler or of what it left behind.
LEMMA InvByConclude ==
  ASSUME Inv, NEW r \in Reqs, NEW status \in Statuses,
         NEW file \in Files \cup {RootDir, None}, NEW source \in Places \cup {None},
         Conclude(r, status, file, source),
         fs' \in [Locs -> Files \cup {None}], UNCHANGED fresh,
         scan' \in [Reqs -> Scans], \A q \in Reqs : scan'[q].item = scan[q].item
  PROVE  Inv'
<1>1. fresh' \in SUBSET Files
  BY DEF Inv, TypeOK
<1> QED
  BY <1>1, InvByOver DEF Conclude, Statuses

\* Only a location can hold a file.
LEMMA FileHasLocation ==
  ASSUME NEW l, NodeAt(l) \in Files
  PROVE  l \in Locs /\ NodeAt(l) = fs[l] /\ NodeAt(l) # None
BY ShareAssumption DEF NodeAt, NodeIn

LEMMA InvByUnlink ==
  ASSUME Inv, NEW r \in Reqs, Unlink(r)
  PROVE  Inv'
<1> DEFINE entry == Entry(req[r].at, req[r].name)
<1> HIDE DEF entry
<1>1. UNCHANGED fresh /\ TypeOK
  BY DEF Unlink, Inv
<1>2. CASE /\ NodeAt(entry) \in Files
           /\ ChangeShare([fs EXCEPT ![entry] = None])
           /\ Conclude(r, "noContent", NodeAt(entry), entry)
  <2>1. fs' \in [Locs -> Files \cup {None}]
    BY <1>1, <1>2 DEF ChangeShare, TypeOK
  <2>2. scan' \in [Reqs -> Scans] /\ \A q \in Reqs : scan'[q].item = scan[q].item
    BY <1>1, <1>2, TrackTyped DEF ChangeShare
  <2>3. NodeAt(entry) \in Files \cup {RootDir, None} /\ entry \in Places
    BY <1>2, FileHasLocation DEF Places
  <2> QED
    BY <1>1, <1>2, <2>1, <2>2, <2>3, InvByConclude DEF Statuses
<1>3. CASE /\ Conclude(r, "notFound", None, None) \/ Conclude(r, "unavailable", None, None)
           /\ UNCHANGED <<fs, scan>>
  BY <1>1, <1>3, InvByConclude DEF TypeOK, Statuses
<1> QED
  BY <1>2, <1>3 DEF Unlink, entry

\* The steps of a listing.
LEMMA InvByListing ==
  ASSUME Inv, NEW r \in Reqs,
         \/ CheckDirectory(r) \/ ReadDir(r) \/ NextEntry(r) \/ EndOfDirectory(r)
         \/ CanonicalizeEntry(r) \/ StatEntry(r)
  PROVE  Inv'
<1>0. /\ req[r] \in States /\ HandlerOK(req[r]) /\ ScanOK(req[r], scan[r])
      /\ scan[r] \in Scans /\ TypeOK
      /\ fs \in [Locs -> Files \cup {None}] /\ fresh \in SUBSET Files
  BY DEF Inv, TypeOK
\* The stream's own part of a step, and where the handler waits after it.
<1>1. ASSUME NEW s \in Scans, NEW pc \in PCs, scan' = [scan EXCEPT ![r] = s],
             Goto(r, pc), HandlerOK([req[r] EXCEPT !.pc = pc]),
             pc \in {"entryCanon", "entryMeta"} => s.item \in OsNames,
             UNCHANGED <<fs, fresh>>
      PROVE  Inv'
  <2> DEFINE h == [req[r] EXCEPT !.pc = pc]
  <2>1. h \in States /\ h.pc = pc /\ Become(r, h)
    BY <1>0, <1>1 DEF States, Goto
  <2>2. scan' \in [Reqs -> Scans] /\ scan'[r] = s /\ \A q \in Reqs \ {r} : scan'[q] = scan[q]
    BY <1>0, <1>1 DEF TypeOK
  <2> HIDE DEF h
  <2>3. HandlerOK(h) /\ ScanOK(h, scan'[r])
    BY <1>1, <2>1, <2>2 DEF h, ScanOK
  <2> QED
    BY <1>0, <1>1, <2>1, <2>2, <2>3, InvByHandler
<1>2. ASSUME req[r].pc \in {"next", "entryCanon", "entryMeta", "readDir"},
             NEW pc \in {"next", "entryCanon", "entryMeta"}
      PROVE  HandlerOK([req[r] EXCEPT !.pc = pc])
  BY <1>0, <1>2 DEF HandlerOK, States, Active, PCs, Calls
<1>3. CASE CheckDirectory(r)
  <2>1. UNCHANGED <<fs, fresh, scan>> /\ req[r].pc = "isDir"
    BY <1>3 DEF CheckDirectory, At
  <2>2. CASE Answer(r, "notFound")
    BY <2>1, <2>2, InvByAnswer DEF Statuses
  <2>3. CASE Goto(r, "readDir") /\ req[r].call.op = "list"
    <3>1. HandlerOK([req[r] EXCEPT !.pc = "readDir"])
      BY <1>0, <2>1, <2>3 DEF HandlerOK, States, Active, PCs, Calls
    <3> QED
      BY <2>1, <2>3, <3>1, InvByGoto DEF PCs, Calls
  <2>4. CASE Goto(r, "lstat") /\ req[r].call.op # "list"
    <3>1. HandlerOK([req[r] EXCEPT !.pc = "lstat"])
      BY <1>0, <2>1, <2>4 DEF HandlerOK, States, Active, PCs, Calls, Request, Ops
    <3> QED
      BY <2>1, <2>4, <3>1, InvByGoto DEF PCs, Calls
  <2> QED
    BY <1>3, <2>2, <2>3, <2>4 DEF CheckDirectory
<1>4. CASE ReadDir(r)
  <2> DEFINE l == Resolve(req[r].at)
             s == [NoScan EXCEPT !.home = l, !.dir = NodeAt(l),
                                 !.may = Children(fs, l), !.must = Plain(fs, l)]
  <2> HIDE DEF l
  <2>1. UNCHANGED <<fs, fresh>> /\ req[r].pc = "readDir"
    BY <1>4 DEF ReadDir, At
  <2>2. CASE Answer(r, "unavailable") /\ UNCHANGED scan
    BY <2>1, <2>2, InvByAnswer DEF Statuses
  <2>3. CASE l \in Places /\ scan' = [scan EXCEPT ![r] = s] /\ Goto(r, "next")
    <3>1. NodeAt(l) \in Files \cup {RootDir, None}
      BY <1>0, NodeTyped
    <3>2. s \in Scans
      BY <2>3, <3>1, NoScanTyped DEF Scans, Children, Plain
    <3> QED
      BY <1>1, <1>2, <2>1, <2>3, <3>2 DEF PCs, Calls
  <2> QED
    BY <1>4, <2>2, <2>3 DEF ReadDir, l
<1>5. CASE NextEntry(r)
  <2>1. UNCHANGED <<fs, fresh>> /\ req[r].pc = "next"
    BY <1>5 DEF NextEntry, At
  <2>2. PICK n \in scan[r].may \ scan[r].seen :
          IF Shown(r, n)
            THEN /\ scan' = [scan EXCEPT ![r].seen = @ \cup {n}, ![r].item = n]
                 /\ Goto(r, "entryCanon")
            ELSE scan' = [scan EXCEPT ![r].seen = @ \cup {n}] /\ UNCHANGED req
    BY <1>5 DEF NextEntry
  <2>3. n \in OsNames
    BY <1>0 DEF Scans
  <2>4. CASE Shown(r, n)
    <3> DEFINE s == [scan[r] EXCEPT !.seen = @ \cup {n}, !.item = n]
    <3>1. scan' = [scan EXCEPT ![r] = s] /\ Goto(r, "entryCanon")
      BY <1>0, <2>2, <2>4 DEF TypeOK
    <3>2. s \in Scans /\ s.item = n
      BY <1>0, <2>3 DEF Scans
    <3> QED
      BY <1>1, <1>2, <2>1, <2>3, <3>1, <3>2 DEF PCs, Calls
  <2>5. CASE ~Shown(r, n)
    <3> DEFINE s == [scan[r] EXCEPT !.seen = @ \cup {n}]
    <3>1. scan' = [scan EXCEPT ![r] = s] /\ Goto(r, "next")
      BY <1>0, <2>1, <2>2, <2>5 DEF TypeOK, Goto, Become, States
    <3>2. s \in Scans
      BY <1>0, <2>3 DEF Scans
    <3> QED
      BY <1>1, <1>2, <2>1, <3>1, <3>2 DEF PCs, Calls
  <2> QED
    BY <2>4, <2>5
<1>6. CASE EndOfDirectory(r)
  <2> DEFINE s == [scan[r] EXCEPT !.dir = None, !.may = {}, !.seen = {}]
  <2>1. UNCHANGED <<fs, fresh>> /\ scan' = [scan EXCEPT ![r] = s] /\ Answer(r, "listed")
    BY <1>0, <1>6 DEF EndOfDirectory, TypeOK
  <2>2. s \in Scans
    BY <1>0 DEF Scans
  <2> HIDE DEF s
  <2>3. /\ scan' \in [Reqs -> Scans]
        /\ \A q \in Reqs \ {r} : scan'[q].item = scan[q].item
    BY <1>0, <2>1, <2>2 DEF TypeOK
  <2> QED
    BY <1>0, <2>1, <2>3, InvByOver DEF Answer, Statuses
<1>7. CASE CanonicalizeEntry(r)
  <2> DEFINE l == Resolve(Append(req[r].at, scan[r].item))
  <2> HIDE DEF l
  <2>1. UNCHANGED <<fs, fresh>> /\ req[r].pc = "entryCanon"
    BY <1>7 DEF CanonicalizeEntry, At
  <2>2. CASE /\ l \in Places
             /\ Goto(r, "entryMeta") /\ scan' = [scan EXCEPT ![r].spot = l]
    <3> DEFINE s == [scan[r] EXCEPT !.spot = l]
    <3>1. s \in Scans /\ s.item \in OsNames
      BY <1>0, <2>1, <2>2 DEF Scans, ScanOK
    <3>2. scan' = [scan EXCEPT ![r] = s]
      BY <1>0, <2>2 DEF TypeOK
    <3> QED
      BY <1>1, <1>2, <2>1, <2>2, <3>1, <3>2 DEF PCs, Calls
  <2>3. CASE Goto(r, "next") /\ scan' = [scan EXCEPT ![r].item = None]
    <3> DEFINE s == [scan[r] EXCEPT !.item = None]
    <3>1. s \in Scans
      BY <1>0 DEF Scans
    <3>2. scan' = [scan EXCEPT ![r] = s]
      BY <1>0, <2>3 DEF TypeOK
    <3> QED
      BY <1>1, <1>2, <2>1, <2>3, <3>1, <3>2 DEF PCs, Calls
  <2> QED
    BY <1>7, <2>2, <2>3 DEF CanonicalizeEntry, l
<1>8. CASE StatEntry(r)
  <2> DEFINE l == Resolve(scan[r].spot)
             rows == IF l \in Places THEN scan[r].rows \cup {Row(r, NodeAt(l))}
                                     ELSE scan[r].rows
             s == [scan[r] EXCEPT !.item = None, !.spot = Root, !.rows = rows]
  <2> HIDE DEF l
  <2>1. UNCHANGED <<fs, fresh>> /\ req[r].pc = "entryMeta" /\ Goto(r, "next")
    BY <1>8 DEF StatEntry, At
  <2>2. NodeAt(l) \in Files \cup {RootDir, None}
    BY <1>0, NodeTyped
  <2>3. scan[r].item \in OsNames /\ Render[scan[r].item] \in Names
    BY <1>0, <2>1, ShareAssumption DEF ScanOK
  <2>4. Row(r, NodeAt(l)) \in Rows
    BY <2>2, <2>3 DEF Row, Rows
  <2>5. rows \in SUBSET Rows
    BY <1>0, <2>4 DEF Scans
  <2>6. scan' = [scan EXCEPT ![r] = s]
    BY <1>0, <1>8 DEF StatEntry, TypeOK, l
  <2> HIDE DEF rows
  <2>7. s \in Scans
    BY <1>0, <2>5, RootPlace DEF Scans
  <2> QED
    BY <1>1, <1>2, <2>1, <2>6, <2>7 DEF PCs, Calls
<1> QED
  BY <1>3, <1>4, <1>5, <1>6, <1>7, <1>8

\* A call that fails, or whose client has left.
LEMMA InvByFailure ==
  ASSUME Inv, NEW r \in Reqs, Fail(r) \/ Disconnect(r)
  PROVE  Inv'
<1>0. /\ req[r] \in States /\ HandlerOK(req[r]) /\ scan[r] \in Scans /\ TypeOK
      /\ fs' \in [Locs -> Files \cup {None}] /\ fresh' \in SUBSET Files
  BY DEF Inv, TypeOK, Fail, Disconnect
<1>1. ASSUME NEW s \in Scans, scan' = [scan EXCEPT ![r] = s]
      PROVE  /\ scan' \in [Reqs -> Scans] /\ scan'[r] = s
             /\ \A q \in Reqs \ {r} : scan'[q].item = scan[q].item
  BY <1>0, <1>1 DEF TypeOK
<1>2. ASSUME NEW pc \in {"done", "dropped", "held"}, NEW status \in Statuses,
             Over(r, pc, status, None, None),
             scan' = [scan EXCEPT ![r] = NoScan] \/ UNCHANGED scan
      PROVE  Inv'
  <2>1. PICK s \in Scans : scan' = [scan EXCEPT ![r] = s]
    <3>1. CASE UNCHANGED scan
      BY <1>0, <3>1 DEF TypeOK
    <3> QED
      BY <1>2, <3>1, NoScanTyped
  <2> QED
    BY <1>0, <1>1, <1>2, <2>1, InvByOver
<1>3. CASE Goto(r, "next") /\ req[r].pc \in {"entryCanon", "entryMeta"} /\ Fail(r)
  <2> DEFINE s == [scan[r] EXCEPT !.lost = @ \cup {scan[r].item}, !.item = None, !.spot = Root]
             h == [req[r] EXCEPT !.pc = "next"]
  <2>1. scan[r].item \in OsNames
    BY <1>3 DEF Inv, ScanOK
  <2>2. s \in Scans
    BY <1>0, <2>1, RootPlace DEF Scans
  <2>3. scan' = [scan EXCEPT ![r] = s]
    BY <1>0, <1>3 DEF Fail, TypeOK
  <2>4. h \in States /\ h.pc = "next" /\ Become(r, h)
    BY <1>0, <1>3 DEF States, PCs, Calls, Goto
  <2>5. HandlerOK(h)
    BY <1>0, <1>3 DEF HandlerOK, States, Active, PCs, Calls
  <2> HIDE DEF s, h
  <2>6. ScanOK(h, scan'[r])
    BY <2>4 DEF ScanOK
  <2> QED
    BY <1>0, <1>1, <2>2, <2>3, <2>4, <2>5, <2>6, InvByHandler
<1>4. CASE Become(r, [req[r] EXCEPT !.pc = "orphan", !.status = "none"])
           /\ req[r].pc \in {"open", "unlink"} /\ Disconnect(r)
  <2> DEFINE h == [req[r] EXCEPT !.pc = "orphan", !.status = "none"]
  <2>1. h \in States /\ h.pc = "orphan"
    BY <1>0 DEF States, PCs, Statuses
  <2>2. HandlerOK(h)
    BY <1>0, <1>4 DEF HandlerOK, States, Active, PCs, Calls
  <2>3. scan' = [scan EXCEPT ![r] = NoScan] /\ Become(r, h)
    BY <1>4 DEF Disconnect
  <2> HIDE DEF h
  <2>4. ScanOK(h, scan'[r])
    BY <2>1 DEF ScanOK
  <2> QED
    BY <1>0, <1>1, <2>1, <2>2, <2>3, <2>4, NoScanTyped, InvByHandler
<1>5. CASE Fail(r)
  <2>1. CASE req[r].pc \in {"entryCanon", "entryMeta"}
    BY <1>3, <1>5, <2>1 DEF Fail
  <2>2. CASE req[r].pc \notin {"entryCanon", "entryMeta"}
    BY <1>2, <1>5, <2>2 DEF Fail, Answer, Statuses
  <2> QED
    BY <2>1, <2>2
<1>6. CASE Disconnect(r)
  BY <1>2, <1>4, <1>6, LeaveSteps DEF Statuses
<1> QED
  BY <1>5, <1>6

\* The other programs change nothing of the handlers.
LEMMA InvByOthers ==
  ASSUME Inv, Others
  PROVE  Inv'
<1>1. \E share \in [Locs -> Files \cup {None}] : ChangeShare(share)
  <2>1. EnvLocs \subseteq Locs
    BY ShareAssumption
  <2>2. ASSUME NEW l \in EnvLocs, NEW f \in Files, CreateEntry(l, f)
        PROVE  \E share \in [Locs -> Files \cup {None}] : ChangeShare(share)
    BY <2>1, <2>2 DEF CreateEntry, Inv, TypeOK
  <2>3. ASSUME NEW l \in EnvLocs, RemoveEntry(l)
        PROVE  \E share \in [Locs -> Files \cup {None}] : ChangeShare(share)
    BY <2>1, <2>3 DEF RemoveEntry, Inv, TypeOK
  <2>4. ASSUME NEW l \in EnvLocs, NEW k \in EnvLocs, MoveEntry(l, k)
        PROVE  \E share \in [Locs -> Files \cup {None}] : ChangeShare(share)
    BY <2>1, <2>4 DEF MoveEntry, Inv, TypeOK
  <2> QED
    BY <2>2, <2>3, <2>4 DEF Others
<1>2. UNCHANGED req /\ fresh' \in SUBSET Files
  BY DEF Others, CreateEntry, RemoveEntry, MoveEntry, Inv, TypeOK
<1>3. TypeOK /\ Track /\ fs' \in [Locs -> Files \cup {None}]
  BY <1>1 DEF ChangeShare, Inv
<1>4. scan' \in [Reqs -> Scans] /\ \A q \in Reqs : scan'[q].item = scan[q].item
  BY <1>3, TrackTyped
<1> QED
  BY <1>2, <1>3, <1>4 DEF Inv, TypeOK, HandlerOK, ScanOK

LEMMA InvKept ==
  ASSUME Inv, [Next]_vars
  PROVE  Inv'
<1>1. CASE UNCHANGED vars
  BY <1>1 DEF vars, Inv, TypeOK, HandlerOK, ScanOK
<1> QED
  BY <1>1, InvByArrive, InvByLookup, InvByUnlink, InvByListing, InvByFailure, InvByOthers
  DEF Next, Work

LEMMA InvHolds == Spec => []Inv
<1>1. Init => Inv
  <2> SUFFICES ASSUME Init
               PROVE  Inv
    OBVIOUS
  <2>1. fs \in [Locs -> Files \cup {None}] /\ fresh \in SUBSET Files
    BY ShareAssumption DEF Init
  <2>2. Idle \in States /\ Idle.pc = "idle"
    BY RootPlace DEF Idle, States, PCs, Statuses
  <2> QED
    BY <2>1, <2>2, NoScanTyped DEF Init, Inv, TypeOK, HandlerOK, ScanOK, Active
<1> QED
  BY <1>1, InvKept, PTL DEF Spec

\* The share, every handler and every directory stream keep their types, for any
\* number of requests and any share (directory, download, delete_file).
THEOREM TypeCorrect == Spec => []TypeOK
BY InvHolds, PTL DEF Inv

--------------------------------------------------------------------------------
(* Removals. *)

\* A handler that neither removed anything nor says so.
Innocent(h) ==
  /\ ~(h.pc = "done" /\ h.status = "noContent")
  /\ ~(h.call # None /\ h.call.op = "delete" /\ h.file # None)

\* A step that leaves the share alone, and its handler innocent, keeps the
\* account of the removals.
LEMMA AccountByInnocent ==
  ASSUME Inv, RemovalInv, NEW r \in Reqs, NEW h, Become(r, h), Innocent(h),
         UNCHANGED <<fs, fresh>>
  PROVE  RemovalInv'
<1>1. req'[r] = h /\ \A q \in Reqs \ {r} : req'[q] = req[q]
  BY DEF Become, Inv, TypeOK
<1>2. ~Removed(r)' /\ ~Done(r, "noContent")'
  BY <1>1 DEF Innocent, Removed, Done, At
<1>3. \A q \in Reqs \ {r} : /\ Removed(q)' = Removed(q)
                            /\ Done(q, "noContent")' = Done(q, "noContent")
                            /\ At(q, "dropped")' = At(q, "dropped")
  BY <1>1 DEF Removed, Done, At
<1> QED
  BY <1>1, <1>2, <1>3 DEF RemovalInv, HasOneName

\* A handler at work has removed nothing yet.
LEMMA ActiveIsInnocent ==
  ASSUME Inv, RemovalInv, NEW r \in Reqs, req[r].pc \in Active
  PROVE  ~(req[r].call # None /\ req[r].call.op = "delete" /\ req[r].file # None)
BY DEF RemovalInv, Removed, Done, At, Active

LEMMA OverIsInnocent ==
  ASSUME NEW r, NEW pc, NEW status, NEW source, status # "noContent"
  PROVE  Innocent(Outcome(r, pc, status, None, source))
BY DEF Innocent, Outcome, Idle

LEMMA AccountByOver ==
  ASSUME Inv, RemovalInv, NEW r \in Reqs, NEW pc, NEW status, NEW source,
         Over(r, pc, status, None, source), status # "noContent", UNCHANGED <<fs, fresh>>
  PROVE  RemovalInv'
<1>1. Become(r, Outcome(r, pc, status, None, source))
  BY DEF Over, Outcome
<1> QED
  BY <1>1, OverIsInnocent, AccountByInnocent

\* A step from one call to another.
LEMMA AccountByGoto ==
  ASSUME Inv, RemovalInv, NEW r \in Reqs, req[r].pc \in Active, NEW h,
         Become(r, h), h.call = req[r].call, h.pc # "done",
         h.file = req[r].file \/ req[r].call.op = "get", UNCHANGED <<fs, fresh>>
  PROVE  RemovalInv'
<1>1. Innocent(h)
  BY ActiveIsInnocent DEF Innocent
<1> QED
  BY <1>1, AccountByInnocent

\* No step of a handler but the removal itself touches the account.
LEMMA AccountByWork ==
  ASSUME Inv, RemovalInv, NEW r \in Reqs,
         \/ \E call \in Requests[r] : Arrive(r, call)
         \/ Work(r) /\ ~Unlink(r)
         \/ WriterOpens(r) \/ Fail(r) \/ Disconnect(r)
  PROVE  RemovalInv'
<1>0. req[r] \in States /\ HandlerOK(req[r])
  BY DEF Inv, TypeOK
<1>1. UNCHANGED <<fs, fresh>>
  BY DEF Arrive, Work, Canonicalize, CanonicalizeDecoded, Stat, Open, OpenLate, Verify,
     CheckDirectory, Lstat, LstatDecoded, ReadDir, NextEntry, EndOfDirectory,
     CanonicalizeEntry, StatEntry, WriterOpens, Fail, Disconnect
<1>2. ASSUME NEW status, status # "noContent", Answer(r, status)
      PROVE  RemovalInv'
  BY <1>1, <1>2, AccountByOver DEF Answer
<1>3. ASSUME NEW pc, Goto(r, pc), pc # "done", req[r].pc \in Active
      PROVE  RemovalInv'
  <2> DEFINE h == [req[r] EXCEPT !.pc = pc]
  <2>1. h.call = req[r].call /\ h.pc = pc /\ h.file = req[r].file /\ Become(r, h)
    BY <1>0, <1>3 DEF States, Goto
  <2> QED
    BY <1>1, <1>3, <2>1, AccountByGoto
<1>4. ASSUME NEW call \in Requests[r], Arrive(r, call)
      PROVE  RemovalInv'
  <2> DEFINE verdict == Screen(Validated(call))
             h == [Idle EXCEPT !.call = Validated(call), !.status = verdict,
                               !.pc = IF verdict = "pending" THEN "canon" ELSE "done"]
  <2>1. Become(r, h)
    BY <1>4 DEF Arrive
  <2>2. verdict # "noContent"
    BY DEF Screen
  <2>3. h.file = None /\ h.status = verdict
    BY DEF Idle
  <2> HIDE DEF h
  <2>4. Innocent(h)
    BY <2>2, <2>3 DEF Innocent
  <2> QED
    BY <1>1, <2>1, <2>4, AccountByInnocent
<1>5. ASSUME NEW l, NEW decoded, req[r].pc \in {"canon", "canonDecoded"},
             Resolved(r, l, decoded)
      PROVE  RemovalInv'
  <2>1. CASE WithinRoot(l)
    <3> DEFINE pc == IF req[r].call.op = "get" THEN "stat" ELSE "isDir"
               h == [req[r] EXCEPT !.at = l, !.decoded = decoded, !.pc = pc]
    <3>1. Become(r, h)
      BY <1>5, <2>1 DEF Resolved
    <3>2. pc # "done"
      OBVIOUS
    <3> HIDE DEF pc
    <3>3. h.call = req[r].call /\ h.pc = pc /\ h.file = req[r].file
      BY <1>0 DEF States
    <3> QED
      BY <1>1, <1>5, <3>1, <3>2, <3>3, AccountByGoto DEF Active, PCs, Calls
  <2>2. CASE ~WithinRoot(l)
    BY <1>2, <1>5, <2>2 DEF Resolved
  <2> QED
    BY <2>1, <2>2
<1>6. ASSUME NEW l, NEW name, Found(r, l, name), req[r].pc \in {"lstat", "lstatDecoded"}
      PROVE  RemovalInv'
  <2>1. CASE IsKind(NodeAt(l), "file")
    <3> DEFINE h == [req[r] EXCEPT !.known = NodeAt(l), !.name = name, !.pc = "unlink"]
    <3>1. h.call = req[r].call /\ h.pc = "unlink" /\ h.file = req[r].file
      BY <1>0 DEF States
    <3>2. Become(r, h)
      BY <1>6, <2>1 DEF Found
    <3> QED
      BY <1>1, <1>6, <3>1, <3>2, AccountByGoto DEF Active, PCs, Calls
  <2>2. CASE ~IsKind(NodeAt(l), "file")
    BY <1>2, <1>6, <2>2 DEF Found
  <2> QED
    BY <2>1, <2>2
<1>7. ASSUME NEW l, NEW to \in {"blocked", "verify"}, Opened(r, l, to), req[r].pc = "open"
      PROVE  RemovalInv'
  <2> DEFINE h == [req[r] EXCEPT !.file = NodeAt(l), !.source = l, !.pc = to]
  <2>1. h.call = req[r].call /\ h.pc = to /\ Become(r, h)
    BY <1>0, <1>7 DEF States, Opened
  <2>2. req[r].pc \in Active /\ req[r].call.op = "get"
    BY <1>0, <1>7 DEF HandlerOK, Active, PCs, Calls
  <2> QED
    BY <1>1, <2>1, <2>2, AccountByGoto
<1>8. CASE Canonicalize(r) \/ CanonicalizeDecoded(r)
  <2>1. req[r].pc \in {"canon", "canonDecoded"} /\ req[r].pc \in Active
    BY <1>8 DEF Canonicalize, CanonicalizeDecoded, At, Active, PCs, Calls
  <2>2. CASE \E l, decoded : Resolved(r, l, decoded)
    BY <1>5, <2>1, <2>2
  <2>3. CASE Goto(r, "canonDecoded")
    BY <1>3, <2>1, <2>3
  <2>4. CASE \E status : status # "noContent" /\ Answer(r, status)
    BY <1>2, <2>4
  <2>5. Refusal(Sought(r)) # "noContent"
    BY DEF Refusal
  <2>6. CASE Canonicalize(r)
    BY <2>2, <2>3, <2>4, <2>5, <2>6 DEF Canonicalize
  <2>7. CASE CanonicalizeDecoded(r)
    BY <2>2, <2>4, <2>7 DEF CanonicalizeDecoded
  <2> QED
    BY <1>8, <2>6, <2>7
<1>9. CASE Stat(r)
  <2>1. req[r].pc = "stat" /\ req[r].pc \in Active
    BY <1>9 DEF Stat, At, Active, PCs, Calls
  <2>2. ASSUME NEW l, Become(r, [req[r] EXCEPT !.known = NodeAt(l), !.pc = "open"])
        PROVE  RemovalInv'
    <3> DEFINE h == [req[r] EXCEPT !.known = NodeAt(l), !.pc = "open"]
    <3>1. h.call = req[r].call /\ h.pc = "open" /\ h.file = req[r].file
      BY <1>0 DEF States
    <3> QED
      BY <1>1, <2>1, <2>2, <3>1, AccountByGoto
  <2> QED
    BY <1>2, <1>9, <2>2 DEF Stat
<1>10. CASE Open(r) \/ OpenLate(r) \/ WriterOpens(r)
  <2>1. CASE \E pc \in {"done", "dropped", "held"} : Over(r, pc, "none", None, None)
    BY <1>1, <2>1, AccountByOver
  <2> QED
    BY <1>2, <1>3, <1>7, <1>10, <2>1, OpenSteps DEF Active, PCs, Calls
<1>11. CASE Verify(r)
  <2>1. req[r].call.op = "get"
    BY <1>0, <1>11 DEF Verify, At, HandlerOK, Active, PCs, Calls
  <2>2. CASE Become(r, [req[r] EXCEPT !.pc = "done", !.status = "served"])
    <3> DEFINE h == [req[r] EXCEPT !.pc = "done", !.status = "served"]
    <3>1. h.call = req[r].call /\ h.status = "served"
      BY <1>0 DEF States
    <3>2. Innocent(h)
      BY <2>1, <3>1 DEF Innocent
    <3> QED
      BY <1>1, <2>2, <3>2, AccountByInnocent
  <2> QED
    BY <1>2, <1>11, <2>2 DEF Verify
<1>12. CASE CheckDirectory(r)
  BY <1>2, <1>3, <1>12 DEF CheckDirectory, At, Active, PCs, Calls
<1>13. CASE Lstat(r) \/ LstatDecoded(r)
  <2>1. req[r].pc \in {"lstat", "lstatDecoded"} /\ req[r].pc \in Active
    BY <1>13 DEF Lstat, LstatDecoded, At, Active, PCs, Calls
  <2> QED
    BY <1>2, <1>3, <1>6, <1>13, <2>1 DEF Lstat, LstatDecoded, Refusal
<1>14. CASE ReadDir(r) \/ EndOfDirectory(r) \/ CanonicalizeEntry(r) \/ StatEntry(r)
  BY <1>2, <1>3, <1>14 DEF ReadDir, EndOfDirectory, CanonicalizeEntry, StatEntry,
     At, Active, PCs, Calls
<1>15. CASE NextEntry(r)
  <2>1. CASE Goto(r, "entryCanon")
    BY <1>3, <1>15, <2>1 DEF NextEntry, At, Active, PCs, Calls
  <2>2. CASE UNCHANGED req
    BY <1>1, <2>2 DEF RemovalInv, HasOneName, Removed, Done, At
  <2> QED
    BY <1>15, <2>1, <2>2 DEF NextEntry
<1>16. CASE Fail(r)
  <2>1. CASE Goto(r, "next") /\ req[r].pc \in {"entryCanon", "entryMeta"}
    BY <1>3, <2>1 DEF Active, PCs, Calls
  <2>2. CASE Over(r, "dropped", "none", None, None)
    BY <1>1, <2>2, AccountByOver
  <2> QED
    BY <1>2, <1>16, <2>1, <2>2 DEF Fail
<1>17. CASE Disconnect(r)
  <2>1. CASE \E pc \in {"done", "dropped", "held"} : Over(r, pc, "none", None, None)
    BY <1>1, <2>1, AccountByOver
  <2>2. CASE Become(r, [req[r] EXCEPT !.pc = "orphan", !.status = "none"])
    <3> DEFINE h == [req[r] EXCEPT !.pc = "orphan", !.status = "none"]
    <3>1. h.call = req[r].call /\ h.pc = "orphan" /\ h.file = req[r].file
      BY <1>0 DEF States
    <3>2. req[r].pc \in Active
      BY <1>17, LeaveSteps
    <3> QED
      BY <1>1, <2>2, <3>1, <3>2, AccountByGoto
  <2> QED
    BY <1>17, <2>1, <2>2, LeaveSteps
<1> QED
  BY <1>4, <1>8, <1>9, <1>10, <1>11, <1>12, <1>13, <1>14, <1>15, <1>16, <1>17 DEF Work

\* A removal takes a file that no other delete has, and its answer says so.
LEMMA AccountByUnlink ==
  ASSUME Inv, RemovalInv, NEW r \in Reqs, Unlink(r)
  PROVE  RemovalInv'
<1> DEFINE entry == Entry(req[r].at, req[r].name)
<1> HIDE DEF entry
<1>1. /\ req[r] \in States /\ HandlerOK(req[r]) /\ UNCHANGED fresh
      /\ fs \in [Locs -> Files \cup {None}]
      /\ req[r].pc \in {"unlink", "orphan"} /\ req[r].pc \in Active
  BY DEF Inv, TypeOK, Unlink, Active, PCs, Calls
<1>2. req[r].call # None /\ req[r].call.op = "delete"
  <2>1. req[r].call \in Request /\ req[r].call.op = "delete"
    BY <1>1 DEF HandlerOK, Unlink
  <2> QED
    BY <2>1, ShareAssumption
<1>3. CASE /\ NodeAt(entry) \in Files
           /\ ChangeShare([fs EXCEPT ![entry] = None])
           /\ Conclude(r, "noContent", NodeAt(entry), entry)
  <2> DEFINE f == NodeAt(entry)
  <2>1. entry \in Locs /\ f = fs[entry] /\ f # None /\ f \in Files
    BY <1>3, FileHasLocation
  <2> HIDE DEF f
  <2>2. fs' = [fs EXCEPT ![entry] = None]
    BY <1>3 DEF ChangeShare
  <2>3. PICK pc, status :
          /\ Become(r, Outcome(r, pc, status, f, entry))
          /\ pc = "dropped" \/ (pc = "done" /\ status = "noContent")
    BY <1>3 DEF Conclude, Over, Outcome, f
  <2>4. /\ Outcome(r, pc, status, f, entry).call = req[r].call
        /\ Outcome(r, pc, status, f, entry).file = f
        /\ Outcome(r, pc, status, f, entry).pc = pc
        /\ Outcome(r, pc, status, f, entry).status = status
    BY DEF Outcome, Idle
  <2>5. \A q \in Reqs \ {r} : req'[q] = req[q]
    BY <2>3 DEF Become, Inv, TypeOK
  <2>6. /\ req'[r].call = req[r].call /\ req'[r].file = f
        /\ At(r, "dropped")' \/ Done(r, "noContent")'
    BY <2>3, <2>4 DEF Become, Inv, TypeOK, Done, At
  <2>7. Removed(r)'
    BY <1>2, <2>1, <2>6 DEF Removed
  <2>8. HasOneName(fs)' /\ \A l \in Locs : fs'[l] \notin fresh'
    BY <1>1, <2>1, <2>2, ShareAssumption DEF RemovalInv, HasOneName, Inv, TypeOK
  <2>9. f \in Files \ fresh' /\ \A l \in Locs : fs'[l] # f
    BY <1>1, <2>1, <2>2 DEF RemovalInv, HasOneName
  <2>10. ASSUME NEW q \in Reqs \ {r}
         PROVE  /\ Removed(q)' = Removed(q)
                /\ Done(q, "noContent")' = Done(q, "noContent")
                /\ At(q, "dropped")' = At(q, "dropped")
                /\ req'[q].file = req[q].file
                /\ Removed(q) => req[q].file # f /\ \A l \in Locs : fs'[l] # req[q].file
    <3>1. Removed(q) => /\ req[q].file # None
                        /\ \A l \in Locs : fs[l] # req[q].file
      BY DEF RemovalInv, Removed
    <3> QED
      BY <1>1, <2>1, <2>2, <2>5, <3>1 DEF Removed, Done, At
  <2> QED
    BY <1>1, <2>6, <2>7, <2>8, <2>9, <2>10 DEF RemovalInv
<1>4. CASE /\ Conclude(r, "notFound", None, None) \/ Conclude(r, "unavailable", None, None)
           /\ UNCHANGED <<fs, scan>>
  <2>1. PICK pc, status : status # "noContent" /\ Over(r, pc, status, None, None)
    BY <1>4 DEF Conclude
  <2> QED
    BY <1>1, <1>4, <2>1, AccountByOver
<1> QED
  BY <1>3, <1>4 DEF Unlink, entry

\* Other programs neither bring a removed file back nor give a file two names.
LEMMA AccountByOthers ==
  ASSUME Inv, RemovalInv, Others
  PROVE  RemovalInv'
<1>0. /\ UNCHANGED req /\ EnvLocs \subseteq Locs
      /\ fs \in [Locs -> Files \cup {None}] /\ fresh \in SUBSET Files
  BY ShareAssumption DEF Others, CreateEntry, RemoveEntry, MoveEntry, Inv, TypeOK
<1>1. ASSUME HasOneName(fs'), \A l \in Locs : fs'[l] \notin fresh', fresh' \subseteq fresh,
             \A l \in Locs : \/ fs'[l] = None
                             \/ fs'[l] \in fresh
                             \/ \E k \in Locs : fs'[l] = fs[k]
      PROVE  RemovalInv'
  <2>1. \A q \in Reqs : /\ Removed(q)' = Removed(q)
                        /\ Done(q, "noContent")' = Done(q, "noContent")
                        /\ At(q, "dropped")' = At(q, "dropped")
                        /\ req'[q].file = req[q].file
    BY <1>0 DEF Removed, Done, At
  <2>2. ASSUME NEW q \in Reqs, Removed(q)
        PROVE  /\ req[q].file \in Files \ fresh'
               /\ \A l \in Locs : fs'[l] # req[q].file
    <3>1. /\ req[q].file # None /\ req[q].file \in Files \ fresh
          /\ \A l \in Locs : fs[l] # req[q].file
      BY <2>2 DEF RemovalInv, Removed
    <3> QED
      BY <1>1, <3>1
  <2> QED
    BY <1>1, <2>1, <2>2 DEF RemovalInv
<1>2. ASSUME NEW l \in EnvLocs, NEW f \in Files, CreateEntry(l, f)
      PROVE  RemovalInv'
  <2>1. f \in fresh /\ f # None /\ fs' = [fs EXCEPT ![l] = f] /\ fresh' = fresh \ {f}
    BY <1>2, ShareAssumption DEF CreateEntry, ChangeShare
  <2>2. \A k \in Locs : fs'[k] = IF k = l THEN f ELSE fs[k]
    BY <1>0, <2>1
  <2>3. HasOneName(fs')
    BY <1>0, <2>1, <2>2 DEF RemovalInv, HasOneName
  <2>4. \A k \in Locs : fs'[k] \notin fresh'
    BY <1>0, <2>1, <2>2 DEF RemovalInv
  <2> QED
    BY <1>1, <2>1, <2>2, <2>3, <2>4
<1>3. ASSUME NEW l \in EnvLocs, RemoveEntry(l)
      PROVE  RemovalInv'
  <2>1. fs' = [fs EXCEPT ![l] = None] /\ fresh' = fresh
    BY <1>3 DEF RemoveEntry, ChangeShare
  <2>2. \A k \in Locs : fs'[k] = IF k = l THEN None ELSE fs[k]
    BY <1>0, <2>1
  <2>3. HasOneName(fs')
    BY <1>0, <2>2 DEF RemovalInv, HasOneName
  <2>4. \A k \in Locs : fs'[k] \notin fresh'
    BY <1>0, <2>1, <2>2, ShareAssumption DEF RemovalInv
  <2> QED
    BY <1>1, <2>1, <2>2, <2>3, <2>4
<1>4. ASSUME NEW l \in EnvLocs, NEW k \in EnvLocs, MoveEntry(l, k)
      PROVE  RemovalInv'
  <2>1. fs' = [fs EXCEPT ![l] = None, ![k] = fs[l]] /\ fresh' = fresh /\ l # k
    BY <1>4 DEF MoveEntry, ChangeShare
  <2>2. \A m \in Locs : fs'[m] = IF m = k THEN fs[l] ELSE IF m = l THEN None ELSE fs[m]
    BY <1>0, <2>1
  <2>3. HasOneName(fs')
    BY <1>0, <2>1, <2>2 DEF RemovalInv, HasOneName
  <2>4. \A m \in Locs : fs'[m] \notin fresh'
    BY <1>0, <2>1, <2>2, ShareAssumption DEF RemovalInv
  <2> QED
    BY <1>0, <1>1, <2>1, <2>2, <2>3, <2>4
<1> QED
  BY <1>2, <1>3, <1>4 DEF Others

LEMMA AccountKept ==
  ASSUME Inv, RemovalInv, [Next]_vars
  PROVE  RemovalInv'
<1>1. CASE UNCHANGED vars
  BY <1>1 DEF vars, RemovalInv, HasOneName, Removed, Done, At
<1>2. CASE Next
  <2>1. CASE \E r \in Reqs : Unlink(r)
    BY <2>1, AccountByUnlink
  <2>2. CASE ~\E r \in Reqs : Unlink(r)
    BY <1>2, <2>2, AccountByWork, AccountByOthers DEF Next
  <2> QED
    BY <2>1, <2>2
<1> QED
  BY <1>1, <1>2

\* A file that a delete removed is gone, the answer says so unless the client has
\* left, and no two deletes removed the same one, for any number of requests and
\* whatever other programs do to the share (delete_file).
THEOREM RemovalsAreAccounted == Spec => []RemovalAccounted
<1>1. Init => RemovalInv
  <2> SUFFICES ASSUME Init
               PROVE  RemovalInv
    OBVIOUS
  <2>1. HasOneName(fs) /\ \A l \in Locs : fs[l] \notin fresh
    BY ShareAssumption DEF Init
  <2>2. \A r \in Reqs : req[r].call = None /\ req[r].pc = "idle"
    BY DEF Init, Idle
  <2> QED
    BY <2>1, <2>2 DEF RemovalInv, Removed, Done, At
<1>2. Inv /\ RemovalInv /\ [Next]_vars => RemovalInv'
  BY AccountKept
<1>3. RemovalInv => RemovalAccounted
  BY DEF RemovalInv, RemovalAccounted, Removed
<1> QED
  BY <1>1, <1>2, <1>3, InvHolds, PTL DEF Spec

--------------------------------------------------------------------------------
(* Answers. *)

\* The two spellings under which the name of a file to delete is looked up.
Spelled(call) == {Last(call.path), Decoded[Last(call.path)]}

\* A handler before the removal, or what is left of it.
Removes(h) == h.pc = "unlink" \/ (h.pc = "orphan" /\ h.call.op = "delete")

\* What the gate has granted, a handler at work and one that reached a file have.
Cleared(h) ==
  /\ \/ h.pc \in Active
     \/ h.source # None
     \/ h.pc = "done" /\ h.status \in {"served", "noContent"}
     => /\ h.call \in Request /\ h.call.path \in Path
        /\ IsPathVisible(Access, h.call.groups, h.call.path)
        /\ h.call.op = "delete" =>
             h.call.path # <<>> /\ CanDelete(Access, h.call.groups, h.call.path)
  /\ Removes(h) => h.name \in Spelled(h.call)
  /\ h.call # None /\ h.call.op = "delete" /\ h.source # None =>
       Last(h.source) \in Spelled(h.call)
  /\ h.pc = "done" /\ h.status = "forbidden" =>
       ~CanDelete(Access, h.call.groups, h.call.path)

\* A row of a file offers what the rules allow for the path it stands for.
RowsFit(h, rows) ==
  \A row \in rows : row.kind = "file" =>
    (row.canDelete <=>
       CanDelete(Access, h.call.groups, Append(h.call.path, row.name)))

AnswersInv == \A r \in Reqs : Cleared(req[r]) /\ RowsFit(req[r], scan[r].rows)

--------------------------------------------------------------------------------
(* Steps of one handler. *)

LEMMA AnswersByHandler ==
  ASSUME Inv, AnswersInv, NEW r \in Reqs, NEW h, Become(r, h), Cleared(h),
         RowsFit(h, scan'[r].rows),
         \A q \in Reqs \ {r} : scan'[q].rows \in {scan[q].rows, {}}
  PROVE  AnswersInv'
<1>1. req'[r] = h /\ \A q \in Reqs \ {r} : req'[q] = req[q]
  BY DEF Become, Inv, TypeOK
<1>2. ASSUME NEW q \in Reqs
      PROVE  Cleared(req'[q]) /\ RowsFit(req'[q], scan'[q].rows)
  BY <1>1 DEF AnswersInv, RowsFit
<1> QED
  BY <1>2 DEF AnswersInv, Cleared, RowsFit

\* A handler that goes on, with the names it looks up.
LEMMA AnswersByStep ==
  ASSUME Inv, AnswersInv, NEW r \in Reqs, req[r].pc \in Active, NEW h, Become(r, h),
         h.call = req[r].call, h.pc \in Active,
         h.source = req[r].source \/ req[r].call.op = "get",
         Removes(h) => h.name \in Spelled(req[r].call),
         RowsFit(h, scan'[r].rows),
         \A q \in Reqs \ {r} : scan'[q].rows \in {scan[q].rows, {}}
  PROVE  AnswersInv'
<1>1. Cleared(req[r])
  BY DEF AnswersInv
<1>2. Cleared(h)
  BY <1>1 DEF Cleared, Active, Removes
<1> QED
  BY <1>2, AnswersByHandler

LEMMA RowsStay ==
  ASSUME AnswersInv, NEW r \in Reqs, NEW h, h.call = req[r].call,
         NEW rows, rows \in {scan[r].rows, {}}
  PROVE  RowsFit(h, rows)
BY DEF AnswersInv, RowsFit

\* A handler that is over without having reached a file.
LEMMA AnswersByOver ==
  ASSUME Inv, AnswersInv, NEW r \in Reqs, NEW pc \in {"done", "dropped", "held"}, NEW status,
         status \notin {"served", "noContent", "forbidden"}, Over(r, pc, status, None, None),
         \A q \in Reqs : scan'[q].rows \in {scan[q].rows, {}}
  PROVE  AnswersInv'
<1> DEFINE h == Outcome(r, pc, status, None, None)
<1>1. /\ h.call = req[r].call /\ h.pc = pc /\ h.status = status /\ h.source = None
      /\ Become(r, h)
  BY DEF Outcome, Idle, Over
<1> HIDE DEF h
<1>2. Cleared(h)
  BY <1>1 DEF Cleared, Active, Removes
<1>3. RowsFit(h, scan'[r].rows)
  BY <1>1, RowsStay
<1> QED
  BY <1>1, <1>2, <1>3, AnswersByHandler

LEMMA AnswersByGoto ==
  ASSUME Inv, AnswersInv, NEW r \in Reqs, req[r].pc \in Active, NEW pc, Goto(r, pc),
         pc \in Active \ {"unlink", "orphan"},
         \A q \in Reqs : scan'[q].rows \in {scan[q].rows, {}}
  PROVE  AnswersInv'
<1> DEFINE h == [req[r] EXCEPT !.pc = pc]
<1>1. h.call = req[r].call /\ h.pc = pc /\ h.source = req[r].source /\ Become(r, h)
  BY DEF Inv, TypeOK, States, Goto
<1> HIDE DEF h
<1>2. RowsFit(h, scan'[r].rows)
  BY <1>1, RowsStay
<1>3. ~Removes(h)
  BY <1>1 DEF Removes
<1> QED
  BY <1>1, <1>2, <1>3, AnswersByStep

\* The streams lose rows only with their handler, and gain them only in StatEntry.
LEMMA TrackKeepsRows ==
  ASSUME TypeOK, Track
  PROVE  \A q \in Reqs : scan'[q].rows = scan[q].rows
<1>1. ASSUME NEW q \in Reqs
      PROVE  scan'[q].rows = scan[q].rows
  <2>1. scan[q] \in Scans
    BY DEF TypeOK
  <2> QED
    BY <2>1 DEF Track, Scans
<1> QED
  BY <1>1

LEMMA RowsKept ==
  ASSUME TypeOK, NEW r \in Reqs,
         \/ \E call \in Requests[r] : Arrive(r, call)
         \/ Work(r) /\ ~StatEntry(r)
         \/ ReadDir(r) \/ CanonicalizeEntry(r)
         \/ WriterOpens(r) \/ Fail(r) \/ Disconnect(r)
  PROVE  \A q \in Reqs : scan'[q].rows \in {scan[q].rows, {}}
<1>1. scan \in [Reqs -> Scans] /\ NoScan.rows = {} /\ \A q \in Reqs : scan[q] \in Scans
  BY DEF TypeOK, NoScan
<1>2. CASE UNCHANGED scan
  BY <1>2
<1>3. CASE Track
  BY <1>3, TrackKeepsRows
<1>4. CASE scan' = [scan EXCEPT ![r] = NoScan]
  BY <1>1, <1>4
<1>5. ASSUME NEW s, s.rows \in {scan[r].rows, {}}, scan' = [scan EXCEPT ![r] = s]
      PROVE  \A q \in Reqs : scan'[q].rows \in {scan[q].rows, {}}
  BY <1>1, <1>5
<1>6. CASE ReadDir(r)
  <2> DEFINE l == Resolve(req[r].at)
             s == [NoScan EXCEPT !.home = l, !.dir = NodeAt(l),
                                 !.may = Children(fs, l), !.must = Plain(fs, l)]
  <2>1. s.rows = {}
    BY DEF NoScan
  <2>2. UNCHANGED scan \/ scan' = [scan EXCEPT ![r] = s]
    BY <1>6 DEF ReadDir
  <2> HIDE DEF s
  <2> QED
    BY <1>2, <1>5, <2>1, <2>2
<1>7. CASE NextEntry(r)
  <2>1. PICK n : \/ scan' = [scan EXCEPT ![r].seen = @ \cup {n}, ![r].item = n]
                 \/ scan' = [scan EXCEPT ![r].seen = @ \cup {n}]
    BY <1>7 DEF NextEntry
  <2> QED
    BY <1>1, <2>1 DEF Scans
<1>8. CASE EndOfDirectory(r)
  BY <1>1, <1>8 DEF EndOfDirectory, Scans
<1>9. CASE CanonicalizeEntry(r)
  <2>1. PICK l : \/ scan' = [scan EXCEPT ![r].spot = l]
                 \/ scan' = [scan EXCEPT ![r].item = None]
    BY <1>9 DEF CanonicalizeEntry
  <2> QED
    BY <1>1, <2>1 DEF Scans
<1>10. CASE Fail(r)
  <2>1. \/ UNCHANGED scan
        \/ scan' = [scan EXCEPT ![r] = NoScan]
        \/ scan' = [scan EXCEPT ![r].lost = @ \cup {scan[r].item},
                                ![r].item = None, ![r].spot = Root]
    BY <1>10 DEF Fail
  <2> QED
    BY <1>1, <1>2, <1>4, <2>1 DEF Scans
<1>11. CASE Unlink(r)
  BY <1>2, <1>3, <1>11 DEF Unlink, ChangeShare
<1> QED
  BY <1>2, <1>4, <1>6, <1>7, <1>8, <1>9, <1>10, <1>11
  DEF Work, Arrive, Canonicalize, CanonicalizeDecoded, Stat, Open, OpenLate, Verify,
      CheckDirectory, Lstat, LstatDecoded, WriterOpens, Disconnect

--------------------------------------------------------------------------------
(* The actions. *)

LEMMA AnswersByArrive ==
  ASSUME Inv, AnswersInv, NEW r \in Reqs, NEW call \in Requests[r], Arrive(r, call)
  PROVE  AnswersInv'
<1> DEFINE valid == Validated(call)
           verdict == Screen(valid)
           h == [Idle EXCEPT !.call = valid, !.status = verdict,
                             !.pc = IF verdict = "pending" THEN "canon" ELSE "done"]
<1>1. valid \in Request /\ valid # None
  BY ValidatedTyped, ShareAssumption
<1> HIDE DEF valid
<1>2. /\ h.call = valid /\ h.status = verdict /\ h.source = None
      /\ h.pc = IF verdict = "pending" THEN "canon" ELSE "done"
  BY DEF Idle
<1>3. Become(r, h)
  BY DEF Arrive, valid
<1> HIDE DEF h
<1>4. verdict = "pending" =>
        /\ valid.path \in Path /\ IsPathVisible(Access, valid.groups, valid.path)
        /\ valid.op = "delete" =>
             valid.path # <<>> /\ CanDelete(Access, valid.groups, valid.path)
  BY <1>1 DEF Screen, Request, Ops
<1>5. /\ verdict = "forbidden" => ~CanDelete(Access, valid.groups, valid.path)
      /\ verdict \notin {"served", "noContent"}
  BY DEF Screen
<1>6. Cleared(h)
  BY <1>1, <1>2, <1>4, <1>5 DEF Cleared, Active, Removes
<1>7. scan'[r].rows = {} /\ \A q \in Reqs \ {r} : scan'[q].rows = scan[q].rows
  BY DEF Arrive, NoScan, Inv, TypeOK
<1>8. RowsFit(h, scan'[r].rows)
  BY <1>7 DEF RowsFit
<1> QED
  BY <1>3, <1>6, <1>7, <1>8, AnswersByHandler

\* The answers to lookups that reach nothing.
LEMMA AnswersByAnswer ==
  ASSUME Inv, AnswersInv, NEW r \in Reqs, NEW status, Answer(r, status),
         status \notin {"served", "noContent", "forbidden"},
         \A q \in Reqs : scan'[q].rows \in {scan[q].rows, {}}
  PROVE  AnswersInv'
BY AnswersByOver DEF Answer

LEMMA AnswersByLookup ==
  ASSUME Inv, AnswersInv, NEW r \in Reqs,
         \/ Canonicalize(r) \/ CanonicalizeDecoded(r)
         \/ Stat(r) \/ Open(r) \/ OpenLate(r) \/ WriterOpens(r) \/ Verify(r)
         \/ CheckDirectory(r) \/ Lstat(r) \/ LstatDecoded(r)
  PROVE  AnswersInv'
<1>0. /\ req[r] \in States /\ HandlerOK(req[r]) /\ Cleared(req[r])
      /\ \A q \in Reqs : scan'[q].rows \in {scan[q].rows, {}}
  <2>1. \A q \in Reqs : scan'[q].rows = scan[q].rows
    BY OpenSteps DEF Canonicalize, CanonicalizeDecoded, Stat, Verify, CheckDirectory,
       Lstat, LstatDecoded
  <2> QED
    BY <2>1 DEF Inv, TypeOK, AnswersInv
<1>1. ASSUME NEW h, Become(r, h), h.call = req[r].call, h.pc \in Active,
             req[r].pc \in Active, h.source = req[r].source \/ req[r].call.op = "get",
             Removes(h) => h.name \in Spelled(req[r].call)
      PROVE  AnswersInv'
  <2>1. RowsFit(h, scan'[r].rows)
    BY <1>0, <1>1, RowsStay
  <2> QED
    BY <1>0, <1>1, <2>1, AnswersByStep
<1>2. ASSUME NEW l, NEW decoded, req[r].pc \in {"canon", "canonDecoded"},
             Resolved(r, l, decoded)
      PROVE  AnswersInv'
  <2>1. CASE WithinRoot(l)
    <3> DEFINE pc == IF req[r].call.op = "get" THEN "stat" ELSE "isDir"
               h == [req[r] EXCEPT !.at = l, !.decoded = decoded, !.pc = pc]
    <3>1. Become(r, h)
      BY <1>2, <2>1 DEF Resolved
    <3>2. pc \in {"stat", "isDir"}
      OBVIOUS
    <3> HIDE DEF pc
    <3>3. h.call = req[r].call /\ h.pc = pc /\ h.source = req[r].source
      BY <1>0 DEF States
    <3> HIDE DEF h
    <3> QED
      BY <1>1, <1>2, <3>1, <3>2, <3>3 DEF Active, PCs, Calls, Removes
  <2>2. CASE ~WithinRoot(l)
    BY <1>0, <1>2, <2>2, AnswersByAnswer DEF Resolved
  <2> QED
    BY <2>1, <2>2
<1>3. CASE Canonicalize(r) \/ CanonicalizeDecoded(r)
  <2>1. req[r].pc \in {"canon", "canonDecoded"} /\ req[r].pc \in Active
    BY <1>3 DEF Canonicalize, CanonicalizeDecoded, At, Active, PCs, Calls
  <2>2. CASE \E l, decoded : Resolved(r, l, decoded)
    BY <1>2, <2>1, <2>2
  <2>3. CASE Goto(r, "canonDecoded")
    BY <1>0, <2>1, <2>3, AnswersByGoto DEF Active, PCs, Calls
  <2>4. CASE \E status \in {"badRequest", "notFound", "unavailable"} : Answer(r, status)
    BY <1>0, <2>4, AnswersByAnswer
  <2>5. Refusal(Sought(r)) \in {"badRequest", "notFound", "unavailable"}
    BY DEF Refusal
  <2>6. CASE Canonicalize(r)
    BY <2>2, <2>3, <2>4, <2>5, <2>6 DEF Canonicalize
  <2>7. CASE CanonicalizeDecoded(r)
    BY <2>2, <2>4, <2>7 DEF CanonicalizeDecoded
  <2> QED
    BY <1>3, <2>6, <2>7
<1>4. CASE Stat(r)
  <2>1. req[r].pc = "stat" /\ req[r].pc \in Active
    BY <1>4 DEF Stat, At, Active, PCs, Calls
  <2>2. ASSUME NEW l, Become(r, [req[r] EXCEPT !.known = NodeAt(l), !.pc = "open"])
        PROVE  AnswersInv'
    <3> DEFINE h == [req[r] EXCEPT !.known = NodeAt(l), !.pc = "open"]
    <3>1. h.call = req[r].call /\ h.pc = "open" /\ h.source = req[r].source
      BY <1>0 DEF States
    <3> HIDE DEF h
    <3> QED
      BY <1>1, <2>1, <2>2, <3>1 DEF h, Active, PCs, Calls, Removes
  <2> QED
    BY <1>0, <1>4, <2>2, AnswersByAnswer DEF Stat
<1>5. CASE Open(r) \/ OpenLate(r) \/ WriterOpens(r)
  <2>1. ASSUME NEW l, NEW to \in {"blocked", "verify"}, Opened(r, l, to), req[r].pc = "open"
        PROVE  AnswersInv'
    <3> DEFINE h == [req[r] EXCEPT !.file = NodeAt(l), !.source = l, !.pc = to]
    <3>1. h.call = req[r].call /\ h.pc = to /\ Become(r, h)
      BY <1>0, <2>1 DEF States, Opened
    <3>2. req[r].pc \in Active /\ req[r].call.op = "get"
      BY <1>0, <2>1 DEF HandlerOK, Active, PCs, Calls
    <3> HIDE DEF h
    <3> QED
      BY <1>1, <3>1, <3>2 DEF Active, PCs, Calls, Removes
  <2>2. CASE \E pc \in {"done", "dropped", "held"} : Over(r, pc, "none", None, None)
    BY <1>0, <2>2, AnswersByOver
  <2>3. CASE req[r].pc = "blocked" /\ Goto(r, "verify")
    BY <1>0, <2>3, AnswersByGoto DEF Active, PCs, Calls
  <2> QED
    BY <1>0, <1>5, <2>1, <2>2, <2>3, OpenSteps, AnswersByAnswer
<1>6. CASE Verify(r)
  <2>1. req[r].pc = "verify" /\ req[r].pc \in Active /\ req[r].call.op = "get"
    BY <1>0, <1>6 DEF Verify, At, HandlerOK, Active, PCs, Calls
  <2>2. CASE /\ IsKind(req[r].file, "file") /\ SameInode(req[r].file, req[r].known)
             /\ Become(r, [req[r] EXCEPT !.pc = "done", !.status = "served"])
    <3> DEFINE h == [req[r] EXCEPT !.pc = "done", !.status = "served"]
    <3>1. /\ h.call = req[r].call /\ h.pc = "done" /\ h.status = "served"
          /\ h.file = req[r].file /\ h.known = req[r].known
      BY <1>0 DEF States
    <3> HIDE DEF h
    <3>2. Cleared(h)
      BY <1>0, <2>1, <2>2, <3>1 DEF Cleared, Active, Removes
    <3>3. RowsFit(h, scan'[r].rows)
      BY <1>0, <3>1, RowsStay
    <3> QED
      BY <1>0, <2>2, <3>2, <3>3, AnswersByHandler DEF h
  <2> QED
    BY <1>0, <1>6, <2>2, AnswersByAnswer DEF Verify
<1>7. CASE CheckDirectory(r)
  <2>1. req[r].pc \in Active
    BY <1>7 DEF CheckDirectory, At, Active, PCs, Calls
  <2>2. \/ \E pc \in {"readDir", "lstat"} : Goto(r, pc)
        \/ Answer(r, "notFound")
    BY <1>7 DEF CheckDirectory
  <2> QED
    BY <1>0, <2>1, <2>2, AnswersByGoto, AnswersByAnswer DEF Active, PCs, Calls
<1>8. CASE Lstat(r) \/ LstatDecoded(r)
  <2>1. req[r].pc \in {"lstat", "lstatDecoded"} /\ req[r].pc \in Active
    BY <1>8 DEF Lstat, LstatDecoded, At, Active, PCs, Calls
  <2>2. ASSUME NEW l, NEW name \in Spelled(req[r].call), Found(r, l, name)
        PROVE  AnswersInv'
    <3>1. CASE Answer(r, "badRequest")
      BY <1>0, <3>1, AnswersByAnswer
    <3>2. CASE Become(r, [req[r] EXCEPT !.known = NodeAt(l), !.name = name, !.pc = "unlink"])
      <4> DEFINE h == [req[r] EXCEPT !.known = NodeAt(l), !.name = name, !.pc = "unlink"]
      <4>1. /\ h.call = req[r].call /\ h.pc = "unlink" /\ h.source = req[r].source
            /\ h.name = name
        BY <1>0 DEF States
      <4> HIDE DEF h
      <4> QED
        BY <1>1, <2>1, <2>2, <3>2, <4>1 DEF h, Active, PCs, Calls
    <3> QED
      BY <2>2, <3>1, <3>2 DEF Found
  <2>3. CASE Goto(r, "lstatDecoded")
    BY <1>0, <2>1, <2>3, AnswersByGoto DEF Active, PCs, Calls
  <2>4. CASE \E status \in {"badRequest", "notFound", "unavailable"} : Answer(r, status)
    BY <1>0, <2>4, AnswersByAnswer
  <2>5. \A p : Refusal(p) \in {"badRequest", "notFound", "unavailable"}
    BY DEF Refusal
  <2>6. CASE Lstat(r)
    BY <2>2, <2>3, <2>4, <2>5, <2>6 DEF Lstat, Spelled, Asked
  <2>7. CASE LstatDecoded(r)
    BY <2>2, <2>4, <2>7 DEF LstatDecoded, Spelled, Asked
  <2> QED
    BY <1>8, <2>6, <2>7
<1> QED
  BY <1>3, <1>4, <1>5, <1>6, <1>7, <1>8

NoDotOn(l) == \A i \in 1..Len(l) : l[i] # Dot

LEMMA PlacesTyped ==
  /\ Places \subseteq Seq(OsNames) /\ Places \cap {Missing, Broken} = {}
  /\ \A l \in Places : NoDotOn(l)
<1>1. AboveRoot \subseteq Seq(OsNames)
  BY ShareAssumption DEF AboveRoot
<1>2. \A l \in Places : NoDotOn(l)
  BY ShareAssumption DEF NoDotOn
<1> QED
  BY <1>1, <1>2, ShareAssumption DEF Places

\* What a delete removes has the name it looked up.
LEMMA EntryNamed ==
  ASSUME fs \in [Locs -> Files \cup {None}], NEW dir, NEW name \in OsNames \cup {None},
         NodeAt(Entry(dir, name)) \in Files, ~IsDir(Entry(dir, name))
  PROVE  Last(Entry(dir, name)) = name
<1> DEFINE d == Resolve(dir)
           entry == Entry(dir, name)
<1>1. entry = IF d \in {Missing, Broken} THEN d
              ELSE IF ~IsDir(d) THEN Broken
              ELSE IF name = Dot THEN d
              ELSE IF NodeAt(Append(d, name)) = None THEN Missing
              ELSE Append(d, name)
  BY DEF Entry
<1>2. entry \in Seq(OsNames)
  BY FileHasLocation, ShareAssumption
<1>3. entry \notin {Missing, Broken}
  BY <1>2, ShareAssumption
<1> HIDE DEF d, entry
<1>4. IsDir(d) /\ entry = Append(d, name)
  BY <1>1, <1>3 DEF entry
<1>5. d \in Seq(OsNames)
  <2>1. d \in Places
    BY <1>4, ShareAssumption DEF IsDir, IsKind, NodeAt, NodeIn, Places
  <2> QED
    BY <2>1, PlacesTyped
<1>6. d \in Seq(OsNames \cup {None})
  BY <1>5
<1> QED
  BY <1>4, <1>6 DEF Last, entry

LEMMA UnlinkKeepsRows ==
  ASSUME TypeOK, NEW r \in Reqs, Unlink(r)
  PROVE  \A q \in Reqs : scan'[q].rows \in {scan[q].rows, {}}
BY TrackKeepsRows DEF Unlink, ChangeShare

LEMMA AnswersByUnlink ==
  ASSUME Inv, AnswersInv, NEW r \in Reqs, Unlink(r)
  PROVE  AnswersInv'
<1> DEFINE entry == Entry(req[r].at, req[r].name)
<1>0. /\ req[r] \in States /\ Cleared(req[r]) /\ fs \in [Locs -> Files \cup {None}]
      /\ Removes(req[r]) /\ req[r].pc \in Active
      /\ \A q \in Reqs : scan'[q].rows \in {scan[q].rows, {}}
  BY UnlinkKeepsRows DEF Removes, Inv, AnswersInv, TypeOK, Unlink, At, Active, PCs, Calls
<1>1. req[r].name \in Spelled(req[r].call) /\ req[r].name \in OsNames \cup {None}
  BY <1>0 DEF Cleared, States
<1>2. NodeAt(entry) \in Files /\ ~IsDir(entry) => Last(entry) = req[r].name
  BY <1>0, <1>1, EntryNamed
<1> HIDE DEF entry
<1>3. CASE NodeAt(entry) \in Files /\ ~IsDir(entry) /\ Conclude(r, "noContent", NodeAt(entry), entry)
  <2>1. PICK pc, status :
          /\ Become(r, Outcome(r, pc, status, NodeAt(entry), entry))
          /\ pc = "dropped" \/ (pc = "done" /\ status = "noContent")
    BY <1>3 DEF Conclude, Over, Outcome
  <2> DEFINE h == Outcome(r, pc, status, NodeAt(entry), entry)
  <2>2. h.call = req[r].call /\ h.pc = pc /\ h.status = status /\ h.source = entry
    BY DEF Outcome, Idle
  <2> HIDE DEF h
  <2>3. Cleared(h)
    BY <1>0, <1>1, <1>2, <1>3, <2>1, <2>2 DEF Cleared, Active, Removes
  <2>4. RowsFit(h, scan'[r].rows)
    BY <1>0, <2>2, RowsStay
  <2> QED
    BY <1>0, <2>1, <2>3, <2>4, AnswersByHandler DEF h
<1>4. CASE Conclude(r, "notFound", None, None) \/ Conclude(r, "unavailable", None, None)
  BY <1>0, <1>4, AnswersByOver DEF Conclude
<1> QED
  BY <1>3, <1>4 DEF Unlink, entry

LEMMA AnswersByListing ==
  ASSUME Inv, AnswersInv, NEW r \in Reqs,
         \/ ReadDir(r) \/ NextEntry(r) \/ EndOfDirectory(r)
         \/ CanonicalizeEntry(r) \/ StatEntry(r)
  PROVE  AnswersInv'
<1>0. /\ req[r].pc \in Active /\ scan \in [Reqs -> Scans] /\ req[r] \in States
      /\ ~StatEntry(r) => \A q \in Reqs : scan'[q].rows \in {scan[q].rows, {}}
  BY RowsKept DEF Inv, TypeOK, Work, ReadDir, NextEntry, EndOfDirectory, CanonicalizeEntry,
     StatEntry, At, Active, PCs, Calls
<1>1. CASE StatEntry(r)
  <2> DEFINE h == [req[r] EXCEPT !.pc = "next"]
             l == Resolve(scan[r].spot)
             row == Row(r, NodeAt(l))
  <2>1. Become(r, h) /\ h.call = req[r].call /\ h.pc = "next" /\ h.source = req[r].source
    BY <1>0, <1>1 DEF StatEntry, Goto, States
  <2> HIDE DEF h, l
  <2>2. /\ scan'[r].rows \subseteq scan[r].rows \cup {row}
        /\ \A q \in Reqs \ {r} : scan'[q] = scan[q]
    BY <1>0, <1>1 DEF StatEntry, Scans, l
  <2>3. row.kind = "file" =>
          (row.canDelete <=>
       CanDelete(Access, h.call.groups, Append(h.call.path, row.name)))
    BY <2>1 DEF Row, ChildPath, Asked
  <2> HIDE DEF row
  <2>4. RowsFit(h, scan'[r].rows)
    BY <2>1, <2>2, <2>3 DEF RowsFit, AnswersInv
  <2> QED
    BY <1>0, <2>1, <2>2, <2>4, AnswersByStep DEF Active, PCs, Calls, Removes
<1>2. CASE ReadDir(r) \/ EndOfDirectory(r) \/ CanonicalizeEntry(r)
  <2>1. \/ \E pc \in {"next", "entryMeta"} : Goto(r, pc)
        \/ \E status \in {"unavailable", "listed"} : Answer(r, status)
    BY <1>2 DEF ReadDir, EndOfDirectory, CanonicalizeEntry
  <2>2. ~StatEntry(r)
    BY <1>2 DEF ReadDir, EndOfDirectory, CanonicalizeEntry, StatEntry, At
  <2> QED
    BY <1>0, <2>1, <2>2, AnswersByGoto, AnswersByAnswer DEF Active, PCs, Calls
<1>3. CASE NextEntry(r)
  <2>1. ~StatEntry(r)
    BY <1>3 DEF NextEntry, StatEntry, At
  <2>2. CASE Goto(r, "entryCanon")
    BY <1>0, <2>1, <2>2, AnswersByGoto DEF Active, PCs, Calls
  <2>3. CASE UNCHANGED req
    BY <1>0, <2>1, <2>3 DEF AnswersInv, Cleared, RowsFit
  <2> QED
    BY <1>3, <2>2, <2>3 DEF NextEntry
<1> QED
  BY <1>1, <1>2, <1>3

LEMMA AnswersByFailure ==
  ASSUME Inv, AnswersInv, NEW r \in Reqs, Fail(r) \/ Disconnect(r)
  PROVE  AnswersInv'
<1>0. /\ req[r].pc \in Active /\ req[r] \in States /\ Cleared(req[r])
      /\ \A q \in Reqs : scan'[q].rows \in {scan[q].rows, {}}
  BY RowsKept DEF Inv, TypeOK, AnswersInv, Fail, Disconnect, At, Active, PCs, Calls
<1>1. CASE Fail(r)
  <2>1. \/ Goto(r, "next")
        \/ Over(r, "dropped", "none", None, None)
        \/ \E status \in {"notFound", "unavailable"} : Answer(r, status)
    BY <1>1 DEF Fail
  <2> QED
    BY <1>0, <2>1, AnswersByGoto, AnswersByOver, AnswersByAnswer DEF Active, PCs, Calls
<1>2. CASE Disconnect(r)
  <2>1. CASE \E pc \in {"done", "dropped", "held"} : Over(r, pc, "none", None, None)
    BY <1>0, <2>1, AnswersByOver
  <2>2. CASE /\ req[r].pc \in {"open", "unlink"}
             /\ Become(r, [req[r] EXCEPT !.pc = "orphan", !.status = "none"])
    <3> DEFINE h == [req[r] EXCEPT !.pc = "orphan", !.status = "none"]
    <3>1. /\ h.call = req[r].call /\ h.pc = "orphan" /\ h.source = req[r].source
          /\ h.name = req[r].name
      BY <1>0 DEF States
    <3> HIDE DEF h
    <3>2. Removes(h) => h.name \in Spelled(req[r].call)
      <4>1. HandlerOK(req[r])
        BY DEF Inv
      <4>2. Removes(h) => req[r].pc = "unlink"
        BY <2>2, <3>1, <4>1 DEF Removes, HandlerOK, Active, PCs, Calls
      <4> QED
        BY <1>0, <3>1, <4>2 DEF Cleared, Removes
    <3>3. RowsFit(h, scan'[r].rows)
      BY <1>0, <3>1, RowsStay
    <3> QED
      BY <1>0, <2>2, <3>1, <3>2, <3>3, AnswersByStep DEF h, Active, PCs, Calls
  <2> QED
    BY <1>2, <2>1, <2>2, LeaveSteps
<1> QED
  BY <1>1, <1>2

LEMMA AnswersKept ==
  ASSUME Inv, AnswersInv, [Next]_vars
  PROVE  AnswersInv'
<1>1. CASE UNCHANGED vars
  BY <1>1 DEF vars, AnswersInv, Cleared, RowsFit, Removes
<1>2. CASE Others
  <2>1. UNCHANGED req /\ Track
    BY <1>2 DEF Others, CreateEntry, RemoveEntry, MoveEntry, ChangeShare
  <2>2. \A q \in Reqs : scan'[q].rows = scan[q].rows
    BY <2>1, TrackKeepsRows DEF Inv
  <2> QED
    BY <2>1, <2>2 DEF AnswersInv, Cleared, RowsFit, Removes
<1> QED
  BY <1>1, <1>2, AnswersByArrive, AnswersByLookup, AnswersByUnlink, AnswersByListing,
     AnswersByFailure DEF Next, Work

LEMMA AnswersHold == Spec => []AnswersInv
<1>1. Init => AnswersInv
  BY ShareAssumption DEF Init, AnswersInv, Cleared, RowsFit, Idle, NoScan, Active, Removes
<1> QED
  BY <1>1, AnswersKept, InvHolds, PTL DEF Spec

--------------------------------------------------------------------------------
(* The theorems. *)

(* ListingAgreesWithDelete: the flags of directory and the answers of         *)
(* delete_file follow one rule, for any configuration and any groups, where a *)
(* request for the path of the row keeps that path when it is validated.      *)
THEOREM RowsAgreeWithDelete == Spec => []ListingAgreesWithDelete
<1>1. ASSUME AnswersInv, NEW r \in Reqs, NEW q \in Reqs, NEW row \in scan[r].rows,
             row.kind = "file", Addressable(Asked(r), row.name), req[q].call # None,
             req[q].call.op = "delete", req[q].call.groups = req[r].call.groups,
             req[q].call.path = ValidPath(Append(Asked(r), row.name))
      PROVE  IF row.canDelete THEN ~Done(q, "forbidden") ELSE ~Done(q, "noContent")
  <2>1. req[q].call.path = Append(req[r].call.path, row.name)
    BY <1>1 DEF Addressable, Asked
  <2>2. row.canDelete <=> CanDelete(Access, req[q].call.groups, req[q].call.path)
    BY <1>1, <2>1 DEF AnswersInv, RowsFit
  <2>3. Cleared(req[q])
    BY <1>1 DEF AnswersInv
  <2> QED
    BY <1>1, <2>2, <2>3 DEF Cleared, Done, At
<1>2. AnswersInv => ListingAgreesWithDelete
  BY <1>1 DEF ListingAgreesWithDelete
<1> QED
  BY <1>2, AnswersHold, PTL

LEMMA AppendAny ==
  ASSUME NEW S, NEW s \in Seq(S), NEW e
  PROVE  /\ Append(s, e) \in Seq(S \cup {e}) /\ Len(Append(s, e)) = Len(s) + 1
         /\ Append(s, e)[Len(s) + 1] = e
         /\ \A i \in 1..Len(s) : Append(s, e)[i] = s[i]
<1>1. s \in Seq(S \cup {e}) /\ e \in S \cup {e}
  OBVIOUS
<1> QED
  BY <1>1

\* The decoded form of a path whose directory has no escapes.
LEMMA DecodedName ==
  ASSUME NEW p \in Path, p # <<>>, DecodedPath(Front(p)) = Front(p),
         Append(Front(p), Decoded[Last(p)]) \in Path
  PROVE  /\ HasDecodeEquivalent(p)
         /\ DecodeEquivalent(p) = Append(Front(p), Decoded[Last(p)])
<1>1. PICK n \in Nat \ {0} : n = Len(p)
  BY DEF Path
<1>2. PICK front \in Seq(Names) : front = Front(p)
  BY <1>1 DEF Path, Front
<1>3. PICK last : last = Decoded[Last(p)]
  OBVIOUS
<1>4. p \in Seq(Names) /\ Len(p) = n /\ DOMAIN p = 1..n
  BY <1>1 DEF Path
<1>5. /\ Len(front) = n - 1 /\ \A i \in 1..n - 1 : front[i] = p[i]
      /\ last = Decoded[p[n]]
  BY <1>1, <1>2, <1>3, <1>4 DEF Front, Last
<1>6. \A i \in 1..n - 1 : Decoded[p[i]] = p[i]
  <2>1. DecodedPath(front) = [i \in 1..n - 1 |-> Decoded[front[i]]]
    BY <1>5 DEF DecodedPath
  <2>2. DecodedPath(front) = front
    BY <1>2
  <2> QED
    BY <1>5, <2>1, <2>2
<1>7. PICK q \in Seq(Names) : q = Append(front, last)
  BY <1>2, <1>3 DEF Path
<1>8. Len(q) = n /\ q[n] = last /\ \A i \in 1..n - 1 : q[i] = p[i]
  BY <1>1, <1>2, <1>5, <1>7, AppendAny
<1>9. \A i \in 1..n : Decoded[p[i]] = q[i] /\ q[i] \in Names
  <2> SUFFICES ASSUME NEW i \in 1..n
               PROVE  Decoded[p[i]] = q[i] /\ q[i] \in Names
    OBVIOUS
  <2>1. i = n \/ i \in 1..n - 1
    BY <1>1
  <2>2. q[i] \in Names
    BY <1>7, <1>8
  <2> QED
    BY <1>5, <1>6, <1>8, <2>1, <2>2
<1>10. HasDecodeEquivalent(p)
  BY <1>4, <1>9 DEF HasDecodeEquivalent
<1>11. DecodeEquivalent(p) = q
  <2>1. DecodeEquivalent(p) = [i \in 1..n |-> Decoded[p[i]]]
    BY <1>4 DEF DecodeEquivalent
  <2>2. q \in [1..n -> Names]
    BY <1>8
  <2> QED
    BY <1>9, <2>1, <2>2
<1> QED
  BY <1>2, <1>3, <1>7, <1>10, <1>11

(* ReachedFormVisible: the two evaluations of is_path_visible cover the form  *)
(* that download and delete_file open, for any rules and for requests of      *)
(* which no name decodes to `.` (of the others run dot_escape shows that they *)
(* do not).                                                                   *)
THEOREM ReachedFormsAreVisible == Spec => []ReachedFormVisible
<1>1. ASSUME AnswersInv, NEW r \in Reqs, req[r].source # None, Reached(r) \in Path,
             req[r].call.op = "delete" => DecodedPath(Front(Asked(r))) = Front(Asked(r))
      PROVE  ~IsHidden(Access, req[r].call.groups, Reached(r))
  <2> DEFINE p == Asked(r)
             groups == req[r].call.groups
  <2>1. /\ p \in Path /\ IsPathVisible(Access, groups, p) /\ req[r].call # None
        /\ req[r].call.op = "delete" => p # <<>> /\ Last(req[r].source) \in {Last(p), Decoded[Last(p)]}
    BY <1>1, ShareAssumption DEF AnswersInv, Cleared, Spelled, Asked
  <2> HIDE DEF p
  <2>2. CASE req[r].call.op = "delete"
    <3>1. CASE Last(req[r].source) = Last(p)
      <4>1. Append(Front(p), Last(p)) = p
        BY <2>1, <2>2 DEF Path, Front, Last
      <4> QED
        BY <2>1, <2>2, <3>1, <4>1 DEF Reached, IsPathVisible, p
    <3>2. CASE Last(req[r].source) = Decoded[Last(p)]
      <4>1. Reached(r) = Append(Front(p), Decoded[Last(p)])
        BY <2>2, <3>2 DEF Reached, p
      <4>2. HasDecodeEquivalent(p) /\ DecodeEquivalent(p) = Reached(r)
        BY <1>1, <2>1, <2>2, <4>1, DecodedName DEF p
      <4> QED
        BY <2>1, <4>2 DEF IsPathVisible
    <3> QED
      BY <2>1, <2>2, <3>1, <3>2
  <2>3. CASE req[r].call.op # "delete" /\ req[r].decoded
    <3>1. Reached(r) = DecodeEquivalent(p)
      BY <2>3 DEF Reached, DecodedPath, DecodeEquivalent, p
    <3>2. HasDecodeEquivalent(p)
      <4>1. \A i \in 1..Len(p) : DecodeEquivalent(p)[i] = Decoded[p[i]]
        BY DEF DecodeEquivalent
      <4>2. DecodeEquivalent(p) \in Seq(Names) /\ DOMAIN DecodeEquivalent(p) = 1..Len(p)
        BY <1>1, <3>1 DEF Path, DecodeEquivalent
      <4>3. \A i \in 1..Len(p) : DecodeEquivalent(p)[i] \in Names
        BY <4>2
      <4> QED
        BY <4>1, <4>3 DEF HasDecodeEquivalent
    <3> QED
      BY <2>1, <3>1, <3>2 DEF IsPathVisible
  <2>4. CASE req[r].call.op # "delete" /\ ~req[r].decoded
    BY <2>1, <2>4 DEF Reached, IsPathVisible, p
  <2> QED
    BY <2>2, <2>3, <2>4
<1>2. AnswersInv => ReachedFormVisible
  BY <1>1 DEF ReachedFormVisible, EvaluatedForm
<1> QED
  BY <1>2, AnswersHold, PTL

--------------------------------------------------------------------------------
(* Lookups. *)

\* Where a walk has to go on, and what it comes to where it has not.
Ahead(w) == Append(w.at, Head(w.rest))
GoesOn(w) ==
  /\ w.rest # <<>>
  /\ \/ Head(w.rest) = Dot \/ IsDir(Ahead(w))
     \/ IsKind(NodeAt(Ahead(w)), "link") /\ w.hops # 0
Onward(w) ==
  IF Head(w.rest) = Dot THEN [w EXCEPT !.rest = Tail(w.rest)]
  ELSE IF IsDir(Ahead(w)) THEN [w EXCEPT !.at = Ahead(w), !.rest = Tail(w.rest)]
  ELSE [hops |-> w.hops - 1, at |-> <<>>, rest |-> Target[NodeAt(Ahead(w))] \o Tail(w.rest)]
Stop(w) ==
  IF w.rest = <<>> THEN w.at
  ELSE IF NodeAt(Ahead(w)) = None THEN Missing
  ELSE IF IsKind(NodeAt(Ahead(w)), "link") \/ Tail(w.rest) # <<>> THEN Broken
  ELSE Ahead(w)

Ends == Seq(OsNames) \cup {Missing, Broken}

LEMMA AheadTyped ==
  ASSUME NEW w \in Walks, w.rest # <<>>
  PROVE  Ahead(w) \in Seq(OsNames) /\ Tail(w.rest) \in Seq(OsNames)
         /\ Len(Tail(w.rest)) = Len(w.rest) - 1
<1>1. w.at \in Seq(OsNames) /\ w.rest \in Seq(OsNames)
  BY DEF Walks
<1>2. Head(w.rest) \in OsNames
  BY <1>1
<1> QED
  BY <1>1, <1>2 DEF Ahead

LEMMA OnwardTyped ==
  ASSUME NEW w \in Walks, GoesOn(w)
  PROVE  /\ Onward(w) \in Walks
         /\ \/ Onward(w).hops < w.hops
            \/ Onward(w).hops = w.hops /\ Len(Onward(w).rest) < Len(w.rest)
<1>1. /\ Ahead(w) \in Seq(OsNames) /\ Tail(w.rest) \in Seq(OsNames)
      /\ Len(Tail(w.rest)) = Len(w.rest) - 1
  BY AheadTyped DEF GoesOn
<1>2. w.hops \in 0..MaxHops /\ MaxHops \in Nat /\ w.rest \in Seq(OsNames)
  BY ShareAssumption DEF Walks
<1>5. CASE Head(w.rest) = Dot
  <2>1. Onward(w) = [w EXCEPT !.rest = Tail(w.rest)]
    BY <1>5 DEF Onward
  <2>2. Onward(w) \in Walks /\ Onward(w).hops = w.hops /\ Onward(w).rest = Tail(w.rest)
    BY <1>1, <2>1 DEF Walks
  <2> QED
    BY <1>1, <1>2, <2>2
<1>3. CASE IsDir(Ahead(w)) /\ Head(w.rest) # Dot
  <2>1. Onward(w) = [w EXCEPT !.at = Ahead(w), !.rest = Tail(w.rest)]
    BY <1>3 DEF Onward
  <2>2. Onward(w) \in Walks /\ Onward(w).hops = w.hops /\ Onward(w).rest = Tail(w.rest)
    BY <1>1, <2>1 DEF Walks
  <2> QED
    BY <1>1, <1>2, <2>2
<1>4. CASE ~IsDir(Ahead(w)) /\ Head(w.rest) # Dot
  <2>1. Target[NodeAt(Ahead(w))] \in Seq(OsNames)
    BY <1>4, ShareAssumption DEF GoesOn, IsKind
  <2>2. Target[NodeAt(Ahead(w))] \o Tail(w.rest) \in Seq(OsNames)
    BY <1>1, <2>1
  <2>3. w.hops - 1 \in 0..MaxHops
    BY <1>2, <1>4 DEF GoesOn
  <2>4. Onward(w) = [hops |-> w.hops - 1, at |-> <<>>,
                     rest |-> Target[NodeAt(Ahead(w))] \o Tail(w.rest)]
    BY <1>4 DEF Onward
  <2>5. Onward(w) \in Walks /\ Onward(w).hops = w.hops - 1
    BY <2>2, <2>3, <2>4 DEF Walks
  <2> QED
    BY <1>2, <2>5
<1> QED
  BY <1>3, <1>4, <1>5

BelowWalk == [w \in Walks |-> IF GoesOn(w) THEN {Onward(w)} ELSE {}]

LEMMA WalksEnd == WellFounded(Walks, BelowWalk)
<1> DEFINE major == [w \in Walks |-> w.hops]
           minor == [w \in Walks |-> Len(w.rest)]
<1>1. major \in [Walks -> Nat] /\ minor \in [Walks -> Nat]
  BY DEF Walks
<1>2. BelowWalk \in [Walks -> SUBSET Walks]
  BY OnwardTyped DEF BelowWalk
<1>3. ASSUME NEW w \in Walks, NEW y \in BelowWalk[w]
      PROVE  major[y] < major[w] \/ (major[y] = major[w] /\ minor[y] < minor[w])
  <2>1. GoesOn(w) /\ y = Onward(w)
    BY <1>3 DEF BelowWalk
  <2>2. y \in Walks
    BY <2>1, OnwardTyped
  <2> QED
    BY <2>1, <2>2, OnwardTyped
<1> HIDE DEF major, minor
<1> QED
  BY <1>1, <1>2, <1>3, FallingRanks

LEMMA StopTyped ==
  ASSUME NEW w \in Walks
  PROVE  Stop(w) \in Ends
BY AheadTyped DEF Stop, Ends, Walks

\* The recursion of Follow has a solution, and Follow is it.
LEMMA FollowStep ==
  /\ Follow \in [Walks -> Ends]
  /\ \A w \in Walks : Follow[w] = IF GoesOn(w) THEN Follow[Onward(w)] ELSE Stop(w)
<1> DEFINE Body(f, w) == IF GoesOn(w) THEN f[Onward(w)] ELSE Stop(w)
           arguments == UNION {{<<w, g>> : g \in [BelowWalk[w] -> Ends]} : w \in Walks}
           step == [wg \in arguments |-> Body(wg[2], wg[1])]
<1>1. ASSUME NEW w \in Walks, NEW g \in [BelowWalk[w] -> Ends]
      PROVE  step[<<w, g>>] = Body(g, w) /\ Body(g, w) \in Ends
  <2>1. <<w, g>> \in arguments
    OBVIOUS
  <2>2. step[<<w, g>>] = Body(g, w)
    BY <2>1
  <2>3. Body(g, w) \in Ends
    BY StopTyped DEF BelowWalk
  <2> QED
    BY <2>2, <2>3
<1> HIDE DEF step
<1>2. Computes(step, Walks, Ends, BelowWalk)
  BY <1>1 DEF Computes
<1>3. PICK f : Solution(f, step, Walks, Ends, BelowWalk)
  BY <1>2, WalksEnd, Recursion
<1>4. ASSUME NEW w \in Walks
      PROVE  f[w] = Body(f, w)
  <2> DEFINE g == [y \in BelowWalk[w] |-> f[y]]
  <2>1. g \in [BelowWalk[w] -> Ends]
    BY <1>3, OnwardTyped DEF BelowWalk, Solution
  <2>2. Body(g, w) = Body(f, w)
    BY DEF BelowWalk
  <2>3. f[w] = step[<<w, g>>]
    BY <1>3 DEF Solution
  <2> HIDE DEF g, Body
  <2> QED
    BY <1>1, <2>1, <2>2, <2>3
<1> DEFINE Form(h, w) ==
             LET next == Append(w.at, Head(w.rest))
                 rest == Tail(w.rest)
             IN IF w.rest = <<>> THEN w.at
                ELSE IF Head(w.rest) = Dot THEN h[[w EXCEPT !.rest = rest]]
                ELSE IF IsDir(next) THEN h[[w EXCEPT !.at = next, !.rest = rest]]
                ELSE IF NodeAt(next) = None THEN Missing
                ELSE IF IsKind(NodeAt(next), "link")
                  THEN IF w.hops = 0 THEN Broken
                       ELSE h[[hops |-> w.hops - 1, at |-> <<>>,
                               rest |-> Target[NodeAt(next)] \o rest]]
                ELSE IF rest = <<>> THEN next ELSE Broken
           Recurses(h) == h = [w \in Walks |-> Form(h, w)]
<1>5. ASSUME NEW h
      PROVE  Recurses(h) <=> h = [w \in Walks |-> Body(h, w)]
  <2>1. ASSUME NEW w \in Walks
        PROVE  Body(h, w) = Form(h, w)
    <3>1. IsKind(NodeAt(Ahead(w)), "link") => NodeAt(Ahead(w)) # None
      BY ShareAssumption DEF IsKind
    <3> QED
      BY <3>1 DEF GoesOn, Onward, Stop, Ahead
  <2> HIDE DEF Body, Form
  <2> QED
    BY <2>1
<1>6. Recurses(f)
  <2>1. f = [w \in Walks |-> Body(f, w)]
    <3> HIDE DEF Body
    <3> QED
      BY <1>3, <1>4 DEF Solution
  <2> HIDE DEF Body, Recurses
  <2> QED
    BY <1>5, <2>1
<1>7. Follow = CHOOSE h : Recurses(h)
  BY DEF Follow
<1>8. Recurses(Follow)
  <2> HIDE DEF Recurses
  <2> QED
    BY <1>6, <1>7, Zenon
<1>9. Follow = [w \in Walks |-> Body(Follow, w)]
  <2> HIDE DEF Body, Recurses
  <2> QED
    BY <1>5, <1>8
<1>10. ASSUME NEW w \in Walks
      PROVE  Follow[w] = Body(Follow, w)
  <2> HIDE DEF Body
  <2> QED
    BY <1>9
<1>11. Walks \subseteq {w \in Walks : Follow[w] \in Ends}
  <2> DEFINE Good == {w \in Walks : Follow[w] \in Ends}
  <2>1. ASSUME NEW w \in Walks, BelowWalk[w] \subseteq Good
        PROVE  w \in Good
    BY <1>10, <2>1, StopTyped DEF BelowWalk
  <2>2. Inductive(Walks, BelowWalk, Good)
    BY <2>1 DEF Inductive
  <2> HIDE DEF Good
  <2>3. Walks \subseteq Good
    BY <2>2, WalksEnd, Induction
  <2> QED
    BY <2>3 DEF Good
<1>12. Follow \in [Walks -> Ends]
  <2> HIDE DEF Body
  <2> QED
    BY <1>9, <1>11
<1> QED
  BY <1>10, <1>12

LEMMA EndsApart == Missing \notin Seq(OsNames) /\ Broken \notin Seq(OsNames)
BY ShareAssumption

--------------------------------------------------------------------------------
(* Links. *)

NoLinkOn(l) == \A i \in 1..Len(l) : ~IsKind(NodeAt(SubSeq(l, 1, i)), "link")

LEMMA DirIsNoLink ==
  ASSUME NEW l, IsDir(l)
  PROVE  ~IsKind(NodeAt(l), "link")
BY ShareAssumption DEF IsDir, IsKind

LEMMA AppendSub ==
  ASSUME NEW S, NEW l \in Seq(S), NEW n \in S
  PROVE  /\ Append(l, n) \in Seq(S) /\ Len(Append(l, n)) = Len(l) + 1
         /\ SubSeq(Append(l, n), 1, Len(l) + 1) = Append(l, n)
         /\ \A i \in 1..Len(l) : SubSeq(Append(l, n), 1, i) = SubSeq(l, 1, i)
OBVIOUS

LEMMA NoLinkFurther ==
  ASSUME NEW l \in Seq(OsNames), NEW n \in OsNames, NoLinkOn(l),
         ~IsKind(NodeAt(Append(l, n)), "link")
  PROVE  NoLinkOn(Append(l, n))
<1> SUFFICES ASSUME NEW i \in 1..Len(Append(l, n))
             PROVE  ~IsKind(NodeAt(SubSeq(Append(l, n), 1, i)), "link")
  BY DEF NoLinkOn
<1>1. i \in 1..Len(l) \/ i = Len(l) + 1
  BY AppendSub
<1> QED
  BY <1>1, AppendSub DEF NoLinkOn

\* What canonicalize returns has no link on it.
LEMMA FollowLeavesLinks ==
  ASSUME NEW w \in Walks, NoLinkOn(w.at)
  PROVE  Follow[w] \in {Missing, Broken} \/ NoLinkOn(Follow[w])
<1> DEFINE Good == {v \in Walks : NoLinkOn(v.at) =>
                      Follow[v] \in {Missing, Broken} \/ NoLinkOn(Follow[v])}
<1>1. ASSUME NEW v \in Walks, BelowWalk[v] \subseteq Good, NoLinkOn(v.at)
      PROVE  Follow[v] \in {Missing, Broken} \/ NoLinkOn(Follow[v])
  <2>1. v.at \in Seq(OsNames) /\ (v.rest # <<>> => Head(v.rest) \in OsNames)
    BY DEF Walks
  <2>2. CASE GoesOn(v)
    <3>1. Onward(v) \in Good /\ Follow[v] = Follow[Onward(v)]
      BY <1>1, <2>2, FollowStep DEF BelowWalk
    <3>2. NoLinkOn(Onward(v).at)
      <4>1. CASE IsDir(Ahead(v)) /\ Head(v.rest) # Dot
        <5>1. Onward(v).at = Ahead(v)
          BY <4>1 DEF Onward, Walks
        <5> QED
          BY <1>1, <2>1, <2>2, <4>1, <5>1, DirIsNoLink, NoLinkFurther DEF Ahead, GoesOn
      <4>2. CASE ~IsDir(Ahead(v)) /\ Head(v.rest) # Dot
        BY <4>2 DEF Onward, NoLinkOn
      <4>3. CASE Head(v.rest) = Dot
        <5>1. Onward(v).at = v.at
          BY <4>3 DEF Onward, Walks
        <5> QED
          BY <1>1, <5>1
      <4> QED
        BY <4>1, <4>2, <4>3
    <3> QED
      BY <3>1, <3>2
  <2>3. CASE ~GoesOn(v)
    <3>1. Follow[v] = Stop(v)
      BY <2>3, FollowStep
    <3>2. CASE Stop(v) = Ahead(v) /\ v.rest # <<>> /\ ~IsKind(NodeAt(Ahead(v)), "link")
      BY <1>1, <2>1, <3>1, <3>2, NoLinkFurther DEF Ahead
    <3>3. CASE Stop(v) \in {Missing, Broken, v.at}
      BY <1>1, <3>1, <3>3
    <3> QED
      BY <3>2, <3>3 DEF Stop
  <2> QED
    BY <2>2, <2>3
<1>2. Inductive(Walks, BelowWalk, Good)
  BY <1>1 DEF Inductive
<1> HIDE DEF Good
<1>3. w \in Good
  BY <1>2, WalksEnd, Induction
<1> QED
  BY <1>3 DEF Good

\* The path a walk has to go: what is behind it and what is ahead.
Along(w) == w.at \o w.rest

LEMMA ConcatHead ==
  ASSUME NEW S, NEW l \in Seq(S), NEW r \in Seq(S), r # <<>>
  PROVE  /\ l \o r \in Seq(S)
         /\ Len(l) + 1 \in 1..Len(l \o r)
         /\ SubSeq(l \o r, 1, Len(l) + 1) = Append(l, Head(r))
         /\ Append(l, Head(r)) \o Tail(r) = l \o r
         /\ Tail(r) = <<>> => Append(l, Head(r)) = l \o r
         /\ Len(Append(l, Head(r))) = Len(l) + 1
         /\ (l \o r)[Len(l) + 1] = Head(r)
<1>1. Len(r) \in Nat \ {0} /\ Head(r) = r[1] /\ Head(r) \in S /\ Len(l) \in Nat
  OBVIOUS
<1>2. l \o r \in Seq(S) /\ Len(l \o r) = Len(l) + Len(r)
  OBVIOUS
<1>3. /\ \A i \in 1..Len(l) : (l \o r)[i] = l[i]
      /\ (l \o r)[Len(l) + 1] = r[1]
  BY <1>1
<1>4. Append(l, Head(r)) \in Seq(S) /\ Len(Append(l, Head(r))) = Len(l) + 1
  BY <1>1
<1>5. SubSeq(l \o r, 1, Len(l) + 1) = Append(l, Head(r))
  <2> DEFINE s == SubSeq(l \o r, 1, Len(l) + 1)
  <2>1. s \in Seq(S) /\ Len(s) = Len(l) + 1
    BY <1>1, <1>2
  <2>2. \A i \in 1..Len(l) + 1 : s[i] = (l \o r)[i]
    BY <1>1, <1>2
  <2>3. \A i \in 1..Len(l) + 1 : s[i] = Append(l, Head(r))[i]
    BY <1>1, <1>3, <2>2
  <2> HIDE DEF s
  <2> QED
    BY <1>4, <2>1, <2>3
<1>6. Append(l, Head(r)) \o Tail(r) = l \o r
  OBVIOUS
<1>7. ASSUME Tail(r) = <<>>
      PROVE  Append(l, Head(r)) = l \o r
  <2>1. Append(l, Head(r)) \o <<>> = Append(l, Head(r))
    BY <1>4
  <2>2. Append(l, Head(r)) \o Tail(r) = Append(l, Head(r)) \o <<>>
    BY <1>7
  <2> QED
    BY <1>6, <2>1, <2>2
<1> QED
  BY <1>1, <1>2, <1>3, <1>4, <1>5, <1>6, <1>7

LEMMA AlongAhead ==
  ASSUME NEW w \in Walks, w.rest # <<>>
  PROVE  /\ Along(w) \in Seq(OsNames)
         /\ Len(w.at) + 1 \in 1..Len(Along(w))
         /\ SubSeq(Along(w), 1, Len(w.at) + 1) = Ahead(w)
         /\ Ahead(w) \o Tail(w.rest) = Along(w)
         /\ Tail(w.rest) = <<>> => Ahead(w) = Along(w)
         /\ Len(Ahead(w)) = Len(w.at) + 1
         /\ Along(w)[Len(w.at) + 1] = Head(w.rest)
<1>1. w.at \in Seq(OsNames) /\ w.rest \in Seq(OsNames)
  BY DEF Walks
<1> QED
  BY <1>1, ConcatHead DEF Along, Ahead

\* A location without links on it leads to itself, if it leads anywhere.
LEMMA FollowWithoutLinks ==
  ASSUME NEW w \in Walks, NoLinkOn(Along(w)), NoDotOn(Along(w))
  PROVE  Follow[w] \in {Along(w), Missing, Broken}
<1> DEFINE Good == {v \in Walks : NoLinkOn(Along(v)) /\ NoDotOn(Along(v))
                      => Follow[v] \in {Along(v), Missing, Broken}}
<1>1. ASSUME NEW v \in Walks, BelowWalk[v] \subseteq Good,
             NoLinkOn(Along(v)), NoDotOn(Along(v))
      PROVE  Follow[v] \in {Along(v), Missing, Broken}
  <2>1. v.rest # <<>> => ~IsKind(NodeAt(Ahead(v)), "link") /\ Head(v.rest) # Dot
    BY <1>1, AlongAhead DEF NoLinkOn, NoDotOn
  <2>2. CASE GoesOn(v)
    <3>1. IsDir(Ahead(v)) /\ v.rest # <<>>
      BY <2>1, <2>2 DEF GoesOn
    <3>2. Onward(v).at = Ahead(v) /\ Onward(v).rest = Tail(v.rest)
      BY <2>1, <3>1 DEF Onward, Walks
    <3>3. Along(Onward(v)) = Along(v)
      BY <3>1, <3>2, AlongAhead DEF Along
    <3>4. Onward(v) \in Good /\ Follow[v] = Follow[Onward(v)]
      BY <1>1, <2>2, FollowStep DEF BelowWalk
    <3> QED
      BY <1>1, <3>3, <3>4
  <2>3. CASE ~GoesOn(v)
    <3>1. Follow[v] = Stop(v)
      BY <2>3, FollowStep
    <3>2. v.rest = <<>> => v.at = Along(v)
      BY DEF Along, Walks
    <3> QED
      BY <3>1, <3>2, AlongAhead DEF Stop
  <2> QED
    BY <2>2, <2>3
<1>2. Inductive(Walks, BelowWalk, Good)
  BY <1>1 DEF Inductive
<1> HIDE DEF Good
<1>3. w \in Good
  BY <1>2, WalksEnd, Induction
<1> QED
  BY <1>3 DEF Good

LEMMA ResolveTyped ==
  ASSUME NEW p \in Seq(OsNames)
  PROVE  Resolve(p) \in Ends
<1>1. [hops |-> MaxHops, at |-> <<>>, rest |-> p] \in Walks
  BY ShareAssumption DEF Walks
<1> QED
  BY <1>1, FollowStep DEF Resolve

LEMMA ResolveLeavesLinks ==
  ASSUME NEW p \in Seq(OsNames)
  PROVE  Resolve(p) \in {Missing, Broken} \/ NoLinkOn(Resolve(p))
<1> DEFINE w == [hops |-> MaxHops, at |-> <<>>, rest |-> p]
<1>1. w \in Walks /\ NoLinkOn(w.at)
  BY ShareAssumption DEF Walks, NoLinkOn
<1> HIDE DEF w
<1>2. Follow[w] \in {Missing, Broken} \/ NoLinkOn(Follow[w])
  BY <1>1, FollowLeavesLinks
<1> QED
  BY <1>2 DEF Resolve, w

LEMMA ResolveWithoutLinks ==
  ASSUME NEW p \in Seq(OsNames), NoLinkOn(p), NoDotOn(p)
  PROVE  Resolve(p) \in {p, Missing, Broken}
<1> DEFINE w == [hops |-> MaxHops, at |-> <<>>, rest |-> p]
<1>1. w \in Walks /\ Along(w) = p
  BY ShareAssumption DEF Walks, Along
<1> HIDE DEF w
<1>2. Follow[w] \in {Along(w), Missing, Broken}
  BY <1>1, FollowWithoutLinks
<1> QED
  BY <1>1, <1>2 DEF Resolve, w

--------------------------------------------------------------------------------
(* Containment. *)

\* A handler that has passed ensure_within_root.
Inside == Active \ {"canon", "canonDecoded"}

\* Its location leads nowhere else, and neither does what it reached.
Contained(h) ==
  /\ h.pc \in Inside => NoLinkOn(h.at) /\ WithinRoot(h.at)
  /\ h.pc = "canonDecoded" =>
       Refusals(IF h.call.op = "delete" THEN Front(h.call.path) ELSE h.call.path) = {}
  /\ h.source # None => WithinRoot(h.source)

RootInv ==
  /\ \A f \in fresh : Kind[f] # "link"
  /\ \A r \in Reqs : Contained(req[r])

\* No step makes a link.
LEMMA LinksFade ==
  ASSUME Inv, RootInv, [Next]_vars
  PROVE  /\ fresh' \subseteq fresh
         /\ \A l : IsKind(NodeAt(l)', "link") => IsKind(NodeAt(l), "link")
<1>0. fs \in [Locs -> Files \cup {None}] /\ fresh \subseteq Files /\ EnvLocs \subseteq Locs
  BY ShareAssumption DEF Inv, TypeOK
<1>1. ASSUME fresh' \subseteq fresh,
             \A l \in Locs : \/ fs'[l] = None
                             \/ fs'[l] \in Files /\ Kind[fs'[l]] # "link"
                             \/ fs'[l] = fs[l]
      PROVE  \A l : IsKind(NodeAt(l)', "link") => IsKind(NodeAt(l), "link")
  BY <1>1, ShareAssumption DEF IsKind, NodeAt, NodeIn
<1>2. CASE UNCHANGED fs /\ fresh' \subseteq fresh
  BY <1>1, <1>2
<1>3. ASSUME NEW r \in Reqs, Unlink(r)
      PROVE  /\ fresh' \subseteq fresh
             /\ \A l \in Locs : fs'[l] \in {None, fs[l]}
  BY <1>0, <1>3 DEF Unlink, ChangeShare
<1>4. ASSUME NEW l \in EnvLocs, NEW f \in Files, CreateEntry(l, f)
      PROVE  /\ fresh' \subseteq fresh
             /\ \A k \in Locs : \/ fs'[k] \in Files /\ Kind[fs'[k]] # "link"
                                \/ fs'[k] = fs[k]
  <2>1. f \in fresh /\ fs' = [fs EXCEPT ![l] = f] /\ fresh' \subseteq fresh
    BY <1>4 DEF CreateEntry, ChangeShare
  <2> QED
    BY <1>0, <2>1 DEF RootInv
<1>5. ASSUME NEW l \in EnvLocs, RemoveEntry(l)
      PROVE  /\ fresh' \subseteq fresh
             /\ \A k \in Locs : fs'[k] \in {None, fs[k]}
  BY <1>0, <1>5 DEF RemoveEntry, ChangeShare
<1>6. ASSUME NEW l \in EnvLocs, NEW k \in EnvLocs, MoveEntry(l, k)
      PROVE  /\ fresh' \subseteq fresh
             /\ \A m \in Locs : \/ fs'[m] \in {None, fs[m]}
                                \/ fs'[m] \in Files /\ Kind[fs'[m]] # "link"
  <2>1. /\ fs' = [fs EXCEPT ![l] = None, ![k] = fs[l]] /\ fresh' = fresh
        /\ IsKind(NodeAt(l), "file")
    BY <1>6 DEF MoveEntry, ChangeShare
  <2>2. fs[l] = NodeAt(l) /\ fs[l] \in Files /\ Kind[fs[l]] # "link"
    BY <2>1, FileHasLocation DEF IsKind
  <2> QED
    BY <1>0, <2>1, <2>2
<1>7. CASE Next /\ ~(\E r \in Reqs : Unlink(r)) /\ ~Others
  <2>1. UNCHANGED <<fs, fresh>>
    BY <1>7 DEF Next, Arrive, Work, Canonicalize, CanonicalizeDecoded, Stat, Open, OpenLate, Verify,
       CheckDirectory, Lstat, LstatDecoded, ReadDir, NextEntry, EndOfDirectory,
       CanonicalizeEntry, StatEntry, WriterOpens, Fail, Disconnect
  <2> QED
    BY <1>2, <2>1
<1>8. CASE UNCHANGED vars
  BY <1>2, <1>8 DEF vars
<1>9. CASE \E r \in Reqs : Unlink(r)
  BY <1>1, <1>3, <1>9
<1>10. CASE Others
  <2>1. CASE \E l \in EnvLocs, f \in Files : CreateEntry(l, f)
    BY <1>1, <1>4, <2>1
  <2>2. CASE \E l \in EnvLocs : RemoveEntry(l)
    BY <1>1, <1>5, <2>2
  <2>3. CASE \E l, k \in EnvLocs : MoveEntry(l, k)
    BY <1>1, <1>6, <2>3
  <2> QED
    BY <1>10, <2>1, <2>2, <2>3 DEF Others
<1> QED
  BY <1>7, <1>8, <1>9, <1>10

\* So a location without links keeps none.
LEMMA StillNoLink ==
  ASSUME Inv, RootInv, [Next]_vars, NEW l, NoLinkOn(l)
  PROVE  NoLinkOn(l)'
BY LinksFade DEF NoLinkOn

LEMMA ContainedStill ==
  ASSUME Inv, RootInv, [Next]_vars, NEW g, Contained(g), NEW q, g = req'[q]
  PROVE  Contained(req[q])'
<1>1. NoLinkOn(g.at) => NoLinkOn(g.at)'
  BY StillNoLink
<1> QED
  BY <1>1 DEF Contained, NoLinkOn

LEMMA RootByHandler ==
  ASSUME Inv, RootInv, [Next]_vars, NEW r \in Reqs, NEW h, Become(r, h), Contained(h)
  PROVE  RootInv'
<1>1. req'[r] = h /\ \A q \in Reqs \ {r} : req'[q] = req[q]
  BY DEF Become, Inv, TypeOK
<1>2. ASSUME NEW q \in Reqs
      PROVE  Contained(req[q])'
  <2>1. PICK g : g = req'[q] /\ Contained(g)
    BY <1>1 DEF RootInv
  <2> QED
    BY <2>1, ContainedStill
<1> QED
  BY <1>2, LinksFade DEF RootInv

LEMMA RootBySame ==
  ASSUME Inv, RootInv, [Next]_vars, UNCHANGED req
  PROVE  RootInv'
<1>1. ASSUME NEW q \in Reqs
      PROVE  Contained(req[q])'
  BY ContainedStill DEF RootInv
<1> QED
  BY <1>1, LinksFade DEF RootInv

LEMMA RootByOver ==
  ASSUME Inv, RootInv, [Next]_vars, NEW r \in Reqs, NEW pc \in {"done", "dropped", "held"},
         NEW status, NEW file, NEW source, Over(r, pc, status, file, source),
         source # None => WithinRoot(source)
  PROVE  RootInv'
<1> DEFINE h == Outcome(r, pc, status, file, source)
<1>1. Become(r, h) /\ h.pc = pc /\ h.source = source
  BY DEF Over, Outcome, Idle
<1> HIDE DEF h
<1>2. Contained(h)
  BY <1>1 DEF Contained, Inside, Active
<1> QED
  BY <1>1, <1>2, RootByHandler

LEMMA RootByAnswer ==
  ASSUME Inv, RootInv, [Next]_vars, NEW r \in Reqs, NEW status, Answer(r, status)
  PROVE  RootInv'
BY RootByOver DEF Answer

\* A handler inside the root that goes on, or that was let in.
LEMMA RootByStep ==
  ASSUME Inv, RootInv, [Next]_vars, NEW r \in Reqs, req[r].pc \in Inside, NEW h,
         Become(r, h), h.pc \in Inside \cup {"done"}, h.at = req[r].at,
         h.source # None => WithinRoot(h.source)
  PROVE  RootInv'
<1>1. Contained(req[r])
  BY DEF RootInv
<1>2. Contained(h)
  BY <1>1 DEF Contained, Inside
<1> QED
  BY <1>2, RootByHandler

LEMMA RootByGoto ==
  ASSUME Inv, RootInv, [Next]_vars, NEW r \in Reqs, req[r].pc \in Inside, NEW pc \in Inside,
         Goto(r, pc)
  PROVE  RootInv'
<1> DEFINE h == [req[r] EXCEPT !.pc = pc]
<1>1. h.pc = pc /\ h.at = req[r].at /\ h.source = req[r].source /\ Become(r, h)
  BY DEF Inv, TypeOK, States, Goto
<1>2. Contained(req[r])
  BY DEF RootInv
<1> HIDE DEF h
<1> QED
  BY <1>1, <1>2, RootByStep DEF Contained

\* The paths that are looked up are paths of names.
LEMMA SoughtTyped ==
  ASSUME Inv, NEW r \in Reqs, req[r].pc \in {"canon", "canonDecoded"}
  PROVE  /\ Sought(r) \in Seq(Names)
         /\ Root \o Sought(r) \in Seq(OsNames)
         /\ Refusals(Sought(r)) = {} => Root \o DecodedPath(Sought(r)) \in Seq(OsNames)
<1>1. /\ req[r].call.path \in Seq(Names)
      /\ req[r].call.op = "delete" => req[r].call.path # <<>>
  BY DEF Inv, HandlerOK, Active, PCs, Calls, Path
<1>2. Sought(r) \in Seq(Names)
  BY <1>1 DEF Sought, Asked, Front
<1> DEFINE p == Sought(r)
<1> HIDE DEF p
<1>3. p \in Seq(OsNames) /\ Root \in Seq(OsNames)
  <2>1. Seq(Names) \subseteq Seq(OsNames)
    BY NamesAssumption
  <2> QED
    BY <1>2, <2>1, ShareAssumption DEF p
<1>4. ASSUME Refusals(p) = {}
      PROVE  DecodedPath(p) \in Seq(OsNames)
  <2>1. \A i \in 1..Len(p) : Decoded[p[i]] \in OsNames
    BY <1>2, <1>4, NamesAssumption DEF Refusals, p
  <2> QED
    BY <1>3, <2>1 DEF DecodedPath
<1> QED
  BY <1>2, <1>3, <1>4 DEF p

LEMMA RootByResolved ==
  ASSUME Inv, RootInv, [Next]_vars, NEW r \in Reqs, NEW p \in Seq(OsNames), NEW decoded,
         Resolve(p) \in Places, Resolved(r, Resolve(p), decoded)
  PROVE  RootInv'
<1> DEFINE l == Resolve(p)
<1>1. NoLinkOn(l)
  BY PlacesTyped, ResolveLeavesLinks
<1> HIDE DEF l
<1>2. CASE WithinRoot(l)
  <2> DEFINE pc == IF req[r].call.op = "get" THEN "stat" ELSE "isDir"
             h == [req[r] EXCEPT !.at = l, !.decoded = decoded, !.pc = pc]
  <2>1. Become(r, h)
    BY <1>2 DEF Resolved, l
  <2>2. pc \in {"stat", "isDir"}
    OBVIOUS
  <2> HIDE DEF pc
  <2>3. h.at = l /\ h.pc = pc /\ h.source = req[r].source
    BY DEF Inv, TypeOK, States
  <2>4. Contained(req[r])
    BY DEF RootInv
  <2> HIDE DEF h
  <2>5. Contained(h)
    BY <1>1, <1>2, <2>2, <2>3, <2>4 DEF Contained
  <2> QED
    BY <2>1, <2>5, RootByHandler
<1>3. CASE ~WithinRoot(l)
  BY <1>3, RootByAnswer DEF Resolved, l
<1> QED
  BY <1>2, <1>3

LEMMA RootByArrive ==
  ASSUME Inv, RootInv, [Next]_vars, NEW r \in Reqs, NEW call \in Requests[r], Arrive(r, call)
  PROVE  RootInv'
<1> DEFINE valid == Validated(call)
           verdict == Screen(valid)
           h == [Idle EXCEPT !.call = valid, !.status = verdict,
                             !.pc = IF verdict = "pending" THEN "canon" ELSE "done"]
<1>1. h.source = None /\ h.pc \in {"canon", "done"} /\ Become(r, h)
  BY DEF Idle, Arrive
<1> HIDE DEF h
<1>2. Contained(h)
  BY <1>1 DEF Contained, Inside, Active
<1> QED
  BY <1>1, <1>2, RootByHandler

\* The lookups that lead into the root.
LEMMA RootByCanonicalize ==
  ASSUME Inv, RootInv, [Next]_vars, NEW r \in Reqs, Canonicalize(r) \/ CanonicalizeDecoded(r)
  PROVE  RootInv'
<1>1. CASE Canonicalize(r)
  <2>1. req[r].pc = "canon" /\ Root \o Sought(r) \in Seq(OsNames)
    BY <1>1, SoughtTyped DEF Canonicalize, At
  <2>2. CASE Refusals(Sought(r)) = {} /\ Goto(r, "canonDecoded")
    <3> DEFINE h == [req[r] EXCEPT !.pc = "canonDecoded"]
    <3>1. /\ h.pc = "canonDecoded" /\ h.call = req[r].call /\ h.source = req[r].source
          /\ Become(r, h)
      BY <2>2 DEF Inv, TypeOK, States, Goto
    <3>2. Contained(req[r])
      BY DEF RootInv
    <3> HIDE DEF h
    <3>3. Contained(h)
      BY <2>2, <3>1, <3>2 DEF Contained, Inside, Sought, Asked
    <3> QED
      BY <3>1, <3>3, RootByHandler
  <2>3. CASE \E status : Answer(r, status)
    BY <2>3, RootByAnswer
  <2>4. CASE /\ Resolve(Root \o Sought(r)) \in Places
             /\ Resolved(r, Resolve(Root \o Sought(r)), FALSE)
    BY <2>1, <2>4, RootByResolved
  <2> QED
    BY <1>1, <2>2, <2>3, <2>4 DEF Canonicalize
<1>2. CASE CanonicalizeDecoded(r)
  <2>1. req[r].pc = "canonDecoded"
    BY <1>2 DEF CanonicalizeDecoded, At
  <2>2. Refusals(Sought(r)) = {}
    BY <2>1 DEF RootInv, Contained, Sought, Asked
  <2>3. Root \o DecodedPath(Sought(r)) \in Seq(OsNames)
    BY <2>1, <2>2, SoughtTyped
  <2>4. CASE \E status : Answer(r, status)
    BY <2>4, RootByAnswer
  <2>5. CASE /\ Resolve(Root \o DecodedPath(Sought(r))) \in Places
             /\ Resolved(r, Resolve(Root \o DecodedPath(Sought(r))), TRUE)
    BY <2>3, <2>5, RootByResolved
  <2> QED
    BY <1>2, <2>4, <2>5 DEF CanonicalizeDecoded
<1> QED
  BY <1>1, <1>2

\* Past the check a location leads to itself.
LEMMA InsideStays ==
  ASSUME Inv, RootInv, NEW r \in Reqs, req[r].pc \in Inside
  PROVE  /\ req[r].at \in Seq(OsNames) /\ WithinRoot(req[r].at) /\ NoLinkOn(req[r].at)
         /\ Resolve(req[r].at) \in {req[r].at, Missing, Broken}
<1>1. req[r].at \in Seq(OsNames) /\ NoDotOn(req[r].at)
  BY PlacesTyped DEF Inv, TypeOK, States
<1>2. WithinRoot(req[r].at) /\ NoLinkOn(req[r].at)
  BY DEF RootInv, Contained
<1> QED
  BY <1>1, <1>2, ResolveWithoutLinks

LEMMA WithinRootBelow ==
  ASSUME NEW S, OsNames \subseteq S, NEW l \in Seq(OsNames), WithinRoot(l), NEW n \in S
  PROVE  WithinRoot(Append(l, n))
<1>1. Root \in Seq(S) /\ l \in Seq(S) /\ Append(l, n) \in Seq(S)
  BY ShareAssumption
<1>2. IsPrefix(l, Append(l, n))
  BY <1>1, PrefixOfAppend
<1> QED
  BY <1>1, <1>2, PrefixTransitive DEF WithinRoot

LEMMA RootByInside ==
  ASSUME Inv, RootInv, [Next]_vars, NEW r \in Reqs,
         \/ Stat(r) \/ Verify(r) \/ CheckDirectory(r) \/ Lstat(r) \/ LstatDecoded(r)
         \/ ReadDir(r) \/ NextEntry(r) \/ EndOfDirectory(r)
         \/ CanonicalizeEntry(r) \/ StatEntry(r)
  PROVE  RootInv'
<1>0. /\ req[r].pc \in Inside /\ Contained(req[r]) /\ req[r] \in States
      /\ Resolve(req[r].at) \in Places => Resolve(req[r].at) = req[r].at
      /\ WithinRoot(req[r].at)
  <2>1. req[r].pc \in Inside
    BY DEF Stat, Verify, CheckDirectory, Lstat, LstatDecoded,
       ReadDir, NextEntry, EndOfDirectory, CanonicalizeEntry, StatEntry, At, Inside,
       Active, PCs, Calls
  <2>2. Resolve(req[r].at) \in Places => Resolve(req[r].at) = req[r].at
    BY <2>1, InsideStays, PlacesTyped
  <2> QED
    BY <2>1, <2>2, InsideStays DEF RootInv, Inv, TypeOK
<1>1. CASE UNCHANGED req
  BY <1>1, RootBySame
<1>2. CASE \E status : Answer(r, status)
  BY <1>2, RootByAnswer
<1>3. CASE \E pc \in Inside : Goto(r, pc)
  BY <1>0, <1>3, RootByGoto
<1>4. ASSUME NEW h, Become(r, h), h.pc \in Inside \cup {"done"}, h.at = req[r].at,
             h.source = req[r].source \/ WithinRoot(h.source)
      PROVE  RootInv'
  BY <1>0, <1>4, RootByStep DEF Contained
<1>5. CASE Stat(r)
  <2>1. ASSUME NEW l, Become(r, [req[r] EXCEPT !.known = NodeAt(l), !.pc = "open"])
        PROVE  RootInv'
    <3> DEFINE h == [req[r] EXCEPT !.known = NodeAt(l), !.pc = "open"]
    <3>1. h.pc = "open" /\ h.at = req[r].at /\ h.source = req[r].source
      BY <1>0 DEF States
    <3> HIDE DEF h
    <3> QED
      BY <1>4, <2>1, <3>1 DEF h, Inside, Active, PCs, Calls
  <2> QED
    BY <1>2, <1>5, <2>1 DEF Stat
<1>7. CASE Verify(r)
  <2>1. CASE Become(r, [req[r] EXCEPT !.pc = "done", !.status = "served"])
    <3> DEFINE h == [req[r] EXCEPT !.pc = "done", !.status = "served"]
    <3>1. h.pc = "done" /\ h.at = req[r].at /\ h.source = req[r].source
      BY <1>0 DEF States
    <3> HIDE DEF h
    <3> QED
      BY <1>4, <2>1, <3>1 DEF h
  <2> QED
    BY <1>2, <1>7, <2>1 DEF Verify
<1>8. CASE Lstat(r) \/ LstatDecoded(r)
  <2>1. ASSUME NEW l, NEW name, Found(r, l, name)
        PROVE  RootInv'
    <3> DEFINE h == [req[r] EXCEPT !.known = NodeAt(l), !.name = name, !.pc = "unlink"]
    <3>1. h.pc = "unlink" /\ h.at = req[r].at /\ h.source = req[r].source
      BY <1>0 DEF States
    <3>2. CASE Become(r, h)
      <4> HIDE DEF h
      <4> QED
        BY <1>4, <3>1, <3>2 DEF Inside, Active, PCs, Calls
    <3> QED
      BY <1>2, <2>1, <3>2 DEF Found
  <2> QED
    BY <1>2, <1>3, <1>8, <2>1 DEF Lstat, LstatDecoded, Inside, Active, PCs, Calls
<1>9. CASE CheckDirectory(r)
  BY <1>2, <1>3, <1>9 DEF CheckDirectory, Inside, Active, PCs, Calls
<1>10. CASE ReadDir(r) \/ EndOfDirectory(r) \/ CanonicalizeEntry(r) \/ StatEntry(r) \/ NextEntry(r)
  BY <1>1, <1>2, <1>3, <1>10 DEF ReadDir, EndOfDirectory, CanonicalizeEntry, StatEntry,
     NextEntry, Inside, Active, PCs, Calls
<1> QED
  BY <1>5, <1>7, <1>8, <1>9, <1>10

LEMMA RootByOpen ==
  ASSUME Inv, RootInv, [Next]_vars, NEW r \in Reqs,
         Open(r) \/ OpenLate(r) \/ WriterOpens(r)
  PROVE  RootInv'
<1>0. req[r] \in States
  BY DEF Inv, TypeOK
<1>1. ASSUME req[r].pc = "open", NEW to \in {"blocked", "verify"},
             Resolve(req[r].at) \in Places, Opened(r, Resolve(req[r].at), to)
      PROVE  RootInv'
  <2> DEFINE l == Resolve(req[r].at)
             h == [req[r] EXCEPT !.file = NodeAt(l), !.source = l, !.pc = to]
  <2>1. h.pc = to /\ h.at = req[r].at /\ h.source = l /\ Become(r, h)
    BY <1>0, <1>1 DEF States, Opened
  <2>2. req[r].pc \in Inside
    BY <1>1 DEF Inside, Active, PCs, Calls
  <2>3. WithinRoot(l)
    BY <1>1, <2>2, InsideStays, PlacesTyped
  <2> HIDE DEF h, l
  <2> QED
    BY <1>1, <2>1, <2>2, <2>3, RootByStep DEF Inside, Active, PCs, Calls
<1>2. CASE \E pc \in {"done", "dropped", "held"} : Over(r, pc, "none", None, None)
  BY <1>2, RootByOver
<1>3. CASE \E status : Answer(r, status)
  BY <1>3, RootByAnswer
<1>4. CASE req[r].pc = "blocked" /\ Goto(r, "verify")
  BY <1>4, RootByGoto DEF Inside, Active, PCs, Calls
<1> QED
  BY <1>1, <1>2, <1>3, <1>4, OpenSteps

LEMMA RootByUnlink ==
  ASSUME Inv, RootInv, [Next]_vars, NEW r \in Reqs, Unlink(r)
  PROVE  RootInv'
<1> DEFINE entry == Entry(req[r].at, req[r].name)
<1>0. req[r].pc \in Inside /\ req[r].name \in OsNames \cup {None}
  BY DEF Unlink, Inside, Active, PCs, Calls, Inv, TypeOK, States
<1>1. CASE /\ NodeAt(entry) \in Files /\ ~IsDir(entry)
           /\ Conclude(r, "noContent", NodeAt(entry), entry)
  <2>1. entry \in Locs
    BY <1>1, FileHasLocation
  <2>2. entry \notin {Missing, Broken}
    BY <2>1, PlacesTyped DEF Places
  <2>3. entry = Append(req[r].at, req[r].name)
    BY <1>0, <1>1, <2>2, InsideStays DEF Entry
  <2>4. WithinRoot(entry)
    BY <1>0, <2>3, InsideStays, WithinRootBelow
  <2> HIDE DEF entry
  <2> QED
    BY <1>1, <2>4, RootByOver DEF Conclude
<1>2. CASE Conclude(r, "notFound", None, None) \/ Conclude(r, "unavailable", None, None)
  BY <1>2, RootByOver DEF Conclude
<1> HIDE DEF entry
<1> QED
  BY <1>1, <1>2 DEF Unlink, entry

LEMMA RootByFailure ==
  ASSUME Inv, RootInv, [Next]_vars, NEW r \in Reqs, Fail(r) \/ Disconnect(r)
  PROVE  RootInv'
<1>0. req[r] \in States /\ Contained(req[r])
  BY DEF Inv, TypeOK, RootInv
<1>1. CASE Goto(r, "next") /\ req[r].pc \in {"entryCanon", "entryMeta"}
  BY <1>1, RootByGoto DEF Inside, Active, PCs, Calls
<1>2. CASE \E pc \in {"done", "dropped", "held"} : Over(r, pc, "none", None, None)
  BY <1>2, RootByOver
<1>3. CASE \E status : Answer(r, status)
  BY <1>3, RootByAnswer
<1>4. CASE /\ req[r].pc \in {"open", "unlink"}
           /\ Become(r, [req[r] EXCEPT !.pc = "orphan", !.status = "none"])
  <2> DEFINE h == [req[r] EXCEPT !.pc = "orphan", !.status = "none"]
  <2>1. h.pc = "orphan" /\ h.at = req[r].at /\ h.source = req[r].source
    BY <1>0 DEF States
  <2> HIDE DEF h
  <2> QED
    BY <1>0, <1>4, <2>1, RootByStep DEF h, Contained, At, Inside, Active, PCs, Calls
<1> QED
  BY <1>1, <1>2, <1>3, <1>4, LeaveSteps DEF Fail

LEMMA RootKept ==
  ASSUME Inv, RootInv, [Next]_vars
  PROVE  RootInv'
<1>1. CASE UNCHANGED vars
  BY <1>1, RootBySame DEF vars
<1>2. CASE Others
  <2>1. UNCHANGED req
    BY <1>2 DEF Others, CreateEntry, RemoveEntry, MoveEntry
  <2> QED
    BY <2>1, RootBySame
<1> QED
  BY <1>1, <1>2, RootByArrive, RootByCanonicalize, RootByInside, RootByOpen, RootByUnlink,
     RootByFailure DEF Next, Work

LEMMA RootHolds ==
  ASSUME NoNewLinks
  PROVE  Spec => []RootInv
<1>1. Init => RootInv
  <2> SUFFICES ASSUME Init
               PROVE  RootInv
    OBVIOUS
  <2>1. \A f \in fresh : Kind[f] # "link"
    BY DEF Init, NoNewLinks
  <2>2. \A r \in Reqs : Contained(req[r])
    BY DEF Init, Idle, Contained, Inside, Active
  <2> QED
    BY <2>1, <2>2 DEF RootInv
<1> QED
  BY <1>1, RootKept, InvHolds, PTL DEF Spec

(* StaysInRoot: what download serves and delete_file removes is below the    *)
(* shared root, whatever else other programs do to the share, as long as     *)
(* they make no links while requests run.                                    *)
THEOREM NothingOutsideIsReached ==
  ASSUME NoNewLinks
  PROVE  Spec => []StaysInRoot
<1>1. RootInv => StaysInRoot
  BY DEF RootInv, Contained, StaysInRoot
<1> QED
  BY <1>1, RootHolds, PTL

--------------------------------------------------------------------------------
(* The tree. *)

LEMMA NoneIsNoDir ==
  ASSUME NEW l, IsDir(l)
  PROVE  NodeAt(l) # None /\ l \in Places
BY ShareAssumption DEF IsDir, IsKind, NodeAt, NodeIn, Places

LEMMA FrontOfPlace ==
  ASSUME NEW l \in Seq(OsNames), l # <<>>
  PROVE  /\ Front(l) \in Seq(OsNames) /\ Last(l) \in OsNames /\ Len(l) \in Nat \ {0}
         /\ Append(Front(l), Last(l)) = l /\ Len(Front(l)) = Len(l) - 1
         /\ Front(l) = SubSeq(l, 1, Len(l) - 1)
         /\ \A i \in 0..Len(l) - 1 : SubSeq(Front(l), 1, i) = SubSeq(l, 1, i)
<1>1. PICK n \in Nat \ {0} : n = Len(l)
  OBVIOUS
<1>2. Front(l) = SubSeq(l, 1, n - 1) /\ Last(l) = l[n]
  BY <1>1 DEF Front, Last
<1>3. SubSeq(l, 1, n - 1) \in Seq(OsNames) /\ Len(SubSeq(l, 1, n - 1)) = n - 1 /\ l[n] \in OsNames
  BY <1>1
<1>4. Append(SubSeq(l, 1, n - 1), l[n]) = l
  BY <1>1
<1>5. \A i \in 0..n - 1 : SubSeq(SubSeq(l, 1, n - 1), 1, i) = SubSeq(l, 1, i)
  BY <1>1
<1> QED
  BY <1>1, <1>2, <1>3, <1>4, <1>5

LEMMA AppendFront ==
  ASSUME NEW l \in Seq(OsNames), NEW n \in OsNames
  PROVE  /\ Append(l, n) \in Seq(OsNames) /\ Append(l, n) # <<>>
         /\ Front(Append(l, n)) = l /\ Last(Append(l, n)) = n
BY DEF Front, Last

\* No step takes a directory away that has an entry, or makes an entry elsewhere.
LEMMA TreeKept ==
  ASSUME Inv, IsTree(fs), [Next]_vars
  PROVE  IsTree(fs')
<1>0. fs \in [Locs -> Files \cup {None}] /\ fresh \subseteq Files /\ EnvLocs \subseteq Locs
  BY ShareAssumption DEF Inv, TypeOK
<1>1. \A m \in Locs : fs[m] # None => IsDir(Front(m))
  BY DEF IsTree, IsDir, NodeAt
<1>2. ASSUME \A l \in Locs : IsDir(l) /\ fs'[l] # fs[l] =>
               \A m \in Locs : fs'[m] # None => Front(m) # l,
             \A m \in Locs : fs'[m] # None => fs[m] # None \/ IsDir(Front(m))
      PROVE  IsTree(fs')
  <2>1. ASSUME NEW l, l \in Locs => fs'[l] = fs[l]
        PROVE  NodeIn(fs', l) = NodeAt(l)
    BY <2>1 DEF NodeIn, NodeAt
  <2>2. ASSUME NEW m \in Locs, fs'[m] # None
        PROVE  /\ IsDir(Front(m))
               /\ Front(m) \in Locs => fs'[Front(m)] = fs[Front(m)]
    BY <1>1, <1>2, <2>2
  <2> QED
    BY <2>1, <2>2 DEF IsTree, IsDir
<1>3. CASE UNCHANGED fs
  BY <1>3
<1>4. CASE \E r \in Reqs : Unlink(r)
  <2>1. PICK l : /\ UNCHANGED fs \/ (NodeAt(l) \in Files /\ ~IsDir(l) /\ fs' = [fs EXCEPT ![l] = None])
    BY <1>4 DEF Unlink, ChangeShare
  <2>2. CASE NodeAt(l) \in Files /\ ~IsDir(l) /\ fs' = [fs EXCEPT ![l] = None]
    <3>1. l \in Locs
      BY <2>2, FileHasLocation
    <3>2. fs'[l] = None /\ \A m \in Locs \ {l} : fs'[m] = fs[m]
      BY <1>0, <2>2, <3>1
    <3> QED
      BY <1>2, <2>2, <3>1, <3>2
  <2> QED
    BY <1>3, <2>1, <2>2
<1>5. ASSUME NEW l \in EnvLocs, NEW f \in Files, CreateEntry(l, f)
      PROVE  IsTree(fs')
  <2>1. ~IsDir(l) /\ IsDir(Front(l)) /\ fs' = [fs EXCEPT ![l] = f]
    BY <1>5, NoneIsNoDir DEF CreateEntry, ChangeShare
  <2>2. l \in Locs /\ \A m \in Locs \ {l} : fs'[m] = fs[m]
    BY <1>0, <2>1
  <2> QED
    BY <1>2, <2>1, <2>2
<1>6. ASSUME NEW l \in EnvLocs, RemoveEntry(l)
      PROVE  IsTree(fs')
  <2>1. fs' = [fs EXCEPT ![l] = None] /\ (IsDir(l) => Children(fs, l) = {})
    BY <1>6 DEF RemoveEntry, ChangeShare
  <2>2. ASSUME NEW m \in Locs, Front(m) = l, Children(fs, l) = {}
        PROVE  fs[m] = None
    <3>1. m \in Seq(OsNames) /\ m # <<>> /\ m \notin AboveRoot
      BY ShareAssumption
    <3>2. Append(l, Last(m)) = m /\ Last(m) \in OsNames
      BY <2>2, <3>1, FrontOfPlace
    <3>3. NodeIn(fs, m) = None
      BY <2>2, <3>2 DEF Children
    <3> QED
      BY <3>1, <3>3 DEF NodeIn
  <2>3. l \in Locs /\ fs'[l] = None /\ \A m \in Locs \ {l} : fs'[m] = fs[m]
    BY <1>0, <2>1
  <2> QED
    BY <1>2, <2>1, <2>2, <2>3
<1>7. ASSUME NEW l \in EnvLocs, NEW k \in EnvLocs, MoveEntry(l, k)
      PROVE  IsTree(fs')
  <2>1. /\ fs' = [fs EXCEPT ![l] = None, ![k] = fs[l]]
        /\ IsKind(NodeAt(l), "file") /\ ~IsDir(k) /\ IsDir(Front(k))
    BY <1>7 DEF MoveEntry, ChangeShare
  <2>2. ~IsDir(l)
    BY <2>1, ShareAssumption DEF IsDir, IsKind
  <2>3. /\ l \in Locs /\ k \in Locs
        /\ \A m \in Locs \ {l, k} : fs'[m] = fs[m]
        /\ fs'[l] # None => fs[l] # None
    BY <1>0, <2>1
  <2> QED
    BY <1>2, <2>1, <2>2, <2>3
<1>8. CASE Others
  <2>1. CASE \E l \in EnvLocs, f \in Files : CreateEntry(l, f)
    BY <1>5, <2>1
  <2>2. CASE \E l \in EnvLocs : RemoveEntry(l)
    BY <1>6, <2>2
  <2>3. CASE \E l, k \in EnvLocs : MoveEntry(l, k)
    BY <1>7, <2>3
  <2> QED
    BY <1>8, <2>1, <2>2, <2>3 DEF Others
<1>9. CASE Next /\ ~(\E r \in Reqs : Unlink(r)) /\ ~Others
  <2>1. UNCHANGED fs
    BY <1>9 DEF Next, Arrive, Work, Canonicalize, CanonicalizeDecoded, Stat, Open, OpenLate, Verify,
       CheckDirectory, Lstat, LstatDecoded, ReadDir, NextEntry, EndOfDirectory,
       CanonicalizeEntry, StatEntry, WriterOpens, Fail, Disconnect
  <2> QED
    BY <1>3, <2>1
<1>10. CASE UNCHANGED vars
  BY <1>3, <1>10 DEF vars
<1> QED
  BY <1>4, <1>8, <1>9, <1>10

\* What is above an entry is a directory, up to the top.
LEMMA DirsAbove ==
  ASSUME IsTree(fs), NEW l \in Places, NodeAt(l) # None
  PROVE  \A i \in 0..Len(l) - 1 : IsDir(SubSeq(l, 1, i))
<1> DEFINE Good == {k \in Places : NodeAt(k) # None =>
                      \A i \in 0..Len(k) - 1 : IsDir(SubSeq(k, 1, i))}
           below == [k \in Places |-> IF k \in AboveRoot THEN {} ELSE {Front(k)}]
           rank == [k \in Places |-> Len(k)]
<1>1. ASSUME NEW k \in Places, k \notin AboveRoot
      PROVE  /\ k \in Locs /\ k \in Seq(OsNames) /\ k # <<>> /\ Front(k) \in Places
             /\ Len(Front(k)) < Len(k)
  <2>1. k \in Locs /\ k \in Seq(OsNames) /\ k # <<>> /\ Front(k) \in Places
    BY <1>1, ShareAssumption DEF Places
  <2> QED
    BY <2>1, FrontOfPlace
<1>2. WellFounded(Places, below)
  <2>1. below \in [Places -> SUBSET Places] /\ rank \in [Places -> Nat]
    BY <1>1, PlacesTyped
  <2>2. \A k \in Places : \A j \in below[k] : rank[j] < rank[k]
    BY <1>1
  <2> HIDE DEF below, rank
  <2> QED
    BY <2>1, <2>2, FallingRank
<1>3. ASSUME NEW k \in Places, below[k] \subseteq Good, NodeAt(k) # None, NEW i \in 0..Len(k) - 1
      PROVE  IsDir(SubSeq(k, 1, i))
  <2>1. CASE k \in AboveRoot
    <3>1. PICK j \in 0..Len(Root) : k = SubSeq(Root, 1, j)
      BY <2>1 DEF AboveRoot
    <3>2. SubSeq(k, 1, i) = SubSeq(Root, 1, i) /\ i \in 0..Len(Root)
      BY <3>1, ShareAssumption
    <3> QED
      BY <3>2 DEF IsDir, NodeAt, NodeIn, AboveRoot
  <2>2. CASE k \notin AboveRoot
    <3>1. fs[k] # None /\ Front(k) \in Good
      BY <1>1, <1>3, <2>2 DEF NodeAt, NodeIn
    <3>2. IsDir(Front(k))
      BY <1>1, <2>2, <3>1 DEF IsTree, IsDir, NodeAt
    <3>3. \A j \in 0..Len(Front(k)) - 1 : IsDir(SubSeq(Front(k), 1, j))
      BY <3>1, <3>2, NoneIsNoDir
    <3>4. i = Len(k) - 1 \/ i \in 0..Len(Front(k)) - 1
      BY <1>1, <2>2, FrontOfPlace
    <3> QED
      BY <1>1, <2>2, <3>2, <3>3, <3>4, FrontOfPlace
  <2> QED
    BY <2>1, <2>2
<1>4. Inductive(Places, below, Good)
  BY <1>3 DEF Inductive
<1> HIDE DEF Good, below
<1>5. l \in Good
  BY <1>2, <1>4, Induction
<1> QED
  BY <1>5 DEF Good

\* A location with directories above it, and no link at it, is found.
LEMMA FollowStraight ==
  ASSUME NEW w \in Walks,
         \A i \in 1..Len(Along(w)) - 1 : IsDir(SubSeq(Along(w), 1, i)),
         NoDotOn(Along(w)), NodeAt(Along(w)) # None, ~IsKind(NodeAt(Along(w)), "link")
  PROVE  Follow[w] = Along(w)
<1> DEFINE Straight(l) == /\ \A i \in 1..Len(l) - 1 : IsDir(SubSeq(l, 1, i))
                          /\ NoDotOn(l) /\ NodeAt(l) # None /\ ~IsKind(NodeAt(l), "link")
           Good == {v \in Walks : Straight(Along(v)) => Follow[v] = Along(v)}
<1>1. ASSUME NEW v \in Walks, BelowWalk[v] \subseteq Good, Straight(Along(v))
      PROVE  Follow[v] = Along(v)
  <2>0. v.rest # <<>> => Head(v.rest) # Dot
    BY <1>1, AlongAhead DEF NoDotOn
  <2>1. CASE v.rest = <<>>
    <3>1. Along(v) = v.at
      BY <2>1 DEF Along, Walks
    <3>2. ~GoesOn(v) /\ Stop(v) = v.at
      BY <2>1 DEF GoesOn, Stop
    <3> QED
      BY <3>1, <3>2, FollowStep
  <2>2. CASE v.rest # <<>> /\ IsDir(Ahead(v))
    <3>1. Onward(v).at = Ahead(v) /\ Onward(v).rest = Tail(v.rest) /\ GoesOn(v)
      BY <2>0, <2>2 DEF Onward, Walks, GoesOn
    <3>2. Along(Onward(v)) = Along(v)
      BY <2>2, <3>1, AlongAhead DEF Along
    <3>3. Onward(v) \in Good /\ Follow[v] = Follow[Onward(v)]
      BY <1>1, <3>1, FollowStep DEF BelowWalk
    <3> HIDE DEF Straight
    <3> QED
      BY <1>1, <3>2, <3>3
  <2>3. CASE v.rest # <<>> /\ ~IsDir(Ahead(v))
    <3>1. Len(v.at) + 1 \notin 1..Len(Along(v)) - 1
      BY <1>1, <2>3, AlongAhead
    <3>2. Tail(v.rest) = <<>>
      <4>1. /\ Along(v) \in Seq(OsNames) /\ Ahead(v) \in Seq(OsNames)
            /\ Tail(v.rest) \in Seq(OsNames) /\ Len(v.at) \in Nat
        BY <2>3, AlongAhead, AheadTyped DEF Walks
      <4>2. /\ Len(v.at) + 1 \in 1..Len(Along(v)) /\ Len(Ahead(v)) = Len(v.at) + 1
            /\ Ahead(v) \o Tail(v.rest) = Along(v)
        BY <2>3, AlongAhead
      <4>3. Len(Along(v)) = Len(v.at) + 1
        BY <3>1, <4>1, <4>2
      <4>4. Len(Along(v)) = Len(Ahead(v)) + Len(Tail(v.rest))
        <5>1. \A a, b \in Seq(OsNames) : Len(a \o b) = Len(a) + Len(b)
          OBVIOUS
        <5> QED
          BY <4>1, <4>2, <5>1
      <4> QED
        BY <4>1, <4>2, <4>3, <4>4
    <3>3. Ahead(v) = Along(v)
      BY <2>3, <3>2, AlongAhead
    <3>4. ~GoesOn(v) /\ Stop(v) = Along(v)
      BY <1>1, <2>0, <2>3, <3>2, <3>3 DEF GoesOn, Stop
    <3> QED
      BY <3>4, FollowStep
  <2> QED
    BY <2>1, <2>2, <2>3
<1>2. Inductive(Walks, BelowWalk, Good)
  <2> HIDE DEF Straight
  <2> QED
    BY <1>1 DEF Inductive
<1> HIDE DEF Good
<1>3. w \in Good
  BY <1>2, WalksEnd, Induction
<1> QED
  BY <1>3 DEF Good

LEMMA ResolveFound ==
  ASSUME IsTree(fs), NEW l \in Places, NodeAt(l) # None, ~IsKind(NodeAt(l), "link")
  PROVE  Resolve(l) = l
<1> DEFINE w == [hops |-> MaxHops, at |-> <<>>, rest |-> l]
<1>1. w \in Walks /\ Along(w) = l /\ l \in Seq(OsNames) /\ NoDotOn(l)
  BY PlacesTyped, ShareAssumption DEF Walks, Along
<1>2. \A i \in 1..Len(l) - 1 : IsDir(SubSeq(l, 1, i))
  BY <1>1, DirsAbove
<1> HIDE DEF w
<1>3. Follow[w] = Along(w)
  BY <1>1, <1>2, FollowStraight
<1> QED
  BY <1>1, <1>3 DEF Resolve, w

--------------------------------------------------------------------------------
(* Listings. *)

Scanning == {"next", "entryCanon", "entryMeta"}

Plainly(share, l) ==
  NodeIn(share, l) \in Files /\ Kind[NodeIn(share, l)] \in {"file", "dir"}

Shows(call, n) ==
  /\ ShowHidden \/ Render[n] \notin DotNames
  /\ IsPathVisible(Access, call.groups, Append(call.path, Render[n]))

\* The entry a listing is working on.
Pending(h, s) == IF h.pc \in {"entryCanon", "entryMeta"} THEN {s.item} ELSE {}

HasRow(s, n) == \E row \in s.rows : row.entry = n
OneRowEach(s) == \A row, other \in s.rows : row.entry = other.entry => row = other

\* What a listing at work has done so far, and that what it owes is still there.
ScanningOK(share, h, s) ==
  h.pc \in Scanning =>
    /\ s.home = h.at /\ s.dir # None
    /\ \A n \in s.must : Plainly(share, Append(s.home, n))
    /\ Pending(h, s) \subseteq s.seen
    /\ \A row \in s.rows : row.entry \in s.seen \ Pending(h, s)
    /\ OneRowEach(s)
    /\ \A n \in (s.must \cap s.seen) \ (s.lost \cup Pending(h, s)) :
         Shows(h.call, n) => HasRow(s, n)
    /\ h.pc = "entryMeta" /\ s.item \in s.must => s.spot = Append(s.home, s.item)

\* What a listing has shown when it is over.
ListedOK(h, s) ==
  h.pc = "done" /\ h.status = "listed" =>
    /\ s.dir = None
    /\ OneRowEach(s)
    /\ \A n \in s.must \ s.lost : Shows(h.call, n) => HasRow(s, n)

ListOK(share, h, s) == ScanningOK(share, h, s) /\ ListedOK(h, s)

ListInv == IsTree(fs) /\ \A r \in Reqs : ListOK(fs, req[r], scan[r])

Quiet(h) == h.pc \notin Scanning /\ ~(h.pc = "done" /\ h.status = "listed")

LEMMA QuietIsOK ==
  ASSUME NEW h, Quiet(h), NEW share, NEW s
  PROVE  ListOK(share, h, s)
BY DEF Quiet, ListOK, ScanningOK, ListedOK

\* The streams are owed no more when the share changes, and only what stays.
LEMMA ListByTrack ==
  ASSUME Inv, Track, NEW q \in Reqs, NEW h, ListOK(fs, h, scan[q])
  PROVE  ListOK(fs', h, scan'[q])
<1>1. scan[q] \in Scans
  BY DEF Inv, TypeOK
<1>2. CASE scan[q].dir = None
  <2>1. scan'[q] = scan[q] /\ h.pc \notin Scanning
    BY <1>2 DEF Track, ListOK, ScanningOK
  <2> QED
    BY <2>1 DEF ListOK, ScanningOK
<1>3. CASE scan[q].dir # None
  <2> DEFINE s == scan[q]
             t == scan'[q]
  <2>1. /\ t.home = s.home /\ t.dir = s.dir /\ t.seen = s.seen /\ t.lost = s.lost
        /\ t.item = s.item /\ t.spot = s.spot /\ t.rows = s.rows
        /\ t.must \subseteq s.must
        /\ \A n \in t.must : NodeIn(fs', Append(s.home, n)) = NodeIn(fs, Append(s.home, n))
    <3>1. CASE NodeIn(fs', s.home) # s.dir
      <4>1. t = [s EXCEPT !.must = {}]
        BY <1>3, <3>1 DEF Track
      <4> HIDE DEF t, s
      <4> QED
        BY <1>1, <4>1 DEF Scans, s
    <3>2. CASE NodeIn(fs', s.home) = s.dir
      <4>1. t = [s EXCEPT !.may = @ \cup Children(fs', s.home),
                          !.must = {n \in @ : NodeIn(fs', Append(s.home, n))
                                                 = NodeAt(Append(s.home, n))}]
        BY <1>3, <3>2 DEF Track
      <4> HIDE DEF t, s
      <4> QED
        BY <1>1, <4>1 DEF Scans, s, NodeAt
    <3> QED
      BY <3>1, <3>2
  <2>2. ListedOK(h, t)
    BY <1>3 DEF ListOK, ListedOK
  <2>3. Pending(h, t) = Pending(h, s) /\ OneRowEach(t) = OneRowEach(s)
        /\ \A n : HasRow(t, n) = HasRow(s, n)
    BY <2>1 DEF Pending, OneRowEach, HasRow
  <2> HIDE DEF s, t
  <2>4. ScanningOK(fs, h, s)
    BY DEF ListOK, s
  <2>5. \A n \in t.must : Plainly(fs, Append(s.home, n)) => Plainly(fs', Append(t.home, n))
    BY <2>1 DEF Plainly
  <2>6. ScanningOK(fs', h, t)
    BY <2>1, <2>3, <2>4, <2>5 DEF ScanningOK
  <2> QED
    BY <2>2, <2>6 DEF ListOK, t
<1> QED
  BY <1>2, <1>3

LEMMA ListByHandler ==
  ASSUME Inv, ListInv, NEW r \in Reqs, NEW h, Become(r, h), UNCHANGED fs,
         ListOK(fs, h, scan'[r]), \A q \in Reqs \ {r} : scan'[q] = scan[q]
  PROVE  ListInv'
<1>1. req'[r] = h /\ \A q \in Reqs \ {r} : req'[q] = req[q]
  BY DEF Become, Inv, TypeOK
<1>2. \A q \in Reqs : ListOK(fs', req'[q], scan'[q])
  BY <1>1 DEF ListInv
<1> QED
  BY <1>2 DEF ListInv

\* A step of a handler that does not list.
LEMMA ListByQuiet ==
  ASSUME Inv, ListInv, NEW r \in Reqs, NEW h, Become(r, h), Quiet(h),
         UNCHANGED fs, \A q \in Reqs \ {r} : scan'[q] = scan[q]
  PROVE  ListInv'
BY QuietIsOK, ListByHandler

LEMMA ListByOver ==
  ASSUME Inv, ListInv, NEW r \in Reqs, NEW pc \in {"done", "dropped", "held"}, NEW status,
         NEW file, NEW source, Over(r, pc, status, file, source), status # "listed",
         UNCHANGED fs, \A q \in Reqs \ {r} : scan'[q] = scan[q]
  PROVE  ListInv'
<1> DEFINE h == Outcome(r, pc, status, file, source)
<1>1. Become(r, h) /\ h.pc = pc /\ h.status = status
  BY DEF Over, Outcome, Idle
<1> HIDE DEF h
<1> QED
  BY <1>1, ListByQuiet DEF Quiet, Scanning

LEMMA ListByAnswer ==
  ASSUME Inv, ListInv, NEW r \in Reqs, NEW status, Answer(r, status), status # "listed",
         UNCHANGED fs, \A q \in Reqs \ {r} : scan'[q] = scan[q]
  PROVE  ListInv'
BY ListByOver DEF Answer

LEMMA ListByGoto ==
  ASSUME Inv, ListInv, NEW r \in Reqs, NEW pc, Goto(r, pc), pc \notin Scanning \cup {"done"},
         UNCHANGED fs, \A q \in Reqs \ {r} : scan'[q] = scan[q]
  PROVE  ListInv'
<1> DEFINE h == [req[r] EXCEPT !.pc = pc]
<1>1. Become(r, h) /\ h.pc = pc
  BY DEF Goto, Inv, TypeOK, States
<1> HIDE DEF h
<1> QED
  BY <1>1, ListByQuiet DEF Quiet

LEMMA ListByArrive ==
  ASSUME Inv, ListInv, NEW r \in Reqs, NEW call \in Requests[r], Arrive(r, call)
  PROVE  ListInv'
<1> DEFINE valid == Validated(call)
           verdict == Screen(valid)
           h == [Idle EXCEPT !.call = valid, !.status = verdict,
                             !.pc = IF verdict = "pending" THEN "canon" ELSE "done"]
<1>1. verdict # "listed"
  BY DEF Screen
<1>2. h.status = verdict /\ h.pc \in {"canon", "done"} /\ Become(r, h)
  BY DEF Idle, Arrive
<1>3. UNCHANGED fs /\ \A q \in Reqs \ {r} : scan'[q] = scan[q]
  BY DEF Arrive, Inv, TypeOK
<1> HIDE DEF h, verdict
<1> QED
  BY <1>1, <1>2, <1>3, ListByQuiet DEF Quiet, Scanning

LEMMA ListByLookup ==
  ASSUME Inv, ListInv, NEW r \in Reqs,
         \/ Canonicalize(r) \/ CanonicalizeDecoded(r)
         \/ Stat(r) \/ Open(r) \/ OpenLate(r) \/ WriterOpens(r) \/ Verify(r)
         \/ CheckDirectory(r) \/ Lstat(r) \/ LstatDecoded(r)
  PROVE  ListInv'
<1>0. /\ req[r] \in States /\ UNCHANGED fs /\ \A q \in Reqs \ {r} : scan'[q] = scan[q]
  BY DEF Inv, TypeOK, Canonicalize, CanonicalizeDecoded, Stat, Open, OpenLate, WriterOpens, Verify,
     CheckDirectory, Lstat, LstatDecoded
<1>1. ASSUME NEW status, Answer(r, status), status # "listed"
      PROVE  ListInv'
  BY <1>0, <1>1, ListByAnswer
<1>2. ASSUME NEW pc, Goto(r, pc), pc \notin Scanning \cup {"done"}
      PROVE  ListInv'
  BY <1>0, <1>2, ListByGoto
<1>3. ASSUME NEW h, Become(r, h), h.pc \notin Scanning, h.pc = "done" => h.status # "listed"
      PROVE  ListInv'
  BY <1>0, <1>3, ListByQuiet DEF Quiet
<1>4. ASSUME NEW l, NEW decoded, Resolved(r, l, decoded)
      PROVE  ListInv'
  <2> DEFINE pc == IF req[r].call.op = "get" THEN "stat" ELSE "isDir"
             h == [req[r] EXCEPT !.at = l, !.decoded = decoded, !.pc = pc]
  <2>1. h.pc \in {"stat", "isDir"}
    BY <1>0 DEF States
  <2>2. CASE Become(r, h)
    <3> HIDE DEF h
    <3> QED
      BY <1>3, <2>1, <2>2 DEF Scanning
  <2>3. CASE Answer(r, "notFound")
    BY <1>1, <2>3
  <2> QED
    BY <1>4, <2>2, <2>3 DEF Resolved
<1>5. ASSUME NEW l, NEW name, Found(r, l, name)
      PROVE  ListInv'
  <2> DEFINE h == [req[r] EXCEPT !.known = NodeAt(l), !.name = name, !.pc = "unlink"]
  <2>1. h.pc = "unlink"
    BY <1>0 DEF States
  <2>2. CASE Become(r, h)
    <3> HIDE DEF h
    <3> QED
      BY <1>3, <2>1, <2>2 DEF Scanning
  <2>3. CASE Answer(r, "badRequest")
    BY <1>1, <2>3
  <2> QED
    BY <1>5, <2>2, <2>3 DEF Found
<1>6. \A p : Refusal(p) # "listed"
  BY DEF Refusal
<1>7. CASE Canonicalize(r) \/ CanonicalizeDecoded(r)
  BY <1>1, <1>2, <1>4, <1>6, <1>7 DEF Canonicalize, CanonicalizeDecoded, Scanning
<1>8. CASE Stat(r)
  <2>1. ASSUME NEW l, Become(r, [req[r] EXCEPT !.known = NodeAt(l), !.pc = "open"])
        PROVE  ListInv'
    <3> DEFINE h == [req[r] EXCEPT !.known = NodeAt(l), !.pc = "open"]
    <3>1. h.pc = "open" /\ Become(r, h)
      BY <1>0, <2>1 DEF States
    <3> HIDE DEF h
    <3> QED
      BY <1>3, <3>1 DEF Scanning
  <2> QED
    BY <1>1, <1>8, <2>1 DEF Stat
<1>9. CASE Open(r) \/ OpenLate(r) \/ WriterOpens(r)
  <2>1. ASSUME NEW l, NEW to \in {"blocked", "verify"}, Opened(r, l, to)
        PROVE  ListInv'
    <3> DEFINE h == [req[r] EXCEPT !.file = NodeAt(l), !.source = l, !.pc = to]
    <3>1. h.pc = to /\ Become(r, h)
      BY <1>0, <2>1 DEF States, Opened
    <3> HIDE DEF h
    <3> QED
      BY <1>3, <3>1 DEF Scanning
  <2>2. CASE \E pc \in {"done", "dropped", "held"} : Over(r, pc, "none", None, None)
    BY <1>0, <2>2, ListByOver
  <2> QED
    BY <1>1, <1>2, <1>9, <2>1, <2>2, OpenSteps DEF Scanning
<1>10. CASE Verify(r)
  <2>1. CASE Become(r, [req[r] EXCEPT !.pc = "done", !.status = "served"])
    <3> DEFINE h == [req[r] EXCEPT !.pc = "done", !.status = "served"]
    <3>1. h.pc = "done" /\ h.status = "served"
      BY <1>0 DEF States
    <3> HIDE DEF h
    <3> QED
      BY <1>3, <2>1, <3>1 DEF h, Scanning
  <2> QED
    BY <1>1, <1>10, <2>1 DEF Verify
<1>11. CASE CheckDirectory(r)
  BY <1>1, <1>2, <1>11 DEF CheckDirectory, Scanning
<1>12. CASE Lstat(r) \/ LstatDecoded(r)
  BY <1>1, <1>2, <1>5, <1>6, <1>12 DEF Lstat, LstatDecoded, Scanning
<1> QED
  BY <1>7, <1>8, <1>9, <1>10, <1>11, <1>12

\* A change of the share by a request or by another program.
LEMMA ListByChange ==
  ASSUME Inv, ListInv, [Next]_vars, Track,
         \A q \in Reqs : req'[q] = req[q] \/ Quiet(req'[q])
  PROVE  ListInv'
<1>1. ASSUME NEW q \in Reqs
      PROVE  ListOK(fs', req'[q], scan'[q])
  <2>1. CASE Quiet(req'[q])
    BY <2>1, QuietIsOK
  <2>2. CASE req'[q] = req[q]
    <3>1. ListOK(fs, req[q], scan[q])
      BY DEF ListInv
    <3>2. ListOK(fs', req[q], scan'[q])
      BY <3>1, ListByTrack
    <3> QED
      BY <2>2, <3>2
  <2> QED
    BY <2>1, <2>2
<1>2. IsTree(fs')
  BY TreeKept DEF ListInv
<1> QED
  BY <1>1, <1>2 DEF ListInv

LEMMA ListByUnlink ==
  ASSUME Inv, ListInv, [Next]_vars, NEW r \in Reqs, Unlink(r)
  PROVE  ListInv'
<1> DEFINE entry == Entry(req[r].at, req[r].name)
<1> HIDE DEF entry
<1>1. CASE Track /\ Conclude(r, "noContent", NodeAt(entry), entry)
  <2>1. PICK pc \in {"done", "dropped", "held"}, status \in {"none", "noContent"} :
          Become(r, Outcome(r, pc, status, NodeAt(entry), entry))
    <3>1. \/ Become(r, Outcome(r, "dropped", "none", NodeAt(entry), entry))
          \/ Become(r, Outcome(r, "done", "noContent", NodeAt(entry), entry))
      BY <1>1 DEF Conclude, Over, Outcome
    <3> QED
      BY <3>1
  <2> DEFINE h == Outcome(r, pc, status, NodeAt(entry), entry)
  <2>2. h.pc = pc /\ h.status = status
    BY DEF Outcome, Idle
  <2>3. Quiet(h)
    BY <2>1, <2>2 DEF Quiet, Scanning
  <2>4. req'[r] = h /\ \A q \in Reqs \ {r} : req'[q] = req[q]
    BY <2>1 DEF Become, Inv, TypeOK
  <2> HIDE DEF h
  <2>5. \A q \in Reqs : req'[q] = req[q] \/ Quiet(req'[q])
    BY <2>3, <2>4
  <2> QED
    BY <1>1, <2>5, ListByChange
<1>2. CASE /\ Conclude(r, "notFound", None, None) \/ Conclude(r, "unavailable", None, None)
           /\ UNCHANGED <<fs, scan>>
  BY <1>2, ListByOver DEF Conclude
<1> QED
  BY <1>1, <1>2 DEF Unlink, entry, ChangeShare

LEMMA ListByFailure ==
  ASSUME Inv, ListInv, NEW r \in Reqs, Fail(r) \/ Disconnect(r)
  PROVE  ListInv'
<1>0. /\ req[r] \in States /\ scan[r] \in Scans /\ UNCHANGED fs
      /\ \A q \in Reqs \ {r} : scan'[q] = scan[q]
  BY DEF Inv, TypeOK, Fail, Disconnect
<1>1. CASE Goto(r, "next") /\ req[r].pc \in {"entryCanon", "entryMeta"} /\ Fail(r)
  <2> DEFINE s == scan[r]
             t == [s EXCEPT !.lost = @ \cup {s.item}, !.item = None, !.spot = Root]
             h == [req[r] EXCEPT !.pc = "next"]
  <2>1. scan'[r] = t /\ Become(r, h)
    BY <1>1 DEF Fail, Goto, Inv, TypeOK
  <2>2. h.pc = "next" /\ h.at = req[r].at /\ h.call = req[r].call
    BY <1>0 DEF States
  <2>3. /\ t.home = s.home /\ t.dir = s.dir /\ t.must = s.must /\ t.seen = s.seen
        /\ t.lost = s.lost \cup {s.item} /\ t.rows = s.rows
    BY <1>0 DEF Scans
  <2>4. ListOK(fs, req[r], s)
    BY DEF ListInv
  <2> HIDE DEF s, t, h
  <2>5. Pending(h, t) = {} /\ Pending(req[r], s) = {s.item}
    BY <1>1, <2>2 DEF Pending
  <2>6. ScanningOK(fs, h, t)
    BY <1>1, <2>2, <2>3, <2>4, <2>5 DEF ListOK, ScanningOK, Scanning, HasRow, OneRowEach
  <2>7. ListOK(fs, h, t)
    BY <2>2, <2>6 DEF ListOK, ListedOK
  <2> QED
    BY <1>0, <2>1, <2>7, ListByHandler
<1>2. CASE \E pc \in {"done", "dropped", "held"} : Over(r, pc, "none", None, None)
  BY <1>0, <1>2, ListByOver
<1>3. CASE \E status : status # "listed" /\ Answer(r, status)
  BY <1>0, <1>3, ListByAnswer
<1>4. CASE Become(r, [req[r] EXCEPT !.pc = "orphan", !.status = "none"])
  <2> DEFINE h == [req[r] EXCEPT !.pc = "orphan", !.status = "none"]
  <2>1. h.pc = "orphan"
    BY <1>0 DEF States
  <2> HIDE DEF h
  <2> QED
    BY <1>0, <1>4, <2>1, ListByQuiet DEF h, Quiet, Scanning
<1> QED
  BY <1>1, <1>2, <1>3, <1>4, LeaveSteps DEF Fail

\* What a listing owes leads where the listing looks for it.
LEMMA OwedIsFound ==
  ASSUME Inv, IsTree(fs), NEW l, NEW n \in OsNames, l \in Seq(OsNames),
         Plainly(fs, Append(l, n))
  PROVE  Append(l, n) \in Places /\ Resolve(Append(l, n)) = Append(l, n)
<1> DEFINE k == Append(l, n)
<1>1. NodeAt(k) \in Files /\ Kind[NodeAt(k)] \in {"file", "dir"}
  BY DEF Plainly, NodeAt
<1> HIDE DEF k
<1>2. k \in Places /\ NodeAt(k) # None /\ ~IsKind(NodeAt(k), "link")
  BY <1>1, FileHasLocation DEF Places, IsKind
<1>3. Resolve(k) = k
  BY <1>2, ResolveFound
<1> QED
  BY <1>2, <1>3 DEF k

LEMMA ListByListing ==
  ASSUME Inv, RootInv, ListInv, NEW r \in Reqs,
         \/ ReadDir(r) \/ NextEntry(r) \/ EndOfDirectory(r)
         \/ CanonicalizeEntry(r) \/ StatEntry(r)
  PROVE  ListInv'
<1> DEFINE s == scan[r]
           g == req[r]
<1>0. /\ g \in States /\ s \in Scans /\ UNCHANGED fs
      /\ \A q \in Reqs \ {r} : scan'[q] = scan[q]
      /\ g.pc \in Inside /\ HandlerOK(g) /\ ScanOK(g, s)
      /\ ListOK(fs, g, s) /\ IsTree(fs)
  BY DEF Inv, TypeOK, ListInv, ReadDir, NextEntry, EndOfDirectory, CanonicalizeEntry,
     StatEntry, At, Inside, Active, PCs, Calls
<1>1. /\ g.at \in Seq(OsNames) /\ WithinRoot(g.at)
      /\ Resolve(g.at) \in Places => Resolve(g.at) = g.at
  BY <1>0, InsideStays, PlacesTyped
\* A step to another call of the listing.
<1>2. ASSUME NEW t, NEW pc \in Scanning, Goto(r, pc), scan'[r] = t,
             ScanningOK(fs, [g EXCEPT !.pc = pc], t)
      PROVE  ListInv'
  <2> DEFINE h == [g EXCEPT !.pc = pc]
  <2>1. h.pc = pc /\ Become(r, h)
    BY <1>0, <1>2 DEF States, Goto
  <2>2. ScanningOK(fs, h, t)
    BY <1>2
  <2> HIDE DEF h
  <2>3. ListOK(fs, h, scan'[r])
    BY <1>2, <2>1, <2>2 DEF ListOK, ListedOK, Scanning
  <2> QED
    BY <1>0, <2>1, <2>3, ListByHandler
<1>3. ASSUME NEW pc
      PROVE  LET h == [g EXCEPT !.pc = pc]
             IN h.pc = pc /\ h.at = g.at /\ h.call = g.call
  BY <1>0 DEF States
<1>4. CASE ReadDir(r)
  <2> DEFINE l == Resolve(g.at)
             t == [NoScan EXCEPT !.home = l, !.dir = NodeAt(l),
                                 !.may = Children(fs, l), !.must = Plain(fs, l)]
  <2>1. CASE Answer(r, "unavailable")
    BY <1>0, <2>1, ListByAnswer
  <2>2. CASE l \in Places /\ IsDir(l) /\ scan' = [scan EXCEPT ![r] = t] /\ Goto(r, "next")
    <3>1. /\ t.home = l /\ t.dir = NodeAt(l) /\ t.must = Plain(fs, l) /\ t.seen = {}
          /\ t.lost = {} /\ t.rows = {} /\ scan'[r] = t
      BY <1>0, <2>2 DEF NoScan, Inv, TypeOK
    <3>2. l = g.at /\ NodeAt(l) # None
      BY <1>1, <2>2, NoneIsNoDir
    <3> DEFINE h == [g EXCEPT !.pc = "next"]
    <3>3. h.pc = "next" /\ h.at = g.at /\ h.call = g.call
      BY <1>3
    <3> HIDE DEF t, l, h
    <3>4. \A n \in t.must : Plainly(fs, Append(t.home, n))
      BY <3>1 DEF Plain, Plainly
    <3>5. Pending(h, t) = {}
      BY <3>3 DEF Pending
    <3>6. ScanningOK(fs, h, t)
      BY <3>1, <3>2, <3>3, <3>4, <3>5 DEF ScanningOK, OneRowEach
    <3> QED
      BY <1>2, <2>2, <3>1, <3>6 DEF h, Scanning
  <2> QED
    BY <1>4, <2>1, <2>2 DEF ReadDir
<1>5. CASE NextEntry(r)
  <2>1. g.pc = "next" /\ ScanningOK(fs, g, s) /\ Pending(g, s) = {}
    BY <1>0, <1>5 DEF NextEntry, At, ListOK, Pending
  <2>2. PICK n \in s.may \ s.seen :
          IF Shown(r, n)
            THEN /\ scan' = [scan EXCEPT ![r].seen = @ \cup {n}, ![r].item = n]
                 /\ Goto(r, "entryCanon")
            ELSE scan' = [scan EXCEPT ![r].seen = @ \cup {n}] /\ UNCHANGED req
    BY <1>5 DEF NextEntry
  <2>3. CASE Shown(r, n)
    <3> DEFINE t == [s EXCEPT !.seen = @ \cup {n}, !.item = n]
               h == [g EXCEPT !.pc = "entryCanon"]
    <3>1. scan'[r] = t /\ Goto(r, "entryCanon")
      BY <2>2, <2>3 DEF Inv, TypeOK
    <3>2. /\ t.home = s.home /\ t.dir = s.dir /\ t.must = s.must /\ t.rows = s.rows
          /\ t.seen = s.seen \cup {n} /\ t.lost = s.lost /\ t.item = n
      BY <1>0 DEF Scans
    <3>3. h.pc = "entryCanon" /\ h.at = g.at /\ h.call = g.call
      BY <1>3
    <3> HIDE DEF s, g, t, h
    <3>4. Pending(h, t) = {n}
      BY <3>2, <3>3 DEF Pending
    <3>5. ScanningOK(fs, h, t)
      BY <2>1, <2>2, <3>2, <3>3, <3>4 DEF ScanningOK, Scanning, OneRowEach, HasRow
    <3> QED
      BY <1>2, <3>1, <3>5 DEF h, g, Scanning
  <2>4. CASE ~Shown(r, n)
    <3> DEFINE t == [s EXCEPT !.seen = @ \cup {n}]
    <3>1. scan'[r] = t /\ Become(r, g)
      BY <1>0, <2>2, <2>4 DEF Inv, TypeOK, Become
    <3>2. /\ t.home = s.home /\ t.dir = s.dir /\ t.must = s.must /\ t.rows = s.rows
          /\ t.seen = s.seen \cup {n} /\ t.lost = s.lost /\ t.item = s.item
      BY <1>0 DEF Scans
    <3>3. ~Shows(g.call, n)
      BY <2>4 DEF Shown, Shows, ChildPath, Asked
    <3> HIDE DEF s, g, t
    <3>4. Pending(g, t) = {}
      BY <2>1 DEF Pending
    <3>5. ScanningOK(fs, g, t)
      BY <2>1, <2>2, <3>2, <3>3, <3>4 DEF ScanningOK, Scanning, OneRowEach, HasRow
    <3>6. ListOK(fs, g, t)
      BY <2>1, <3>5 DEF ListOK, ListedOK
    <3> QED
      BY <1>0, <3>1, <3>6, ListByHandler DEF s
  <2> QED
    BY <2>3, <2>4
<1>6. CASE EndOfDirectory(r)
  <2> DEFINE t == [s EXCEPT !.dir = None, !.may = {}, !.seen = {}]
             h == Outcome(r, "done", "listed", None, None)
  <2>1. g.pc = "next" /\ ScanningOK(fs, g, s) /\ Pending(g, s) = {} /\ s.must \subseteq s.seen
    BY <1>0, <1>6 DEF EndOfDirectory, At, ListOK, Pending
  <2>2. scan'[r] = t /\ Become(r, h)
    BY <1>6 DEF EndOfDirectory, Answer, Over, Outcome, Inv, TypeOK
  <2>3. t.dir = None /\ t.must = s.must /\ t.rows = s.rows /\ t.lost = s.lost
    BY <1>0 DEF Scans
  <2>4. h.call = g.call /\ h.pc = "done"
    BY DEF Outcome, Idle
  <2> HIDE DEF s, g, t, h
  <2>5. ListOK(fs, h, t)
    BY <2>1, <2>3, <2>4 DEF ListOK, ScanningOK, ListedOK, Scanning, OneRowEach, HasRow
  <2> QED
    BY <1>0, <2>2, <2>5, ListByHandler DEF s, g
<1>7. CASE CanonicalizeEntry(r)
  <2> DEFINE l == Resolve(Append(g.at, s.item))
  <2>1. g.pc = "entryCanon" /\ ScanningOK(fs, g, s) /\ Pending(g, s) = {s.item}
        /\ s.item \in OsNames /\ s.home = g.at
    BY <1>0, <1>7 DEF CanonicalizeEntry, At, ListOK, Pending, ScanningOK, Scanning, ScanOK
  <2>2. s.item \in s.must =>
          l = Append(s.home, s.item) /\ l \in Places /\ WithinRoot(l)
    <3>1. s.item \in s.must => Plainly(fs, Append(g.at, s.item))
      BY <2>1 DEF ScanningOK, Scanning
    <3>2. WithinRoot(Append(g.at, s.item))
      BY <1>1, <2>1, WithinRootBelow
    <3> HIDE DEF g, s
    <3> QED
      BY <1>0, <1>1, <2>1, <3>1, <3>2, OwedIsFound
  <2>3. CASE l \in Places /\ Goto(r, "entryMeta") /\ scan' = [scan EXCEPT ![r].spot = l]
    <3> DEFINE t == [s EXCEPT !.spot = l]
               h == [g EXCEPT !.pc = "entryMeta"]
    <3>1. scan'[r] = t
      BY <2>3 DEF Inv, TypeOK
    <3>2. /\ t.home = s.home /\ t.dir = s.dir /\ t.must = s.must /\ t.rows = s.rows
          /\ t.seen = s.seen /\ t.lost = s.lost /\ t.item = s.item /\ t.spot = l
      BY <1>0 DEF Scans
    <3>3. h.pc = "entryMeta" /\ h.at = g.at /\ h.call = g.call
      BY <1>3
    <3> HIDE DEF s, g, t, h, l
    <3>4. Pending(h, t) = {s.item}
      BY <3>2, <3>3 DEF Pending
    <3>5. ScanningOK(fs, h, t)
      BY <2>1, <2>2, <3>2, <3>3, <3>4 DEF ScanningOK, Scanning, OneRowEach, HasRow
    <3> QED
      BY <1>2, <2>3, <3>1, <3>5 DEF h, g, Scanning
  <2>4. CASE /\ ~(l \in Places /\ WithinRoot(l))
             /\ Goto(r, "next") /\ scan' = [scan EXCEPT ![r].item = None]
    <3> DEFINE t == [s EXCEPT !.item = None]
               h == [g EXCEPT !.pc = "next"]
    <3>1. scan'[r] = t
      BY <2>4 DEF Inv, TypeOK
    <3>2. /\ t.home = s.home /\ t.dir = s.dir /\ t.must = s.must /\ t.rows = s.rows
          /\ t.seen = s.seen /\ t.lost = s.lost
      BY <1>0 DEF Scans
    <3>3. h.pc = "next" /\ h.at = g.at /\ h.call = g.call
      BY <1>3
    <3>4. s.item \notin s.must
      BY <2>2, <2>4
    <3> HIDE DEF s, g, t, h, l
    <3>5. Pending(h, t) = {}
      BY <3>3 DEF Pending
    <3>6. ScanningOK(fs, h, t)
      BY <2>1, <3>2, <3>3, <3>4, <3>5 DEF ScanningOK, Scanning, OneRowEach, HasRow
    <3> QED
      BY <1>2, <2>4, <3>1, <3>6 DEF h, g, Scanning
  <2> QED
    BY <1>7, <2>3, <2>4 DEF CanonicalizeEntry
<1>8. CASE StatEntry(r)
  <2> DEFINE l == Resolve(s.spot)
             row == Row(r, NodeAt(l))
             rows == IF l \in Places THEN s.rows \cup {row} ELSE s.rows
             t == [s EXCEPT !.item = None, !.spot = Root, !.rows = rows]
             h == [g EXCEPT !.pc = "next"]
  <2>1. g.pc = "entryMeta" /\ ScanningOK(fs, g, s) /\ Pending(g, s) = {s.item}
        /\ s.item \in OsNames /\ s.home = g.at
    BY <1>0, <1>8 DEF StatEntry, At, ListOK, Pending, ScanningOK, Scanning, ScanOK
  <2>2. s.item \in s.must => l \in Places
    <3>1. s.item \in s.must =>
            /\ s.spot = Append(g.at, s.item)
            /\ Plainly(fs, Append(g.at, s.item))
      BY <2>1 DEF ScanningOK, Scanning
    <3> HIDE DEF g, s
    <3> QED
      BY <1>0, <1>1, <2>1, <3>1, OwedIsFound
  <2>3. row.entry = s.item
    BY DEF Row
  <2>4. scan'[r] = t /\ Goto(r, "next")
    BY <1>8 DEF StatEntry, Inv, TypeOK
  <2>5. /\ t.home = s.home /\ t.dir = s.dir /\ t.must = s.must /\ t.rows = rows
        /\ t.seen = s.seen /\ t.lost = s.lost
    BY <1>0 DEF Scans
  <2>6. h.pc = "next" /\ h.at = g.at /\ h.call = g.call
    BY <1>3
  <2> HIDE DEF s, g, t, h, l, row
  <2>7. Pending(h, t) = {}
    BY <2>6 DEF Pending
  <2>8. /\ \A x \in s.rows : x.entry \in s.seen /\ x.entry # s.item
        /\ OneRowEach(s) /\ s.item \in s.seen
    BY <2>1 DEF ScanningOK, Scanning
  <2>9. (\A x \in t.rows : x.entry \in t.seen) /\ OneRowEach(t)
    BY <2>3, <2>5, <2>8 DEF OneRowEach
  <2>10. \A n \in (t.must \cap t.seen) \ t.lost : Shows(h.call, n) => HasRow(t, n)
    BY <2>1, <2>2, <2>3, <2>5, <2>6 DEF ScanningOK, Scanning, HasRow
  <2>11. ScanningOK(fs, h, t)
    BY <2>1, <2>5, <2>6, <2>7, <2>9, <2>10 DEF ScanningOK, Scanning
  <2> QED
    BY <1>2, <2>4, <2>11 DEF h, g, Scanning
<1> QED
  BY <1>4, <1>5, <1>6, <1>7, <1>8

LEMMA ListKept ==
  ASSUME Inv, RootInv, ListInv, [Next]_vars
  PROVE  ListInv'
<1>1. CASE UNCHANGED vars
  BY <1>1 DEF vars, ListInv
<1>2. CASE Others
  <2>1. Track /\ UNCHANGED req
    BY <1>2 DEF Others, CreateEntry, RemoveEntry, MoveEntry, ChangeShare
  <2> QED
    BY <2>1, ListByChange
<1> QED
  BY <1>1, <1>2, ListByArrive, ListByLookup, ListByUnlink, ListByListing, ListByFailure
  DEF Next, Work

(* ListingComplete: for any directory, any rules and any interleaving with    *)
(* deletes and other programs, a visible entry that stays has its one row.    *)
THEOREM ListingsAreComplete ==
  ASSUME NoNewLinks
  PROVE  Spec => []ListingComplete
<1>1. Init => ListInv
  <2> SUFFICES ASSUME Init
               PROVE  ListInv
    OBVIOUS
  <2>1. IsTree(fs)
    BY TreeAssumption DEF Init
  <2>2. \A r \in Reqs : Quiet(req[r])
    BY DEF Init, Idle, Quiet, Scanning
  <2> QED
    BY <2>1, <2>2, QuietIsOK DEF ListInv
<1>2. ASSUME ListInv, NEW r \in Reqs, Done(r, "listed"), NEW n \in scan[r].must \ scan[r].lost,
             Shown(r, n)
      PROVE  Cardinality({row \in scan[r].rows : row.entry = n}) = 1
  <2>1. ListedOK(req[r], scan[r]) /\ Shows(req[r].call, n)
    BY <1>2 DEF ListInv, ListOK, Shown, Shows, ChildPath, Asked
  <2>2. HasRow(scan[r], n) /\ OneRowEach(scan[r])
    BY <1>2, <2>1 DEF ListedOK, Done, At
  <2>3. PICK row \in scan[r].rows : row.entry = n
    BY <2>2 DEF HasRow
  <2>4. {x \in scan[r].rows : x.entry = n} = {row}
    BY <2>2, <2>3 DEF OneRowEach
  <2> QED
    BY <2>4, FS_Singleton
<1>3. ListInv => ListingComplete
  BY <1>2 DEF ListingComplete
<1> QED
  BY <1>1, <1>3, ListKept, RootHolds, InvHolds, PTL DEF Spec

--------------------------------------------------------------------------------
(* Reopening. *)

\* A walk that leads to a directory leads on to its entries, unless they are links.
EntryOf(d, n) == IF NodeAt(Append(d, n)) = None THEN Missing ELSE Append(d, n)
Longer(w, n) == [hops |-> w.hops, at |-> w.at, rest |-> Append(w.rest, n)]

LEMMA LongerTyped ==
  ASSUME NEW w \in Walks, NEW n \in OsNames
  PROVE  /\ Longer(w, n) \in Walks /\ Longer(w, n).hops = w.hops /\ Longer(w, n).at = w.at
         /\ Longer(w, n).rest = Append(w.rest, n) /\ Longer(w, n).rest # <<>>
         /\ w.rest # <<>> => /\ Head(Longer(w, n).rest) = Head(w.rest)
                             /\ Tail(Longer(w, n).rest) = Append(Tail(w.rest), n)
         /\ w.rest = <<>> => Head(Longer(w, n).rest) = n /\ Tail(Longer(w, n).rest) = <<>>
<1>1. w.rest \in Seq(OsNames)
  BY DEF Walks
<1>2. Longer(w, n).rest = Append(w.rest, n)
  BY DEF Walks, Longer
<1>3. \A s \in Seq(OsNames) :
        /\ Append(s, n) \in Seq(OsNames) /\ Append(s, n) # <<>>
        /\ s # <<>> => Head(Append(s, n)) = Head(s) /\ Tail(Append(s, n)) = Append(Tail(s), n)
        /\ s = <<>> => Head(Append(s, n)) = n /\ Tail(Append(s, n)) = <<>>
  OBVIOUS
<1>4. Longer(w, n) \in Walks /\ Longer(w, n).hops = w.hops /\ Longer(w, n).at = w.at
  BY <1>1, <1>3 DEF Walks, Longer
<1> QED
  BY <1>1, <1>2, <1>3, <1>4

LEMMA LongerIs ==
  ASSUME NEW w \in Walks, NEW v \in Walks, NEW n \in OsNames,
         v.hops = w.hops, v.at = w.at, v.rest = Append(w.rest, n)
  PROVE  v = Longer(w, n)
BY DEF Walks, Longer

LEMMA LongerOnward ==
  ASSUME NEW w \in Walks, GoesOn(w), NEW n \in OsNames
  PROVE  GoesOn(Longer(w, n)) /\ Onward(Longer(w, n)) = Longer(Onward(w), n)
<1> DEFINE v == Longer(w, n)
<1>1. /\ v \in Walks /\ v.hops = w.hops /\ v.at = w.at /\ v.rest # <<>>
      /\ Head(v.rest) = Head(w.rest) /\ Tail(v.rest) = Append(Tail(w.rest), n)
  BY LongerTyped DEF GoesOn
<1> HIDE DEF v
<1>2. Ahead(v) = Ahead(w)
  BY <1>1 DEF Ahead
<1>3. GoesOn(v)
  BY <1>1, <1>2 DEF GoesOn
<1>6. CASE Head(w.rest) = Dot
  <2>1. /\ Onward(v) \in Walks /\ Onward(v).hops = w.hops /\ Onward(v).at = w.at
        /\ Onward(v).rest = Append(Tail(w.rest), n)
    BY <1>1, <1>3, <1>6, OnwardTyped DEF Onward, Walks
  <2>2. /\ Onward(w) \in Walks /\ Onward(w).hops = w.hops /\ Onward(w).at = w.at
        /\ Onward(w).rest = Tail(w.rest)
    BY <1>6, OnwardTyped DEF Onward, Walks
  <2>3. PICK a \in Walks : a = Onward(v)
    BY <2>1
  <2>4. PICK b \in Walks : b = Onward(w)
    BY <2>2
  <2>5. a.hops = b.hops /\ a.at = b.at /\ a.rest = Append(b.rest, n)
    BY <2>1, <2>2, <2>3, <2>4
  <2>6. a = Longer(b, n)
    BY <2>5, LongerIs
  <2> QED
    BY <1>3, <2>3, <2>4, <2>6 DEF v
<1>4. CASE IsDir(Ahead(w)) /\ Head(w.rest) # Dot
  <2>1. /\ Onward(v) \in Walks /\ Onward(v).hops = w.hops /\ Onward(v).at = Ahead(w)
        /\ Onward(v).rest = Append(Tail(w.rest), n)
    BY <1>1, <1>2, <1>3, <1>4, OnwardTyped DEF Onward, Walks
  <2>2. /\ Onward(w) \in Walks /\ Onward(w).hops = w.hops /\ Onward(w).at = Ahead(w)
        /\ Onward(w).rest = Tail(w.rest)
    BY <1>4, OnwardTyped DEF Onward, Walks
  <2> QED
    BY <1>3, <2>1, <2>2, LongerIs DEF v
<1>5. CASE ~IsDir(Ahead(w)) /\ Head(w.rest) # Dot
  <2>1. Target[NodeAt(Ahead(w))] \in Seq(OsNames)
    BY <1>5, ShareAssumption DEF GoesOn, IsKind
  <2>2. Tail(w.rest) \in Seq(OsNames)
    BY AheadTyped DEF GoesOn
  <2>3. \A s, t \in Seq(OsNames) : s \o Append(t, n) = Append(s \o t, n)
    OBVIOUS
  <2>4. /\ Onward(v) \in Walks /\ Onward(v).hops = w.hops - 1 /\ Onward(v).at = <<>>
        /\ Onward(v).rest = Append(Target[NodeAt(Ahead(w))] \o Tail(w.rest), n)
    BY <1>1, <1>2, <1>3, <1>5, <2>1, <2>2, <2>3, OnwardTyped DEF Onward
  <2>5. /\ Onward(w) \in Walks /\ Onward(w).hops = w.hops - 1 /\ Onward(w).at = <<>>
        /\ Onward(w).rest = Target[NodeAt(Ahead(w))] \o Tail(w.rest)
    BY <1>5, OnwardTyped DEF Onward
  <2> QED
    BY <1>3, <2>4, <2>5, LongerIs DEF v
<1> QED
  BY <1>3, <1>4, <1>5, <1>6 DEF v

LEMMA FollowLonger ==
  ASSUME NEW d, IsDir(d), NEW n \in OsNames, n # Dot,
         ~IsDir(Append(d, n)), ~IsKind(NodeAt(Append(d, n)), "link"),
         NEW w \in Walks, Follow[w] = d
  PROVE  Follow[Longer(w, n)] = EntryOf(d, n)
<1> DEFINE Good == {v \in Walks : Follow[v] = d => Follow[Longer(v, n)] = EntryOf(d, n)}
<1>1. ASSUME NEW v \in Walks, BelowWalk[v] \subseteq Good, Follow[v] = d
      PROVE  Follow[Longer(v, n)] = EntryOf(d, n)
  <2>1. Longer(v, n) \in Walks
    BY LongerTyped
  <2>2. CASE GoesOn(v)
    <3>1. Onward(v) \in Good /\ Follow[v] = Follow[Onward(v)]
      BY <1>1, <2>2, FollowStep DEF BelowWalk
    <3>2. Follow[Longer(v, n)] = Follow[Longer(Onward(v), n)]
      BY <2>1, <2>2, FollowStep, LongerOnward
    <3> QED
      BY <1>1, <3>1, <3>2
  <2>3. CASE ~GoesOn(v)
    <3>1. Stop(v) = d
      BY <1>1, <2>3, FollowStep
    <3>2. d \notin {Missing, Broken}
      BY EndsApart, NoneIsNoDir, PlacesTyped
    <3>3. v.rest = <<>> /\ v.at = d
      BY <2>3, <3>1, <3>2 DEF Stop, GoesOn
    <3>4. /\ Longer(v, n).rest # <<>> /\ Ahead(Longer(v, n)) = Append(d, n)
          /\ Tail(Longer(v, n).rest) = <<>> /\ Head(Longer(v, n).rest) # Dot
      BY <3>3, LongerTyped DEF Ahead
    <3>5. ~GoesOn(Longer(v, n)) /\ Stop(Longer(v, n)) = EntryOf(d, n)
      BY <3>4 DEF GoesOn, Stop, EntryOf
    <3> QED
      BY <2>1, <3>5, FollowStep
  <2> QED
    BY <2>2, <2>3
<1>2. Inductive(Walks, BelowWalk, Good)
  BY <1>1 DEF Inductive
<1> HIDE DEF Good
<1>3. w \in Good
  BY <1>2, WalksEnd, Induction
<1> QED
  BY <1>3 DEF Good

LEMMA ResolveLonger ==
  ASSUME NEW p \in Seq(OsNames), IsDir(Resolve(p)), NEW n \in OsNames, n # Dot,
         ~IsDir(Append(Resolve(p), n)), ~IsKind(NodeAt(Append(Resolve(p), n)), "link")
  PROVE  Resolve(Append(p, n)) = EntryOf(Resolve(p), n)
<1> DEFINE w == [hops |-> MaxHops, at |-> <<>>, rest |-> p]
           d == Resolve(p)
<1>1. w \in Walks
  BY ShareAssumption DEF Walks
<1>2. Follow[w] = d
  BY DEF Resolve
<1>3. Longer(w, n) = [hops |-> MaxHops, at |-> <<>>, rest |-> Append(p, n)]
  BY DEF Longer
<1>4. Follow[Longer(w, n)] = Resolve(Append(p, n))
  BY <1>3 DEF Resolve
<1> HIDE DEF w, d
<1>5. Follow[Longer(w, n)] = EntryOf(d, n)
  BY <1>1, <1>2, FollowLonger DEF d
<1> QED
  BY <1>4, <1>5 DEF d

\* What canonicalize returns is there.
LEMMA FollowFinds ==
  ASSUME NEW w \in Walks, NodeAt(w.at) # None
  PROVE  Follow[w] \in {Missing, Broken} \/ NodeAt(Follow[w]) # None
<1> DEFINE Good == {v \in Walks : NodeAt(v.at) # None =>
                      Follow[v] \in {Missing, Broken} \/ NodeAt(Follow[v]) # None}
<1>0. NodeAt(<<>>) # None
  <2>1. <<>> = SubSeq(Root, 1, 0) /\ 0 \in 0..Len(Root)
    BY ShareAssumption
  <2> QED
    BY <2>1, ShareAssumption DEF NodeAt, NodeIn, AboveRoot
<1>1. ASSUME NEW v \in Walks, BelowWalk[v] \subseteq Good, NodeAt(v.at) # None
      PROVE  Follow[v] \in {Missing, Broken} \/ NodeAt(Follow[v]) # None
  <2>1. CASE GoesOn(v)
    <3>1. Onward(v) \in Good /\ Follow[v] = Follow[Onward(v)]
      BY <1>1, <2>1, FollowStep DEF BelowWalk
    <3>2. NodeAt(Onward(v).at) # None
      BY <1>0, <1>1, NoneIsNoDir DEF Onward, Walks
    <3> QED
      BY <3>1, <3>2
  <2>2. CASE ~GoesOn(v)
    <3>1. Follow[v] = Stop(v)
      BY <2>2, FollowStep
    <3> QED
      BY <1>1, <3>1 DEF Stop
  <2> QED
    BY <2>1, <2>2
<1>2. Inductive(Walks, BelowWalk, Good)
  BY <1>1 DEF Inductive
<1> HIDE DEF Good
<1>3. w \in Good
  BY <1>2, WalksEnd, Induction
<1> QED
  BY <1>3 DEF Good

LEMMA ResolveFinds ==
  ASSUME NEW p \in Seq(OsNames), Resolve(p) \in Places
  PROVE  NodeAt(Resolve(p)) # None /\ ~IsKind(NodeAt(Resolve(p)), "link")
<1> DEFINE w == [hops |-> MaxHops, at |-> <<>>, rest |-> p]
           d == Resolve(p)
<1>1. w \in Walks /\ w.at = <<>> /\ Follow[w] = d
  BY ShareAssumption DEF Walks, Resolve
<1>2. NodeAt(<<>>) = RootDir
  <2>1. <<>> = SubSeq(Root, 1, 0) /\ 0 \in 0..Len(Root)
    BY ShareAssumption
  <2> QED
    BY <2>1 DEF NodeAt, NodeIn, AboveRoot
<1>3. d \in Seq(OsNames) /\ d \notin {Missing, Broken} /\ NoLinkOn(d)
  BY PlacesTyped, ResolveLeavesLinks
<1> HIDE DEF w, d
<1>4. NodeAt(d) # None
  BY <1>1, <1>2, <1>3, FollowFinds, ShareAssumption
<1>5. ~IsKind(NodeAt(d), "link")
  <2>1. CASE d = <<>>
    BY <1>2, <2>1, ShareAssumption DEF IsKind
  <2>2. CASE d # <<>>
    <3>1. Len(d) \in 1..Len(d) /\ SubSeq(d, 1, Len(d)) = d
      BY <1>3, <2>2
    <3> QED
      BY <1>3, <3>1 DEF NoLinkOn
  <2> QED
    BY <2>1, <2>2
<1> QED
  BY <1>4, <1>5 DEF d

\* A name below a directory that is found leads to the file of that name, and one
\* that nothing has leads nowhere.
LEMMA LeadsToEntry ==
  ASSUME NEW p \in Seq(OsNames), NEW d \in Places, IsDir(d), Resolve(Root \o p) = d,
         NEW n \in OsNames, n # Dot, ~IsDir(Append(d, n)), ~IsKind(NodeAt(Append(d, n)), "link")
  PROVE  Resolve(Root \o Append(p, n)) = EntryOf(d, n)
<1>1. Root \in Seq(OsNames)
  BY ShareAssumption
<1>2. \A s, t \in Seq(OsNames) : s \o t \in Seq(OsNames) /\ s \o Append(t, n) = Append(s \o t, n)
  OBVIOUS
<1>3. Root \o p \in Seq(OsNames) /\ Root \o Append(p, n) = Append(Root \o p, n)
  BY <1>1, <1>2
<1> QED
  BY <1>3, ResolveLonger

\* A path that leads nowhere leads nowhere further down.
LEMMA FollowNowhere ==
  ASSUME NEW n \in OsNames, NEW w \in Walks, Follow[w] = Missing
  PROVE  Follow[Longer(w, n)] = Missing
<1> DEFINE Good == {v \in Walks : Follow[v] = Missing => Follow[Longer(v, n)] = Missing}
<1>1. ASSUME NEW v \in Walks, BelowWalk[v] \subseteq Good, Follow[v] = Missing
      PROVE  Follow[Longer(v, n)] = Missing
  <2>1. Longer(v, n) \in Walks
    BY LongerTyped
  <2>2. CASE GoesOn(v)
    <3>1. Onward(v) \in Good /\ Follow[v] = Follow[Onward(v)]
      BY <1>1, <2>2, FollowStep DEF BelowWalk
    <3>2. Follow[Longer(v, n)] = Follow[Longer(Onward(v), n)]
      BY <2>1, <2>2, FollowStep, LongerOnward
    <3> QED
      BY <1>1, <3>1, <3>2
  <2>3. CASE ~GoesOn(v)
    <3>1. Stop(v) = Missing
      BY <1>1, <2>3, FollowStep
    <3>2. v.at # Missing
      BY EndsApart DEF Walks
    <3>3. v.rest # <<>>
      BY <3>1, <3>2 DEF Stop
    <3>4. Ahead(v) # Missing /\ Missing # Broken
      BY <3>3, AheadTyped, EndsApart, ShareAssumption
    <3>5. NodeAt(Ahead(v)) = None
      BY <3>1, <3>3, <3>4 DEF Stop
    <3>6. /\ Longer(v, n).rest # <<>> /\ Ahead(Longer(v, n)) = Ahead(v)
          /\ Head(Longer(v, n).rest) # Dot
      BY <2>3, <3>3, LongerTyped DEF Ahead, GoesOn
    <3>7. ~GoesOn(Longer(v, n)) /\ Stop(Longer(v, n)) = Missing
      BY <3>5, <3>6, NoneIsNoDir, ShareAssumption DEF GoesOn, Stop, IsKind
    <3> QED
      BY <2>1, <3>7, FollowStep
  <2> QED
    BY <2>2, <2>3
<1>2. Inductive(Walks, BelowWalk, Good)
  BY <1>1 DEF Inductive
<1> HIDE DEF Good
<1>3. w \in Good
  BY <1>2, WalksEnd, Induction
<1> QED
  BY <1>3 DEF Good

LEMMA LeadsNowhere ==
  ASSUME NEW p \in Seq(OsNames), Resolve(Root \o p) = Missing, NEW n \in OsNames
  PROVE  Resolve(Root \o Append(p, n)) = Missing
<1> DEFINE q == Root \o p
           w == [hops |-> MaxHops, at |-> <<>>, rest |-> q]
<1>1. Root \in Seq(OsNames)
  BY ShareAssumption
<1>2. \A s, t \in Seq(OsNames) : s \o t \in Seq(OsNames) /\ s \o Append(t, n) = Append(s \o t, n)
  OBVIOUS
<1>3. q \in Seq(OsNames) /\ Root \o Append(p, n) = Append(q, n)
  BY <1>1, <1>2
<1> HIDE DEF q
<1>4. w \in Walks
  BY <1>3, ShareAssumption DEF Walks
<1>5. Follow[w] = Missing
  BY DEF Resolve, q
<1>6. Longer(w, n) = [hops |-> MaxHops, at |-> <<>>, rest |-> Append(q, n)]
  BY DEF Longer
<1>7. Follow[Longer(w, n)] = Resolve(Append(q, n))
  BY <1>6 DEF Resolve
<1> HIDE DEF w
<1> QED
  BY <1>3, <1>4, <1>5, <1>7, FollowNowhere

\* A path that can be decoded, and a name whose escape is n below it.
LEMMA DecodedLonger ==
  ASSUME NEW p \in Path, Refusals(p) = {}, NEW m \in Names, NEW n \in OsNames, Decoded[m] = n
  PROVE  /\ DecodedPath(p) \in Seq(OsNames)
         /\ Refusals(Append(p, m)) = {}
         /\ DecodedPath(Append(p, m)) = Append(DecodedPath(p), n)
<1> DEFINE q == Append(p, m)
           d == DecodedPath(p)
<1>1. p \in Seq(Names) /\ Len(p) \in Nat
  BY DEF Path
<1>2. /\ q \in Seq(Names) /\ Len(q) = Len(p) + 1 /\ q[Len(p) + 1] = m
      /\ \A i \in 1..Len(p) : q[i] = p[i]
  BY <1>1
<1>3. \A i \in 1..Len(p) : Decoded[p[i]] \in OsNames /\ p[i] \in Names
  BY <1>1, NamesAssumption DEF Refusals
<1>4. d \in Seq(OsNames) /\ Len(d) = Len(p) /\ \A i \in 1..Len(p) : d[i] = Decoded[p[i]]
  BY <1>1, <1>3 DEF DecodedPath
<1> HIDE DEF q, d
<1>5. \A i \in 1..Len(q) : i \in 1..Len(p) \/ i = Len(p) + 1
  BY <1>1, <1>2
<1>6. \A i \in 1..Len(q) : Decoded[q[i]] \in OsNames
  BY <1>2, <1>3, <1>5
<1>7. Refusals(q) = {}
  BY <1>6, NamesAssumption DEF Refusals
<1>8. DecodedPath(q) = Append(d, n)
  <2>1. /\ Append(d, n) \in Seq(OsNames) /\ Len(Append(d, n)) = Len(d) + 1
        /\ Append(d, n)[Len(d) + 1] = n /\ \A i \in 1..Len(d) : Append(d, n)[i] = d[i]
    BY <1>4
  <2>2. \A i \in 1..Len(q) : Decoded[q[i]] = Append(d, n)[i]
    BY <1>2, <1>4, <1>5, <2>1
  <2>3. Append(d, n) = [i \in 1..Len(q) |-> Append(d, n)[i]]
    <3>1. \A t \in Seq(OsNames) : t = [i \in 1..Len(t) |-> t[i]]
      OBVIOUS
    <3>2. Len(Append(d, n)) = Len(q)
      BY <1>2, <1>4, <2>1
    <3> QED
      BY <2>1, <3>1, <3>2
  <2>4. DecodedPath(q) = [i \in 1..Len(q) |-> Append(d, n)[i]]
    BY <2>2 DEF DecodedPath
  <2> QED
    BY <2>3, <2>4
<1> QED
  BY <1>4, <1>7, <1>8 DEF q, d

LEMMA PlainIsDecodable ==
  ASSUME NEW p \in Path, DecodedPath(p) = p
  PROVE  Refusals(p) = {}
<1>1. p \in Seq(Names) /\ Len(p) \in Nat
  BY DEF Path
<1>2. ASSUME NEW i \in 1..Len(p)
      PROVE  Decoded[p[i]] = p[i] /\ p[i] \in Names
  <2>1. DecodedPath(p)[i] = Decoded[p[i]]
    BY DEF DecodedPath
  <2>2. p[i] \in Names
    BY <1>1
  <2> QED
    BY <2>1, <2>2
<1> QED
  BY <1>2, NamesAssumption DEF Refusals

\* The name a listing shows for a file leads back to it.
LEMMA ShownLeadsBack ==
  ASSUME ShownNamesApart, Inv, IsTree(fs), NEW p \in Path, NEW d \in Places, Leads(p) = d,
         NEW row, row.entry \in OsNames, row.name = Render[row.entry], OneForm(p, row),
         NodeAt(Append(d, row.entry)) \in Files,
         Kind[NodeAt(Append(d, row.entry))] \in {"file", "fifo"}
  PROVE  Leads(Append(p, row.name)) = Append(d, row.entry)
<1>1. PICK n \in OsNames, m \in Names : n = row.entry /\ m = row.name /\ m = Render[n]
  BY ShareAssumption
<1>2. /\ d \in Seq(OsNames) /\ d \notin {Missing, Broken}
      /\ p \in Seq(Names) /\ Names \subseteq OsNames /\ p \in Seq(OsNames) /\ m \in OsNames
  <2>1. Seq(Names) \subseteq Seq(OsNames)
    BY NamesAssumption
  <2> QED
    BY <2>1, PlacesTyped, NamesAssumption DEF Path
<1> DEFINE l == Append(d, n)
<1>3. l \in Locs /\ NodeAt(l) # None /\ Front(l) = d /\ Last(l) = n /\ l \notin AboveRoot
  BY <1>1, <1>2, FileHasLocation, AppendFront, ShareAssumption
<1>4. IsDir(d)
  BY <1>3 DEF IsTree, IsDir, NodeAt, NodeIn
<1>5. ~IsDir(l) /\ ~IsKind(NodeAt(l), "link")
  BY <1>1, ShareAssumption DEF IsDir, IsKind
<1>13. n # Dot /\ m # Dot
  <2>1. l \in Places /\ l # <<>> /\ l \in Seq(OsNames)
    BY <1>2, <1>3, AppendFront DEF Places
  <2>4. Len(l) \in 1..Len(l)
    <3> HIDE DEF l
    <3> QED
      BY <2>1
  <2>2. l[Len(l)] # Dot
    <3> HIDE DEF l
    <3> QED
      BY <2>1, <2>4, PlacesTyped DEF NoDotOn
  <2>3. n # Dot
    BY <1>3, <2>2 DEF Last
  <2> QED
    BY <1>1, <2>3, ShareAssumption
\* Whatever leads to the directory leads to the file.
<1>6. ASSUME NEW q \in Seq(OsNames), Resolve(Root \o q) = d
      PROVE  Resolve(Root \o Append(q, n)) = l
  <2>1. EntryOf(d, n) = l
    BY <1>3 DEF EntryOf
  <2> QED
    BY <1>4, <1>5, <1>6, <1>13, <2>1, LeadsToEntry
<1>7. l # Missing
  BY <1>3, PlacesTyped DEF Places
<1>8. n # m => Decoded[m] = n /\ \A j \in Places \ {<<>>} : Last(j) # m
  BY <1>1, <1>3 DEF ShownNamesApart
\* It is reached under the decoded form, for the literal one is of nothing.
<1>9. ASSUME Resolve(Root \o Append(p, m)) = Missing, Refusals(p) = {}, Decoded[m] = n,
             Resolve(Root \o DecodedPath(p)) = d
      PROVE  Leads(Append(p, m)) = l
  <2>1. /\ DecodedPath(p) \in Seq(OsNames) /\ Refusals(Append(p, m)) = {}
        /\ DecodedPath(Append(p, m)) = Append(DecodedPath(p), n)
    BY <1>9, DecodedLonger
  <2>2. Resolve(Root \o DecodedPath(Append(p, m))) = l
    BY <1>6, <1>9, <2>1
  <2> HIDE DEF l
  <2> QED
    BY <1>9, <2>1, <2>2 DEF Leads
<1>10. CASE Resolve(Root \o p) = Missing
  <2>1. Refusals(p) = {} /\ Resolve(Root \o DecodedPath(p)) = d
    BY <1>2, <1>10 DEF Leads
  <2>2. Resolve(Root \o Append(p, m)) = Missing
    BY <1>2, <1>10, LeadsNowhere
  <2>3. Decoded[m] = n
    BY <1>1, <1>8, <1>10 DEF OneForm
  <2> QED
    BY <1>1, <1>9, <2>1, <2>2, <2>3
<1>11. CASE Resolve(Root \o p) # Missing /\ m = n
  <2>1. Resolve(Root \o p) = d
    BY <1>11 DEF Leads
  <2>2. Resolve(Root \o Append(p, m)) = l
    BY <1>2, <1>6, <1>11, <2>1
  <2> HIDE DEF l
  <2>3. Leads(Append(p, m)) = l
    BY <1>7, <2>2 DEF Leads
  <2> QED
    BY <1>1, <2>3 DEF l
<1>12. CASE Resolve(Root \o p) # Missing /\ m # n
  <2> DEFINE k == Append(d, m)
  <2>1. Resolve(Root \o p) = d /\ DecodedPath(p) = p
    BY <1>1, <1>12 DEF Leads, OneForm
  <2>2. Last(k) = m /\ k # <<>>
    BY <1>2, AppendFront
  <2>3. NodeAt(k) = None
    BY <1>8, <1>12, <2>2 DEF NodeAt, NodeIn, Places
  <2>4. ~IsDir(k) /\ ~IsKind(NodeAt(k), "link")
    BY <2>3, ShareAssumption DEF IsDir, IsKind
  <2>5. Resolve(Root \o Append(p, m)) = Missing
    <3>1. EntryOf(d, m) = Missing
      BY <2>3 DEF EntryOf
    <3> QED
      BY <1>2, <1>4, <1>13, <2>1, <2>4, <3>1, LeadsToEntry
  <2> QED
    BY <1>1, <1>8, <1>9, <1>12, <2>1, <2>5, PlainIsDecodable
<1> QED
  BY <1>10, <1>11, <1>12

\* A row shows an entry under its rendered name, and as a file only what is one.
RowOK(row) ==
  /\ row.name = Render[row.entry]
  /\ row.kind = "file" => row.file \in Files /\ Kind[row.file] \in {"file", "fifo"}

\* Only a request for a directory is answered with a listing.
Lists(h) ==
  h.pc = "done" /\ h.status = "listed" =>
    h.call.op = "list" /\ h.call.path \in Path

RowInv ==
  /\ IsTree(fs)
  /\ \A r \in Reqs :
       /\ Lists(req[r])
       /\ \A row \in scan[r].rows : RowOK(row)

LEMMA RowByHandler ==
  ASSUME Inv, RowInv, IsTree(fs'), NEW r \in Reqs, NEW h, Become(r, h),
         Lists(h),
         \A q \in Reqs : \A row \in scan'[q].rows : row \in scan[q].rows \/ RowOK(row)
  PROVE  RowInv'
<1>1. req'[r] = h /\ \A q \in Reqs \ {r} : req'[q] = req[q]
  BY DEF Become, Inv, TypeOK
<1>2. ASSUME NEW q \in Reqs
      PROVE  /\ Lists(req'[q])
             /\ \A row \in scan'[q].rows : RowOK(row)
  BY <1>1 DEF RowInv
<1>3. \A q \in Reqs : /\ Lists(req'[q])
                      /\ \A row \in scan'[q].rows : RowOK(row)
  BY <1>2
<1> QED
  BY <1>3 DEF RowInv, RowOK, Lists

\* What the steps of a handler do to it.
Moved(r, h) ==
  /\ Become(r, h) /\ h.call = req[r].call
  /\ h.pc = "done" /\ h.status = "listed" => EndOfDirectory(r)

LEMMA HandlerSteps ==
  ASSUME Inv, NEW r \in Reqs, Work(r) \/ WriterOpens(r) \/ Fail(r) \/ Disconnect(r)
  PROVE  UNCHANGED req \/ \E h : Moved(r, h)
<1> USE DEF Moved
<1>0. req[r] \in States
  BY DEF Inv, TypeOK
<1>1. ASSUME NEW pc, Goto(r, pc), pc # "done"
      PROVE  \E h : Moved(r, h)
  <2> DEFINE h == [req[r] EXCEPT !.pc = pc]
  <2>1. Moved(r, h)
    BY <1>0, <1>1 DEF Goto, States
  <2> QED
    BY <2>1
<1>2. ASSUME NEW pc, NEW status, NEW file, NEW source, Over(r, pc, status, file, source),
             status = "listed" => EndOfDirectory(r)
      PROVE  \E h : Moved(r, h)
  <2> DEFINE h == Outcome(r, pc, status, file, source)
  <2>1. Moved(r, h)
    BY <1>2 DEF Over, Outcome, Idle
  <2> QED
    BY <2>1
<1>3. ASSUME NEW status, Answer(r, status), status = "listed" => EndOfDirectory(r)
      PROVE  \E h : Moved(r, h)
  BY <1>2, <1>3 DEF Answer
<1>4. ASSUME NEW status, NEW file, NEW source, Conclude(r, status, file, source), status # "listed"
      PROVE  \E h : Moved(r, h)
  BY <1>2, <1>4 DEF Conclude
<1>5. ASSUME NEW h, Become(r, h), h.call = req[r].call, h.pc # "done" \/ h.status # "listed"
      PROVE  \E g : Moved(r, g)
  BY <1>5
<1>6. ASSUME NEW l, NEW decoded, Resolved(r, l, decoded)
      PROVE  \E h : Moved(r, h)
  <2> DEFINE h == [req[r] EXCEPT !.at = l, !.decoded = decoded,
                      !.pc = IF req[r].call.op = "get" THEN "stat" ELSE "isDir"]
  <2>1. h.call = req[r].call /\ h.pc # "done"
    BY <1>0 DEF States
  <2> QED
    BY <1>3, <1>5, <1>6, <2>1 DEF Resolved
<1>7. ASSUME NEW l, NEW n, Found(r, l, n)
      PROVE  \E h : Moved(r, h)
  <2> DEFINE h == [req[r] EXCEPT !.known = NodeAt(l), !.name = n, !.pc = "unlink"]
  <2>1. h.call = req[r].call /\ h.pc # "done"
    BY <1>0 DEF States
  <2> QED
    BY <1>3, <1>5, <1>7, <2>1 DEF Found
<1>8. ASSUME NEW l, NEW to \in {"blocked", "verify"}, Opened(r, l, to)
      PROVE  \E h : Moved(r, h)
  <2> DEFINE h == [req[r] EXCEPT !.file = NodeAt(l), !.source = l, !.pc = to]
  <2>1. h.call = req[r].call /\ h.pc # "done"
    BY <1>0 DEF States
  <2> QED
    BY <1>5, <1>8, <2>1 DEF Opened
<1>9. ASSUME Stat(r)
      PROVE  \E h : Moved(r, h)
  <2> DEFINE h(l) == [req[r] EXCEPT !.known = NodeAt(l), !.pc = "open"]
  <2>1. \A l : h(l).call = req[r].call /\ h(l).pc # "done"
    BY <1>0 DEF States
  <2>2. \/ \E l : Become(r, h(l))
        \/ \E status \in {"notFound", "unavailable"} : Answer(r, status)
    BY <1>9 DEF Stat
  <2> HIDE DEF h, Moved
  <2> QED
    BY <1>3, <1>5, <2>1, <2>2
<1>10. ASSUME Verify(r)
      PROVE  \E h : Moved(r, h)
  <2> DEFINE h == [req[r] EXCEPT !.pc = "done", !.status = "served"]
  <2>1. h.call = req[r].call /\ h.status # "listed"
    BY <1>0 DEF States
  <2>2. Become(r, h) \/ Answer(r, "notFound")
    BY <1>10 DEF Verify
  <2> HIDE DEF h, Moved
  <2> QED
    BY <1>3, <1>5, <2>1, <2>2
<1>11. ASSUME Disconnect(r)
      PROVE  \E h : Moved(r, h)
  <2> DEFINE h == [req[r] EXCEPT !.pc = "orphan", !.status = "none"]
  <2>1. h.call = req[r].call /\ h.status # "listed"
    BY <1>0 DEF States
  <2>2. Become(r, h) \/ \E pc : Over(r, pc, "none", None, None)
    BY <1>11, LeaveSteps
  <2> HIDE DEF h, Moved
  <2> QED
    BY <1>2, <1>5, <2>1, <2>2
<1>12. ASSUME Refusal(Sought(r)) = "listed" \/ Refusal(<<Last(Asked(r))>>) = "listed"
       PROVE  FALSE
  BY <1>12 DEF Refusal
<1> HIDE DEF Moved
<1>13. ASSUME Canonicalize(r) \/ CanonicalizeDecoded(r)
      PROVE  UNCHANGED req \/ \E h : Moved(r, h)
  BY <1>1, <1>3, <1>6, <1>12, <1>13 DEF Canonicalize, CanonicalizeDecoded
<1>14. ASSUME Open(r) \/ OpenLate(r) \/ WriterOpens(r)
      PROVE  UNCHANGED req \/ \E h : Moved(r, h)
  BY <1>1, <1>2, <1>3, <1>8, <1>14, OpenSteps
<1>15. ASSUME Lstat(r) \/ LstatDecoded(r)
      PROVE  UNCHANGED req \/ \E h : Moved(r, h)
  BY <1>1, <1>3, <1>7, <1>12, <1>15 DEF Lstat, LstatDecoded
<1>16. ASSUME Unlink(r)
      PROVE  UNCHANGED req \/ \E h : Moved(r, h)
  BY <1>4, <1>16 DEF Unlink
<1>17. ASSUME CheckDirectory(r) \/ ReadDir(r) \/ CanonicalizeEntry(r) \/ StatEntry(r)
      PROVE  UNCHANGED req \/ \E h : Moved(r, h)
  BY <1>1, <1>3, <1>17 DEF CheckDirectory, ReadDir, CanonicalizeEntry, StatEntry
<1>18. ASSUME NextEntry(r)
      PROVE  UNCHANGED req \/ \E h : Moved(r, h)
  BY <1>1, <1>18 DEF NextEntry
<1>19. ASSUME EndOfDirectory(r)
      PROVE  UNCHANGED req \/ \E h : Moved(r, h)
  BY <1>3, <1>19 DEF EndOfDirectory
<1>20. ASSUME Fail(r)
      PROVE  UNCHANGED req \/ \E h : Moved(r, h)
  BY <1>1, <1>2, <1>3, <1>20 DEF Fail
<1> QED
  BY <1>9, <1>10, <1>11, <1>13, <1>14, <1>15, <1>16, <1>17, <1>18, <1>19, <1>20 DEF Work

LEMMA RowKept ==
  ASSUME Inv, RowInv, [Next]_vars
  PROVE  RowInv'
<1>0. IsTree(fs')
  BY TreeKept DEF RowInv
<1>1. \A q \in Reqs : /\ Lists(req[q])
                      /\ \A row \in scan[q].rows : RowOK(row)
  BY DEF RowInv
\* A step that leaves the handlers alone.
<1>2. ASSUME UNCHANGED req,
             \A q \in Reqs : \A row \in scan'[q].rows : row \in scan[q].rows \/ RowOK(row)
      PROVE  RowInv'
  <2>1. \A q \in Reqs : \A row \in scan'[q].rows : RowOK(row)
    BY <1>1, <1>2
  <2> QED
    BY <1>0, <1>1, <1>2, <2>1 DEF RowInv, RowOK, Lists
<1>3. ASSUME NEW r \in Reqs, NEW call \in Requests[r], Arrive(r, call)
      PROVE  RowInv'
  <2>1. PICK h : Become(r, h) /\ h.status # "listed"
    <3> DEFINE valid == Validated(call)
               h == [Idle EXCEPT !.call = valid, !.status = Screen(valid),
                       !.pc = IF Screen(valid) = "pending" THEN "canon" ELSE "done"]
    <3>1. Become(r, h)
      BY <1>3 DEF Arrive
    <3>2. h.status = Screen(valid)
      BY DEF Idle
    <3>3. Screen(valid) # "listed"
      BY DEF Screen
    <3> QED
      BY <3>1, <3>2, <3>3
  <2>2. \A q \in Reqs : \A row \in scan'[q].rows : row \in scan[q].rows
    BY <1>3, RowsKept DEF Inv
  <2>3. Lists(h)
    BY <2>1 DEF Lists
  <2> QED
    BY <1>0, <2>1, <2>2, <2>3, RowByHandler
<1>4. ASSUME NEW r \in Reqs, StatEntry(r)
      PROVE  \A q \in Reqs : \A row \in scan'[q].rows : row \in scan[q].rows \/ RowOK(row)
  <2> DEFINE l == Resolve(scan[r].spot)
             new == Row(r, NodeAt(l))
             t == [scan[r] EXCEPT !.item = None, !.spot = Root,
                     !.rows = IF l \in Places THEN @ \cup {new} ELSE @]
  <2>1. /\ scan[r] \in Scans /\ scan[r].spot \in Seq(OsNames)
        /\ scan'[r] = t /\ \A q \in Reqs \ {r} : scan'[q] = scan[q]
    BY <1>4, PlacesTyped DEF StatEntry, Inv, TypeOK, Scans
  <2>2. t.rows = IF l \in Places THEN scan[r].rows \cup {new} ELSE scan[r].rows
    BY <2>1 DEF Scans
  <2>3. l \in Places => RowOK(new)
    <3> HAVE l \in Places
    <3>1. NodeAt(l) # None /\ ~IsKind(NodeAt(l), "link")
      BY <2>1, ResolveFinds
    <3>2. NodeAt(l) \in Files \cup {RootDir}
      BY <3>1, NodeTyped DEF Inv
    <3>3. /\ new.name = Render[new.entry] /\ new.file = NodeAt(l)
          /\ new.kind = IF NodeAt(l) = RootDir \/ IsKind(NodeAt(l), "dir") THEN "dir" ELSE "file"
      BY DEF Row
    <3> HIDE DEF l, new
    <3> QED
      BY <3>1, <3>2, <3>3, ShareAssumption DEF RowOK, IsKind, Kinds
  <2> HIDE DEF l, new, t
  <2> QED
    BY <2>1, <2>2, <2>3
<1>5. ASSUME NEW r \in Reqs, Work(r) \/ WriterOpens(r) \/ Fail(r) \/ Disconnect(r)
      PROVE  RowInv'
  <2>1. \A q \in Reqs : \A row \in scan'[q].rows : row \in scan[q].rows \/ RowOK(row)
    BY <1>4, <1>5, RowsKept DEF Inv
  <2>2. CASE UNCHANGED req
    BY <1>2, <2>1, <2>2
  <2>3. ASSUME NEW h, Moved(r, h)
        PROVE  RowInv'
    <3>1. /\ Become(r, h) /\ h.call = req[r].call
          /\ h.pc = "done" /\ h.status = "listed" => EndOfDirectory(r)
      BY <2>3 DEF Moved
    <3>2. EndOfDirectory(r) => /\ req[r].call.op = "list" /\ req[r].call.path \in Path
      BY DEF EndOfDirectory, At, Inv, HandlerOK, Active, PCs, Calls
    <3>3. Lists(h)
      BY <3>1, <3>2 DEF Lists
    <3> QED
      BY <1>0, <1>1, <2>1, <3>1, <3>3, RowByHandler
  <2> QED
    BY <1>5, <2>2, <2>3, HandlerSteps
<1>6. CASE Others
  <2>1. Track /\ UNCHANGED req
    BY <1>6 DEF Others, CreateEntry, RemoveEntry, MoveEntry, ChangeShare
  <2> QED
    BY <1>2, <2>1, TrackKeepsRows DEF Inv
<1>7. CASE UNCHANGED vars
  BY <1>2, <1>7 DEF vars
<1> QED
  BY <1>3, <1>5, <1>6, <1>7 DEF Next

(* RowReopens: whatever the names and however the share changes in between,   *)
(* a listed file that is still in its place opens under the name its row      *)
(* shows, when that name and the directory's path are spelled in one form and *)
(* validate_relative_path keeps the path of the row.                          *)
THEOREM ListedNamesReopen ==
  ASSUME ShownNamesApart
  PROVE  Spec => []RowReopens
<1>1. Init => RowInv
  <2> SUFFICES ASSUME Init
               PROVE  RowInv
    OBVIOUS
  <2>1. IsTree(fs)
    BY TreeAssumption DEF Init
  <2>2. \A r \in Reqs : Lists(req[r]) /\ scan[r].rows = {}
    BY DEF Init, Idle, NoScan, Lists
  <2> QED
    BY <2>1, <2>2 DEF RowInv
<1>2. ASSUME Inv, RowInv, NEW r \in Reqs, Done(r, "listed"), NEW row \in scan[r].rows,
             row.kind = "file", NodeAt(Append(scan[r].home, row.entry)) = row.file,
             Leads(Asked(r)) = scan[r].home, OneForm(Asked(r), row),
             Addressable(Asked(r), row.name)
      PROVE  Leads(ValidPath(Append(Asked(r), row.name))) = Append(scan[r].home, row.entry)
  <2>1. scan[r].home \in Places /\ row.entry \in OsNames
    BY <1>2 DEF Inv, TypeOK, Scans, Rows
  <2>2. Asked(r) \in Path
    BY <1>2 DEF RowInv, Lists, Done, At, Asked
  <2>3. RowOK(row)
    BY <1>2 DEF RowInv
  <2> QED
    BY <1>2, <2>1, <2>2, <2>3, ShownLeadsBack DEF RowInv, RowOK, Addressable
<1>3. Inv /\ RowInv => RowReopens
  BY <1>2 DEF RowReopens
<1> QED
  BY <1>1, <1>3, RowKept, InvHolds, PTL DEF Spec

--------------------------------------------------------------------------------
(* The promise. *)

\* A download that has found its file.
Holds(h) == h.pc \in {"open", "blocked", "verify"} /\ IsKind(h.known, "file")
\* An open whose client has left, before it began or at a pipe.
Left(h) == h.pc = "held" \/ (h.pc = "orphan" /\ h.call.op = "get")
Waits(h) == h.pc \in Active /\ ~Holds(h) /\ ~Left(h)

Standings == [r \in Reqs |-> Standing(req[r])]

LEMMA StandingIs ==
  ASSUME NEW h
  PROVE  /\ h.pc = "idle" =>
              Standing(h) = [call |-> h.call, state |-> "free", file |-> h.file]
         /\ h.pc = "dropped" =>
              Standing(h) = [call |-> h.call, state |-> "gone", file |-> h.file]
         /\ h.pc = "done" /\ h.status = "served" =>
              Standing(h) = [call |-> h.call, state |-> "served", file |-> h.file]
         /\ h.pc = "done" /\ h.status = "noContent" =>
              Standing(h) = [call |-> h.call, state |-> "removed", file |-> h.file]
         /\ h.pc = "done" /\ h.status = "listed" =>
              Standing(h) = [call |-> h.call, state |-> "listed", file |-> h.file]
         /\ h.pc = "done" /\ h.status \notin {"served", "noContent", "listed"} =>
              Standing(h) = [call |-> h.call, state |-> "refused", file |-> h.file]
         /\ Left(h) => Standing(h) = [call |-> h.call, state |-> "gone", file |-> None]
         /\ Holds(h) => Standing(h) = [call |-> h.call, state |-> "found", file |-> h.known]
         /\ Waits(h) => Standing(h) = [call |-> h.call, state |-> "asked", file |-> None]
<1>1. CASE h.pc = "idle"
  BY <1>1 DEF Standing, Holds, Waits, Left, Active, PCs, Calls
<1>2. CASE h.pc = "dropped"
  BY <1>2 DEF Standing, Holds, Waits, Left, Active, PCs, Calls
<1>3. CASE h.pc = "done"
  BY <1>3 DEF Standing, Holds, Waits, Left, Active, PCs, Calls
<1>4. CASE Holds(h)
  BY <1>4 DEF Standing, Holds, Waits, Left, Active, PCs, Calls
<1>5. CASE Waits(h)
  BY <1>5 DEF Standing, Holds, Waits, Left, Active, PCs, Calls
<1>6. CASE Left(h)
  BY <1>6 DEF Standing, Holds, Waits, Left, Active, PCs, Calls
<1> QED
  BY <1>1, <1>2, <1>3, <1>4, <1>5, <1>6

\* A step of one handler changes what that request has come to, and no other.
LEMMA StandsBy ==
  ASSUME Inv, NEW r \in Reqs, NEW h, Become(r, h)
  PROVE  /\ Standings' = [Standings EXCEPT ![r] = Standing(h)]
         /\ Standings[r] = Standing(req[r])
<1>1. req'[r] = h /\ \A q \in Reqs \ {r} : req'[q] = req[q]
  BY DEF Become, Inv, TypeOK
<1>2. Standings' = [q \in Reqs |-> Standing(req'[q])]
  BY DEF Standings
<1> QED
  BY <1>1, <1>2 DEF Standings

LEMMA PromiseStutters ==
  ASSUME Inv, NEW r \in Reqs, NEW h, Become(r, h), Standing(h) = Standing(req[r]),
         UNCHANGED <<fs, fresh>>
  PROVE  UNCHANGED Promise!vars
<1>1. Standings' = Standings
  BY StandsBy DEF Standings
<1> QED
  BY <1>1 DEF Promise!vars, Standings

\* A request that finds nothing, fails or is left by its client.
LEMMA PromiseEnds ==
  ASSUME Inv, NEW r \in Reqs, Waits(req[r]) \/ Holds(req[r]),
         NEW pc \in {"done", "dropped", "held"}, NEW status,
         Over(r, pc, status, None, None),
         pc = "done" => status \notin {"served", "noContent", "listed"},
         UNCHANGED <<fs, fresh>>
  PROVE  Promise!Next
<1> DEFINE h == Outcome(r, pc, status, None, None)
<1>1. /\ Become(r, h) /\ h.call = req[r].call /\ h.pc = pc /\ h.status = status
      /\ h.file = None
  BY DEF Over, Outcome, Idle
<1> HIDE DEF h
<1>2. PICK state \in {"refused", "gone"} :
        Standing(h) = [call |-> req[r].call, state |-> state, file |-> None]
  BY <1>1, StandingIs DEF Left
<1>3. Standings[r].state \in {"asked", "found"} /\ Standings[r].call = req[r].call
  BY <1>1, StandingIs, StandsBy
<1>4. Standings' = [Standings EXCEPT ![r] = [call |-> Standings[r].call, state |-> state,
                                             file |-> None]]
  BY <1>1, <1>2, <1>3, StandsBy
<1>5. Promise!End(r)
  BY <1>3, <1>4 DEF Promise!End, Promise!Stands, Standings
<1> QED
  BY <1>5 DEF Promise!Next

LEMMA PromiseAnswered ==
  ASSUME Inv, NEW r \in Reqs, Waits(req[r]) \/ Holds(req[r]),
         NEW status, Answer(r, status),
         status \notin {"served", "noContent", "listed"}, UNCHANGED <<fs, fresh>>
  PROVE  Promise!Next
BY PromiseEnds DEF Answer

\* A request that has taken no effect yet goes on.
LEMMA PromiseWaits ==
  ASSUME Inv, NEW r \in Reqs, NEW h, Become(r, h), h.call = req[r].call,
         Waits(req[r]), Waits(h), UNCHANGED <<fs, fresh>>
  PROVE  UNCHANGED Promise!vars
BY StandingIs, PromiseStutters

\* The calls that only look, and those of a listing.
Looking == Active \ {"stat", "open", "blocked", "verify", "unlink", "orphan"}

LEMMA PromiseGoto ==
  ASSUME Inv, NEW r \in Reqs, Waits(req[r]), NEW pc \in Looking,
         Goto(r, pc), UNCHANGED <<fs, fresh>>
  PROVE  UNCHANGED Promise!vars
<1> DEFINE h == [req[r] EXCEPT !.pc = pc]
<1>1. Become(r, h) /\ h.call = req[r].call /\ h.pc = pc
  BY DEF Goto, Inv, TypeOK, States
<1> HIDE DEF h
<1>2. Waits(h)
  BY <1>1 DEF Waits, Holds, Left, Looking, Active
<1> QED
  BY <1>1, <1>2, PromiseWaits

LEMMA PromiseByLooking ==
  ASSUME Inv, NEW r \in Reqs,
         \/ Canonicalize(r) \/ CanonicalizeDecoded(r) \/ CheckDirectory(r)
         \/ Lstat(r) \/ LstatDecoded(r)
         \/ ReadDir(r) \/ NextEntry(r) \/ CanonicalizeEntry(r) \/ StatEntry(r)
  PROVE  [Promise!Next]_(Promise!vars)
<1>0. /\ req[r].pc \in Looking /\ Waits(req[r]) /\ req[r].pc \in Active /\ req[r] \in States
      /\ UNCHANGED <<fs, fresh>>
  BY DEF Canonicalize, CanonicalizeDecoded, CheckDirectory, Lstat, LstatDecoded, ReadDir,
     NextEntry, CanonicalizeEntry, StatEntry, At, Looking, Waits, Holds, Left, Active, PCs, Calls,
     Inv, TypeOK
<1>1. CASE UNCHANGED req
  BY <1>0, <1>1 DEF Promise!vars
<1>2. ASSUME NEW status, Answer(r, status), status \notin {"served", "noContent", "listed"}
      PROVE  [Promise!Next]_(Promise!vars)
  BY <1>0, <1>2, PromiseAnswered
<1>3. ASSUME NEW pc \in Looking, Goto(r, pc)
      PROVE  [Promise!Next]_(Promise!vars)
  BY <1>0, <1>3, PromiseGoto
<1>4. ASSUME NEW l, NEW decoded, Resolved(r, l, decoded)
      PROVE  [Promise!Next]_(Promise!vars)
  <2> DEFINE pc == IF req[r].call.op = "get" THEN "stat" ELSE "isDir"
             h == [req[r] EXCEPT !.at = l, !.decoded = decoded, !.pc = pc]
  <2>1. h.call = req[r].call /\ h.pc \in {"stat", "isDir"}
    BY <1>0 DEF States
  <2>2. CASE Become(r, h)
    <3> HIDE DEF h
    <3>1. Waits(h)
      BY <2>1 DEF Waits, Holds, Left, Active, PCs, Calls
    <3> QED
      BY <1>0, <2>1, <2>2, <3>1, PromiseWaits
  <2>3. CASE Answer(r, "notFound")
    BY <1>2, <2>3
  <2> QED
    BY <1>4, <2>2, <2>3 DEF Resolved
<1>5. ASSUME NEW l, NEW name, Found(r, l, name)
      PROVE  [Promise!Next]_(Promise!vars)
  <2> DEFINE h == [req[r] EXCEPT !.known = NodeAt(l), !.name = name, !.pc = "unlink"]
  <2>1. h.call = req[r].call /\ h.pc = "unlink"
    BY <1>0 DEF States
  <2>2. CASE Become(r, h)
    <3> HIDE DEF h
    <3>1. Waits(h)
      BY <2>1 DEF Waits, Holds, Left, Active, PCs, Calls
    <3> QED
      BY <1>0, <2>1, <2>2, <3>1, PromiseWaits
  <2>3. CASE Answer(r, "badRequest")
    BY <1>2, <2>3
  <2> QED
    BY <1>5, <2>2, <2>3 DEF Found
<1>6. /\ Refusal(Sought(r)) \in {"badRequest", "notFound"}
      /\ Refusal(<<Last(Asked(r))>>) \in {"badRequest", "notFound"}
  BY DEF Refusal
<1>7. CASE Canonicalize(r) \/ CanonicalizeDecoded(r)
  BY <1>2, <1>3, <1>4, <1>6, <1>7
  DEF Canonicalize, CanonicalizeDecoded, Looking, Active, PCs, Calls
<1>8. CASE Lstat(r) \/ LstatDecoded(r)
  BY <1>2, <1>3, <1>5, <1>6, <1>8 DEF Lstat, LstatDecoded, Looking, Active, PCs, Calls
<1>9. CASE \/ CheckDirectory(r) \/ ReadDir(r) \/ NextEntry(r)
           \/ CanonicalizeEntry(r) \/ StatEntry(r)
  BY <1>1, <1>2, <1>3, <1>9
  DEF CheckDirectory, ReadDir, NextEntry, CanonicalizeEntry, StatEntry, Looking, Active, PCs, Calls
<1> QED
  BY <1>7, <1>8, <1>9

\* The stat decides which file a download is of.
LEMMA PromiseByStat ==
  ASSUME Inv, RootInv, NEW r \in Reqs, Stat(r)
  PROVE  [Promise!Next]_(Promise!vars)
<1> DEFINE l == Resolve(req[r].at)
           h == [req[r] EXCEPT !.known = NodeAt(l), !.pc = "open"]
<1>0. /\ req[r].pc = "stat" /\ req[r].pc \in Active /\ req[r] \in States
      /\ Waits(req[r]) /\ req[r].call.op = "get" /\ UNCHANGED <<fs, fresh>>
  BY DEF Stat, At, Waits, Holds, Left, Active, PCs, Calls, Inv, TypeOK, HandlerOK
<1>1. h.call = req[r].call /\ h.pc = "open" /\ h.known = NodeAt(l)
  BY <1>0 DEF States
<1>2. l \in Places => l = req[r].at /\ WithinRoot(l)
  BY <1>0, InsideStays, PlacesTyped DEF Inside
<1>3. \/ l \in Places /\ Become(r, h)
      \/ Answer(r, "notFound") \/ Answer(r, "unavailable")
  BY DEF Stat
<1> HIDE DEF h, l
<1>4. CASE Answer(r, "notFound") \/ Answer(r, "unavailable")
  BY <1>0, <1>4, PromiseAnswered
<1>5. CASE l \in Places /\ Become(r, h) /\ ~Holds(h)
  <2>1. Waits(h)
    BY <1>1, <1>5 DEF Waits, Left, Active, PCs, Calls
  <2> QED
    BY <1>0, <1>1, <1>5, <2>1, PromiseWaits
<1>6. CASE l \in Places /\ Become(r, h) /\ Holds(h)
  <2>1. NodeAt(l) \in Files /\ Kind[NodeAt(l)] = "file"
    BY <1>1, <1>6 DEF Holds, IsKind
  <2>2. l \in Locs /\ fs[l] = NodeAt(l) /\ WithinRoot(l)
    BY <1>2, <1>6, <2>1, FileHasLocation
  <2>3. Standings[r].state = "asked" /\ Standings[r].call = req[r].call
    BY <1>0, <1>6, StandingIs, StandsBy
  <2>4. Standings' = [Standings EXCEPT ![r] = [call |-> Standings[r].call, state |-> "found",
                                               file |-> fs[l]]]
    BY <1>1, <1>6, <2>2, <2>3, StandingIs, StandsBy
  <2>5. Promise!Find(r)
    BY <1>0, <2>1, <2>2, <2>3, <2>4 DEF Promise!Find, Promise!Stands, Standings
  <2> QED
    BY <2>5 DEF Promise!Next
<1> QED
  BY <1>3, <1>4, <1>5, <1>6

\* What its client has left behind of a download ends unseen.
LEMMA PromiseLeft ==
  ASSUME Inv, NEW r \in Reqs, Left(req[r]), NEW pc \in {"dropped", "held"},
         Over(r, pc, "none", None, None), UNCHANGED <<fs, fresh>>
  PROVE  UNCHANGED Promise!vars
<1> DEFINE h == Outcome(r, pc, "none", None, None)
<1>1. Become(r, h) /\ h.call = req[r].call /\ h.pc = pc /\ h.file = None
  BY DEF Over, Outcome, Idle
<1> HIDE DEF h
<1>2. Standing(h) = Standing(req[r])
  BY <1>1, StandingIs DEF Left
<1> QED
  BY <1>1, <1>2, PromiseStutters

\* The open changes nothing: what it opens is compared with what was found. What
\* is left of a download that its client has left comes to no more.
LEMMA PromiseByOpen ==
  ASSUME Inv, NEW r \in Reqs, Open(r) \/ OpenLate(r) \/ WriterOpens(r)
  PROVE  [Promise!Next]_(Promise!vars)
<1>0. req[r] \in States /\ UNCHANGED <<fs, fresh>>
  BY OpenSteps DEF Inv, TypeOK
\* From the open to the check.
<1>1. ASSUME NEW h, Become(r, h), h.call = req[r].call, h.known = req[r].known,
             req[r].pc \in {"open", "blocked"}, h.pc \in {"blocked", "verify"}
      PROVE  [Promise!Next]_(Promise!vars)
  <2>1. Holds(h) <=> Holds(req[r])
    BY <1>1 DEF Holds
  <2>2. Waits(h) <=> Waits(req[r])
    BY <1>1, <2>1 DEF Waits, Left, Active, PCs, Calls
  <2>3. Holds(h) \/ Waits(h)
    BY <1>1 DEF Waits, Left, Active, PCs, Calls
  <2>4. Standing(h) = Standing(req[r])
    BY <1>1, <2>1, <2>2, <2>3, StandingIs
  <2> QED
    BY <1>0, <1>1, <2>4, PromiseStutters
<1>2. ASSUME NEW l, NEW to \in {"blocked", "verify"}, Opened(r, l, to), req[r].pc = "open"
      PROVE  [Promise!Next]_(Promise!vars)
  <2> DEFINE h == [req[r] EXCEPT !.file = NodeAt(l), !.source = l, !.pc = to]
  <2>1. h.call = req[r].call /\ h.pc = to /\ h.known = req[r].known /\ Become(r, h)
    BY <1>0, <1>2 DEF States, Opened
  <2> HIDE DEF h
  <2> QED
    BY <1>1, <1>2, <2>1
<1>3. ASSUME req[r].pc = "blocked", Goto(r, "verify")
      PROVE  [Promise!Next]_(Promise!vars)
  <2> DEFINE h == [req[r] EXCEPT !.pc = "verify"]
  <2>1. h.call = req[r].call /\ h.pc = "verify" /\ h.known = req[r].known /\ Become(r, h)
    BY <1>0, <1>3 DEF States, Goto
  <2> HIDE DEF h
  <2> QED
    BY <1>1, <1>3, <2>1
<1>4. ASSUME req[r].pc = "open", Answer(r, "notFound") \/ Answer(r, "unavailable")
      PROVE  [Promise!Next]_(Promise!vars)
  <2>1. Waits(req[r]) \/ Holds(req[r])
    BY <1>4 DEF Waits, Left, Active, PCs, Calls
  <2> QED
    BY <1>0, <1>4, <2>1, PromiseAnswered
<1>5. ASSUME Left(req[r]), OpenLate(r) \/ WriterOpens(r)
      PROVE  [Promise!Next]_(Promise!vars)
  <2>1. PICK pc \in {"dropped", "held"} : Over(r, pc, "none", None, None)
    BY <1>5 DEF OpenLate, WriterOpens, At, Left
  <2> QED
    BY <1>0, <1>5, <2>1, PromiseLeft
<1> QED
  BY <1>2, <1>3, <1>4, <1>5, OpenSteps DEF Left, Open, OpenLate, WriterOpens, At

\* What is served is the file that was found.
LEMMA PromiseByVerify ==
  ASSUME \A f, g \in Files : Ino[f] = Ino[g] => f = g,
         Inv, NEW r \in Reqs, Verify(r)
  PROVE  [Promise!Next]_(Promise!vars)
<1> DEFINE h == [req[r] EXCEPT !.pc = "done", !.status = "served"]
<1>0. /\ req[r].pc = "verify" /\ req[r].pc \in Active /\ req[r] \in States
      /\ Waits(req[r]) \/ Holds(req[r])
      /\ UNCHANGED <<fs, fresh>>
  BY DEF Verify, At, Waits, Left, Active, PCs, Calls, Inv, TypeOK
<1>1. /\ h.call = req[r].call /\ h.pc = "done" /\ h.status = "served"
      /\ h.file = req[r].file
  BY <1>0 DEF States
<1>2. \/ /\ IsKind(req[r].file, "file") /\ SameInode(req[r].file, req[r].known)
         /\ Become(r, h)
      \/ Answer(r, "notFound")
  BY DEF Verify
<1> HIDE DEF h
<1>3. CASE /\ IsKind(req[r].file, "file") /\ SameInode(req[r].file, req[r].known)
           /\ Become(r, h)
  <2>1. req[r].file = req[r].known /\ Holds(req[r])
    BY <1>0, <1>3 DEF SameInode, Holds
  <2>2. Standings[r] = [call |-> req[r].call, state |-> "found", file |-> req[r].file]
    BY <1>3, <2>1, StandingIs, StandsBy
  <2>3. Standings' = [Standings EXCEPT ![r] = [call |-> Standings[r].call, state |-> "served",
                                               file |-> Standings[r].file]]
    BY <1>1, <1>3, <2>2, StandingIs, StandsBy
  <2>4. Promise!Serve(r)
    BY <1>0, <2>2, <2>3 DEF Promise!Serve, Promise!Stands, Standings
  <2> QED
    BY <2>4 DEF Promise!Next
<1> QED
  BY <1>0, <1>2, <1>3, PromiseAnswered

LEMMA PromiseByListed ==
  ASSUME Inv, NEW r \in Reqs, EndOfDirectory(r)
  PROVE  Promise!Next
<1> DEFINE h == Outcome(r, "done", "listed", None, None)
<1>0. /\ req[r].pc = "next" /\ Waits(req[r]) /\ req[r].call.op = "list"
      /\ UNCHANGED <<fs, fresh>>
  BY DEF EndOfDirectory, At, Waits, Holds, Left, Active, PCs, Calls, Inv, HandlerOK
<1>1. /\ Become(r, h) /\ h.call = req[r].call /\ h.pc = "done" /\ h.status = "listed"
      /\ h.file = None
  BY DEF EndOfDirectory, Answer, Over, Outcome, Idle
<1> HIDE DEF h
<1>2. Standings[r].state = "asked" /\ Standings[r].call = req[r].call
  BY <1>0, <1>1, StandingIs, StandsBy
<1>3. Standings' = [Standings EXCEPT ![r] = [call |-> Standings[r].call, state |-> "listed",
                                             file |-> None]]
  BY <1>1, <1>2, StandingIs, StandsBy
<1>4. Promise!List(r)
  BY <1>0, <1>2, <1>3 DEF Promise!List, Promise!Stands, Standings
<1> QED
  BY <1>4 DEF Promise!Next

\* The removal is the instant at which a delete takes effect, whether or not its
\* client still waits for the answer.
LEMMA PromiseByUnlink ==
  ASSUME Inv, RootInv, NEW r \in Reqs, Unlink(r)
  PROVE  Promise!Next
<1> DEFINE entry == Entry(req[r].at, req[r].name)
<1>0. /\ req[r].pc \in {"unlink", "orphan"} /\ req[r].pc \in Active /\ req[r].pc \in Inside
      /\ Waits(req[r]) /\ req[r].call.op = "delete" /\ req[r].name \in OsNames \cup {None}
      /\ UNCHANGED fresh
  BY DEF Unlink, Waits, Holds, Left, Inside, Active, PCs, Calls, Inv, HandlerOK, TypeOK, States
<1>1. ASSUME NodeAt(entry) \in Files, ~IsDir(entry)
      PROVE  entry \in Locs /\ fs[entry] = NodeAt(entry) /\ WithinRoot(entry)
  <2>1. entry \in Locs /\ fs[entry] = NodeAt(entry)
    BY <1>1, FileHasLocation
  <2>2. entry \notin {Missing, Broken}
    BY <2>1, PlacesTyped DEF Places
  <2>3. entry = Append(req[r].at, req[r].name)
    BY <1>0, <1>1, <2>2, InsideStays DEF Entry
  <2>4. WithinRoot(entry)
    BY <1>0, <2>3, InsideStays, WithinRootBelow
  <2> QED
    BY <2>1, <2>4
<1>2. CASE /\ NodeAt(entry) \in Files /\ ~IsDir(entry)
           /\ fs' = [fs EXCEPT ![entry] = None]
           /\ Conclude(r, "noContent", NodeAt(entry), entry)
  <2> HIDE DEF entry
  <2>1. PICK pc, status :
          /\ Over(r, pc, status, NodeAt(entry), entry)
          /\ (pc = "dropped") \/ (pc = "done" /\ status = "noContent")
    BY <1>2 DEF Conclude
  <2> DEFINE h == Outcome(r, pc, status, NodeAt(entry), entry)
  <2>2. /\ Become(r, h) /\ h.call = req[r].call /\ h.pc = pc /\ h.status = status
        /\ h.file = NodeAt(entry)
    BY <2>1 DEF Over, Outcome, Idle
  <2> HIDE DEF h
  <2>3. entry \in Locs /\ fs[entry] = NodeAt(entry) /\ WithinRoot(entry)
    BY <1>1, <1>2
  <2>4. Kind[NodeAt(entry)] # "dir"
    BY <1>2 DEF IsDir, IsKind
  <2>5. PICK state \in {"removed", "gone"} :
          Standing(h) = [call |-> req[r].call, state |-> state, file |-> fs[entry]]
    BY <2>1, <2>2, <2>3, StandingIs
  <2>6. Standings[r].state = "asked" /\ Standings[r].call = req[r].call
    BY <1>0, <2>2, StandingIs, StandsBy
  <2>7. Standings' = [Standings EXCEPT ![r] = [call |-> Standings[r].call, state |-> state,
                                               file |-> fs[entry]]]
    BY <2>2, <2>5, <2>6, StandsBy
  <2>8. Promise!Remove(r)
    BY <1>0, <1>2, <2>3, <2>4, <2>6, <2>7 DEF Promise!Remove, Promise!Stands, Standings
  <2> QED
    BY <2>8 DEF Promise!Next
<1>3. ASSUME NEW status \in {"notFound", "unavailable"}, Conclude(r, status, None, None),
             UNCHANGED fs
      PROVE  Promise!Next
  BY <1>0, <1>3, PromiseEnds DEF Conclude
<1> HIDE DEF entry
<1> QED
  BY <1>2, <1>3 DEF Unlink, ChangeShare, entry

LEMMA PromiseByFailure ==
  ASSUME Inv, NEW r \in Reqs, Fail(r) \/ Disconnect(r)
  PROVE  [Promise!Next]_(Promise!vars)
<1>0. req[r].pc \in Active /\ req[r] \in States /\ UNCHANGED <<fs, fresh>>
  BY DEF Fail, Disconnect, Active, PCs, Calls, Inv, TypeOK
<1>1. CASE Goto(r, "next") /\ req[r].pc \in {"entryCanon", "entryMeta"}
  BY <1>0, <1>1, PromiseGoto DEF Waits, Holds, Left, Looking, Active, PCs, Calls
<1>2. CASE \E pc \in {"dropped", "held"} : Over(r, pc, "none", None, None)
  <2>1. Left(req[r]) \/ Waits(req[r]) \/ Holds(req[r])
    BY <1>0 DEF Waits
  <2> QED
    BY <1>0, <1>2, <2>1, PromiseEnds, PromiseLeft
<1>3. CASE (Answer(r, "notFound") \/ Answer(r, "unavailable")) /\ req[r].pc # "orphan"
  <2>1. Waits(req[r]) \/ Holds(req[r])
    BY <1>0, <1>3 DEF Waits, Left, Active, PCs, Calls
  <2> QED
    BY <1>0, <1>3, <2>1, PromiseAnswered
<1> DEFINE h == [req[r] EXCEPT !.pc = "orphan", !.status = "none"]
<1>4. CASE req[r].pc \in {"open", "unlink"} /\ Become(r, h)
  <2>1. h.call = req[r].call /\ h.pc = "orphan"
    BY <1>0 DEF States
  <2> HIDE DEF h
  <2>2. CASE req[r].pc = "unlink"
    <3>1. Waits(h) /\ Waits(req[r])
      BY <2>1, <2>2 DEF Inv, HandlerOK, Waits, Holds, Left, Active, PCs, Calls
    <3> QED
      BY <1>0, <1>4, <2>1, <3>1, PromiseWaits
  <2>3. CASE req[r].pc = "open"
    <3>1. Left(h) /\ (Waits(req[r]) \/ Holds(req[r]))
      BY <2>1, <2>3 DEF Inv, HandlerOK, Waits, Left, Active, PCs, Calls
    <3>2. Standing(h) = [call |-> req[r].call, state |-> "gone", file |-> None]
      BY <2>1, <3>1, StandingIs
    <3>3. Standings[r].state \in {"asked", "found"} /\ Standings[r].call = req[r].call
      BY <1>4, <3>1, StandingIs, StandsBy
    <3>4. Standings' = [Standings EXCEPT ![r] = [call |-> Standings[r].call, state |-> "gone",
                                                 file |-> None]]
      BY <1>4, <3>2, <3>3, StandsBy
    <3>5. Promise!End(r)
      BY <1>0, <3>3, <3>4 DEF Promise!End, Promise!Stands, Standings
    <3> QED
      BY <3>5 DEF Promise!Next
  <2> QED
    BY <1>4, <2>2, <2>3
<1>5. CASE Fail(r)
  BY <1>1, <1>2, <1>3, <1>5 DEF Fail, At
<1>6. CASE Disconnect(r)
  BY <1>2, <1>4, <1>6 DEF Disconnect
<1> QED
  BY <1>5, <1>6

LEMMA PromiseAsked ==
  ASSUME Inv, NEW r \in Reqs, req[r].pc \in {"idle", "done", "dropped"},
         NEW call \in {Validated(c) : c \in Requests[r]}, NEW state \in {"asked", "refused"}, NEW h, Become(r, h),
         Standing(h) = [call |-> call, state |-> state, file |-> None],
         state = "asked" =>
           /\ call \in Request /\ call.path \in Path
           /\ IsPathVisible(Access, call.groups, call.path)
           /\ call.op = "delete" => CanDelete(Access, call.groups, call.path),
         UNCHANGED <<fs, fresh>>
  PROVE  Promise!Next
<1>1. Standings[r].state \notin {"asked", "found"}
  BY StandingIs, StandsBy
<1>2. /\ Standings' = [Standings EXCEPT ![r] = Standing(h)]
      /\ Standings'[r] = Standing(h)
  BY StandsBy DEF Standings
<1>3. Standings' = [Standings EXCEPT ![r] = Standings'[r]]
  BY <1>2
<1>4. Promise!Ask(r)
  BY <1>1, <1>2, <1>3 DEF Promise!Ask, Standings
<1> QED
  BY <1>4 DEF Promise!Next

\* Nothing is asked for that the gate and delete_file have not granted.
LEMMA PromiseByArrive ==
  ASSUME Inv, NEW r \in Reqs, NEW call \in Requests[r], Arrive(r, call)
  PROVE  Promise!Next
<1> DEFINE valid == Validated(call)
           verdict == Screen(valid)
           h == [Idle EXCEPT !.call = valid, !.status = verdict,
                             !.pc = IF verdict = "pending" THEN "canon" ELSE "done"]
<1>0. req[r].pc \in {"idle", "done", "dropped"} /\ UNCHANGED <<fs, fresh>> /\ Become(r, h)
  BY DEF Arrive
<1>1. /\ h.call = valid /\ h.status = verdict /\ h.file = None
      /\ h.pc = IF verdict = "pending" THEN "canon" ELSE "done"
  BY DEF Idle
<1>2. verdict \in {"pending", "badRequest", "notFound", "forbidden"}
  BY DEF Screen
<1>3. verdict = "pending" =>
        /\ valid \in Request /\ valid.path \in Path
        /\ IsPathVisible(Access, valid.groups, valid.path)
        /\ valid.op = "delete" => CanDelete(Access, valid.groups, valid.path)
  <2>1. valid \in Request
    BY ValidatedTyped
  <2> HIDE DEF valid
  <2> QED
    BY <2>1 DEF Screen, Request
<1>6. valid \in {Validated(c) : c \in Requests[r]}
  OBVIOUS
<1> HIDE DEF h, verdict, valid
<1>4. CASE verdict = "pending"
  <2>1. Waits(h)
    BY <1>1, <1>4 DEF Waits, Holds, Left, Active, PCs, Calls
  <2>2. Standing(h) = [call |-> valid, state |-> "asked", file |-> None]
    BY <1>1, <2>1, StandingIs
  <2> QED
    BY <1>0, <1>3, <1>4, <1>6, <2>2, PromiseAsked
<1>5. CASE verdict # "pending"
  <2>1. Standing(h) = [call |-> valid, state |-> "refused", file |-> None]
    BY <1>1, <1>2, <1>5, StandingIs
  <2> QED
    BY <1>0, <1>6, <2>1, PromiseAsked
<1> QED
  BY <1>4, <1>5

\* Other programs change the share, and no request.
LEMMA PromiseByOthers ==
  ASSUME Others
  PROVE  Promise!Next
<1>1. UNCHANGED req /\ EnvLocs \subseteq Locs
  BY ShareAssumption DEF Others, CreateEntry, RemoveEntry, MoveEntry
<1>2. Standings' = Standings
  BY <1>1 DEF Standings
<1>3. \/ \E l \in Locs, f \in Files : Promise!Create(l, f)
      \/ \E l \in Locs : Promise!Vanish(l)
      \/ \E l, k \in Locs : Promise!Rename(l, k)
  BY <1>1 DEF Others, CreateEntry, RemoveEntry, MoveEntry, ChangeShare,
     Promise!Create, Promise!Vanish, Promise!Rename
<1> QED
  BY <1>2, <1>3 DEF Promise!Next, Promise!Others, Standings

LEMMA PromiseKept ==
  ASSUME \A f, g \in Files : Ino[f] = Ino[g] => f = g,
         Inv, RootInv, [Next]_vars
  PROVE  [Promise!Next]_(Promise!vars)
<1>1. CASE UNCHANGED vars
  BY <1>1 DEF vars, Promise!vars
<1>2. CASE Next
  BY <1>2, PromiseByArrive, PromiseByLooking, PromiseByStat, PromiseByOpen, PromiseByVerify,
     PromiseByListed, PromiseByUnlink, PromiseByFailure, PromiseByOthers DEF Next, Work
<1> QED
  BY <1>1, <1>2

(* TakesEffectAtOnce: the handlers of lib.rs implement SharedFiles, although  *)
(* they look a path up several times while other programs change the share.   *)
(* The premises are the two that the code cannot check: no link is made while *)
(* requests run, and no inode number is given twice.                          *)
THEOREM RequestsTakeEffectAtOnce ==
  ASSUME NoNewLinks, \A f, g \in Files : Ino[f] = Ino[g] => f = g
  PROVE  Spec => TakesEffectAtOnce
<1>1. Init => Promise!Init
  <2> SUFFICES ASSUME Init
               PROVE  Promise!Init
    OBVIOUS
  <2>1. \A r \in Reqs : Standing(req[r]) = [call |-> None, state |-> "free", file |-> None]
    BY StandingIs DEF Init, Idle
  <2> QED
    BY <2>1 DEF Init, Promise!Init, Promise!Free
<1>2. Inv /\ RootInv /\ [Next]_vars => [Promise!Next]_(Promise!vars)
  BY PromiseKept
<1> QED
  BY <1>1, <1>2, InvHolds, RootHolds, PTL DEF Spec, TakesEffectAtOnce, Promise!Spec
================================================================================
