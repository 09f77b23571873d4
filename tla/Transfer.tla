-------------------------------- MODULE Transfer --------------------------------
(***************************************************************************)
(* What a download answers from the handle that FileService has verified   *)
(* (download_inner from fstat on, and its wrapper), and what then reaches  *)
(* the client while other programs replace or overwrite the file. A client *)
(* fetches a file, loses the connection, resumes with Range and If-Range,  *)
(* revalidates with If-None-Match; others send any headers.                *)
(*                                                                         *)
(* Contents are versions; of a byte only the version it is from matters.   *)
(* Modification times are whatever the programs on the host set them to.   *)
(***************************************************************************)
EXTENDS Integers, Sequences

CONSTANTS
  MaxU64,      \* the largest number that parses as an u64
  MaxSize,     \* bound on the size of a file
  Times,       \* modification times, 0 is the epoch
  Second,      \* how many of them make a second
  MaxVersions, \* bound on the number of versions
  Others,      \* the headers of other clients' requests
  None,        \* a header or an answer that is absent
  Garbage,     \* a header, or part of one, that cannot be parsed
  Unreadable,  \* an If-Range with bytes that are no visible ASCII
  AnyTag,      \* the `*` of an If-None-Match
  Empty        \* an absent first or last position

ASSUME TransferAssumption ==
  /\ MaxU64 \in Nat /\ MaxSize \in 0..MaxU64 /\ Times \subseteq Int
  /\ Second \in Nat \ {0} /\ MaxVersions \in Nat

Versions == [number : 1..MaxVersions, size : 0..MaxSize, mtime : Times]

\* compute_weak_etag: a time before the epoch counts as the epoch.
Etag(v) == <<IF v.mtime < 0 THEN 0 ELSE v.mtime, v.size>>
Etags == {Etag(v) : v \in Versions}

\* Positions as they are written; one more than MaxU64 does not parse.
Numbers == 0..MaxU64 + 1
Parses(n) == n \in 0..MaxU64
Positions == Numbers \cup {Empty, Garbage}

\* The spec of a Range header: `first-last`, several of them, or no range at all.
Specs == [unit : {"bytes", "other"}, several : {FALSE}, first : Positions, last : Positions]
         \cup [unit : {"bytes"}, several : {TRUE}, first : {0}, last : {0}]
         \cup [unit : {"bytes"}, several : {FALSE}, first : {None}, last : {None}]

\* RangeDecision, with the inclusive bounds of a ByteRange.
Full == [status |-> "Full"]
NotSatisfiable == [status |-> "NotSatisfiable"]
Partial(start, end) == [status |-> "Partial", start |-> start, end |-> end]

Lesser(a, b) == IF a < b THEN a ELSE b

\* `-N`, the last N bytes.
SuffixRange(last, total) ==
  IF ~Parses(last) THEN Full
  ELSE IF last = 0 THEN NotSatisfiable
  ELSE Partial(IF last > total THEN 0 ELSE total - last, total - 1)

\* `N-` and `N-M`.
BoundedRange(first, last, total) ==
  IF ~Parses(first) THEN Full
  ELSE IF first >= total THEN NotSatisfiable
  ELSE IF last = Empty THEN Partial(first, total - 1)
  ELSE IF Parses(last) /\ last >= first THEN Partial(first, Lesser(last, total - 1))
  ELSE Full

ParseSingleByteRange(spec, total) ==
  IF spec = None \/ spec = Garbage THEN Full
  ELSE IF spec.unit # "bytes" THEN Full
  ELSE IF total = 0 THEN NotSatisfiable
  ELSE IF spec.several \/ spec.first = None THEN Full
  ELSE IF spec.first = Empty THEN SuffixRange(spec.last, total)
  ELSE BoundedRange(spec.first, spec.last, total)

\* If-None-Match is `*` or a list of tags; the weak marker is ignored.
IfNoneMatchMatches(held, v) == held # None /\ (AnyTag \in held \/ Etag(v) \in held)

\* Faulty variant: any If-Range is taken as a match.
AnyIfRange(validator, v) == TRUE

\* If-Range is a tag or a date, compared with the time to the second. A header
\* that is absent counts as a match, and so does one that to_str cannot read.
IfRangeMatches(validator, v) ==
  \/ validator \in {None, Unreadable}
  \/ validator = [tag |-> Etag(v)]
  \/ validator = [second |-> v.mtime \div Second]

\* A range that the validator does not allow widens to the whole file.
Decision(headers, v) ==
  LET range == ParseSingleByteRange(headers.range, v.size) IN
  IF range.status = "Partial" /\ ~IfRangeMatches(headers.ifRange, v) THEN Full ELSE range

\* Faulty variant: the range is decided first.
RespondRangeFirst(headers, v) ==
  LET range == Decision(headers, v) IN
  CASE range.status = "NotSatisfiable" -> [status |-> 416, start |-> 0, promised |-> 0]
    [] range.status = "Partial" ->
         [status |-> 206, start |-> range.start, promised |-> range.end - range.start + 1]
    [] OTHER -> [status |-> IF IfNoneMatchMatches(headers.ifNoneMatch, v) THEN 304 ELSE 200,
                 start |-> 0, promised |-> v.size]

\* The status, and which bytes the Content-Length promises.
Respond(headers, v) ==
  LET range == Decision(headers, v) IN
  CASE IfNoneMatchMatches(headers.ifNoneMatch, v) ->
         [status |-> 304, start |-> 0, promised |-> 0]
    [] OTHER ->
         CASE range.status = "NotSatisfiable" ->
                [status |-> 416, start |-> 0, promised |-> 0]
           [] range.status = "Full" ->
                [status |-> 200, start |-> 0, promised |-> v.size]
           [] range.status = "Partial" ->
                [status |-> 206, start |-> range.start,
                 promised |-> range.end - range.start + 1]

--------------------------------------------------------------------------------
VARIABLES
  disk,     \* the content at the path
  handle,   \* the content behind the handle of the download in progress
  linked,   \* whether the handle's file is still the one at the path
  request,  \* the request of the download in progress
  answer,   \* its answer: status, bytes promised and sent; None when it is over
  line,     \* the status and the bytes of its line in the access log
  copy,     \* what the client holds: the versions of its bytes, the tag it was given
  torn      \* history: the file was overwritten under a download in progress

vars == <<disk, handle, linked, request, answer, line, copy, torn>>

NoCopy == [tag |-> None, bytes |-> <<>>, whole |-> FALSE]

Headers ==
  [head : BOOLEAN, range : Specs \cup {None, Garbage},
   ifNoneMatch : {None} \cup SUBSET (Etags \cup {AnyTag}),
   ifRange : {None, Garbage, Unreadable} \cup [tag : Etags] \cup [second : {t \div Second : t \in Times}]]

\* The markers are none of the things they stand beside.
ASSUME HeadersAssumption ==
  /\ Others \subseteq Headers
  /\ {None, Garbage, Empty} \cap Numbers = {} /\ Empty \notin {None, Garbage}
  /\ {None, Garbage} \cap Specs = {} /\ None \notin Etags \cup [tag : Etags]
  /\ Unreadable \notin {None} \cup [tag : Etags] \cup [second : {t \div Second : t \in Times}]

Get(range, ifRange, ifNoneMatch) ==
  [head |-> FALSE, range |-> range, ifRange |-> ifRange, ifNoneMatch |-> ifNoneMatch]
\* What the client sends for the copy it holds.
Fetch == Get(None, None, None)
Resume ==
  Get([unit |-> "bytes", several |-> FALSE, first |-> Len(copy.bytes), last |-> Empty],
      [tag |-> copy.tag], None)
Revalidate == Get(None, None, {copy.tag})

TypeOK ==
  /\ {disk, handle} \subseteq Versions /\ linked \in BOOLEAN /\ torn \in BOOLEAN
  /\ request \in Headers \cup {None}
  /\ answer \in [status : {200, 206, 304, 416}, own : BOOLEAN, start : 0..MaxSize,
                 promised : 0..MaxSize, sent : 0..MaxSize] \cup {None}
  /\ answer # None =>
       answer.sent <= answer.promised /\ answer.start + answer.promised <= MaxSize
  /\ copy \in [tag : Etags \cup {None}, bytes : Seq(Versions), whole : BOOLEAN]
  /\ Len(copy.bytes) <= MaxSize

Init ==
  /\ disk \in {v \in Versions : v.number = 1}
  /\ handle = disk /\ linked = FALSE
  /\ request = None /\ answer = None /\ line = None
  /\ copy = NoCopy /\ torn = FALSE

--------------------------------------------------------------------------------
(* The server answers and streams. *)

\* axum answers HEAD with the headers of GET and no body.
Bytes(headers, response) == IF headers.head THEN 0 ELSE response.promised

\* Faulty variant: the size of the file is logged for every body.
LoggedFileSize(headers, response) ==
  [status |-> response.status,
   bytes |-> IF response.status \in {200, 206} /\ ~headers.head THEN disk.size ELSE 0]

LogLine(headers, response) ==
  [status |-> response.status,
   bytes |-> IF response.status \in {200, 206} THEN Bytes(headers, response) ELSE 0]

\* The handle is opened, verified and stat'ed; `own` is a request of the client.
Download(headers, own) ==
  LET response == Respond(headers, disk) IN
  /\ answer = None
  /\ handle' = disk /\ linked' = TRUE
  /\ request' = headers
  /\ answer' = [status |-> response.status, start |-> response.start, own |-> own,
                promised |-> Bytes(headers, response), sent |-> 0]
  /\ line' = LogLine(headers, response)
  /\ copy' = CASE own /\ response.status = 200 -> [NoCopy EXCEPT !.tag = Etag(disk)]
               [] OTHER -> copy
  /\ torn' = (torn /\ copy' = copy)
  /\ UNCHANGED disk

\* Faulty variant: what the file has grown by is sent as well.
UnlimitedStream ==
  /\ answer # None
  /\ answer.start + answer.sent < handle.size
  /\ answer' = [answer EXCEPT !.sent = @ + 1]
  /\ copy' = IF answer.own THEN [copy EXCEPT !.bytes = Append(@, handle)] ELSE copy
  /\ UNCHANGED <<disk, handle, linked, request, line, torn>>

\* The next byte: never more than a range allows (take), or than was promised.
Stream ==
  /\ answer # None
  /\ answer.sent < answer.promised
  /\ answer.start + answer.sent < handle.size
  /\ answer' = [answer EXCEPT !.sent = @ + 1]
  /\ copy' = IF answer.own THEN [copy EXCEPT !.bytes = Append(@, handle)] ELSE copy
  /\ UNCHANGED <<disk, handle, linked, request, line, torn>>

Over ==
  /\ answer' = None /\ request' = None /\ line' = None
  /\ linked' = FALSE /\ handle' = disk
  /\ UNCHANGED <<disk, torn>>

\* Faulty variant: the end of the file ends the body, whatever was promised.
FinishAtEndOfFile ==
  /\ answer # None
  /\ answer.sent = answer.promised \/ answer.start + answer.sent >= handle.size
  /\ copy' = IF answer.own /\ answer.status \in {200, 206} /\ ~request.head
               THEN [copy EXCEPT !.whole = TRUE] ELSE copy
  /\ Over

\* All that was promised has been sent.
Finish ==
  /\ answer # None /\ answer.sent = answer.promised
  /\ copy' = IF answer.own /\ answer.status \in {200, 206} /\ ~request.head
               THEN [copy EXCEPT !.whole = TRUE] ELSE copy
  /\ Over

\* The file ends early, or the client leaves: the connection breaks, and the
\* client knows.
Break ==
  /\ answer # None /\ answer.sent < answer.promised
  /\ UNCHANGED copy
  /\ Over

Fetches == Download(Fetch, TRUE)
Resumes == ~copy.whole /\ copy.tag # None /\ Download(Resume, TRUE)
Revalidates == copy.whole /\ Download(Revalidate, TRUE)
OthersDownload == \E headers \in Others : Download(headers, FALSE)

--------------------------------------------------------------------------------
(* Other programs change the file. *)

NewVersion == {v \in Versions : v.number = disk.number + 1}

\* Another file is renamed over the path: the handle keeps the old one.
Replace ==
  /\ disk' \in NewVersion
  /\ linked' = FALSE
  /\ handle' = IF answer = None THEN disk' ELSE handle
  /\ UNCHANGED <<request, answer, line, copy, torn>>

\* The file is written in place: the handle of a download sees it.
Overwrite ==
  /\ disk' \in NewVersion
  /\ handle' = IF answer = None \/ linked THEN disk' ELSE handle
  /\ torn' = (torn \/ (answer # None /\ linked /\ answer.own))
  /\ UNCHANGED <<linked, request, answer, line, copy>>

Next ==
  \/ Fetches \/ Resumes \/ Revalidates \/ OthersDownload
  \/ Stream \/ Finish \/ Break
  \/ Replace \/ Overwrite

Spec == Init /\ [][Next]_vars

--------------------------------------------------------------------------------
(* Properties. *)

\* RFC 9110, 14.1.2: what a single byte range denotes.
Valid(range) ==
  /\ range \notin {None, Garbage} /\ range.unit = "bytes"
  /\ ~range.several /\ range.first # None
  /\ \/ range.first = Empty /\ Parses(range.last)
     \/ Parses(range.first) /\ range.last = Empty
     \/ Parses(range.first) /\ Parses(range.last) /\ range.first <= range.last
Denoted(range, total) ==
  {i \in 0..total - 1 :
     IF range.first = Empty THEN i >= total - range.last
     ELSE range.first <= i /\ (range.last = Empty \/ i <= range.last)}

\* What an If-Range that is absent, a tag or a date says of a version.
NamesVersion(validator, v) ==
  validator \in {None, [tag |-> Etag(v)], [second |-> v.mtime \div Second]}

(* An answer carries exactly the bytes the client asked for: those its range *)
(* denotes, none beyond the end of the file, 416 when there are none, and    *)
(* the whole file when the range cannot be read or its If-Range names        *)
(* another file or nothing. A client that holds the current file gets no     *)
(* bytes at all. (Past the end of the file, or in an empty file, the rest of *)
(* the spec is not read: there a malformed range is unsatisfiable, too.) Of  *)
(* an If-Range with bytes that are no visible ASCII the property claims      *)
(* nothing: the code serves the range, although the comment on               *)
(* if_range_matches has every unrecognized value widen it.                   *)
ServesWhatIsAsked ==
  [][answer = None /\ answer' # None /\ ~request'.head =>
       LET range == request'.range
           bytes == answer'.start..answer'.start + answer'.promised - 1
           held  == IfNoneMatchMatches(request'.ifNoneMatch, disk)
           same  == NamesVersion(request'.ifRange, disk)
           past  == range \notin {None, Garbage} /\ range.unit = "bytes"
                    /\ (disk.size = 0 \/ (Parses(range.first) /\ range.first >= disk.size)) IN
       /\ answer'.status = 304 <=> held
       /\ answer'.status = 206 =>
            /\ Valid(range) /\ bytes = Denoted(range, disk.size)
            /\ same \/ request'.ifRange = Unreadable
       /\ answer'.status = 416 => past \/ (Valid(range) /\ Denoted(range, disk.size) = {})
       /\ answer'.status = 200 =>
            /\ bytes = 0..disk.size - 1
            /\ Valid(range) => ~same /\ Denoted(range, disk.size) # {}]_vars

(* What a client puts together from a broken download and its resumptions    *)
(* is of one version, as far as the tag tells versions apart, although the   *)
(* file was replaced or rewritten in between; only a write in place under a  *)
(* running download escapes (the handle's length and tag were read before).  *)
ResumeIsOneVersion ==
  ~torn => \A i \in 1..Len(copy.bytes) : Etag(copy.bytes[i]) = copy.tag

(* A client that was told its download is complete has as many bytes as the  *)
(* tag of the file says, whether the file grew or shrank while it was sent   *)
(* or between the resumptions.                                               *)
CompleteIsWhole == copy.whole => Len(copy.bytes) = copy.tag[2]

(* The access log has for every download the status it was answered with     *)
(* and the bytes that were sent, unless the client left: then no less.       *)
LogTellsTransfer ==
  [][answer # None /\ answer' = None =>
       /\ line.status = answer.status
       /\ IF answer.sent = answer.promised THEN line.bytes = answer.sent
                                           ELSE line.bytes > answer.sent]_vars
================================================================================
