----------------------------- MODULE TransferProofs -----------------------------
(***************************************************************************)
(* For every size, every set of modification times and every request: what *)
(* a resumed download is made of, and what the access log says of it.      *)
(***************************************************************************)
EXTENDS Transfer, TLAPS

\* The line of a download in progress says what its answer promises.
LineFits ==
  answer # None => line = [status |-> answer.status, bytes |-> answer.promised]

\* An answer without a body promises none.
AnswerFits == answer # None /\ answer.status \in {304, 416} => answer.promised = 0

\* The client is in the middle of a body of its own.
Copying == answer # None /\ answer.own /\ answer.status \in {200, 206}

\* The copy ends where the body goes on, and the body ends where the file does.
CopyFits ==
  /\ copy.whole => copy.tag # None /\ Len(copy.bytes) = copy.tag[2]
  /\ Copying =>
       /\ ~copy.whole /\ copy.tag \in Etags
       /\ Len(copy.bytes) = answer.start + answer.sent
       /\ copy.tag[2] = answer.start + answer.promised
       /\ ~torn => Etag(handle) = copy.tag

Inv == TypeOK /\ LineFits /\ AnswerFits /\ CopyFits /\ ResumeIsOneVersion

--------------------------------------------------------------------------------
(* What a Range header means for a file of a size. *)

Ranges == Specs \cup {None, Garbage}

\* A range that is beyond the end of the file before its last position counts.
Past(spec, total) ==
  /\ spec \notin {None, Garbage} /\ spec.unit = "bytes"
  /\ total = 0 \/ (Parses(spec.first) /\ spec.first >= total)

LEMMA SuffixMeans ==
  ASSUME NEW spec \in Specs, NEW total \in Nat, total # 0, spec.unit = "bytes",
         ~spec.several, spec.first = Empty
  PROVE  LET range == SuffixRange(spec.last, total) IN
         \/ range = Full /\ ~Valid(spec)
         \/ range = NotSatisfiable /\ Valid(spec) /\ Denoted(spec, total) = {}
         \/ \E start \in 0..total - 1 :
              /\ range = Partial(start, total - 1) /\ Valid(spec)
              /\ Denoted(spec, total) = start..total - 1
<1> USE TransferAssumption, HeadersAssumption
<1>1. ~Parses(Empty) /\ spec \notin {None, Garbage} /\ spec.first # None
  BY DEF Parses, Numbers
<1>2. CASE ~Parses(spec.last)
  <2>1. ~Valid(spec)
    BY <1>1, <1>2 DEF Valid
  <2> QED
    BY <1>2, <2>1 DEF SuffixRange
<1>3. CASE Parses(spec.last)
  <2>1. Valid(spec) /\ spec.last \in Nat
    BY <1>1, <1>3 DEF Valid, Parses
  <2>2. Denoted(spec, total) = {i \in 0..total - 1 : i >= total - spec.last}
    BY DEF Denoted
  <2>3. CASE spec.last = 0
    BY <1>3, <2>1, <2>2, <2>3 DEF SuffixRange
  <2>4. CASE spec.last # 0
    <3> DEFINE start == IF spec.last > total THEN 0 ELSE total - spec.last
    <3>1. start \in 0..total - 1
      BY <2>1, <2>4
    <3>2. Denoted(spec, total) = start..total - 1
      BY <2>1, <2>2, <2>4
    <3>3. SuffixRange(spec.last, total) = Partial(start, total - 1)
      BY <1>3, <2>4 DEF SuffixRange
    <3> HIDE DEF start
    <3> QED
      BY <2>1, <3>1, <3>2, <3>3
  <2> QED
    BY <2>3, <2>4
<1> QED
  BY <1>2, <1>3

LEMMA BoundedMeans ==
  ASSUME NEW spec \in Specs, NEW total \in Nat, total # 0, spec.unit = "bytes",
         ~spec.several, spec.first \notin {None, Empty}
  PROVE  LET range == BoundedRange(spec.first, spec.last, total) IN
         \/ range = Full /\ ~Valid(spec)
         \/ range = NotSatisfiable /\ Past(spec, total)
         \/ \E start \in 0..total - 1 : \E end \in start..total - 1 :
              /\ range = Partial(start, end) /\ Valid(spec)
              /\ spec.first = start /\ (spec.last = Empty => end = total - 1)
              /\ Denoted(spec, total) = start..end
<1> USE TransferAssumption, HeadersAssumption
<1> DEFINE first == spec.first
           last == spec.last
<1>1. ~Parses(Empty) /\ spec \notin {None, Garbage}
  BY DEF Parses, Numbers
<1>2. CASE ~Parses(first)
  BY <1>1, <1>2 DEF Valid, BoundedRange
<1>3. CASE Parses(first) /\ first >= total
  BY <1>1, <1>3 DEF Past, BoundedRange
<1>4. CASE Parses(first) /\ ~(first >= total) /\ last = Empty
  <2>1. first \in 0..total - 1
    BY <1>4 DEF Parses
  <2>2. Valid(spec)
    BY <1>1, <1>4 DEF Valid
  <2>3. Denoted(spec, total) = first..total - 1
    BY <1>4, <2>1 DEF Denoted
  <2>4. BoundedRange(first, last, total) = Partial(first, total - 1)
    BY <1>4 DEF BoundedRange
  <2>5. total - 1 \in first..total - 1
    BY <2>1
  <2> QED
    BY <2>1, <2>2, <2>3, <2>4, <2>5
<1>5. CASE Parses(first) /\ ~(first >= total) /\ last # Empty /\ Parses(last) /\ last >= first
  <2> DEFINE end == Lesser(last, total - 1)
  <2>1. first \in 0..total - 1 /\ last \in Nat /\ last >= first
    BY <1>5 DEF Parses
  <2>2. Valid(spec)
    BY <1>1, <1>5, <2>1 DEF Valid
  <2>3. end \in first..total - 1
    BY <2>1 DEF Lesser
  <2>4. Denoted(spec, total) = first..end
    <3>1. Denoted(spec, total) = {i \in 0..total - 1 : first <= i /\ i <= last}
      BY <1>5 DEF Denoted
    <3> QED
      BY <2>1, <3>1 DEF Lesser
  <2>5. BoundedRange(first, last, total) = Partial(first, end)
    BY <1>5 DEF BoundedRange
  <2> HIDE DEF end
  <2> QED
    BY <1>5, <2>1, <2>2, <2>3, <2>4, <2>5
<1>6. CASE Parses(first) /\ ~(first >= total) /\ last # Empty /\ ~(Parses(last) /\ last >= first)
  <2>1. ~Valid(spec)
    <3>1. Parses(last) => last \in Nat /\ first \in Nat
      BY <1>6 DEF Parses
    <3> QED
      BY <1>1, <1>6, <3>1 DEF Valid
  <2> QED
    BY <1>6, <2>1 DEF BoundedRange
<1> QED
  BY <1>2, <1>3, <1>4, <1>5, <1>6

\* A range that is served is the one the header denotes; the whole file is
\* served for a header that denotes none.
LEMMA RangeMeans ==
  ASSUME NEW spec \in Ranges, NEW total \in Nat
  PROVE  LET range == ParseSingleByteRange(spec, total) IN
         \/ range = Full /\ ~Valid(spec)
         \/ range = NotSatisfiable
            /\ (Past(spec, total) \/ (Valid(spec) /\ Denoted(spec, total) = {}))
         \/ \E start \in 0..total - 1 : \E end \in start..total - 1 :
              /\ range = Partial(start, end) /\ Valid(spec)
              /\ spec.first # Empty => spec.first = start
              /\ spec.last = Empty => end = total - 1
              /\ Denoted(spec, total) = start..end
<1> USE HeadersAssumption
<1>1. CASE spec \in {None, Garbage}
  BY <1>1 DEF ParseSingleByteRange, Valid
<1>2. CASE spec \in Specs
  <2>1. spec \notin {None, Garbage}
    BY <1>2
  <2>2. CASE spec.unit # "bytes"
    BY <2>1, <2>2 DEF ParseSingleByteRange, Valid
  <2>3. CASE spec.unit = "bytes" /\ total = 0
    BY <2>1, <2>3 DEF ParseSingleByteRange, Past
  <2>4. CASE spec.unit = "bytes" /\ total # 0 /\ (spec.several \/ spec.first = None)
    BY <2>1, <2>4 DEF ParseSingleByteRange, Valid
  <2>5. CASE spec.unit = "bytes" /\ total # 0 /\ ~spec.several /\ spec.first = Empty
    <3>1. ParseSingleByteRange(spec, total) = SuffixRange(spec.last, total)
      BY <2>1, <2>5 DEF ParseSingleByteRange
    <3>2. \A start \in 0..total - 1 : total - 1 \in start..total - 1
      OBVIOUS
    <3> QED
      BY <1>2, <2>5, <3>1, <3>2, SuffixMeans
  <2>6. CASE spec.unit = "bytes" /\ total # 0 /\ ~spec.several /\ spec.first \notin {None, Empty}
    <3>1. ParseSingleByteRange(spec, total) = BoundedRange(spec.first, spec.last, total)
      BY <2>1, <2>6 DEF ParseSingleByteRange
    <3> QED
      BY <1>2, <2>6, <3>1, BoundedMeans
  <2> QED
    BY <2>2, <2>3, <2>4, <2>5, <2>6
<1> QED
  BY <1>1, <1>2 DEF Ranges

\* What is answered, by the four statuses.
Served200(h, v, r) ==
  /\ r = [status |-> 200, start |-> 0, promised |-> v.size]
  /\ Valid(h.range) => /\ ~IfRangeMatches(h.ifRange, v)
                       /\ Denoted(h.range, v.size) # {}
Served206(h, v, r) ==
  \E start \in 0..v.size - 1 : \E end \in start..v.size - 1 :
    /\ r = [status |-> 206, start |-> start, promised |-> end - start + 1]
    /\ Valid(h.range) /\ IfRangeMatches(h.ifRange, v)
    /\ h.range.first # Empty => h.range.first = start
    /\ h.range.last = Empty => end = v.size - 1
    /\ Denoted(h.range, v.size) = start..end
Served416(h, v, r) ==
  /\ r = [status |-> 416, start |-> 0, promised |-> 0]
  /\ Past(h.range, v.size) \/ (Valid(h.range) /\ Denoted(h.range, v.size) = {})

LEMMA RespondMeans ==
  ASSUME NEW h \in Headers, NEW v \in Versions
  PROVE  LET r == Respond(h, v) IN
         \/ /\ r = [status |-> 304, start |-> 0, promised |-> 0]
            /\ IfNoneMatchMatches(h.ifNoneMatch, v)
         \/ /\ ~IfNoneMatchMatches(h.ifNoneMatch, v)
            /\ Served200(h, v, r) \/ Served206(h, v, r) \/ Served416(h, v, r)
<1> DEFINE range == ParseSingleByteRange(h.range, v.size)
           same == IfRangeMatches(h.ifRange, v)
<1>1. h.range \in Ranges /\ v.size \in Nat
  BY TransferAssumption DEF Headers, Ranges, Versions
<1>2. CASE IfNoneMatchMatches(h.ifNoneMatch, v)
  BY <1>2 DEF Respond
<1>3. CASE ~IfNoneMatchMatches(h.ifNoneMatch, v)
  <2>1. CASE range = Full /\ ~Valid(h.range)
    <3>1. Decision(h, v) = Full
      BY <2>1 DEF Decision, Full
    <3> QED
      BY <1>3, <2>1, <3>1 DEF Respond, Served200, Full
  <2>2. CASE range = NotSatisfiable
             /\ (Past(h.range, v.size) \/ (Valid(h.range) /\ Denoted(h.range, v.size) = {}))
    <3>1. Decision(h, v) = NotSatisfiable
      BY <2>2 DEF Decision, NotSatisfiable
    <3> QED
      BY <1>3, <2>2, <3>1 DEF Respond, Served416, NotSatisfiable
  <2>3. ASSUME NEW start \in 0..v.size - 1, NEW end \in start..v.size - 1,
               range = Partial(start, end), Valid(h.range),
               h.range.first # Empty => h.range.first = start,
               h.range.last = Empty => end = v.size - 1,
               Denoted(h.range, v.size) = start..end
        PROVE  Served200(h, v, Respond(h, v)) \/ Served206(h, v, Respond(h, v))
    <3>1. CASE same
      <4>1. Decision(h, v) = Partial(start, end)
        BY <2>3, <3>1 DEF Decision
      <4>2. Respond(h, v) = [status |-> 206, start |-> start, promised |-> end - start + 1]
        BY <1>3, <4>1 DEF Respond, Partial
      <4> QED
        BY <2>3, <3>1, <4>2 DEF Served206
    <3>2. CASE ~same
      <4>1. Decision(h, v) = Full
        BY <2>3, <3>2 DEF Decision, Partial
      <4>2. Denoted(h.range, v.size) # {}
        BY <2>3
      <4>3. Respond(h, v) = [status |-> 200, start |-> 0, promised |-> v.size]
        BY <1>3, <4>1 DEF Respond, Full
      <4> QED
        BY <3>2, <4>2, <4>3 DEF Served200
    <3> QED
      BY <3>1, <3>2
  <2>4. CASE \E start \in 0..v.size - 1 : \E end \in start..v.size - 1 :
               /\ range = Partial(start, end) /\ Valid(h.range)
               /\ h.range.first # Empty => h.range.first = start
               /\ h.range.last = Empty => end = v.size - 1
               /\ Denoted(h.range, v.size) = start..end
    <3>1. Served200(h, v, Respond(h, v)) \/ Served206(h, v, Respond(h, v))
      BY ONLY <2>3, <2>4, ZenonT(60)
    <3> QED
      BY ONLY <1>3, <3>1
  <2>5. \/ range = Full /\ ~Valid(h.range)
        \/ range = NotSatisfiable
           /\ (Past(h.range, v.size) \/ (Valid(h.range) /\ Denoted(h.range, v.size) = {}))
        \/ \E start \in 0..v.size - 1 : \E end \in start..v.size - 1 :
             /\ range = Partial(start, end) /\ Valid(h.range)
             /\ h.range.first # Empty => h.range.first = start
             /\ h.range.last = Empty => end = v.size - 1
             /\ Denoted(h.range, v.size) = start..end
    BY <1>1, RangeMeans
  <2> QED
    BY ONLY <2>1, <2>2, <2>4, <2>5
<1> QED
  BY <1>2, <1>3

--------------------------------------------------------------------------------
(* The invariant. *)

\* What the client asks for is a request, as those of the others are.
LEMMA RequestsAreHeaders ==
  ASSUME TypeOK
  PROVE  /\ Fetch \in Headers
         /\ copy.tag # None => Resume \in Headers /\ Revalidate \in Headers
<1> USE TransferAssumption
<1>1. Fetch \in Headers
  BY DEF Fetch, Get, Headers
<1>2. ASSUME copy.tag # None
      PROVE  Resume \in Headers
  <2>1. copy.tag \in Etags /\ Len(copy.bytes) \in Positions
    BY <1>2 DEF TypeOK, Positions, Numbers
  <2>2. [unit |-> "bytes", several |-> FALSE, first |-> Len(copy.bytes), last |-> Empty]
          \in Specs
    BY <2>1 DEF Specs, Positions
  <2> QED
    BY <2>1, <2>2 DEF Resume, Get, Headers
<1>3. ASSUME copy.tag # None
      PROVE  Revalidate \in Headers
  BY <1>3 DEF TypeOK, Revalidate, Get, Headers
<1> QED
  BY <1>1, <1>2, <1>3

\* The four kinds of download.
LEMMA Downloads ==
  ASSUME Inv, Fetches \/ Resumes \/ Revalidates \/ OthersDownload
  PROVE  \E h \in Headers, own \in BOOLEAN :
           /\ Download(h, own)
           /\ own => /\ ~h.head
                     /\ \/ h.range = None
                        \/ h = Resume /\ ~copy.whole /\ copy.tag \in Etags
<1>1. TypeOK /\ (copy.whole => copy.tag # None) /\ (copy.tag # None => copy.tag \in Etags)
  BY DEF Inv, CopyFits, TypeOK
<1>2. CASE Fetches
  BY <1>1, <1>2, RequestsAreHeaders DEF Fetches, Fetch, Get
<1>3. CASE Resumes
  BY <1>1, <1>3, RequestsAreHeaders DEF Resumes, Resume, Get
<1>4. CASE Revalidates
  BY <1>1, <1>4, RequestsAreHeaders DEF Revalidates, Revalidate, Get
<1>5. CASE OthersDownload
  BY <1>5, HeadersAssumption DEF OthersDownload
<1> QED
  BY <1>2, <1>3, <1>4, <1>5

\* A response has the types of an answer.
LEMMA ResponseTyped ==
  ASSUME NEW h \in Headers, NEW v \in Versions
  PROVE  LET r == Respond(h, v) IN
         /\ r.status \in {200, 206, 304, 416}
         /\ r.start \in 0..MaxSize /\ r.promised \in 0..MaxSize
         /\ r.start + r.promised <= MaxSize
         /\ r.status \in {304, 416} => r.promised = 0
<1> DEFINE r == Respond(h, v)
<1>0. v.size \in 0..MaxSize /\ MaxSize \in Nat
  BY TransferAssumption DEF Versions
<1>1. CASE r = [status |-> 304, start |-> 0, promised |-> 0]
  BY <1>0, <1>1
<1>2. CASE Served200(h, v, r)
  BY <1>0, <1>2 DEF Served200
<1>3. CASE Served206(h, v, r)
  BY <1>0, <1>3 DEF Served206
<1>4. CASE Served416(h, v, r)
  BY <1>0, <1>4 DEF Served416
<1> QED
  BY <1>1, <1>2, <1>3, <1>4, RespondMeans

\* A body that resumes a copy goes on where the copy ends, in the same file as
\* far as the tag tells, and up to its end.
LEMMA ResumeGoesOn ==
  ASSUME TypeOK, copy.tag \in Etags, Served206(Resume, disk, Respond(Resume, disk))
  PROVE  LET r == Respond(Resume, disk) IN
         /\ r.start = Len(copy.bytes)
         /\ r.start + r.promised = disk.size
         /\ copy.tag = Etag(disk)
<1> USE TransferAssumption, HeadersAssumption
<1> DEFINE r == Respond(Resume, disk)
<1>1. /\ Resume.range.first = Len(copy.bytes) /\ Resume.range.last = Empty
      /\ Resume.ifRange = [tag |-> copy.tag]
  BY DEF Resume, Get
<1>2. Len(copy.bytes) \in Numbers /\ Len(copy.bytes) # Empty
  BY DEF TypeOK, Numbers
<1>3. PICK start \in 0..disk.size - 1 : \E end \in start..disk.size - 1 :
        /\ r = [status |-> 206, start |-> start, promised |-> end - start + 1]
        /\ IfRangeMatches(Resume.ifRange, disk)
        /\ Len(copy.bytes) = start /\ end = disk.size - 1
  BY <1>1, <1>2 DEF Served206
<1>4. disk.size \in Nat
  BY DEF TypeOK, Versions
<1>5. copy.tag = Etag(disk)
  <2>1. [tag |-> copy.tag] # None
    BY DEF TypeOK
  <2>2. [tag |-> copy.tag] # [second |-> disk.mtime \div Second]
    OBVIOUS
  <2>3. [tag |-> copy.tag] = [tag |-> Etag(disk)]
    BY <1>1, <1>3, <2>1, <2>2 DEF IfRangeMatches
  <2> QED
    BY <2>3
<1> QED
  BY <1>3, <1>4, <1>5

LEMMA DownloadKeeps ==
  ASSUME Inv, NEW h \in Headers, NEW own \in BOOLEAN, Download(h, own),
         own => /\ ~h.head
                /\ \/ h.range = None
                   \/ h = Resume /\ ~copy.whole /\ copy.tag \in Etags
  PROVE  Inv'
<1> DEFINE r == Respond(h, disk)
<1>0. TypeOK /\ disk \in Versions
  BY DEF Inv, TypeOK
<1>1. /\ r.status \in {200, 206, 304, 416}
      /\ r.start \in 0..MaxSize /\ r.promised \in 0..MaxSize
      /\ r.start + r.promised <= MaxSize
      /\ r.status \in {304, 416} => r.promised = 0
  BY <1>0, ResponseTyped
<1>2. /\ answer' = [status |-> r.status, start |-> r.start, own |-> own,
                    promised |-> Bytes(h, r), sent |-> 0]
      /\ line' = LogLine(h, r) /\ handle' = disk /\ disk' = disk
      /\ linked' = TRUE /\ request' = h
      /\ copy' = IF own /\ r.status = 200 THEN [NoCopy EXCEPT !.tag = Etag(disk)] ELSE copy
      /\ torn' = (torn /\ copy' = copy)
  BY DEF Download
<1> HIDE DEF r
<1>3. /\ Bytes(h, r) \in 0..MaxSize /\ r.start + Bytes(h, r) <= MaxSize
      /\ own => Bytes(h, r) = r.promised
  BY <1>1, TransferAssumption DEF Bytes
<1>4. /\ answer' \in [status : {200, 206, 304, 416}, own : BOOLEAN, start : 0..MaxSize,
                       promised : 0..MaxSize, sent : 0..MaxSize]
      /\ answer'.sent <= answer'.promised /\ answer'.start + answer'.promised <= MaxSize
  BY <1>1, <1>2, <1>3, TransferAssumption
<1>5. Etag(disk) \in Etags /\ Etag(disk)[2] = disk.size /\ disk.size \in Nat
  BY <1>0, TransferAssumption DEF Etags, Etag, Versions
<1>6. CASE own /\ r.status = 200
  <2>1. copy' = [tag |-> Etag(disk), bytes |-> <<>>, whole |-> FALSE]
    BY <1>2, <1>6 DEF NoCopy
  <2>2. r.start = 0 /\ r.promised = disk.size
    BY <1>0, <1>6, RespondMeans DEF r, Served200, Served206, Served416
  <2>3. /\ copy' \in [tag : Etags \cup {None}, bytes : Seq(Versions), whole : BOOLEAN]
        /\ Len(copy'.bytes) = 0
    BY <1>5, <2>1
  <2>4. TypeOK'
    BY <1>0, <1>2, <1>4, <2>3, TransferAssumption DEF TypeOK
  <2>5. LineFits' /\ AnswerFits'
    BY <1>1, <1>2 DEF LineFits, AnswerFits, LogLine, Bytes
  <2>6. CopyFits' /\ ResumeIsOneVersion'
    BY <1>2, <1>3, <1>5, <1>6, <2>1, <2>2 DEF CopyFits, Copying, ResumeIsOneVersion
  <2> QED
    BY <2>4, <2>5, <2>6 DEF Inv
<1>7. CASE ~(own /\ r.status = 200)
  <2>1. copy' = copy /\ torn' = torn
    BY <1>2, <1>7 DEF Inv, TypeOK
  <2>2. TypeOK'
    BY <1>0, <1>2, <1>4, <2>1 DEF TypeOK
  <2>3. LineFits' /\ AnswerFits'
    BY <1>1, <1>2 DEF LineFits, AnswerFits, LogLine, Bytes
  <2>4. ASSUME own, r.status = 206
        PROVE  /\ ~copy.whole /\ copy.tag \in Etags
               /\ Len(copy.bytes) = r.start /\ copy.tag[2] = r.start + r.promised
               /\ Etag(disk) = copy.tag
    <3>1. Served206(h, disk, r)
      BY <1>0, <2>4, RespondMeans DEF r, Served200, Served416
    <3>2. Valid(h.range)
      BY <3>1 DEF Served206
    <3>3. h = Resume /\ ~copy.whole /\ copy.tag \in Etags
      BY <2>4, <3>2 DEF Valid
    <3> QED
      BY <1>0, <1>5, <3>1, <3>3, ResumeGoesOn DEF r
  <2>5. Copying' => own /\ r.status = 206
    BY <1>2, <1>7 DEF Copying
  <2>6. CopyFits'
    <3>1. copy'.whole => copy'.tag # None /\ Len(copy'.bytes) = copy'.tag[2]
      BY <2>1 DEF Inv, CopyFits
    <3>2. /\ answer'.start = r.start /\ answer'.sent = 0 /\ (own => answer'.promised = r.promised)
      BY <1>2, <1>3
    <3>3. Copying' => /\ ~copy'.whole /\ copy'.tag \in Etags
                      /\ Len(copy'.bytes) = answer'.start + answer'.sent
                      /\ copy'.tag[2] = answer'.start + answer'.promised
                      /\ Etag(handle') = copy'.tag
      BY <1>1, <1>2, <2>1, <2>4, <2>5, <3>2
    <3> QED
      BY <3>1, <3>3 DEF CopyFits
  <2>7. ResumeIsOneVersion'
    BY <2>1 DEF Inv, ResumeIsOneVersion
  <2> QED
    BY <2>2, <2>3, <2>6, <2>7 DEF Inv
<1> QED
  BY <1>6, <1>7

LEMMA StreamKeeps ==
  ASSUME Inv, Stream
  PROVE  Inv'
<1>0. TypeOK /\ handle \in Versions /\ MaxSize \in Nat
  BY TransferAssumption DEF Inv, TypeOK
<1>1. /\ answer # None /\ answer.sent < answer.promised
      /\ answer' = [answer EXCEPT !.sent = @ + 1]
      /\ UNCHANGED <<disk, handle, linked, request, line, torn>>
  BY DEF Stream
<1>2. answer \in [status : {200, 206, 304, 416}, own : BOOLEAN, start : 0..MaxSize,
                  promised : 0..MaxSize, sent : 0..MaxSize]
  BY <1>0, <1>1 DEF TypeOK
<1>3. /\ answer'.status = answer.status /\ answer'.own = answer.own
      /\ answer'.start = answer.start /\ answer'.promised = answer.promised
      /\ answer'.sent = answer.sent + 1
      /\ answer' \in [status : {200, 206, 304, 416}, own : BOOLEAN, start : 0..MaxSize,
                      promised : 0..MaxSize, sent : 0..MaxSize]
  BY <1>0, <1>1, <1>2
<1>4. LineFits' /\ AnswerFits'
  BY <1>1, <1>3 DEF Inv, LineFits, AnswerFits
<1>5. CASE ~answer.own
  <2>1. copy' = copy
    BY <1>5 DEF Stream
  <2>2. TypeOK'
    BY <1>0, <1>1, <1>2, <1>3, <2>1 DEF TypeOK
  <2>3. CopyFits' /\ ResumeIsOneVersion'
    BY <1>1, <1>3, <1>5, <2>1 DEF Inv, CopyFits, Copying, ResumeIsOneVersion
  <2> QED
    BY <1>4, <2>2, <2>3 DEF Inv
<1>6. CASE answer.own
  <2>1. copy' = [copy EXCEPT !.bytes = Append(@, handle)]
    BY <1>6 DEF Stream
  <2>2. Copying
    <3>1. answer.status \notin {304, 416}
      BY <1>1, <1>2 DEF Inv, AnswerFits
    <3> QED
      BY <1>1, <1>2, <1>6, <3>1 DEF Copying
  <2>3. /\ copy'.tag = copy.tag /\ copy'.whole = copy.whole
        /\ copy'.bytes = Append(copy.bytes, handle)
        /\ copy'.bytes \in Seq(Versions) /\ Len(copy'.bytes) = Len(copy.bytes) + 1
        /\ copy' \in [tag : Etags \cup {None}, bytes : Seq(Versions), whole : BOOLEAN]
    <3>1. copy \in [tag : Etags \cup {None}, bytes : Seq(Versions), whole : BOOLEAN]
      BY <1>0 DEF TypeOK
    <3>2. copy' = [tag |-> copy.tag, bytes |-> Append(copy.bytes, handle),
                   whole |-> copy.whole]
      BY <2>1, <3>1
    <3>3. /\ Append(copy.bytes, handle) \in Seq(Versions)
          /\ Len(Append(copy.bytes, handle)) = Len(copy.bytes) + 1
      BY <1>0, <3>1
    <3> QED
      BY <3>1, <3>2, <3>3
  <2>4. /\ ~copy.whole /\ copy.tag \in Etags
        /\ Len(copy.bytes) = answer.start + answer.sent
        /\ copy.tag[2] = answer.start + answer.promised
        /\ ~torn => Etag(handle) = copy.tag
    BY <2>2 DEF Inv, CopyFits
  <2>5. /\ answer.sent + 1 <= answer.promised
        /\ answer.start + answer.promised <= MaxSize
        /\ answer.start + answer.sent + 1 <= MaxSize
    BY <1>0, <1>1, <1>2 DEF TypeOK
  <2>6. /\ Len(copy'.bytes) = answer'.start + answer'.sent
        /\ Len(copy'.bytes) <= MaxSize
        /\ answer'.sent <= answer'.promised
        /\ answer'.start + answer'.promised <= MaxSize
    BY <1>2, <1>3, <2>3, <2>4, <2>5
  <2>7. TypeOK'
    BY <1>0, <1>1, <1>3, <2>3, <2>6 DEF TypeOK
  <2>8. CopyFits'
    <3>1. copy'.tag[2] = answer'.start + answer'.promised
      BY <1>3, <2>3, <2>4
    <3> QED
      BY <1>1, <2>3, <2>4, <2>6, <3>1 DEF CopyFits, Copying
  <2>9. ResumeIsOneVersion'
    <3> SUFFICES ASSUME ~torn, NEW i \in 1..Len(copy'.bytes)
                 PROVE  Etag(copy'.bytes[i]) = copy'.tag
      BY <1>1 DEF ResumeIsOneVersion
    <3>1. copy.bytes \in Seq(Versions)
      BY <1>0 DEF TypeOK
    <3>2. CASE i = Len(copy.bytes) + 1
      BY <2>3, <2>4, <3>1, <3>2
    <3>3. CASE i \in 1..Len(copy.bytes)
      BY <2>3, <3>1, <3>3 DEF Inv, ResumeIsOneVersion
    <3> QED
      BY <2>3, <3>1, <3>2, <3>3
  <2> QED
    BY <1>4, <2>7, <2>8, <2>9 DEF Inv
<1> QED
  BY <1>2, <1>5, <1>6

LEMMA OverKeeps ==
  ASSUME Inv, Finish \/ Break
  PROVE  Inv'
<1>1. TypeOK /\ answer # None
  BY DEF Inv, Finish, Break
<1>2. /\ answer' = None /\ request' = None /\ handle' = disk /\ linked' = FALSE
      /\ UNCHANGED <<disk, torn>>
  BY DEF Finish, Break, Over
<1>3. copy' = copy \/ (/\ Finish /\ Copying
                      /\ copy' = [copy EXCEPT !.whole = TRUE])
  BY <1>1 DEF Finish, Break, Copying
<1>4. LineFits' /\ AnswerFits' /\ ~Copying'
  BY <1>2 DEF LineFits, AnswerFits, Copying
<1>5. {disk', handle'} \subseteq Versions /\ linked' \in BOOLEAN /\ torn' \in BOOLEAN
  <2>1. {disk', handle'} \subseteq Versions
    BY <1>1, <1>2 DEF TypeOK
  <2>2. linked' \in BOOLEAN
    BY <1>2
  <2>3. torn' \in BOOLEAN
    BY <1>1, <1>2, Zenon DEF TypeOK
  <2> QED
    BY <2>1, <2>2, <2>3
<1>6. CASE copy' = copy
  <2>1. TypeOK'
    BY <1>1, <1>2, <1>6, <1>5 DEF TypeOK
  <2>2. CopyFits' /\ ResumeIsOneVersion'
    BY <1>2, <1>4, <1>6 DEF Inv, CopyFits, ResumeIsOneVersion
  <2> QED
    BY <1>4, <2>1, <2>2 DEF Inv
<1>7. CASE Finish /\ Copying /\ copy' = [copy EXCEPT !.whole = TRUE]
  <2>1. copy \in [tag : Etags \cup {None}, bytes : Seq(Versions), whole : BOOLEAN]
    BY <1>1 DEF TypeOK
  <2>2. /\ copy' = [tag |-> copy.tag, bytes |-> copy.bytes, whole |-> TRUE]
        /\ copy' \in [tag : Etags \cup {None}, bytes : Seq(Versions), whole : BOOLEAN]
    BY <1>7, <2>1
  <2>3. copy.tag # None /\ Len(copy.bytes) = copy.tag[2]
    BY <1>7, HeadersAssumption DEF Inv, CopyFits, Finish
  <2>4. TypeOK'
    BY <1>1, <1>2, <1>5, <2>1, <2>2 DEF TypeOK
  <2>5. CopyFits' /\ ResumeIsOneVersion'
    BY <1>2, <1>4, <2>2, <2>3 DEF Inv, CopyFits, ResumeIsOneVersion
  <2> QED
    BY <1>4, <2>4, <2>5 DEF Inv
<1> QED
  BY <1>3, <1>6, <1>7

\* A file renamed over the path leaves the handle alone; one that is written in
\* place under a download of the client is remembered as torn.
LEMMA ChangesKeep ==
  ASSUME Inv, Replace \/ Overwrite
  PROVE  Inv'
<1>1. TypeOK
  BY DEF Inv
<1>2. /\ disk' \in Versions /\ handle' \in Versions /\ linked' \in BOOLEAN
      /\ torn' \in BOOLEAN /\ (torn => torn')
      /\ UNCHANGED <<request, answer, line, copy>>
  <2>1. disk' \in Versions /\ UNCHANGED <<request, answer, line, copy>>
    BY DEF Replace, Overwrite, NewVersion
  <2>2. handle' \in {disk', handle}
    BY DEF Replace, Overwrite
  <2>3. linked' \in BOOLEAN /\ torn' \in BOOLEAN /\ (torn => torn')
    BY <1>1, Zenon DEF Replace, Overwrite, TypeOK
  <2> QED
    BY <1>1, <2>1, <2>2, <2>3 DEF TypeOK
<1>3. TypeOK'
  BY <1>1, <1>2 DEF TypeOK
<1>4. LineFits' /\ AnswerFits'
  BY <1>2 DEF Inv, LineFits, AnswerFits
<1>5. Copying /\ ~torn' => handle' = handle
  BY <1>1 DEF Replace, Overwrite, Copying
<1>6. CopyFits' /\ ResumeIsOneVersion'
  BY <1>2, <1>5 DEF Inv, CopyFits, Copying, ResumeIsOneVersion, Etag
<1> QED
  BY <1>3, <1>4, <1>6 DEF Inv

LEMMA InvKept ==
  ASSUME Inv, [Next]_vars
  PROVE  Inv'
<1>1. CASE Fetches \/ Resumes \/ Revalidates \/ OthersDownload
  BY <1>1, Downloads, DownloadKeeps
<1>2. CASE Stream
  BY <1>2, StreamKeeps
<1>3. CASE Finish \/ Break
  BY <1>3, OverKeeps
<1>4. CASE Replace \/ Overwrite
  BY <1>4, ChangesKeep
<1>5. CASE UNCHANGED vars
  BY <1>5 DEF vars, Inv, TypeOK, LineFits, AnswerFits, CopyFits, Copying, ResumeIsOneVersion,
              Etag
<1> QED
  BY <1>1, <1>2, <1>3, <1>4, <1>5 DEF Next

LEMMA InvHolds == Spec => []Inv
<1>1. Init => Inv
  <2> SUFFICES ASSUME Init
               PROVE  Inv
    OBVIOUS
  <2>1. copy = [tag |-> None, bytes |-> <<>>, whole |-> FALSE] /\ answer = None
    BY DEF Init, NoCopy
  <2>2. copy \in [tag : Etags \cup {None}, bytes : Seq(Versions), whole : BOOLEAN]
        /\ Len(copy.bytes) = 0
    BY <2>1
  <2>3. TypeOK
    <3>1. {disk, handle} \subseteq Versions /\ linked \in BOOLEAN /\ torn \in BOOLEAN
      BY Zenon DEF Init
    <3>2. request = None
      BY DEF Init
    <3> QED
      BY <2>1, <2>2, <3>1, <3>2, TransferAssumption DEF TypeOK
  <2>4. LineFits /\ AnswerFits /\ CopyFits /\ ResumeIsOneVersion
    BY <2>1, <2>2 DEF LineFits, AnswerFits, CopyFits, Copying, ResumeIsOneVersion
  <2> QED
    BY <2>3, <2>4 DEF Inv
<1> QED
  BY <1>1, InvKept, PTL DEF Spec

--------------------------------------------------------------------------------
(* The theorems. *)

(* The types of the file, the handle, the answer and the client's copy.       *)
THEOREM TypeCorrect == Spec => []TypeOK
BY InvHolds, PTL DEF Inv

(* ResumeIsOneVersion: the ETag and If-Range of lib.rs keep a resumed copy    *)
(* to one version of the file.                                                *)
THEOREM ResumedCopiesAreOneVersion == Spec => []ResumeIsOneVersion
BY InvHolds, PTL DEF Inv

(* CompleteIsWhole: a body that keeps the Content-Length of lib.rs is the     *)
(* whole file, also when it was put together from several answers.            *)
THEOREM CompleteCopiesAreWhole == Spec => []CompleteIsWhole
<1>1. Inv => CompleteIsWhole
  BY DEF Inv, CopyFits, CompleteIsWhole
<1> QED
  BY <1>1, InvHolds, PTL

(* LogTellsTransfer: the line that lib.rs writes when it answers is true of   *)
(* what was sent when the body is over.                                       *)
THEOREM LogIsTrue == Spec => LogTellsTransfer
<1>1. ASSUME Inv, [Next]_vars, answer # None, answer' = None
      PROVE  /\ line.status = answer.status
             /\ IF answer.sent = answer.promised THEN line.bytes = answer.sent
                                                 ELSE line.bytes > answer.sent
  <2>1. answer.sent <= answer.promised /\ answer.sent \in Nat /\ answer.promised \in Nat
    BY <1>1 DEF Inv, TypeOK
  <2>2. line.status = answer.status /\ line.bytes = answer.promised
    BY <1>1 DEF Inv, LineFits
  <2> QED
    BY <2>1, <2>2
<1>2. Inv /\ [Next]_vars =>
        [answer # None /\ answer' = None =>
           /\ line.status = answer.status
           /\ IF answer.sent = answer.promised THEN line.bytes = answer.sent
                                               ELSE line.bytes > answer.sent]_vars
  BY <1>1
<1> QED
  BY <1>2, InvHolds, PTL DEF Spec, LogTellsTransfer

\* What ServesWhatIsAsked says of the answer `a` to the request `h` for `v`.
Asked(a, h, v) ==
  LET range == h.range
      bytes == a.start..a.start + a.promised - 1
      held  == IfNoneMatchMatches(h.ifNoneMatch, v)
      same  == NamesVersion(h.ifRange, v) IN
  /\ a.status = 304 <=> held
  /\ a.status = 206 =>
       /\ Valid(range) /\ bytes = Denoted(range, v.size)
       /\ same \/ h.ifRange = Unreadable
  /\ a.status = 416 => Past(range, v.size) \/ (Valid(range) /\ Denoted(range, v.size) = {})
  /\ a.status = 200 =>
       /\ bytes = 0..v.size - 1
       /\ Valid(range) => ~same /\ Denoted(range, v.size) # {}

LEMMA ResponseIsAsked ==
  ASSUME NEW h \in Headers, NEW v \in Versions
  PROVE  Asked(Respond(h, v), h, v)
<1> DEFINE r == Respond(h, v)
<1> HIDE DEF r
<1>0. /\ v.size \in Nat
      /\ IfRangeMatches(h.ifRange, v) <=>
           h.ifRange = Unreadable \/ NamesVersion(h.ifRange, v)
  BY TransferAssumption DEF Versions, IfRangeMatches, NamesVersion
<1>1. CASE r = [status |-> 304, start |-> 0, promised |-> 0]
           /\ IfNoneMatchMatches(h.ifNoneMatch, v)
  BY <1>1 DEF Asked, r
<1>2. CASE Served200(h, v, r) /\ ~IfNoneMatchMatches(h.ifNoneMatch, v)
  <2>1. r = [status |-> 200, start |-> 0, promised |-> v.size]
    BY <1>2 DEF Served200
  <2>2. r.start..r.start + r.promised - 1 = 0..v.size - 1
    BY <1>0, <2>1
  <2> QED
    BY <1>0, <1>2, <2>1, <2>2 DEF Asked, Served200, r
<1>3. CASE Served206(h, v, r) /\ ~IfNoneMatchMatches(h.ifNoneMatch, v)
  <2>1. PICK start \in 0..v.size - 1 : \E end \in start..v.size - 1 :
          /\ r = [status |-> 206, start |-> start, promised |-> end - start + 1]
          /\ Valid(h.range) /\ IfRangeMatches(h.ifRange, v)
          /\ Denoted(h.range, v.size) = start..end
    BY <1>3 DEF Served206
  <2>2. r.status = 206 /\ r.start..r.start + r.promised - 1 = Denoted(h.range, v.size)
    BY <1>0, <2>1
  <2> QED
    BY <1>0, <1>3, <2>1, <2>2 DEF Asked, r
<1>4. CASE Served416(h, v, r) /\ ~IfNoneMatchMatches(h.ifNoneMatch, v)
  BY <1>4 DEF Asked, Served416, r
<1> QED
  BY <1>1, <1>2, <1>3, <1>4, RespondMeans DEF r

(* ServesWhatIsAsked: what lib.rs answers to any Range, If-Range and          *)
(* If-None-Match carries the bytes the range denotes and no others, for every *)
(* size of the file and every width of the numbers.                           *)
THEOREM AnswersAreAsked == Spec => ServesWhatIsAsked
<1>1. ASSUME Inv, [Next]_vars, answer = None, answer' # None, ~request'.head
      PROVE  Asked(answer', request', disk)
  <2>1. Fetches \/ Resumes \/ Revalidates \/ OthersDownload
    BY <1>1 DEF Next, Stream, Finish, Break, Replace, Overwrite, vars
  <2>2. PICK h \in Headers, own \in BOOLEAN : Download(h, own)
    BY <1>1, <2>1, Downloads
  <2> DEFINE r == Respond(h, disk)
  <2>3. disk \in Versions
    BY <1>1 DEF Inv, TypeOK
  <2>4. /\ request' = h
        /\ answer' = [status |-> r.status, start |-> r.start, own |-> own,
                      promised |-> r.promised, sent |-> 0]
    BY <1>1, <2>2 DEF Download, Bytes
  <2>5. Asked(r, h, disk)
    BY <2>3, ResponseIsAsked
  <2> HIDE DEF r
  <2> QED
    BY <2>4, <2>5 DEF Asked
<1>2. Inv /\ [Next]_vars =>
        [answer = None /\ answer' # None /\ ~request'.head => Asked(answer', request', disk)]_vars
  BY <1>1
<1> QED
  BY <1>2, InvHolds, PTL DEF Spec, ServesWhatIsAsked, Asked, Past
================================================================================
