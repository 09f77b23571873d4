# Yet Another File Manager: specifications

TLA+ modules of Yet Another File Manager (YAFM), its backend and the page in the
browser, the TLC configurations that check them and the TLAPS proofs about them.
Everything is translated from the source (`src/backend/src/*.rs`,
`src/frontend/src/App.vue` and `lib/api/client.ts`); the map from definitions to
lines is in `PROJECT.json`.

YAFM serves one directory of a host, the *shared root*, to users who log in
through an OIDC provider. Which paths a user sees follows from allow and deny
rules per group; members of some groups may delete files. The server is one
process of async tasks; the share is an ordinary directory that other programs
change at any time.

## The system

| Part | State it keeps | Operations | Talks to |
| --- | --- | --- | --- |
| access rules (`access.rs`) | the validated configuration, fixed at startup | `evaluate`, `is_path_visible`, `can_delete`, pattern matching | called by the gate, the listing, the delete handler, the access check |
| auth gate, cookies (`auth.rs`) | the signing key | verify the session cookie of each request; mint session and login cookies | every request; the browser holds the cookies |
| OIDC provider cache and flows (`auth.rs`) | `DISCOVERED_PROVIDER`, a process-wide cache under an `RwLock` | login, callback, logout: discover, exchange the code, validate the ID token, refresh once | the identity provider, over HTTP with timeouts |
| access gate (`lib.rs`) | none | evaluates the requested path, hands the groups to the handler | access rules |
| file service (`lib.rs`) | none of its own; the share is its state | directory, download, delete | the file system, one awaited call at a time |
| access check (`access.rs`, `main.rs`) | a walk queue and rule usage | `--check-access` | access rules, the file system |
| browser application (`App.vue`) | path, entries, dialog, history | navigate, confirm a delete, reload | the API |
| configuration, access log, assets, contract and build scripts | none at run time | | |

What is hard, part by part, and what makes each part correct:

* **Access rules.** Two backtracking matchers; every deeper path is evaluated from
  scratch, so that a denial is inherited and a grant recursive is a theorem about
  the matching, not something stored. A request has two forms, the literal one and
  the percent-decoded one, and both have to be visible.
* **File service.** Every check is made on a path and every later call looks the
  path up again: replaced files, links, removed directories, failing calls,
  clients that leave while a removal is queued. What is served has to be what was
  checked, nothing outside the root may be reached, each removal has one answer,
  a listing is complete, and listing and delete agree.
* **OIDC provider cache.** Read and written under a lock that is released before
  each await: discoveries, exchanges, invalidations and key rotations interleave.
  The refresh on an unknown key has to help, once, without a second exchange.
* **Sessions.** Nothing is stored on the server: who is logged in, until when, and
  which login a callback belongs to is what signed cookies say, and a browser has one
  of each for all its tabs. Logins overlap, answers get lost, codes are reloaded, keys
  change with a restart. Requests may only be served as someone the provider vouched
  for, once per login, for 12 hours; a good callback should not be refused without need.
* **Transfers.** The headers are decided from one `fstat`, the bytes come later and over
  several requests, from a file that others replace or rewrite. A client must end with
  what it asked for, of one version, or know that it has not.
* **Startup and access check.** The order of the initializers decides whether anything
  can be served without authentication; the check has to be complete about what it skips.
* **Browser.** One mutable page, calls that are answered in any order, a dialog and a
  history that change in between.

`PROJECT.json` lists every component with its status and every hazard at its line.

## Modules

| Module | Models | EXTENDS |
| --- | --- | --- |
| `AccessRules` | the evaluation of `access.rs` as operators | community `SequencesExt` |
| `AccessWalk` | a user walking the tree and joining groups under one configuration | `AccessRules` |
| `GlobMatch` | `glob_match_chars` and `match_from` with the recursion of the code, and their references | `AccessRules` |
| `SharedFiles` | abstract: requests that take effect at one instant, without paths and lookups | |
| `FileService` | access gate, `directory`, `download`, `delete_file` over a changing share; implements `SharedFiles` | `AccessRules` |
| `OidcProvider` | provider cache, login, callback, logout | |
| `AuthGate` | which requests the auth gate serves | |
| `Session` | abstract: who is logged in and until when, without cookies | |
| `LoginFlow` | login, callback, logout, both cookies and the gate, as one browser with several tabs meets them; implements `Session` | `AuthGate` |
| `Transfer` | ranges and validators of a download, its stream, its log line, a resuming client | |
| `CheckWalk` | `run_access_check` over a changing share | `AccessRules` |
| `Startup` | `run`: arguments, configuration, initializers, then the check or the server | `CheckWalk`, `AuthGate` |
| `BrowserApp` | `App.vue` and `client.ts` | |
| `MC*` | the instances TLC checks | the module of that name (`MCAccess`: `AccessWalk` and `GlobMatch`) |
| `AccessRulesProofs` | lemmas on the evaluation of rules, and on well-founded induction over data | `AccessRules`, `TLAPS` |
| `AccessProofs` | theorems on the matchers and on a user's walk | `AccessWalk`, `GlobMatch`, `AccessRulesProofs` |
| `FileServiceProofs`, `StartupProofs` | theorems on the file service; on start, configuration and access check | the module of that name, `AccessRulesProofs` |
| `OidcProviderProofs`, `LoginFlowProofs`, `TransferProofs`, `BrowserAppProofs` | theorems and proofs | the module of that name without `Proofs`, `TLAPS` |

### Conventions

A definition whose comment begins "Faulty variant" is not used by any module: it
is the operator below it with a plausible bug, and the property it names is
violated when it takes that operator's place (`mutants` in `PROJECT.json`).
Names of actions and operators are those of the code where TLA+ allows it.

### AccessRules

A path is the sequence of its names. Text is abstract: `SegmentMatch` says which
glob of one segment matches which name, and `Decoded` what percent-decoding one
name yields: another name, a name that is not text (in `OsNames` but not in
`Names`), or one of the two results that the code refuses (`Slash`, `DotDot`).
`MatchFrom` is the relation that `match_from` computes, without its recursion:
how many names are consumed after each segment of the pattern. That the two
agree is checked in `GlobMatch` and proved in `AccessProofs`. `glob_match_chars` is
modelled as it is, over the bytes of a segment and a name (`BytesMatch`);
`SegmentMatchesText` is `segment_matches`, which hands it the bytes of two texts
(`AsBytes`), and `SegmentMatch` stands for any such relation. Order and duplicates in the configuration have no
effect in the code and are abstracted into sets; which rule is *named* as the
reason is only read by the report of `--check-access`.

`HasDecodeEquivalent` is `decode_equivalent(..) = Some(..)`. As in the code, when
one name of a path does not decode to text only the literal form is evaluated.
A name can decode to `.` (`Dot`): as in the code it stays in the decoded path, as one
more name, which patterns are matched with. No name of the inputs decodes to nothing.

### FileService

| State | In the code |
| --- | --- |
| `fs` | the share: what each location holds (a file, directory, link or pipe, or nothing) |
| `fresh` | the files other programs have not created yet |
| `req[r]` | the handler of a request: `call` (what is asked, with the groups of the session), `pc` (the call it awaits), `at` (`canonical`), `decoded` (which form was canonicalized), `name` and `known` (`target` and `meta` of `entry_metadata`, or `expected` of the download), `file` and `source` (the handle, or what was removed, and where) |
| `scan[r]` | the directory stream of a listing: which entries it may and must still return, `item`/`spot` of the loop, the rows so far, and the entries a failed call has skipped |

One action stands for each awaited system call together with the code up to the
next one. `Arrive` is everything before the first call: `validate_relative_path`
(`ValidPath`), `access_gate` and the handler's own checks (`Screen`). `ValidPath` trims
the text, which can change its first and its last name (`TrimStart`, `TrimEnd`), refuses
backslashes (`Backslashed`) and `..`, and drops what has become empty or `.`. `Resolve` is
`canonicalize` with links, `.`, missing components and link loops; it decides between `NotFound`
(`Missing`) and any other error (`Broken`), because the code does. `Fail` lets
any call fail for a reason of its own, `Disconnect` drops the handler wherever it
waits; a removal or an open already handed to the blocking pool then still runs (`orphan`).
All system calls but two need one of the `Workers` threads of that pool (`WorkerFree`; `is_dir`
asks on the handler's own thread, entries read ahead need none). The open of a pipe keeps its
thread until a writer comes (`blocked`), after its client has left, too (`held`).
`Resolve` is a recursive function (`Follow`) over walks: where the lookup is, what is left
of the path, how many links it may still follow.
`CreateEntry`, `RemoveEntry` and `MoveEntry` are the other programs. A directory
stream returns every entry that stays (`must`), and may or may not return one
that comes or goes (`may`), as `readdir` promises.

`SharedFiles` has no paths, links, directory streams or failing calls: a granted request finds
its file in the share and serves it, or removes one, or lists, or ends without effect.
`Promise == INSTANCE SharedFiles WITH ...` maps a handler to what it has come to (`Standing`):
a download has its file from the `stat` on, a delete takes effect at `remove_file`, all other
calls of a handler are stutters. What a listing contains is not part of the promise
(`ListingComplete` says that).

Not in the model: hard links (`HasOneName`; the code documents that it cannot see
them), links and directories changed by other programs while requests run (the
window between `canonicalize` and `stat` is documented as open in `lib.rs`), inode
numbers reused while a name or an open handle holds them, what a download sends
after the handle is verified (that is `Transfer`), the order of the rows.

### OidcProvider

`cache` is `DISCOVERED_PROVIDER`; `task[t]` one login, callback or logout, with the
provider it cloned, the answer of its discovery and its token. Keys are numbered
as the identity provider introduces them; of a token only its key matters and
whether its claims are sound. `Lookup` is the read under the lock, `Fetch` the
provider's answer, `Store` the write: three steps, since no lock is held between
them. `Validate` refreshes on a key that is not in the JWKS (`NoMatchingKey`) and
`Revalidate` is the last word. `FetchFails`, `ExchangeFails` and `Abandon` are
timeouts, refusals and clients that leave. External: `Rotate`, the signing and the
single use of codes.

### AuthGate, Session, LoginFlow

| State | In the code |
| --- | --- |
| `configured`, `restarts` | whether `oidc.sessionSigningKey` is set; the key of `SessionCookieJar` is number 0 or that of the process |
| `login`, `session` | the browser's two cookies with the time it drops them; their payloads are what `mint_login` and `mint_session` sign |
| `tab[t]` | one tab: what it shows or waits for, the login it is in, the cookie its callback carries, the cookie its answer sets |
| `issued`, `spent` | external: what the provider will say of each login, and the codes it has accepted |
| `log` | the lines of `log_login_success` |
| `spoiled` | history: logins whose cookie was replaced, cleared, outlived or voided by a restart |

The state, the nonce and the PKCE verifier of a login are fresh random values and
stand for the number of the login. A request and its answer are two steps: the request
takes the cookies of that moment along, the answer changes them when it arrives, and
other tabs, the clock and restarts come between. `CheckCallback` is `callback_response`
up to the first provider contact, `Exchange` the rest of it; `TokenRejected` is the end of a
callback whose code was accepted and whose ID token is missing or fails its checks, after the
refresh of the keys too: 401, the code spent, the login cookie left. `Download` is a link that
is followed, `Call` a fetch of the page's own code, which goes to the login on a 401.
An identity stands for all claims; the percent-encoding of their fields in the payload is
not modelled. Cookies that nobody signed fail `verify_in_jar`; the model has none.

`Session` has neither cookies nor tabs: logins that are vouched for, sessions ready to
begin, who is in and until when. `Promise == INSTANCE Session WITH ...` maps `who` to the
identity of the session cookie if it verifies now, `ready` to the answers of callbacks
under way, and `vouched` to what the provider has issued and not yet redeemed.

### Transfer

Contents are numbered versions with a size and a modification time; of a byte only its
version matters. `handle` is the open file: the same one after a rename over the path, the
changed one after a write in place (`linked`). `Respond` is the decision of
`download_inner` from `fstat` on; `Download` its step with the log line of the wrapper,
`Stream` one byte of `ReaderStream`, `Finish` and `Break` what hyper does with a body
that has or has not its `Content-Length`. The client (`copy`) fetches, resumes with
`Range` and `If-Range`, and revalidates; `Others` are requests with any headers.
Numbers run to `MaxU64`; one more does not parse as an `u64`. Of the headers that are no
tag and no date, `Garbage` is text and `Unreadable` has bytes that `to_str` refuses.

### CheckWalk, Startup

`CheckWalk` has the loop of `run_access_check`: `queue` is the stack, `report` the sections
written, `used` the rules whose `used` is set. One directory is read in one step; between
two steps another program may remove an entry with all below it. `file_type` may fail for any
entry that is read: it is taken for no directory then (`Push`), and nothing is reported; `blind`
is the history of that, `MaxBlind` its bound. `Startup` has one step
per call of `run`. Paths and patterns of the configuration are cut at their slashes, so
that `/a`, `./a`, `a/`, `a//b` and `.` are different inputs of `normalize_relative_path` and
its callers; URLs are a scheme, a loopback flag and whether the path is the callback's.

### BrowserApp

`path`, `rows`, `loading`, `error`, `noAccess` are the refs of `App.vue`; `url` and `visited` the
location and the history; `calls` the requests, each *sent*, *answered*, and after a
failure *probing* the session (`isUnauthenticated`). A step of the page is one run of its
code up to the next await. The server is external: a directory is there or not, a file in it
or not, the session valid or not, or the call fails. `disorder` is a history variable: a
load was started beside another call or under an open confirmation.

## What is checked

| Run | Shows | Distinct states |
| --- | --- | --- |
| `access` | `DenialInherited`, `JoiningKeepsDenials`, `GapsAreDenials`, `DecodedDenialHides`, `GlobIsExact`, `WildcardsTakeCharacters`, `WalkIsGitignore` | about 127 000 |
| `share` | `StaysInRoot`, `RemovalAccounted`, `ReachedFormVisible`, `TakesEffectAtOnce` (the refinement) | about 77 000 |
| `listing` | `ListingComplete`, `ListingAgreesWithDelete`, `RowReopens`, `EventuallyAnswered` | about 32 000 |
| `named_delete` | violation of `DeletesNamedEntry` | |
| `dot_escape` | violation of `DeniesHoldDecoded` | |
| `provider` | `OwnRefreshSuffices`, `RefreshIsCurrent`, `FlowsEnd` | about 167 000 |
| `provider_stale` | violation of `RefreshRefetches` | |
| `login_flow` | `KeepsPromise` (the refinement), `RefusedForAReason`, `SpentWithItsCookie`, `RestartKeepsSessions`, `LogoutEnds`, `SessionsAreLogged` | about 1 060 000 |
| `transfer` | `ServesWhatIsAsked`, `ResumeIsOneVersion`, `CompleteIsWhole`, `LogTellsTransfer` | about 281 000 |
| `startup` | `ServedWithoutSession`, `StartupEnds`, `NothingHiddenSilently`, `ReportIsOrdered` | about 44 000 |
| `browser` | `DeletesWhatWasConfirmed`, `UrlIsPath`, `LoadingEnds` | about 227 000 |
| `browser_reload` | violation of `ReloadKeepsPath` | |

Each property is stated in words above its definition. `listing`, `provider`, `login_flow`, `transfer` and `startup` also check the type invariant of their
module.

### Bounds, and why they are enough

* `access`: seven names, among them an escaped spelling of another name, one that decodes to a
  slash and one that decodes to `.`; three configurations (global and scoped denies, two
  grants over one subtree, root allow, `**` in the middle and at the end), paths of
  at most four names (`MaxDepth`), one more than the longest pattern, so every
  pattern has a path that ends before, at and after its match. Beside the walk, patterns
  and subjects of at most four symbols (`MaxPattern`, `MaxSubject`) at three levels: two bytes
  and both wildcards; three letters, two of them of two bytes that begin alike; a literal, `n*` and
  `**` along a path. Two wildcards with a literal between and after them all occur. Walk and matchers
  have no state in common: one grows only while the other is at its start. Both end, so deadlock is
  not checked. The theorems below have no bounds.
* `share`: two requests at a time, and a new request for every task that is done;
  a link out of the root, a name that is not text, an escaped name and the name it
  decodes to (which a rule hides), one that decodes to `.`, a pipe. Other programs change two
  locations, move the two files there onto each other and put the pipe, once, in the place of
  either: enough to replace a file between any two calls, and to move it back. `MaxHops` = 2 links. `Workers` = 2, so
  that one pipe holds up nobody. Two tasks are enough for these properties
  because each relates one request to the share or to one other request. The tasks
  are interchangeable (`SYMMETRY`): they are asked the same and no liveness is checked.
* `listing`: one lister beside one task that deletes or downloads, other
  programs changing one entry, into a pipe too. The pool has one thread (`Workers` = 1): one
  download of the pipe stops all the others. The directory has an entry `a ` beside `a`, and the
  deletes ask for `a `, too, and for a name with a backslash.
* `dot_escape`: as `share`, without changes by others and without failures; the deny is anchored.
* `named_delete`: two deletes, no changes by others and no failures.
* `provider`: two handlers that start over and over, one code, two rotations
  (`MaxRotations`): a rotation before and one during a refresh. The two safety
  properties are proved for any number.

* `login_flow`: two tabs, two logins, one page besides the root and one foreign return
  path, an identity whose cookie is dropped for its size (`Oversized`), a clock of three
  times with a session of two ticks and a login of one, one restart. Two tabs and two logins
  are what overwriting, stale callbacks and reloads need; a third would only repeat the
  second. The tabs are interchangeable (`SYMMETRY`), all properties are safety. A browser
  that has used up its logins stops: deadlock is not checked.
* `transfer`: files of at most two bytes, `MaxU64` = 3, so that every position is below, at
  or past the end, the largest number, or beyond it; two versions, times before and after
  the epoch and two times within one second (`Second` = 2). All ranges, and all
  combinations of validators for four ranges. The last version stays, so the run may stop.
* `startup`: every argument list of up to four words for one configuration; every combination of
  build, variable, oidc block and access block, with and without the check; the check over
  shares with three levels, one removal (`MaxUnlinks`) and one failing `file_type` (`MaxBlind`).
* `browser`: two directories, one file name in both, four calls (`MaxCalls`, a limit on what
  the user starts; reloads may exceed it), one change of the session or the share
  (`MaxChanges`). Four calls are the first load, the identity and two that overlap, plus the
  reloads they cause. `browser_reload` has no such change.

### Fairness

* `FileService`: strong fairness of `WorkerFree /\ Work(r)` for each request. Calls wait for a
  thread of the pool in a queue (tokio's is first in, first out), so one that waits runs when
  threads become free again and again; between two frees others may take the thread, which is
  why weak fairness would say too little, and a pool that stays full serves nobody. A system call
  the operating system can complete is completed, and the runtime polls the task. Nothing is assumed
  of clients, failures, other programs or the writer of a pipe: `EventuallyAnswered` has
  `[]<>WorkerFree` as its premise. Pipes that keep every thread are what lib.rs (853-859) documents.
* `OidcProvider`: weak fairness of `Step(t)` for each handler: it is scheduled, and a
  call to the provider is answered or ends in a timeout of `oidc_http_client`
  (10 s to connect, 30 s in total).

* `Startup`: weak fairness of `Run`, the process's own next step; other programs need not stop,
  but their removals are bounded.
* `BrowserApp`: weak fairness per call: the browser ends every fetch, with an answer or a
  network error, and runs its continuation. The user owes nothing. `LoadingEnds` excepts a page
  on its way to the login.
* `LoginFlow`, `Transfer`, `Session`, `SharedFiles`: none; their properties are safety properties.

### What the violations show

* `named_delete`. With two files `%s` and `s`, where `%s` decodes to `s`
  (`50%25.txt` and `50%.txt`), two deletes of the listed name `%s` both answer 204:
  the second one finds the literal name gone and falls through to the decoded one in
  `entry_metadata`. The comment in `delete_file` (lib.rs:1223) says that the name the
  listing rendered must not be decoded; `docs/features/file-delete.md` expects 404 of
  a concurrent delete. Below a directory without escapes of its own the rules still cover
  what is removed: `ReachedFormVisible` holds, both forms are evaluated.
* `dot_escape`. With a deny of `d/s` and the file there, a download of `d/X/s`, where `X` is a spelling
  that decodes to `.`, is served: `validate_relative_path` drops `.` only as it is spelled,
  `decode_equivalent` gives the rules `d/./s`, which the deny does not match, and the decoded path
  that `canonicalize` gets leads to `d/s`. `docs/features/group-based-access-control.md` (145-149)
  has the deny win. `ReachedFormVisible` is what holds of all other requests.
* `provider_stale`. Two handlers discover; one stores and exchanges; the provider
  rotates; the token's key is unknown and the cache is cleared; now the other
  handler's discovery, answered before the rotation, is stored; the second lookup
  finds it, does not discover again, and a sound token is refused with 401. The
  comments at auth.rs:804 and auth.rs:1108 say that both providers are valid and that
  the refresh refetches the key set. `OwnRefreshSuffices` is what does hold: a
  callback whose refresh was its own discovery gets in.

* `browser_reload`. The user confirms a delete and opens another directory before the answer.
  The delete is answered first, so `confirmDelete` reloads the directory that is still the
  current one; the navigation is answered, then the reload: the page goes back to the old
  directory, the location stays on the new one. The comment at App.vue:154 says that the path
  is unchanged.

### Divergences noted without a run

* An expired session's download is answered 401 with JSON (`auth.rs:591`: the path starts with
  `/api/`), which the browser shows in place of the page. `docs/features/oidc-authentication.md`
  (90-92), the comment of `auth_gate` (auth.rs:523) and `client.ts` (15-18) say that downloads
  are redirected through the login. `LoginFlow` has it as the action `Download`.
* `docs/features/group-based-access-control.md` (146-150) has the deny rules hold for the form
  the handlers open. `is_path_visible` evaluates the literal path and the path decoded as a
  whole; `delete_file` looks directory and name up one after the other, each literally first.
  Of a path with escapes in both, the form with one half decoded is evaluated by nobody: with a
  directory `%s`, a file `s` in it and the deny `%s/s`, a delete of `%s/%s` answers 204.
  `ReachedFormVisible` leaves such deletes out and says so; the proof of it fails without that.
* An allow of `.` is, by the comment in `validate_allow_path`, the root; `normalize_relative_path`
  leaves it as the name `.`, so the entry covers nothing. `Startup` has it as the code does.
* `run_access_check` says that everything under a hidden directory is blocked by the same
  verdict. An allow of a deeper path makes that path visible; `NothingHiddenSilently` is what
  does hold: such an allow is reported as matching nothing.
* A malformed range is ignored "per HTTP leniency" (lib.rs:728), but on an empty file, or when its
  first position is past the end, it is answered 416: `ServesWhatIsAsked` spells that out.
* An `If-Range` that is not visible ASCII (a tag may have such bytes) counts as a match
  (`unwrap_or(true)`, lib.rs:1391) and 206 is answered; by the comment on `if_range_matches`
  (lib.rs:826) every unrecognized value widens the answer. `IfRangeMatches` does as the code does,
  and `ServesWhatIsAsked` leaves the header out.
* "`?` matches one character" (`group-based-access-control.md`, 136; access.rs:104) is one byte
  (access.rs:369-393): `caf?` does not match a name that ends in a two-byte letter.
  `WildcardsTakeCharacters` has that as its only exception.
* A listed name that ends with a blank, or begins with one at the root, or holds a backslash does
  not come back as that entry: the first is trimmed (a delete of the row `x ` acts on `x`), the second answered 400 (lib.rs:478-482). Only bytes that are not UTF-8 are encoded by the
  listing (lib.rs:608-612). `RowReopens` and `ListingAgreesWithDelete` are of the other rows
  (`Addressable`), and the run `listing` has such rows and requests for them.
* `file_type().await.unwrap_or(false)` (access.rs:785): where the call fails a visible directory is
  not walked, and the report does not say so. `NothingHiddenSilently` has that as its exception.

## What is proved

All with TLAPS, for every value of the constants under the named assumptions.

Where the code recurses over data (the matchers, a lookup that follows links, the walk of the
access check), the proofs use induction over a well-founded relation. The library's induction
theorems take an operator and cannot be used here, so `AccessRulesProofs` states induction with
sets: `Inductive(S, below, Good)` says that whatever has all that is below it in `Good` is in
`Good`, and `Induction` gives `S \subseteq Good` for a well-founded `below` (`NatLessThanWellFounded`
and `WFMin` of the library). A recursive function is shown to satisfy its equation (`FollowStep`,
`GlobReferenceStep`): a solution exists, because each argument's value is determined by those
below it (`Recursion`), or because the reference is one, and `CHOOSE` picks it.

**AccessRulesProofs**: besides induction, what a configuration means for one path and for the
paths above it. `MatchedBelow`: the witness by which a pattern matches a path also matches
every longer path, since `MatchFrom` never asks for the end. With `AllowedBelow` (an allow that
is a prefix of a path is one of its descendants) this gives `VerdictBelow`.

**AccessProofs** (`NamesAssumption`, `ConfigsAssumption`). The invariant of the walk is
`TypeOK` (`WalkTyped`); the properties are facts about the evaluation of one path and its parent.
`DenialIsInherited` and `OnlyDeniesMakeGaps` follow from `VerdictBelow`. `DenialKept`: the
covering entries only grow with the groups, and with them the denies, hence
`DenialSurvivesJoining`. `DecodedFormCounts` uses `VerdictBelow` from the denied ancestor down to
the whole decoded path. For the matchers the invariant of the enumeration is `MatchTypeOK`: a
pattern and a subject of any length. The references say that there is a chain of positions, one
after each symbol of the pattern, such that each step consumes what its symbol may (`Chain`).
`After` and `ChainSplit` take the first symbol off a chain, which is what one call of the recursion
does; so the reference solves the recursion (`GlobReferenceStep`, `WalkIsMatchFrom`) and, by
induction over what is left of pattern and subject, equals it: `GlobSearchIsExact` and
`WalkFollowsGrammar`. The first is about bytes, as the code is. Neither has a bound on lengths, and the second covers both `match_from` and
the relation `MatchFrom` that every other module evaluates.

**FileServiceProofs** (also `ShareAssumption`). `TypeCorrect` has the inductive
invariant `Inv`: `TypeOK` does not say that a handler about to remove has a name to
remove, or that a loop over entries has an entry; `HandlerOK` and `ScanOK` do.
`RemovalsAreAccounted` has `RemovalInv` on top of it: one location per file
(`HasOneName`), files not created yet are nowhere and in no request's account, and
each request's account is closed exactly when its status says so. A removed file
cannot come back under any name, since only fresh files are created: that is why
two requests can never have removed the same file.

One invariant, `AnswersInv`, says what answers mean, with two parts per request. `Cleared`
carries the decision of the gate along the handler: a request at work, or one that reached a
file, has a visible path and for a delete the right to delete; the name to remove is one of the
two spellings of the requested one. `RowsFit` ties the
flag of each row to the rule. `RowsAgreeWithDelete` and `ReachedFormsAreVisible` are read off it.
Both are about the validated path of a request, for any trimming; the first is of the rows whose path
validation leaves alone (`Addressable`). The second needs `DecodedName`: below a directory without
escapes, decoding the last name is decoding the whole path; and it is of requests without a name that
decodes to `.`: with one, the form that was evaluated is not the one that is opened (`dot_escape`).

The others are about where lookups lead. Every walk ends (`WalksEnd`): each step follows a
link, of which `MaxHops` are allowed, or uses up a name. By induction over walks, a location that
`canonicalize` returned has no link on it (`ResolveLeavesLinks`), and a path without links
leads to itself or nowhere (`ResolveWithoutLinks`).

* `NothingOutsideIsReached` (hypothesis `NoNewLinks`: every link of `Files` is in the share from
  the start, so none is made while requests run). `RootInv`: a handler past its check
  holds a location within the root with no link on it. Other programs can take links away, not
  add them (`LinksFade`), so the location stays free of links, later lookups of it lead to
  itself or nowhere, and what is opened or removed there is within the root. Without the
  hypothesis the property fails in the window that `lib.rs` documents.
* `ListingsAreComplete` (same hypothesis, and `TreeAssumption`: every entry is in a directory).
  `ListInv`: the entries the stream owes are in the directory; each one passed has its row, is
  `Pending` or had a failed call; no two rows are of one entry. The share stays a tree
  (`TreeKept`), so an entry that stays resolves to itself (`ResolveFound`).
* `ListedNamesReopen` (hypothesis `ShownNamesApart`: an entry shown under another name has that
  name as its escape, and nothing is called by it; and of rows that a request can address, a premise of
  the property). `RowInv`: rows are named by `Render`, and a
  file row was a file. Appending a name to a path appends it to where the path leads
  (`FollowLonger`), or leads nowhere if the path does (`FollowNowhere`); a path that decodes,
  decodes name by name (`DecodedLonger`). `OneForm`, a premise of `RowReopens`, is the limit of the
  code: it decodes a path as a whole or not at all, so a name with an escape of its own, listed
  below a directory that was reached by decoding, is decoded with it.

* `RequestsTakeEffectAtOnce` (hypotheses `NoNewLinks` and distinct inode numbers): the refinement
  of `SharedFiles`. `Holds`, `Waits` and `Left` split the handlers into downloads that have found
  their file, requests that have had no effect yet and opens whose client has left (`StandingIs`), and each kind of step has its
  lemma (`PromiseBy...`): the looking calls leave a request where it stands, a refused, failed or
  abandoned one is an `End`, and what its open does later is a stutter (`PromiseLeft`). The step that finds (`Stat`) and the one that removes (`Unlink`) need
  `RootInv`: what they reach is at the location checked, hence a file of the share inside the
  root at that instant. `Verify` needs the inode numbers: equal numbers mean the file
  that was found. That nothing is asked without a grant is `Screen`.

`MCFileService` assumes `NoNewLinks` and `ShownNamesApart` of its instances, so TLC evaluates
them; its inode numbers are distinct as well.

**OidcProviderProofs** (`OidcAssumption`). `TypeCorrect` carries the handler's
protocol (`HandlerOK` in `TypeOK`). `RefreshCurrent` is inductive with `TypeOK`: a
callback clears the cache when it refreshes, so any provider of its own that turns
up later was fetched after its token was signed, and knows the token's key unless
that was withdrawn; withdrawn keys do not return. `OwnRefreshIsEnough` is the action
property that follows at the step that turns a callback away.

**LoginFlowProofs** (`LoginAssumption`, `CookieAssumption`: the mark for "no cookie" is
none). `Protocol` is inductive: `TypeOK` does not say which login a tab belongs to, so
`TabFits` does for every page a tab can be on, `LoginsFit` says that no two tabs share a login
and that codes are spent after they were issued, `SessionFits` that the browser's session
cookie is one that was minted, logged and kept no longer than it verifies. With it
`EverySessionIsLogged`, `CodesAreSpentWithTheirCookie`, `RestartsKeepSessions` and `LogoutsEnd`
follow: a code is spent in `Exchange`, `TokenRejected` and `ExchangeFails` only, by a tab that
carries the cookie `CheckCallback` has verified. `RefusalsHaveAReason` needs `LoginsUnharmed` on top: a login to which nothing was done still
has its cookie in the browser, under the key that is in force. The refinement
`CookiesImplementSession` maps what `Session` calls the user, the end of the session and the
users vouched for to the cookies, the answers on their way and the spent codes; each kind of
step (`StepKinds`) is a step of `Session` or a stutter (`StepImplements`).

**TransferProofs** (`TransferAssumption`, `HeadersAssumption`: the marks for missing and
unreadable headers are not headers). `RangeMeans` and `RespondMeans` compare the code's
arithmetic on `u64` with the set of bytes a range denotes, for every size and every `MaxU64`;
`AnswersAreAsked` is that comparison at every answer (of an unreadable `If-Range` only the bytes). The inductive invariant `Inv` has the
log line of a running download (`LineFits`) and where the client's copy stands relative to
the body it receives (`CopyFits`): the copy ends where the body goes on, the body ends where
the tagged version does. Hence `ResumedCopiesAreOneVersion`, `CompleteCopiesAreWhole`, `LogIsTrue`.

**StartupProofs** (`StartupsAssumption`: the access blocks of the files are lists of texts, as
the parser leaves them; `TreesAssumption`: shares are finite trees, names have an order).
`TypeCorrect` has at its heart that `Validated` of a block that passes `ValidAccess` is an
`IsAccessConfig`, the assumption under which all rules are evaluated elsewhere: normalization leaves no empty
or dotted segment where the validation found none, and of several spellings of one group the last
counts. `BlocksFit` says what each phase of `run` has made sure of: an OIDC block
that was loaded gives safe cookies, and once authentication is initialized both blocks are
there unless the debug variable is honoured. `NothingServedWithoutSession` is its last phase.
The report of the check has two invariants on top of `WalkInv` (types, and that the share stays
a tree). `OrderInv` for `ReportsAreOrdered`: every section written comes before every path on the
stack, and the paths on the stack part from each other, the top first, so that whatever lies below
one comes before the next; popping a directory and pushing its children in reverse keeps both.
`CoverInv` for `UnwalkedIsReported`: a visible directory that was written was read whole, each
subdirectory it names is written or on the stack, and a used allow covers a path that was looked
at. Suppose an allow that was used covers a visible path that was not looked at. Between the two lies
a first path that was not looked at; the directory above it is covered by the allow and not
denied, since a denial would reach down to the visible path, so it was walked and read, and the
path was looked at after all (`WalkedFromAllow`); unless `file_type` failed on the way (`blind`).

**BrowserAppProofs** (`RootAssumption`). `DialogFits`: an open dialog is about the directory
shown, because every listing that is shown closes it; `DeletesAsConfirmed` follows.
`Orderly` is what `LocationFollows` needs: without disorder a load is alone, no dialog
is open and no delete under way beside it, and the location differs from the directory shown
only while it runs or after it has failed.

### Only model-checked

* Liveness: `EventuallyAnswered`, `FlowsEnd`, `StartupEnds`, `LoadingEnds`.
  They need fairness and `ENABLED`, which the prover does not handle.

* `WildcardsTakeCharacters`: that no character's bytes are found inside another's is a property of
  UTF-8, of which the run has an instance.

Every other safety invariant and action property that a passing run checks is stated by a theorem.

## Plan

Done: 1 to 8, the first half of 9, and 10.

1. `AccessRules`, `AccessWalk`, `GlobMatch`: what everything else evaluates.
2. `FileService`: the product itself, with listing, download and delete composed
   over one share.
3. `OidcProvider`: the only state the server shares between requests.
4. Proofs of the type invariants, of the walk's properties, of `RemovalAccounted` and
   `OwnRefreshSuffices`.
5. `AuthGate`, `Session`, `LoginFlow`: cookies and gate, an abstract session, the refinement.
6. `Transfer`: the decision table of a download and what then reaches the client.
7. `CheckWalk`, `Startup`: the access check and the start.
8. `BrowserApp`: navigations, late responses and the delete dialog.
9. Abstract specifications: `SharedFiles` for the file service (done, with its refinement);
   a provider cache as a register.
10. Proofs about `LoginFlow`, `Transfer`, `Startup`, `BrowserApp` and the answers of
    `FileService`.
11. `BrowserApp` over several pages of one browser, sharing the session of `LoginFlow`.

## What is not modelled

Text formats and their escaping (YAML and JSON, log lines, header values, the encoding of
claims in a cookie, the two spellings of a file name in `Content-Disposition`), failed
logins in the access log and the choice of the client address, the static endpoints and
the embedded frontend, build and release scripts, generated code. None of these keeps state
or depends on an order of events. Of the identity provider, the operating system,
hyper and the browser only what the code relies on.
