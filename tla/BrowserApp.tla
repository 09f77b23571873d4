------------------------------ MODULE BrowserApp -------------------------------
(***************************************************************************)
(* One page of the browser application (frontend/src/App.vue and the       *)
(* wrapper lib/api/client.ts): navigation, the browser's history, the      *)
(* delete confirmation, and the calls in flight, which the server answers  *)
(* and the page receives in any order. A call that failed is followed by a *)
(* probe of the session, and an expired session sends the page to the      *)
(* login. A step of the page is one run of its code up to the next await.  *)
(***************************************************************************)
EXTENDS Naturals, Sequences, SequencesExt

CONSTANTS
  Dirs,         \* the directories of the share; <<>> is the root
  Files,        \* the names of files
  None,
  MaxCalls,     \* bounds on the calls of the page,
  MaxChanges    \* and on the changes of the session and of the share

ASSUME RootAssumption == <<>> \in Dirs

VARIABLES
  held,      \* external: the files of every directory that exists for the user
  session,   \* external: the session cookie verifies
  changes,   \* external: changes of those so far
  url,       \* the p parameter of the location
  visited,   \* the locations of the browser's history
  path, rows, loading, error, noAccess,   \* the refs of App.vue
  dialog,    \* the row whose deletion awaits confirmation: [name, listed]
  calls,     \* the calls of the page, in the order they were made
  leaving,   \* redirectToLogin was called
  disorder   \* history: a load started beside another call or a confirmation

external == <<held, session, changes>>
view == <<path, rows, loading, error, noAccess>>
vars == <<external, url, visited, view, dialog, calls, leaving, disorder>>

\* listed is the directory that showed the row of a delete. A push load
\* updates the history; a reload is made for a finished delete.
Call(kind, dir, name, listed, push, reload) ==
  [kind |-> kind, dir |-> dir, name |-> name, listed |-> listed,
   push |-> push, reload |-> reload, stage |-> "sent", answer |-> None, names |-> {}]

Load(dir, push, reload) == Call("load", dir, None, None, push, reload)

Settled(call) == [call EXCEPT !.stage = "done", !.answer = None, !.names = {}]
Pending(i) == calls[i].stage \notin {"done", "abandoned"}
Busy == \E i \in 1..Len(calls) : calls[i].kind # "identity" /\ Pending(i)

\* onMounted: the location is loaded, and the identity beside it. The gate let
\* the page itself through.
Init ==
  /\ held = [dir \in Dirs |-> Files] /\ session = TRUE /\ changes = 0
  /\ url \in Dirs /\ visited = {url}
  /\ path = <<>> /\ rows = {} /\ loading = TRUE /\ error = FALSE /\ noAccess = FALSE
  /\ dialog = None
  /\ calls = <<Load(url, FALSE, FALSE), Call("identity", <<>>, None, None, FALSE, FALSE)>>
  /\ leaving = FALSE /\ disorder = FALSE

\* The synchronous part of loadDirectory. finished is the call in whose
\* continuation it runs, or 0.
StartLoad(dir, push, finished) ==
  /\ calls' = Append([i \in 1..Len(calls) |->
                        IF i = finished THEN Settled(calls[i]) ELSE calls[i]],
                     Load(dir, push, finished # 0))
  /\ loading' = TRUE /\ error' = FALSE /\ noAccess' = FALSE
  /\ disorder' = (disorder \/ dialog # None
                    \/ \E i \in 1..Len(calls) : /\ i # finished /\ Pending(i)
                                                /\ calls[i].kind # "identity")
  /\ UNCHANGED <<external, path, rows, dialog, leaving>>

--------------------------------------------------------------------------------
(* The user. A modal dialog takes every click on the page, a panel hides the *)
(* breadcrumbs and the rows, and a load hides the rows.                      *)

PageClickable == ~leaving /\ dialog = None
NoPanel == ~error /\ ~noAccess
CanCall == Len(calls) < MaxCalls

OpenDirectory ==
  /\ PageClickable /\ NoPanel /\ CanCall
  /\ \E dir \in Dirs :
       /\ \/ IsPrefix(dir, path)                                  \* a breadcrumb
          \/ ~loading /\ dir # <<>> /\ Front(dir) = path /\ Last(dir) \in rows
       /\ StartLoad(dir, TRUE, 0)
  /\ UNCHANGED <<url, visited>>

GoToRoot ==
  /\ PageClickable /\ error /\ ~noAccess /\ CanCall
  /\ StartLoad(<<>>, TRUE, 0)
  /\ UNCHANGED <<url, visited>>

\* popstate: back or forward in the history, dialog or not.
PopState ==
  /\ ~leaving /\ CanCall
  /\ \E dir \in visited \ {url} :
       url' = dir /\ StartLoad(dir, FALSE, 0)
  /\ UNCHANGED visited

StartDeleteConfirmation ==
  /\ PageClickable /\ NoPanel /\ ~loading
  /\ \E name \in rows \cap Files : dialog' = [name |-> name, listed |-> path]
  /\ UNCHANGED <<external, url, visited, view, calls, leaving, disorder>>

CancelDelete ==
  /\ ~leaving /\ dialog # None
  /\ dialog' = None
  /\ UNCHANGED <<external, url, visited, view, calls, leaving, disorder>>

\* The directory is the current one when Confirm is clicked.
ConfirmDelete ==
  /\ ~leaving /\ dialog # None /\ CanCall
  /\ calls' = Append(calls, Call("delete", path, dialog.name, dialog.listed, FALSE, FALSE))
  /\ dialog' = None
  /\ UNCHANGED <<external, url, visited, view, leaving, disorder>>

--------------------------------------------------------------------------------
(* The server: external, as far as the page can tell its answers apart.      *)

Listing(dir) ==
  held[dir] \cup {Last(d) : d \in {d \in DOMAIN held : d # <<>> /\ Front(d) = dir}}

Answered(i, answer, names) ==
  calls' = [calls EXCEPT ![i].stage = "answered", ![i].answer = answer, ![i].names = names]

\* A load, a delete or a request of the identity is carried out at some point
\* between the call and the receipt of its answer.
Answer(i) ==
  /\ calls[i].stage = "sent"
  /\ LET c == calls[i]
         there == c.dir \in DOMAIN held
     IN \/ /\ ~session
           /\ Answered(i, "rejected", {}) /\ UNCHANGED held
        \/ /\ session /\ c.kind = "identity"
           /\ Answered(i, "ok", {}) /\ UNCHANGED held
        \/ /\ session /\ c.kind = "load" /\ there
           /\ Answered(i, "ok", Listing(c.dir)) /\ UNCHANGED held
        \/ /\ session /\ c.kind = "load" /\ ~there
           /\ Answered(i, "notFound", {}) /\ UNCHANGED held
        \/ /\ session /\ c.kind = "delete" /\ there /\ c.name \in held[c.dir]
           /\ Answered(i, "ok", {})
           /\ held' = [held EXCEPT ![c.dir] = @ \ {c.name}]
        \/ /\ session /\ c.kind = "delete" /\ (there => c.name \notin held[c.dir])
           /\ Answered(i, "notFound", {}) /\ UNCHANGED held
        \/ /\ session /\ c.kind # "identity"
           /\ Answered(i, "unavailable", {}) /\ UNCHANGED held
  /\ UNCHANGED <<session, changes, url, visited, view, dialog, leaving, disorder>>

\* The health probe is answered by the gate; one that gets no answer counts as
\* a session that is still there.
AnswerProbe(i) ==
  /\ calls[i].stage = "probing"
  /\ \E stage \in {"probedValid"} \cup (IF session THEN {} ELSE {"probedExpired"}) :
       calls' = [calls EXCEPT ![i].stage = stage]
  /\ UNCHANGED <<external, url, visited, view, dialog, leaving, disorder>>

\* The session expires or another tab logs in again.
SessionChanges ==
  /\ changes < MaxChanges
  /\ session' = ~session /\ changes' = changes + 1
  /\ UNCHANGED <<held, url, visited, view, dialog, calls, leaving, disorder>>

\* A directory is removed or becomes hidden.
DirVanishes ==
  /\ changes < MaxChanges
  /\ \E dir \in DOMAIN held :
       held' = [d \in {d \in DOMAIN held : ~IsPrefix(dir, d)} |-> held[d]]
  /\ changes' = changes + 1
  /\ UNCHANGED <<session, url, visited, view, dialog, calls, leaving, disorder>>

--------------------------------------------------------------------------------
(* What the page does with an answer. *)

Done(i) == calls' = [calls EXCEPT ![i] = Settled(@)]

\* Faulty variant (DeletesWhatWasConfirmed): the dialog survives a navigation.
ShowListingUnderDialog(i) ==
  /\ calls[i].stage = "answered" /\ calls[i].kind = "load" /\ calls[i].answer = "ok"
  /\ Done(i)
  /\ path' = calls[i].dir /\ rows' = calls[i].names /\ loading' = FALSE
  /\ IF calls[i].push
       THEN url' = calls[i].dir /\ visited' = visited \cup {calls[i].dir}
       ELSE UNCHANGED <<url, visited>>
  /\ UNCHANGED <<external, dialog, error, noAccess, leaving, disorder>>

\* Faulty variant (UrlIsPath): the location is never updated.
ShowListingOnly(i) ==
  /\ calls[i].stage = "answered" /\ calls[i].kind = "load" /\ calls[i].answer = "ok"
  /\ Done(i)
  /\ dialog' = None
  /\ path' = calls[i].dir /\ rows' = calls[i].names /\ loading' = FALSE
  /\ UNCHANGED <<external, url, visited, error, noAccess, leaving, disorder>>

\* A load that succeeded closes the dialog; it leaves the panels alone.
ShowListing(i) ==
  /\ calls[i].stage = "answered" /\ calls[i].kind = "load" /\ calls[i].answer = "ok"
  /\ Done(i)
  /\ dialog' = None
  /\ path' = calls[i].dir /\ rows' = calls[i].names /\ loading' = FALSE
  /\ IF calls[i].push
       THEN url' = calls[i].dir /\ visited' = visited \cup {calls[i].dir}
       ELSE UNCHANGED <<url, visited>>
  /\ UNCHANGED <<external, error, noAccess, leaving, disorder>>

ShowIdentity(i) ==
  /\ calls[i].stage = "answered" /\ calls[i].kind = "identity" /\ calls[i].answer = "ok"
  /\ Done(i)
  /\ UNCHANGED <<external, url, visited, view, dialog, leaving, disorder>>

\* Every failure first asks whether the session is still there.
Probe(i) ==
  /\ calls[i].stage = "answered" /\ calls[i].answer # "ok"
  /\ calls' = [calls EXCEPT ![i].stage = "probing"]
  /\ UNCHANGED <<external, url, visited, view, dialog, leaving, disorder>>

\* redirectToLogin never resolves.
RedirectToLogin(i) ==
  /\ calls[i].stage = "probedExpired"
  /\ calls' = [calls EXCEPT ![i].stage = "abandoned"]
  /\ leaving' = TRUE
  /\ UNCHANGED <<external, url, visited, view, dialog, disorder>>

\* Faulty variant (LoadingEnds): the end of a load is not marked on failure.
FailLoadLoading(i) ==
  /\ calls[i].stage = "probedValid" /\ calls[i].kind = "load"
  /\ Done(i)
  /\ rows' = {}
  /\ IF calls[i].answer = "notFound" /\ calls[i].dir = <<>>
       THEN noAccess' = TRUE /\ UNCHANGED error
       ELSE error' = TRUE /\ UNCHANGED noAccess
  /\ UNCHANGED <<external, url, visited, path, loading, dialog, leaving, disorder>>

FailLoad(i) ==
  /\ calls[i].stage = "probedValid" /\ calls[i].kind = "load"
  /\ Done(i)
  /\ rows' = {} /\ loading' = FALSE
  /\ IF calls[i].answer = "notFound" /\ calls[i].dir = <<>>
       THEN noAccess' = TRUE /\ UNCHANGED error
       ELSE error' = TRUE /\ UNCHANGED noAccess
  /\ UNCHANGED <<external, url, visited, path, dialog, leaving, disorder>>

FailIdentity(i) ==
  /\ calls[i].stage = "probedValid" /\ calls[i].kind = "identity"
  /\ Done(i)
  /\ UNCHANGED <<external, url, visited, view, dialog, leaving, disorder>>

\* A file that is gone, by this delete or another, reloads the directory that
\* is the current one by now.
ReloadAfterDelete(i) ==
  /\ calls[i].kind = "delete"
  /\ \/ calls[i].stage = "answered" /\ calls[i].answer = "ok"
     \/ calls[i].stage = "probedValid" /\ calls[i].answer = "notFound"
  /\ StartLoad(path, FALSE, i)
  /\ UNCHANGED <<url, visited>>

FailDelete(i) ==
  /\ calls[i].stage = "probedValid" /\ calls[i].kind = "delete"
  /\ calls[i].answer # "notFound"
  /\ Done(i)
  /\ error' = TRUE
  /\ UNCHANGED <<external, url, visited, path, rows, loading, noAccess, dialog, leaving, disorder>>

Receive(i) ==
  \/ ShowListing(i) \/ ShowIdentity(i) \/ Probe(i) \/ RedirectToLogin(i)
  \/ FailLoad(i) \/ FailIdentity(i) \/ ReloadAfterDelete(i) \/ FailDelete(i)

User ==
  \/ OpenDirectory \/ GoToRoot \/ PopState
  \/ StartDeleteConfirmation \/ CancelDelete \/ ConfirmDelete

Next ==
  \/ User
  \/ \E i \in 1..Len(calls) : Answer(i) \/ AnswerProbe(i) \/ Receive(i)
  \/ SessionChanges \/ DirVanishes

\* Every call is answered and its answer received: a request that the network
\* loses is an answer too, "unavailable".
CallIds == 1..(2 * MaxCalls)
Fairness ==
  \A i \in CallIds : WF_vars(i \in 1..Len(calls) /\ (Answer(i) \/ AnswerProbe(i) \/ Receive(i)))

Spec == Init /\ [][Next]_vars /\ Fairness

--------------------------------------------------------------------------------
(* "A confirmation armed on a same-named row in the previous directory must  *)
(* not survive" a navigation (App.vue, loadDirectory): however the answers   *)
(* arrive and whatever the history does, a delete is sent for the directory  *)
(* that listed the confirmed row.                                            *)
DeletesWhatWasConfirmed ==
  \A i \in 1..Len(calls) : calls[i].kind = "delete" => calls[i].dir = calls[i].listed

(* The location is the directory that is shown, so a reload or the return    *)
(* from a login leads back to it (client.ts, redirectToLogin), unless a load *)
(* was started beside another call or under an open confirmation.            *)
UrlIsPath == ~disorder /\ ~Busy /\ ~leaving /\ NoPanel => url = path

(* "Loading directory..." ends: every load that fails or succeeds takes it   *)
(* away, whichever of several loads ends last, except on the way to a login. *)
LoadingEnds == loading ~> (~loading \/ leaving)

(* Violated. App.vue, confirmDelete, says of the reload after a delete that  *)
(* "updateHistory is false because the path is unchanged": its answer should *)
(* then never lead to another directory than the one shown.                  *)
ReloadKeepsPath ==
  [][\A i \in 1..Len(calls) :
       ShowListing(i) /\ calls[i].reload => path' = path]_vars
================================================================================
