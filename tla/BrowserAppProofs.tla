---------------------------- MODULE BrowserAppProofs ----------------------------
(***************************************************************************)
(* For every share, every number of calls and every order of their         *)
(* answers: what a confirmed delete is sent for, and that the location     *)
(* follows the directory that is shown.                                    *)
(***************************************************************************)
EXTENDS BrowserApp, TLAPS

Entries == Files \cup {Last(d) : d \in Dirs}

Calls ==
  [kind : {"load", "identity", "delete"}, dir : Dirs, name : Files \cup {None},
   listed : Dirs \cup {None}, push : BOOLEAN, reload : BOOLEAN,
   stage : {"sent", "answered", "probing", "probedValid", "probedExpired",
            "abandoned", "done"},
   answer : {None, "ok", "rejected", "notFound", "unavailable"},
   names : SUBSET Entries]

CallsFit ==
  /\ calls \in Seq(Calls)
  /\ DOMAIN held \subseteq Dirs /\ \A d \in DOMAIN held : held[d] \subseteq Files
  /\ path \in Dirs /\ url \in Dirs /\ visited \subseteq Dirs
  /\ dialog # None => dialog.listed \in Dirs /\ dialog.name \in Files

\* The dialog is about a row of the directory that is shown.
DialogFits == dialog # None => dialog.listed = path

Loads(i) == i \in 1..Len(calls) /\ calls[i].kind = "load" /\ Pending(i)
Deletes(i) == i \in 1..Len(calls) /\ calls[i].kind = "delete" /\ Pending(i)

\* As long as no load is started beside another call, a load is alone, and the
\* location may only be ahead of the page while one is under way or has failed.
Orderly ==
  ~disorder =>
    /\ \A i : Loads(i) =>
         /\ loading /\ dialog = None
         /\ calls[i].push \/ calls[i].dir = url
         /\ \A j : Loads(j) => j = i
         /\ \A j : ~Deletes(j)
    /\ dialog # None => url = path
    /\ \A i : Deletes(i) => url = path
    /\ ~leaving /\ NoPanel /\ (\A i : ~Loads(i)) => url = path

Inv == CallsFit /\ DialogFits /\ DeletesWhatWasConfirmed /\ Orderly

--------------------------------------------------------------------------------
(* What the kinds of steps do to the calls. *)

\* Call i goes on, and everything else about the calls stays.
Moves(i, c) ==
  /\ i \in 1..Len(calls) /\ c \in Calls
  /\ calls' = [calls EXCEPT ![i] = c]
  /\ c.kind = calls[i].kind /\ c.dir = calls[i].dir /\ c.push = calls[i].push
  /\ c.listed = calls[i].listed
  /\ c.stage \notin {"done", "abandoned"} => Pending(i)

LEMMA SettledMeans ==
  ASSUME NEW c \in Calls
  PROVE  /\ Settled(c) \in Calls /\ Settled(c).stage = "done"
         /\ Settled(c).kind = c.kind /\ Settled(c).dir = c.dir
         /\ Settled(c).push = c.push /\ Settled(c).listed = c.listed
<1> DEFINE a == [c EXCEPT !.stage = "done"]
           b == [a EXCEPT !.answer = None]
<1>1. /\ a \in Calls /\ a.stage = "done" /\ a.kind = c.kind /\ a.dir = c.dir
      /\ a.push = c.push /\ a.listed = c.listed
  BY DEF Calls
<1> HIDE DEF a
<1>2. /\ b \in Calls /\ b.stage = "done" /\ b.kind = c.kind /\ b.dir = c.dir
      /\ b.push = c.push /\ b.listed = c.listed
  BY <1>1 DEF Calls
<1>3. Settled(c) = [b EXCEPT !.names = {}]
  BY DEF Settled, a, b
<1> HIDE DEF b
<1> QED
  BY <1>2, <1>3 DEF Calls

LEMMA MovesMeans ==
  ASSUME calls \in Seq(Calls), NEW i, NEW c, Moves(i, c)
  PROVE  /\ calls' \in Seq(Calls) /\ Len(calls') = Len(calls)
         /\ calls'[i] = c
         /\ \A j \in 1..Len(calls) :
              /\ j # i => calls'[j] = calls[j]
              /\ calls'[j].kind = calls[j].kind /\ calls'[j].dir = calls[j].dir
              /\ calls'[j].push = calls[j].push /\ calls'[j].listed = calls[j].listed
BY DEF Moves

LEMMA MovesLoads ==
  ASSUME calls \in Seq(Calls), NEW i, NEW c, Moves(i, c)
  PROVE  /\ \A j : Loads(j)' => Loads(j)
         /\ \A j : Deletes(j)' => Deletes(j)
         /\ \A j : j # i => Loads(j)' = Loads(j)
         /\ c.stage \notin {"done", "abandoned"} => Loads(i)' = Loads(i)
BY MovesMeans DEF Moves, Loads, Deletes, Pending

LEMMA StartLoadMeans ==
  ASSUME calls \in Seq(Calls), NEW dir \in Dirs, NEW push \in BOOLEAN,
         NEW finished \in 0..Len(calls), StartLoad(dir, push, finished)
  PROVE  /\ calls' \in Seq(Calls) /\ Len(calls') = Len(calls) + 1
         /\ calls'[Len(calls) + 1] = Load(dir, push, finished # 0)
         /\ \A j \in 1..Len(calls) :
              calls'[j] = IF j = finished THEN Settled(calls[j]) ELSE calls[j]
<1> DEFINE rest == [i \in 1..Len(calls) |->
                      IF i = finished THEN Settled(calls[i]) ELSE calls[i]]
<1>1. Load(dir, push, finished # 0) \in Calls
  BY DEF Load, Call, Calls
<1>2. \A i \in 1..Len(calls) : calls[i] \in Calls /\ Settled(calls[i]) \in Calls
  <2> SUFFICES ASSUME NEW i \in 1..Len(calls)
               PROVE  calls[i] \in Calls /\ Settled(calls[i]) \in Calls
    OBVIOUS
  <2>1. calls[i] \in Calls
    OBVIOUS
  <2> QED
    BY <2>1, SettledMeans
<1>3. rest \in Seq(Calls) /\ Len(rest) = Len(calls)
  BY <1>2
<1>4. calls' = Append(rest, Load(dir, push, finished # 0))
  BY DEF StartLoad
<1> HIDE DEF rest
<1> QED
  <2>1. /\ calls' \in Seq(Calls) /\ Len(calls') = Len(calls) + 1
        /\ calls'[Len(calls) + 1] = Load(dir, push, finished # 0)
        /\ \A j \in 1..Len(calls) : calls'[j] = rest[j]
    BY <1>1, <1>3, <1>4
  <2> QED
    BY <2>1 DEF rest

\* A load is started: alone, or in disorder.
LEMMA InvByLoad ==
  ASSUME Inv, NEW dir \in Dirs, NEW push \in BOOLEAN,
         NEW finished \in 0..Len(calls), StartLoad(dir, push, finished),
         finished # 0 => calls[finished].kind = "delete",
         url' \in Dirs, visited' \subseteq Dirs, ~disorder' => push \/ url' = dir
  PROVE  Inv'
<1>0. PICK n : n = Len(calls) + 1
  OBVIOUS
<1>1. calls \in Seq(Calls) /\ Len(calls) \in Nat
  BY DEF Inv, CallsFit
<1>2. /\ calls' \in Seq(Calls) /\ Len(calls') = n
      /\ calls'[n] = Load(dir, push, finished # 0)
      /\ \A j \in 1..Len(calls) :
           calls'[j] = IF j = finished THEN Settled(calls[j]) ELSE calls[j]
  BY <1>0, <1>1, StartLoadMeans
<1>3. UNCHANGED <<held, path, dialog, leaving>> /\ loading' = TRUE
  BY DEF StartLoad, external
<1>4. \A j \in 1..Len(calls) :
        /\ calls'[j].kind = calls[j].kind /\ calls'[j].dir = calls[j].dir
        /\ calls'[j].listed = calls[j].listed
        /\ Pending(j)' => j # finished /\ Pending(j)
  <2> SUFFICES ASSUME NEW j \in 1..Len(calls)
               PROVE  /\ calls'[j].kind = calls[j].kind /\ calls'[j].dir = calls[j].dir
                      /\ calls'[j].listed = calls[j].listed
                      /\ Pending(j)' => j # finished /\ Pending(j)
    OBVIOUS
  <2>1. calls[j] \in Calls
    BY <1>1
  <2> QED
    BY <1>2, <2>1, SettledMeans DEF Pending
<1>5. /\ calls'[n].kind = "load" /\ calls'[n].dir = dir /\ calls'[n].push = push
      /\ calls'[n].stage = "sent"
  BY <1>2 DEF Load, Call
<1>6. CallsFit'
  BY <1>2, <1>3 DEF Inv, CallsFit
<1>7. DialogFits'
  BY <1>3 DEF Inv, DialogFits
<1>8. DeletesWhatWasConfirmed'
  BY <1>0, <1>1, <1>2, <1>4, <1>5 DEF Inv, DeletesWhatWasConfirmed
<1>9. Orderly'
  <2> SUFFICES ASSUME ~disorder'
               PROVE  Orderly'
    BY DEF Orderly
  <2>1. /\ dialog' = None
        /\ \A i \in 1..Len(calls) :
             i # finished /\ Pending(i) => calls[i].kind = "identity"
    BY <1>3 DEF StartLoad
  <2>2. \A i : Loads(i)' => i = n
    BY <1>0, <1>1, <1>2, <1>4, <2>1 DEF Loads
  <2>3. \A i : ~Deletes(i)'
    BY <1>0, <1>1, <1>2, <1>4, <1>5, <2>1 DEF Deletes
  <2>4. Loads(n)'
    BY <1>0, <1>1, <1>2, <1>5 DEF Loads, Pending
  <2> QED
    BY <1>3, <1>5, <2>1, <2>2, <2>3, <2>4 DEF Orderly
<1> QED
  BY <1>6, <1>7, <1>8, <1>9 DEF Inv

\* A call goes on and the page stays as it is.
LEMMA InvByCall ==
  ASSUME Inv, NEW i, NEW c, Moves(i, c),
         DOMAIN held' \subseteq Dirs, \A d \in DOMAIN held' : held'[d] \subseteq Files,
         UNCHANGED <<url, visited, path, dialog, disorder>>,
         Loads(i) /\ ~Loads(i)' => leaving' \/ ~NoPanel',
         ~leaving' => ~leaving, NoPanel' => NoPanel,
         loading' = loading \/ (Loads(i) /\ ~Loads(i)')
  PROVE  Inv'
<1>1. calls \in Seq(Calls)
  BY DEF Inv, CallsFit
<1>2. /\ calls' \in Seq(Calls) /\ Len(calls') = Len(calls)
      /\ \A j \in 1..Len(calls) :
           /\ calls'[j].kind = calls[j].kind /\ calls'[j].dir = calls[j].dir
           /\ calls'[j].push = calls[j].push /\ calls'[j].listed = calls[j].listed
  BY <1>1, MovesMeans
<1>3. /\ \A j : Loads(j)' => Loads(j)
      /\ \A j : Deletes(j)' => Deletes(j)
      /\ \A j : j # i => Loads(j)' = Loads(j)
  BY <1>1, MovesLoads
<1>4. CallsFit' /\ DialogFits' /\ DeletesWhatWasConfirmed'
  BY <1>2 DEF Inv, CallsFit, DialogFits, DeletesWhatWasConfirmed
<1>5. Orderly'
  <2> SUFFICES ASSUME ~disorder, Orderly
               PROVE  Orderly'
    BY DEF Inv, Orderly
  <2>1. \A j : Loads(j)' =>
          /\ loading' /\ dialog' = None
          /\ calls'[j].push \/ calls'[j].dir = url'
          /\ \A k : Loads(k)' => k = j
          /\ \A k : ~Deletes(k)'
    BY <1>2, <1>3 DEF Orderly, Loads
  <2>2. dialog' # None => url' = path'
    BY DEF Orderly
  <2>3. \A j : Deletes(j)' => url' = path'
    BY <1>3 DEF Orderly
  <2>4. ~leaving' /\ NoPanel' /\ (\A j : ~Loads(j)') => url' = path'
    BY <1>3 DEF Orderly
  <2> QED
    BY <2>1, <2>2, <2>3, <2>4 DEF Orderly
<1> QED
  BY <1>4, <1>5 DEF Inv

--------------------------------------------------------------------------------
(* The steps. *)

\* What a call is after a step that changes its stage.
LEMMA StageTyped ==
  ASSUME NEW c \in Calls, NEW stage \in {"answered", "probing", "probedValid",
                                        "probedExpired", "abandoned"},
         NEW d, d = [c EXCEPT !.stage = stage]
  PROVE  /\ d \in Calls /\ d.stage = stage
         /\ d.kind = c.kind /\ d.dir = c.dir /\ d.push = c.push /\ d.listed = c.listed
BY DEF Calls

LEMMA InvByUser ==
  ASSUME Inv, User
  PROVE  Inv'
<1>0. calls \in Seq(Calls) /\ Len(calls) \in Nat /\ 0 \in 0..Len(calls)
  BY DEF Inv, CallsFit
<1>1. CASE OpenDirectory
  <2>1. PICK dir \in Dirs : StartLoad(dir, TRUE, 0)
    BY <1>1 DEF OpenDirectory
  <2> QED
    BY <1>0, <1>1, <2>1, InvByLoad DEF OpenDirectory, Inv, CallsFit
<1>2. CASE GoToRoot
  BY <1>0, <1>2, RootAssumption, InvByLoad DEF GoToRoot, Inv, CallsFit
<1>3. CASE PopState
  <2>1. PICK dir \in visited : url' = dir /\ StartLoad(dir, FALSE, 0)
    BY <1>3 DEF PopState
  <2>2. dir \in Dirs /\ visited' = visited
    BY <1>3 DEF PopState, Inv, CallsFit
  <2> QED
    BY <1>0, <2>1, <2>2, InvByLoad DEF Inv, CallsFit
<1>4. CASE StartDeleteConfirmation
  <2>1. PICK name \in rows \cap Files : dialog' = [name |-> name, listed |-> path]
    BY <1>4 DEF StartDeleteConfirmation
  <2>2. /\ ~leaving /\ NoPanel /\ ~loading
        /\ UNCHANGED <<held, url, visited, path, rows, loading, error, noAccess,
                       calls, leaving, disorder>>
    BY <1>4 DEF StartDeleteConfirmation, PageClickable, external, view
  <2>3. \A i : Loads(i)' = Loads(i) /\ Deletes(i)' = Deletes(i)
    BY <2>2 DEF Loads, Deletes, Pending
  <2>4. Orderly'
    BY <2>2, <2>3 DEF Inv, Orderly, NoPanel
  <2> QED
    BY <2>1, <2>2, <2>4 DEF Inv, CallsFit, DialogFits, DeletesWhatWasConfirmed
<1>5. CASE CancelDelete
  <2>1. dialog' = None
        /\ UNCHANGED <<held, url, visited, path, rows, loading, error, noAccess,
                       calls, leaving, disorder>>
    BY <1>5 DEF CancelDelete, external, view
  <2>2. \A i : Loads(i)' = Loads(i) /\ Deletes(i)' = Deletes(i)
    BY <2>1 DEF Loads, Deletes, Pending
  <2>3. Orderly'
    BY <2>1, <2>2 DEF Inv, Orderly, NoPanel
  <2> QED
    BY <2>1, <2>3 DEF Inv, CallsFit, DialogFits, DeletesWhatWasConfirmed
<1>6. CASE ConfirmDelete
  <2> DEFINE c == Call("delete", path, dialog.name, dialog.listed, FALSE, FALSE)
  <2>1. /\ dialog # None /\ dialog' = None /\ calls' = Append(calls, c)
        /\ UNCHANGED <<held, url, visited, path, rows, loading, error, noAccess,
                       leaving, disorder>>
    BY <1>6 DEF ConfirmDelete, external, view
  <2>2. c \in Calls /\ c.kind = "delete" /\ c.dir = path /\ c.listed = path
    BY <2>1 DEF Call, Calls, Inv, CallsFit, DialogFits
  <2> HIDE DEF c
  <2>3. /\ calls' \in Seq(Calls) /\ Len(calls') = Len(calls) + 1
        /\ calls'[Len(calls) + 1] = c
        /\ \A j \in 1..Len(calls) : calls'[j] = calls[j]
    BY <1>0, <2>1, <2>2
  <2>4. \A i : Loads(i)' => Loads(i)
    BY <1>0, <2>2, <2>3 DEF Loads, Pending
  <2>5. CallsFit' /\ DialogFits'
    BY <2>1, <2>3 DEF Inv, CallsFit, DialogFits
  <2>6. DeletesWhatWasConfirmed'
    BY <1>0, <2>2, <2>3 DEF Inv, DeletesWhatWasConfirmed
  <2>7. ~disorder => url = path /\ \A i : ~Loads(i)
    BY <2>1 DEF Inv, Orderly
  <2>8. Orderly'
    BY <2>1, <2>4, <2>7 DEF Orderly
  <2> QED
    BY <2>5, <2>6, <2>8 DEF Inv
<1> QED
  BY <1>1, <1>2, <1>3, <1>4, <1>5, <1>6 DEF User

LEMMA InvByServer ==
  ASSUME Inv, NEW i \in 1..Len(calls), Answer(i) \/ AnswerProbe(i)
  PROVE  Inv'
<1>0. calls \in Seq(Calls) /\ calls[i] \in Calls
  BY DEF Inv, CallsFit
<1>1. UNCHANGED <<url, visited, path, rows, loading, error, noAccess, dialog, leaving, disorder>>
  BY DEF Answer, AnswerProbe, external, view
<1>2. CASE Answer(i)
  <2> DEFINE c == calls[i]
             answered(answer, names) ==
               [c EXCEPT !.stage = "answered", !.answer = answer, !.names = names]
  <2>1. Listing(c.dir) \in SUBSET Entries \/ c.dir \notin DOMAIN held
    <3>1. SUFFICES ASSUME c.dir \in DOMAIN held
                   PROVE  Listing(c.dir) \in SUBSET Entries
      OBVIOUS
    <3> QED
      BY <3>1 DEF Listing, Entries, Inv, CallsFit
  <2>2. PICK answer \in {"ok", "rejected", "notFound", "unavailable"},
             names \in SUBSET Entries : Answered(i, answer, names)
    BY <1>2, <2>1 DEF Answer
  <2>3. /\ answered(answer, names) \in Calls
        /\ answered(answer, names).stage = "answered"
        /\ answered(answer, names).kind = c.kind /\ answered(answer, names).dir = c.dir
        /\ answered(answer, names).push = c.push
        /\ answered(answer, names).listed = c.listed
    BY <1>0 DEF Calls
  <2>4. calls' = [calls EXCEPT ![i] = answered(answer, names)]
    BY <2>2 DEF Answered
  <2>5. Pending(i)
    BY <1>2 DEF Answer, Pending
  <2>6. Moves(i, answered(answer, names))
    BY <2>3, <2>4, <2>5 DEF Moves
  <2>7. Loads(i)' = Loads(i)
    BY <1>0, <2>3, <2>6, MovesLoads
  <2>8. held' = held \/ \E dir \in DOMAIN held : \E name :
                           held' = [held EXCEPT ![dir] = @ \ {name}]
    BY <1>2 DEF Answer
  <2>9. DOMAIN held' \subseteq Dirs /\ \A d \in DOMAIN held' : held'[d] \subseteq Files
    BY <2>8 DEF Inv, CallsFit
  <2> QED
    BY <1>1, <2>6, <2>7, <2>9, InvByCall DEF NoPanel
<1>3. CASE AnswerProbe(i)
  <2>1. PICK stage \in {"probedValid", "probedExpired"} :
          calls' = [calls EXCEPT ![i].stage = stage]
    BY <1>3 DEF AnswerProbe
  <2>2. held' = held /\ calls[i].stage = "probing"
    BY <1>3 DEF AnswerProbe, external
  <2> DEFINE d == [calls[i] EXCEPT !.stage = stage]
  <2>3. /\ d \in Calls /\ d.stage = stage /\ d.kind = calls[i].kind /\ d.dir = calls[i].dir
        /\ d.push = calls[i].push /\ d.listed = calls[i].listed
    BY <1>0, StageTyped
  <2>4. calls' = [calls EXCEPT ![i] = d]
    BY <2>1
  <2> HIDE DEF d
  <2>5. Moves(i, d)
    BY <2>2, <2>3, <2>4 DEF Moves, Pending
  <2>6. Loads(i)' = Loads(i)
    BY <1>0, <2>3, <2>5, MovesLoads
  <2> QED
    BY <1>1, <2>2, <2>5, <2>6, InvByCall DEF NoPanel, Inv, CallsFit
<1> QED
  BY <1>2, <1>3

\* A call that is over.
LEMMA DoneMoves ==
  ASSUME Inv, NEW i \in 1..Len(calls), Done(i)
  PROVE  /\ Moves(i, Settled(calls[i]))
         /\ ~Loads(i)' /\ ~Deletes(i)'
<1>0. calls \in Seq(Calls) /\ calls[i] \in Calls
  BY DEF Inv, CallsFit
<1>1. calls' = [calls EXCEPT ![i] = Settled(calls[i])]
  BY DEF Done
<1>2. Moves(i, Settled(calls[i]))
  BY <1>0, <1>1, SettledMeans DEF Moves
<1> QED
  BY <1>0, <1>2, MovesMeans, SettledMeans DEF Loads, Deletes, Pending

LEMMA InvByShowListing ==
  ASSUME Inv, NEW i \in 1..Len(calls), ShowListing(i)
  PROVE  Inv'
<1>0. calls \in Seq(Calls) /\ calls[i] \in Calls /\ Loads(i)
  BY DEF Inv, CallsFit, ShowListing, Loads, Pending
<1>1. Done(i) /\ dialog' = None /\ path' = calls[i].dir
      /\ UNCHANGED <<held, error, noAccess, leaving, disorder>>
  BY DEF ShowListing, external
<1>2. IF calls[i].push
        THEN url' = calls[i].dir /\ visited' = visited \cup {calls[i].dir}
        ELSE UNCHANGED <<url, visited>>
  BY DEF ShowListing
<1>3. /\ Moves(i, Settled(calls[i])) /\ ~Loads(i)'
  BY <1>1, DoneMoves
<1>4. /\ calls' \in Seq(Calls) /\ Len(calls') = Len(calls)
      /\ \A j \in 1..Len(calls) :
           /\ calls'[j].kind = calls[j].kind /\ calls'[j].dir = calls[j].dir
           /\ calls'[j].listed = calls[j].listed
  BY <1>0, <1>3, MovesMeans
<1>5. /\ \A j : Loads(j)' => Loads(j)
  BY <1>0, <1>3, MovesLoads
<1>6. calls[i].dir \in Dirs
  BY <1>0 DEF Calls
<1>7. CallsFit'
  BY <1>1, <1>2, <1>4, <1>6 DEF Inv, CallsFit
<1>8. DialogFits' /\ DeletesWhatWasConfirmed'
  BY <1>1, <1>4 DEF Inv, DialogFits, DeletesWhatWasConfirmed
<1>9. Orderly'
  <2> SUFFICES ASSUME ~disorder
               PROVE  Orderly'
    BY <1>1 DEF Orderly
  <2>1. /\ calls[i].push \/ calls[i].dir = url
        /\ \A j : Loads(j) => j = i
    BY <1>0 DEF Inv, Orderly
  <2>2. url' = path' /\ \A j : ~Loads(j)'
    BY <1>1, <1>2, <1>3, <1>5, <2>1
  <2> QED
    BY <1>1, <2>2 DEF Orderly
<1> QED
  BY <1>7, <1>8, <1>9 DEF Inv

LEMMA InvByReceive ==
  ASSUME Inv, NEW i \in 1..Len(calls), Receive(i)
  PROVE  Inv'
<1>0. /\ calls \in Seq(Calls) /\ calls[i] \in Calls /\ Len(calls) \in Nat
      /\ DOMAIN held \subseteq Dirs /\ \A d \in DOMAIN held : held[d] \subseteq Files
  BY DEF Inv, CallsFit
<1>1. CASE ShowIdentity(i) \/ FailIdentity(i)
  <2>1. Done(i) /\ calls[i].kind = "identity"
        /\ UNCHANGED <<held, url, visited, path, loading, error, noAccess, dialog, leaving, disorder>>
    BY <1>1 DEF ShowIdentity, FailIdentity, external, view
  <2>2. ~Loads(i)
    BY <2>1 DEF Loads
  <2> QED
    BY <1>0, <2>1, <2>2, DoneMoves, InvByCall DEF NoPanel
<1>2. CASE FailLoad(i)
  <2>1. Done(i) /\ UNCHANGED <<held, url, visited, path, dialog, leaving, disorder>>
    BY <1>2 DEF FailLoad, external
  <2>2. ~NoPanel'
    BY <1>2 DEF FailLoad, NoPanel
  <2>3. Loads(i)
    BY <1>2 DEF FailLoad, Loads, Pending
  <2> QED
    BY <1>0, <2>1, <2>2, <2>3, DoneMoves, InvByCall
<1>3. CASE FailDelete(i)
  <2>1. Done(i) /\ error' = TRUE /\ calls[i].kind = "delete"
        /\ UNCHANGED <<held, url, visited, path, loading, dialog, leaving, disorder>>
    BY <1>3 DEF FailDelete, external
  <2>2. ~Loads(i) /\ ~NoPanel'
    BY <2>1 DEF Loads, NoPanel
  <2> QED
    BY <1>0, <2>1, <2>2, DoneMoves, InvByCall
<1>4. CASE Probe(i) \/ RedirectToLogin(i)
  <2>1. PICK stage \in {"probing", "abandoned"} :
          /\ calls' = [calls EXCEPT ![i].stage = stage]
          /\ stage = "abandoned" => leaving'
          /\ ~leaving' => ~leaving
    BY <1>4 DEF Probe, RedirectToLogin
  <2>2. /\ calls[i].stage \in {"answered", "probedExpired"}
        /\ UNCHANGED <<held, url, visited, path, loading, error, noAccess, dialog, disorder>>
    BY <1>4 DEF Probe, RedirectToLogin, external, view
  <2> DEFINE d == [calls[i] EXCEPT !.stage = stage]
  <2>3. /\ d \in Calls /\ d.stage = stage /\ d.kind = calls[i].kind /\ d.dir = calls[i].dir
        /\ d.push = calls[i].push /\ d.listed = calls[i].listed
    BY <1>0, StageTyped
  <2>4. calls' = [calls EXCEPT ![i] = d]
    BY <2>1
  <2> HIDE DEF d
  <2>5. Moves(i, d)
    BY <2>2, <2>3, <2>4 DEF Moves, Pending
  <2>6. stage = "probing" => Loads(i)' = Loads(i)
    BY <1>0, <2>3, <2>5, MovesLoads
  <2> QED
    BY <1>0, <2>1, <2>2, <2>5, <2>6, InvByCall DEF NoPanel
<1>5. CASE ReloadAfterDelete(i)
  <2>1. StartLoad(path, FALSE, i) /\ calls[i].kind = "delete" /\ Deletes(i)
        /\ UNCHANGED <<url, visited>>
    BY <1>5 DEF ReloadAfterDelete, Deletes, Pending
  <2>2. ~disorder' => ~disorder
    BY <2>1 DEF StartLoad
  <2>3. ~disorder => url = path
    BY <2>1 DEF Inv, Orderly
  <2>4. i \in 0..Len(calls) /\ path \in Dirs /\ url \in Dirs /\ visited \subseteq Dirs
    BY <1>0 DEF Inv, CallsFit
  <2> QED
    BY <2>1, <2>2, <2>3, <2>4, InvByLoad
<1> QED
  BY <1>1, <1>2, <1>3, <1>4, <1>5, InvByShowListing DEF Receive

LEMMA InvKept ==
  ASSUME Inv, [Next]_vars
  PROVE  Inv'
<1>1. CASE SessionChanges \/ DirVanishes \/ UNCHANGED vars
  <2>1. UNCHANGED <<url, visited, path, loading, error, noAccess, dialog, calls, leaving, disorder>>
    BY <1>1 DEF SessionChanges, DirVanishes, vars, view
  <2>2. held' = held \/ \E S \in SUBSET DOMAIN held : held' = [d \in S |-> held[d]]
    BY <1>1 DEF SessionChanges, DirVanishes, vars, external
  <2>3. DOMAIN held' \subseteq Dirs /\ \A d \in DOMAIN held' : held'[d] \subseteq Files
    BY <2>2 DEF Inv, CallsFit
  <2>4. \A i : Loads(i)' = Loads(i) /\ Deletes(i)' = Deletes(i)
    BY <2>1 DEF Loads, Deletes, Pending
  <2>5. Orderly'
    BY <2>1, <2>4 DEF Inv, Orderly, NoPanel
  <2> QED
    BY <2>1, <2>3, <2>5 DEF Inv, CallsFit, DialogFits, DeletesWhatWasConfirmed
<1> QED
  BY <1>1, InvByUser, InvByServer, InvByReceive DEF Next

LEMMA InvHolds == Spec => []Inv
<1>1. Init => Inv
  <2> SUFFICES ASSUME Init
               PROVE  Inv
    OBVIOUS
  <2>1. /\ held = [dir \in Dirs |-> Files] /\ url \in Dirs /\ visited = {url}
        /\ path = <<>> /\ loading = TRUE /\ dialog = None
        /\ calls = <<Load(url, FALSE, FALSE), Call("identity", <<>>, None, None, FALSE, FALSE)>>
    BY DEF Init
  <2>2. Load(url, FALSE, FALSE) \in Calls
    BY <2>1 DEF Load, Call, Calls
  <2>3. Call("identity", <<>>, None, None, FALSE, FALSE) \in Calls
    BY RootAssumption DEF Call, Calls
  <2>4. /\ calls[1].kind = "load" /\ calls[1].dir = url
        /\ calls[2].kind = "identity" /\ Len(calls) = 2
    BY <2>1 DEF Load, Call
  <2>5. CallsFit
    <3>1. \A c, d \in Calls : <<c, d>> \in Seq(Calls)
      OBVIOUS
    <3>2. calls \in Seq(Calls)
      BY <2>1, <2>2, <2>3, <3>1
    <3> QED
      BY <2>1, <3>2, RootAssumption DEF CallsFit
  <2>6. \A i \in 1..Len(calls) : i = 1 \/ i = 2
    BY <2>4
  <2>7. Orderly
    <3>1. (\A i : Loads(i) => i = 1) /\ \A i : ~Deletes(i)
      BY <2>4, <2>6 DEF Loads, Deletes
    <3>2. Loads(1)
      BY <2>1, <2>4 DEF Loads, Pending, Load, Call
    <3> QED
      BY <2>1, <2>4, <3>1, <3>2 DEF Orderly
  <2> QED
    BY <2>1, <2>4, <2>5, <2>6, <2>7 DEF Inv, DialogFits, DeletesWhatWasConfirmed
<1> QED
  BY <1>1, InvKept, PTL DEF Spec

--------------------------------------------------------------------------------
(* The theorems. *)

(* DeletesWhatWasConfirmed: App.vue sends a delete for the directory whose    *)
(* row was confirmed, however navigations and answers come between.           *)
THEOREM DeletesAsConfirmed == Spec => []DeletesWhatWasConfirmed
BY InvHolds, PTL DEF Inv

(* UrlIsPath: as long as App.vue starts no load beside another call or under  *)
(* a confirmation, the location is the directory shown once all is answered.  *)
THEOREM LocationFollows == Spec => []UrlIsPath
<1>1. Inv => UrlIsPath
  BY DEF Inv, Orderly, UrlIsPath, Busy, Loads
<1> QED
  BY <1>1, InvHolds, PTL

================================================================================
