------------------------------ MODULE SharedFiles ------------------------------
(***************************************************************************)
(* What the data endpoints of backend/src/lib.rs promise of a share that   *)
(* other programs change, without paths that are walked name by name: a    *)
(* request that is granted takes effect at one instant, inside the shared  *)
(* root, or not at all. A download is of a regular file that the share     *)
(* held, and of no other; a delete takes one file out of the share, and    *)
(* tells so exactly when it has. A request that is over stays as it ended. *)
(***************************************************************************)
EXTENDS Naturals

CONSTANTS
  Reqs, Requests,  \* the requests, and what each of them can be asked
  Granted,         \* what the access rules allow to ask
  Locs, Inside,    \* the locations of the share; those inside the shared root
  Files,           \* whatever a location can hold
  RegularFiles, Directories,  \* the regular files, the directories
  None,            \* no file, nothing asked
  Shares           \* the initial contents

VARIABLES
  share,    \* what each location holds
  unused,   \* the files that do not exist yet
  request   \* what was asked, how far that is, and the file it is about

vars == <<share, unused, request>>

Free == [call |-> None, state |-> "free", file |-> None]

Stands(r, state, file) ==
  request' = [request EXCEPT ![r] = [call |-> request[r].call, state |-> state, file |-> file]]

Init ==
  /\ share \in Shares
  /\ unused = Files \ {share[l] : l \in Locs}
  /\ request = [r \in Reqs |-> Free]

Ask(r) ==
  /\ request[r].state \notin {"asked", "found"}
  /\ request' = [request EXCEPT ![r] = request'[r]]
  /\ request'[r] \in [call : Requests[r], state : {"asked", "refused"}, file : {None}]
  /\ request'[r].state = "asked" => request'[r].call \in Granted
  /\ UNCHANGED <<share, unused>>

\* A download has its file the moment the file is found.
Find(r) ==
  /\ request[r].state = "asked" /\ request[r].call.op = "get"
  /\ \E l \in Inside :
       /\ share[l] \in RegularFiles
       /\ Stands(r, "found", share[l])
  /\ UNCHANGED <<share, unused>>

Serve(r) ==
  /\ request[r].state = "found"
  /\ Stands(r, "served", request[r].file)
  /\ UNCHANGED <<share, unused>>

\* A delete whose client has left still removes, but says nothing.
Remove(r) ==
  /\ request[r].state = "asked" /\ request[r].call.op = "delete"
  /\ \E l \in Inside :
       /\ share[l] \in Files \ Directories
       /\ share' = [share EXCEPT ![l] = None]
       /\ \E state \in {"removed", "gone"} : Stands(r, state, share[l])
  /\ UNCHANGED unused

List(r) ==
  /\ request[r].state = "asked" /\ request[r].call.op = "list"
  /\ Stands(r, "listed", None)
  /\ UNCHANGED <<share, unused>>

\* Nothing is found, something fails, or the client leaves.
End(r) ==
  /\ request[r].state \in {"asked", "found"}
  /\ \E state \in {"refused", "gone"} : Stands(r, state, None)
  /\ UNCHANGED <<share, unused>>

\* Other programs.
Create(l, f) ==
  /\ f \in unused
  /\ share' = [share EXCEPT ![l] = f]
  /\ unused' = unused \ {f}

Vanish(l) ==
  /\ share' = [share EXCEPT ![l] = None]
  /\ UNCHANGED unused

Rename(l, k) ==
  /\ share' = [share EXCEPT ![l] = None, ![k] = share[l]]
  /\ UNCHANGED unused

Others ==
  /\ UNCHANGED request
  /\ \/ \E l \in Locs, f \in Files : Create(l, f)
     \/ \E l \in Locs : Vanish(l)
     \/ \E l, k \in Locs : Rename(l, k)

Next ==
  \/ Others
  \/ \E r \in Reqs : Ask(r) \/ Find(r) \/ Serve(r) \/ Remove(r) \/ List(r) \/ End(r)

Spec == Init /\ [][Next]_vars
================================================================================
