-------------------------------- MODULE AuthGate --------------------------------
(***************************************************************************)
(* The auth gate of backend/src/auth.rs: which requests are served, by the *)
(* state of the authentication and the path. Shared by the modules that    *)
(* send requests through the gate.                                         *)
(***************************************************************************)

AuthStates == {"None", "Disabled", "Oidc"}

\* The paths of requests: the three auth endpoints, the rest of /api/, and
\* everything else (the SPA shell and its assets).
PathKinds == {"auth", "api", "page"}

\* `verified` says whether the session cookie of the request verifies.
GateDecision(state, kind, verified) ==
  CASE kind = "auth" \/ state = "Disabled"  -> "PassThrough"
    [] kind # "auth" /\ state = "None"      -> "Unavailable"
    [] kind # "auth" /\ state = "Oidc"      ->
         IF verified THEN "Authenticated"
         ELSE IF kind = "api" THEN "Unauthorized" ELSE "RedirectToLogin"

Served(decision) == decision \in {"PassThrough", "Authenticated"}
================================================================================
