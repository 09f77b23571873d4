---------------------------- MODULE MCOidcProvider -----------------------------
(* Two handlers, one authorization code and two rotations of the keys.           *)
EXTENDS OidcProvider
CONSTANTS t1, t2, c1
MCTasks == {t1, t2}
MCCodes == {c1}
================================================================================
