-------------------------------- MODULE Session ---------------------------------
(***************************************************************************)
(* What the signed cookies of auth.rs promise of one browser, without      *)
(* cookies: who is logged in, and until when. A session begins only from a *)
(* login that the identity provider has vouched for, as the identity it    *)
(* vouched for, once per login; it lasts no longer than SessionMaxAge from *)
(* the moment the login was redeemed, and nothing renews or changes it.    *)
(***************************************************************************)
EXTENDS Naturals

CONSTANTS
  Logins,         \* the logins a browser starts
  Identities,     \* what an ID token says: a subject, its names, its groups
  NoOne,          \* nobody is logged in, nobody was vouched for
  Redeemed,       \* the login has been redeemed
  SessionMaxAge   \* how long a session lasts

VARIABLES
  now,       \* the server's clock
  vouched,   \* what the provider said of each login
  ready,     \* redeemed sessions on their way to the browser
  who,       \* the identity whose requests are served
  until      \* when that ends

vars == <<now, vouched, ready, who, until>>

Init ==
  /\ now = 0
  /\ vouched = [n \in Logins |-> NoOne]
  /\ ready = {}
  /\ who = NoOne
  /\ until = 0

Vouch(n) ==
  /\ vouched[n] = NoOne
  /\ \E u \in Identities : vouched' = [vouched EXCEPT ![n] = u]
  /\ UNCHANGED <<now, ready, who, until>>

\* The token of the login is on its way, or lost; it is not to be had again.
Redeem(n) ==
  /\ vouched[n] \in Identities
  /\ vouched' = [vouched EXCEPT ![n] = Redeemed]
  /\ ready' \in {ready, ready \cup {[who |-> vouched[n], until |-> now + SessionMaxAge]}}
  /\ UNCHANGED <<now, who, until>>

LoggedInAs(u, end) == who' = u /\ until' = end
LoggedOut == LoggedInAs(NoOne, 0)

\* A session arrives: it begins, or it is worthless, or it is dropped.
Begin(s) ==
  /\ ready' \in {ready, ready \ {s}}
  /\ \/ now < s.until /\ LoggedInAs(s.who, s.until)
     \/ LoggedOut
     \/ UNCHANGED <<who, until>>
  /\ UNCHANGED <<now, vouched>>

End ==
  /\ LoggedOut
  /\ UNCHANGED <<now, vouched, ready>>

Tick ==
  /\ now' = now + 1
  /\ IF now' < until THEN UNCHANGED <<who, until>> ELSE LoggedOut
  /\ UNCHANGED <<vouched, ready>>

Next ==
  \/ \E n \in Logins : Vouch(n) \/ Redeem(n)
  \/ \E s \in ready : Begin(s)
  \/ End
  \/ Tick

Spec == Init /\ [][Next]_vars
================================================================================
