------------------------------- MODULE LoginFlow --------------------------------
(***************************************************************************)
(* The signed cookies of backend/src/auth.rs as one browser with several   *)
(* tabs meets them: login, callback and logout, the auth gate, restarts of *)
(* the server and the passing of time. The browser has one login cookie    *)
(* and one session cookie for all its tabs; every answer that sets or      *)
(* clears one is on its way for a while, and what the other tabs do in the *)
(* meantime comes first.                                                   *)
(*                                                                         *)
(* A login is the number under which it was started: its state, its nonce  *)
(* and its PKCE verifier are fresh random values, so each stands for the   *)
(* login. The provider's keys and cache are the subject of OidcProvider;   *)
(* here a provider contact succeeds or fails.                              *)
(***************************************************************************)
EXTENDS AuthGate, Naturals

CONSTANTS
  Tabs,
  Pages,          \* pages of this origin
  Foreign,        \* return paths that are not
  Root,           \* the page `/`
  Identities,     \* what an ID token says: a subject, its names, its groups
  Oversized,      \* the identities whose session cookie a browser drops
  NoOne,          \* no identity
  NoCookie,
  Redeemed,       \* in the refinement: a login that has been redeemed
  SessionMaxAge, LoginMaxAge,
  MaxLogins, MaxTime, MaxRestarts   \* bounds

ASSUME LoginAssumption ==
  /\ Root \in Pages /\ Pages \cap Foreign = {}
  /\ Oversized \subseteq Identities /\ NoOne \notin Identities
  /\ {SessionMaxAge, LoginMaxAge} \subseteq Nat \ {0}
  /\ {MaxLogins, MaxTime, MaxRestarts} \subseteq Nat

Logins == 1..MaxLogins
Time == 0..MaxTime
Key == 0..MaxRestarts

\* The payloads that mint_login and mint_session sign, with the signing key.
LoginCookie == [key : Key, login : Logins, page : Pages]
SessionCookie ==
  [key : Key, exp : SessionMaxAge..MaxTime + SessionMaxAge, who : Identities]

\* What a tab shows or waits for. An answer is named after its endpoint.
Settled == {"Shown", "Unauthorized", "Unavailable", "AtProvider", "Away"}
PCs == Settled \cup {"Login", "LoginAnswer", "Callback", "Exchange", "CallbackAnswer",
                     "Landing", "Logout", "LogoutAnswer"}

VARIABLES
  now,         \* the clock, in the units of the maximal ages
  configured,  \* whether oidc.sessionSigningKey is set
  restarts,    \* how often the server was restarted
  minted,      \* the logins started so far
  issued,      \* what the provider will say of each login, once its code is issued
  spent,       \* the codes the provider has accepted
  login,       \* the browser's login cookie, with the time it is dropped
  session,     \* the browser's session cookie, likewise
  tab,         \* the tabs
  log,         \* the lines of the access log: successful logins
  spoiled      \* history: logins whose cookie was replaced, cleared, outlived or voided

vars == <<now, configured, restarts, minted, issued, spent, login, session, tab, log,
          spoiled>>
server == <<configured, restarts>>
browser == <<login, session>>
provider == <<issued, spent>>
history == <<log, spoiled>>

\* A cookie in the browser, with the time after which it is no longer sent.
Kept(cookies, maxAge) == [cookie : cookies, dies : 0..MaxTime + maxAge]

ASSUME CookieAssumption ==
  NoCookie \notin LoginCookie \cup Kept(LoginCookie, LoginMaxAge)

TypeOK ==
  /\ now \in Time /\ configured \in BOOLEAN /\ restarts \in Key
  /\ minted \in 0..MaxLogins
  /\ issued \in [Logins -> Identities \cup {NoOne}]
  /\ spent \subseteq Logins /\ spoiled \subseteq Logins
  /\ login \in Kept(LoginCookie, LoginMaxAge) \cup {NoCookie}
  /\ session \in Kept(SessionCookie, SessionMaxAge) \cup {NoCookie}
  /\ tab \in [Tabs -> [pc : PCs, page : Pages \cup Foreign, login : 0..MaxLogins,
                       carries : LoginCookie \cup {NoCookie},
                       sets : SessionCookie \cup {NoCookie}]]
  /\ log \subseteq [at : Time, who : Identities]

Init ==
  /\ now = 0 /\ configured \in BOOLEAN /\ restarts = 0
  /\ minted = 0 /\ issued = [n \in Logins |-> NoOne] /\ spent = {}
  /\ login = NoCookie /\ session = NoCookie
  /\ tab = [t \in Tabs |-> [pc |-> "Away", page |-> Root, login |-> 0,
                            carries |-> NoCookie, sets |-> NoCookie]]
  /\ log = {} /\ spoiled = {}

--------------------------------------------------------------------------------
(* Signing, verifying and sending. *)

\* Faulty variant: every process signs with a key of its own.
ProcessKey == restarts

\* The key is derived from the configured material, the same in every process,
\* or it is a random one that lives as long as the process.
SigningKey == IF configured THEN 0 ELSE restarts

\* Faulty variant: the expiration itself still counts.
LateSessionVerifies(c) == c # NoCookie /\ c.key = SigningKey /\ c.exp >= now

SessionVerifies(c) == c # NoCookie /\ c.key = SigningKey /\ c.exp > now
LoginVerifies(c) == c # NoCookie /\ c.key = SigningKey

Sent(kept) == IF kept # NoCookie THEN kept.cookie ELSE NoCookie

\* The identity of the browser's requests, and until when it has it.
Accepted == SessionVerifies(Sent(session))
Who == IF Accepted THEN session.cookie.who ELSE NoOne
Until == IF Accepted THEN session.cookie.exp ELSE 0

\* Faulty variant: the return path as it came.
ReturnToAsGiven(page) == page

SanitizeReturnTo(page) == IF page \in Pages THEN page ELSE Root

At(t, pc) == tab[t].pc = pc
HasCode(t) == tab[t].login # 0 /\ issued[tab[t].login] # NoOne

\* The tab goes on; an answer it has received is gone.
Goes(t, pc, page, n) ==
  tab' = [tab EXCEPT ![t] = [pc |-> pc, page |-> page, login |-> n,
                             carries |-> NoCookie, sets |-> NoCookie]]
Becomes(t, pc) == Goes(t, pc, Root, 0)
\* The tab ends at an error, from where its callback can be reloaded.
Stops(t, pc) == Goes(t, pc, Root, IF HasCode(t) THEN tab[t].login ELSE 0)

\* A request of a page through the gate.
Visit(t, page) ==
  IF Served(GateDecision("Oidc", "page", Accepted))
    THEN Goes(t, "Shown", page, 0)
    ELSE Goes(t, "Login", SanitizeReturnTo(page), 0)

--------------------------------------------------------------------------------
(* The browser asks for pages, data and downloads. *)

Open(t, page) ==
  /\ tab[t].pc \in Settled
  /\ Visit(t, page)
  /\ UNCHANGED <<now, server, minted, provider, browser, history>>

\* The link to the login endpoint itself, with any return path or none.
OpenLogin(t, page) ==
  /\ tab[t].pc \in Settled
  /\ Goes(t, "Login", page, 0)
  /\ UNCHANGED <<now, server, minted, provider, browser, history>>

\* A call of the page's own code: on a 401 client.ts goes through the login.
Call(t) ==
  /\ At(t, "Shown")
  /\ GateDecision("Oidc", "api", Accepted) = "Unauthorized"
  /\ Goes(t, "Login", tab[t].page, 0)
  /\ UNCHANGED <<now, server, minted, provider, browser, history>>

\* A download link is a navigation; the answer of the gate is what it shows.
Download(t) ==
  /\ At(t, "Shown")
  /\ GateDecision("Oidc", "api", Accepted) = "Unauthorized"
  /\ Stops(t, "Unauthorized")
  /\ UNCHANGED <<now, server, minted, provider, browser, history>>

--------------------------------------------------------------------------------
(* Login: GET /api/v1/auth/login. *)

Login(t) ==
  /\ At(t, "Login") /\ minted < MaxLogins
  /\ minted' = minted + 1
  /\ tab' = [tab EXCEPT ![t] =
               [pc |-> "LoginAnswer", page |-> Root, login |-> minted', sets |-> NoCookie,
                carries |-> [key |-> SigningKey, login |-> minted',
                             page |-> SanitizeReturnTo(tab[t].page)]]]
  /\ UNCHANGED <<now, server, provider, browser, history>>

LoginFails(t) ==
  /\ At(t, "Login")
  /\ Stops(t, "Unavailable")
  /\ UNCHANGED <<now, server, minted, provider, browser, history>>

\* The logins whose cookie goes when the browser's login cookie becomes another.
Replaced(n) == IF login = NoCookie THEN {} ELSE {login.cookie.login} \ {n}

ReceiveLogin(t) ==
  /\ At(t, "LoginAnswer")
  /\ login' = [cookie |-> tab[t].carries, dies |-> now + LoginMaxAge]
  /\ spoiled' = spoiled \cup Replaced(tab[t].login)
  /\ Goes(t, "AtProvider", Root, tab[t].login)
  /\ UNCHANGED <<now, server, minted, provider, session, log>>

--------------------------------------------------------------------------------
(* Callback: GET /api/v1/auth/callback. *)

\* The request carries the login cookie the browser has at that moment.
RequestsCallback(t) ==
  tab' = [tab EXCEPT ![t].pc = "Callback", ![t].carries = Sent(login)]

Authenticate(t, u) ==
  /\ At(t, "AtProvider") /\ issued[tab[t].login] = NoOne
  /\ issued' = [issued EXCEPT ![tab[t].login] = u]
  /\ RequestsCallback(t)
  /\ UNCHANGED <<now, server, minted, spent, browser, history>>

\* The provider redirects with an error in place of a code.
Deny(t) ==
  /\ At(t, "AtProvider") /\ issued[tab[t].login] = NoOne
  /\ RequestsCallback(t)
  /\ UNCHANGED <<now, server, minted, provider, browser, history>>

\* The page of a refused callback is reloaded.
Reload(t) ==
  /\ tab[t].pc \in {"Unauthorized", "Unavailable"}
  /\ tab[t].login # 0 /\ issued[tab[t].login] # NoOne
  /\ RequestsCallback(t)
  /\ UNCHANGED <<now, server, minted, provider, browser, history>>

\* Faulty variant: no comparison of the state.
AnyCallbackAccepted(t) == HasCode(t) /\ LoginVerifies(tab[t].carries)

CallbackAccepted(t) ==
  /\ HasCode(t)
  /\ LoginVerifies(tab[t].carries)
  /\ tab[t].carries.login = tab[t].login

\* Faulty variant: a refusal clears the login cookie.
CheckCallbackOrClear(t) ==
  /\ At(t, "Callback")
  /\ IF CallbackAccepted(t)
       THEN tab' = [tab EXCEPT ![t].pc = "Exchange"] /\ UNCHANGED login
       ELSE Stops(t, "Unauthorized") /\ login' = NoCookie
  /\ UNCHANGED <<now, server, minted, provider, session, history>>

CheckCallback(t) ==
  /\ At(t, "Callback")
  /\ IF CallbackAccepted(t) THEN tab' = [tab EXCEPT ![t].pc = "Exchange"]
                            ELSE Stops(t, "Unauthorized")
  /\ UNCHANGED <<now, server, minted, provider, browser, history>>

MintSession(u) == [key |-> SigningKey, exp |-> now + SessionMaxAge, who |-> u]

\* Faulty variant: only failures are logged.
LogNothing(u) == log

LogSuccess(u) == log \cup {[at |-> now, who |-> u]}

\* The code is exchanged; the ID token has to carry the nonce of the cookie.
Exchange(t) ==
  LET n == tab[t].login IN
  /\ At(t, "Exchange") /\ n \notin spent
  /\ spent' = spent \cup {n}
  /\ IF tab[t].carries.login = n
       THEN /\ tab' = [tab EXCEPT ![t].pc = "CallbackAnswer",
                                  ![t].page = SanitizeReturnTo(tab[t].carries.page),
                                  ![t].sets = MintSession(issued[n])]
            /\ log' = LogSuccess(issued[n])
       ELSE Stops(t, "Unauthorized") /\ UNCHANGED log
  /\ UNCHANGED <<now, server, minted, issued, browser, spoiled>>

\* The code is spent and there is no good ID token: none in the answer, or the claims
\* fail (after one refresh of the keys, too). The login cookie stays.
TokenRejected(t) ==
  LET n == tab[t].login IN
  /\ At(t, "Exchange") /\ n \notin spent
  /\ spent' = spent \cup {n}
  /\ Stops(t, "Unauthorized")
  /\ UNCHANGED <<now, server, minted, issued, browser, history>>

\* The provider refuses a spent code, or cannot be reached, for the refresh of its keys
\* either, or its answer is lost.
ExchangeFails(t) ==
  /\ At(t, "Exchange")
  /\ spent' \in {spent, spent \cup {tab[t].login}}
  /\ Stops(t, "Unavailable")
  /\ UNCHANGED <<now, server, minted, issued, browser, history>>

\* One answer sets the session cookie and clears the login cookie.
ReceiveSession(t) ==
  /\ At(t, "CallbackAnswer")
  /\ session' = IF tab[t].sets.who \in Oversized THEN session
                ELSE [cookie |-> tab[t].sets, dies |-> now + SessionMaxAge]
  /\ login' = NoCookie
  /\ spoiled' = spoiled \cup Replaced(tab[t].login)
  /\ Goes(t, "Landing", tab[t].page, 0)
  /\ UNCHANGED <<now, server, minted, provider, log>>

Land(t) ==
  /\ At(t, "Landing")
  /\ Visit(t, tab[t].page)
  /\ UNCHANGED <<now, server, minted, provider, browser, history>>

--------------------------------------------------------------------------------
(* Logout: GET /api/v1/auth/logout. *)

OpenLogout(t) ==
  /\ At(t, "Shown")
  /\ Becomes(t, "Logout")
  /\ UNCHANGED <<now, server, minted, provider, browser, history>>

\* Faulty variant: a provider that cannot be discovered fails the logout.
LogoutWithProvider(t) ==
  /\ At(t, "Logout")
  /\ Becomes(t, "LogoutAnswer") \/ Stops(t, "Unavailable")
  /\ UNCHANGED <<now, server, minted, provider, browser, history>>

\* The cookie is cleared whether the provider is discovered or not.
Logout(t) ==
  /\ At(t, "Logout")
  /\ Becomes(t, "LogoutAnswer")
  /\ UNCHANGED <<now, server, minted, provider, browser, history>>

ReceiveLogout(t) ==
  /\ At(t, "LogoutAnswer")
  /\ session' = NoCookie
  /\ Becomes(t, "Away")
  /\ UNCHANGED <<now, server, minted, provider, login, history>>

--------------------------------------------------------------------------------
(* Time, restarts, lost answers. *)

\* The browser drops a cookie after its Max-Age.
StillKept(kept, time) == IF kept # NoCookie /\ time >= kept.dies THEN NoCookie ELSE kept

Tick ==
  /\ now < MaxTime
  /\ now' = now + 1
  /\ login' = StillKept(login, now') /\ session' = StillKept(session, now')
  /\ spoiled' = spoiled \cup IF login' = login THEN {} ELSE {login.cookie.login}
  /\ UNCHANGED <<server, minted, provider, tab, log>>

\* A handler that waits for the provider is gone with its process.
Restart ==
  /\ restarts < MaxRestarts
  /\ restarts' = restarts + 1
  /\ spoiled' = spoiled \cup IF configured THEN {} ELSE 1..minted
  /\ tab' = [t \in Tabs |-> IF At(t, "Exchange")
                              THEN [tab[t] EXCEPT !.pc = "Unavailable", !.carries = NoCookie]
                              ELSE tab[t]]
  /\ UNCHANGED <<now, configured, minted, provider, browser, log>>

LoseAnswer(t) ==
  /\ tab[t].pc \in {"LoginAnswer", "CallbackAnswer", "LogoutAnswer"}
  /\ Stops(t, "Unavailable")
  /\ UNCHANGED <<now, server, minted, provider, browser, history>>

Next ==
  \/ \E t \in Tabs :
       \/ \E page \in Pages : Open(t, page)
       \/ \E page \in Foreign : OpenLogin(t, page)
       \/ Call(t) \/ Download(t)
       \/ Login(t) \/ LoginFails(t) \/ ReceiveLogin(t)
       \/ \E u \in Identities : Authenticate(t, u)
       \/ Deny(t) \/ Reload(t) \/ CheckCallback(t)
       \/ Exchange(t) \/ TokenRejected(t) \/ ExchangeFails(t)
       \/ ReceiveSession(t) \/ Land(t)
       \/ OpenLogout(t) \/ Logout(t) \/ ReceiveLogout(t) \/ LoseAnswer(t)
  \/ Tick
  \/ Restart

Spec == Init /\ [][Next]_vars

--------------------------------------------------------------------------------
(* Properties. *)

(* The cookies keep the promise of Session: requests are served only under   *)
(* an identity the provider vouched for in a login of this browser, each     *)
(* login counts once, whatever is reloaded, and nothing outlasts the         *)
(* SessionMaxAge of auth.rs, counted from the callback.                      *)
Promise == INSTANCE Session WITH
  vouched <- [n \in Logins |-> IF n \in spent THEN Redeemed ELSE issued[n]],
  ready   <- {[who |-> tab[t].sets.who, until |-> tab[t].sets.exp] :
                t \in {u \in Tabs : At(u, "CallbackAnswer")}},
  who     <- Who,
  until   <- Until
KeepsPromise == Promise!Spec

(* A callback that comes back from the provider with a good code is turned   *)
(* away (401) only when something happened to its login cookie since: the    *)
(* login of another tab replaced it, another callback cleared it, it was     *)
(* too late, or a restart made the key forget it; or, the code spent, when   *)
(* the provider's ID token failed. A refused callback harms no other login.  *)
RefusedForAReason ==
  [][\A t \in Tabs :
       (/\ tab[t].pc \in {"Callback", "Exchange"} /\ tab'[t].pc = "Unauthorized"
        /\ HasCode(t) /\ tab[t].login \notin spent)
       => tab[t].login \in spoiled \cup spent']_vars

(* A code is spent only with the login cookie of its own login, signed under *)
(* the key in force, whatever the other tabs and restarts did meanwhile: the *)
(* single-use code of a callback turned away for its cookie is still good.   *)
SpentWithItsCookie ==
  [][\A n \in spent' \ spent : \E t \in Tabs :
       /\ tab[t].login = n
       /\ LoginVerifies(tab[t].carries) /\ tab[t].carries.login = n]_vars

(* With a configured signing key nobody is logged out by a restart, and no   *)
(* login in flight is lost by one; with none, every session ends.            *)
RestartKeepsSessions ==
  [][restarts' # restarts =>
       /\ configured => Who' = Who /\ LoginVerifies(Sent(login))' = LoginVerifies(Sent(login))
       /\ ~configured => Who' = NoOne]_vars

(* After the answer of a logout the browser is logged out, whatever became   *)
(* of the provider, and a logout always gets that answer unless it is lost.  *)
LogoutEnds ==
  [][\A t \in Tabs : tab[t].pc \in {"Logout", "LogoutAnswer"} =>
       /\ tab'[t].pc = "Away" => Who' = NoOne
       /\ tab[t].pc = "Logout" => tab'[t].pc \in {"Logout", "LogoutAnswer"}]_vars

(* Whoever is served has a line in the access log, written when the session  *)
(* was minted.                                                               *)
SessionsAreLogged ==
  Who # NoOne => [at |-> Until - SessionMaxAge, who |-> Who] \in log
================================================================================
