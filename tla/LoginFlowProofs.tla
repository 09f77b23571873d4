---------------------------- MODULE LoginFlowProofs ----------------------------
(***************************************************************************)
(* For every number of tabs, logins, restarts and ticks: the cookies keep  *)
(* the promise of Session, and what LoginFlow says of refusals, restarts,  *)
(* logout and the access log.                                              *)
(***************************************************************************)
EXTENDS LoginFlow, TLAPS

USE LoginAssumption

Tab == [pc : PCs, page : Pages \cup Foreign, login : 0..MaxLogins,
        carries : LoginCookie \cup {NoCookie}, sets : SessionCookie \cup {NoCookie}]

\* The line that is written in the access log when a session cookie is minted.
Line(c) == [at |-> c.exp - SessionMaxAge, who |-> c.who]

\* What a tab has when it has come so far.
TabFits(t) ==
  LET r == tab[t] IN
  /\ r.login <= minted
  /\ r.pc \in {"Shown", "Away", "Login", "Landing", "Logout", "LogoutAnswer"}
       => r.login = 0
  /\ r.pc \in {"LoginAnswer", "AtProvider", "Callback", "Exchange", "CallbackAnswer"}
       => r.login # 0
  /\ r.pc = "LoginAnswer" =>
       r.carries \in LoginCookie /\ r.carries.login = r.login /\ issued[r.login] = NoOne
  /\ r.pc = "Exchange" =>
       /\ r.carries \in LoginCookie /\ r.carries.login = r.login
       /\ r.carries.key = SigningKey /\ issued[r.login] # NoOne
  /\ r.pc = "CallbackAnswer" =>
       /\ r.login \in spent
       /\ r.sets \in SessionCookie
       /\ r.sets.key <= restarts /\ r.sets.exp <= now + SessionMaxAge
       /\ Line(r.sets) \in log

\* No two tabs are at one login, and only logins that were started have a code.
LoginsFit ==
  /\ \A t, u \in Tabs : tab[t].login # 0 /\ tab[t].login = tab[u].login => t = u
  /\ \A n \in Logins : issued[n] # NoOne => n <= minted
  /\ \A n \in spent : issued[n] # NoOne

\* The browser keeps a session cookie as long as it is valid.
SessionFits ==
  session # NoCookie =>
    /\ session.cookie.key <= restarts
    /\ session.cookie.exp <= session.dies
    /\ Line(session.cookie) \in log

\* The invariant that says how far everybody has come.
Protocol ==
  /\ TypeOK
  /\ \A t \in Tabs : TabFits(t)
  /\ LoginsFit
  /\ SessionFits

\* The login of a tab that nothing happened to has its cookie in the browser,
\* under the key that is in force, and its callback carries it.
Unharmed(t) ==
  LET n == tab[t].login IN
  n \notin spoiled \cup spent =>
    /\ At(t, "LoginAnswer") => tab[t].carries.key = SigningKey
    /\ /\ tab[t].pc \in {"AtProvider", "Callback", "Exchange", "Unauthorized", "Unavailable"}
       /\ n # 0
       => /\ login # NoCookie
          /\ login.cookie.login = n /\ login.cookie.key = SigningKey
    /\ At(t, "Callback") => /\ tab[t].carries # NoCookie
                            /\ tab[t].carries.login = n /\ tab[t].carries.key = SigningKey

LoginsUnharmed == \A t \in Tabs : Unharmed(t)

--------------------------------------------------------------------------------
(* The steps of the browser that only move a tab. *)

\* A tab goes on without its answer; a refused callback can be reloaded.
Moves(t) ==
  /\ \E pc \in {"Shown", "Login", "Unauthorized", "Unavailable", "Logout", "LogoutAnswer"},
        page \in Pages \cup Foreign, n \in {0, tab[t].login} :
       /\ Goes(t, pc, page, n)
       /\ n # 0 => /\ pc \in {"Unauthorized", "Unavailable"}
                   /\ tab[t].pc \in {"Callback", "CallbackAnswer"}
                   /\ issued[n] # NoOne
       /\ tab[t].pc = "Callback" => pc = "Unauthorized" /\ ~CallbackAccepted(t)
                                    /\ (HasCode(t) => n # 0)
       /\ tab[t].pc # "Exchange"
       /\ tab[t].pc \in {"Logout", "LogoutAnswer"} => pc \in {"LogoutAnswer", "Unavailable"}
       /\ tab[t].pc = "Logout" => pc = "LogoutAnswer"
  /\ UNCHANGED <<now, server, minted, provider, browser, history>>

\* The steps that wait for the cookies of the browser to be sent.
Asks(t) ==
  /\ RequestsCallback(t)
  /\ \/ /\ tab[t].pc = "AtProvider"
        /\ issued[tab[t].login] = NoOne
        /\ issued' = issued \/ \E u \in Identities :
                                 issued' = [issued EXCEPT ![tab[t].login] = u]
     \/ /\ tab[t].pc \in {"Unauthorized", "Unavailable"} /\ HasCode(t)
        /\ issued' = issued
  /\ UNCHANGED <<now, server, minted, spent, browser, history>>

\* A callback that is accepted goes on to the provider.
Accepts(t) ==
  /\ At(t, "Callback") /\ CallbackAccepted(t)
  /\ tab' = [tab EXCEPT ![t].pc = "Exchange"]
  /\ UNCHANGED <<now, server, minted, provider, browser, history>>

LEMMA VisitGoes ==
  ASSUME NEW t \in Tabs, NEW page \in Pages \cup Foreign, Visit(t, page)
  PROVE  \E pc \in {"Shown", "Login"}, to \in Pages \cup Foreign : Goes(t, pc, to, 0)
<1>1. SanitizeReturnTo(page) \in Pages \cup Foreign
  BY DEF SanitizeReturnTo
<1> QED
  BY <1>1 DEF Visit

LEMMA StopsGoes ==
  ASSUME Protocol, NEW t \in Tabs, NEW pc \in {"Unauthorized", "Unavailable"}, Stops(t, pc)
  PROVE  \/ Goes(t, pc, Root, 0) /\ ~HasCode(t)
         \/ Goes(t, pc, Root, tab[t].login) /\ HasCode(t)
BY DEF Stops

LEMMA StepKinds ==
  ASSUME Protocol, Next
  PROVE  \/ \E t \in Tabs :
              \/ Moves(t) \/ Asks(t) \/ Accepts(t)
              \/ Login(t) \/ ReceiveLogin(t) \/ Exchange(t) \/ TokenRejected(t)
              \/ ExchangeFails(t) \/ ReceiveSession(t) \/ ReceiveLogout(t)
         \/ Tick \/ Restart
<1>0. ASSUME NEW t \in Tabs
      PROVE  tab[t] \in Tab /\ TabFits(t)
  BY DEF Protocol, TypeOK, Tab
<1>1. ASSUME NEW t \in Tabs, NEW page \in Pages, Open(t, page)
      PROVE  Moves(t)
  BY <1>1, VisitGoes DEF Open, Moves, Settled
<1>2. ASSUME NEW t \in Tabs, NEW page \in Foreign, OpenLogin(t, page)
      PROVE  Moves(t)
  BY <1>2 DEF OpenLogin, Moves, Settled
<1>3. ASSUME NEW t \in Tabs, Call(t)
      PROVE  Moves(t)
  BY <1>0, <1>3 DEF Call, Moves, At, Tab
<1>4. ASSUME NEW t \in Tabs, Download(t)
      PROVE  Moves(t)
  BY <1>0, <1>4 DEF Download, Moves, At, Tab, Stops, HasCode, TabFits
<1>5. ASSUME NEW t \in Tabs, LoginFails(t)
      PROVE  Moves(t)
  BY <1>0, <1>5 DEF LoginFails, Moves, At, Tab, Stops, HasCode, TabFits
<1>6. ASSUME NEW t \in Tabs, NEW u \in Identities, Authenticate(t, u)
      PROVE  Asks(t)
  BY <1>6 DEF Authenticate, Asks, At
<1>7. ASSUME NEW t \in Tabs, Deny(t)
      PROVE  Asks(t)
  BY <1>7 DEF Deny, Asks, At, provider
<1>8. ASSUME NEW t \in Tabs, Reload(t)
      PROVE  Asks(t)
  BY <1>8 DEF Reload, Asks, HasCode, provider
<1>9. ASSUME NEW t \in Tabs, CheckCallback(t)
      PROVE  Moves(t) \/ Accepts(t)
  BY <1>0, <1>9 DEF CheckCallback, Moves, Accepts, At, Tab, Stops, HasCode
<1>10. ASSUME NEW t \in Tabs, Land(t)
       PROVE  Moves(t)
  BY <1>0, <1>10, VisitGoes DEF Land, Moves, At, Tab
<1>11. ASSUME NEW t \in Tabs, OpenLogout(t)
       PROVE  Moves(t)
  BY <1>11 DEF OpenLogout, Moves, At, Becomes
<1>12. ASSUME NEW t \in Tabs, Logout(t)
       PROVE  Moves(t)
  BY <1>12 DEF Logout, Moves, At, Becomes
<1>13. ASSUME NEW t \in Tabs, LoseAnswer(t)
       PROVE  Moves(t)
  BY <1>0, <1>13 DEF LoseAnswer, Moves, Tab, Stops, HasCode, TabFits
<1> QED
  BY <1>1, <1>2, <1>3, <1>4, <1>5, <1>6, <1>7, <1>8, <1>9, <1>10, <1>11, <1>12, <1>13
     DEF Next

--------------------------------------------------------------------------------
(* Every step keeps the protocol. *)

\* What is there when a tab moves: the tab becomes r, the others stay.
LEMMA TabBecomes ==
  ASSUME TypeOK, NEW t \in Tabs, NEW r \in Tab, tab' = [tab EXCEPT ![t] = r]
  PROVE  /\ tab' \in [Tabs -> Tab]
         /\ tab'[t] = r
         /\ \A u \in Tabs \ {t} : tab'[u] = tab[u]
BY DEF TypeOK, Tab

LEMMA TabTyped ==
  ASSUME TypeOK
  PROVE  tab \in [Tabs -> Tab] /\ \A t \in Tabs : tab[t] \in Tab
BY DEF TypeOK, Tab

\* A tab that stays as it is fits as before, when nothing it has is taken away.
LEMMA FitsOn ==
  ASSUME TypeOK, NEW t \in Tabs, TabFits(t), tab'[t] = tab[t],
         minted' \in Nat, minted' >= minted, restarts' \in Nat, restarts' >= restarts,
         At(t, "Exchange") => SigningKey' = SigningKey,
         now' \in Nat, now' >= now, spent \subseteq spent', log \subseteq log',
         tab[t].login # 0 => issued'[tab[t].login] = issued[tab[t].login]
  PROVE  TabFits(t)'
<1>1. tab[t] \in Tab
  BY TabTyped
<1>2. tab[t].login \in Nat /\ minted \in Nat /\ restarts \in Nat /\ now \in Nat
  BY <1>1 DEF TypeOK, Tab, Key, Time
<1>3. tab[t].pc = "CallbackAnswer" =>
        tab[t].sets.key <= restarts' /\ tab[t].sets.exp <= now' + SessionMaxAge
  <2> SUFFICES ASSUME tab[t].pc = "CallbackAnswer"
               PROVE  tab[t].sets.key <= restarts' /\ tab[t].sets.exp <= now' + SessionMaxAge
    OBVIOUS
  <2>1. tab[t].sets \in SessionCookie
    BY DEF TabFits
  <2>2. tab[t].sets.key \in Nat /\ tab[t].sets.exp \in Nat
    BY <2>1 DEF SessionCookie, Key
  <2> QED
    BY <1>2, <2>2 DEF TabFits
<1> QED
  BY <1>1, <1>2, <1>3 DEF TabFits, Line, Tab, At

LEMMA MovesProtocol ==
  ASSUME Protocol, NEW t \in Tabs, Moves(t)
  PROVE  Protocol'
<1> USE DEF server, provider, browser, history
<1>1. TypeOK /\ TabFits(t) /\ tab[t] \in Tab
  BY TabTyped DEF Protocol
<1>2. PICK pc \in {"Shown", "Login", "Unauthorized", "Unavailable", "Logout", "LogoutAnswer"},
           page \in Pages \cup Foreign, n \in {0, tab[t].login} :
        /\ Goes(t, pc, page, n)
        /\ n # 0 => pc \in {"Unauthorized", "Unavailable"}
  BY DEF Moves
<1> DEFINE r == [pc |-> pc, page |-> page, login |-> n,
                 carries |-> NoCookie, sets |-> NoCookie]
<1>3. r \in Tab
  BY <1>1 DEF Tab, PCs, Settled, TypeOK
<1>4. /\ tab' \in [Tabs -> Tab] /\ tab'[t] = r
      /\ \A u \in Tabs \ {t} : tab'[u] = tab[u]
  BY <1>1, <1>2, <1>3, TabBecomes DEF Goes
<1>5. TypeOK'
  BY <1>1, <1>4 DEF Moves, TypeOK, Tab
<1>6. TabFits(t)'
  BY <1>1, <1>2, <1>4 DEF TabFits, Moves, Tab, TypeOK
<1>7. ASSUME NEW u \in Tabs \ {t}
      PROVE  TabFits(u)'
  BY <1>1, <1>4, FitsOn DEF Protocol, Moves, TypeOK, SigningKey, Key, Time
<1>8. LoginsFit'
  BY <1>1, <1>4 DEF Protocol, LoginsFit, Moves, Tab
<1>9. SessionFits'
  BY DEF Protocol, SessionFits, Moves
<1> QED
  BY <1>5, <1>6, <1>7, <1>8, <1>9 DEF Protocol

LEMMA AsksProtocol ==
  ASSUME Protocol, NEW t \in Tabs, Asks(t)
  PROVE  Protocol'
<1> USE DEF server, provider, browser, history
<1> DEFINE r == [tab[t] EXCEPT !.pc = "Callback", !.carries = Sent(login)]
           n == tab[t].login
<1>1. TypeOK /\ TabFits(t) /\ tab[t] \in Tab
  BY TabTyped DEF Protocol
<1>2. Sent(login) \in LoginCookie \cup {NoCookie}
  BY <1>1 DEF Sent, TypeOK, Kept
<1>3. r \in Tab
  BY <1>1, <1>2 DEF Tab, PCs
<1>4. tab' = [tab EXCEPT ![t] = r]
  BY <1>1 DEF Asks, RequestsCallback, TypeOK
<1>5. /\ tab' \in [Tabs -> Tab] /\ tab'[t] = r
      /\ \A u \in Tabs \ {t} : tab'[u] = tab[u]
  BY <1>1, <1>3, <1>4, TabBecomes
<1>6. n \in Logins /\ n <= minted
  BY <1>1 DEF Asks, TabFits, HasCode, Tab, Logins
<1>7. /\ issued' \in [Logins -> Identities \cup {NoOne}]
      /\ \A m \in Logins \ {n} : issued'[m] = issued[m]
      /\ \A m \in Logins : issued[m] # NoOne => issued'[m] # NoOne
  BY <1>1, <1>6 DEF Asks, TypeOK
<1>8. TypeOK'
  BY <1>1, <1>5, <1>7 DEF Asks, TypeOK, Tab
<1>9. TabFits(t)'
  <2>1. tab'[t].pc = "Callback" /\ tab'[t].login = n
    BY <1>1, <1>5 DEF Tab
  <2>2. minted' = minted
    BY DEF Asks
  <2> QED
    BY <1>6, <2>1, <2>2 DEF TabFits, Logins
<1>10. ASSUME NEW u \in Tabs \ {t}
       PROVE  TabFits(u)'
  <2>1. tab[u] \in Tab /\ TabFits(u)
    BY <1>1, TabTyped DEF Protocol
  <2>2. tab[u].login # 0 => tab[u].login \in Logins \ {n}
    BY <2>1 DEF Protocol, LoginsFit, Tab, Logins
  <2>3. tab[u].login # 0 => issued'[tab[u].login] = issued[tab[u].login]
    BY <1>7, <2>2
  <2> QED
    BY <1>1, <1>5, <2>1, <2>3, FitsOn DEF Asks, TypeOK, SigningKey, Key, Time
<1>11. LoginsFit'
  <2>1. \A u \in Tabs : tab'[u].login = tab[u].login
    BY <1>1, <1>5 DEF Tab
  <2> QED
    BY <1>1, <1>6, <1>7, <2>1 DEF Protocol, LoginsFit, Asks, TypeOK
<1>12. SessionFits'
  BY DEF Protocol, SessionFits, Asks
<1> QED
  BY <1>8, <1>9, <1>10, <1>11, <1>12 DEF Protocol

LEMMA AcceptsProtocol ==
  ASSUME Protocol, NEW t \in Tabs, Accepts(t)
  PROVE  Protocol'
<1> USE DEF server, provider, browser, history
<1> DEFINE r == [tab[t] EXCEPT !.pc = "Exchange"]
<1>1. TypeOK /\ TabFits(t) /\ tab[t] \in Tab
  BY TabTyped DEF Protocol
<1>2. r \in Tab
  BY <1>1 DEF Tab, PCs
<1>3. tab' = [tab EXCEPT ![t] = r]
  BY <1>1 DEF Accepts, TypeOK
<1>4. /\ tab' \in [Tabs -> Tab] /\ tab'[t] = r
      /\ \A u \in Tabs \ {t} : tab'[u] = tab[u]
  BY <1>1, <1>2, <1>3, TabBecomes
<1>5. TypeOK'
  BY <1>1, <1>4 DEF Accepts, TypeOK, Tab
<1>6. TabFits(t)'
  BY <1>1, <1>4 DEF TabFits, Accepts, At, CallbackAccepted, HasCode, LoginVerifies, Tab,
     SigningKey
<1>7. ASSUME NEW u \in Tabs \ {t}
      PROVE  TabFits(u)'
  BY <1>1, <1>4, FitsOn DEF Protocol, Accepts, TypeOK, SigningKey, Key, Time
<1>8. LoginsFit'
  <2>1. \A u \in Tabs : tab'[u].login = tab[u].login
    BY <1>1, <1>4 DEF Tab
  <2> QED
    BY <2>1 DEF Protocol, LoginsFit, Accepts
<1>9. SessionFits'
  BY DEF Protocol, SessionFits, Accepts
<1> QED
  BY <1>5, <1>6, <1>7, <1>8, <1>9 DEF Protocol

LEMMA LoginProtocol ==
  ASSUME Protocol, NEW t \in Tabs, Login(t)
  PROVE  Protocol'
<1> USE DEF server, provider, browser, history
<1> DEFINE n == minted + 1
           c == [key |-> SigningKey, login |-> n, page |-> SanitizeReturnTo(tab[t].page)]
           r == [pc |-> "LoginAnswer", page |-> Root, login |-> n, sets |-> NoCookie,
                 carries |-> c]
<1>1. TypeOK /\ TabFits(t) /\ tab[t] \in Tab
  BY TabTyped DEF Protocol
<1>2. n \in Logins /\ minted \in Nat /\ minted' = n
  BY <1>1 DEF Login, TypeOK, Logins
<1>3. c \in LoginCookie
  BY <1>1, <1>2 DEF LoginCookie, SigningKey, SanitizeReturnTo, TypeOK, Key
<1>4. r \in Tab
  BY <1>2, <1>3 DEF Tab, PCs, Logins
<1>5. /\ tab' \in [Tabs -> Tab] /\ tab'[t] = r
      /\ \A u \in Tabs \ {t} : tab'[u] = tab[u]
  BY <1>1, <1>2, <1>4, TabBecomes DEF Login
<1>6. TypeOK'
  BY <1>1, <1>2, <1>5 DEF Login, TypeOK, Tab, Logins
<1>7. issued[n] = NoOne
  BY <1>2 DEF Protocol, LoginsFit
<1>8. TabFits(t)'
  <2>1. r.login = n /\ r.carries = c /\ c.login = n /\ r.pc = "LoginAnswer"
    OBVIOUS
  <2> QED
    BY <1>2, <1>3, <1>5, <1>7, <2>1 DEF TabFits, Login
<1>9. ASSUME NEW u \in Tabs \ {t}
      PROVE  TabFits(u)' /\ tab'[u].login \in 0..minted
  <2>1. tab[u] \in Tab /\ TabFits(u)
    BY <1>1, TabTyped DEF Protocol
  <2>2. tab[u].login \in 0..minted
    BY <1>2, <2>1 DEF TabFits, Tab
  <2> QED
    BY <1>1, <1>2, <1>5, <2>1, <2>2, FitsOn DEF Login, TypeOK, SigningKey, Key, Time
<1>10. LoginsFit'
  <2>1. \A u \in Tabs \ {t} : tab'[u].login # n /\ tab'[u].login = tab[u].login
    BY <1>2, <1>5, <1>9
  <2>2. tab'[t].login = n
    BY <1>5
  <2> QED
    BY <1>1, <1>2, <2>1, <2>2 DEF Protocol, LoginsFit, Login, Logins
<1>11. SessionFits'
  BY DEF Protocol, SessionFits, Login
<1> QED
  BY <1>6, <1>8, <1>9, <1>10, <1>11 DEF Protocol

LEMMA ReceiveLoginProtocol ==
  ASSUME Protocol, NEW t \in Tabs, ReceiveLogin(t)
  PROVE  Protocol'
<1> USE DEF server, provider, browser, history
<1> DEFINE n == tab[t].login
           r == [pc |-> "AtProvider", page |-> Root, login |-> n,
                 carries |-> NoCookie, sets |-> NoCookie]
<1>1. TypeOK /\ TabFits(t) /\ tab[t] \in Tab
  BY TabTyped DEF Protocol
<1>2. n \in Logins /\ tab[t].carries \in LoginCookie
  BY <1>1 DEF ReceiveLogin, At, TabFits, Tab, Logins
<1>3. r \in Tab
  BY <1>1 DEF Tab, PCs, Settled
<1>4. /\ tab' \in [Tabs -> Tab] /\ tab'[t] = r
      /\ \A u \in Tabs \ {t} : tab'[u] = tab[u]
  BY <1>1, <1>3, TabBecomes DEF ReceiveLogin, Goes
<1>5. login' \in Kept(LoginCookie, LoginMaxAge)
  BY <1>1, <1>2 DEF ReceiveLogin, Kept, TypeOK, Time
<1>6. spoiled' \subseteq Logins
  BY <1>1 DEF ReceiveLogin, Replaced, TypeOK, Kept, LoginCookie
<1>7. TypeOK'
  BY <1>1, <1>4, <1>5, <1>6 DEF ReceiveLogin, TypeOK, Tab
<1>8. TabFits(t)'
  <2>1. r.login = n /\ r.pc = "AtProvider"
    OBVIOUS
  <2> QED
    BY <1>1, <1>2, <1>4, <2>1 DEF TabFits, ReceiveLogin, Logins
<1>9. ASSUME NEW u \in Tabs \ {t}
      PROVE  TabFits(u)'
  BY <1>1, <1>4, FitsOn DEF Protocol, ReceiveLogin, TypeOK, SigningKey, Key, Time
<1>10. LoginsFit'
  <2>1. \A u \in Tabs : tab'[u].login = tab[u].login
    BY <1>4
  <2> QED
    BY <2>1 DEF Protocol, LoginsFit, ReceiveLogin
<1>11. SessionFits'
  BY DEF Protocol, SessionFits, ReceiveLogin
<1> QED
  BY <1>7, <1>8, <1>9, <1>10, <1>11 DEF Protocol

LEMMA ExchangeProtocol ==
  ASSUME Protocol, NEW t \in Tabs, Exchange(t)
  PROVE  /\ Protocol'
         /\ tab[t].login \in Logins /\ issued[tab[t].login] \in Identities
         /\ tab'[t].pc = "CallbackAnswer"
         /\ tab'[t].sets = MintSession(issued[tab[t].login])
         /\ \A u \in Tabs \ {t} : tab'[u] = tab[u]
<1> USE DEF server, provider, browser, history
<1> DEFINE n == tab[t].login
           s == MintSession(issued[n])
           page == SanitizeReturnTo(tab[t].carries.page)
           r == [tab[t] EXCEPT !.pc = "CallbackAnswer", !.page = page, !.sets = s]
<1>1. TypeOK /\ TabFits(t) /\ tab[t] \in Tab
  BY TabTyped DEF Protocol
<1>2. /\ n \in Logins /\ n <= minted /\ tab[t].carries.login = n
      /\ issued[n] \in Identities
  BY <1>1 DEF Exchange, At, TabFits, Tab, Logins, TypeOK
<1>3. s \in SessionCookie
  BY <1>1, <1>2 DEF MintSession, SessionCookie, SigningKey, TypeOK, SigningKey, Key, Time
<1>4. page \in Pages
  BY DEF SanitizeReturnTo
<1>5. r \in Tab
  BY <1>1, <1>3, <1>4 DEF Tab, PCs
<1>6. tab' = [tab EXCEPT ![t] = r]
  BY <1>1, <1>2 DEF Exchange, TypeOK
<1>7. /\ tab' \in [Tabs -> Tab] /\ tab'[t] = r
      /\ \A u \in Tabs \ {t} : tab'[u] = tab[u]
  BY <1>1, <1>5, <1>6, TabBecomes
<1>8. r.pc = "CallbackAnswer" /\ r.sets = s /\ r.login = n
  BY <1>1 DEF Tab
<1>9. log' = log \cup {Line(s)}
  <2>1. Line(s) = [at |-> now, who |-> issued[n]]
    BY <1>1 DEF Line, MintSession, TypeOK, Time
  <2> QED
    BY <1>2, <2>1 DEF Exchange, LogSuccess
<1>10. Line(s) \in [at : Time, who : Identities]
  BY <1>1, <1>2 DEF Line, MintSession, TypeOK, Time
<1>11. spent' = spent \cup {n}
  BY DEF Exchange
<1>12. TypeOK'
  BY <1>1, <1>2, <1>7, <1>9, <1>10, <1>11 DEF Exchange, TypeOK, Tab
<1>13. TabFits(t)'
  <2>1. s.key <= restarts' /\ s.exp <= now' + SessionMaxAge
    BY <1>1 DEF MintSession, SigningKey, Exchange, TypeOK, SigningKey, Key, Time
  <2>2. minted' = minted /\ Line(s) \in log' /\ n # 0
    BY <1>2, <1>9 DEF Exchange, Logins
  <2> HIDE DEF s, r, n
  <2> QED
    BY <1>2, <1>3, <1>7, <1>8, <1>11, <2>1, <2>2 DEF TabFits, Line
<1>14. ASSUME NEW u \in Tabs \ {t}
       PROVE  TabFits(u)'
  BY <1>1, <1>7, <1>9, <1>11, FitsOn DEF Protocol, Exchange, TypeOK, SigningKey, Key, Time
<1>15. LoginsFit'
  <2>1. \A u \in Tabs : tab'[u].login = tab[u].login
    BY <1>7, <1>8
  <2> QED
    BY <1>2, <1>11, <2>1 DEF Protocol, LoginsFit, Exchange
<1>16. SessionFits'
  BY <1>9 DEF Protocol, SessionFits, Exchange, Line
<1> QED
  BY <1>2, <1>7, <1>8, <1>12, <1>13, <1>14, <1>15, <1>16 DEF Protocol

LEMMA ExchangeFailsProtocol ==
  ASSUME Protocol, NEW t \in Tabs, TokenRejected(t) \/ ExchangeFails(t)
  PROVE  /\ Protocol'
         /\ tab[t].login \in Logins /\ issued[tab[t].login] \in Identities
         /\ tab'[t].pc \in {"Unauthorized", "Unavailable"}
         /\ (ExchangeFails(t) => tab'[t].pc = "Unavailable")
         /\ tab'[t].login = tab[t].login
         /\ \A u \in Tabs \ {t} : tab'[u] = tab[u]
<1> USE DEF server, provider, browser, history
<1>0. PICK pc \in {"Unauthorized", "Unavailable"} :
        Stops(t, pc) /\ (ExchangeFails(t) => pc = "Unavailable")
  BY DEF TokenRejected, ExchangeFails
<1> DEFINE n == tab[t].login
           r == [pc |-> pc, page |-> Root, login |-> n,
                 carries |-> NoCookie, sets |-> NoCookie]
<1>1. TypeOK /\ TabFits(t) /\ tab[t] \in Tab
  BY TabTyped DEF Protocol
<1>2. n \in Logins /\ n <= minted /\ issued[n] \in Identities /\ HasCode(t)
  BY <1>1 DEF TokenRejected, ExchangeFails, At, TabFits, Tab, Logins, TypeOK, HasCode
<1>3. r \in Tab
  BY <1>1 DEF Tab, PCs, Settled
<1>4. /\ tab' \in [Tabs -> Tab] /\ tab'[t] = r
      /\ \A u \in Tabs \ {t} : tab'[u] = tab[u]
  BY <1>0, <1>1, <1>2, <1>3, TabBecomes DEF Stops, Goes
<1>5. spent \subseteq spent' /\ spent' \subseteq spent \cup {n}
  BY DEF TokenRejected, ExchangeFails
<1>6. TypeOK'
  BY <1>1, <1>2, <1>4, <1>5 DEF TokenRejected, ExchangeFails, TypeOK, Tab
<1>7. TabFits(t)'
  <2>1. r.login = n /\ r.pc \in {"Unauthorized", "Unavailable"}
    OBVIOUS
  <2> QED
    BY <1>2, <1>4, <2>1 DEF TabFits, TokenRejected, ExchangeFails, Logins
<1>8. ASSUME NEW u \in Tabs \ {t}
      PROVE  TabFits(u)'
  <2>1. UNCHANGED <<now, configured, restarts, minted, issued, log>>
    BY DEF TokenRejected, ExchangeFails
  <2> QED
    BY <1>1, <1>4, <1>5, <2>1, FitsOn DEF Protocol, TypeOK, SigningKey, Key, Time
<1>9. LoginsFit'
  <2>1. \A u \in Tabs : tab'[u].login = tab[u].login
    BY <1>4
  <2> QED
    BY <1>2, <1>5, <2>1 DEF Protocol, LoginsFit, TokenRejected, ExchangeFails
<1>10. SessionFits'
  BY DEF Protocol, SessionFits, TokenRejected, ExchangeFails
<1> QED
  BY <1>0, <1>2, <1>4, <1>6, <1>7, <1>8, <1>9, <1>10 DEF Protocol

LEMMA ReceiveSessionProtocol ==
  ASSUME Protocol, NEW t \in Tabs, ReceiveSession(t)
  PROVE  /\ Protocol'
         /\ tab'[t].pc = "Landing"
         /\ \A u \in Tabs \ {t} : tab'[u] = tab[u]
<1> USE DEF server, provider, browser, history
<1> DEFINE s == tab[t].sets
           r == [pc |-> "Landing", page |-> tab[t].page, login |-> 0,
                 carries |-> NoCookie, sets |-> NoCookie]
<1>1. TypeOK /\ TabFits(t) /\ tab[t] \in Tab
  BY TabTyped DEF Protocol
<1>2. /\ s \in SessionCookie /\ s.key <= restarts /\ s.exp <= now + SessionMaxAge
      /\ Line(s) \in log
  BY <1>1 DEF ReceiveSession, At, TabFits
<1>3. r \in Tab
  BY <1>1 DEF Tab, PCs
<1>4. /\ tab' \in [Tabs -> Tab] /\ tab'[t] = r
      /\ \A u \in Tabs \ {t} : tab'[u] = tab[u]
  BY <1>1, <1>3, TabBecomes DEF ReceiveSession, Goes
<1>5. session' \in Kept(SessionCookie, SessionMaxAge) \cup {NoCookie}
  BY <1>1, <1>2 DEF ReceiveSession, Kept, TypeOK, Time
<1>6. spoiled' \subseteq Logins
  BY <1>1 DEF ReceiveSession, Replaced, TypeOK, Kept, LoginCookie
<1>7. TypeOK'
  BY <1>1, <1>4, <1>5, <1>6 DEF ReceiveSession, TypeOK, Tab
<1>8. TabFits(t)'
  <2>1. r.login = 0 /\ r.pc = "Landing"
    OBVIOUS
  <2> QED
    BY <1>1, <1>4, <2>1 DEF TabFits, ReceiveSession, TypeOK
<1>9. ASSUME NEW u \in Tabs \ {t}
      PROVE  TabFits(u)'
  BY <1>1, <1>4, FitsOn DEF Protocol, ReceiveSession, TypeOK, SigningKey, Key, Time
<1>10. LoginsFit'
  <2>1. \A u \in Tabs : tab'[u].login # 0 => tab'[u].login = tab[u].login
    BY <1>4
  <2> QED
    BY <2>1 DEF Protocol, LoginsFit, ReceiveSession
<1>11. SessionFits'
  <2>1. CASE session' = session
    BY <2>1 DEF Protocol, SessionFits, ReceiveSession
  <2>2. CASE session' = [cookie |-> s, dies |-> now + SessionMaxAge]
    <3> HIDE DEF s
    <3>1. session'.cookie = s /\ session'.dies = now + SessionMaxAge
      BY <2>2
    <3> QED
      BY <1>2, <3>1 DEF SessionFits, ReceiveSession
  <2> QED
    BY <2>1, <2>2 DEF ReceiveSession
<1> QED
  BY <1>4, <1>7, <1>8, <1>9, <1>10, <1>11 DEF Protocol

LEMMA ReceiveLogoutProtocol ==
  ASSUME Protocol, NEW t \in Tabs, ReceiveLogout(t)
  PROVE  /\ Protocol'
         /\ tab'[t].pc = "Away"
         /\ \A u \in Tabs \ {t} : tab'[u] = tab[u]
<1> USE DEF server, provider, history
<1> DEFINE r == [pc |-> "Away", page |-> Root, login |-> 0,
                 carries |-> NoCookie, sets |-> NoCookie]
<1>1. TypeOK /\ TabFits(t) /\ tab[t] \in Tab
  BY TabTyped DEF Protocol
<1>2. r \in Tab
  BY DEF Tab, PCs, Settled
<1>3. /\ tab' \in [Tabs -> Tab] /\ tab'[t] = r
      /\ \A u \in Tabs \ {t} : tab'[u] = tab[u]
  BY <1>1, <1>2, TabBecomes DEF ReceiveLogout, Becomes, Goes
<1>4. TypeOK'
  BY <1>1, <1>3 DEF ReceiveLogout, TypeOK, Tab
<1>5. TabFits(t)'
  <2>1. r.login = 0 /\ r.pc = "Away"
    OBVIOUS
  <2> QED
    BY <1>1, <1>3, <2>1 DEF TabFits, ReceiveLogout, TypeOK
<1>6. ASSUME NEW u \in Tabs \ {t}
      PROVE  TabFits(u)'
  BY <1>1, <1>3, FitsOn DEF Protocol, ReceiveLogout, TypeOK, SigningKey, Key, Time
<1>7. LoginsFit'
  <2>1. \A u \in Tabs : tab'[u].login # 0 => tab'[u].login = tab[u].login
    BY <1>3
  <2> QED
    BY <2>1 DEF Protocol, LoginsFit, ReceiveLogout
<1>8. SessionFits'
  BY DEF SessionFits, ReceiveLogout
<1> QED
  BY <1>3, <1>4, <1>5, <1>6, <1>7, <1>8 DEF Protocol

LEMMA TickProtocol ==
  ASSUME Protocol, Tick
  PROVE  Protocol'
<1> USE DEF server, provider
<1>1. TypeOK
  BY DEF Protocol
<1>2. now' \in Time /\ now' = now + 1
  BY <1>1 DEF Tick, TypeOK, Time
<1>3. login' \in {login, NoCookie} /\ session' \in {session, NoCookie}
  BY DEF Tick, StillKept
<1>4. spoiled' \subseteq Logins
  <2>1. login' # login => login \in Kept(LoginCookie, LoginMaxAge)
    BY <1>1 DEF Tick, StillKept, TypeOK
  <2> QED
    BY <1>1, <2>1 DEF Tick, TypeOK, Kept, LoginCookie
<1>5. TypeOK'
  BY <1>1, <1>2, <1>3, <1>4 DEF Tick, TypeOK
<1>6. ASSUME NEW t \in Tabs
      PROVE  TabFits(t)'
  BY <1>1, <1>2, FitsOn DEF Protocol, Tick, TypeOK, SigningKey, Key, Time
<1>7. LoginsFit'
  BY DEF Protocol, LoginsFit, Tick
<1>8. SessionFits'
  BY <1>3 DEF Protocol, SessionFits, Tick
<1> QED
  BY <1>5, <1>6, <1>7, <1>8 DEF Protocol

\* A restart takes the tabs that wait for the provider to an error, no others.
LEMMA RestartTabs ==
  ASSUME TypeOK, Restart
  PROVE  /\ tab' \in [Tabs -> Tab]
         /\ \A t \in Tabs :
              /\ ~At(t, "Exchange") => tab'[t] = tab[t]
              /\ At(t, "Exchange") =>
                   tab'[t].pc = "Unavailable" /\ tab'[t].login = tab[t].login
<1>1. \A u \in Tabs :
        [tab[u] EXCEPT !.pc = "Unavailable", !.carries = NoCookie] \in Tab
  BY TabTyped DEF Tab, PCs, Settled
<1>2. tab' \in [Tabs -> Tab]
  BY <1>1, TabTyped DEF Restart
<1>3. ASSUME NEW t \in Tabs
      PROVE  /\ [tab[t] EXCEPT !.pc = "Unavailable", !.carries = NoCookie].pc = "Unavailable"
             /\ [tab[t] EXCEPT !.pc = "Unavailable", !.carries = NoCookie].login = tab[t].login
  BY TabTyped DEF Tab
<1> QED
  BY <1>2, <1>3 DEF Restart

\* What a restart does besides.
LEMMA RestartElse ==
  ASSUME Restart
  PROVE  /\ restarts < MaxRestarts /\ restarts' = restarts + 1
         /\ spoiled' = spoiled \cup IF configured THEN {} ELSE 1..minted
         /\ UNCHANGED <<now, configured, minted, issued, spent, login, session, log>>
<1>1. UNCHANGED <<provider, browser>> /\ UNCHANGED <<now, configured, minted, log>>
  BY DEF Restart
<1> QED
  BY <1>1, Zenon DEF Restart, provider, browser

LEMMA RestartProtocol ==
  ASSUME Protocol, Restart
  PROVE  Protocol'
<1>1. TypeOK
  BY DEF Protocol
<1>2. restarts' \in Key /\ restarts' = restarts + 1
  BY <1>1, RestartElse DEF TypeOK, Key
<1>3. spoiled' \subseteq Logins
  <2>1. spoiled \subseteq Logins /\ 1..minted \subseteq Logins
    BY <1>1 DEF TypeOK, Logins
  <2>2. spoiled' \subseteq spoiled \cup 1..minted
    BY RestartElse, Zenon
  <2> QED
    BY <2>1, <2>2
<1>4. tab' \in [Tabs -> Tab]
  BY <1>1, RestartTabs
<1>5. TypeOK'
  BY <1>1, <1>2, <1>3, <1>4, RestartElse DEF TypeOK, Tab
<1>6. ASSUME NEW t \in Tabs
      PROVE  TabFits(t)'
  <2>1. CASE At(t, "Exchange")
    BY <1>1, <2>1, RestartTabs, RestartElse DEF Protocol, TabFits, At
  <2>2. CASE ~At(t, "Exchange")
    BY <1>1, <1>2, <2>2, RestartTabs, RestartElse, FitsOn
       DEF Protocol, TypeOK, Key, Time
  <2> QED
    BY <2>1, <2>2
<1>7. LoginsFit'
  <2>1. \A u \in Tabs : tab'[u].login = tab[u].login
    BY <1>1, RestartTabs
  <2> QED
    BY <2>1, RestartElse DEF Protocol, LoginsFit
<1>8. SessionFits'
  <2>1. session # NoCookie => session.cookie.key \in Nat
    BY <1>1 DEF TypeOK, Kept, SessionCookie, Key
  <2> QED
    BY <1>1, <1>2, <2>1, RestartElse DEF Protocol, SessionFits, TypeOK, Key
<1> QED
  BY <1>5, <1>6, <1>7, <1>8 DEF Protocol

LEMMA ProtocolKept ==
  ASSUME Protocol, [Next]_vars
  PROVE  Protocol'
<1>1. CASE Next
  BY <1>1, StepKinds, MovesProtocol, AsksProtocol, AcceptsProtocol, LoginProtocol,
     ReceiveLoginProtocol, ExchangeProtocol, ExchangeFailsProtocol,
     ReceiveSessionProtocol, ReceiveLogoutProtocol, TickProtocol, RestartProtocol
<1>2. CASE UNCHANGED vars
  BY <1>2 DEF Protocol, TypeOK, TabFits, LoginsFit, SessionFits, SigningKey, vars
<1> QED
  BY <1>1, <1>2

LEMMA ProtocolHolds == Spec => []Protocol
<1>1. Init => Protocol
  <2> SUFFICES ASSUME Init
               PROVE  Protocol
    OBVIOUS
  <2> DEFINE r == [pc |-> "Away", page |-> Root, login |-> 0,
                   carries |-> NoCookie, sets |-> NoCookie]
  <2>1. r \in Tab
    BY DEF Tab, PCs, Settled
  <2>2. tab \in [Tabs -> Tab] /\ \A t \in Tabs : tab[t] = r
    BY <2>1 DEF Init
  <2>3. TypeOK
    BY <2>2 DEF Init, TypeOK, Tab, Time, Key
  <2>4. ASSUME NEW t \in Tabs
        PROVE  TabFits(t)
    <3>1. r.pc = "Away" /\ r.login = 0
      OBVIOUS
    <3> QED
      BY <2>2, <3>1 DEF Init, TabFits
  <2>5. LoginsFit /\ SessionFits
    BY <2>2 DEF Init, LoginsFit, SessionFits
  <2> QED
    BY <2>3, <2>4, <2>5 DEF Protocol
<1> QED
  BY <1>1, ProtocolKept, PTL DEF Spec

(* The types of the server's, the provider's and the browser's state, of what *)
(* every tab waits for and of every cookie on its way.                        *)
THEOREM TypeCorrect == Spec => []TypeOK
BY ProtocolHolds, PTL DEF Protocol

(* SessionsAreLogged of auth.rs's callback: whoever the gate serves has a     *)
(* line in the access log from when the session was minted.                   *)
THEOREM EverySessionIsLogged == Spec => []SessionsAreLogged
<1>1. Protocol => SessionsAreLogged
  BY DEF Protocol, SessionFits, SessionsAreLogged, Who, Until, Accepted, Sent,
         SessionVerifies, Line
<1> QED
  BY <1>1, ProtocolHolds, PTL

--------------------------------------------------------------------------------
(* What may happen to a login. *)

\* A tab that stays is unharmed, unless its cookie is another's now.
LEMMA UnharmedOn ==
  ASSUME NEW t \in Tabs, Unharmed(t), tab'[t] = tab[t], SigningKey' = SigningKey,
         spoiled \subseteq spoiled', spent \subseteq spent',
         \/ login' = login
         \/ login = NoCookie
         \/ login.cookie.login \in spoiled'
         \/ login.cookie.login # tab[t].login
  PROVE  Unharmed(t)'
BY DEF Unharmed, At

LEMMA UnharmedKept ==
  ASSUME Protocol, LoginsUnharmed, [Next]_vars
  PROVE  LoginsUnharmed'
<1> USE DEF server, provider, browser, history
<1>0. TypeOK /\ \A t \in Tabs : TabFits(t) /\ tab[t] \in Tab /\ Unharmed(t)
  BY TabTyped DEF Protocol, LoginsUnharmed
<1>1. ASSUME NEW t \in Tabs, Moves(t)
      PROVE  LoginsUnharmed'
  <2>1. PICK pc \in {"Shown", "Login", "Unauthorized", "Unavailable", "Logout",
                     "LogoutAnswer"},
             page \in Pages \cup Foreign, n \in {0, tab[t].login} :
          /\ Goes(t, pc, page, n)
          /\ n # 0 => /\ pc \in {"Unauthorized", "Unavailable"}
                      /\ tab[t].pc \in {"Callback", "CallbackAnswer"}
    BY <1>1 DEF Moves
  <2> DEFINE r == [pc |-> pc, page |-> page, login |-> n,
                   carries |-> NoCookie, sets |-> NoCookie]
  <2>2. /\ tab'[t] = r /\ r.pc = pc /\ r.login = n
        /\ \A u \in Tabs \ {t} : tab'[u] = tab[u]
    BY <1>0, <2>1 DEF Goes, TypeOK
  <2>3. SigningKey' = SigningKey /\ UNCHANGED <<spent, spoiled, login>>
    BY <1>1 DEF Moves, SigningKey
  <2>4. Unharmed(t)'
    <3>1. tab[t].pc = "CallbackAnswer" => tab[t].login \in spent
      BY <1>0 DEF TabFits
    <3> HIDE DEF r
    <3> QED
      BY <1>0, <2>1, <2>2, <2>3, <3>1 DEF Unharmed, At
  <2> QED
    BY <1>0, <2>2, <2>3, <2>4, UnharmedOn DEF LoginsUnharmed
<1>2. ASSUME NEW t \in Tabs, Asks(t)
      PROVE  LoginsUnharmed'
  <2>1. /\ tab'[t].pc = "Callback" /\ tab'[t].login = tab[t].login
        /\ tab'[t].carries = Sent(login)
        /\ \A u \in Tabs \ {t} : tab'[u] = tab[u]
    BY <1>0, <1>2 DEF Asks, RequestsCallback, TypeOK, Tab
  <2>2. SigningKey' = SigningKey /\ UNCHANGED <<spent, spoiled, login>>
    BY <1>2 DEF Asks, SigningKey
  <2>3. tab[t].pc \in {"AtProvider", "Unauthorized", "Unavailable"} /\ tab[t].login # 0
    BY <1>0, <1>2 DEF Asks, HasCode, TabFits
  <2>4. login # NoCookie => login.cookie \in LoginCookie /\ Sent(login) = login.cookie
    BY <1>0 DEF TypeOK, Kept, Sent
  <2>5. Unharmed(t)'
    BY <1>0, <2>1, <2>2, <2>3, <2>4, CookieAssumption DEF Unharmed, At
  <2> QED
    BY <1>0, <2>1, <2>2, <2>5, UnharmedOn DEF LoginsUnharmed
<1>3. ASSUME NEW t \in Tabs, Accepts(t)
      PROVE  LoginsUnharmed'
  <2>1. /\ tab'[t].pc = "Exchange" /\ tab'[t].login = tab[t].login
        /\ \A u \in Tabs \ {t} : tab'[u] = tab[u]
    BY <1>0, <1>3 DEF Accepts, TypeOK, Tab
  <2>2. SigningKey' = SigningKey /\ UNCHANGED <<spent, spoiled, login>>
    BY <1>3 DEF Accepts, SigningKey
  <2>3. Unharmed(t)'
    BY <1>0, <1>3, <2>1, <2>2 DEF Unharmed, At, Accepts
  <2> QED
    BY <1>0, <2>1, <2>2, <2>3, UnharmedOn DEF LoginsUnharmed
<1>4. ASSUME NEW t \in Tabs, Login(t)
      PROVE  LoginsUnharmed'
  <2>1. /\ tab'[t].pc = "LoginAnswer" /\ tab'[t].carries.key = SigningKey
        /\ \A u \in Tabs \ {t} : tab'[u] = tab[u]
    BY <1>0, <1>4 DEF Login, TypeOK
  <2>2. SigningKey' = SigningKey /\ UNCHANGED <<spent, spoiled, login>>
    BY <1>4 DEF Login, SigningKey
  <2>3. Unharmed(t)'
    BY <2>1, <2>2 DEF Unharmed, At
  <2> QED
    BY <1>0, <2>1, <2>2, <2>3, UnharmedOn DEF LoginsUnharmed
<1>5. ASSUME NEW t \in Tabs, ReceiveLogin(t)
      PROVE  LoginsUnharmed'
  <2>1. /\ tab'[t].pc = "AtProvider" /\ tab'[t].login = tab[t].login
        /\ \A u \in Tabs \ {t} : tab'[u] = tab[u]
    BY <1>0, <1>5 DEF ReceiveLogin, Goes, TypeOK
  <2>2. /\ SigningKey' = SigningKey /\ spent' = spent /\ spoiled \subseteq spoiled'
        /\ login # NoCookie /\ login.cookie.login # tab[t].login
             => login.cookie.login \in spoiled'
    BY <1>5 DEF ReceiveLogin, SigningKey, Replaced
  <2>3. tab[t].carries \in LoginCookie /\ tab[t].carries.login = tab[t].login
        /\ tab[t].login # 0 /\ At(t, "LoginAnswer")
    BY <1>0, <1>5 DEF ReceiveLogin, At, TabFits
  <2>4. login' \in Kept(LoginCookie, LoginMaxAge) /\ login'.cookie = tab[t].carries
    BY <1>0, <1>5, <2>3 DEF ReceiveLogin, Kept, TypeOK, Time
  <2>5. login' # NoCookie
    BY <2>4, CookieAssumption
  <2>6. Unharmed(t)'
    BY <1>0, <2>1, <2>2, <2>3, <2>4, <2>5 DEF Unharmed, At
  <2>7. ASSUME NEW u \in Tabs \ {t}
        PROVE  Unharmed(u)'
    <3>1. tab[u].login # tab[t].login
      BY <2>3 DEF Protocol, LoginsFit
    <3> QED
      BY <1>0, <2>1, <2>2, <3>1, UnharmedOn
  <2> QED
    BY <2>6, <2>7 DEF LoginsUnharmed
<1>6. ASSUME NEW t \in Tabs, Exchange(t)
      PROVE  LoginsUnharmed'
  <2>1. /\ tab'[t].pc = "CallbackAnswer"
        /\ \A u \in Tabs \ {t} : tab'[u] = tab[u]
    BY <1>6, ExchangeProtocol
  <2>2. SigningKey' = SigningKey /\ UNCHANGED <<spoiled, login>> /\ spent \subseteq spent'
    BY <1>6 DEF Exchange, SigningKey
  <2>3. Unharmed(t)'
    BY <2>1 DEF Unharmed, At
  <2> QED
    BY <1>0, <2>1, <2>2, <2>3, UnharmedOn DEF LoginsUnharmed
<1>7. ASSUME NEW t \in Tabs, TokenRejected(t) \/ ExchangeFails(t)
      PROVE  LoginsUnharmed'
  <2>1. /\ tab'[t].pc \in {"Unauthorized", "Unavailable"} /\ tab'[t].login = tab[t].login
        /\ \A u \in Tabs \ {t} : tab'[u] = tab[u]
    BY <1>7, ExchangeFailsProtocol
  <2>2. SigningKey' = SigningKey /\ UNCHANGED <<spoiled, login>> /\ spent \subseteq spent'
    BY <1>7 DEF TokenRejected, ExchangeFails, SigningKey
  <2>3. Unharmed(t)'
    BY <1>0, <1>7, <2>1, <2>2 DEF Unharmed, At, TokenRejected, ExchangeFails
  <2> QED
    BY <1>0, <2>1, <2>2, <2>3, UnharmedOn DEF LoginsUnharmed
<1>8. ASSUME NEW t \in Tabs, ReceiveSession(t)
      PROVE  LoginsUnharmed'
  <2>1. /\ tab'[t].pc = "Landing"
        /\ \A u \in Tabs \ {t} : tab'[u] = tab[u]
    BY <1>8, ReceiveSessionProtocol
  <2>2. /\ SigningKey' = SigningKey /\ spent' = spent /\ spoiled \subseteq spoiled'
        /\ login # NoCookie /\ login.cookie.login # tab[t].login
             => login.cookie.login \in spoiled'
    BY <1>8 DEF ReceiveSession, SigningKey, Replaced
  <2>3. Unharmed(t)'
    BY <2>1 DEF Unharmed, At
  <2>4. ASSUME NEW u \in Tabs \ {t}
        PROVE  Unharmed(u)'
    <3>1. tab[t].login # 0
      BY <1>0, <1>8 DEF ReceiveSession, At, TabFits
    <3>2. tab[u].login # tab[t].login
      BY <3>1 DEF Protocol, LoginsFit
    <3> QED
      BY <1>0, <2>1, <2>2, <3>2, UnharmedOn
  <2> QED
    BY <2>3, <2>4 DEF LoginsUnharmed
<1>9. ASSUME NEW t \in Tabs, ReceiveLogout(t)
      PROVE  LoginsUnharmed'
  <2>1. /\ tab'[t].pc = "Away"
        /\ \A u \in Tabs \ {t} : tab'[u] = tab[u]
    BY <1>9, ReceiveLogoutProtocol
  <2>2. SigningKey' = SigningKey /\ UNCHANGED <<spent, spoiled, login>>
    BY <1>9 DEF ReceiveLogout, SigningKey
  <2>3. Unharmed(t)'
    BY <2>1 DEF Unharmed, At
  <2> QED
    BY <1>0, <2>1, <2>2, <2>3, UnharmedOn DEF LoginsUnharmed
<1>10. CASE Tick
  <2>1. SigningKey' = SigningKey /\ UNCHANGED <<spent, tab>> /\ spoiled \subseteq spoiled'
        /\ (login' = login \/ login.cookie.login \in spoiled')
    BY <1>10 DEF Tick, SigningKey
  <2> QED
    BY <1>0, <2>1, UnharmedOn DEF LoginsUnharmed
<1>11. CASE Restart
  <2> SUFFICES ASSUME NEW t \in Tabs
               PROVE  Unharmed(t)'
    BY DEF LoginsUnharmed
  <2>1. CASE configured
    <3>1. SigningKey' = SigningKey /\ UNCHANGED <<spent, spoiled, login>>
      BY <1>11, <2>1, RestartElse DEF SigningKey
    <3>2. CASE At(t, "Exchange")
      BY <1>0, <1>11, <3>1, <3>2, RestartTabs DEF Unharmed, At
    <3>3. CASE ~At(t, "Exchange")
      BY <1>0, <1>11, <3>1, <3>3, RestartTabs, UnharmedOn
    <3> QED
      BY <3>2, <3>3
  <2>2. CASE ~configured
    <3>1. tab'[t].login = tab[t].login
      BY <1>0, <1>11, RestartTabs
    <3>2. tab[t].login \in 0..minted /\ 1..minted \subseteq spoiled'
      BY <1>0, <1>11, <2>2, RestartElse DEF TabFits, Tab, TypeOK
    <3>3. tab'[t].login # 0 => tab'[t].login \in spoiled'
      BY <1>0, <3>1, <3>2 DEF TypeOK
    <3>4. tab'[t].pc \in {"LoginAnswer", "AtProvider", "Callback"} => tab'[t].login # 0
      BY <1>0, <1>11, RestartTabs DEF TabFits, At
    <3> QED
      BY <3>3, <3>4 DEF Unharmed, At
  <2> QED
    BY <2>1, <2>2
<1>12. CASE UNCHANGED vars
  BY <1>0, <1>12, UnharmedOn DEF LoginsUnharmed, vars, SigningKey
<1> QED
  BY <1>1, <1>2, <1>3, <1>4, <1>5, <1>6, <1>7, <1>8, <1>9, <1>10, <1>11, <1>12, StepKinds

LEMMA UnharmedHolds == Spec => []LoginsUnharmed
<1>1. Init => LoginsUnharmed
  <2> SUFFICES ASSUME Init, NEW t \in Tabs
               PROVE  Unharmed(t)
    BY DEF LoginsUnharmed
  <2>1. tab[t].pc = "Away"
    BY DEF Init
  <2> QED
    BY <2>1 DEF Unharmed, At
<1> QED
  BY <1>1, ProtocolHolds, UnharmedKept, PTL DEF Spec

\* A tab becomes Unauthorized from a callback where CheckCallback refuses it, or where
\* the provider's token is rejected and the code is spent.
LEMMA RefusalIsCheck ==
  ASSUME Protocol, [Next]_vars, NEW t \in Tabs,
         tab[t].pc # tab'[t].pc, tab'[t].pc = "Unauthorized"
  PROVE  \/ /\ tab[t].pc # "Exchange"
            /\ At(t, "Callback") => ~CallbackAccepted(t)
         \/ tab[t].login \in spent'
<1>0. TypeOK /\ tab \in [Tabs -> Tab]
  BY TabTyped DEF Protocol
<1>1. ASSUME NEW u \in Tabs, Moves(u)
      PROVE  /\ tab[t].pc # "Exchange"
             /\ At(t, "Callback") => ~CallbackAccepted(t)
  <2>1. u = t
    BY <1>0, <1>1 DEF Moves, Goes
  <2> QED
    BY <1>1, <2>1 DEF Moves, At, provider
<1>2. ASSUME NEW u \in Tabs, Asks(u)
      PROVE  FALSE
  BY <1>0, <1>2 DEF Asks, RequestsCallback, Tab
<1>3. ASSUME NEW u \in Tabs, Accepts(u)
      PROVE  FALSE
  BY <1>0, <1>3 DEF Accepts, Tab
<1>4. ASSUME NEW u \in Tabs, Login(u) \/ ReceiveLogin(u)
      PROVE  FALSE
  BY <1>0, <1>4 DEF Login, ReceiveLogin, Goes
<1>5. ASSUME NEW u \in Tabs,
             Exchange(u) \/ ExchangeFails(u) \/ ReceiveSession(u) \/ ReceiveLogout(u)
      PROVE  FALSE
  BY <1>5, ExchangeProtocol, ExchangeFailsProtocol, ReceiveSessionProtocol,
     ReceiveLogoutProtocol
<1>6. ASSUME NEW u \in Tabs, TokenRejected(u)
      PROVE  tab[t].login \in spent'
  <2>1. u = t
    BY <1>6, ExchangeFailsProtocol
  <2> QED
    BY <1>6, <2>1 DEF TokenRejected
<1>7. CASE Tick
  BY <1>7 DEF Tick
<1>8. CASE Restart
  BY <1>0, <1>8, RestartTabs
<1>9. CASE UNCHANGED vars
  BY <1>9 DEF vars
<1> QED
  BY <1>1, <1>2, <1>3, <1>4, <1>5, <1>6, <1>7, <1>8, <1>9, StepKinds

(* RefusedForAReason: the callback handler of auth.rs turns a good code away  *)
(* only after its login cookie was replaced, cleared, outlived or voided, or  *)
(* when the code is spent on an ID token that fails.                          *)
THEOREM RefusalsHaveAReason == Spec => RefusedForAReason
<1>1. ASSUME Protocol, LoginsUnharmed, [Next]_vars, NEW t \in Tabs,
             tab[t].pc \in {"Callback", "Exchange"}, tab'[t].pc = "Unauthorized",
             HasCode(t), tab[t].login \notin spent, tab[t].login \notin spoiled,
             tab[t].login \notin spent'
      PROVE  FALSE
  <2>1. At(t, "Callback") /\ ~CallbackAccepted(t)
    BY <1>1, RefusalIsCheck DEF At
  <2>2. CallbackAccepted(t)
    BY <1>1, <2>1 DEF LoginsUnharmed, Unharmed, At, CallbackAccepted, LoginVerifies
  <2> QED
    BY <2>1, <2>2
<1>2. Protocol /\ LoginsUnharmed /\ [Next]_vars =>
        [\A t \in Tabs :
           (/\ tab[t].pc \in {"Callback", "Exchange"} /\ tab'[t].pc = "Unauthorized"
            /\ HasCode(t) /\ tab[t].login \notin spent)
           => tab[t].login \in spoiled \cup spent']_vars
  BY <1>1
<1> QED
  BY <1>2, ProtocolHolds, UnharmedHolds, PTL DEF Spec, RefusedForAReason

(* SpentWithItsCookie: the callback handler goes to the provider only with    *)
(* the login cookie of the code's own login, under the key in force.          *)
THEOREM CodesAreSpentWithTheirCookie == Spec => SpentWithItsCookie
<1>1. ASSUME Protocol, [Next]_vars, NEW n \in spent' \ spent
      PROVE  \E t \in Tabs : /\ tab[t].login = n
                            /\ LoginVerifies(tab[t].carries) /\ tab[t].carries.login = n
  <2>1. PICK t \in Tabs : Exchange(t) \/ TokenRejected(t) \/ ExchangeFails(t)
    BY <1>1, StepKinds DEF Moves, Asks, Accepts, Login, ReceiveLogin, ReceiveSession,
       ReceiveLogout, Tick, Restart, vars, provider
  <2>2. At(t, "Exchange") /\ tab[t].login = n
    BY <1>1, <2>1 DEF Exchange, TokenRejected, ExchangeFails
  <2>3. /\ tab[t].carries \in LoginCookie /\ tab[t].carries.login = n
        /\ tab[t].carries.key = SigningKey
    BY <1>1, <2>2 DEF Protocol, TabFits, At
  <2> QED
    BY <2>2, <2>3, CookieAssumption DEF LoginVerifies
<1>2. Protocol /\ [Next]_vars =>
        [\A n \in spent' \ spent : \E t \in Tabs :
           /\ tab[t].login = n
           /\ LoginVerifies(tab[t].carries) /\ tab[t].carries.login = n]_vars
  BY <1>1
<1> QED
  BY <1>2, ProtocolHolds, PTL DEF Spec, SpentWithItsCookie

\* Only a restart counts as one.
LEMMA RestartsByRestart ==
  ASSUME Protocol, [Next]_vars, restarts' # restarts
  PROVE  Restart
BY StepKinds DEF Moves, Asks, Accepts, Login, ReceiveLogin, Exchange, TokenRejected,
   ExchangeFails, ReceiveSession, ReceiveLogout, Tick, vars, server

(* RestartKeepsSessions: with a signing key in the configuration a restart    *)
(* logs nobody out; without one, everybody.                                   *)
THEOREM RestartsKeepSessions == Spec => RestartKeepsSessions
<1>1. ASSUME Protocol, [Next]_vars, restarts' # restarts
      PROVE  /\ configured => Who' = Who
                               /\ LoginVerifies(Sent(login))' = LoginVerifies(Sent(login))
             /\ ~configured => Who' = NoOne
  <2>1. /\ restarts' = restarts + 1
        /\ UNCHANGED <<now, configured, login, session>>
    BY <1>1, RestartsByRestart, RestartElse
  <2>2. CASE configured
    BY <2>1, <2>2 DEF Who, Accepted, Sent, SessionVerifies, SigningKey, LoginVerifies
  <2>3. CASE ~configured
    <3>1. session # NoCookie => session.cookie.key # restarts + 1
      BY <1>1 DEF Protocol, SessionFits, TypeOK, Kept, SessionCookie, Key
    <3> QED
      BY <2>1, <2>3, <3>1 DEF Who, Accepted, Sent, SessionVerifies, SigningKey
  <2> QED
    BY <2>2, <2>3
<1>2. Protocol /\ [Next]_vars =>
        [restarts' # restarts =>
           /\ configured => Who' = Who
                            /\ LoginVerifies(Sent(login))' = LoginVerifies(Sent(login))
           /\ ~configured => Who' = NoOne]_vars
  BY <1>1
<1> QED
  BY <1>2, ProtocolHolds, PTL DEF Spec, RestartKeepsSessions

(* LogoutEnds: the answer of the logout handler ends the session, and the     *)
(* handler answers whatever becomes of the provider.                          *)
THEOREM LogoutsEnd == Spec => LogoutEnds
<1>1. ASSUME Protocol, [Next]_vars, NEW t \in Tabs,
             tab[t].pc \in {"Logout", "LogoutAnswer"}
      PROVE  /\ tab'[t].pc = "Away" => Who' = NoOne
             /\ tab[t].pc = "Logout" => tab'[t].pc \in {"Logout", "LogoutAnswer"}
  <2>0. TypeOK /\ tab \in [Tabs -> Tab]
    BY <1>1, TabTyped DEF Protocol
  <2>1. CASE tab'[t] = tab[t]
    BY <1>1, <2>1
  <2>2. ASSUME NEW u \in Tabs, Moves(u), tab'[t] # tab[t]
        PROVE  tab'[t].pc \in {"LogoutAnswer", "Unavailable"}
               /\ (tab[t].pc = "Logout" => tab'[t].pc = "LogoutAnswer")
    <3>1. u = t
      BY <2>0, <2>2 DEF Moves, Goes
    <3> QED
      BY <1>1, <2>0, <2>2, <3>1 DEF Moves, Goes
  <2>3. ASSUME NEW u \in Tabs, tab'[t] # tab[t],
               Asks(u) \/ Accepts(u) \/ Login(u) \/ ReceiveLogin(u) \/ Exchange(u)
                 \/ TokenRejected(u) \/ ExchangeFails(u) \/ ReceiveSession(u)
        PROVE  FALSE
    <3>1. u = t
      BY <2>0, <2>3, ExchangeProtocol, ExchangeFailsProtocol, ReceiveSessionProtocol, <1>1
         DEF Asks, RequestsCallback, Accepts, Login, ReceiveLogin, Goes
    <3> QED
      BY <1>1, <2>3, <3>1 DEF Asks, Accepts, Login, ReceiveLogin, Exchange,
         TokenRejected, ExchangeFails, ReceiveSession, At
  <2>4. ASSUME NEW u \in Tabs, tab'[t] # tab[t], ReceiveLogout(u)
        PROVE  tab[t].pc = "LogoutAnswer" /\ Who' = NoOne
    <3>1. u = t
      BY <1>1, <2>4, ReceiveLogoutProtocol
    <3> QED
      BY <2>4, <3>1 DEF ReceiveLogout, At, Who, Accepted, Sent, SessionVerifies
  <2>5. CASE Tick
    BY <2>1, <2>5 DEF Tick
  <2>6. CASE Restart
    BY <1>1, <2>0, <2>1, <2>6, RestartTabs DEF At
  <2>7. CASE UNCHANGED vars
    BY <2>1, <2>7 DEF vars
  <2> QED
    BY <1>1, <2>1, <2>2, <2>3, <2>4, <2>5, <2>6, <2>7, StepKinds
<1>2. Protocol /\ [Next]_vars =>
        [\A t \in Tabs : tab[t].pc \in {"Logout", "LogoutAnswer"} =>
           /\ tab'[t].pc = "Away" => Who' = NoOne
           /\ tab[t].pc = "Logout" => tab'[t].pc \in {"Logout", "LogoutAnswer"}]_vars
  BY <1>1
<1> QED
  BY <1>2, ProtocolHolds, PTL DEF Spec, LogoutEnds

--------------------------------------------------------------------------------
(* The cookies implement Session. *)

\* The values that stand for Session's variables.
Vouched == [n \in Logins |-> IF n \in spent THEN Redeemed ELSE issued[n]]
Ready == {[who |-> tab[t].sets.who, until |-> tab[t].sets.exp] :
            t \in {u \in Tabs : At(u, "CallbackAnswer")}}

\* A session on its way, as Session sees it.
Carried(c) == [who |-> c.who, until |-> c.exp]

\* Whom the gate serves depends on the cookie, the key and the clock.
LEMMA SameIdentity ==
  ASSUME session' = session, SigningKey' = SigningKey, now' = now
  PROVE  Who' = Who /\ Until' = Until
BY DEF Who, Until, Accepted, Sent, SessionVerifies

\* A tab that neither had nor has a session on its way leaves them as they were.
LEMMA SameReady ==
  ASSUME NEW t \in Tabs, \A u \in Tabs \ {t} : tab'[u] = tab[u],
         ~At(t, "CallbackAnswer"), tab'[t].pc # "CallbackAnswer"
  PROVE  Ready' = Ready
BY DEF Ready, At

\* One that loses its session takes at most that from them.
LEMMA LessReady ==
  ASSUME NEW t \in Tabs, \A u \in Tabs \ {t} : tab'[u] = tab[u],
         At(t, "CallbackAnswer"), tab'[t].pc # "CallbackAnswer"
  PROVE  /\ Carried(tab[t].sets) \in Ready
         /\ Ready' \in {Ready, Ready \ {Carried(tab[t].sets)}}
<1>1. Carried(tab[t].sets) \in Ready
  BY DEF Ready, Carried
<1>2. Ready' \subseteq Ready
  BY DEF Ready, At
<1>3. Ready \ {Carried(tab[t].sets)} \subseteq Ready'
  BY DEF Ready, At, Carried
<1> QED
  BY <1>1, <1>2, <1>3

\* One that gets a session adds it.
LEMMA MoreReady ==
  ASSUME NEW t \in Tabs, \A u \in Tabs \ {t} : tab'[u] = tab[u],
         ~At(t, "CallbackAnswer"), tab'[t].pc = "CallbackAnswer"
  PROVE  Ready' = Ready \cup {Carried(tab'[t].sets)}
BY DEF Ready, At, Carried

\* The actions of Session, said of those values.
LEMMA PromiseVouches ==
  ASSUME NEW n \in Logins, NEW u \in Identities, Vouched[n] = NoOne,
         Vouched' = [Vouched EXCEPT ![n] = u], UNCHANGED <<now, Ready, Who, Until>>
  PROVE  Promise!Next
BY DEF Promise!Next, Promise!Vouch, Vouched, Ready

LEMMA PromiseRedeems ==
  ASSUME NEW n \in Logins, Vouched[n] \in Identities,
         Vouched' = [Vouched EXCEPT ![n] = Redeemed],
         Ready' \in {Ready, Ready \cup {[who |-> Vouched[n], until |-> now + SessionMaxAge]}},
         UNCHANGED <<now, Who, Until>>
  PROVE  Promise!Next
BY DEF Promise!Next, Promise!Redeem, Vouched, Ready

LEMMA PromiseBegins ==
  ASSUME NEW s \in Ready, Ready' \in {Ready, Ready \ {s}},
         \/ now < s.until /\ Who' = s.who /\ Until' = s.until
         \/ Who' = NoOne /\ Until' = 0
         \/ UNCHANGED <<Who, Until>>,
         UNCHANGED <<now, Vouched>>
  PROVE  Promise!Next
BY DEF Promise!Next, Promise!Begin, Promise!LoggedInAs, Promise!LoggedOut, Vouched, Ready

LEMMA PromiseEnds ==
  ASSUME Who' = NoOne, Until' = 0, UNCHANGED <<now, Vouched, Ready>>
  PROVE  Promise!Next
BY DEF Promise!Next, Promise!End, Promise!LoggedInAs, Promise!LoggedOut, Vouched, Ready

LEMMA PromiseTicks ==
  ASSUME now' = now + 1,
         IF now' < Until THEN UNCHANGED <<Who, Until>> ELSE Who' = NoOne /\ Until' = 0,
         UNCHANGED <<Vouched, Ready>>
  PROVE  Promise!Next
BY DEF Promise!Next, Promise!Tick, Promise!LoggedInAs, Promise!LoggedOut, Vouched, Ready

LEMMA PromiseStutters ==
  ASSUME UNCHANGED <<now, Vouched, Ready, Who, Until>>
  PROVE  UNCHANGED Promise!vars
BY DEF Promise!vars, Vouched, Ready

LEMMA StepImplements ==
  ASSUME Protocol, [Next]_vars
  PROVE  [Promise!Next]_(Promise!vars)
<1> USE DEF server, provider, browser
<1>0. /\ TypeOK /\ tab \in [Tabs -> Tab] /\ Protocol'
      /\ \A t \in Tabs : TabFits(t) /\ tab[t] \in Tab
  BY TabTyped, ProtocolKept DEF Protocol
<1>1. ASSUME NEW t \in Tabs, Moves(t)
      PROVE  [Promise!Next]_(Promise!vars)
  <2>1. /\ tab'[t].pc # "CallbackAnswer"
        /\ \A u \in Tabs \ {t} : tab'[u] = tab[u]
    BY <1>0, <1>1 DEF Moves, Goes
  <2>2. UNCHANGED <<now, Vouched, Who, Until>>
    <3>1. UNCHANGED <<now, issued, spent, session, configured, restarts>>
      BY <1>1 DEF Moves
    <3> QED
      BY <3>1, SameIdentity DEF Vouched, SigningKey
  <2>3. CASE At(t, "CallbackAnswer")
    BY <2>1, <2>2, <2>3, LessReady, PromiseBegins
  <2>4. CASE ~At(t, "CallbackAnswer")
    BY <2>1, <2>2, <2>4, SameReady, PromiseStutters
  <2> QED
    BY <2>3, <2>4
<1>2. ASSUME NEW t \in Tabs, Asks(t)
      PROVE  [Promise!Next]_(Promise!vars)
  <2> DEFINE n == tab[t].login
  <2>1. /\ tab'[t].pc = "Callback" /\ ~At(t, "CallbackAnswer")
        /\ \A u \in Tabs \ {t} : tab'[u] = tab[u]
    BY <1>0, <1>2 DEF Asks, RequestsCallback, Tab, At
  <2>2. /\ UNCHANGED <<now, spent, session, configured, restarts>>
        /\ Ready' = Ready
    BY <1>2, <2>1, SameReady DEF Asks
  <2>3. UNCHANGED <<Who, Until>>
    BY <2>2, SameIdentity DEF SigningKey
  <2>4. CASE issued' = issued
    BY <2>2, <2>3, <2>4, PromiseStutters DEF Vouched
  <2>5. CASE issued' # issued
    <3>1. PICK u \in Identities : issued' = [issued EXCEPT ![n] = u]
      BY <1>2, <2>5 DEF Asks
    <3>2. n \in Logins /\ issued[n] = NoOne
      BY <1>0, <1>2, <2>5 DEF Asks, TabFits, Tab, Logins
    <3>3. n \notin spent
      BY <3>2 DEF Protocol, LoginsFit
    <3>4. Vouched[n] = NoOne /\ Vouched' = [Vouched EXCEPT ![n] = u]
      BY <1>0, <2>2, <3>1, <3>2, <3>3 DEF Vouched, TypeOK
    <3> QED
      BY <2>2, <2>3, <3>2, <3>4, PromiseVouches
  <2> QED
    BY <2>4, <2>5
<1>3. ASSUME NEW t \in Tabs, Accepts(t) \/ Login(t) \/ ReceiveLogin(t)
      PROVE  [Promise!Next]_(Promise!vars)
  <2>1. /\ tab'[t].pc # "CallbackAnswer" /\ ~At(t, "CallbackAnswer")
        /\ \A u \in Tabs \ {t} : tab'[u] = tab[u]
    <3>1. CASE Accepts(t)
      BY <1>0, <3>1 DEF Accepts, At, Tab
    <3>2. CASE Login(t)
      BY <1>0, <3>2 DEF Login, At
    <3>3. CASE ReceiveLogin(t)
      BY <1>0, <3>3 DEF ReceiveLogin, Goes, At
    <3> QED
      BY <1>3, <3>1, <3>2, <3>3
  <2>2. UNCHANGED <<now, issued, spent, session, configured, restarts>>
    BY <1>3 DEF Accepts, Login, ReceiveLogin
  <2> QED
    BY <2>1, <2>2, SameReady, SameIdentity, PromiseStutters DEF Vouched, SigningKey
<1>4. ASSUME NEW t \in Tabs, Exchange(t)
      PROVE  [Promise!Next]_(Promise!vars)
  <2> DEFINE n == tab[t].login
             u == issued[n]
  <2>1. /\ n \in Logins /\ u \in Identities /\ n \notin spent
        /\ tab'[t].pc = "CallbackAnswer" /\ tab'[t].sets = MintSession(u)
        /\ \A v \in Tabs \ {t} : tab'[v] = tab[v]
        /\ ~At(t, "CallbackAnswer")
    BY <1>4, ExchangeProtocol DEF Exchange, At
  <2>2. UNCHANGED <<now, issued, session, configured, restarts>> /\ spent' = spent \cup {n}
    BY <1>4 DEF Exchange
  <2>3. UNCHANGED <<Who, Until>>
    BY <2>2, SameIdentity DEF SigningKey
  <2>4. Vouched[n] = u /\ Vouched' = [Vouched EXCEPT ![n] = Redeemed]
    BY <2>1, <2>2 DEF Vouched
  <2>5. Carried(tab'[t].sets) = [who |-> Vouched[n], until |-> now + SessionMaxAge]
    BY <2>1, <2>4 DEF Carried, MintSession
  <2> QED
    BY <2>1, <2>2, <2>3, <2>4, <2>5, MoreReady, PromiseRedeems
<1>5. ASSUME NEW t \in Tabs, TokenRejected(t) \/ ExchangeFails(t)
      PROVE  [Promise!Next]_(Promise!vars)
  <2> DEFINE n == tab[t].login
  <2>1. /\ n \in Logins /\ issued[n] \in Identities
        /\ tab'[t].pc \in {"Unauthorized", "Unavailable"} /\ ~At(t, "CallbackAnswer")
        /\ \A u \in Tabs \ {t} : tab'[u] = tab[u]
    BY <1>5, ExchangeFailsProtocol DEF TokenRejected, ExchangeFails, At
  <2>2. /\ UNCHANGED <<now, issued, session, configured, restarts>>
        /\ spent' \in {spent, spent \cup {n}}
        /\ Ready' = Ready
    BY <1>5, <2>1, SameReady DEF TokenRejected, ExchangeFails
  <2>3. UNCHANGED <<Who, Until>>
    BY <2>2, SameIdentity DEF SigningKey
  <2>4. CASE spent' = spent
    BY <2>2, <2>3, <2>4, PromiseStutters DEF Vouched
  <2>5. CASE n \notin spent /\ spent' = spent \cup {n}
    <3>1. Vouched[n] \in Identities /\ Vouched' = [Vouched EXCEPT ![n] = Redeemed]
      BY <2>1, <2>2, <2>5 DEF Vouched
    <3> QED
      BY <2>1, <2>2, <2>3, <3>1, PromiseRedeems
  <2> QED
    BY <2>2, <2>4, <2>5
<1>6. ASSUME NEW t \in Tabs, ReceiveSession(t)
      PROVE  [Promise!Next]_(Promise!vars)
  <2> DEFINE s == tab[t].sets
  <2>1. /\ tab'[t].pc # "CallbackAnswer" /\ At(t, "CallbackAnswer")
        /\ \A u \in Tabs \ {t} : tab'[u] = tab[u]
    BY <1>6, ReceiveSessionProtocol DEF ReceiveSession
  <2>2. UNCHANGED <<now, issued, spent, configured, restarts>>
    BY <1>6 DEF ReceiveSession
  <2>3. \/ UNCHANGED <<Who, Until>>
        \/ now < s.exp /\ Who' = s.who /\ Until' = s.exp
        \/ Who' = NoOne /\ Until' = 0
    <3>1. CASE session' = session
      BY <2>2, <3>1, SameIdentity DEF SigningKey
    <3>2. CASE session' = [cookie |-> s, dies |-> now + SessionMaxAge]
      <4>1. session'.cookie = s /\ s \in SessionCookie
        BY <1>0, <2>1, <3>2 DEF TabFits, At
      <4>2. CASE Accepted'
        <5>1. s.exp > now' /\ Who' = s.who /\ Until' = s.exp
          BY <4>1, <4>2 DEF Accepted, Sent, SessionVerifies, Who, Until
        <5> QED
          BY <2>2, <4>1, <5>1, <1>0 DEF SessionCookie, TypeOK, Time
      <4>3. CASE ~Accepted'
        BY <4>3 DEF Who, Until
      <4> QED
        BY <4>2, <4>3
    <3> QED
      BY <1>6, <3>1, <3>2 DEF ReceiveSession
  <2>4. Carried(s).who = s.who /\ Carried(s).until = s.exp
    BY DEF Carried
  <2>5. UNCHANGED <<now, Vouched>>
    BY <2>2 DEF Vouched
  <2>6. Carried(s) \in Ready /\ Ready' \in {Ready, Ready \ {Carried(s)}}
    BY <2>1, LessReady
  <2> HIDE DEF s
  <2> QED
    BY <2>3, <2>4, <2>5, <2>6, PromiseBegins
<1>7. ASSUME NEW t \in Tabs, ReceiveLogout(t)
      PROVE  [Promise!Next]_(Promise!vars)
  <2>1. /\ tab'[t].pc # "CallbackAnswer" /\ ~At(t, "CallbackAnswer")
        /\ \A u \in Tabs \ {t} : tab'[u] = tab[u]
    BY <1>7, ReceiveLogoutProtocol DEF ReceiveLogout, At
  <2>2. Who' = NoOne /\ Until' = 0
    BY <1>7 DEF ReceiveLogout, Who, Until, Accepted, Sent, SessionVerifies
  <2>3. UNCHANGED <<now, Vouched>>
    BY <1>7 DEF ReceiveLogout, Vouched
  <2> QED
    BY <2>1, <2>2, <2>3, SameReady, PromiseEnds
<1>8. CASE Tick
  <2>1. /\ UNCHANGED <<issued, spent, configured, restarts, tab>> /\ now' = now + 1
        /\ session' = StillKept(session, now')
    BY <1>8 DEF Tick
  <2>2. UNCHANGED <<Vouched, Ready>> /\ SigningKey' = SigningKey
    BY <2>1 DEF Vouched, Ready, At, SigningKey
  <2>3. IF now' < Until THEN UNCHANGED <<Who, Until>> ELSE Who' = NoOne /\ Until' = 0
    <3>1. now \in Nat
      BY <1>0 DEF TypeOK, Time
    <3>2. CASE session = NoCookie
      BY <2>1, <3>1, <3>2 DEF StillKept, Who, Until, Accepted, Sent, SessionVerifies
    <3>3. CASE session # NoCookie
      <4> DEFINE c == session.cookie
      <4>1. /\ c.exp \in Nat /\ session.dies \in Nat /\ c.exp <= session.dies
        BY <1>0, <3>3 DEF TypeOK, Kept, SessionCookie, Protocol, SessionFits
      <4>2. session' = session \/ (session' = NoCookie /\ now' >= session.dies)
        BY <2>1 DEF StillKept
      <4>3. Accepted <=> c # NoCookie /\ c.key = SigningKey /\ c.exp > now
        BY <3>3 DEF Accepted, Sent, SessionVerifies
      <4>4. Accepted' <=> /\ session' = session
                          /\ c # NoCookie /\ c.key = SigningKey /\ c.exp > now'
        BY <2>2, <3>3, <4>2 DEF Accepted, Sent, SessionVerifies
      <4>5. Accepted' <=> Accepted /\ now' < c.exp
        BY <2>1, <3>1, <4>1, <4>2, <4>3, <4>4
      <4>6. CASE Accepted'
        <5>1. Who' = Who /\ Until' = Until /\ Until = c.exp /\ now' < c.exp
          BY <4>4, <4>5, <4>6 DEF Who, Until
        <5> QED
          BY <5>1
      <4>7. CASE ~Accepted'
        <5>1. Who' = NoOne /\ Until' = 0
          BY <4>7 DEF Who, Until
        <5>2. ~(now' < Until)
          BY <2>1, <3>1, <4>5, <4>7 DEF Until
        <5> QED
          BY <5>1, <5>2
      <4> QED
        BY <4>6, <4>7
    <3> QED
      BY <3>2, <3>3
  <2> QED
    BY <2>1, <2>2, <2>3, PromiseTicks
<1>9. CASE Restart
  <2>1. /\ restarts' = restarts + 1
        /\ UNCHANGED <<now, configured, issued, spent, session>>
    BY <1>9, RestartElse
  <2>2. Ready' = Ready
    <3>1. \A t \in Tabs : tab'[t] = tab[t] \/ (~At(t, "CallbackAnswer")
                                            /\ tab'[t].pc # "CallbackAnswer")
      BY <1>0, <1>9, RestartTabs DEF At
    <3> QED
      BY <3>1 DEF Ready, At
  <2>3. Vouched' = Vouched
    BY <2>1 DEF Vouched
  <2>4. CASE configured
    BY <2>1, <2>2, <2>3, <2>4, SameIdentity, PromiseStutters DEF SigningKey
  <2>5. CASE ~configured
    <3>1. session # NoCookie => session.cookie.key # restarts + 1
      BY <1>0 DEF Protocol, SessionFits, TypeOK, Kept, SessionCookie, Key
    <3>2. Who' = NoOne /\ Until' = 0
      BY <2>1, <2>5, <3>1 DEF Who, Until, Accepted, Sent, SessionVerifies, SigningKey
    <3> QED
      BY <2>1, <2>2, <2>3, <3>2, PromiseEnds
  <2> QED
    BY <2>4, <2>5
<1>10. CASE UNCHANGED vars
  BY <1>10, SameIdentity, PromiseStutters DEF vars, Vouched, Ready, At, SigningKey
<1> QED
  BY <1>1, <1>2, <1>3, <1>4, <1>5, <1>6, <1>7, <1>8, <1>9, <1>10, StepKinds

(* KeepsPromise: login, callback, logout, the gate and the two cookies of     *)
(* auth.rs implement Session, whatever order the answers arrive in.           *)
THEOREM CookiesImplementSession == Spec => KeepsPromise
<1>1. Init => Promise!Init
  <2> SUFFICES ASSUME Init
               PROVE  Promise!Init
    OBVIOUS
  <2>1. \A t \in Tabs : ~At(t, "CallbackAnswer")
    BY DEF Init, At
  <2>2. Ready = {} /\ Vouched = [n \in Logins |-> NoOne]
    BY <2>1 DEF Ready, Vouched, Init
  <2>3. now = 0 /\ Who = NoOne /\ Until = 0
    BY DEF Init, Who, Until, Accepted, Sent, SessionVerifies
  <2> QED
    BY <2>2, <2>3 DEF Promise!Init, Ready, Vouched
<1>2. Protocol /\ [Next]_vars => [Promise!Next]_(Promise!vars)
  BY StepImplements
<1> QED
  BY <1>1, <1>2, ProtocolHolds, PTL DEF Spec, KeepsPromise, Promise!Spec
================================================================================
