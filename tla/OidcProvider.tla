----------------------------- MODULE OidcProvider ------------------------------
(***************************************************************************)
(* The process-wide cache of the discovered OIDC provider (auth.rs,        *)
(* DISCOVERED_PROVIDER) and the three handlers that use it: login,         *)
(* callback and logout. The cache is read and written under a lock that is *)
(* never held over an await, so discoveries, exchanges, invalidations and  *)
(* the provider's key rotations interleave freely.                         *)
(*                                                                         *)
(* Keys are numbered in the order the provider introduces them; of a token *)
(* only its signing key matters, and whether its claims are sound (issuer, *)
(* audience, expiry and nonce).                                            *)
(***************************************************************************)
EXTENDS Naturals

CONSTANTS
  Tasks,         \* concurrent handlers
  Codes,         \* authorization codes, each issued once by the provider
  None,          \* no provider, no token, no code
  MaxRotations   \* bound on the number of key rotations

Key == 0..MaxRotations
Provider == [keys : SUBSET Key, by : Tasks]
Token == [key : Key, sound : BOOLEAN]
Ops == {"login", "callback", "logout"}

ASSUME OidcAssumption ==
  /\ MaxRotations \in Nat
  /\ None \notin Codes \cup Provider \cup Token

VARIABLES
  signing,   \* the key the provider signs with
  jwks,      \* the keys the provider publishes
  spent,     \* the codes the provider has accepted, or lost
  cache,     \* DISCOVERED_PROVIDER
  task       \* the handlers

vars == <<signing, jwks, spent, cache, task>>

Idle == [op |-> "login", code |-> None, pc |-> "done", status |-> "none",
         fetched |-> None, provider |-> None, token |-> None, retried |-> FALSE]

PCs == {"lookup", "fetch", "store", "exchange", "validate", "revalidate", "done"}
Statuses == {"pending", "none", "redirect", "session", "unauthorized", "unavailable"}

Handlers ==
  [op : Ops, code : Codes \cup {None}, pc : PCs, status : Statuses,
   fetched : Provider \cup {None}, provider : Provider \cup {None},
   token : Token \cup {None}, retried : BOOLEAN]

Init ==
  /\ signing = 0
  /\ jwks = {0}
  /\ spent = {}
  /\ cache = None
  /\ task = [t \in Tasks |-> Idle]

--------------------------------------------------------------------------------
At(t, pc) == task[t].pc = pc
Become(t, state) == task' = [task EXCEPT ![t] = state]
Answer(t, status) == Become(t, [task[t] EXCEPT !.pc = "done", !.status = status])

\* Faulty variant (TypeOK): a callback without a code goes on to the provider.
BeginUnchecked(t, op, code, trusted) ==
  /\ At(t, "done")
  /\ op # "callback" => code = None /\ trusted
  /\ Become(t, [Idle EXCEPT !.op = op, !.code = code,
                  !.pc = IF trusted THEN "lookup" ELSE "done",
                  !.status = IF trusted THEN "pending" ELSE "unauthorized"])
  /\ UNCHANGED <<signing, jwks, spent, cache>>

\* A request reaches its handler. A callback without a code, or whose login
\* cookie does not verify or does not hold the state, is refused on the spot.
Begin(t, op, code, trusted) ==
  /\ At(t, "done")
  /\ op # "callback" => code = None /\ trusted
  /\ LET refused == op = "callback" /\ (code = None \/ ~trusted)
     IN Become(t, [Idle EXCEPT !.op = op, !.code = code,
                     !.pc = IF refused THEN "done" ELSE "lookup",
                     !.status = IF refused THEN "unauthorized" ELSE "pending"])
  /\ UNCHANGED <<signing, jwks, spent, cache>>

\* Faulty variant (OwnRefreshSuffices): the retry runs the exchange again.
ExchangeAgain(t, provider) ==
  Become(t, [task[t] EXCEPT
    !.provider = provider, !.fetched = None,
    !.pc = IF task[t].op = "callback" THEN "exchange" ELSE "done",
    !.status = IF task[t].op # "callback" THEN "redirect" ELSE @])

\* What a handler does once it has a provider: login and logout redirect, a
\* callback exchanges its code, or validates again the token it already has.
Use(t, provider) ==
  Become(t, [task[t] EXCEPT
    !.provider = provider, !.fetched = None,
    !.pc = IF task[t].op # "callback" THEN "done"
           ELSE IF task[t].retried THEN "revalidate" ELSE "exchange",
    !.status = IF task[t].op # "callback" THEN "redirect" ELSE @])

\* discovered_provider, fast path: the cached provider is cloned under the lock.
Lookup(t) ==
  /\ At(t, "lookup")
  /\ IF cache # None THEN Use(t, cache)
                     ELSE Become(t, [task[t] EXCEPT !.pc = "fetch"])
  /\ UNCHANGED <<signing, jwks, spent, cache>>

\* The provider answers the discovery with the keys it publishes now.
Fetch(t) ==
  /\ At(t, "fetch")
  /\ Become(t, [task[t] EXCEPT !.fetched = [keys |-> jwks, by |-> t], !.pc = "store"])
  /\ UNCHANGED <<signing, jwks, spent, cache>>

\* The discovery fails or times out. Logout clears the cookie all the same and
\* redirects to the root.
FetchFails(t) ==
  /\ At(t, "fetch") \/ At(t, "store")
  /\ Answer(t, IF task[t].op = "logout" THEN "redirect" ELSE "unavailable")
  /\ UNCHANGED <<signing, jwks, spent, cache>>

\* The answer arrives: the last write wins.
Store(t) ==
  /\ At(t, "store")
  /\ cache' = task[t].fetched
  /\ Use(t, task[t].fetched)
  /\ UNCHANGED <<signing, jwks, spent>>

\* The token endpoint accepts a code once, and signs with the current key; a
\* response without an ID token is refused.
Exchange(t) ==
  /\ At(t, "exchange") /\ task[t].code \notin spent
  /\ spent' = spent \cup {task[t].code}
  /\ \/ \E sound \in BOOLEAN :
          Become(t, [task[t] EXCEPT !.token = [key |-> signing, sound |-> sound],
                                    !.pc = "validate"])
     \/ Answer(t, "unauthorized")
  /\ UNCHANGED <<signing, jwks, cache>>

\* The exchange is refused, fails or times out; the code may be gone with it.
ExchangeFails(t) ==
  /\ At(t, "exchange")
  /\ spent' \in {spent, spent \cup {task[t].code}}
  /\ Answer(t, "unavailable")
  /\ UNCHANGED <<signing, jwks, cache>>

Signed(t) == task[t].token.key \in task[t].provider.keys
Sound(t) == task[t].token.sound

\* Faulty variant (OwnRefreshSuffices): the retry finds the old provider again.
KeepProvider == UNCHANGED cache

\* invalidate_provider_cache, on NoMatchingKey.
InvalidateCache == cache' = None

\* invalidate_provider_cache and the way back to discovered_provider.
Refresh(t) ==
  /\ InvalidateCache
  /\ Become(t, [task[t] EXCEPT !.retried = TRUE, !.provider = None, !.pc = "lookup"])

\* exchange_code_and_validate_id_token. The verifier looks at the issuer and the
\* audience before the signature and at the expiry and the nonce after it: a
\* token that fails on both counts is refused or leads to a refresh.
Validate(t) ==
  /\ At(t, "validate")
  /\ \/ Signed(t) /\ Sound(t) /\ Answer(t, "session") /\ UNCHANGED cache
     \/ ~Sound(t) /\ Answer(t, "unauthorized") /\ UNCHANGED cache
     \/ ~Signed(t) /\ Refresh(t)
  /\ UNCHANGED <<signing, jwks, spent>>

\* Faulty variant (FlowsEnd): the token may be refreshed for any number of times.
RevalidateAgain(t) ==
  /\ At(t, "revalidate")
  /\ \/ Signed(t) /\ Sound(t) /\ Answer(t, "session") /\ UNCHANGED cache
     \/ ~Signed(t) /\ Refresh(t)
     \/ ~Sound(t) /\ Answer(t, "unauthorized") /\ UNCHANGED cache
  /\ UNCHANGED <<signing, jwks, spent>>

\* The same token under the provider of the refresh, for the last time.
Revalidate(t) ==
  /\ At(t, "revalidate")
  /\ Answer(t, IF Signed(t) /\ Sound(t) THEN "session" ELSE "unauthorized")
  /\ UNCHANGED <<signing, jwks, spent, cache>>

\* The client goes away: the handler is dropped at the await it is at.
Abandon(t) ==
  /\ task[t].pc \in {"fetch", "store", "exchange", "validate"}
  /\ Answer(t, "none")
  /\ UNCHANGED <<signing, jwks, spent, cache>>

\* The provider signs with a new key, and withdraws none, some or all of the
\* keys before it. A key that was withdrawn does not come back.
Rotate ==
  /\ signing < MaxRotations
  /\ signing' = signing + 1
  /\ \E kept \in SUBSET jwks : jwks' = kept \cup {signing + 1}
  /\ UNCHANGED <<spent, cache, task>>

Step(t) ==
  \/ Lookup(t) \/ Fetch(t) \/ FetchFails(t) \/ Store(t)
  \/ Exchange(t) \/ ExchangeFails(t)
  \/ Validate(t) \/ Revalidate(t)

Next ==
  \/ \E t \in Tasks :
       \/ \E op \in Ops, code \in Codes \cup {None}, trusted \in BOOLEAN :
            Begin(t, op, code, trusted)
       \/ Step(t)
       \/ Abandon(t)
  \/ Rotate

\* Every handler is scheduled, and every call to the provider is answered or runs
\* into the timeouts of oidc_http_client.
Fairness == \A t \in Tasks : WF_vars(Step(t))

Spec == Init /\ [][Next]_vars /\ Fairness

--------------------------------------------------------------------------------
\* The types, and that what a handler needs at a step it has: a provider it
\* fetched itself to store, a code to exchange, a provider and a token to validate.
HandlerOK(t, h) ==
  /\ h \in Handlers
  /\ h.pc = "done" <=> h.status # "pending"
  /\ h.pc = "store" => h.fetched # None
  /\ h.fetched # None => h.pc \in {"store", "done"} /\ h.fetched.by = t
  /\ h.pc # "done" /\ h.op = "callback" => h.code # None
  /\ h.pc \in {"exchange", "validate", "revalidate"} =>
       h.op = "callback" /\ h.provider # None
  /\ h.retried => h.token # None /\ h.pc \notin {"exchange", "validate"}
  /\ h.token # None => h.retried \/ h.pc \in {"validate", "done"}
  /\ h.pc \in {"validate", "revalidate"} => h.token # None

TypeOK ==
  /\ signing \in Key
  /\ jwks \in SUBSET (0..signing) /\ signing \in jwks
  /\ spent \in SUBSET Codes
  /\ cache \in Provider \cup {None}
  /\ task \in [Tasks -> Handlers]
  /\ \A t \in Tasks :
       /\ HandlerOK(t, task[t])
       /\ task[t].token # None => task[t].token.key <= signing

\* A callback that holds a sound token is turned away only if its discovery
\* failed, if the token's key has been withdrawn, or if the provider it had at
\* hand was discovered by another handler: its own refresh is enough to get the
\* user in (exchange_code_and_validate_id_token).
TurnedAway(t) ==
  /\ task[t].pc # "done" /\ task'[t].pc = "done"
  /\ task'[t].status \in {"unauthorized", "unavailable"}

OwnRefresh(t) ==
  TurnedAway(t) /\ task[t].token # None /\ task[t].token.sound =>
    \/ task[t].pc \in {"fetch", "store"}
    \/ task[t].token.key \notin jwks
    \/ task[t].provider.by # t

OwnRefreshSuffices == [][\A t \in Tasks : OwnRefresh(t)]_vars

\* The invariant behind it: once a callback has cleared the cache, any provider
\* of its own that it or the cache holds knows its token's key for as long as
\* the key is published.
Knows(t, provider) ==
  provider # None /\ provider.by = t /\ task[t].token.key \in jwks =>
    task[t].token.key \in provider.keys

RefreshIsCurrent ==
  \A t \in Tasks :
    task[t].retried /\ task[t].pc # "done" =>
      Knows(t, cache) /\ Knows(t, task[t].fetched) /\ Knows(t, task[t].provider)

\* Every login, callback and logout ends: the refresh is made once.
FlowsEnd == \A t \in Tasks : (task[t].pc # "done") ~> (task[t].pc = "done")

\* The comment of discovered_provider (auth.rs:804): of concurrent discoveries the
\* last write wins and both providers are valid. So a sound token that does not
\* survive the refresh is one whose key is no longer published. The code does
\* not have this property: a discovery that was answered before a rotation may be
\* stored between the invalidation and the second lookup.
RefreshRefetches ==
  [][\A t \in Tasks :
       /\ At(t, "revalidate") /\ TurnedAway(t) /\ Sound(t)
       => task[t].token.key \notin jwks]_vars
================================================================================
