--------------------------- MODULE OidcProviderProofs --------------------------
(***************************************************************************)
(* For every number of handlers, codes and rotations: the types of the     *)
(* provider cache, and that a callback's own refresh is enough.            *)
(***************************************************************************)
EXTENDS OidcProvider, TLAPS

USE DEF Key, Provider, Token, Ops, PCs, Statuses

\* A handler that changes leaves the others as they were.
LEMMA BecomeOne ==
  ASSUME task \in [Tasks -> Handlers], NEW t \in Tasks, NEW h \in Handlers, Become(t, h)
  PROVE  /\ task' \in [Tasks -> Handlers]
         /\ task'[t] = h
         /\ \A u \in Tasks \ {t} : task'[u] = task[u]
BY DEF Become

\* The type invariant is kept by a step that replaces one handler by a sound one.
LEMMA TypeOKByHandler ==
  ASSUME TypeOK, NEW t \in Tasks, NEW h, HandlerOK(t, h), Become(t, h),
         h.token # None => h.token.key <= signing,
         UNCHANGED <<signing, jwks>>,
         spent' \in SUBSET Codes, cache' \in Provider \cup {None}
  PROVE  TypeOK'
<1>1. h \in Handlers
  BY DEF HandlerOK
<1>2. /\ task' \in [Tasks -> Handlers]
      /\ task'[t] = h
      /\ \A u \in Tasks \ {t} : task'[u] = task[u]
  BY <1>1, BecomeOne DEF TypeOK
<1> QED
  BY <1>2 DEF TypeOK, HandlerOK

\* What a handler does with a provider keeps the types.
LEMMA UseTyped ==
  ASSUME TypeOK, NEW t \in Tasks, NEW p \in Provider, Use(t, p),
         task[t].pc \in {"lookup", "store"},
         UNCHANGED <<signing, jwks, spent>>, cache' \in Provider \cup {None}
  PROVE  TypeOK'
<1> DEFINE h == [task[t] EXCEPT
               !.provider = p, !.fetched = None,
               !.pc = IF task[t].op # "callback" THEN "done"
                      ELSE IF task[t].retried THEN "revalidate" ELSE "exchange",
               !.status = IF task[t].op # "callback" THEN "redirect" ELSE @]
<1>1. task[t] \in Handlers /\ HandlerOK(t, task[t])
  BY DEF TypeOK
<1>2. p # None
  BY OidcAssumption
<1>3. h \in Handlers
  BY <1>1 DEF Handlers
<1>4. HandlerOK(t, h)
  BY <1>1, <1>2, <1>3 DEF HandlerOK, Handlers
<1>5. h.token # None => h.token.key <= signing
  BY <1>1 DEF TypeOK, Handlers
<1> QED
  BY <1>4, <1>5, TypeOKByHandler DEF TypeOK, Use

\* Every answer keeps the types.
LEMMA AnswerTyped ==
  ASSUME TypeOK, NEW t \in Tasks, NEW s \in Statuses \ {"pending"}, Answer(t, s),
         UNCHANGED <<signing, jwks>>,
         spent' \in SUBSET Codes, cache' \in Provider \cup {None}
  PROVE  TypeOK'
<1> DEFINE h == [task[t] EXCEPT !.pc = "done", !.status = s]
<1>1. task[t] \in Handlers /\ HandlerOK(t, task[t])
  BY DEF TypeOK
<1>2. HandlerOK(t, h)
  BY <1>1 DEF HandlerOK, Handlers
<1>3. h.token # None => h.token.key <= signing
  BY <1>1 DEF TypeOK, Handlers
<1> QED
  BY <1>2, <1>3, TypeOKByHandler DEF Answer

--------------------------------------------------------------------------------
\* No step of a handler, of a client or of the provider takes the system out of
\* its types, or lets a handler reach a step without what the step needs.
LEMMA TypeKept ==
  ASSUME TypeOK, [Next]_vars
  PROVE  TypeOK'
<1> USE OidcAssumption
<1>0. ASSUME NEW t \in Tasks
      PROVE  task[t] \in Handlers /\ HandlerOK(t, task[t])
  BY DEF TypeOK
<1>1. ASSUME NEW t \in Tasks, NEW op \in Ops, NEW code \in Codes \cup {None},
             NEW trusted \in BOOLEAN, Begin(t, op, code, trusted)
      PROVE  TypeOK'
  <2> DEFINE refused == op = "callback" /\ (code = None \/ ~trusted)
             h == [Idle EXCEPT !.op = op, !.code = code,
                     !.pc = IF refused THEN "done" ELSE "lookup",
                     !.status = IF refused THEN "unauthorized" ELSE "pending"]
  <2>1. h \in Handlers
    BY DEF Handlers, Idle
  <2>2. HandlerOK(t, h) /\ h.token = None
    BY <2>1 DEF HandlerOK, Idle
  <2> QED
    BY <1>1, <2>2, TypeOKByHandler DEF Begin, TypeOK
<1>2. ASSUME NEW t \in Tasks, Lookup(t)
      PROVE  TypeOK'
  <2>1. CASE cache # None
    <3>1. cache \in Provider /\ Use(t, cache) /\ task[t].pc = "lookup"
      BY <1>2, <2>1 DEF Lookup, TypeOK, At
    <3> QED
      BY <1>2, <3>1, UseTyped DEF Lookup, TypeOK
  <2>2. CASE cache = None
    <3> DEFINE h == [task[t] EXCEPT !.pc = "fetch"]
    <3>1. HandlerOK(t, h)
      BY <1>0, <1>2 DEF HandlerOK, Handlers, Lookup, At
    <3>2. h.token # None => h.token.key <= signing
      BY <1>0 DEF TypeOK, Handlers
    <3> QED
      BY <1>2, <2>2, <3>1, <3>2, TypeOKByHandler DEF Lookup, TypeOK
  <2> QED
    BY <2>1, <2>2
<1>3. ASSUME NEW t \in Tasks, Fetch(t)
      PROVE  TypeOK'
  <2> DEFINE p == [keys |-> jwks, by |-> t]
             h == [task[t] EXCEPT !.fetched = p, !.pc = "store"]
  <2>1. p \in Provider /\ p # None /\ p.by = t
    BY DEF TypeOK
  <2>2. h \in Handlers
    BY <1>0, <2>1 DEF Handlers
  <2>3. HandlerOK(t, h)
    BY <1>0, <1>3, <2>1, <2>2 DEF HandlerOK, Handlers, Fetch, At
  <2>4. h.token # None => h.token.key <= signing
    BY <1>0 DEF TypeOK, Handlers
  <2> QED
    BY <1>3, <2>3, <2>4, TypeOKByHandler DEF Fetch, TypeOK
<1>4. ASSUME NEW t \in Tasks, FetchFails(t)
      PROVE  TypeOK'
  <2> DEFINE s == IF task[t].op = "logout" THEN "redirect" ELSE "unavailable"
  <2>1. s \in Statuses \ {"pending"}
    OBVIOUS
  <2> QED
    BY <1>4, <2>1, AnswerTyped DEF FetchFails, TypeOK
<1>5. ASSUME NEW t \in Tasks, Store(t)
      PROVE  TypeOK'
  <2>1. task[t].fetched \in Provider
    BY <1>0, <1>5 DEF Store, At, HandlerOK, Handlers
  <2> QED
    BY <1>5, <2>1, UseTyped DEF Store, At, TypeOK
<1>6. ASSUME NEW t \in Tasks, Exchange(t)
      PROVE  TypeOK'
  <2>0. task[t].code \in Codes
    BY <1>0, <1>6 DEF Exchange, At, HandlerOK, Handlers
  <2>1. spent' \in SUBSET Codes
    BY <1>6, <2>0 DEF Exchange, TypeOK
  <2>2. CASE Answer(t, "unauthorized")
    BY <1>6, <2>1, <2>2, AnswerTyped DEF Exchange, TypeOK
  <2>3. ASSUME NEW sound \in BOOLEAN,
               Become(t, [task[t] EXCEPT !.token = [key |-> signing, sound |-> sound],
                                         !.pc = "validate"])
        PROVE  TypeOK'
    <3> DEFINE h == [task[t] EXCEPT !.token = [key |-> signing, sound |-> sound],
                                    !.pc = "validate"]
    <3>1. [key |-> signing, sound |-> sound] \in Token
      BY DEF TypeOK
    <3>2. h \in Handlers
      BY <1>0, <3>1 DEF Handlers
    <3>3. HandlerOK(t, h)
      BY <1>0, <1>6, <3>1, <3>2 DEF HandlerOK, Handlers, Exchange, At
    <3>4. h.token.key <= signing
      BY <1>0 DEF TypeOK, Handlers
    <3> QED
      BY <1>6, <2>1, <2>3, <3>3, <3>4, TypeOKByHandler DEF Exchange, TypeOK
  <2> QED
    BY <1>6, <2>2, <2>3 DEF Exchange
<1>7. ASSUME NEW t \in Tasks, ExchangeFails(t)
      PROVE  TypeOK'
  <2>0. task[t].code \in Codes
    BY <1>0, <1>7 DEF ExchangeFails, At, HandlerOK, Handlers
  <2>1. spent' \in SUBSET Codes
    BY <1>7, <2>0 DEF ExchangeFails, TypeOK
  <2> QED
    BY <1>7, <2>1, AnswerTyped DEF ExchangeFails, TypeOK
<1>8. ASSUME NEW t \in Tasks, Validate(t)
      PROVE  TypeOK'
  <2>1. CASE Answer(t, "session") /\ UNCHANGED cache
    BY <1>8, <2>1, AnswerTyped DEF Validate, TypeOK
  <2>2. CASE Answer(t, "unauthorized") /\ UNCHANGED cache
    BY <1>8, <2>2, AnswerTyped DEF Validate, TypeOK
  <2>3. CASE Refresh(t)
    <3> DEFINE h == [task[t] EXCEPT !.retried = TRUE, !.provider = None, !.pc = "lookup"]
    <3>1. h \in Handlers
      BY <1>0 DEF Handlers
    <3>2. HandlerOK(t, h)
      BY <1>0, <1>8, <3>1 DEF HandlerOK, Handlers, Validate, At
    <3>3. h.token # None => h.token.key <= signing
      BY <1>0 DEF TypeOK, Handlers
    <3> QED
      BY <1>8, <2>3, <3>2, <3>3, TypeOKByHandler
      DEF Validate, Refresh, InvalidateCache, TypeOK
  <2> QED
    BY <1>8, <2>1, <2>2, <2>3 DEF Validate
<1>9. ASSUME NEW t \in Tasks, Revalidate(t)
      PROVE  TypeOK'
  <2> DEFINE s == IF Signed(t) /\ Sound(t) THEN "session" ELSE "unauthorized"
  <2>1. s \in Statuses \ {"pending"}
    OBVIOUS
  <2> QED
    BY <1>9, <2>1, AnswerTyped DEF Revalidate, TypeOK
<1>10. ASSUME NEW t \in Tasks, Abandon(t)
       PROVE  TypeOK'
  BY <1>10, AnswerTyped DEF Abandon, TypeOK
<1>11. CASE Rotate
  BY <1>11 DEF Rotate, TypeOK, HandlerOK, Handlers
<1>12. CASE UNCHANGED vars
  BY <1>12 DEF vars, TypeOK, HandlerOK
<1> QED
  BY <1>1, <1>2, <1>3, <1>4, <1>5, <1>6, <1>7, <1>8, <1>9, <1>10, <1>11, <1>12
  DEF Next, Step

\* The state of the provider cache and of every handler keeps its type, and a
\* handler has what its step needs (discovered_provider and its callers).
THEOREM TypeCorrect == Spec => []TypeOK
<1>1. Init => TypeOK
  BY OidcAssumption DEF Init, TypeOK, HandlerOK, Handlers, Idle
<1> QED
  BY <1>1, TypeKept, PTL DEF Spec

--------------------------------------------------------------------------------
\* Taking up a provider changes nothing of what a handler has in hand.
LEMMA UseChanges ==
  ASSUME task \in [Tasks -> Handlers], NEW t \in Tasks, NEW p \in Provider, Use(t, p)
  PROVE  /\ task'[t].provider = p /\ task'[t].fetched = None
         /\ task'[t].token = task[t].token /\ task'[t].retried = task[t].retried
         /\ task'[t].pc = "done" => task'[t].status = "redirect"
         /\ \A u \in Tasks \ {t} : task'[u] = task[u]
<1> DEFINE h == [task[t] EXCEPT
               !.provider = p, !.fetched = None,
               !.pc = IF task[t].op # "callback" THEN "done"
                      ELSE IF task[t].retried THEN "revalidate" ELSE "exchange",
               !.status = IF task[t].op # "callback" THEN "redirect" ELSE @]
<1>0. task[t] \in Handlers
  OBVIOUS
<1>1. h \in Handlers
  BY <1>0 DEF Handlers
<1>2. /\ task'[t] = h
      /\ \A u \in Tasks \ {t} : task'[u] = task[u]
  BY <1>1, BecomeOne DEF Use
<1>3. h.provider = p /\ h.fetched = None /\ h.token = task[t].token
  BY <1>0 DEF Handlers
<1>4. h.retried = task[t].retried
  BY <1>0, Zenon DEF Handlers
<1>5. h.pc = "done" => h.status = "redirect"
  BY <1>0 DEF Handlers
<1> QED
  BY <1>2, <1>3, <1>4, <1>5

\* What one handler knows after its cache was cleared.
Current(t) ==
  task[t].retried /\ task[t].pc # "done" =>
    Knows(t, cache) /\ Knows(t, task[t].fetched) /\ Knows(t, task[t].provider)

\* A step of one handler that stores nothing leaves what the others know.
LEMMA OthersStayCurrent ==
  ASSUME TypeOK, RefreshIsCurrent, NEW t \in Tasks, NEW h \in Handlers, Become(t, h),
         UNCHANGED jwks, cache' = cache \/ cache' = None,
         NEW u \in Tasks \ {t}
  PROVE  Current(u)'
<1>1. task'[u] = task[u]
  BY BecomeOne DEF TypeOK
<1> QED
  BY <1>1 DEF Current, RefreshIsCurrent, Knows

\* An answered handler has nothing left to know.
LEMMA AnsweredIsCurrent ==
  ASSUME TypeOK, RefreshIsCurrent, NEW t \in Tasks, NEW s \in Statuses, Answer(t, s),
         UNCHANGED jwks, cache' = cache \/ cache' = None
  PROVE  RefreshIsCurrent'
<1> DEFINE h == [task[t] EXCEPT !.pc = "done", !.status = s]
<1>1. h \in Handlers /\ h.pc = "done"
  BY DEF TypeOK, Handlers
<1>2. task'[t] = h
  BY <1>1, BecomeOne DEF TypeOK, Answer
<1>3. ASSUME NEW u \in Tasks \ {t}
      PROVE  Current(u)'
  BY <1>1, <1>3, OthersStayCurrent DEF Answer
<1> QED
  BY <1>1, <1>2, <1>3 DEF RefreshIsCurrent, Current

\* A handler's own provider, fetched after it cleared the cache, knows the key of
\* its token while the key is published; every step keeps it so.
LEMMA CurrentKept ==
  ASSUME TypeOK, RefreshIsCurrent, [Next]_vars
  PROVE  RefreshIsCurrent'
<1> USE OidcAssumption
<1>0. ASSUME NEW t \in Tasks
      PROVE  task[t] \in Handlers /\ HandlerOK(t, task[t])
  BY DEF TypeOK
<1>1. ASSUME NEW t \in Tasks, NEW op \in Ops, NEW code \in Codes \cup {None},
             NEW trusted \in BOOLEAN, Begin(t, op, code, trusted)
      PROVE  RefreshIsCurrent'
  <2> DEFINE refused == op = "callback" /\ (code = None \/ ~trusted)
             h == [Idle EXCEPT !.op = op, !.code = code,
                     !.pc = IF refused THEN "done" ELSE "lookup",
                     !.status = IF refused THEN "unauthorized" ELSE "pending"]
  <2>1. h \in Handlers /\ ~h.retried
    BY DEF Handlers, Idle
  <2>2. task'[t] = h
    BY <1>1, <2>1, BecomeOne DEF Begin, TypeOK
  <2>3. ASSUME NEW u \in Tasks \ {t}
        PROVE  Current(u)'
    BY <1>1, <2>1, <2>3, OthersStayCurrent DEF Begin
  <2> QED
    BY <2>1, <2>2, <2>3 DEF RefreshIsCurrent, Current
<1>2. ASSUME NEW t \in Tasks, NEW p \in Provider, Use(t, p), task[t].pc # "done",
             task[t].retried => Knows(t, p), UNCHANGED jwks,
             cache' = cache \/ (cache' = p /\ p.by = t)
      PROVE  RefreshIsCurrent'
  <2>1. /\ task'[t].provider = p /\ task'[t].fetched = None
        /\ task'[t].token = task[t].token /\ task'[t].retried = task[t].retried
        /\ \A u \in Tasks \ {t} : task'[u] = task[u]
    BY <1>2, UseChanges DEF TypeOK
  <2>4. Current(t)'
    BY <1>2, <2>1 DEF RefreshIsCurrent, Current, Knows
  <2>5. ASSUME NEW u \in Tasks \ {t}
        PROVE  Current(u)'
    BY <1>2, <2>1 DEF RefreshIsCurrent, Current, Knows
  <2> QED
    BY <2>4, <2>5 DEF RefreshIsCurrent, Current
<1>3. ASSUME NEW t \in Tasks, Lookup(t)
      PROVE  RefreshIsCurrent'
  <2>1. CASE cache # None
    <3>1. cache \in Provider /\ Use(t, cache) /\ task[t].pc = "lookup"
      BY <1>3, <2>1 DEF Lookup, TypeOK, At
    <3>2. task[t].retried => Knows(t, cache)
      BY <3>1 DEF RefreshIsCurrent
    <3> QED
      BY <1>2, <1>3, <3>1, <3>2 DEF Lookup
  <2>2. CASE cache = None
    <3> DEFINE h == [task[t] EXCEPT !.pc = "fetch"]
    <3>1. h \in Handlers
      BY <1>0 DEF Handlers
    <3>2. task'[t] = h
      BY <1>3, <2>2, <3>1, BecomeOne DEF Lookup, TypeOK
    <3>3. Current(t)'
      BY <1>0, <1>3, <2>2, <3>2 DEF Lookup, At, RefreshIsCurrent, Current, Knows, Handlers
    <3>4. ASSUME NEW u \in Tasks \ {t}
          PROVE  Current(u)'
      BY <1>3, <2>2, <3>1, OthersStayCurrent DEF Lookup
    <3> QED
      BY <3>3, <3>4 DEF RefreshIsCurrent, Current
  <2> QED
    BY <2>1, <2>2
<1>4. ASSUME NEW t \in Tasks, Fetch(t)
      PROVE  RefreshIsCurrent'
  <2> DEFINE p == [keys |-> jwks, by |-> t]
             h == [task[t] EXCEPT !.fetched = p, !.pc = "store"]
  <2>1. p \in Provider
    BY DEF TypeOK
  <2>2. h \in Handlers
    BY <1>0, <2>1 DEF Handlers
  <2>3. task'[t] = h
    BY <1>4, <2>2, BecomeOne DEF Fetch, TypeOK
  <2>4. Current(t)'
    BY <1>0, <1>4, <2>3 DEF Fetch, At, RefreshIsCurrent, Current, Knows, Handlers
  <2>5. ASSUME NEW u \in Tasks \ {t}
        PROVE  Current(u)'
    BY <1>4, <2>2, OthersStayCurrent DEF Fetch
  <2> QED
    BY <2>4, <2>5 DEF RefreshIsCurrent, Current
<1>5. ASSUME NEW t \in Tasks, Store(t)
      PROVE  RefreshIsCurrent'
  <2>1. /\ task[t].pc = "store"
        /\ task[t].fetched \in Provider /\ task[t].fetched.by = t
    BY <1>0, <1>5 DEF Store, At, HandlerOK, Handlers
  <2>2. task[t].retried => Knows(t, task[t].fetched)
    BY <2>1 DEF RefreshIsCurrent
  <2> QED
    BY <1>2, <1>5, <2>1, <2>2 DEF Store
<1>6. ASSUME NEW t \in Tasks, Exchange(t)
      PROVE  RefreshIsCurrent'
  <2>1. CASE Answer(t, "unauthorized")
    BY <1>6, <2>1, AnsweredIsCurrent DEF Exchange
  <2>2. ASSUME NEW sound \in BOOLEAN,
               Become(t, [task[t] EXCEPT !.token = [key |-> signing, sound |-> sound],
                                         !.pc = "validate"])
        PROVE  RefreshIsCurrent'
    <3> DEFINE h == [task[t] EXCEPT !.token = [key |-> signing, sound |-> sound],
                                    !.pc = "validate"]
    <3>1. [key |-> signing, sound |-> sound] \in Token
      BY DEF TypeOK
    <3>2. h \in Handlers
      BY <1>0, <3>1 DEF Handlers
    <3>3. task'[t] = h
      BY <2>2, <3>2, BecomeOne DEF TypeOK
    <3>4. ~task[t].retried
      BY <1>0, <1>6 DEF Exchange, At, HandlerOK
    <3>5. Current(t)'
      BY <1>0, <3>3, <3>4 DEF Current, Handlers
    <3>6. ASSUME NEW u \in Tasks \ {t}
          PROVE  Current(u)'
      BY <1>6, <2>2, <3>2, OthersStayCurrent DEF Exchange
    <3> QED
      BY <3>5, <3>6 DEF RefreshIsCurrent, Current
  <2> QED
    BY <1>6, <2>1, <2>2 DEF Exchange
<1>7. ASSUME NEW t \in Tasks, Validate(t)
      PROVE  RefreshIsCurrent'
  <2>1. CASE Answer(t, "session") /\ UNCHANGED cache
    BY <1>7, <2>1, AnsweredIsCurrent DEF Validate
  <2>2. CASE Answer(t, "unauthorized") /\ UNCHANGED cache
    BY <1>7, <2>2, AnsweredIsCurrent DEF Validate
  <2>3. CASE Refresh(t)
    <3> DEFINE h == [task[t] EXCEPT !.retried = TRUE, !.provider = None, !.pc = "lookup"]
    <3>1. h \in Handlers
      BY <1>0 DEF Handlers
    <3>2. task'[t] = h /\ cache' = None
      BY <2>3, <3>1, BecomeOne DEF Refresh, InvalidateCache, TypeOK
    <3>3. h.fetched = None /\ h.provider = None
      BY <1>0, <1>7 DEF Validate, At, HandlerOK, Handlers
    <3>4. Current(t)'
      BY <3>2, <3>3 DEF Current, Knows
    <3>5. ASSUME NEW u \in Tasks \ {t}
          PROVE  Current(u)'
      BY <1>7, <2>3, <3>1, OthersStayCurrent DEF Validate, Refresh, InvalidateCache
    <3> QED
      BY <3>4, <3>5 DEF RefreshIsCurrent, Current
  <2> QED
    BY <1>7, <2>1, <2>2, <2>3 DEF Validate
<1>8. ASSUME NEW t \in Tasks, FetchFails(t) \/ ExchangeFails(t) \/ Revalidate(t) \/ Abandon(t)
      PROVE  RefreshIsCurrent'
  <2>1. PICK s \in Statuses : Answer(t, s)
    BY <1>8 DEF FetchFails, ExchangeFails, Revalidate, Abandon
  <2>2. UNCHANGED <<jwks, cache>>
    BY <1>8 DEF FetchFails, ExchangeFails, Revalidate, Abandon
  <2> QED
    BY <2>1, <2>2, AnsweredIsCurrent
<1>9. CASE Rotate
  <2>1. PICK kept \in SUBSET jwks : jwks' = kept \cup {signing + 1}
    BY <1>9 DEF Rotate
  <2>2. ASSUME NEW t \in Tasks, task[t].token # None, task[t].token.key \in jwks'
        PROVE  task[t].token.key \in jwks
    BY <1>0, <2>1, <2>2 DEF TypeOK, Handlers
  <2>3. ASSUME NEW t \in Tasks, task[t].retried
        PROVE  task[t].token # None
    BY <1>0, <2>3 DEF HandlerOK
  <2> QED
    BY <1>9, <2>2, <2>3 DEF Rotate, RefreshIsCurrent, Knows
<1>10. CASE UNCHANGED vars
  BY <1>10 DEF vars, RefreshIsCurrent, Knows
<1> QED
  BY <1>1, <1>3, <1>4, <1>5, <1>6, <1>7, <1>8, <1>9, <1>10 DEF Next, Step

\* A provider that a callback fetched after it found its token's key missing has
\* that key for as long as the key is published; so has the cache, if it is that
\* callback's (invalidate_provider_cache, discovered_provider).
THEOREM RefreshCurrent == Spec => []RefreshIsCurrent
<1>1. Init => RefreshIsCurrent
  BY DEF Init, RefreshIsCurrent, Idle
<1>2. RefreshIsCurrent /\ TypeOK /\ [Next]_vars => RefreshIsCurrent'
  BY CurrentKept
<1> QED
  BY <1>1, <1>2, TypeCorrect, PTL DEF Spec

--------------------------------------------------------------------------------
\* A step turns away only the handler that takes it, from one of four places.
LEMMA WhoIsTurnedAway ==
  ASSUME TypeOK, Next, NEW t \in Tasks, TurnedAway(t)
  PROVE  \/ task[t].pc \in {"fetch", "store", "exchange", "done"}
         \/ Validate(t) \/ Revalidate(t)
<1>1. ASSUME NEW u \in Tasks \ {t}, NEW h, Become(u, h)
      PROVE  FALSE
  BY <1>1 DEF TypeOK, Become, TurnedAway
<1>2. ASSUME NEW h, Become(t, h)
      PROVE  task'[t] = h
  BY <1>2 DEF TypeOK, Become
<1>3. ~Rotate
  BY DEF Rotate, TurnedAway
<1>4. PICK u \in Tasks :
        \/ \E op \in Ops, code \in Codes \cup {None}, trusted \in BOOLEAN :
             Begin(u, op, code, trusted)
        \/ Step(u) \/ Abandon(u)
  BY <1>3 DEF Next
<1>5. u = t
  BY <1>1, <1>4 DEF Step, Begin, Lookup, Fetch, FetchFails, Store, Exchange,
       ExchangeFails, Validate, Revalidate, Refresh, Abandon, Use, Answer
<1>6. ~Lookup(t)
  <2> SUFFICES ASSUME Lookup(t)
               PROVE  FALSE
    OBVIOUS
  <2>1. CASE cache # None
    <3>1. cache \in Provider /\ Use(t, cache)
      BY <2>1 DEF Lookup, TypeOK
    <3> QED
      BY <3>1, UseChanges DEF TypeOK, TurnedAway
  <2>2. CASE cache = None
    <3> DEFINE h == [task[t] EXCEPT !.pc = "fetch"]
    <3>1. task'[t] = h
      BY <1>2, <2>2 DEF Lookup
    <3>2. task[t] \in Handlers
      BY DEF TypeOK
    <3> QED
      BY <3>1, <3>2 DEF TurnedAway, Handlers
  <2> QED
    BY <2>1, <2>2
<1>7. CASE \E op \in Ops, code \in Codes \cup {None}, trusted \in BOOLEAN :
             Begin(t, op, code, trusted)
  BY <1>7 DEF Begin, At
<1>8. CASE Step(t)
  BY <1>6, <1>8 DEF Step, Fetch, FetchFails, Store, Exchange, ExchangeFails, At
<1>9. CASE Abandon(t)
  <2>1. task'[t] = [task[t] EXCEPT !.pc = "done", !.status = "none"]
    BY <1>2, <1>9 DEF Abandon, Answer
  <2>2. task[t] \in Handlers
    BY DEF TypeOK
  <2> QED
    BY <2>1, <2>2 DEF TurnedAway, Handlers
<1> QED
  BY <1>4, <1>5, <1>7, <1>8, <1>9

\* A callback that holds a sound token is turned away only when its discovery
\* fails, its token's key was withdrawn, or another handler's provider was in the
\* cache (exchange_code_and_validate_id_token).
THEOREM OwnRefreshIsEnough == Spec => OwnRefreshSuffices
<1>1. ASSUME TypeOK, RefreshIsCurrent, Next, NEW t \in Tasks
      PROVE  OwnRefresh(t)
  <2> SUFFICES ASSUME TurnedAway(t), task[t].token # None, task[t].token.sound,
                      task[t].pc \notin {"fetch", "store"},
                      task[t].token.key \in jwks, task[t].provider.by = t
               PROVE  FALSE
    BY DEF OwnRefresh
  <2>1. task[t] \in Handlers /\ HandlerOK(t, task[t])
    BY <1>1 DEF TypeOK
  <2>2. task[t].pc # "done"
    BY DEF TurnedAway
  <2>3. task[t].pc # "exchange"
    BY <2>1 DEF HandlerOK
  <2>4. CASE Validate(t)
    <3>1. Answer(t, "session") \/ Refresh(t)
      BY <2>4 DEF Validate, Sound
    <3>2. CASE Answer(t, "session")
      <4>1. task'[t] = [task[t] EXCEPT !.pc = "done", !.status = "session"]
        BY <1>1, <3>2 DEF Answer, Become, TypeOK
      <4> QED
        BY <2>1, <4>1 DEF TurnedAway, Handlers
    <3>3. CASE Refresh(t)
      <4>1. task'[t] = [task[t] EXCEPT !.retried = TRUE, !.provider = None,
                                       !.pc = "lookup"]
        BY <1>1, <3>3 DEF Refresh, Become, TypeOK
      <4> QED
        BY <2>1, <4>1 DEF TurnedAway, Handlers
    <3> QED
      BY <3>1, <3>2, <3>3
  <2>5. CASE Revalidate(t)
    <3>1. task[t].retried
      BY <2>1, <2>5 DEF Revalidate, At, HandlerOK
    <3>2. Knows(t, task[t].provider)
      BY <1>1, <2>2, <3>1 DEF RefreshIsCurrent
    <3>3. task[t].token.key \in task[t].provider.keys
      BY <2>1, <2>5, <3>2 DEF Knows, Revalidate, At, HandlerOK
    <3> QED
      BY <1>1, <2>1, <2>5, <3>3 DEF Revalidate, Signed, Sound, Answer, Become, TurnedAway, TypeOK, Handlers
  <2> QED
    BY <1>1, <2>2, <2>3, <2>4, <2>5, WhoIsTurnedAway
<1>2. TypeOK /\ RefreshIsCurrent /\ [Next]_vars => [\A t \in Tasks : OwnRefresh(t)]_vars
  BY <1>1
<1> QED
  BY <1>2, TypeCorrect, RefreshCurrent, PTL DEF Spec, OwnRefreshSuffices
================================================================================
