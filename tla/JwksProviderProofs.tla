------------------------- MODULE JwksProviderProofs -------------------------
(***************************************************************************)
(* Proofs about JwksProvider for any requests, tokens, published key sets, *)
(* time to live and breaker configuration.                                 *)
(*                                                                         *)
(* That the provider uses its breaker as prescribed needs no invariant:    *)
(* every action is an action of the breaker or leaves it alone.  What is   *)
(* proved of the breaker in CircuitBreakerProofs therefore holds of the    *)
(* provider's, and its type invariant is taken from there.  The rest is    *)
(* one induction: a key set in hand was published (Ordered), and a fresh   *)
(* cache holds one (FreshIsFilled), so no verdict rests on the empty set.  *)
(***************************************************************************)
EXTENDS JwksProvider, TLAPS

BP == INSTANCE CircuitBreakerProofs WITH Callers <- Requests

\* The breaker the provider is composed with and the one that was proved
\* about are the same.
LEMMA SameBreaker ==
    /\ B!Init <=> BP!Init
    /\ [B!Next]_(B!vars) <=> [BP!Next]_(BP!vars)
    /\ B!TypeOK <=> BP!TypeOK
<1>1. B!Init <=> BP!Init
  BY DEF B!Init, BP!Init
<1>2. B!TypeOK <=> BP!TypeOK
  BY DEF B!TypeOK, BP!TypeOK, B!ConfigType, BP!ConfigType
<1>3. B!vars = BP!vars
  BY DEF B!vars, BP!vars
<1>4. B!Tick <=> BP!Tick
  BY DEF B!Tick, BP!Tick, B!TimedOut, BP!TimedOut
<1>5. ASSUME NEW c
      PROVE  B!IsRequestAllowed(c) <=> BP!IsRequestAllowed(c)
  <2>1. B!AllowClosed(c) <=> BP!AllowClosed(c)
    BY DEF B!AllowClosed, BP!AllowClosed, B!Admit, BP!Admit, B!inner, BP!inner
  <2>2. B!StartHalfOpen(c) <=> BP!StartHalfOpen(c)
    BY DEF B!StartHalfOpen, BP!StartHalfOpen, B!Admit, BP!Admit, B!TimedOut, BP!TimedOut
  <2>3. B!CloseDirectly(c) <=> BP!CloseDirectly(c)
    BY DEF B!CloseDirectly, BP!CloseDirectly, B!Admit, BP!Admit, B!TimedOut, BP!TimedOut
  <2>4. B!TakeProbeSlot(c) <=> BP!TakeProbeSlot(c)
    BY DEF B!TakeProbeSlot, BP!TakeProbeSlot, B!Admit, BP!Admit
  <2>5. B!Reject(c) <=> BP!Reject(c)
    BY DEF B!Reject, BP!Reject, B!TimedOut, BP!TimedOut, B!vars, BP!vars
  <2> QED
    BY <2>1, <2>2, <2>3, <2>4, <2>5 DEF B!IsRequestAllowed, BP!IsRequestAllowed
<1>6. ASSUME NEW c
      PROVE  B!RecordSuccess(c) <=> BP!RecordSuccess(c)
  BY DEF B!RecordSuccess, BP!RecordSuccess, B!Return, BP!Return
<1>7. ASSUME NEW c
      PROVE  B!RecordFailure(c) <=> BP!RecordFailure(c)
  BY DEF B!RecordFailure, BP!RecordFailure, B!Return, BP!Return, B!CountFailure,
         BP!CountFailure, B!Open, BP!Open, B!inner, BP!inner
<1>8. ASSUME NEW c
      PROVE  B!DropCall(c) <=> BP!DropCall(c)
  BY DEF B!DropCall, BP!DropCall, B!Return, BP!Return, B!inner, BP!inner
<1>9. B!Next <=> BP!Next
  BY <1>4, <1>5, <1>6, <1>7, <1>8 DEF B!Next, BP!Next
<1>10. [B!Next]_(B!vars) <=> [BP!Next]_(BP!vars)
  BY <1>9 DEF B!vars, BP!vars
<1> QED
  BY <1>1, <1>2, <1>10

\* Every step of the provider is a step of its breaker or leaves it alone.
LEMMA StepUsesBreaker == [Next]_vars => [B!Next]_(B!vars)
<1> SUFFICES ASSUME [Next]_vars PROVE [B!Next]_(B!vars)
  OBVIOUS
<1>1. CASE Tick
  BY <1>1 DEF Tick, B!Next, B!vars, breaker
<1>2. CASE Rotate \/ Warm \/ UNCHANGED vars
  BY <1>2 DEF Rotate, Warm, vars, B!vars, breaker
<1>3. ASSUME NEW r \in Requests, NEW tok \in Tokens, Lookup(r, tok)
      PROVE  UNCHANGED B!vars
  BY <1>3 DEF Lookup, B!vars, breaker
<1>4. ASSUME NEW r \in Requests, BadBody(r) \/ Store(r)
      PROVE  UNCHANGED B!vars
  BY <1>4 DEF BadBody, Store, B!vars, breaker
<1>5. ASSUME NEW r \in Requests, BeginFetch(r) \/ FetchFails(r) \/ Respond(r)
      PROVE  B!Next
  BY <1>5 DEF BeginFetch, FetchFails, Respond, B!Next
<1>6. ASSUME NEW r \in Requests, Drop(r)
      PROVE  [B!Next]_(B!vars)
  BY <1>6 DEF Drop, B!Next, B!vars, breaker
<1> QED
  BY <1>1, <1>2, <1>3, <1>4, <1>5, <1>6 DEF Next, Progress

\* The provider is a well-behaved user of its breaker: one outcome for each
\* call that was admitted, none for a rejected one (fetch_keys 98-112).
THEOREM ProviderUsesBreaker == Spec => UsesBreaker
<1>1. Init => B!Init
  BY DEF Init
<1> QED
  BY <1>1, StepUsesBreaker, PTL DEF Spec, UsesBreaker, B!Spec

\* So the breaker's type invariant holds of it.
LEMMA BreakerTyped == Spec => []B!TypeOK
<1>1. BP!IsFiniteSet(Requests) /\ Configs \subseteq BP!ConfigType
  BY RequestsFinite, BreakerConfigured
     DEF IsFiniteSet, BP!IsFiniteSet, BP!ConfigType, B!ConfigType
<1>2. B!Init => BP!IInv
  BY <1>1, SameBreaker, BP!InitEstablishes
<1>3. BP!IInv /\ [B!Next]_(B!vars) => BP!IInv'
  BY <1>1, SameBreaker, BP!StepPreserves
<1>4. BP!IInv => B!TypeOK
  BY SameBreaker DEF BP!IInv
<1> QED
  BY <1>2, <1>3, <1>4, ProviderUsesBreaker, PTL DEF UsesBreaker, B!Spec
-----------------------------------------------------------------------------
(* The induction.                                                          *)

\* Every key set in hand was published by now, and the set a request got is
\* no older than the one cached when it looked.
Ordered ==
    /\ cached <= version
    /\ \A r \in Requests :
          /\ req[r].base <= version
          /\ req[r].body <= version
          /\ req[r].body # 0 => req[r].body >= req[r].base

\* A cache that counts as fresh was filled.
FreshIsFilled == Fresh => cached # 0

\* The provider's part of TypeOK; the breaker's is BreakerTyped.
OwnTypeOK ==
    /\ version \in Versions
    /\ cached \in {0} \cup Versions
    /\ age \in 0..TTL
    /\ up \in BOOLEAN
    /\ req \in [Requests -> RequestType]
    /\ inFlight = {r \in Requests : req[r].pc = "sent"}

IInv == OwnTypeOK /\ Ordered /\ FreshIsFilled /\ StableKeyNeverRejected

\* A valid token signed by a key that every published set holds passes the
\* key selection and the verification, whichever published set decides.
StableToken(tok) ==
    /\ \A v \in Versions : tok.signer \in KeysOf(v) \cap Convertible
    /\ tok.kid \in {NoKid, tok.signer}
    /\ tok.exp = "valid"

LEMMA StableAccepted ==
    ASSUME NEW tok, NEW v \in Versions, StableToken(tok)
    PROVE  Verdict(tok, SelectKey(KeysOf(v), tok.kid)) = "accepted"
<1>1. tok.signer \in SelectKey(KeysOf(v), tok.kid)
  BY NoKidIsNoKey DEF StableToken, SelectKey
<1> QED
  BY <1>1 DEF StableToken, Verdict, ExpiryAccepted

\* What the breaker's actions do to the calls in flight.
LEMMA CallsInFlight ==
    ASSUME NEW r
    PROVE  /\ B!IsRequestAllowed(r) =>
                /\ r \notin inFlight
                /\ inFlight' \in {inFlight, inFlight \cup {r}}
           /\ B!RecordSuccess(r) \/ B!RecordFailure(r) \/ B!DropCall(r) =>
                inFlight' = inFlight \ {r}
           /\ B!Tick => inFlight' = inFlight
<1>1. B!IsRequestAllowed(r) =>
        r \notin inFlight /\ inFlight' \in {inFlight, inFlight \cup {r}}
  BY DEF B!IsRequestAllowed, B!AllowClosed, B!StartHalfOpen, B!CloseDirectly,
         B!TakeProbeSlot, B!Reject, B!Admit, B!vars
<1>2. B!RecordSuccess(r) \/ B!RecordFailure(r) \/ B!DropCall(r) =>
        inFlight' = inFlight \ {r}
  BY DEF B!RecordSuccess, B!RecordFailure, B!DropCall, B!Return
<1>3. B!Tick => inFlight' = inFlight
  BY DEF B!Tick
<1> QED
  BY <1>1, <1>2, <1>3

\* What a request looks like when it is finished, and what the others do.
LEMMA Finished ==
    ASSUME OwnTypeOK, NEW r \in Requests, NEW verdict \in Done, Finish(r, verdict)
    PROVE  /\ req' \in [Requests -> RequestType]
           /\ \A q \in Requests \ {r} : req'[q] = req[q]
           /\ req'[r].pc = verdict /\ req'[r].tok = req[r].tok
           /\ req'[r].body = 0 /\ req'[r].base = 0
  BY DEF OwnTypeOK, Finish, RequestType, Done

LEMMA InitEstablishes == Init => IInv
<1> SUFFICES ASSUME Init PROVE IInv
  OBVIOUS
<1>1. Idle \in RequestType /\ Idle.pc = "idle" /\ Idle.body = 0 /\ Idle.base = 0
  BY SomeToken DEF Idle, RequestType, Done
<1>2. 1 \in Versions
  BY SomethingPublished DEF Versions
<1>3. OwnTypeOK
  BY <1>1, <1>2, TTLPositive DEF Init, B!Init, OwnTypeOK
<1>4. Ordered /\ FreshIsFilled
  BY <1>1, TTLPositive DEF Init, Ordered, FreshIsFilled, Fresh
<1>5. StableKeyNeverRejected
  BY <1>1 DEF Init, StableKeyNeverRejected
<1> QED
  BY <1>3, <1>4, <1>5 DEF IInv

\* A step that only ends request r, with the breaker's calls following suit.
LEMMA FinishPreserves ==
    ASSUME IInv, NEW r \in Requests, NEW verdict \in Done, Finish(r, verdict),
           inFlight' = inFlight \ {r}, UNCHANGED <<version, cached, age, up>>,
           verdict = "rejected" => ~StableToken(req[r].tok)
    PROVE  IInv'
<1> USE DEF IInv
<1>1. /\ req' \in [Requests -> RequestType]
      /\ \A q \in Requests \ {r} : req'[q] = req[q]
      /\ req'[r].pc = verdict /\ req'[r].tok = req[r].tok
      /\ req'[r].body = 0 /\ req'[r].base = 0
  BY Finished
<1>2. OwnTypeOK'
  BY <1>1 DEF OwnTypeOK, Versions, Done
<1>3. Ordered'
  BY <1>1 DEF OwnTypeOK, Ordered, Versions
<1>4. FreshIsFilled'
  BY DEF FreshIsFilled, Fresh
<1>5. StableKeyNeverRejected'
  BY <1>1 DEF StableKeyNeverRejected, StableToken, Versions, KeysOf
<1> QED
  BY <1>2, <1>3, <1>4, <1>5

\* Lookup answers, if it does, from a set that was published, and takes the
\* number of the cached one with it otherwise.
LEMMA LookupPreserves ==
    ASSUME IInv, NEW r \in Requests, NEW tok \in Tokens, Lookup(r, tok)
    PROVE  IInv'
<1> USE DEF IInv
<1> DEFINE selected == SelectKey(KeysOf(cached), tok.kid)
           answered == Fresh /\ (selected # {} \/ tok.kid = NoKid)
           pc == CASE SecretAccepts(tok) -> "accepted"
                   [] ~SecretAccepts(tok) /\ answered -> Verdict(tok, selected)
                   [] OTHER -> "calling"
           base == IF pc = "calling" THEN cached ELSE 0
           after == [pc |-> pc, tok |-> tok, body |-> 0, base |-> base]
<1>1. /\ req' = [req EXCEPT ![r] = after]
      /\ UNCHANGED <<breaker, version, cached, age, up>>
      /\ req[r].pc \in Done
  BY DEF Lookup
<1>2. pc \in {"accepted", "rejected", "calling"}
  BY DEF Verdict
<1>3. pc = "rejected" => ~StableToken(tok)
  <2> SUFFICES ASSUME pc = "rejected", StableToken(tok) PROVE FALSE
    OBVIOUS
  <2>1. answered /\ pc = Verdict(tok, selected)
    OBVIOUS
  <2>2. cached \in Versions
    BY <2>1 DEF FreshIsFilled, OwnTypeOK
  <2> QED
    BY <2>1, <2>2, StableAccepted
<1>4. base \in {0, cached}
  OBVIOUS
<1> HIDE DEF pc, base
<1>5. after \in RequestType
  BY <1>2, <1>4 DEF RequestType, Done, OwnTypeOK
<1>6. /\ req' \in [Requests -> RequestType]
      /\ req'[r] = after
      /\ \A q \in Requests \ {r} : req'[q] = req[q]
  BY <1>1, <1>5 DEF OwnTypeOK
<1>7. inFlight' = inFlight /\ r \notin inFlight
  BY <1>1 DEF breaker, OwnTypeOK, Done
<1>8. OwnTypeOK'
  BY <1>1, <1>2, <1>6, <1>7 DEF OwnTypeOK, Versions
<1>9. Ordered'
  BY <1>1, <1>4, <1>6 DEF OwnTypeOK, Ordered, Versions
<1>10. FreshIsFilled'
  BY <1>1 DEF FreshIsFilled, Fresh
<1>11. StableKeyNeverRejected'
  BY <1>1, <1>3, <1>6 DEF StableKeyNeverRejected, StableToken, Versions, KeysOf
<1> QED
  BY <1>8, <1>9, <1>10, <1>11

\* The fetch that is let through, and the answer that arrives: the request
\* keeps its token and what it saw, and has at most the present key set.
LEMMA FetchPreserves ==
    ASSUME IInv, NEW r \in Requests, NEW pc \in {"sent", "body"},
           NEW body \in {0, version, req[r].body},
           req' = [req EXCEPT ![r].pc = pc, ![r].body = body],
           inFlight' = IF pc = "sent" THEN inFlight \cup {r} ELSE inFlight \ {r},
           UNCHANGED <<version, cached, age, up>>
    PROVE  IInv'
<1> USE DEF IInv
<1>1. /\ req' \in [Requests -> RequestType]
      /\ \A q \in Requests \ {r} : req'[q] = req[q]
      /\ req'[r].pc = pc /\ req'[r].tok = req[r].tok
      /\ req'[r].body = body /\ req'[r].base = req[r].base
  BY DEF OwnTypeOK, RequestType, Done
<1>2. OwnTypeOK'
  BY <1>1 DEF OwnTypeOK, Versions, Done
<1>3. Ordered'
  BY <1>1 DEF OwnTypeOK, Ordered, Versions
<1>4. FreshIsFilled'
  BY DEF FreshIsFilled, Fresh
<1>5. StableKeyNeverRejected'
  BY <1>1 DEF StableKeyNeverRejected, StableToken, Versions, KeysOf
<1> QED
  BY <1>2, <1>3, <1>4, <1>5

LEMMA StepPreserves == IInv /\ [Next]_vars => IInv'
<1> SUFFICES ASSUME IInv, [Next]_vars PROVE IInv'
  OBVIOUS
<1> USE DEF IInv
<1>1. CASE Tick
  <2>1. inFlight' = inFlight
    BY <1>1, CallsInFlight DEF Tick, breaker
  <2>2. age' \in 0..TTL /\ (age' < TTL => age < TTL)
    BY <1>1, TTLPositive DEF Tick, Fresh, OwnTypeOK
  <2>3. UNCHANGED <<version, cached, req, up>>
    BY <1>1 DEF Tick
  <2> QED
    BY <2>1, <2>2, <2>3 DEF OwnTypeOK, Ordered, FreshIsFilled, Fresh,
       StableKeyNeverRejected, Versions, KeysOf
<1>2. CASE Rotate
  <2>1. version' \in Versions /\ version' > version
    BY <1>2, SomethingPublished DEF Rotate, OwnTypeOK, Versions
  <2> QED
    BY <1>2, <2>1 DEF Rotate, breaker, OwnTypeOK, RequestType, Ordered, FreshIsFilled,
       Fresh, StableKeyNeverRejected, Versions, KeysOf
<1>3. CASE Warm
  BY <1>3, TTLPositive DEF Warm, breaker, OwnTypeOK, Ordered, FreshIsFilled, Fresh,
     StableKeyNeverRejected, Versions, KeysOf
<1>4. ASSUME NEW r \in Requests, NEW tok \in Tokens, Lookup(r, tok) PROVE IInv'
  BY <1>4, LookupPreserves
<1>5. ASSUME NEW r \in Requests, BeginFetch(r) PROVE IInv'
  <2>1. /\ r \notin inFlight
        /\ inFlight' \in {inFlight, inFlight \cup {r}}
        /\ UNCHANGED <<version, cached, age, up>>
    BY <1>5, CallsInFlight DEF BeginFetch
  <2>2. CASE r \in inFlight'
    <3>1. req' = [req EXCEPT ![r].pc = "sent", ![r].body = req[r].body]
      BY <1>5, <2>2 DEF BeginFetch, OwnTypeOK, RequestType
    <3> QED
      BY <2>1, <2>2, <3>1, FetchPreserves
  <2>3. CASE r \notin inFlight'
    <3>1. Finish(r, "error")
      BY <1>5, <2>3 DEF BeginFetch
    <3> QED
      BY <2>1, <2>3, <3>1, FinishPreserves DEF Done
  <2> QED
    BY <2>2, <2>3
<1>6. ASSUME NEW r \in Requests, FetchFails(r) PROVE IInv'
  <2>1. inFlight' = inFlight \ {r}
    BY <1>6, CallsInFlight DEF FetchFails
  <2> QED
    BY <1>6, <2>1, FinishPreserves DEF FetchFails, Done
<1>7. ASSUME NEW r \in Requests, Respond(r) PROVE IInv'
  <2>1. inFlight' = inFlight \ {r}
    BY <1>7, CallsInFlight DEF Respond
  <2>2. PICK body \in {0, version} :
            req' = [req EXCEPT ![r].pc = "body", ![r].body = body]
    BY <1>7 DEF Respond
  <2> QED
    BY <1>7, <2>1, <2>2, FetchPreserves DEF Respond
<1>8. ASSUME NEW r \in Requests, BadBody(r) PROVE IInv'
  <2>1. inFlight' = inFlight /\ r \notin inFlight
    BY <1>8 DEF BadBody, breaker, OwnTypeOK
  <2> QED
    BY <1>8, <2>1, FinishPreserves DEF BadBody, Done
<1>9. ASSUME NEW r \in Requests, Store(r) PROVE IInv'
  <2> DEFINE tok == req[r].tok
             verdict == Verdict(tok, SelectKey(KeysOf(req[r].body), tok.kid))
  <2>1. /\ req[r].pc = "body" /\ req[r].body # 0
        /\ cached' = req[r].body /\ age' = 0
        /\ Finish(r, verdict)
        /\ UNCHANGED <<breaker, version, up>>
    BY <1>9 DEF Store
  <2>2. req[r].body \in Versions /\ req[r].body <= version
    BY <2>1 DEF OwnTypeOK, RequestType, Ordered
  <2>3. verdict \in Done
    BY DEF Verdict, Done
  <2>4. verdict = "rejected" => ~StableToken(tok)
    BY <2>2, StableAccepted
  <2>5. /\ req' \in [Requests -> RequestType]
        /\ \A q \in Requests \ {r} : req'[q] = req[q]
        /\ req'[r].pc = verdict /\ req'[r].tok = tok
        /\ req'[r].body = 0 /\ req'[r].base = 0
    BY <2>1, <2>3, Finished
  <2> HIDE DEF verdict
  <2>6. inFlight' = {q \in Requests : req'[q].pc = "sent"}
    BY <2>1, <2>3, <2>5 DEF breaker, OwnTypeOK, Done
  <2>7. OwnTypeOK'
    BY <2>1, <2>2, <2>5, <2>6, TTLPositive DEF OwnTypeOK, Versions
  <2>8. Ordered' /\ FreshIsFilled'
    BY <2>1, <2>2, <2>5 DEF OwnTypeOK, Ordered, FreshIsFilled, Fresh, Versions
  <2>9. StableKeyNeverRejected'
    BY <2>1, <2>4, <2>5 DEF StableKeyNeverRejected, StableToken, Versions, KeysOf
  <2> QED
    BY <2>7, <2>8, <2>9
<1>10. ASSUME NEW r \in Requests, Drop(r) PROVE IInv'
  <2>1. inFlight' = inFlight \ {r}
    BY <1>10, CallsInFlight DEF Drop, breaker
  <2> QED
    BY <1>10, <2>1, FinishPreserves DEF Drop, Done
<1>11. CASE UNCHANGED vars
  BY <1>11 DEF vars, breaker, OwnTypeOK, Ordered, FreshIsFilled, Fresh,
     StableKeyNeverRejected, Versions, KeysOf
<1> QED
  BY <1>1, <1>2, <1>3, <1>4, <1>5, <1>6, <1>7, <1>8, <1>9, <1>10, <1>11
     DEF Next, Progress

LEMMA Inductive == Spec => []IInv
  BY InitEstablishes, StepPreserves, PTL DEF Spec

\* Requests, cache and breaker are always of their types, and the breaker's
\* calls in flight are exactly the requests that wait for the JWKS endpoint.
THEOREM TypeCorrect == Spec => []TypeOK
<1>1. IInv /\ B!TypeOK => TypeOK
  BY DEF IInv, OwnTypeOK, TypeOK
<1> QED
  BY <1>1, Inductive, BreakerTyped, PTL

\* A token signed by a key that every published set holds is never rejected,
\* however fetches and rotations overlap.
THEOREM StableKeyCorrect == Spec => []StableKeyNeverRejected
<1>1. IInv => StableKeyNeverRejected
  BY DEF IInv
<1> QED
  BY <1>1, Inductive, PTL

\* A request that re-fetches is decided by a key set no older than the one
\* it found in the cache.
THEOREM RefetchCorrect == Spec => []RefetchIsMonotonic
<1>1. IInv => RefetchIsMonotonic
  BY DEF IInv, Ordered, RefetchIsMonotonic
<1> QED
  BY <1>1, Inductive, PTL
=============================================================================
