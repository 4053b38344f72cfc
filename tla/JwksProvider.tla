---------------------------- MODULE JwksProvider ----------------------------
(***************************************************************************)
(* Token validation: Authenticator::authenticate and the JwksProvider      *)
(* behind it (identity-auth/src/authenticator.rs, jwks.rs), composed with  *)
(* the CircuitBreaker that guards the JWKS fetch.                          *)
(*                                                                         *)
(* A request tries the shared secret, then asks for the candidate keys: it *)
(* reads the cache under the read lock, and when it has to re-fetch does   *)
(* so with no lock held, so fetches of several requests overlap with each  *)
(* other and with the provider rotating its keys.                          *)
(*                                                                         *)
(* The identity provider's key sets are numbered in the order in which it  *)
(* publishes them; a key set is represented by its number, 0 standing for  *)
(* the empty set of a cache never filled.                                  *)
(***************************************************************************)
EXTENDS Integers, FiniteSets, Sequences

CONSTANTS
    Requests,     \* tasks that authenticate a token, one at a time each
    Configs,      \* the breaker's possible configurations
    Published,    \* sequence of key sets the identity provider publishes
    Convertible,  \* the keys DecodingKey::from_jwk accepts
    Symmetric,    \* those of them in the HMAC family
    Tokens,       \* tokens presented: [signer, kid, exp]
    Secret,       \* the HS* key of policy.jwt_secret
    NoKid,        \* header.kid = None
    Policy,       \* the AuthPolicy fields that decide
    TTL           \* JWKS_TTL in ticks

ASSUME TTLPositive == TTL \in Nat \ {0}
ASSUME SomethingPublished == Len(Published) \in Nat \ {0}
ASSUME NoKidIsNoKey == NoKid \notin Convertible
ASSUME SomeToken == Tokens # {}
ASSUME RequestsFinite == IsFiniteSet(Requests)
ASSUME PolicyTyped ==
    Policy \in [jwt_secret: BOOLEAN, require_exp_secret: BOOLEAN, require_exp_jwks: BOOLEAN]

VARIABLES
    config, state, failure_count, elapsed, remaining, inFlight, probes, dropped,
    version,  \* number of the key set the identity provider serves now
    cached,   \* JwksCache.keys
    age,      \* JwksCache.fetched_at.elapsed(), saturated at TTL
    req,      \* what each request is doing
    up        \* whether the entry point serves requests yet

breaker == <<config, state, failure_count, elapsed, remaining, inFlight, probes, dropped>>
vars == <<breaker, version, cached, age, req, up>>

B == INSTANCE CircuitBreaker WITH Callers <- Requests

ASSUME BreakerConfigured == Configs \subseteq B!ConfigType

Versions == 1..Len(Published)
KeysOf(v) == IF v = 0 THEN {} ELSE Published[v]

\* select_key: the key with the token's kid, else every convertible key.
SelectKey(keys, kid) ==
    IF kid \in keys \cap Convertible THEN {kid} ELSE keys \cap Convertible

\* validation(): whether expiry is enforced goes by the family of the key, and
\* a token under enforcement must carry an unexpired exp.
EnforceExp(key) ==
    IF key \in Symmetric \cup {Secret} THEN Policy.require_exp_secret ELSE Policy.require_exp_jwks

ExpiryAccepted(tok, key) == EnforceExp(key) => tok.exp = "valid"

SecretAccepts(tok) ==
    Policy.jwt_secret /\ tok.signer = Secret /\ ExpiryAccepted(tok, Secret)

\* decode() of the candidate keys in turn: one that verifies is enough.
Verdict(tok, keys) ==
    IF \E key \in keys : tok.signer = key /\ ExpiryAccepted(tok, key)
    THEN "accepted" ELSE "rejected"

Done == {"idle", "accepted", "rejected", "error"}

Idle == [pc |-> "idle", tok |-> CHOOSE t \in Tokens : TRUE, body |-> 0, base |-> 0]
-----------------------------------------------------------------------------
\* Mutant: the never-filled cache counts as just fetched.
InitFresh ==
    /\ B!Init
    /\ version = 1
    /\ cached = 0
    /\ age = 0
    /\ req = [r \in Requests |-> Idle]
    /\ up \in BOOLEAN

Init ==
    /\ B!Init
    /\ version = 1
    /\ cached = 0
    /\ age = TTL
    /\ req = [r \in Requests |-> Idle]
    /\ up \in BOOLEAN

Fresh == age < TTL

Finish(r, verdict) == req' = [req EXCEPT ![r].pc = verdict, ![r].body = 0, ![r].base = 0]

\* warm(), which auth-proxy awaits before it serves (main 152-158): a key set
\* that cannot be had, or is empty, aborts the start-up, and the process that
\* is started next begins here again.  The GraphQL server does not warm.
Warm ==
    /\ ~up
    /\ KeysOf(version) # {}
    /\ cached' = version
    /\ age' = 0
    /\ up' = TRUE
    /\ UNCHANGED <<breaker, version, req>>

\* authenticate() up to the point where it answers or has to fetch: the
\* secret, then the cache under the read lock.
Lookup(r, tok) ==
    /\ up
    /\ req[r].pc \in Done
    /\ LET selected == SelectKey(KeysOf(cached), tok.kid)
           answered == Fresh /\ (selected # {} \/ tok.kid = NoKid)
           pc == CASE SecretAccepts(tok) -> "accepted"
                   [] ~SecretAccepts(tok) /\ answered -> Verdict(tok, selected)
                   [] OTHER -> "calling"
       IN  req' = [req EXCEPT ![r] =
                     [pc |-> pc, tok |-> tok, body |-> 0,
                      base |-> IF pc = "calling" THEN cached ELSE 0]]
    /\ UNCHANGED <<breaker, version, cached, age, up>>

\* Mutant: the fetch does not go through the breaker.
BeginFetchUngated(r) ==
    /\ req[r].pc = "calling"
    /\ inFlight' = inFlight \cup {r}
    /\ req' = [req EXCEPT ![r].pc = "sent"]
    /\ UNCHANGED <<config, state, failure_count, elapsed, remaining, probes, dropped,
                   version, cached, age, up>>

\* Mutant: a request joins the answer another one is still reading.
BeginFetchShared(r) ==
    /\ req[r].pc = "calling"
    /\ \/ \E q \in Requests :
             /\ req[q].body # 0
             /\ req' = [req EXCEPT ![r].pc = "body", ![r].body = req[q].body]
             /\ UNCHANGED breaker
       \/ /\ B!IsRequestAllowed(r)
          /\ IF r \in inFlight'
             THEN req' = [req EXCEPT ![r].pc = "sent"]
             ELSE Finish(r, "error")
    /\ UNCHANGED <<version, cached, age, up>>

\* circuit_breaker.call(): admitted, or Err(CircuitOpen) at once.
BeginFetch(r) ==
    /\ req[r].pc = "calling"
    /\ B!IsRequestAllowed(r)
    /\ IF r \in inFlight'
       THEN req' = [req EXCEPT ![r].pc = "sent"]
       ELSE Finish(r, "error")
    /\ UNCHANGED <<version, cached, age, up>>

\* Mutant: the error of send() is not propagated to the request.
FetchFailsSilently(r) ==
    /\ req[r].pc = "sent"
    /\ B!RecordFailure(r)
    /\ UNCHANGED <<req, version, cached, age, up>>

\* send() fails.
FetchFails(r) ==
    /\ req[r].pc = "sent"
    /\ B!RecordFailure(r)
    /\ Finish(r, "error")
    /\ UNCHANGED <<version, cached, age, up>>

\* send() succeeds, with any HTTP status: a success for the breaker.  The
\* body carries the key set served now, or nothing that parses.
Respond(r) ==
    /\ req[r].pc = "sent"
    /\ B!RecordSuccess(r)
    /\ \E body \in {0, version} : req' = [req EXCEPT ![r].pc = "body", ![r].body = body]
    /\ UNCHANGED <<version, cached, age, up>>

\* text() or the JWKS parse fails, after the breaker was told of a success.
BadBody(r) ==
    /\ req[r].pc = "body" /\ req[r].body = 0
    /\ Finish(r, "error")
    /\ UNCHANGED <<breaker, version, cached, age, up>>

\* Mutant: the cache is filled once and only renewed after that.
StoreOnce(r) ==
    /\ req[r].pc = "body" /\ req[r].body # 0
    /\ cached' = IF cached = 0 THEN req[r].body ELSE cached
    /\ age' = 0
    /\ Finish(r, Verdict(req[r].tok, SelectKey(KeysOf(req[r].body), req[r].tok.kid)))
    /\ UNCHANGED <<breaker, version, up>>

\* The fetched set decides the token and replaces the cache, whatever has
\* been stored there in the meantime.
Store(r) ==
    /\ req[r].pc = "body" /\ req[r].body # 0
    /\ cached' = req[r].body
    /\ age' = 0
    /\ Finish(r, Verdict(req[r].tok, SelectKey(KeysOf(req[r].body), req[r].tok.kid)))
    /\ UNCHANGED <<breaker, version, up>>

\* The client goes away and the handler's future is dropped at its await.
Drop(r) ==
    /\ req[r].pc \notin Done
    /\ IF r \in inFlight THEN B!DropCall(r) ELSE UNCHANGED breaker
    /\ Finish(r, "idle")
    /\ UNCHANGED <<version, cached, age, up>>

\* The identity provider publishes its next key set.
Rotate ==
    /\ version < Len(Published)
    /\ version' = version + 1
    /\ UNCHANGED <<breaker, cached, age, req, up>>

\* Time passes for the cache and for the breaker alike.
Tick ==
    /\ Fresh \/ (state = "Open" /\ ~B!TimedOut)
    /\ age' = IF Fresh THEN age + 1 ELSE age
    /\ IF state = "Open" /\ ~B!TimedOut THEN B!Tick ELSE UNCHANGED breaker
    /\ UNCHANGED <<version, cached, req, up>>

Progress(r) ==
    \/ BeginFetch(r)
    \/ FetchFails(r)
    \/ Respond(r)
    \/ BadBody(r)
    \/ Store(r)
    \/ Drop(r)

Next ==
    \/ Tick
    \/ Rotate
    \/ Warm
    \/ \E r \in Requests : Progress(r) \/ \E tok \in Tokens : Lookup(r, tok)

Spec == Init /\ [][Next]_vars

\* Time passes, a start-up succeeds in the end, a request under way ends (or
\* is dropped), and every token keeps being presented.
Fairness ==
    /\ WF_vars(Tick)
    /\ WF_vars(Warm)
    /\ \A r \in Requests : WF_vars(Progress(r))
    /\ \A tok \in Tokens : WF_vars(\E r \in Requests : Lookup(r, tok))

FairSpec == Spec /\ Fairness
-----------------------------------------------------------------------------
(* Properties.                                                             *)

RequestType ==
    [pc: Done \cup {"calling", "sent", "body"}, tok: Tokens,
     body: {0} \cup Versions, base: {0} \cup Versions]

TypeOK ==
    /\ B!TypeOK
    /\ version \in Versions
    /\ cached \in {0} \cup Versions
    /\ age \in 0..TTL
    /\ up \in BOOLEAN
    /\ req \in [Requests -> RequestType]
    /\ inFlight = {r \in Requests : req[r].pc = "sent"}

\* The provider uses its breaker as the breaker prescribes: one outcome per
\* admitted call, none for a rejected one, and a body that does not parse is
\* not a second outcome (fetch_keys 98-112).
UsesBreaker == B!Spec

\* A token signed by a key that every published set holds is never rejected,
\* with or without a kid, whatever sets overlapping fetches leave in the
\* cache: it is accepted or the key set cannot be had.  This rests on the
\* cache starting out expired (new 42-45), or a request without a kid would
\* be answered from the empty set.
StableKeyNeverRejected ==
    \A r \in Requests :
        LET tok == req[r].tok IN
        /\ \A v \in Versions : tok.signer \in KeysOf(v) \cap Convertible
        /\ tok.kid \in {NoKid, tok.signer}
        /\ tok.exp = "valid"
        => req[r].pc # "rejected"

\* A request that re-fetches is decided by a key set no older than the one
\* that was cached when it looked, although its answer may be stored after,
\* and over, a newer one (resolve_keys 73-80).
RefetchIsMonotonic ==
    \A r \in Requests : req[r].body # 0 => req[r].body >= req[r].base

\* A fetch that brings no key set.
FetchTrouble ==
    \E r \in Requests : FetchFails(r) \/ BadBody(r) \/ Drop(r)

\* Once the identity provider has stopped rotating and its endpoint answers,
\* the cache converges to the current key set, also after an older overlapping
\* fetch was stored last, unless the breaker's probes were all dropped.
CacheConverges ==
    \/ []<><<FetchTrouble>>_vars
    \/ <>[](cached = version)
    \/ <>[]B!Exhausted

\* What the documentation of JwksProvider says (16-18): "When the cached key
\* set is stale or the token's kid is missing from it (a rotation), the set is
\* re-fetched once."
MissingKidIsRefetched ==
    [][\A r \in Requests : \A tok \in Tokens :
          Lookup(r, tok) /\ tok.kid \in KeysOf(version) \ KeysOf(cached)
            => req'[r].pc = "calling"]_vars
=============================================================================
