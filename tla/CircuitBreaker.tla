--------------------------- MODULE CircuitBreaker ---------------------------
(***************************************************************************)
(* The circuit breaker of identity-auth/src/circuit_breaker.rs, which      *)
(* guards the Elasticsearch client and the JWKS fetch.                     *)
(*                                                                         *)
(* CircuitBreaker::call is three pieces: is_request_allowed() under the    *)
(* write lock, the wrapped future with NO lock held, and record_success()  *)
(* or record_failure() under the write lock again.  Each piece is one      *)
(* action here, so the calls of several tasks interleave between them.     *)
(* The future returned by call() may be dropped while it is suspended (a   *)
(* client that disconnects drops its request handler): DropCall.           *)
(*                                                                         *)
(* opened_at is kept as `elapsed`, the ticks since the circuit opened: the *)
(* code reads it only through opened_at.elapsed() >= reset_timeout, so it  *)
(* saturates at the timeout and needs no other bound.                      *)
(***************************************************************************)
EXTENDS Integers, FiniteSets

CONSTANTS
    Callers,  \* tasks that use the breaker, each with one call at a time
    Configs   \* the CircuitBreakerConfig values a deployment may choose

ConfigType ==
    [failure_threshold: Nat, reset_timeout: Nat, half_open_max_requests: Nat]

ASSUME CallersFinite == IsFiniteSet(Callers)
ASSUME ConfigsTyped == Configs \subseteq ConfigType

VARIABLES
    config,         \* CircuitBreaker.config, fixed by new()
    state,          \* Inner.state without its payload
    failure_count,  \* Inner.failure_count
    elapsed,        \* payload of Open: ticks since opened_at
    remaining,      \* payload of HalfOpen: probes still to be granted
    inFlight,       \* callers awaiting the wrapped future
    probes,         \* history: those admitted by the present half-open window
    dropped         \* history: probes of this window whose future was dropped

inner == <<state, failure_count, elapsed, remaining>>
vars == <<config, state, failure_count, elapsed, remaining,
          inFlight, probes, dropped>>

Init ==
    /\ config \in Configs
    /\ state = "Closed"
    /\ failure_count = 0
    /\ elapsed = 0
    /\ remaining = 0
    /\ inFlight = {}
    /\ probes = {}
    /\ dropped = 0
-----------------------------------------------------------------------------
(* is_request_allowed(): one disjunct per arm of the match.                *)

Admit(c) ==
    /\ c \notin inFlight
    /\ inFlight' = inFlight \cup {c}

\* Mutant: the reset timeout is cut short by a tick.
TimedOutEarly == elapsed + 1 >= config.reset_timeout

TimedOut == elapsed >= config.reset_timeout

AllowClosed(c) ==
    /\ state = "Closed"
    /\ Admit(c)
    /\ UNCHANGED <<config, inner, probes, dropped>>

\* Open -> HalfOpen: this call takes the first of the probe slots.
StartHalfOpen(c) ==
    /\ state = "Open" /\ TimedOut
    /\ config.half_open_max_requests > 0
    /\ Admit(c)
    /\ state' = "HalfOpen"
    /\ remaining' = config.half_open_max_requests - 1
    /\ elapsed' = 0
    /\ probes' = {c}
    /\ dropped' = 0
    /\ UNCHANGED <<config, failure_count>>

\* Mutant: the direct close forgets failure_count.
CloseDirectlyKeepingCount(c) ==
    /\ state = "Open" /\ TimedOut
    /\ config.half_open_max_requests = 0
    /\ Admit(c)
    /\ state' = "Closed"
    /\ elapsed' = 0
    /\ UNCHANGED <<config, failure_count, remaining, probes, dropped>>

\* half_open_max_requests = 0: Open -> Closed without a probe.
CloseDirectly(c) ==
    /\ state = "Open" /\ TimedOut
    /\ config.half_open_max_requests = 0
    /\ Admit(c)
    /\ state' = "Closed"
    /\ failure_count' = 0
    /\ elapsed' = 0
    /\ UNCHANGED <<config, remaining, probes, dropped>>

\* Mutant: a probe is admitted without a slot left (u64 underflow).
TakeProbeSlotUnguarded(c) ==
    /\ state = "HalfOpen"
    /\ Admit(c)
    /\ remaining' = remaining - 1
    /\ probes' = probes \cup {c}
    /\ UNCHANGED <<config, state, failure_count, elapsed, dropped>>

\* Mutant: a probe does not use its slot up.
TakeProbeSlotForFree(c) ==
    /\ state = "HalfOpen" /\ remaining > 0
    /\ Admit(c)
    /\ probes' = probes \cup {c}
    /\ UNCHANGED <<config, state, failure_count, elapsed, remaining, dropped>>

TakeProbeSlot(c) ==
    /\ state = "HalfOpen" /\ remaining > 0
    /\ Admit(c)
    /\ remaining' = remaining - 1
    /\ probes' = probes \cup {c}
    /\ UNCHANGED <<config, state, failure_count, elapsed, dropped>>

\* The call returns Err(CircuitOpen) and changes nothing.
Reject(c) ==
    /\ c \notin inFlight
    /\ \/ state = "Open" /\ ~TimedOut
       \/ state = "HalfOpen" /\ remaining = 0
    /\ UNCHANGED vars

IsRequestAllowed(c) ==
    \/ AllowClosed(c)
    \/ StartHalfOpen(c)
    \/ CloseDirectly(c)
    \/ TakeProbeSlot(c)
    \/ Reject(c)
-----------------------------------------------------------------------------
(* The wrapped future resolves and its outcome is recorded.                *)

Return(c) ==
    /\ c \in inFlight
    /\ inFlight' = inFlight \ {c}

\* Mutant: a success clears the count but closes an Open circuit only.
RecordSuccessOutsideHalfOpen(c) ==
    /\ Return(c)
    /\ failure_count' = 0
    /\ IF state = "HalfOpen"
       THEN probes' = probes \ {c} /\ UNCHANGED <<state, elapsed, remaining, dropped>>
       ELSE /\ state' = "Closed" /\ elapsed' = 0 /\ remaining' = 0
            /\ probes' = {} /\ dropped' = 0
    /\ UNCHANGED config

\* A success closes the circuit whatever its state, and clears the count.
RecordSuccess(c) ==
    /\ Return(c)
    /\ state' = "Closed"
    /\ failure_count' = 0
    /\ elapsed' = 0
    /\ remaining' = 0
    /\ probes' = {}
    /\ dropped' = 0
    /\ UNCHANGED config

\* self.state = Open(Instant::now()): the half-open window, if any, is over.
Open ==
    /\ state' = "Open"
    /\ elapsed' = 0
    /\ remaining' = 0
    /\ probes' = {}
    /\ dropped' = 0

CountFailure ==
    /\ failure_count' = failure_count + 1
    /\ IF failure_count' >= config.failure_threshold
       THEN Open
       ELSE UNCHANGED <<state, elapsed, remaining, probes, dropped>>

RecordFailure(c) ==
    /\ Return(c)
    /\ \/ state = "Closed" /\ CountFailure
       \/ state = "HalfOpen" /\ Open /\ UNCHANGED failure_count
       \/ state = "Open" /\ UNCHANGED <<inner, probes, dropped>>
    /\ UNCHANGED config

\* The caller's future is dropped while the wrapped one is pending: nothing
\* is recorded, and a probe slot it took is never given back.
DropCall(c) ==
    /\ Return(c)
    /\ probes' = probes \ {c}
    /\ dropped' = IF c \in probes THEN dropped + 1 ELSE dropped
    /\ UNCHANGED <<config, inner>>

\* Time passes; only the age of an Open state is ever read.
Tick ==
    /\ state = "Open" /\ ~TimedOut
    /\ elapsed' = elapsed + 1
    /\ UNCHANGED <<config, state, failure_count, remaining, inFlight, probes, dropped>>

Next ==
    \/ Tick
    \/ \E c \in Callers :
          IsRequestAllowed(c) \/ RecordSuccess(c) \/ RecordFailure(c) \/ DropCall(c)

Spec == Init /\ [][Next]_vars

\* The clock runs; every admitted call ends, in an outcome or dropped with
\* the request it serves; and the breaker keeps being called.
Fairness ==
    /\ WF_vars(Tick)
    /\ \A c \in Callers : WF_vars(RecordSuccess(c) \/ RecordFailure(c) \/ DropCall(c))
    /\ WF_vars(\E c \in Callers : IsRequestAllowed(c))

FairSpec == Spec /\ Fairness
-----------------------------------------------------------------------------
(* Properties.                                                             *)

\* The types, and the enum State: a payload exists in its own variant only.
TypeOK ==
    /\ config \in ConfigType
    /\ state \in {"Closed", "Open", "HalfOpen"}
    /\ failure_count \in Nat
    /\ elapsed \in 0..config.reset_timeout
    /\ remaining \in Nat
    /\ inFlight \subseteq Callers
    /\ probes \subseteq inFlight
    /\ dropped \in Nat
    /\ state # "Open" => elapsed = 0
    /\ state # "HalfOpen" => remaining = 0 /\ probes = {} /\ dropped = 0

\* The circuit trips exactly when the count reaches failure_threshold: it is
\* never Closed on a count that should have opened it, and never Open or
\* HalfOpen on fewer failures than the threshold, whichever calls of
\* whichever period record their outcome late (record_failure 136-164 and
\* the two places that reset failure_count).
CountMatchesState ==
    /\ state = "Closed" => failure_count < config.failure_threshold \/ failure_count = 0
    /\ state # "Closed" => failure_count >= config.failure_threshold /\ failure_count > 0

\* Every half-open slot is either still to be granted, held by a call in
\* flight, or was lost with a dropped call: a window neither over-admits nor
\* blocks for any other reason than a lost slot (is_request_allowed 78-115).
SlotsAccounted ==
    state = "HalfOpen" =>
        remaining + Cardinality(probes) + dropped = config.half_open_max_requests

gateState ==
    CASE state = "Closed" -> "through"
      [] state = "Open" -> "shut"
      [] state = "HalfOpen" -> "probing"

coolingLeft == IF state = "Open" THEN config.reset_timeout - elapsed ELSE 0

Gate == INSTANCE ProbeGate WITH
    limit <- config.half_open_max_requests,
    coolDown <- config.reset_timeout,
    gate <- gateState,
    cooling <- coolingLeft,
    budget <- remaining,
    calls <- inFlight

\* The breaker is a ProbeGate: after every trip, also the one that ends a
\* half-open window, nothing is admitted for a full reset_timeout unless a
\* success closes the circuit first, and a window admits at most
\* half_open_max_requests calls and ends at the first outcome.
ImplementsGate == Gate!Spec

\* Every slot of the window was lost to a dropped call.
Exhausted == state = "HalfOpen" /\ dropped = config.half_open_max_requests

\* Once calls stop failing the circuit closes for good, whatever the
\* configuration, unless every probe of a half-open window was dropped: the
\* only way for the breaker to reject for ever (call 58-72 has no guard that
\* gives a slot back).
RecoversUnlessExhausted ==
    \/ []<><<\E c \in Callers : RecordFailure(c)>>_vars
    \/ <>[](state = "Closed" \/ Exhausted)
=============================================================================
