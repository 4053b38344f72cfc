-------------------------- MODULE MCCircuitBreaker --------------------------
(* CircuitBreaker with a handful of configurations, chosen at Init.        *)
EXTENDS CircuitBreaker

Breaker(threshold, timeout, halfOpen) ==
    [failure_threshold |-> threshold, reset_timeout |-> timeout,
     half_open_max_requests |-> halfOpen]

\* threshold 0, 1 and 2; no timeout and a two-tick one; no half-open window,
\* one probe (the JWKS default) and two.
MCConfigs ==
    {Breaker(2, 2, 2), Breaker(2, 2, 1), Breaker(1, 2, 0),
     Breaker(0, 1, 1), Breaker(2, 0, 2)}
=============================================================================
