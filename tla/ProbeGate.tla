------------------------------ MODULE ProbeGate ------------------------------
(***************************************************************************)
(* What a caller of the circuit breaker may rely on, without failure       *)
(* counts or clocks readings: calls pass, or the gate is shut for a whole  *)
(* cool-down, or a probing window lets at most `limit` calls through and   *)
(* ends with the first outcome recorded in it.  When the gate trips is     *)
(* left open here.                                                         *)
(***************************************************************************)
EXTENDS Integers

CONSTANT Callers

VARIABLES
    limit,      \* calls a probing window lets through
    coolDown,   \* ticks the gate stays shut after a trip
    gate,       \* "through", "shut" or "probing"
    cooling,    \* ticks until a shut gate may be probed
    budget,     \* calls the probing window still lets through
    calls       \* callers whose call is under way

vars == <<limit, coolDown, gate, cooling, budget, calls>>

Init ==
    /\ limit \in Nat /\ coolDown \in Nat
    /\ gate = "through" /\ cooling = 0 /\ budget = 0
    /\ calls = {}

Start(c) == c \notin calls /\ calls' = calls \cup {c}
End(c) == c \in calls /\ calls' = calls \ {c}

Pass(c) ==
    /\ gate = "through"
    /\ Start(c)
    /\ UNCHANGED <<gate, cooling, budget>>

\* The first call after the cool-down opens a probing window, or the gate
\* itself when the window would let nothing through.
Retry(c) ==
    /\ gate = "shut" /\ cooling = 0
    /\ Start(c)
    /\ IF limit > 0
       THEN gate' = "probing" /\ budget' = limit - 1
       ELSE gate' = "through" /\ UNCHANGED budget
    /\ UNCHANGED cooling

Probe(c) ==
    /\ gate = "probing" /\ budget > 0
    /\ Start(c)
    /\ budget' = budget - 1
    /\ UNCHANGED <<gate, cooling>>

Succeed(c) ==
    /\ End(c)
    /\ gate' = "through" /\ cooling' = 0 /\ budget' = 0

Shut == gate' = "shut" /\ cooling' = coolDown /\ budget' = 0

\* A failure may trip an open gate, must end a probing window, and never
\* prolongs the cool-down of a gate already shut.
Fail(c) ==
    /\ End(c)
    /\ \/ gate # "shut" /\ Shut
       \/ gate # "probing" /\ UNCHANGED <<gate, cooling, budget>>

Abandon(c) == End(c) /\ UNCHANGED <<gate, cooling, budget>>

Cool ==
    /\ gate = "shut" /\ cooling > 0
    /\ cooling' = cooling - 1
    /\ UNCHANGED <<gate, budget, calls>>

Next ==
    /\ \/ Cool
       \/ \E c \in Callers :
             \/ Pass(c) \/ Retry(c) \/ Probe(c)
             \/ Succeed(c) \/ Fail(c) \/ Abandon(c)
    /\ UNCHANGED <<limit, coolDown>>

Spec == Init /\ [][Next]_vars
=============================================================================
