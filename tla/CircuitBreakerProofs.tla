------------------------ MODULE CircuitBreakerProofs ------------------------
(***************************************************************************)
(* Proofs about CircuitBreaker for any number of callers and any           *)
(* configuration.  The inductive invariant is the conjunction of the type  *)
(* invariant and the two safety invariants: SlotsAccounted needs from      *)
(* TypeOK that probes are in flight (so the set is finite and a returning  *)
(* call is counted once), and that a window starts from cleared payloads.  *)
(***************************************************************************)
EXTENDS CircuitBreaker, FiniteSetTheorems, TLAPS

IInv == TypeOK /\ CountMatchesState /\ SlotsAccounted

\* The set of probes is finite, and adding or removing one call changes its
\* size by one.
LEMMA ProbeCounting ==
    ASSUME TypeOK, NEW c
    PROVE  /\ IsFiniteSet(probes)
           /\ Cardinality(probes) \in Nat
           /\ c \notin probes => Cardinality(probes \cup {c}) = Cardinality(probes) + 1
           /\ c \in probes => Cardinality(probes \ {c}) = Cardinality(probes) - 1
           /\ c \notin probes => probes \ {c} = probes
           /\ Cardinality({c}) = 1
<1>1. IsFiniteSet(probes)
  BY CallersFinite, FS_Subset DEF TypeOK
<1>2. Cardinality(probes) \in Nat
  BY <1>1, FS_CardinalityType
<1>3. c \notin probes => Cardinality(probes \cup {c}) = Cardinality(probes) + 1
  BY <1>1, FS_AddElement
<1>4. c \in probes => Cardinality(probes \ {c}) = Cardinality(probes) - 1
  BY <1>1, FS_RemoveElement
<1>5. Cardinality({c}) = 1
  BY FS_Singleton
<1> QED
  BY <1>1, <1>2, <1>3, <1>4, <1>5

LEMMA InitEstablishes == Init => IInv
<1> SUFFICES ASSUME Init PROVE IInv
  OBVIOUS
<1>1. config \in ConfigType
  BY ConfigsTyped DEF Init
<1>2. QED
  BY <1>1 DEF Init, IInv, TypeOK, CountMatchesState, SlotsAccounted, ConfigType

LEMMA StepPreserves == IInv /\ [Next]_vars => IInv'
<1> SUFFICES ASSUME IInv, [Next]_vars PROVE IInv'
  OBVIOUS
<1> USE DEF IInv, TypeOK, CountMatchesState, SlotsAccounted, ConfigType
<1>1. ASSUME NEW c \in Callers, AllowClosed(c) PROVE IInv'
  BY <1>1 DEF AllowClosed, Admit, inner
<1>2. ASSUME NEW c \in Callers, StartHalfOpen(c) PROVE IInv'
  <2>1. Cardinality({c}) = 1
    BY ProbeCounting
  <2> QED
    BY <1>2, <2>1 DEF StartHalfOpen, Admit
<1>3. ASSUME NEW c \in Callers, CloseDirectly(c) PROVE IInv'
  BY <1>3 DEF CloseDirectly, Admit
<1>4. ASSUME NEW c \in Callers, TakeProbeSlot(c) PROVE IInv'
  <2>1. c \notin probes
    BY <1>4 DEF TakeProbeSlot, Admit
  <2>2. /\ Cardinality(probes) \in Nat
        /\ Cardinality(probes') = Cardinality(probes) + 1
    BY <1>4, <2>1, ProbeCounting DEF TakeProbeSlot
  <2> QED
    BY <1>4, <2>2 DEF TakeProbeSlot, Admit
<1>5. ASSUME NEW c \in Callers, Reject(c) PROVE IInv'
  BY <1>5 DEF Reject, vars
<1>6. ASSUME NEW c \in Callers, RecordSuccess(c) PROVE IInv'
  BY <1>6 DEF RecordSuccess, Return
<1>7. ASSUME NEW c \in Callers, RecordFailure(c) PROVE IInv'
  <2>1. CASE state = "Closed" /\ CountFailure
    BY <1>7, <2>1 DEF RecordFailure, Return, CountFailure, Open
  <2>2. CASE state = "HalfOpen" /\ Open /\ UNCHANGED failure_count
    BY <1>7, <2>2 DEF RecordFailure, Return, Open
  <2>3. CASE state = "Open" /\ UNCHANGED <<inner, probes, dropped>>
    BY <1>7, <2>3 DEF RecordFailure, Return, inner
  <2> QED
    BY <1>7, <2>1, <2>2, <2>3 DEF RecordFailure
<1>8. ASSUME NEW c \in Callers, DropCall(c) PROVE IInv'
  <2>1. /\ Cardinality(probes) \in Nat
        /\ c \in probes => Cardinality(probes') = Cardinality(probes) - 1
        /\ c \notin probes => probes' = probes
    BY <1>8, ProbeCounting DEF DropCall
  <2>2. TypeOK' /\ CountMatchesState'
    BY <1>8, <2>1 DEF DropCall, Return, inner
  <2>3. CASE c \in probes
    BY <1>8, <2>1, <2>2, <2>3 DEF DropCall, inner
  <2>4. CASE c \notin probes
    BY <1>8, <2>1, <2>2, <2>4 DEF DropCall, inner
  <2> QED
    BY <2>3, <2>4
<1>9. ASSUME Tick PROVE IInv'
  BY <1>9 DEF Tick, TimedOut
<1>10. CASE UNCHANGED vars
  BY <1>10 DEF vars
<1> QED
  BY <1>1, <1>2, <1>3, <1>4, <1>5, <1>6, <1>7, <1>8, <1>9, <1>10
     DEF Next, IsRequestAllowed

LEMMA Inductive == Spec => []IInv
  BY InitEstablishes, StepPreserves, PTL DEF Spec

\* The state is always a value of its type, payloads included.
THEOREM TypeCorrect == Spec => []TypeOK
<1>1. IInv => TypeOK
  BY DEF IInv
<1> QED
  BY <1>1, Inductive, PTL

\* The circuit is Open or HalfOpen exactly on a count at the threshold.
THEOREM CountCorrect == Spec => []CountMatchesState
<1>1. IInv => CountMatchesState
  BY DEF IInv
<1> QED
  BY <1>1, Inductive, PTL

\* Every slot of a half-open window is accounted for.
THEOREM SlotsCorrect == Spec => []SlotsAccounted
<1>1. IInv => SlotsAccounted
  BY DEF IInv
<1> QED
  BY <1>1, Inductive, PTL
-----------------------------------------------------------------------------
(* Refinement: every step of the breaker is a step of ProbeGate or leaves  *)
(* its variables alone.                                                    *)

LEMMA InitRefines == Init => Gate!Init
<1> SUFFICES ASSUME Init PROVE Gate!Init
  OBVIOUS
<1>1. config \in ConfigType
  BY ConfigsTyped DEF Init
<1> QED
  BY <1>1 DEF Init, Gate!Init, gateState, coolingLeft, ConfigType

LEMMA StepRefines == IInv /\ [Next]_vars => [Gate!Next]_(Gate!vars)
<1> SUFFICES ASSUME IInv, [Next]_vars PROVE [Gate!Next]_(Gate!vars)
  OBVIOUS
<1> USE DEF IInv, TypeOK, CountMatchesState, ConfigType, gateState, coolingLeft
<1>1. ASSUME NEW c \in Callers, AllowClosed(c) PROVE Gate!Next
  <2>1. Gate!Pass(c)
    BY <1>1 DEF AllowClosed, Admit, inner, Gate!Pass, Gate!Start
  <2> QED
    BY <1>1, <2>1 DEF AllowClosed, Gate!Next
<1>2. ASSUME NEW c \in Callers, StartHalfOpen(c) PROVE Gate!Next
  <2>1. Gate!Retry(c)
    BY <1>2 DEF StartHalfOpen, Admit, TimedOut, Gate!Retry, Gate!Start
  <2> QED
    BY <1>2, <2>1 DEF StartHalfOpen, Gate!Next
<1>3. ASSUME NEW c \in Callers, CloseDirectly(c) PROVE Gate!Next
  <2>1. Gate!Retry(c)
    BY <1>3 DEF CloseDirectly, Admit, TimedOut, Gate!Retry, Gate!Start
  <2> QED
    BY <1>3, <2>1 DEF CloseDirectly, Gate!Next
<1>4. ASSUME NEW c \in Callers, TakeProbeSlot(c) PROVE Gate!Next
  <2>1. Gate!Probe(c)
    BY <1>4 DEF TakeProbeSlot, Admit, Gate!Probe, Gate!Start
  <2> QED
    BY <1>4, <2>1 DEF TakeProbeSlot, Gate!Next
<1>5. ASSUME NEW c \in Callers, RecordSuccess(c) PROVE Gate!Next
  <2>1. Gate!Succeed(c)
    BY <1>5 DEF RecordSuccess, Return, Gate!Succeed, Gate!End
  <2> QED
    BY <1>5, <2>1 DEF RecordSuccess, Gate!Next
<1>6. ASSUME NEW c \in Callers, RecordFailure(c) PROVE Gate!Next
  <2>1. Gate!End(c)
    BY <1>6 DEF RecordFailure, Return, Gate!End
  <2>2. CASE Open /\ state # "Open"
    BY <2>1, <2>2, <1>6 DEF RecordFailure, Open, Gate!Fail, Gate!Shut, Gate!Next
  <2>3. CASE state # "HalfOpen" /\ UNCHANGED <<state, elapsed, remaining>>
    BY <2>1, <2>3, <1>6 DEF RecordFailure, Gate!Fail, Gate!Next
  <2> QED
    BY <1>6, <2>2, <2>3 DEF RecordFailure, CountFailure, inner
<1>7. ASSUME NEW c \in Callers, DropCall(c) PROVE Gate!Next
  <2>1. Gate!Abandon(c)
    BY <1>7 DEF DropCall, Return, inner, Gate!Abandon, Gate!End
  <2> QED
    BY <1>7, <2>1 DEF DropCall, Gate!Next
<1>8. ASSUME Tick PROVE Gate!Next
  <2>1. Gate!Cool
    BY <1>8 DEF Tick, TimedOut, Gate!Cool
  <2> QED
    BY <1>8, <2>1 DEF Tick, Gate!Next
<1>9. CASE UNCHANGED vars
  BY <1>9 DEF vars, Gate!vars
<1> QED
  BY <1>1, <1>2, <1>3, <1>4, <1>5, <1>6, <1>7, <1>8, <1>9
     DEF Next, IsRequestAllowed, Reject

\* The breaker implements the gate its callers rely on.
THEOREM Refinement == Spec => ImplementsGate
  BY InitRefines, StepRefines, Inductive, PTL DEF Spec, ImplementsGate, Gate!Spec
=============================================================================
