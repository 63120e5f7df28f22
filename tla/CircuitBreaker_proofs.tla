----------------------- MODULE CircuitBreaker_proofs -----------------------
(***************************************************************************)
(* Theorems about CircuitBreaker, for any finite number of callers and all *)
(* limits.  TypeOK is not inductive alone: a late result leaves `inflight' *)
(* but not `probes', so the induction needs that there are no probes       *)
(* outside a half-open period; and the bound on lost probes follows from   *)
(* the accounting of the slots.                                            *)
(***************************************************************************)
EXTENDS CircuitBreaker, FiniteSetTheorems, TLAPS

ProbesOnlyHalfOpen ==
    state # "HALF_OPEN" => probes = {} /\ lostProbes = 0

\* TypeOK with a weaker type for the history variable.
Types ==
    /\ state \in {"CLOSED", "OPEN", "HALF_OPEN"}
    /\ consecutiveFailures \in 0..FailureThreshold
    /\ halfOpenUsed \in 0..HalfOpenMaxCalls
    /\ elapsed \in 0..RecoveryTimeout
    /\ inflight \subseteq Callers
    /\ probes \subseteq inflight
    /\ lostProbes \in Nat

IInv ==
    /\ Types
    /\ ProbesOnlyHalfOpen
    /\ ClosedBelowThreshold
    /\ SlotsAccounted

\* Starting or ending one call changes the number of probes by at most one.
LEMMA ProbeCount ==
    \A S \in SUBSET Callers, c \in Callers :
        /\ Cardinality(S) \in Nat
        /\ c \notin S => Cardinality(S \cup {c}) = Cardinality(S) + 1
        /\ c \in S => Cardinality(S \ {c}) = Cardinality(S) - 1
<1> SUFFICES ASSUME NEW S \in SUBSET Callers, NEW c \in Callers
             PROVE  /\ Cardinality(S) \in Nat
                    /\ c \notin S => Cardinality(S \cup {c}) = Cardinality(S) + 1
                    /\ c \in S => Cardinality(S \ {c}) = Cardinality(S) - 1
  OBVIOUS
<1>1. IsFiniteSet(S)
  BY CallersAssumption, FS_Subset
<1> QED
  BY <1>1, FS_CardinalityType, FS_AddElement, FS_RemoveElement

\* The probe that starts a half-open period is one.
LEMMA Singleton == \A c : Cardinality({c}) = 1
  BY FS_Singleton

\* A new breaker is closed, with no call awaited and no slot taken.
LEMMA InitInv == Init => IInv
  BY LimitsAssumption
     DEF Init, IInv, Types, ProbesOnlyHalfOpen, ClosedBelowThreshold, SlotsAccounted

\* allow_request: a new call is a probe of its own.
LEMMA AdmitInv == ASSUME IInv, NEW c \in Callers, Admit(c) PROVE IInv'
<1> USE LimitsAssumption
    DEF IInv, Types, ProbesOnlyHalfOpen, ClosedBelowThreshold, SlotsAccounted
<1>1. CASE AdmitClosed(c)
  BY <1>1 DEF Admit, AdmitClosed
<1>2. CASE AdmitFirstProbe(c)
  <2>1. Cardinality(probes') = 1
    BY <1>2, Singleton DEF AdmitFirstProbe, TransitionTo
  <2> QED BY <1>2, <2>1 DEF Admit, AdmitFirstProbe, TransitionTo
<1>3. CASE AdmitProbe(c)
  <2>1. probes \in SUBSET Callers /\ c \notin probes
    BY DEF Admit
  <2>2. Cardinality(probes) \in Nat /\ Cardinality(probes') = Cardinality(probes) + 1
    <3>1. probes' = probes \cup {c}
      BY <1>3 DEF AdmitProbe
    <3> QED BY <2>1, <3>1, ProbeCount
  <2>3. Cardinality(probes') + lostProbes' = halfOpenUsed'
    BY <1>3, <2>2 DEF AdmitProbe
  <2> QED BY <1>3, <2>3 DEF Admit, AdmitProbe
<1> QED BY <1>1, <1>2, <1>3 DEF Admit

\* record_success and record_failure: a half-open period ends with all its slots,
\* any other result leaves the probes alone.
LEMMA ReportInv == ASSUME IInv, NEW c \in Callers, Report(c) PROVE IInv'
<1> USE LimitsAssumption
    DEF IInv, Types, ProbesOnlyHalfOpen, ClosedBelowThreshold, SlotsAccounted
<1>1. CASE RecordSuccess(c)
  BY <1>1 DEF RecordSuccess, TransitionTo
<1>2. CASE RecordFailure(c)
  BY <1>2 DEF RecordFailure, TransitionTo, Saturated
<1> QED BY <1>1, <1>2 DEF Report

\* A cancelled probe moves from `probes' to `lostProbes'.
LEMMA CancelInv == ASSUME IInv, NEW c \in Callers, Cancel(c) PROVE IInv'
<1> USE DEF IInv, Types, ProbesOnlyHalfOpen, ClosedBelowThreshold, SlotsAccounted
<1>1. probes \in SUBSET Callers /\ Cardinality(probes) \in Nat
  BY ProbeCount
<1>2. Cardinality(probes') + lostProbes' = Cardinality(probes) + lostProbes
  <2>1. CASE c \in probes
    <3>1. Cardinality(probes \ {c}) = Cardinality(probes) - 1
      BY <1>1, <2>1, ProbeCount
    <3> QED BY <1>1, <2>1, <3>1 DEF Cancel
  <2>2. CASE c \notin probes
    <3>1. probes' = probes
      BY <2>2 DEF Cancel
    <3> QED BY <2>2, <3>1 DEF Cancel
  <2> QED BY <2>1, <2>2
<1>3. probes' = {} \/ state = "HALF_OPEN"
  BY DEF Cancel
<1>4. state # "HALF_OPEN" => c \notin probes
  OBVIOUS
<1> QED BY <1>2, <1>3, <1>4 DEF Cancel

\* The invariant is inductive: no call of allow_request, record_success,
\* record_failure or reset, no cancellation and no tick of the clock breaks it.
LEMMA StepInv == IInv /\ [Next]_breakerVars => IInv'
<1> SUFFICES ASSUME IInv, [Next]_breakerVars PROVE IInv'
  OBVIOUS
<1>1. ASSUME NEW c \in Callers, Admit(c) \/ Report(c) \/ Cancel(c) PROVE IInv'
  BY <1>1, AdmitInv, ReportInv, CancelInv
<1>2. CASE Reset
  BY <1>2, LimitsAssumption
     DEF Reset, TransitionTo, IInv, Types, ProbesOnlyHalfOpen,
         ClosedBelowThreshold, SlotsAccounted
<1>3. CASE Tick
  BY <1>3, LimitsAssumption
     DEF Tick, IInv, Types, ProbesOnlyHalfOpen, ClosedBelowThreshold, SlotsAccounted
<1>4. CASE UNCHANGED breakerVars
  BY <1>4 DEF breakerVars, IInv, Types, ProbesOnlyHalfOpen, ClosedBelowThreshold,
              SlotsAccounted
<1> QED BY <1>1, <1>2, <1>3, <1>4 DEF Next

\* The inductive invariant holds in every reachable state.
THEOREM Invariance == Spec => []IInv
<1> QED BY InitInv, StepInv, PTL DEF Spec

\* The type invariant: slots taken never exceed _half_open_max_calls, probes are
\* awaited calls, and no more probes are lost than were let through.
THEOREM TypeCorrect == Spec => []TypeOK
<1>1. IInv => TypeOK
  <2> SUFFICES ASSUME IInv PROVE lostProbes \in 0..HalfOpenMaxCalls
    BY DEF IInv, Types, TypeOK
  <2>1. Cardinality(probes) \in Nat
    <3>1. probes \subseteq Callers
      BY DEF IInv, Types
    <3>2. IsFiniteSet(probes)
      BY <3>1, CallersAssumption, FS_Subset
    <3> QED BY <3>2, FS_CardinalityType
  <2> QED
    BY <2>1, LimitsAssumption DEF IInv, Types, ProbesOnlyHalfOpen, SlotsAccounted
<1> QED BY <1>1, Invariance, PTL

\* record_failure opens a closed breaker in time, and whatever closes it again
\* has cleared the count.
THEOREM ClosedBelow == Spec => []ClosedBelowThreshold
<1>1. IInv => ClosedBelowThreshold
  BY DEF IInv
<1> QED BY <1>1, Invariance, PTL

\* Each probe slot of a half-open period is held by an awaited probe or was lost
\* to a cancelled one.
THEOREM SlotAccounting == Spec => []SlotsAccounted
<1>1. IInv => SlotsAccounted
  BY DEF IInv
<1> QED BY <1>1, Invariance, PTL

\* Results of calls admitted before the breaker opened change nothing while it
\* is open.
THEOREM LateResults == Spec => LateResultsKeepOpen
<1> DEFINE Step ==
      state = "OPEN" /\ inflight' # inflight /\ inflight' \subseteq inflight
        => state' = "OPEN" /\ elapsed' = elapsed
<1>1. Next => Step
  <2> SUFFICES ASSUME Next, state = "OPEN", inflight' # inflight,
                      inflight' \subseteq inflight
               PROVE  state' = "OPEN" /\ elapsed' = elapsed
    OBVIOUS
  <2>1. ASSUME NEW c \in Callers, Admit(c) PROVE FALSE
    BY <2>1 DEF Admit
  <2>2. ASSUME NEW c \in Callers, Report(c) \/ Cancel(c)
        PROVE  state' = "OPEN" /\ elapsed' = elapsed
    BY <2>2 DEF Report, RecordSuccess, RecordFailure, Cancel
  <2>3. ~Reset /\ ~Tick
    BY DEF Reset, Tick
  <2> QED BY <2>1, <2>2, <2>3 DEF Next
<1>2. [Next]_breakerVars => [Step]_breakerVars
  BY <1>1
<1> QED BY <1>2, PTL DEF Spec, LateResultsKeepOpen
=============================================================================
