--------------------------- MODULE CircuitBreaker ---------------------------
(***************************************************************************)
(* The circuit breaker of one external service                             *)
(* (app/infrastructure/circuit_breaker.py) as its users see it: concurrent *)
(* asyncio tasks call allow_request(), await a request, and report the     *)
(* result with record_success() or record_failure().  Each method runs     *)
(* without an await, so it is one atomic step; everything else interleaves.*)
(*                                                                         *)
(* A task that is cancelled while it awaits reports nothing: CancelledError*)
(* is a BaseException and RetryService only catches Exception.             *)
(***************************************************************************)
EXTENDS Naturals, FiniteSets

CONSTANTS
    Callers,          \* tasks that use the service
    Cancellable,      \* those among them that may be cancelled mid-request
    FailureThreshold,
    RecoveryTimeout,
    HalfOpenMaxCalls

ASSUME CallersAssumption == IsFiniteSet(Callers) /\ Cancellable \subseteq Callers
ASSUME LimitsAssumption ==
    /\ FailureThreshold \in Nat \ {0}
    /\ RecoveryTimeout \in Nat
    /\ HalfOpenMaxCalls \in Nat \ {0}

VARIABLES
    state,                \* _state
    consecutiveFailures,  \* _consecutive_failures, saturated (see Saturated)
    halfOpenUsed,         \* _half_open_used
    elapsed,              \* now - _last_state_change_time, up to RecoveryTimeout
    inflight,             \* callers that were admitted and have not reported
    probes,               \* history: those admitted in this half-open period
    lostProbes            \* history: probes cancelled in this half-open period

breakerVars ==
    <<state, consecutiveFailures, halfOpenUsed, elapsed, inflight, probes,
      lostProbes>>

\* Types and bounds: never more than HalfOpenMaxCalls slots taken, or probes lost.
TypeOK ==
    /\ state \in {"CLOSED", "OPEN", "HALF_OPEN"}
    /\ consecutiveFailures \in 0..FailureThreshold
    /\ halfOpenUsed \in 0..HalfOpenMaxCalls
    /\ elapsed \in 0..RecoveryTimeout
    /\ inflight \subseteq Callers
    /\ probes \subseteq inflight
    /\ lostProbes \in 0..HalfOpenMaxCalls

Init ==
    /\ state = "CLOSED"
    /\ consecutiveFailures = 0
    /\ halfOpenUsed = 0
    /\ elapsed = 0
    /\ inflight = {}
    /\ probes = {}
    /\ lostProbes = 0

-----------------------------------------------------------------------------
\* The failure count is only ever compared with the threshold, so it is kept
\* up to the threshold and no further.
Saturated(n) == IF n < FailureThreshold THEN n ELSE FailureThreshold

\* _transition_to: every transition restarts the clock.  `used` is the value
\* left in _half_open_used, `first` the probes that start the new period.
TransitionTo(new, used, first) ==
    /\ state' = new
    /\ elapsed' = 0
    /\ halfOpenUsed' = used
    /\ probes' = first
    /\ lostProbes' = 0

\* allow_request returns False.  Only the metrics change.
Blocked ==
    \/ state = "OPEN" /\ elapsed < RecoveryTimeout
    \/ state = "HALF_OPEN" /\ halfOpenUsed >= HalfOpenMaxCalls

AdmitClosed(c) ==
    /\ state = "CLOSED"
    /\ UNCHANGED <<state, halfOpenUsed, elapsed, probes, lostProbes>>

\* Mutant of AdmitFirstProbe: the request that finds the timeout elapsed is let
\* through without being counted as a probe.
AdmitFirstProbeUncounted(c) ==
    /\ state = "OPEN"
    /\ elapsed >= RecoveryTimeout
    /\ TransitionTo("HALF_OPEN", 0, {c})

\* The first request after the recovery timeout moves the breaker to half-open
\* and is itself counted as a probe.
AdmitFirstProbe(c) ==
    /\ state = "OPEN"
    /\ elapsed >= RecoveryTimeout
    /\ TransitionTo("HALF_OPEN", 1, {c})

\* Mutant of AdmitProbe: half-open admits everyone.
AdmitProbeUnbounded(c) ==
    /\ state = "HALF_OPEN"
    /\ halfOpenUsed' = halfOpenUsed + 1
    /\ probes' = probes \cup {c}
    /\ UNCHANGED <<state, elapsed, lostProbes>>

AdmitProbe(c) ==
    /\ state = "HALF_OPEN"
    /\ halfOpenUsed < HalfOpenMaxCalls
    /\ halfOpenUsed' = halfOpenUsed + 1
    /\ probes' = probes \cup {c}
    /\ UNCHANGED <<state, elapsed, lostProbes>>

\* allow_request returns True and the caller starts to await its request.
Admit(c) ==
    /\ c \in Callers \ inflight
    /\ inflight' = inflight \cup {c}
    /\ UNCHANGED consecutiveFailures
    /\ \/ AdmitClosed(c)
       \/ AdmitFirstProbe(c)
       \/ AdmitProbe(c)

\* The breaker does not ask in which state the call was admitted: any success
\* closes a half-open breaker, any failure reopens it.
RecordSuccess(c) ==
    /\ c \in inflight
    /\ inflight' = inflight \ {c}
    /\ consecutiveFailures' = 0
    /\ IF state = "HALF_OPEN"
       THEN TransitionTo("CLOSED", halfOpenUsed, {})
       ELSE UNCHANGED <<state, halfOpenUsed, elapsed, probes, lostProbes>>

\* Mutant of RecordFailure: the threshold is tested in every state, so a late
\* failure reopens an open breaker and restarts its timeout.
RecordFailureAnyState(c) ==
    /\ c \in inflight
    /\ inflight' = inflight \ {c}
    /\ consecutiveFailures' = Saturated(consecutiveFailures + 1)
    /\ IF state = "HALF_OPEN" \/ consecutiveFailures + 1 >= FailureThreshold
       THEN TransitionTo("OPEN", halfOpenUsed, {})
       ELSE UNCHANGED <<state, halfOpenUsed, elapsed, probes, lostProbes>>

\* Mutant of RecordFailure: the half-open case is forgotten.
RecordFailureClosedOnly(c) ==
    /\ c \in inflight
    /\ inflight' = inflight \ {c}
    /\ consecutiveFailures' = Saturated(consecutiveFailures + 1)
    /\ probes' = probes \ {c}
    /\ IF state = "CLOSED" /\ consecutiveFailures + 1 >= FailureThreshold
       THEN /\ state' = "OPEN" /\ elapsed' = 0
            /\ UNCHANGED <<halfOpenUsed, lostProbes>>
       ELSE UNCHANGED <<state, halfOpenUsed, elapsed, lostProbes>>

RecordFailure(c) ==
    /\ c \in inflight
    /\ inflight' = inflight \ {c}
    /\ consecutiveFailures' = Saturated(consecutiveFailures + 1)
    /\ IF \/ state = "HALF_OPEN"
          \/ state = "CLOSED" /\ consecutiveFailures + 1 >= FailureThreshold
       THEN TransitionTo("OPEN", halfOpenUsed, {})
       ELSE UNCHANGED <<state, halfOpenUsed, elapsed, probes, lostProbes>>

\* A cancelled request reports nothing; its probe slot stays taken.
Cancel(c) ==
    /\ c \in inflight \cap Cancellable
    /\ inflight' = inflight \ {c}
    /\ probes' = probes \ {c}
    /\ lostProbes' = IF c \in probes THEN lostProbes + 1 ELSE lostProbes
    /\ UNCHANGED <<state, consecutiveFailures, halfOpenUsed, elapsed>>

\* Mutant of Reset: the failure count survives.
ResetKeepsFailures ==
    /\ TransitionTo("CLOSED", 0, {})
    /\ UNCHANGED <<consecutiveFailures, inflight>>

Reset ==
    /\ consecutiveFailures' = 0
    /\ TransitionTo("CLOSED", 0, {})
    /\ UNCHANGED inflight

Tick ==
    /\ elapsed < RecoveryTimeout
    /\ elapsed' = elapsed + 1
    /\ UNCHANGED <<state, consecutiveFailures, halfOpenUsed, inflight, probes,
                   lostProbes>>

Report(c) == RecordSuccess(c) \/ RecordFailure(c)

Next ==
    \/ \E c \in Callers : Admit(c) \/ Report(c) \/ Cancel(c)
    \/ Reset
    \/ Tick

Spec == Init /\ [][Next]_breakerVars

\* Time passes, and every admitted request ends: the HTTP client sets a timeout
\* on each, and a call that ends reports unless it was cancelled.
Fairness ==
    /\ WF_breakerVars(Tick)
    /\ \A c \in Callers : WF_breakerVars(Report(c) \/ Cancel(c))

FairSpec == Spec /\ Fairness

-----------------------------------------------------------------------------
\* A closed breaker has seen fewer consecutive failures than its threshold,
\* whatever path led back to CLOSED (a probe's success, a manual reset, late
\* results of calls admitted long ago).
ClosedBelowThreshold ==
    state = "CLOSED" => consecutiveFailures < FailureThreshold

\* Every probe slot taken in this half-open period belongs to a request that is
\* still awaited or to one that was cancelled: slots are neither handed out
\* twice nor lost in another way, so at most HalfOpenMaxCalls probes run.
SlotsAccounted ==
    state = "HALF_OPEN" =>
        /\ Cardinality(probes) + lostProbes = halfOpenUsed
        /\ halfOpenUsed \in 1..HalfOpenMaxCalls

\* A result that arrives while the breaker is open, from a call admitted before
\* it opened, neither changes the state nor restarts the recovery timeout.
LateResultsKeepOpen ==
    [][state = "OPEN" /\ inflight' # inflight /\ inflight' \subseteq inflight
         => state' = "OPEN" /\ elapsed' = elapsed]_breakerVars

\* The breaker is willing to let a request through again and again, unless every
\* probe of a half-open period was cancelled before it reported.
KeepsProbing == []<>(~Blocked \/ lostProbes = HalfOpenMaxCalls)

\* The breaker always gets back to letting a request through: it is said to be
\* "periodically probing for recovery" (class docstring).
AlwaysProbes == []<>(~Blocked)
=============================================================================
