---------------------------- MODULE RetryService ----------------------------
(***************************************************************************)
(* HTTPClient.request (app/infrastructure/http_client.py) on top of        *)
(* RetryService.execute (app/infrastructure/retry_service.py): concurrent  *)
(* calls to one named service, each a loop of attempts, all sharing the    *)
(* service's circuit breaker.  The loop runs without an await from the     *)
(* result of one attempt to the sleep before the next, and from            *)
(* allow_request() to the request, so those are the atomic steps.          *)
(***************************************************************************)
EXTENDS Naturals, FiniteSets

CONSTANTS
    Callers,          \* tasks that make calls, one call at a time
    Cancellable,      \* tasks that may be cancelled in the middle of a call
    ServerErrorRetry, \* tasks whose calls may be retried on 5xx: idempotent
                      \* methods and retry_on_server_error=True
    MaxAttempts,      \* HTTP_MAX_RETRIES
    RecoveryTimeout,
    HalfOpenMaxCalls

ASSUME CallersAssumption ==
    IsFiniteSet(Callers) /\ Cancellable \subseteq Callers /\ "old" \notin Callers
ASSUME LimitsAssumption ==
    MaxAttempts \in Nat /\ RecoveryTimeout \in Nat /\ HalfOpenMaxCalls \in Nat \ {0}
ASSUME ServerErrorRetryAssumption == ServerErrorRetry \subseteq Callers

VARIABLES
    state, consecutiveFailures, halfOpenUsed, elapsed, inflight, probes,
    lostProbes,       \* the breaker's variables
    pc,               \* where each caller's current call stands
    attempt,          \* attempts made by it
    answer,           \* result of its last attempt
    blamed            \* history: callers whose current call contributed to
                      \* the breaker's run of consecutive failures; "old" for
                      \* calls that are over

breakerVars ==
    <<state, consecutiveFailures, halfOpenUsed, elapsed, inflight, probes,
      lostProbes>>
vars == <<breakerVars, pc, attempt, answer, blamed>>

\* Mutant of FailureThreshold: no more failures than one call has attempts.
FailureThresholdTight == MaxAttempts

\* _get_circuit_breaker sizes the breaker by the retry policy.
FailureThreshold == MaxAttempts + 2

Breaker == INSTANCE CircuitBreaker

(***************************************************************************)
(* Results of one attempt.  A 5xx whose text matches one of the retryable  *)
(* patterns ("HTTP 502", "HTTP 503", or a body with "timeout", "reset",    *)
(* ...) is set apart from the others (500, 504 with a plain body).         *)
(* "protocol" is an exception that is neither a status, nor of a retryable *)
(* type, nor matched by its text (httpx.RemoteProtocolError).              *)
(***************************************************************************)
Errors == {"clientError", "rateLimited", "gatewayError", "serverError",
           "network", "protocol"}
Results == Errors \cup {"ok"}
Outcomes == Results \cup {"none", "circuitOpen", "unreachable", "cancelled"}

\* _get_retry_policy
RetryableStatus(c) ==
    IF c \in ServerErrorRetry
    THEN {"rateLimited", "gatewayError", "serverError"}
    ELSE {"rateLimited"}

\* _evaluate_retry: status codes, then exception types, then the text of the
\* exception, which for an HTTP error contains the status code.
RetryableExceptions == {"network"}
MatchesPattern == {"rateLimited", "gatewayError"}

\* Mutant of Retryable: a client error is only told from other exceptions by
\* its text, as a 429 is.
RetryableClientError(c, error) ==
    \/ error \in RetryableStatus(c)
    \/ error \in RetryableExceptions \cup MatchesPattern \cup {"clientError"}

Retryable(c, error) ==
    \/ error \in RetryableStatus(c)
    \/ /\ error # "clientError"
       /\ error \in RetryableExceptions \cup MatchesPattern

\* Types and bounds: no call makes more attempts than HTTP_MAX_RETRIES.
TypeOK ==
    /\ Breaker!TypeOK
    /\ pc \in [Callers -> {"idle", "attempt", "sending", "backoff"}]
    /\ attempt \in [Callers -> 0..MaxAttempts]
    /\ answer \in [Callers -> Outcomes]
    /\ blamed \subseteq Callers \cup {"old"}

Init ==
    /\ Breaker!Init
    /\ pc = [c \in Callers |-> "idle"]
    /\ attempt = [c \in Callers |-> 0]
    /\ answer = [c \in Callers |-> "none"]
    /\ blamed = {}

-----------------------------------------------------------------------------
\* Mutant of AttemptsLeft: the loop runs once more.
AttemptsLeftOffByOne(c) == attempt[c] <= MaxAttempts

\* The loop over range(1, max_attempts + 1) has another attempt to make.
AttemptsLeft(c) == attempt[c] < MaxAttempts

\* The call ends, with a result or an exception for its caller.
End(c, outcome) ==
    /\ pc' = [pc EXCEPT ![c] = "idle"]
    /\ answer' = [answer EXCEPT ![c] = outcome]
    /\ UNCHANGED attempt

\* A caller enters execute().  With HTTP_MAX_RETRIES = 0 the loop is empty and
\* the call ends at once with an error.  If the caller's previous call is among
\* those blamed, that call is an old one from now on.
Call(c) ==
    /\ pc[c] = "idle"
    /\ pc' = [pc EXCEPT ![c] = IF MaxAttempts = 0 THEN "idle" ELSE "attempt"]
    /\ answer' = [answer EXCEPT ![c] =
                     IF MaxAttempts = 0 THEN "unreachable" ELSE "none"]
    /\ attempt' = [attempt EXCEPT ![c] = 0]
    /\ blamed' = IF c \in blamed THEN (blamed \ {c}) \cup {"old"} ELSE blamed
    /\ UNCHANGED breakerVars

\* Mutant of Send: the breaker is asked before the first attempt only.
SendRetryUnchecked(c) ==
    /\ pc[c] \in {"attempt", "backoff"}
    /\ AttemptsLeft(c)
    /\ IF pc[c] = "attempt"
       THEN Breaker!Admit(c)
       ELSE /\ inflight' = inflight \cup {c}
            /\ UNCHANGED <<state, consecutiveFailures, halfOpenUsed, elapsed,
                           probes, lostProbes>>
    /\ pc' = [pc EXCEPT ![c] = "sending"]
    /\ attempt' = [attempt EXCEPT ![c] = @ + 1]
    /\ UNCHANGED <<answer, blamed>>

\* Mutant of Send: attempts are not counted.
SendUncounted(c) ==
    /\ pc[c] \in {"attempt", "backoff"}
    /\ AttemptsLeft(c)
    /\ Breaker!Admit(c)
    /\ pc' = [pc EXCEPT ![c] = "sending"]
    /\ UNCHANGED <<attempt, answer, blamed>>

\* allow_request() lets the attempt through and the request is sent.
Send(c) ==
    /\ pc[c] \in {"attempt", "backoff"}
    /\ AttemptsLeft(c)
    /\ Breaker!Admit(c)
    /\ pc' = [pc EXCEPT ![c] = "sending"]
    /\ attempt' = [attempt EXCEPT ![c] = @ + 1]
    /\ UNCHANGED <<answer, blamed>>

\* CircuitBreakerOpenError, on the first attempt or on a later one.
BlockedByBreaker(c) ==
    /\ pc[c] \in {"attempt", "backoff"}
    /\ AttemptsLeft(c)
    /\ Breaker!Blocked
    /\ End(c, "circuitOpen")
    /\ UNCHANGED <<breakerVars, blamed>>

Succeed(c) ==
    /\ pc[c] = "sending"
    /\ Breaker!RecordSuccess(c)
    /\ blamed' = {}
    /\ End(c, "ok")

\* Every exception counts as a failure of the service, a 4xx too.  The call
\* sleeps before another attempt, or raises.
Fail(c, error) ==
    /\ pc[c] = "sending"
    /\ Breaker!RecordFailure(c)
    /\ blamed' = blamed \cup {c}
    /\ IF Retryable(c, error) /\ AttemptsLeft(c)
       THEN /\ pc' = [pc EXCEPT ![c] = "backoff"]
            /\ answer' = [answer EXCEPT ![c] = error]
            /\ UNCHANGED attempt
       ELSE End(c, error)

\* Mutant of CancelSending: the breaker keeps the call as if it were awaited.
CancelSendingForgotten(c) ==
    /\ pc[c] = "sending"
    /\ c \in Cancellable
    /\ End(c, "cancelled")
    /\ UNCHANGED <<breakerVars, blamed>>

CancelSending(c) ==
    /\ pc[c] = "sending"
    /\ Breaker!Cancel(c)
    /\ End(c, "cancelled")
    /\ UNCHANGED blamed

CancelBackoff(c) ==
    /\ pc[c] = "backoff"
    /\ c \in Cancellable
    /\ End(c, "cancelled")
    /\ UNCHANGED <<breakerVars, blamed>>

Tick ==
    /\ Breaker!Tick
    /\ UNCHANGED <<pc, attempt, answer, blamed>>

Step(c) ==
    \/ Send(c) \/ BlockedByBreaker(c)
    \/ Succeed(c) \/ \E error \in Errors : Fail(c, error)

Next ==
    \/ \E c \in Callers : Call(c) \/ Step(c) \/ CancelSending(c) \/ CancelBackoff(c)
    \/ Tick

Spec == Init /\ [][Next]_vars

\* Time passes; the event loop resumes every call whose sleep or request ends.
Fairness ==
    /\ WF_vars(Tick)
    /\ \A c \in Callers : WF_vars(Step(c))

FairSpec == Spec /\ Fairness

-----------------------------------------------------------------------------
\* Seen through the breaker, the calls do nothing but what CircuitBreaker allows:
\* every request is admitted, every result is reported exactly once.
BreakerSpec == Breaker!Init /\ [][Breaker!Next]_breakerVars

\* The breaker waits for exactly the requests the calls are waiting for.
InflightMatchesCalls == inflight = {c \in Callers : pc[c] = "sending"}

\* One call, however its attempts fail, never opens a closed breaker by itself:
\* the threshold HTTP_MAX_RETRIES + 2 leaves room for all of its attempts.
OneCallCannotTrip ==
    [][state = "CLOSED" /\ state' = "OPEN"
         => \E b1, b2 \in blamed' : b1 # b2]_vars

\* What another attempt may help against: nothing or a part of an answer arrived, the
\* service asked to wait, or a gateway in front of it failed; any other failure of the
\* service only where the request may be repeated.
WorthRetrying(c) ==
    {"network", "rateLimited", "gatewayError"}
        \cup (IF c \in ServerErrorRetry THEN {"serverError"} ELSE {})

\* An error that is worth retrying is raised after the last attempt only, and only such an
\* error is followed by another attempt: a refused request, an error that nobody knows, or
\* the failure of a write is raised at once, however status codes, exception types and
\* patterns in the text overlap.
GivesUpOnlyWhenExhausted ==
    \A c \in Callers :
        /\ pc[c] = "idle" /\ answer[c] \in WorthRetrying(c) => attempt[c] = MaxAttempts
        /\ pc[c] = "backoff" => answer[c] \in WorthRetrying(c) /\ attempt[c] < MaxAttempts

\* Every call ends.
CallEnds == \A c \in Callers : pc[c] # "idle" ~> pc[c] = "idle"
=============================================================================
