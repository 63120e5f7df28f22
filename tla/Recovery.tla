------------------------------ MODULE Recovery ------------------------------
(***************************************************************************)
(* Abandoned cart recovery of one session: the connect and disconnect      *)
(* handlers of app/api/websocket_endpoints.py, the RecoveryService of each *)
(* process (app/services/recovery_service.py) and the Redis keys they      *)
(* share (app/infrastructure/redis_client.py).                             *)
(*                                                                         *)
(* Every await on Redis ends a step; the server executes the command and   *)
(* the handler runs on to its next await in one step.  A handler's tasks   *)
(* are named after the connection whose disconnect created them.           *)
(***************************************************************************)
EXTENDS Naturals, FiniteSets

CONSTANTS
    MaxConns,       \* bound: WebSocket connections of the session
    MaxAtOnce,      \* bound: those among them that are not closed
    Instances,      \* processes of the service
    Faults,         \* which of FaultKinds may happen
    RecoveryDelay,  \* RECOVERY_DELAY_SECONDS
    CompletedTTL    \* the 60 s of mark_recovery_completed

(***************************************************************************)
(* What a user or the environment may do to the service:                   *)
(*   overlap       connect while another connection is not closed          *)
(*   otherProcess  connect to another process than before                  *)
(*   crash         end a process                                           *)
(*   redis         fail a Redis command, or lose the reply to it           *)
(*   lostReply     lose the backend's answer to the webhook                *)
(*   slowUnwind    let a cancelled task end after the reply to DEL         *)
(***************************************************************************)
\* Connections are numbered in the order in which they are made.
Conns == 1..MaxConns
NoTask == 0
NoInstance == "no instance"

FaultKinds == {"overlap", "otherProcess", "crash", "redis", "lostReply", "slowUnwind"}

ASSUME ConnsAssumption == MaxConns \in Nat /\ MaxAtOnce \in Nat /\ NoInstance \notin Instances
ASSUME FaultsAssumption == Faults \subseteq FaultKinds
ASSUME TimesAssumption ==
    /\ RecoveryDelay \in Nat \ {0}
    /\ CompletedTTL \in Nat \ {0}

VARIABLES
    pc,           \* where each connection's handler stands
    home,         \* the process that serves each connection
    active,       \* the session's "active" key exists
    marker,       \* the recovery marker: its status and time to live
    task,         \* phase of the recovery task created for each connection
    sleep,        \* what is left of the task's sleep
    table,        \* _scheduled_tasks of each process: its entry for the session
    idleTime,     \* history: time since the last disconnect, to RecoveryDelay
    reports,      \* history: webhooks sent since the session was last open, to 2
    happened      \* history: the faults there have been

vars == <<pc, home, active, marker, task, sleep, table, idleTime, reports, happened>>

NoMarker == [status |-> "absent", ttl |-> 0]

Running == {"sleeping", "checkActive", "dropMarker", "dedup", "payload",
            "posting", "marking"}
Cancelled == {"cancelled", "cancelledMarking"}

\* Types and bounds: no key outlives its time to live, no task its delay.
TypeOK ==
    /\ pc \in [Conns -> {"new", "deleteMarker", "activate", "open", "deactivate",
                         "checkMarker", "claim", "closed"}]
    /\ home \in [Conns -> Instances \cup {NoInstance}]
    /\ active \in BOOLEAN
    /\ marker \in {NoMarker}
           \cup [status : {"scheduled"}, ttl : 0..RecoveryDelay]
           \cup [status : {"completed"}, ttl : 0..CompletedTTL]
    /\ task \in [Conns -> Running \cup Cancelled \cup {"none", "done"}]
    /\ sleep \in [Conns -> 0..RecoveryDelay]
    /\ table \in [Instances -> Conns \cup {NoTask}]
    /\ idleTime \in 0..RecoveryDelay
    /\ reports \in 0..2
    /\ happened \subseteq Faults

\* start_session has marked the session active.
Init ==
    /\ pc = [c \in Conns |-> "new"]
    /\ home = [c \in Conns |-> NoInstance]
    /\ active = TRUE
    /\ marker = NoMarker
    /\ task = [c \in Conns |-> "none"]
    /\ sleep = [c \in Conns |-> 0]
    /\ table = [i \in Instances |-> NoTask]
    /\ idleTime = 0
    /\ reports = 0
    /\ happened = {}

Happen(kinds) == kinds \subseteq Faults /\ happened' = happened \cup kinds
KindIf(condition, kind) == IF condition THEN {kind} ELSE {}

Go(c, step) == pc' = [pc EXCEPT ![c] = step]

-----------------------------------------------------------------------------
(* Connecting: cancel_recovery, then mark_session_active.                  *)

\* Mutant of CancelLocalTask: only the marker is cancelled.
CancelNothing(i) == i \in Instances /\ UNCHANGED task

\* task.cancel() on the entry of this process, if its task is not done.  A
\* cancelled SETEX may still reach the server.
CancelLocalTask(i) ==
    LET t == table[i] IN
    task' = IF t # NoTask /\ task[t] \in Running
            THEN [task EXCEPT ![t] = IF @ = "marking" THEN "cancelledMarking"
                                                      ELSE "cancelled"]
            ELSE task

Connect(c) == \E i \in Instances :
    /\ pc[c] = "new" /\ \A d \in 1..(c - 1) : pc[d] # "new"
    /\ Cardinality({d \in Conns : pc[d] \notin {"new", "closed"}}) < MaxAtOnce
    /\ Happen(KindIf(\E d \in Conns : pc[d] \notin {"new", "closed"}, "overlap")
              \cup KindIf(\E d \in 1..(c - 1) : home[d] # i, "otherProcess"))
    /\ Go(c, "deleteMarker")
    /\ home' = [home EXCEPT ![c] = i]
    /\ CancelLocalTask(i)
    /\ UNCHANGED <<active, marker, sleep, table, idleTime, reports>>

\* Mutant of DeleteMarker: the marker is left to expire.
DeleteMarkerNot(c) ==
    /\ pc[c] = "deleteMarker"
    /\ Happen({})
    /\ Go(c, "activate")
    /\ table' = [table EXCEPT ![home[c]] = NoTask]
    /\ UNCHANGED <<active, marker, task, sleep, idleTime, reports>>

\* The reply to DEL arrives and the table entry is popped.  The cancelled task
\* has unwound by then, unless its cleanup is slow.
DeleteMarker(c) ==
    /\ pc[c] = "deleteMarker"
    /\ Happen(KindIf(\E d \in Conns : home[d] = home[c] /\ task[d] \in Cancelled,
                     "slowUnwind"))
    /\ Go(c, "activate")
    /\ marker' = NoMarker
    /\ table' = [table EXCEPT ![home[c]] = NoTask]
    /\ UNCHANGED <<active, task, sleep, idleTime, reports>>

Activate(c) ==
    /\ pc[c] = "activate"
    /\ Go(c, "open")
    /\ active' = TRUE
    /\ reports' = 0
    /\ UNCHANGED <<marker, task, sleep, table, idleTime>>

-----------------------------------------------------------------------------
(* Disconnecting: mark_session_inactive, then schedule_recovery.           *)

Disconnect(c) ==
    /\ pc[c] = "open"
    /\ Go(c, "deactivate")
    /\ idleTime' = 0
    /\ UNCHANGED <<active, marker, task, sleep, table, reports, happened, home>>

Deactivate(c) ==
    /\ pc[c] = "deactivate"
    /\ Go(c, "checkMarker")
    /\ active' = FALSE
    /\ UNCHANGED <<marker, task, sleep, table, idleTime, reports>>

CheckMarker(c) ==
    /\ pc[c] = "checkMarker"
    /\ Go(c, IF marker = NoMarker THEN "claim" ELSE "closed")
    /\ UNCHANGED <<active, marker, task, sleep, table, idleTime, reports>>

\* Mutant of Claim: the new task is not entered in the table.
ClaimUntracked(c) ==
    /\ pc[c] = "claim"
    /\ Go(c, "closed")
    /\ marker = NoMarker
    /\ marker' = [status |-> "scheduled", ttl |-> RecoveryDelay]
    /\ task' = [task EXCEPT ![c] = "sleeping"]
    /\ sleep' = [sleep EXCEPT ![c] = RecoveryDelay]
    /\ UNCHANGED <<active, table, idleTime, reports>>

\* SET NX EX, and the task if this process has none running.
Claim(c) ==
    LET i == home[c]
        busy == table[i] # NoTask /\ task[table[i]] \in Running \cup Cancelled
    IN
    /\ pc[c] = "claim"
    /\ Go(c, "closed")
    /\ marker' = IF marker = NoMarker
                 THEN [status |-> "scheduled", ttl |-> RecoveryDelay]
                 ELSE marker
    /\ IF marker = NoMarker /\ ~busy
       THEN /\ table' = [table EXCEPT ![i] = c]
            /\ task' = [task EXCEPT ![c] = "sleeping"]
            /\ sleep' = [sleep EXCEPT ![c] = RecoveryDelay]
       ELSE UNCHANGED <<table, task, sleep>>
    /\ UNCHANGED <<active, idleTime, reports>>

\* The command is executed but its reply is lost.
Executed(c) ==
    \/ pc[c] = "deleteMarker" /\ marker' = NoMarker /\ UNCHANGED active
    \/ pc[c] = "activate" /\ active' = TRUE /\ UNCHANGED marker
    \/ pc[c] = "deactivate" /\ active' = FALSE /\ UNCHANGED marker
    \/ pc[c] = "claim" /\ marker = NoMarker
       /\ marker' = [status |-> "scheduled", ttl |-> RecoveryDelay]
       /\ UNCHANGED active

\* A Redis command of a handler fails.  While connecting, the exception leaves the
\* endpoint (its try block starts later); _handle_disconnect logs it.
RedisFails(c) ==
    /\ Happen({"redis"})
    /\ pc[c] \in {"deleteMarker", "activate", "deactivate", "checkMarker", "claim"}
    /\ Go(c, "closed")
    /\ Executed(c) \/ UNCHANGED <<active, marker>>
    /\ UNCHANGED <<task, sleep, table, idleTime, reports>>

-----------------------------------------------------------------------------
(* _execute_recovery_if_abandoned.                                         *)

Advance(t, phase) == task' = [task EXCEPT ![t] = phase]

\* The finally clause pops the entry of the session, whoever's it is now.
Finish(t) ==
    /\ Advance(t, "done")
    /\ table' = [table EXCEPT ![home[t]] = NoTask]

\* Mutant of Wake: without a marker the task waits for another delay.
WakeRearms(t) ==
    /\ task[t] = "sleeping"
    /\ sleep[t] = 0
    /\ IF marker = NoMarker
       THEN sleep' = [sleep EXCEPT ![t] = RecoveryDelay] /\ UNCHANGED task
       ELSE Advance(t, "checkActive") /\ UNCHANGED sleep
    /\ UNCHANGED <<pc, active, marker, table, idleTime, reports>>

\* The sleep is over and EXISTS looks for the marker.
Wake(t) ==
    /\ task[t] = "sleeping"
    /\ sleep[t] = 0
    /\ IF marker = NoMarker
       THEN Finish(t)
       ELSE Advance(t, "checkActive") /\ UNCHANGED table
    /\ UNCHANGED <<pc, active, marker, sleep, idleTime, reports>>

CheckActive(t) ==
    /\ task[t] = "checkActive"
    /\ Advance(t, IF active THEN "dropMarker" ELSE "dedup")
    /\ UNCHANGED <<pc, active, marker, sleep, table, idleTime, reports>>

DropMarker(t) ==
    /\ task[t] = "dropMarker"
    /\ marker' = NoMarker
    /\ Finish(t)
    /\ UNCHANGED <<pc, active, sleep, idleTime, reports>>

\* An absent marker counts as "not completed".
Dedup(t) ==
    /\ task[t] = "dedup"
    /\ IF marker.status = "completed"
       THEN Finish(t)
       ELSE Advance(t, "payload") /\ UNCHANGED table
    /\ UNCHANGED <<pc, active, marker, sleep, idleTime, reports>>

Report == reports' = IF reports < 2 THEN reports + 1 ELSE 2

\* The payload is read (it does not decide anything) and the POST is sent.
PostWebhook(t) ==
    /\ task[t] = "payload"
    /\ Advance(t, "posting")
    /\ Report
    /\ UNCHANGED <<pc, active, marker, sleep, table, idleTime>>

\* Mutant of WebhookAnswered: the send loop goes on after a success.
WebhookAnsweredAgain(t) ==
    /\ task[t] = "posting"
    /\ Advance(t, "payload")
    /\ UNCHANGED <<pc, active, marker, sleep, table, idleTime, reports>>

WebhookAnswered(t) ==
    /\ task[t] = "posting"
    /\ Advance(t, "marking")
    /\ UNCHANGED <<pc, active, marker, sleep, table, idleTime, reports>>

\* The backend has processed the POST but the answer is lost: RetryService sends
\* it again (HTTP_MAX_RETRIES bounds how often; two are enough to tell).
WebhookResent(t) ==
    /\ Happen({"lostReply"})
    /\ task[t] = "posting"
    /\ Report
    /\ UNCHANGED <<pc, home, active, marker, task, sleep, table, idleTime>>

\* The POST fails for good: logged.
WebhookFails(t) ==
    /\ task[t] = "posting"
    /\ Finish(t)
    /\ UNCHANGED <<pc, active, marker, sleep, idleTime, reports>>

\* Mutant of CompletedMarker: it lives as long as a scheduled one.
CompletedMarkerDelayed == [status |-> "completed", ttl |-> RecoveryDelay]

CompletedMarker == [status |-> "completed", ttl |-> CompletedTTL]

\* A Redis command of the task fails, executed or not: logged.
TaskRedisFails(t) ==
    /\ Happen({"redis"})
    /\ task[t] \in Running \ {"sleeping", "posting"}
    /\ Finish(t)
    /\ \/ UNCHANGED marker
       \/ task[t] = "dropMarker" /\ marker' = NoMarker
       \/ task[t] = "marking" /\ marker' = CompletedMarker
    /\ UNCHANGED <<pc, active, sleep, idleTime, reports>>

MarkCompleted(t) ==
    /\ task[t] = "marking"
    /\ marker' = CompletedMarker
    /\ Finish(t)
    /\ UNCHANGED <<pc, active, sleep, idleTime, reports>>

\* CancelledError is raised in the task, caught, and the finally clause runs.
Unwind(t) ==
    /\ task[t] \in Cancelled
    /\ Finish(t)
    /\ \/ UNCHANGED marker
       \/ task[t] = "cancelledMarking" /\ marker' = CompletedMarker
    /\ UNCHANGED <<pc, active, sleep, idleTime, reports>>

-----------------------------------------------------------------------------
\* The process dies with its connections and its tasks; Redis keeps the keys.
\* main.py neither awaits nor saves the tasks on an orderly shutdown either.
Crash(i) ==
    LET here == {c \in Conns : home[c] = i} IN
    /\ Happen({"crash"})
    /\ \E c \in here : pc[c] \notin {"new", "closed"} \/ task[c] \in Running
    /\ pc' = [c \in Conns |->
                IF c \in here /\ pc[c] # "new" THEN "closed" ELSE pc[c]]
    /\ task' = [c \in Conns |->
                IF c \in here /\ task[c] # "none" THEN "done" ELSE task[c]]
    /\ table' = [table EXCEPT ![i] = NoTask]
    /\ idleTime' = IF \E c \in here : pc[c] = "open" THEN 0 ELSE idleTime
    /\ UNCHANGED <<home, active, marker, sleep, reports>>

\* A key with a time to live of 0 is still there and gone after the next tick:
\* Redis expires a key when the clock is past its deadline.
Tick ==
    /\ marker' = IF marker = NoMarker \/ marker.ttl = 0
                 THEN NoMarker ELSE [marker EXCEPT !.ttl = @ - 1]
    /\ sleep' = [c \in Conns |-> IF sleep[c] > 0 THEN sleep[c] - 1 ELSE 0]
    /\ idleTime' = IF idleTime < RecoveryDelay THEN idleTime + 1 ELSE RecoveryDelay
    /\ UNCHANGED <<pc, active, task, table, reports, happened, home>>

Handler(c) ==
    /\ UNCHANGED home
    /\ \/ DeleteMarker(c) \/ RedisFails(c)
       \/ /\ UNCHANGED happened
          /\ Activate(c) \/ Deactivate(c) \/ CheckMarker(c) \/ Claim(c)

TaskStep(t) ==
    /\ UNCHANGED home
    /\ \/ TaskRedisFails(t)
       \/ /\ UNCHANGED happened
          /\ \/ Wake(t) \/ CheckActive(t) \/ DropMarker(t) \/ Dedup(t)
             \/ PostWebhook(t) \/ WebhookAnswered(t) \/ WebhookFails(t)
             \/ MarkCompleted(t) \/ Unwind(t)

Next ==
    \/ \E c \in Conns :
          Connect(c) \/ Handler(c) \/ Disconnect(c) \/ TaskStep(c) \/ WebhookResent(c)
    \/ \E i \in Instances : Crash(i)
    \/ Tick

Spec == Init /\ [][Next]_vars

\* Time passes and the event loop resumes every handler and task.  Users need
\* not connect or disconnect, and nothing has to fail.
Fairness ==
    /\ WF_vars(Tick)
    /\ \A c \in Conns : WF_vars(Handler(c)) /\ WF_vars(TaskStep(c))

FairSpec == Spec /\ Fairness

-----------------------------------------------------------------------------
Undisturbed(kinds) == happened \cap kinds = {}

\* A process can cancel every recovery task it runs for the session: the task is
\* the one its table names.
TaskInTable ==
    Undisturbed({"overlap", "slowUnwind"}) =>
        \A t \in Conns : task[t] \in Running => table[home[t]] = t

\* No webhook goes out while a connection of the session is open ("Execute
\* recovery if session is still abandoned after delay"), as long as the session
\* keeps to one process and one connection at a time.
NoPostWhileConnected ==
    [][Undisturbed({"overlap", "otherProcess", "slowUnwind"}) =>
         \A t \in Conns : task[t] # "posting" /\ task'[t] = "posting"
           => \A c \in Conns : pc[c] # "open"]_vars

\* Likewise, it goes out when the session has been without a disconnect for at
\* least the recovery delay, not sooner.
OnTime ==
    [][Undisturbed({"overlap", "otherProcess", "slowUnwind"}) =>
         \A t \in Conns : task[t] # "posting" /\ task'[t] = "posting"
           => idleTime = RecoveryDelay]_vars

\* Likewise, one abandonment is reported once ("No duplicate webhooks for same
\* abandoned state"), unless the backend's answer was lost.
NoDuplicateWebhook ==
    Undisturbed({"overlap", "otherProcess", "slowUnwind", "lostReply"}) => reports <= 1

\* A scheduled marker that has not reached its deadline stands for a task that
\* sleeps as long as it lives ("Durable scheduling using Redis TTL"), unless a
\* new connection has cancelled the task and is about to delete the marker, or
\* the process or a Redis command has failed.
MarkerBacked ==
    Undisturbed({"overlap", "crash", "redis"})
    /\ marker.status = "scheduled" /\ marker.ttl > 0
      => \/ \E t \in Conns : task[t] = "sleeping" /\ sleep[t] = marker.ttl
         \/ \E c \in Conns : pc[c] = "deleteMarker"

\* Every recovery task ends, and so does every connect or disconnect handler.
TasksEnd ==
    \A c \in Conns :
        /\ task[c] \in Running \cup Cancelled ~> task[c] = "done"
        /\ pc[c] \notin {"new", "open", "closed"} ~> pc[c] \in {"open", "closed"}

\* A session that is left for good after its recovery was scheduled is reported
\* ("After delay, session snapshot collected ... Webhook POSTed to Laravel").
\* The backend refusing the POST is not held against the service.
AbandonedIsReported ==
    \A c \in Conns :
        task[c] = "sleeping"
          ~> task[c] = "posting" \/ \E d \in Conns : pc[d] \notin {"new", "closed"}
=============================================================================
