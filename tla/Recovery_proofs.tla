-------------------------- MODULE Recovery_proofs --------------------------
(***************************************************************************)
(* Theorems about Recovery, for any number of connections and processes,   *)
(* any faults and all delays.  The inductive invariant has three layers:   *)
(*   Structure  what connections and tasks look like,                      *)
(*   Tasks      which tasks a process may have while a connection is at a  *)
(*              certain point, and what its table says of them,            *)
(*   Outcome    what follows for markers, delays and webhooks.             *)
(* Most of it holds as long as certain faults have not happened.  Each     *)
(* step is first reduced to its effect on the variables the invariant is   *)
(* about, and each layer is then shown to be preserved by each effect.     *)
(***************************************************************************)
EXTENDS Recovery, TLAPS

Phases == {"new", "deleteMarker", "activate", "open", "deactivate",
           "checkMarker", "claim", "closed"}

Markers ==
    {NoMarker}
    \cup [status : {"scheduled"}, ttl : 0..RecoveryDelay]
    \cup [status : {"completed"}, ttl : 0..CompletedTTL]

ScheduledMarker == [status |-> "scheduled", ttl |-> RecoveryDelay]

-----------------------------------------------------------------------------
(* The inductive invariant.                                                *)

\* A connection that is not closed; one past the reply to DEL; a task that has not ended.
Live(c) == pc[c] \notin {"new", "closed"}
Connected(c) == pc[c] \in {"activate", "open", "deactivate", "checkMarker", "claim"}
Pending(t) == task[t] \in Running \cup Cancelled

\* Connections are made in order, each of them to a process, and a task is created
\* when the handler of its connection has ended.
Order == \A c, d \in Conns : c < d /\ pc[d] # "new" => pc[c] # "new"
Served == \A c \in Conns : pc[c] # "new" => home[c] \in Instances
TasksAfterClose == \A t \in Conns : task[t] # "none" => pc[t] = "closed"

OneAtATime ==
    Undisturbed({"overlap"}) => \A c, d \in Conns : Live(c) /\ Live(d) => c = d

OneProcess ==
    Undisturbed({"otherProcess"}) =>
        \A c, d \in Conns : pc[c] # "new" /\ pc[d] # "new" => home[c] = home[d]

\* From the reply to DEL to the claim the table has no entry.
TableFree ==
    Undisturbed({"overlap"}) => \A c \in Conns : Connected(c) => table[home[c]] = NoTask

\* The tasks of a process: at most one has not ended, none of them runs when a
\* connection has come, and none is left when the reply to its DEL has arrived.
Quiet ==
    Undisturbed({"overlap", "slowUnwind"}) =>
        \A c, t \in Conns : home[t] = home[c] =>
            /\ Pending(c) /\ Pending(t) => c = t
            /\ pc[c] = "deleteMarker" => task[t] \notin Running
            /\ Connected(c) => ~Pending(t)

\* What a sleeping task has left of its delay is still to pass since the disconnect.
DelayKept ==
    Undisturbed({"overlap", "otherProcess", "slowUnwind"}) =>
        \A t \in Conns :
            /\ task[t] = "sleeping" => sleep[t] + idleTime >= RecoveryDelay
            /\ task[t] \in Running \ {"sleeping"} => idleTime = RecoveryDelay

\* Once a webhook is sent no task is left that could send another before the session
\* is opened again.
ReportedOnce ==
    Undisturbed({"overlap", "otherProcess", "slowUnwind", "lostReply"}) =>
        /\ reports <= 1
        /\ reports = 1 => \A t \in Conns : task[t] \notin Running \ {"posting", "marking"}
        /\ \A c \in Conns : Connected(c) /\ pc[c] # "activate" => reports = 0

Structure ==
    TypeOK /\ Order /\ Served /\ TasksAfterClose /\ OneAtATime /\ OneProcess

Tasks == TableFree /\ TaskInTable /\ Quiet

Outcome == MarkerBacked /\ DelayKept /\ ReportedOnce

IInv == Structure /\ Tasks /\ Outcome

-----------------------------------------------------------------------------
(* The effects of the steps.                                               *)

\* What is written to the marker, and what time makes of it, is of its type.
LEMMA MarkerTypes ==
    CompletedMarker \in Markers /\ ScheduledMarker \in Markers /\ NoMarker \in Markers
  BY TimesAssumption DEF Markers, CompletedMarker, ScheduledMarker

\* A tick takes one from its time to live, or removes it.
LEMMA MarkerTick == ASSUME marker \in Markers, Tick PROVE marker' \in Markers
<1>1. CASE marker = NoMarker \/ marker.ttl = 0
  BY <1>1 DEF Tick, Markers
<1>2. CASE ~(marker = NoMarker \/ marker.ttl = 0)
  <2>1. PICK s \in {"scheduled", "completed"} :
          marker \in [status : {s},
                      ttl : 0..(IF s = "scheduled" THEN RecoveryDelay ELSE CompletedTTL)]
    BY <1>2 DEF Markers
  <2>2. marker' = [marker EXCEPT !.ttl = @ - 1]
    BY <1>2 DEF Tick
  <2> QED BY <1>2, <2>1, <2>2, TimesAssumption DEF Markers
<1> QED BY <1>1, <1>2

\* The history of faults only grows: what holds while a fault has not happened yet
\* needs to be shown only for steps without it.
LEMMA History ==
    [Next]_vars => /\ happened \subseteq happened'
                   /\ happened \subseteq Faults => happened' \subseteq Faults
<1> SUFFICES ASSUME [Next]_vars
             PROVE  \/ happened' = happened
                    \/ \E kinds \in SUBSET Faults : happened' = happened \cup kinds
  OBVIOUS
<1> USE DEF Happen
<1>1. ASSUME NEW c \in Conns, Connect(c) \/ Disconnect(c) \/ WebhookResent(c)
      PROVE  \/ happened' = happened
             \/ \E kinds \in SUBSET Faults : happened' = happened \cup kinds
  <2>1. CASE Connect(c)
    BY <2>1 DEF Connect
  <2>2. CASE Disconnect(c)
    BY <2>2 DEF Disconnect
  <2>3. CASE WebhookResent(c)
    BY <2>3 DEF WebhookResent
  <2> QED BY <1>1, <2>1, <2>2, <2>3
<1>2. ASSUME NEW c \in Conns, Handler(c)
      PROVE  \/ happened' = happened
             \/ \E kinds \in SUBSET Faults : happened' = happened \cup kinds
  BY <1>2 DEF Handler, DeleteMarker, RedisFails
<1>3. ASSUME NEW t \in Conns, TaskStep(t)
      PROVE  \/ happened' = happened
             \/ \E kinds \in SUBSET Faults : happened' = happened \cup kinds
  BY <1>3 DEF TaskStep, TaskRedisFails
<1>4. ASSUME NEW i \in Instances, Crash(i)
      PROVE  \E kinds \in SUBSET Faults : happened' = happened \cup kinds
  BY <1>4 DEF Crash
<1>5. CASE Tick \/ UNCHANGED vars
  BY <1>5 DEF Tick, vars
<1> QED BY <1>1, <1>2, <1>3, <1>4, <1>5 DEF Next

\* What the step of a task may do.
TaskEffect(t) ==
    /\ UNCHANGED <<pc, home, active, sleep, idleTime>>
    /\ task[t] = "sleeping" => sleep[t] = 0
    /\ \/ /\ Pending(t)
          /\ task' = [task EXCEPT ![t] = "done"]
          /\ table' = [table EXCEPT ![home[t]] = NoTask]
          /\ reports' = reports
       \/ /\ task[t] \in Running
          /\ \E phase \in Running \ {"sleeping"} :
                /\ task' = [task EXCEPT ![t] = phase]
                /\ task[t] \in {"posting", "marking"} => phase = "marking"
                /\ IF phase = "posting" THEN task[t] = "payload" /\ Report
                                        ELSE reports' = reports
          /\ table' = table

\* Each step of _execute_recovery_if_abandoned has such an effect.
LEMMA TaskEffects == ASSUME NEW t \in Conns, TaskStep(t) PROVE TaskEffect(t)
<1> USE DEF TaskEffect, Pending, Running, Cancelled, Finish, Advance
<1>1. CASE TaskRedisFails(t)
  BY <1>1 DEF TaskStep, TaskRedisFails
<1>2. CASE Wake(t) \/ CheckActive(t)
  BY <1>2 DEF TaskStep, Wake, CheckActive
<1>3. CASE DropMarker(t) \/ Dedup(t)
  BY <1>3 DEF TaskStep, DropMarker, Dedup
<1>4. CASE PostWebhook(t) \/ WebhookAnswered(t)
  BY <1>4 DEF TaskStep, PostWebhook, WebhookAnswered
<1>5. CASE WebhookFails(t) \/ MarkCompleted(t) \/ Unwind(t)
  BY <1>5 DEF TaskStep, WebhookFails, MarkCompleted, Unwind
<1> QED BY <1>1, <1>2, <1>3, <1>4, <1>5 DEF TaskStep

\* A task deletes the marker, completes it or leaves it.
LEMMA TaskMarker ==
    ASSUME NEW t \in Conns, TaskStep(t)
    PROVE  marker' \in {marker, NoMarker, CompletedMarker}
<1>1. CASE TaskRedisFails(t)
  BY <1>1 DEF TaskStep, TaskRedisFails
<1>2. CASE ~TaskRedisFails(t)
  BY <1>2 DEF TaskStep, Wake, CheckActive, DropMarker, Dedup, PostWebhook,
              WebhookAnswered, WebhookFails, MarkCompleted, Unwind
<1> QED BY <1>1, <1>2

\* The steps of a handler that neither connect, nor create a task.
HandlerEffect(c) ==
    /\ UNCHANGED <<home, task, sleep>>
    /\ Live(c)
    /\ \/ "redis" \in happened'
       \/ marker' = IF pc[c] = "deleteMarker" THEN NoMarker ELSE marker
    /\ \/ /\ pc[c] = "deleteMarker"
          /\ pc' = [pc EXCEPT ![c] = "activate"]
          /\ table' = [table EXCEPT ![home[c]] = NoTask]
          /\ UNCHANGED <<reports, idleTime>>
          /\ \A d \in Conns : home[d] = home[c] /\ task[d] \in Cancelled
                                => "slowUnwind" \in happened'
       \/ /\ \E step \in {"open", "deactivate", "checkMarker", "claim", "closed"} :
               /\ pc' = [pc EXCEPT ![c] = step]
               /\ step # "closed" => Connected(c)
               /\ pc[c] = "deleteMarker" => "redis" \in happened'
               /\ pc[c] = "activate" => step \in {"closed", "open"}
               /\ IF step = "open" THEN reports' = 0 ELSE reports' = reports
               /\ IF step = "deactivate" THEN pc[c] = "open" /\ idleTime' = 0
                                         ELSE UNCHANGED idleTime
          /\ table' = table

ClaimStep(c) == Claim(c) /\ UNCHANGED <<home, happened>>

\* So have the steps of the handlers, apart from the two that follow.
LEMMA HandlerEffects ==
    ASSUME TypeOK, NEW c \in Conns, (Handler(c) /\ ~ClaimStep(c)) \/ Disconnect(c)
    PROVE  /\ HandlerEffect(c)
           /\ active' \in BOOLEAN
           /\ marker' \in {marker, NoMarker, ScheduledMarker}
<1> USE DEF HandlerEffect, Live, Connected, Happen, Go
<1>1. CASE Handler(c) /\ DeleteMarker(c)
  BY <1>1 DEF Handler, DeleteMarker, KindIf, TypeOK
<1>2. CASE Handler(c) /\ RedisFails(c)
  BY <1>2 DEF Handler, RedisFails, Executed, ScheduledMarker, TypeOK
<1>3. CASE Handler(c) /\ Activate(c)
  BY <1>3 DEF Handler, Activate, TypeOK
<1>4. CASE Handler(c) /\ (Deactivate(c) \/ CheckMarker(c))
  BY <1>4 DEF Handler, Deactivate, CheckMarker, TypeOK
<1>5. CASE Disconnect(c)
  BY <1>5 DEF Disconnect, TypeOK
<1> QED BY <1>1, <1>2, <1>3, <1>4, <1>5 DEF Handler, ClaimStep

\* The step of a new connection, which is made to process i.
ConnectEffect(c, i) ==
    /\ pc[c] = "new" /\ \A d \in 1..(c - 1) : pc[d] # "new"
    /\ pc' = [pc EXCEPT ![c] = "deleteMarker"]
    /\ home' = [home EXCEPT ![c] = i]
    /\ (\E d \in Conns : Live(d)) => "overlap" \in happened'
    /\ (\E d \in 1..(c - 1) : home[d] # i) => "otherProcess" \in happened'
    /\ task' \in [Conns -> Running \cup Cancelled \cup {"none", "done"}]
    /\ \A t \in Conns :
          IF t = table[i] /\ task[t] \in Running
          THEN task'[t] \in Cancelled ELSE task'[t] = task[t]
    /\ UNCHANGED <<active, marker, sleep, table, idleTime, reports>>

\* CancelLocalTask cancels the task that the table names, and no other.
LEMMA ConnectEffects ==
    ASSUME TypeOK, NEW c \in Conns, Connect(c)
    PROVE  \E i \in Instances : ConnectEffect(c, i)
<1>1. PICK i \in Instances :
        /\ pc[c] = "new" /\ \A d \in 1..(c - 1) : pc[d] # "new"
        /\ Happen(KindIf(\E d \in Conns : pc[d] \notin {"new", "closed"}, "overlap")
              \cup KindIf(\E d \in 1..(c - 1) : home[d] # i, "otherProcess"))
        /\ Go(c, "deleteMarker")
        /\ home' = [home EXCEPT ![c] = i]
        /\ CancelLocalTask(i)
        /\ UNCHANGED <<active, marker, sleep, table, idleTime, reports>>
  BY DEF Connect
<1>2. /\ (\E d \in Conns : Live(d)) => "overlap" \in happened'
      /\ (\E d \in 1..(c - 1) : home[d] # i) => "otherProcess" \in happened'
  BY <1>1 DEF Happen, KindIf, Live
<1>3. /\ task' \in [Conns -> Running \cup Cancelled \cup {"none", "done"}]
      /\ \A t \in Conns :
            IF t = table[i] /\ task[t] \in Running
            THEN task'[t] \in Cancelled ELSE task'[t] = task[t]
  BY <1>1, ConnsAssumption
     DEF CancelLocalTask, TypeOK, Running, Cancelled, Conns, NoTask
<1> QED BY <1>1, <1>2, <1>3 DEF ConnectEffect, Go

\* A claim creates the task of its connection, or nothing.
ClaimEffect(c) ==
    /\ UNCHANGED <<home, active, idleTime, reports, happened>>
    /\ pc[c] = "claim"
    /\ pc' = [pc EXCEPT ![c] = "closed"]
    /\ \/ /\ marker' = ScheduledMarker
          /\ table' = [table EXCEPT ![home[c]] = c]
          /\ task' = [task EXCEPT ![c] = "sleeping"]
          /\ sleep' = [sleep EXCEPT ![c] = RecoveryDelay]
       \/ /\ \/ marker' = marker /\ marker # NoMarker
             \/ marker' = ScheduledMarker /\ table[home[c]] # NoTask
          /\ UNCHANGED <<table, task, sleep>>

\* SET NX EX creates the task, unless there is a marker or the entry of a task.
LEMMA ClaimEffects == ASSUME NEW c \in Conns, ClaimStep(c) PROVE ClaimEffect(c)
  BY DEF ClaimStep, Claim, ClaimEffect, Go, ScheduledMarker

-----------------------------------------------------------------------------
(* Connections and tasks.                                                  *)

\* Initially there are no connections.
LEMMA StructureInit == Init => Structure
  BY ConnsAssumption, TimesAssumption
     DEF Init, Structure, TypeOK, Order, Served, TasksAfterClose, OneAtATime, OneProcess,
         Live, Undisturbed

\* A second connection is an overlap, one to another process a fault of its own.
LEMMA StructureConnect ==
    ASSUME Structure, NEW c \in Conns, Connect(c) PROVE Structure'
<1> USE DEF Structure
<1>1. PICK i \in Instances : ConnectEffect(c, i)
  BY ConnectEffects
<1>2. happened \subseteq happened' /\ happened' \subseteq Faults
  BY History DEF Next, TypeOK
<1>3. TypeOK'
  BY <1>1, <1>2 DEF ConnectEffect, TypeOK
<1>4. Order' /\ Served' /\ TasksAfterClose'
  <2>1. Order'
    BY <1>1, ConnsAssumption DEF ConnectEffect, Order, TypeOK, Conns
  <2>2. Served'
    BY <1>1 DEF ConnectEffect, Served, TypeOK
  <2>3. TasksAfterClose'
    BY <1>1 DEF ConnectEffect, TasksAfterClose, TypeOK, Running, Cancelled
  <2> QED BY <2>1, <2>2, <2>3
<1>5. OneAtATime'
  BY <1>1, <1>2 DEF ConnectEffect, OneAtATime, Undisturbed, Live, TypeOK
<1>6. OneProcess'
  BY <1>1, <1>2, ConnsAssumption
     DEF ConnectEffect, OneProcess, Undisturbed, Order, TypeOK, Conns
<1> QED BY <1>3, <1>4, <1>5, <1>6

\* Handlers neither start connections nor move them.
LEMMA StructureHandler ==
    ASSUME Structure, NEW c \in Conns, (Handler(c) /\ ~ClaimStep(c)) \/ Disconnect(c)
    PROVE  Structure'
<1> USE DEF Structure
<1>1. /\ HandlerEffect(c)
      /\ active' \in BOOLEAN
      /\ marker' \in {marker, NoMarker, ScheduledMarker}
  BY HandlerEffects
<1>2. happened \subseteq happened' /\ happened' \subseteq Faults
  BY History DEF Next, TypeOK
<1>3. TypeOK'
  <2>1. marker' \in Markers
    BY <1>1, MarkerTypes DEF TypeOK, Markers
  <2>2. pc' \in [Conns -> Phases] /\ table' \in [Instances -> Conns \cup {NoTask}]
    BY <1>1 DEF TypeOK, HandlerEffect, Phases
  <2>3. idleTime' \in 0..RecoveryDelay /\ reports' \in 0..2
    BY <1>1, TimesAssumption DEF TypeOK, HandlerEffect
  <2> QED BY <1>1, <1>2, <2>1, <2>2, <2>3 DEF TypeOK, HandlerEffect, Markers, Phases
<1>4. Order' /\ Served' /\ TasksAfterClose'
  BY <1>1, ConnsAssumption DEF HandlerEffect, Order, Served, TasksAfterClose, TypeOK, Live
<1>5. OneAtATime'
  BY <1>1, <1>2 DEF HandlerEffect, OneAtATime, Undisturbed, Live, TypeOK
<1>6. OneProcess'
  BY <1>1, <1>2 DEF HandlerEffect, OneProcess, Undisturbed, Live, TypeOK
<1> QED BY <1>3, <1>4, <1>5, <1>6

\* A task starts when its handler ends.
LEMMA StructureClaim ==
    ASSUME Structure, NEW c \in Conns, ClaimStep(c) PROVE Structure'
<1> USE DEF Structure
<1>1. ClaimEffect(c)
  BY ClaimEffects
<1>3. TypeOK'
  <2>1. marker' \in Markers
    BY <1>1, MarkerTypes DEF TypeOK, Markers, ClaimEffect
  <2> QED BY <1>1, <2>1, TimesAssumption DEF TypeOK, ClaimEffect, Markers, Running
<1>4. Order' /\ Served' /\ TasksAfterClose'
  BY <1>1 DEF ClaimEffect, Order, Served, TasksAfterClose, TypeOK
<1>5. OneAtATime' /\ OneProcess'
  BY <1>1 DEF ClaimEffect, OneAtATime, OneProcess, Undisturbed, Live, TypeOK
<1> QED BY <1>3, <1>4, <1>5

\* Tasks do not touch connections.
LEMMA StructureTask ==
    ASSUME Structure, NEW t \in Conns, TaskStep(t) PROVE Structure'
<1> USE DEF Structure
<1>1. TaskEffect(t) /\ marker' \in {marker, NoMarker, CompletedMarker}
  BY TaskEffects, TaskMarker
<1>2. happened \subseteq happened' /\ happened' \subseteq Faults
  BY History DEF Next, TypeOK
<1>3. TypeOK'
  <2>1. marker' \in Markers
    BY <1>1, MarkerTypes DEF TypeOK, Markers
  <2>2. reports' \in 0..2
    BY <1>1 DEF TaskEffect, Report, TypeOK
  <2> QED BY <1>1, <1>2, <2>1, <2>2 DEF TypeOK, TaskEffect, Markers
<1>4. Order' /\ Served' /\ TasksAfterClose'
  BY <1>1
     DEF TaskEffect, Order, Served, TasksAfterClose, TypeOK, Pending, Running, Cancelled
<1>5. OneAtATime' /\ OneProcess'
  BY <1>1, <1>2 DEF TaskEffect, OneAtATime, OneProcess, Undisturbed, Live
<1> QED BY <1>3, <1>4, <1>5

\* A crash closes connections and opens none.
LEMMA StructureCrash ==
    ASSUME Structure, NEW i \in Instances, Crash(i) PROVE Structure'
<1> USE DEF Structure
<1>2. happened \subseteq happened' /\ happened' \subseteq Faults
  BY History DEF Next, TypeOK
<1>3. TypeOK'
  BY <1>2, TimesAssumption DEF TypeOK, Crash
<1>4. Order' /\ Served' /\ TasksAfterClose'
  BY DEF Crash, Order, Served, TasksAfterClose, TypeOK
<1>5. OneAtATime' /\ OneProcess'
  BY <1>2 DEF Crash, OneAtATime, OneProcess, Undisturbed, Live, TypeOK
<1> QED BY <1>3, <1>4, <1>5

\* Time only changes times.
LEMMA StructureTick == ASSUME Structure, Tick PROVE Structure'
<1> USE DEF Structure
<1>1. marker' \in Markers
  BY MarkerTick DEF TypeOK, Markers
<1>2. TypeOK'
  BY <1>1, TimesAssumption DEF TypeOK, Tick, Markers
<1>3. (Order /\ Served /\ TasksAfterClose /\ OneAtATime /\ OneProcess)'
  BY DEF Tick, Order, Served, TasksAfterClose, OneAtATime, OneProcess, Undisturbed, Live
<1> QED BY <1>2, <1>3

\* The first layer is inductive.
LEMMA StructureStep == Structure /\ [Next]_vars => Structure'
<1> SUFFICES ASSUME Structure, [Next]_vars PROVE Structure'
  OBVIOUS
<1>1. ASSUME NEW t \in Conns, WebhookResent(t) PROVE Structure'
  BY <1>1, History
     DEF WebhookResent, Report, Structure, TypeOK, Order, Served, TasksAfterClose,
         OneAtATime, OneProcess, Undisturbed, Live, Happen
<1>2. CASE UNCHANGED vars
  BY <1>2 DEF vars, Structure, TypeOK, Order, Served, TasksAfterClose, OneAtATime,
              OneProcess, Undisturbed, Live
<1> QED BY <1>1, <1>2, StructureConnect, StructureHandler, StructureClaim,
           StructureTask, StructureCrash, StructureTick DEF Next

-----------------------------------------------------------------------------
(* The tasks of the processes and their tables.                            *)

\* Initially there are no tasks.
LEMMA TasksInit == Init => Tasks
  BY DEF Init, Tasks, TableFree, TaskInTable, Quiet, Connected, Pending, Running, Cancelled,
         Undisturbed

\* A task belongs to a process.
LEMMA RunningServed ==
    ASSUME Structure, NEW t \in Conns, task[t] \in Running \cup Cancelled
    PROVE  home[t] \in Instances
  BY DEF Structure, TasksAfterClose, Served, Running, Cancelled

\* The task that the table names is cancelled, and it is the only one that could run.
LEMMA TasksConnect ==
    ASSUME Structure, Tasks, Structure', NEW c \in Conns, Connect(c) PROVE Tasks'
<1> USE DEF Structure, Tasks
<1>1. PICK i \in Instances : ConnectEffect(c, i)
  BY ConnectEffects
<1>2. happened \subseteq happened'
  BY History DEF Next
<1>3. task[c] = "none" /\ task'[c] = "none"
  <2>1. task[c] = "none"
    BY <1>1 DEF ConnectEffect, TasksAfterClose
  <2> QED BY <1>1, <2>1 DEF ConnectEffect, Running
<1>4. TableFree'
  BY <1>1, <1>2 DEF ConnectEffect, TableFree, Undisturbed, Connected, Live, TypeOK
<1>5. TaskInTable'
  BY <1>1, <1>2, <1>3
     DEF ConnectEffect, TaskInTable, Undisturbed, TypeOK, Running, Cancelled
<1>6. Quiet'
  <2> SUFFICES ASSUME Undisturbed({"overlap", "slowUnwind"})',
                      NEW d \in Conns, NEW t \in Conns, home'[t] = home'[d]
               PROVE  /\ Pending(d)' /\ Pending(t)' => d = t
                      /\ pc'[d] = "deleteMarker" => task'[t] \notin Running
                      /\ Connected(d)' => ~Pending(t)'
    BY DEF Quiet
  <2>1. /\ Undisturbed({"overlap", "slowUnwind"})
        /\ \A e \in Conns : ~Live(e)
    BY <1>1, <1>2 DEF Undisturbed, ConnectEffect
  <2>2. \A e \in Conns : Pending(e)' => Pending(e) /\ e # c
    BY <1>1, <1>3 DEF ConnectEffect, Pending, Running, Cancelled
  <2>3. \A e \in Conns : e # c => home'[e] = home[e] /\ pc'[e] = pc[e]
    BY <1>1 DEF ConnectEffect, TypeOK
  <2>4. Pending(d)' /\ Pending(t)' => d = t
    BY <2>1, <2>2, <2>3 DEF Quiet
  <2>5. pc'[d] = "deleteMarker" => task'[t] \notin Running
    <3> SUFFICES ASSUME pc'[d] = "deleteMarker", task'[t] \in Running PROVE FALSE
      OBVIOUS
    <3>1. d = c
      BY <2>1, <2>3 DEF Live
    <3>2. t # c /\ home[t] = i
      BY <1>1, <1>3, <2>3, <3>1 DEF ConnectEffect, TypeOK, Running
    <3>3. task[t] \in Running
      BY <1>1 DEF ConnectEffect, Running, Cancelled
    <3>4. table[i] = t
      BY <2>1, <3>2, <3>3 DEF TaskInTable
    <3> QED BY <1>1, <3>3, <3>4 DEF ConnectEffect, Running, Cancelled
  <2>6. ~Connected(d)'
    BY <1>1, <2>1 DEF ConnectEffect, Connected, Live, TypeOK
  <2> QED BY <2>4, <2>5, <2>6
<1> QED BY <1>4, <1>5, <1>6

\* The reply to DEL finds no task left, unless a cancelled one is slow.
LEMMA TasksHandler ==
    ASSUME Structure, Tasks, NEW c \in Conns, (Handler(c) /\ ~ClaimStep(c)) \/ Disconnect(c)
    PROVE  Tasks'
<1> USE DEF Structure, Tasks
<1>1. HandlerEffect(c)
  BY HandlerEffects
<1>2. happened \subseteq happened'
  BY History DEF Next
<1>3. TableFree'
  BY <1>1, <1>2 DEF HandlerEffect, TableFree, Undisturbed, Connected, TypeOK, Served
<1>4. TaskInTable'
  <2> SUFFICES ASSUME Undisturbed({"overlap", "slowUnwind"})',
                      NEW t \in Conns, task'[t] \in Running
               PROVE  table'[home'[t]] = t
    BY DEF TaskInTable
  <2>1. table[home[t]] = t /\ task[t] \in Running /\ home'[t] = home[t]
    BY <1>1, <1>2 DEF HandlerEffect, TaskInTable, Undisturbed
  <2>2. home[t] \in Instances
    BY <2>1, RunningServed
  <2>3. home[t] = home[c] => pc[c] # "deleteMarker"
    BY <1>2, <2>1 DEF Quiet, Undisturbed
  <2> QED BY <1>1, <2>1, <2>2, <2>3 DEF HandlerEffect, TypeOK
<1>5. Quiet'
  BY <1>1, <1>2 DEF HandlerEffect, Quiet, Undisturbed, Connected, Pending, TypeOK
<1> QED BY <1>3, <1>4, <1>5

\* The new task is the only one of its process.
LEMMA TasksClaim ==
    ASSUME Structure, Tasks, NEW c \in Conns, ClaimStep(c) PROVE Tasks'
<1> USE DEF Structure, Tasks
<1>1. ClaimEffect(c)
  BY ClaimEffects
<1>2. home[c] \in Instances
  BY <1>1 DEF ClaimEffect, Served
<1>3. TableFree'
  BY <1>1, <1>2 DEF ClaimEffect, TableFree, OneAtATime, Undisturbed, Connected, Live, TypeOK
<1>4. TaskInTable'
  <2> SUFFICES ASSUME Undisturbed({"overlap", "slowUnwind"})',
                      NEW t \in Conns, task'[t] \in Running
               PROVE  table'[home'[t]] = t
    BY DEF TaskInTable
  <2>1. Undisturbed({"overlap", "slowUnwind"}) /\ home'[t] = home[t]
    BY <1>1 DEF ClaimEffect, Undisturbed
  <2>2. CASE task[t] \in Running
    <3>1. home[t] # home[c] /\ t # c /\ table[home[t]] = t
      BY <1>1, <2>1, <2>2
         DEF ClaimEffect, Quiet, Connected, Pending, TaskInTable, TasksAfterClose, Running
    <3>2. home[t] \in Instances
      BY <2>2, RunningServed
    <3> QED BY <1>1, <2>1, <3>1, <3>2 DEF ClaimEffect, TypeOK
  <2>3. CASE task[t] \notin Running
    <3>1. t = c /\ table' = [table EXCEPT ![home[c]] = c]
      BY <1>1, <2>3 DEF ClaimEffect, TypeOK
    <3> QED BY <1>2, <2>1, <3>1 DEF TypeOK
  <2> QED BY <2>2, <2>3
<1>5. Quiet'
  BY <1>1, <1>2
     DEF ClaimEffect, Quiet, OneAtATime, Undisturbed, Connected, Pending, TypeOK, Live
<1> QED BY <1>3, <1>4, <1>5

\* A task that ends clears the entry of its session, which names no other task.
LEMMA TasksTask ==
    ASSUME Structure, Tasks, NEW t \in Conns, TaskStep(t) PROVE Tasks'
<1> USE DEF Structure, Tasks
<1>1. TaskEffect(t)
  BY TaskEffects
<1>2. happened \subseteq happened'
  BY History DEF Next
<1>3. home[t] \in Instances
  BY <1>1, RunningServed DEF TaskEffect, Pending
<1>4. TableFree'
  <2>1. \A d \in Conns : Connected(d) => home[d] \in Instances
    BY DEF Connected, Served
  <2> QED
    BY <1>1, <1>2, <1>3, <2>1 DEF TaskEffect, TableFree, Undisturbed, Connected, TypeOK
<1>5. TaskInTable'
  <2> SUFFICES ASSUME Undisturbed({"overlap", "slowUnwind"})',
                      NEW d \in Conns, task'[d] \in Running
               PROVE  table'[home'[d]] = d
    BY DEF TaskInTable
  <2>1. Undisturbed({"overlap", "slowUnwind"}) /\ home'[d] = home[d]
    BY <1>1, <1>2 DEF TaskEffect, Undisturbed
  <2>2. task[d] \in Running
    BY <1>1 DEF TaskEffect, TypeOK, Running
  <2>3. table[home[d]] = d /\ home[d] \in Instances
    BY <2>1, <2>2, RunningServed DEF TaskInTable
  <2>4. task'[t] = "done" => t # d
    BY DEF Running
  <2>5. t # d => home[t] # home[d]
    BY <1>1, <2>1, <2>2 DEF TaskEffect, Quiet, Pending
  <2> QED BY <1>1, <1>3, <2>1, <2>3, <2>4, <2>5 DEF TaskEffect, TypeOK
<1>6. Quiet'
  BY <1>1, <1>2, <1>3
     DEF TaskEffect, Quiet, Undisturbed, Connected, Pending, TypeOK, Running, Cancelled
<1> QED BY <1>4, <1>5, <1>6

\* A crash ends the tasks of its process and empties its table.
LEMMA TasksCrash ==
    ASSUME Structure, Tasks, NEW i \in Instances, Crash(i) PROVE Tasks'
<1> USE DEF Structure, Tasks
<1>2. happened \subseteq happened'
  BY History DEF Next
<1>3. TableFree'
  BY <1>2 DEF Crash, TableFree, Undisturbed, Connected, TypeOK
<1>4. TaskInTable'
  BY <1>2 DEF Crash, TaskInTable, Undisturbed, TypeOK, Running
<1>5. Quiet'
  BY <1>2 DEF Crash, Quiet, Undisturbed, Connected, Pending, TypeOK, Running, Cancelled
<1> QED BY <1>3, <1>4, <1>5

\* The second layer is inductive.
LEMMA TasksStep == Structure /\ Structure' /\ Tasks /\ [Next]_vars => Tasks'
<1> SUFFICES ASSUME Structure, Structure', Tasks, [Next]_vars PROVE Tasks'
  OBVIOUS
<1>1. ASSUME NEW t \in Conns, WebhookResent(t) PROVE Tasks'
  BY <1>1, History
     DEF WebhookResent, Tasks, TableFree, TaskInTable, Quiet, Undisturbed, Connected,
         Pending
<1>2. CASE Tick \/ UNCHANGED vars
  BY <1>2 DEF Tick, vars, Tasks, TableFree, TaskInTable, Quiet, Undisturbed, Connected,
              Pending
<1> QED BY <1>1, <1>2, TasksConnect, TasksHandler, TasksClaim, TasksTask, TasksCrash
    DEF Next

-----------------------------------------------------------------------------
(* Markers, delays and webhooks.                                           *)

\* Initially there is no marker and no report.
LEMMA OutcomeInit == Init => Outcome
  BY TimesAssumption
     DEF Init, Outcome, MarkerBacked, DelayKept, ReportedOnce, NoMarker, Connected, Running

\* While the session keeps to one process and one connection at a time, a connection
\* that has cancelled its recovery leaves no task that runs, on any process.
LEMMA NoneLeft ==
    ASSUME Structure, Tasks, Undisturbed({"overlap", "otherProcess", "slowUnwind"}),
           NEW c \in Conns, Connected(c), NEW t \in Conns
    PROVE  ~Pending(t)
<1> SUFFICES ASSUME Pending(t) PROVE FALSE
  OBVIOUS
<1>1. home[t] = home[c]
  BY DEF Structure, TasksAfterClose, OneProcess, Undisturbed, Pending, Connected, Running,
         Cancelled
<1> QED BY <1>1 DEF Tasks, Quiet, Undisturbed

\* Nor is there more than one task that has not ended.
LEMMA OnlyTask ==
    ASSUME Structure, Tasks, Undisturbed({"overlap", "otherProcess", "slowUnwind"}),
           NEW c \in Conns, Pending(c), NEW t \in Conns, Pending(t)
    PROVE  c = t
<1>1. home[t] = home[c]
  BY DEF Structure, TasksAfterClose, OneProcess, Undisturbed, Pending, Running, Cancelled
<1> QED BY <1>1 DEF Tasks, Quiet, Undisturbed

\* The marker loses its task to a connection that is about to delete it.
LEMMA OutcomeConnect ==
    ASSUME Structure, Tasks, Outcome, NEW c \in Conns, Connect(c) PROVE Outcome'
<1> USE DEF Structure, Tasks, Outcome
<1>1. PICK i \in Instances : ConnectEffect(c, i)
  BY ConnectEffects
<1>2. happened \subseteq happened'
  BY History DEF Next
<1>3. MarkerBacked'
  BY <1>1 DEF ConnectEffect, MarkerBacked, TypeOK
<1>4. \A t \in Conns : task'[t] \in Running => task'[t] = task[t]
  BY <1>1 DEF ConnectEffect, Running, Cancelled
<1>5. DelayKept'
  BY <1>1, <1>2, <1>4 DEF ConnectEffect, DelayKept, Undisturbed, Running
<1>6. ReportedOnce'
  BY <1>1, <1>2, <1>4
     DEF ConnectEffect, ReportedOnce, Undisturbed, Running, Connected, Live, TypeOK
<1> QED BY <1>3, <1>5, <1>6

\* The delay starts again at a disconnect, when no task is left; reports start again when
\* the session is opened.
LEMMA OutcomeHandler ==
    ASSUME Structure, Tasks, Outcome,
           NEW c \in Conns, (Handler(c) /\ ~ClaimStep(c)) \/ Disconnect(c)
    PROVE  Outcome'
<1> USE DEF Structure, Tasks, Outcome
<1>1. HandlerEffect(c)
  BY HandlerEffects
<1>2. happened \subseteq happened'
  BY History DEF Next
<1>3. MarkerBacked'
  BY <1>1, <1>2 DEF HandlerEffect, MarkerBacked, Undisturbed, NoMarker, TypeOK
<1>4. DelayKept'
  <2> SUFFICES ASSUME Undisturbed({"overlap", "otherProcess", "slowUnwind"})',
                      NEW t \in Conns, task[t] \in Running
               PROVE  idleTime' = idleTime
    BY <1>1, <1>2 DEF HandlerEffect, DelayKept, Undisturbed, Running
  <2>1. Undisturbed({"overlap", "otherProcess", "slowUnwind"}) /\ Pending(t)
    BY <1>2 DEF Undisturbed, Pending
  <2>2. ~Connected(c)
    BY <2>1, NoneLeft
  <2> QED BY <1>1, <2>2 DEF HandlerEffect, Connected
<1>5. ReportedOnce'
  BY <1>1, <1>2 DEF HandlerEffect, ReportedOnce, Undisturbed, Connected, TypeOK
<1> QED BY <1>3, <1>4, <1>5

\* The new marker and the sleep of the new task are equally long.
LEMMA OutcomeClaim ==
    ASSUME Structure, Tasks, Outcome, NEW c \in Conns, ClaimStep(c) PROVE Outcome'
<1> USE DEF Structure, Tasks, Outcome
<1>1. ClaimEffect(c) /\ Connected(c)
  BY ClaimEffects DEF ClaimEffect, Connected
<1>2. MarkerBacked'
  <2> SUFFICES ASSUME Undisturbed({"overlap"}), MarkerBacked
               PROVE  MarkerBacked'
    BY <1>1 DEF ClaimEffect, MarkerBacked, Undisturbed
  <2>1. table[home[c]] = NoTask
    BY <1>1 DEF TableFree
  <2> QED
    BY <1>1, <2>1
       DEF ClaimEffect, MarkerBacked, Undisturbed, ScheduledMarker, NoMarker, TypeOK
<1>3. DelayKept'
  BY <1>1, TimesAssumption DEF ClaimEffect, DelayKept, Undisturbed, Running, TypeOK
<1>4. ReportedOnce'
  BY <1>1 DEF ClaimEffect, ReportedOnce, Undisturbed, Connected, TypeOK
<1> QED BY <1>2, <1>3, <1>4

\* The task that posts is the only one, and does not get back to where it posts from.
LEMMA OutcomeTask ==
    ASSUME Structure, Tasks, Outcome, NEW t \in Conns, TaskStep(t) PROVE Outcome'
<1> USE DEF Structure, Tasks, Outcome
<1>1. TaskEffect(t) /\ marker' \in {marker, NoMarker, CompletedMarker}
  BY TaskEffects, TaskMarker
<1>2. happened \subseteq happened'
  BY History DEF Next
<1>3. MarkerBacked'
  BY <1>1, <1>2, TimesAssumption
     DEF TaskEffect, MarkerBacked, Undisturbed, NoMarker, CompletedMarker, TypeOK, Pending,
         Running, Cancelled
<1>4. DelayKept'
  BY <1>1, <1>2, TimesAssumption DEF TaskEffect, DelayKept, Undisturbed, TypeOK, Running
<1>5. ReportedOnce'
  <2> SUFFICES ASSUME Undisturbed({"overlap", "otherProcess", "slowUnwind", "lostReply"})'
               PROVE  /\ reports' <= 1
                      /\ reports' = 1 =>
                           \A d \in Conns : task'[d] \notin Running \ {"posting", "marking"}
                      /\ \A d \in Conns :
                           Connected(d)' /\ pc'[d] # "activate" => reports' = 0
    BY DEF ReportedOnce
  <2>1. Undisturbed({"overlap", "otherProcess", "slowUnwind", "lostReply"})
    BY <1>2 DEF Undisturbed
  <2>2. Pending(t)
    BY <1>1 DEF TaskEffect, Pending
  <2>3. \A d \in Conns : ~Connected(d) /\ (d # t => ~Pending(d))
    <3>1. Undisturbed({"overlap", "otherProcess", "slowUnwind"})
      BY <2>1 DEF Undisturbed
    <3> QED BY <2>2, <3>1, NoneLeft, OnlyTask
  <2>4. \A d \in Conns : ~Connected(d)'
    BY <1>1, <2>3 DEF TaskEffect, Connected
  <2>5. \A d \in Conns : d # t => task'[d] \notin Running
    BY <1>1, <2>3 DEF TaskEffect, Pending, TypeOK
  <2>6. /\ reports' <= 1
        /\ reports' = 1 => task'[t] \notin Running \ {"posting", "marking"}
    BY <1>1, <2>1 DEF TaskEffect, ReportedOnce, Report, TypeOK, Running, Pending
  <2> QED BY <2>4, <2>5, <2>6
<1> QED BY <1>3, <1>4, <1>5

\* A crash may leave a marker without a task, but neither a task that runs too early nor one
\* that reports again.
LEMMA OutcomeCrash ==
    ASSUME Structure, Tasks, Outcome, NEW i \in Instances, Crash(i) PROVE Outcome'
<1> USE DEF Structure, Tasks, Outcome
<1>1. happened \subseteq happened' /\ "crash" \in happened'
  BY History DEF Next, Crash, Happen
<1>2. MarkerBacked'
  BY <1>1 DEF MarkerBacked, Undisturbed
<1>3. \A t \in Conns : task'[t] \in Running => task'[t] = task[t]
  BY DEF Crash, Running, TypeOK
<1>4. DelayKept'
  <2> SUFFICES ASSUME Undisturbed({"overlap", "otherProcess", "slowUnwind"})',
                      NEW t \in Conns, task[t] \in Running
               PROVE  idleTime' = idleTime
    BY <1>1, <1>3 DEF Crash, DelayKept, Undisturbed, Running
  <2>1. Undisturbed({"overlap", "otherProcess", "slowUnwind"}) /\ Pending(t)
    BY <1>1 DEF Undisturbed, Pending
  <2>2. \A c \in Conns : pc[c] # "open"
    BY <2>1, NoneLeft DEF Connected
  <2> QED BY <2>2 DEF Crash
<1>5. ReportedOnce'
  <2>1. \A c \in Conns : Connected(c)' => Connected(c) /\ pc'[c] = pc[c]
    BY DEF Crash, Connected, TypeOK
  <2> QED BY <1>1, <1>3, <2>1 DEF Crash, ReportedOnce, Undisturbed
<1> QED BY <1>2, <1>4, <1>5

\* A marker and the sleep it stands for end together.
LEMMA OutcomeTick == ASSUME Structure, Tasks, Outcome, Tick PROVE Outcome'
<1> USE DEF Structure, Tasks, Outcome
<1>1. MarkerBacked'
  <2> SUFFICES ASSUME Undisturbed({"overlap", "crash", "redis"}),
                      marker'.status = "scheduled", marker'.ttl > 0
               PROVE  \/ \E t \in Conns : task'[t] = "sleeping" /\ sleep'[t] = marker'.ttl
                      \/ \E c \in Conns : pc'[c] = "deleteMarker"
    BY DEF MarkerBacked, Tick, Undisturbed
  <2>1. marker # NoMarker /\ marker.ttl # 0 /\ marker' = [marker EXCEPT !.ttl = @ - 1]
    BY DEF Tick, NoMarker
  <2>2. marker \in [status : {"scheduled"}, ttl : 0..RecoveryDelay]
    BY <2>1 DEF TypeOK
  <2>3. marker.status = "scheduled" /\ marker.ttl > 0 /\ marker'.ttl = marker.ttl - 1
    BY <2>1, <2>2, TimesAssumption
  <2> QED BY <2>2, <2>3, TimesAssumption DEF MarkerBacked, Tick, TypeOK
<1>2. DelayKept'
  BY TimesAssumption DEF DelayKept, Tick, Undisturbed, TypeOK, Running
<1>3. ReportedOnce'
  BY DEF ReportedOnce, Tick, Undisturbed, Connected
<1> QED BY <1>1, <1>2, <1>3

\* The third layer is inductive.
LEMMA OutcomeStep == Structure /\ Tasks /\ Outcome /\ [Next]_vars => Outcome'
<1> SUFFICES ASSUME Structure, Tasks, Outcome, [Next]_vars PROVE Outcome'
  OBVIOUS
<1>1. ASSUME NEW t \in Conns, WebhookResent(t) PROVE Outcome'
  BY <1>1, History
     DEF WebhookResent, Happen, Outcome, MarkerBacked, DelayKept, ReportedOnce, Undisturbed
<1>2. CASE UNCHANGED vars
  BY <1>2
     DEF vars, Outcome, MarkerBacked, DelayKept, ReportedOnce, Undisturbed, Connected
<1> QED BY <1>1, <1>2, OutcomeConnect, OutcomeHandler, OutcomeClaim, OutcomeTask,
           OutcomeCrash, OutcomeTick DEF Next

\* The inductive invariant holds in every reachable state.
THEOREM Invariance == Spec => []IInv
<1> QED BY StructureInit, StructureStep, TasksInit, TasksStep, OutcomeInit, OutcomeStep,
           PTL DEF Spec, IInv

\* The type invariant: no marker outlives its time to live, no task its delay.
THEOREM TypeCorrect == Spec => []TypeOK
<1>1. IInv => TypeOK
  BY DEF IInv, Structure
<1> QED BY <1>1, Invariance, PTL

\* cancel_recovery can reach every task that runs: _scheduled_tasks of its process
\* names it, as long as connections do not overlap and cancelled tasks end promptly.
THEOREM TasksTracked == Spec => []TaskInTable
<1>1. IInv => TaskInTable
  BY DEF IInv, Tasks
<1> QED BY <1>1, Invariance, PTL

\* One abandonment is reported once, whatever crashes and whatever Redis commands fail,
\* unless an answer of the backend is lost or the session's connections overlap or move
\* between processes.
THEOREM NoDuplicate == Spec => []NoDuplicateWebhook
<1>1. IInv => NoDuplicateWebhook
  BY DEF IInv, Outcome, ReportedOnce, NoDuplicateWebhook
<1> QED BY <1>1, Invariance, PTL

\* A scheduled marker that lives has a task that sleeps as long, or a new connection
\* that is about to delete it, unless a process or a Redis command has failed.
THEOREM MarkersBacked == Spec => []MarkerBacked
<1>1. IInv => MarkerBacked
  BY DEF IInv, Outcome
<1> QED BY <1>1, Invariance, PTL

\* A task starts to post only from its own "payload" phase.
LEMMA Posts ==
    ASSUME TypeOK, [Next]_vars, NEW t \in Conns, task[t] # "posting", task'[t] = "posting"
    PROVE  task[t] = "payload" /\ UNCHANGED <<pc, idleTime>>
<1>1. ASSUME NEW c \in Conns, Connect(c) PROVE FALSE
  BY <1>1, ConnectEffects DEF ConnectEffect, Cancelled
<1>2. ASSUME NEW c \in Conns, Handler(c) \/ Disconnect(c) PROVE FALSE
  <2>1. CASE ClaimStep(c)
    BY <2>1, ClaimEffects DEF ClaimEffect, TypeOK
  <2>2. CASE ~ClaimStep(c)
    BY <1>2, <2>2, HandlerEffects DEF HandlerEffect
  <2> QED BY <2>1, <2>2
<1>3. ASSUME NEW d \in Conns, TaskStep(d)
      PROVE  task[t] = "payload" /\ UNCHANGED <<pc, idleTime>>
  <2>1. TaskEffect(d)
    BY <1>3, TaskEffects
  <2> QED BY <2>1 DEF TaskEffect, TypeOK
<1>4. ~(Tick \/ UNCHANGED vars) /\ \A c \in Conns : ~WebhookResent(c)
  BY DEF Tick, vars, WebhookResent
<1>5. \A i \in Instances : ~Crash(i)
  BY DEF Crash, TypeOK
<1> QED BY <1>1, <1>2, <1>3, <1>4, <1>5 DEF Next

\* No task starts to post while a connection is open: it was cancelled before, or it had
\* ended by the time the connection opened.
THEOREM NoPost == Spec => NoPostWhileConnected
<1> DEFINE Step ==
      Undisturbed({"overlap", "otherProcess", "slowUnwind"}) =>
         \A t \in Conns : task[t] # "posting" /\ task'[t] = "posting"
           => \A c \in Conns : pc[c] # "open"
<1>1. IInv /\ [Next]_vars => Step
  <2> SUFFICES ASSUME Structure, Tasks, [Next]_vars,
                      Undisturbed({"overlap", "otherProcess", "slowUnwind"}),
                      NEW t \in Conns, task[t] # "posting", task'[t] = "posting",
                      NEW c \in Conns, pc[c] = "open"
               PROVE  FALSE
    BY DEF IInv
  <2>1. Pending(t)
    BY Posts DEF Structure, Pending, Running
  <2> QED BY <2>1, NoneLeft DEF Connected
<1> QED BY <1>1, Invariance, PTL DEF Spec, NoPostWhileConnected

\* Nor before the session has been without a disconnect for the whole delay.
THEOREM PostsOnTime == Spec => OnTime
<1> DEFINE Step ==
      Undisturbed({"overlap", "otherProcess", "slowUnwind"}) =>
         \A t \in Conns : task[t] # "posting" /\ task'[t] = "posting"
           => idleTime = RecoveryDelay
<1>1. IInv /\ [Next]_vars => Step
  <2> SUFFICES ASSUME Structure, Outcome, [Next]_vars,
                      Undisturbed({"overlap", "otherProcess", "slowUnwind"}),
                      NEW t \in Conns, task[t] # "posting", task'[t] = "posting"
               PROVE  idleTime = RecoveryDelay
    BY DEF IInv
  <2>1. task[t] \in Running \ {"sleeping"}
    BY Posts DEF Structure, Running
  <2> QED BY <2>1 DEF Outcome, DelayKept
<1> QED BY <1>1, Invariance, PTL DEF Spec, OnTime
=============================================================================
