----------------------------- MODULE RedisLock ------------------------------
(***************************************************************************)
(* The distributed lock of RedisClient, for one lock key: acquire_lock,    *)
(* release_lock, extend_lock and the task that extends a lock in the       *)
(* background, with connect and disconnect around them.  Users of the lock *)
(* are tasks of several processes; each process has one RedisClient.       *)
(*                                                                         *)
(* Code between two awaits is one action.  A user's command is executed by *)
(* Redis in one step and answered in another; a task that was cancelled    *)
(* unwinds in a step of its own.  Time is in ticks of the Redis server.    *)
(***************************************************************************)
EXTENDS Naturals

CONSTANTS
    Procs,      \* processes of the service
    Users,      \* tasks that use the lock
    Tokens,     \* lock values (UUIDs); bound: locks that exist or are remembered at once
    TTL,        \* ttl_seconds, the same for all locks of the key
    Extensions, \* extra_ttl that users pass to extend_lock
    MaxRetries, \* REDIS_MAX_RETRIES
    Faults,     \* what may go wrong: a late event loop, Redis, a closed client, a crash
    None

ASSUME LockAssumption ==
    /\ TTL \in Nat /\ TTL > 1
    /\ Extensions \subseteq Nat \ {0}
    /\ MaxRetries \in Nat \ {0}
    /\ Faults \subseteq {"stall", "redis", "close", "crash"}

VARIABLES
    lock,       \* Redis: the key's value and its time to live
    user,       \* the users that are acquiring, holding or releasing
    loop,       \* by token: the task that extends this lock
    table,      \* _lock_extension_tasks of each process: the token of the task
    client,     \* whether _client is set
    closed,     \* _closed
    happened    \* history: "disturbed", a stall, a failure of Redis, a closed client, a
                \* release that cancelled the extension of a lock it did not own, or a
                \* user's extension that ends before its lock's extension loop wakes;
                \* "runaway", a release that failed and left its lock's extension running

tasks == <<user, loop, table>>
connection == <<client, closed>>
vars == <<lock, tasks, connection, happened>>

\* Mutant of HalfTTL: the lock is extended when its time is up.
WholeTTL == TTL

\* The loop sleeps for half of the time to live, whatever REDIS_LOCK_AUTO_EXTEND_AT is.
HalfTTL == TTL \div 2

\* The value of the key, what a user is doing with its lock, and a loop that extends one.
Locks == {l \in [value : Tokens, ttl : Nat] :
             l.ttl > 0 /\ \E most \in Extensions \cup {TTL} : l.ttl <= most}
Uses == [proc : Procs, at : {"set", "won", "held", "release"}, value : Tokens,
         auto : BOOLEAN, tries : 1..MaxRetries]
Loops == [proc : Procs, at : {"fresh", "asleep", "cancelled"}, left : 0..HalfTTL]

\* None is the absence of all of them, and no token.
ASSUME NoneAssumption ==
    None \notin Tokens /\ None \notin Locks /\ None \notin Uses /\ None \notin Loops

\* Types and bounds.
TypeOK ==
    /\ lock \in Locks \cup {None}
    /\ user \in [Users -> Uses \cup {None}]
    /\ loop \in [Tokens -> Loops \cup {None}]
    /\ table \in [Procs -> Tokens \cup {None}]
    /\ client \in [Procs -> BOOLEAN] /\ closed \in [Procs -> BOOLEAN]
    /\ happened \subseteq {"disturbed", "runaway"}

Init ==
    /\ lock = None
    /\ user = [u \in Users |-> None]
    /\ loop = [v \in Tokens |-> None]
    /\ table = [p \in Procs |-> None]
    /\ client = [p \in Procs |-> FALSE] /\ closed = [p \in Procs |-> FALSE]
    /\ happened = {}

-----------------------------------------------------------------------------
At(u, step) == user[u] # None /\ user[u].at = step
Proc(u) == user[u].proc
Token(u) == user[u].value
Go(u, step) == user' = [user EXCEPT ![u].at = step]
Stop(u) == user' = [user EXCEPT ![u] = None]

Owns(v) == lock # None /\ lock.value = v
Locked(v) == [value |-> v, ttl |-> TTL]

\* A fault that may take the lock from a user that extends it.
Happens(fault) == fault \in Faults /\ happened' = happened \cup {"disturbed"}

\* _ensure_client does not raise.
Usable(p) == client[p] /\ ~closed[p]

\* The loops after the one of token v is cancelled.  One that has not run yet ends at
\* once, without its finally clause; the others have yet to unwind.
Cancelled(v) ==
    [loop EXCEPT ![v] = IF @ = None \/ @.at = "fresh" THEN None ELSE [@ EXCEPT !.at = "cancelled"]]

\* The lock of token v is given up while its extension goes on.
Runaway(v) == IF loop[v] = None \/ loop[v].at = "cancelled" THEN {} ELSE {"runaway"}

Unused(v) ==
    /\ ~Owns(v) /\ loop[v] = None
    /\ \A u \in Users : user[u] # None => user[u].value # v

\* connect: nothing if there is a client already, else a client and a ping.
Connect(p) ==
    /\ ~client[p]
    /\ client' = [client EXCEPT ![p] = TRUE]
    /\ closed' = [closed EXCEPT ![p] = FALSE]
    /\ UNCHANGED <<lock, tasks, happened>>

\* The ping fails and the client stays.
ConnectFails(p) ==
    /\ ~client[p]
    /\ Happens("redis")
    /\ client' = [client EXCEPT ![p] = TRUE]
    /\ UNCHANGED <<lock, tasks, closed>>

Disconnect(p) ==
    /\ client[p]
    /\ Happens("close")
    /\ closed' = [closed EXCEPT ![p] = TRUE]
    /\ client' = [client EXCEPT ![p] = FALSE]
    /\ loop' = IF table[p] = None THEN loop ELSE Cancelled(table[p])
    /\ table' = [table EXCEPT ![p] = None]
    /\ UNCHANGED <<lock, user>>

-----------------------------------------------------------------------------
\* acquire_lock sends SET NX EX with a new value.
Acquire(u, p) ==
    /\ user[u] = None
    /\ Usable(p)
    /\ \E v \in Tokens, auto \in BOOLEAN :
          /\ Unused(v)
          /\ user' = [user EXCEPT ![u] = [proc |-> p, at |-> "set", value |-> v,
                                          auto |-> auto, tries |-> 1]]
    /\ UNCHANGED <<lock, loop, table, connection, happened>>

\* Mutant of RetriesLeft: one attempt too many.
RetriesLeftOffByOne(u) == user[u].tries <= MaxRetries

\* _retry_async
RetriesLeft(u) == user[u].tries < MaxRetries

Set(u) ==
    /\ At(u, "set")
    /\ IF lock = None
       THEN lock' = Locked(Token(u)) /\ Go(u, "won")
       ELSE Stop(u) /\ UNCHANGED lock
    /\ UNCHANGED <<loop, table, connection, happened>>

\* The command fails, or is executed and its answer is lost.  It is sent again, and
\* then finds its own value, or acquire_lock raises.
SetFails(u) ==
    /\ At(u, "set")
    /\ Happens("redis")
    /\ \/ lock = None /\ lock' = Locked(Token(u))
       \/ UNCHANGED lock
    /\ \/ RetriesLeft(u) /\ user' = [user EXCEPT ![u].tries = @ + 1]
       \/ Stop(u)
    /\ UNCHANGED <<loop, table, connection>>

\* acquire_lock returns True, and starts the extension if it was asked to: the loop of
\* an earlier lock is cancelled and replaced in the table.
Won(u) ==
    /\ At(u, "won")
    /\ Go(u, "held")
    /\ LET old == table[Proc(u)] IN
       IF user[u].auto
       THEN /\ loop' = [IF old = None THEN loop ELSE Cancelled(old) EXCEPT
                           ![Token(u)] = [proc |-> Proc(u), at |-> "fresh", left |-> HalfTTL]]
            /\ table' = [table EXCEPT ![Proc(u)] = Token(u)]
       ELSE UNCHANGED <<loop, table>>
    /\ UNCHANGED <<lock, connection, happened>>

\* extend_lock, called by a user with a time of its own: EXPIRE sets it as the key's time
\* to live, whether that is more or less than before.
Extend(u) ==
    /\ At(u, "held")
    /\ Usable(Proc(u))
    /\ Owns(Token(u))
    /\ \E extra \in Extensions :
          /\ lock' = [lock EXCEPT !.ttl = extra]
          /\ happened' = happened \cup
                 (IF loop[Token(u)] # None /\ extra <= loop[Token(u)].left
                  THEN {"disturbed"} ELSE {})
    /\ UNCHANGED <<tasks, connection>>

\* release_lock first takes whatever extension the table has for the key and cancels it;
\* then it sends the script, if there is a client to send it with.
Release(u) ==
    LET p == Proc(u) IN
    /\ At(u, "held")
    /\ table' = [table EXCEPT ![p] = None]
    /\ loop' = IF table[p] = None THEN loop ELSE Cancelled(table[p])
    /\ IF Usable(p) THEN Go(u, "release") ELSE Stop(u)
    /\ happened' = happened
          \cup (IF table[p] \notin {None, Token(u)} THEN {"disturbed"} ELSE {})
          \cup (IF Usable(p) \/ table[p] = Token(u) THEN {} ELSE Runaway(Token(u)))
    /\ UNCHANGED <<lock, connection>>

\* Mutant of Delete: the value is not compared.
DeleteAny(u) ==
    /\ At(u, "release")
    /\ lock' = None
    /\ Stop(u)
    /\ UNCHANGED <<loop, table, connection, happened>>

\* LUA_RELEASE_LOCK deletes the key if it has the user's value.
Delete(u) ==
    /\ At(u, "release")
    /\ lock' = IF Owns(Token(u)) THEN None ELSE lock
    /\ Stop(u)
    /\ UNCHANGED <<loop, table, connection, happened>>

\* The script is not executed, and release_lock raises.
DeleteFails(u) ==
    /\ At(u, "release")
    /\ "redis" \in Faults
    /\ happened' = happened \cup {"disturbed"} \cup Runaway(Token(u))
    /\ Stop(u)
    /\ UNCHANGED <<lock, loop, table, connection>>

-----------------------------------------------------------------------------
\* A loop ends, and its finally clause takes whatever entry the table has for the key.
EndLoop(v) ==
    /\ loop' = [loop EXCEPT ![v] = None]
    /\ table' = [table EXCEPT ![loop[v].proc] = None]

Looping(v, step) == loop[v] # None /\ loop[v].at = step

Sleep(v) ==
    loop' = [loop EXCEPT ![v] = [proc |-> loop[v].proc, at |-> "asleep", left |-> HalfTTL]]

\* The first step of the loop.
StartLoop(v) ==
    /\ Looping(v, "fresh")
    /\ IF closed[loop[v].proc] THEN EndLoop(v) ELSE Sleep(v) /\ UNCHANGED table
    /\ UNCHANGED <<lock, user, connection, happened>>

\* Mutant of ExtendLoop: the value is not compared.
ExtendLoopAny(v) ==
    /\ Looping(v, "asleep") /\ loop[v].left = 0
    /\ IF Usable(loop[v].proc) /\ lock # None
       THEN lock' = Locked(lock.value) /\ Sleep(v) /\ UNCHANGED table
       ELSE EndLoop(v) /\ UNCHANGED lock
    /\ UNCHANGED <<user, connection, happened>>

\* It wakes and extends the lock, if it still is the lock's value.  A client that is
\* closed or missing ends the loop.
ExtendLoop(v) ==
    /\ Looping(v, "asleep") /\ loop[v].left = 0
    /\ IF Usable(loop[v].proc) /\ Owns(v)
       THEN lock' = Locked(v) /\ Sleep(v) /\ UNCHANGED table
       ELSE EndLoop(v) /\ UNCHANGED lock
    /\ UNCHANGED <<user, connection, happened>>

\* Any exception ends the loop, whether the script was executed or not.
ExtendFails(v) ==
    /\ Looping(v, "asleep") /\ loop[v].left = 0
    /\ Happens("redis")
    /\ \/ Owns(v) /\ lock' = Locked(v)
       \/ UNCHANGED lock
    /\ EndLoop(v)
    /\ UNCHANGED <<user, connection>>

Unwind(v) ==
    /\ Looping(v, "cancelled")
    /\ EndLoop(v)
    /\ UNCHANGED <<lock, user, connection, happened>>

\* A process ends without notice, and starts again.
Crash(p) ==
    /\ "crash" \in Faults
    /\ user' = [u \in Users |-> IF user[u] # None /\ Proc(u) = p THEN None ELSE user[u]]
    /\ loop' = [v \in Tokens |-> IF loop[v] # None /\ loop[v].proc = p THEN None ELSE loop[v]]
    /\ table' = [table EXCEPT ![p] = None]
    /\ client' = [client EXCEPT ![p] = FALSE] /\ closed' = [closed EXCEPT ![p] = FALSE]
    /\ UNCHANGED <<lock, happened>>

\* What the event loop should do before the next tick.
Due ==
    \/ \E v \in Tokens : loop[v] # None /\ (loop[v].at = "asleep" => loop[v].left = 0)
    \/ \E u \in Users : At(u, "won")

\* Time passes, and the lock expires; a stall is a tick that comes before what was due.
Tick ==
    /\ \/ lock # None
       \/ \E v \in Tokens : Looping(v, "asleep") /\ loop[v].left > 0
    /\ IF Due THEN Happens("stall") ELSE UNCHANGED happened
    /\ lock' = IF lock = None \/ lock.ttl = 1 THEN None ELSE [lock EXCEPT !.ttl = @ - 1]
    /\ loop' = [v \in Tokens |->
                   IF Looping(v, "asleep") /\ loop[v].left > 0
                   THEN [loop[v] EXCEPT !.left = @ - 1] ELSE loop[v]]
    /\ UNCHANGED <<user, table, connection>>

LoopStep(v) == StartLoop(v) \/ ExtendLoop(v) \/ ExtendFails(v) \/ Unwind(v)
UserStep(u) == Set(u) \/ SetFails(u) \/ Won(u) \/ Delete(u) \/ DeleteFails(u)

Next ==
    \/ \E p \in Procs : Connect(p) \/ ConnectFails(p) \/ Disconnect(p) \/ Crash(p)
    \/ \E u \in Users : UserStep(u) \/ Extend(u) \/ Release(u) \/ \E p \in Procs : Acquire(u, p)
    \/ \E v \in Tokens : LoopStep(v)
    \/ Tick

Spec == Init /\ [][Next]_vars

\* The event loop resumes every task whose await is over, Redis answers or fails, and
\* time passes.  Nobody has to acquire, extend or release a lock.
FairSpec ==
    /\ Spec
    /\ \A v \in Tokens : WF_vars(LoopStep(v))
    /\ \A u \in Users : WF_vars(UserStep(u))
    /\ WF_vars(Tick)

-----------------------------------------------------------------------------
\* A lock is taken from its owner by the owner's own release, or else it expires.
OnlyOwnerReleases ==
    [][lock # None /\ lock' # lock /\ (lock' = None \/ lock'.value # lock.value) =>
          \/ lock' = None /\ lock.ttl = 1
          \/ lock' = None /\ \E u \in Users : At(u, "release") /\ Token(u) = lock.value]_vars

\* A user that asked for extension owns the lock until it releases it, unless the event
\* loop stalled, Redis failed, the client was closed, its process released an earlier
\* lock of the same key late, or a user's extend_lock set a time to live that ends before
\* the extension loop wakes.
KeptWhileHeld ==
    "disturbed" \notin happened =>
        \A u \in Users : At(u, "held") /\ user[u].auto => Owns(Token(u))

Abandoned(v) == Owns(v) /\ \A u \in Users : user[u] # None => Token(u) # v

\* A lock that nobody uses any more, because its user crashed, its answer was lost or its
\* release failed, becomes free, unless an extension that is no longer in the table kept
\* running when the release failed.
LockFrees == \A v \in Tokens : Abandoned(v) ~> ~Abandoned(v) \/ "runaway" \in happened
=============================================================================
