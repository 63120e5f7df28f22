---------------------------- MODULE RateLimiter ----------------------------
(***************************************************************************)
(* One key of the sliding-window rate limiter                              *)
(* (app/websocket/rate_limiter.py, _check_limit): the clients that check   *)
(* it run ZREMRANGEBYSCORE, ZCARD, ZADD and EXPIRE as four separate        *)
(* commands, with the commands of the others in between.  The key of an IP *)
(* address or a session has many clients; the key of a WebSocket has one,  *)
(* the receive loop of its connection.                                     *)
(***************************************************************************)
EXTENDS Naturals, FiniteSets

CONSTANTS
    Clients,
    MaxRequests,
    Window,       \* window_seconds
    MaxStall,     \* longest time from reading the clock to the last command
    MaxNow        \* bound: the clock stops here

ASSUME LimitsAssumption ==
    /\ IsFiniteSet(Clients)
    /\ MaxRequests \in Nat \ {0} /\ Window \in Nat \ {0}
    /\ MaxNow \in Nat /\ Window <= MaxNow
    /\ MaxStall \in Nat \ {0}

VARIABLES
    now,       \* the clock, ahead of every stamp by Window to keep them positive
    entries,   \* the sorted set: member and score are both the time stamp
    deadline,  \* when the key expires; 0 if it has no time to live
    pc,        \* the command each client sends next
    stamp,     \* its value of `now'
    granted,   \* history: the stamps of the requests granted since the last
               \* reset, by client
    happened   \* history: "overlap" if two clients were checking at once,
               \* "expiry" if the key expired, or was reset, between a ZADD
               \* and its EXPIRE, "late" if it expired between the reading of
               \* the clock and ZCARD

vars == <<now, entries, deadline, pc, stamp, granted, happened>>

Instants == Window..MaxNow

\* Types and bounds: the key lives for at most one window after the last EXPIRE.
TypeOK ==
    /\ now \in Instants
    /\ entries \subseteq Instants
    /\ deadline \in 0..(MaxNow + Window)
    /\ pc \in [Clients -> {"idle", "trim", "count", "add", "expire"}]
    /\ stamp \in [Clients -> Instants]
    /\ granted \subseteq Clients \X Instants
    /\ happened \subseteq {"overlap", "expiry", "late"}

Init ==
    /\ now = Window
    /\ entries = {}
    /\ deadline = 0
    /\ pc = [c \in Clients |-> "idle"]
    /\ stamp = [c \in Clients |-> Window]
    /\ granted = {}
    /\ happened = {}

\* Time passes, up to MaxStall during a check.
Advance ==
    /\ now < MaxNow
    /\ now' = now + 1
    /\ \A c \in Clients : pc[c] # "idle" => now' - stamp[c] <= MaxStall

Expired == deadline # 0 /\ now' > deadline

\* Redis drops the whole key when it is past its deadline.
DropExpired ==
    /\ entries' = IF Expired THEN {} ELSE entries
    /\ deadline' = IF Expired THEN 0 ELSE deadline

Race == IF \E c \in Clients : pc[c] = "expire" THEN {"expiry"} ELSE {}
Late == IF \E c \in Clients : pc[c] \in {"trim", "count"} THEN {"late"} ELSE {}
Lost == IF Expired THEN Race \cup Late ELSE {}
Overlap(c) == IF \E d \in Clients \ {c} : pc[d] # "idle" THEN {"overlap"} ELSE {}

Go(c, step) == pc' = [pc EXCEPT ![c] = step]

\* time.time().  The member of a request in the sorted set is nothing but its time
\* stamp; the clock is fine enough that no two clients read the same one.
Check(c) ==
    /\ pc[c] = "idle"
    /\ Go(c, "trim")
    /\ stamp' = [stamp EXCEPT ![c] = now]
    /\ Advance
    /\ DropExpired
    /\ happened' = happened \cup Lost \cup Overlap(c)
    /\ UNCHANGED granted

\* Mutant of Trim: the window starts one tick late.
TrimEarly(c) ==
    /\ pc[c] = "trim"
    /\ Go(c, "count")
    /\ entries' = {e \in entries : e > stamp[c] - Window + 1}
    /\ deadline' = IF entries' = {} THEN 0 ELSE deadline
    /\ UNCHANGED <<now, stamp, granted, happened>>

\* ZREMRANGEBYSCORE key 0 now - window: the bound itself is removed, and Redis
\* deletes an empty set together with its time to live.
Trim(c) ==
    /\ pc[c] = "trim"
    /\ Go(c, "count")
    /\ entries' = {e \in entries : e > stamp[c] - Window}
    /\ deadline' = IF entries' = {} THEN 0 ELSE deadline
    /\ UNCHANGED <<now, stamp, granted, happened>>

\* Mutant of Count: off by one.
CountLate(c) ==
    /\ pc[c] = "count"
    /\ Go(c, IF Cardinality(entries) > MaxRequests THEN "idle" ELSE "add")
    /\ UNCHANGED <<now, entries, deadline, stamp, granted, happened>>

\* ZCARD.  A rejected check only reads the oldest entry and returns.
Count(c) ==
    /\ pc[c] = "count"
    /\ Go(c, IF Cardinality(entries) >= MaxRequests THEN "idle" ELSE "add")
    /\ UNCHANGED <<now, entries, deadline, stamp, granted, happened>>

\* ZADD key {now: now}
Add(c) ==
    /\ pc[c] = "add"
    /\ Go(c, "expire")
    /\ entries' = entries \cup {stamp[c]}
    /\ UNCHANGED <<now, deadline, stamp, granted, happened>>

\* Mutant of Expire: the deadline is extended instead of set.
ExpireAccumulates(c) ==
    /\ pc[c] = "expire"
    /\ Go(c, "idle")
    /\ deadline' = deadline + now + Window
    /\ granted' = granted \cup {<<c, stamp[c]>>}
    /\ UNCHANGED <<now, entries, stamp, happened>>

\* EXPIRE key window, which does nothing to a key that is gone.  The request is granted.
Expire(c) ==
    /\ pc[c] = "expire"
    /\ Go(c, "idle")
    /\ deadline' = IF entries = {} THEN 0 ELSE now + Window
    /\ granted' = granted \cup {<<c, stamp[c]>>}
    /\ UNCHANGED <<now, entries, stamp, happened>>

\* A command raises: nothing in _check_limit catches it, so the request ends
\* unanswered, and what the commands before it did stays done.
Fail(c) ==
    /\ pc[c] # "idle"
    /\ Go(c, "idle")
    /\ UNCHANGED <<now, entries, deadline, stamp, granted, happened>>

\* An administrator deletes the key (reset_ip_limit, reset_session_limit,
\* reset_websocket_limit), also in the middle of a check: the limit starts afresh.
Reset ==
    /\ entries # {}
    /\ entries' = {} /\ deadline' = 0
    /\ granted' = {}
    /\ happened' = happened \cup Race
    /\ UNCHANGED <<now, pc, stamp>>

Tick ==
    /\ Advance
    /\ DropExpired
    /\ happened' = happened \cup Lost
    /\ UNCHANGED <<pc, stamp, granted>>

Next ==
    \/ \E c \in Clients : Check(c) \/ Trim(c) \/ Count(c) \/ Add(c) \/ Expire(c) \/ Fail(c)
    \/ Reset
    \/ Tick

Spec == Init /\ [][Next]_vars

-----------------------------------------------------------------------------
\* The requests granted in the `length' ticks that end at instant t.
Granted(t, length) == {g \in granted : g[2] <= t /\ g[2] > t - length}

\* No window holds more than the "Maximum requests allowed in window" (docstring
\* of _check_limit), if no two clients checked at once, no key expired before a check
\* that had begun earlier could count it, and the key was never gone before it was given
\* its new time to live.  A reset forgets what was granted before.
LimitRespected ==
    happened = {} =>
        \A t \in Instants : Cardinality(Granted(t, Window)) <= MaxRequests

\* Clients that check concurrently overshoot the limit by one request each, no
\* more, however their commands interleave.  The period is shorter than the
\* window by the time a check may take.
OvershootBounded ==
    "expiry" \notin happened =>
        \A t \in Instants :
            Cardinality(Granted(t, Window - MaxStall))
                <= MaxRequests + Cardinality(Clients) - 1
=============================================================================
