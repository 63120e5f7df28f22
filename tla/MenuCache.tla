----------------------------- MODULE MenuCache ------------------------------
(***************************************************************************)
(* The menu of one restaurant in two levels of cache                       *)
(* (LaravelMenuContextProvider and the menu methods of RedisClient): each  *)
(* process keeps it in memory, Redis keeps it for all of them, the backend *)
(* owns it.  A call (get_menu_context, invalidate_cache, warm_cache) lets  *)
(* other calls run at each of its awaits; a command of Redis is executed   *)
(* before its answer arrives, and any of them may fail.                    *)
(*                                                                         *)
(* The version key, which saving sets to 1, and the version within the     *)
(* entry are never compared with anything and are left out.                *)
(*                                                                         *)
(* Menus are numbered in the order in which the backend publishes them;    *)
(* the mock menu is older than all of them.  Time is in ticks.             *)
(***************************************************************************)
EXTENDS Integers

CONSTANTS
    Procs,          \* processes of the service
    Calls,          \* calls that may be running at the same time
    TTL,            \* DEFAULT_MENU_CACHE_TTL_SECONDS
    MaxDelay,       \* bound: ticks a call may take from its start to its end
    MaxMenu,        \* bound: menus the backend publishes
    MaxFailures,    \* bound: fetches that fail
    None            \* no entry, no call, no answer

ASSUME MenuAssumption ==
    /\ TTL \in Nat \ {0} /\ MaxDelay \in Nat
    /\ MaxMenu \in Nat \ {0} /\ MaxFailures \in Nat
    /\ None \notin 0..MaxMenu

VARIABLES
    cache,          \* _cache and _cache_timestamps of each process: menu and age
    redisMenu,      \* Redis: the menu and the time it has left to live
    call,           \* the calls that are running
    menu,           \* the backend's current menu
    failures,       \* fetches that failed
    superseded,     \* history: ticks since each earlier menu was replaced
    warmed,         \* history: menus that warm_cache saved when they were no longer
                    \* the backend's
    floor,          \* history: the menu at the last invalidation that left no
                    \* older menu in reach of the process; 1 if there is none
    answer          \* history: what get_menu_context returned last

backend == <<menu, failures, superseded>>
history == <<warmed, floor, answer>>
vars == <<cache, redisMenu, call, backend, history>>

Mock == 0
Menus == Mock..MaxMenu

\* A menu is cached when its fetch is answered, saved in Redis before that call ends,
\* loaded from there before it expires, and kept in memory from the answer on.
Bound == 2 * TTL + 2 * MaxDelay

Steps == {"check", "load", "loaded", "fetch", "fetched", "save", "warm", "delete"}

Running == [op : {"get", "warm", "invalidate"}, proc : Procs, at : Steps,
            menu : Menus \cup {None}, time : 0..MaxDelay, alone : BOOLEAN]

\* Types and bounds: entries do not outlive their time, and no call its bound.
TypeOK ==
    /\ cache \in [Procs -> [menu : Menus, age : 0..TTL] \cup {None}]
    /\ redisMenu \in [menu : Menus, ttl : 1..TTL] \cup {None}
    /\ call \in [Calls -> Running \cup {None}]
    /\ menu \in Menus /\ failures \in 0..MaxFailures
    /\ superseded \in [1..(menu - 1) -> 0..(Bound + 1)]
    /\ warmed \subseteq Menus
    /\ floor \in [Procs -> 1..menu]
    /\ answer \in [Calls -> Menus \cup {None}]

Init ==
    /\ cache = [p \in Procs |-> None]
    /\ redisMenu = None
    /\ call = [c \in Calls |-> None]
    /\ menu = 1 /\ failures = 0 /\ superseded = [v \in {} |-> 0]
    /\ warmed = {} /\ floor = [p \in Procs |-> 1]
    /\ answer = [c \in Calls |-> None]

-----------------------------------------------------------------------------
At(c, step) == call[c] # None /\ call[c].at = step
Proc(c) == call[c].proc
Go(c, step) == call' = [call EXCEPT ![c].at = step]
Carry(c, v, step) == call' = [call EXCEPT ![c].menu = v, ![c].at = step]
End(c) == call' = [call EXCEPT ![c] = None]

\* Mutant of MemoryValid: an entry is still good when its time is just over.
MemoryValidTooLong(p) == cache[p] # None /\ cache[p].age <= TTL

\* _is_memory_cache_valid
MemoryValid(p) == cache[p] # None /\ cache[p].age < TTL

Remember(p, v) == cache' = [cache EXCEPT ![p] = [menu |-> v, age |-> 0]]

\* get_menu_context returns v, to its caller or to warm_cache.
Return(c, v) ==
    \/ /\ call[c].op = "get"
       /\ End(c)
       /\ answer' = [answer EXCEPT ![c] = v]
    \/ /\ call[c].op = "warm"
       /\ Carry(c, v, "warm")
       /\ UNCHANGED answer

\* A call of the provider of process p.  History: "alone" tells the invalidations
\* during which the process made no other call.
Begin(c, p, op, step) ==
    LET others == {d \in Calls \ {c} : call[d] # None /\ call[d].proc = p} IN
    /\ call[c] = None
    /\ call' = [d \in Calls |->
          IF d = c
          THEN [op |-> op, proc |-> p, at |-> step, menu |-> None, time |-> 0,
                alone |-> op = "invalidate" /\ others = {}]
          ELSE IF d \in others THEN [call[d] EXCEPT !.alone = FALSE] ELSE call[d]]
    /\ answer' = [answer EXCEPT ![c] = None]
    /\ UNCHANGED <<redisMenu, backend, warmed, floor>>

Get(c, p) == Begin(c, p, "get", "check") /\ UNCHANGED cache
Warm(c, p) == Begin(c, p, "warm", "check") /\ UNCHANGED cache

\* Mutant of Invalidate: the process keeps what it has in memory.
InvalidateRedisOnly(c, p) == Begin(c, p, "invalidate", "delete") /\ UNCHANGED cache

\* The memory is emptied at once, Redis in a later step.  clear_all_cache does this for
\* each restaurant that the process has in memory, and for no other.
Invalidate(c, p) ==
    /\ Begin(c, p, "invalidate", "delete")
    /\ cache' = [cache EXCEPT ![p] = None]

Hit(c) ==
    /\ At(c, "check")
    /\ IF MemoryValid(Proc(c))
       THEN Return(c, cache[Proc(c)].menu)
       ELSE Go(c, "load") /\ UNCHANGED answer
    /\ UNCHANGED <<cache, redisMenu, backend, warmed, floor>>

\* load_menu_cache: Redis answers with what it has now ...
Load(c) ==
    /\ At(c, "load")
    /\ Carry(c, IF redisMenu = None THEN None ELSE redisMenu.menu, "loaded")
    /\ UNCHANGED <<cache, redisMenu, backend, history>>

\* ... and when the answer arrives it is remembered, with an age of its own.
Loaded(c) ==
    /\ At(c, "loaded")
    /\ IF call[c].menu = None
       THEN Go(c, "fetch") /\ UNCHANGED <<cache, answer>>
       ELSE Remember(Proc(c), call[c].menu) /\ Return(c, call[c].menu)
    /\ UNCHANGED <<redisMenu, backend, warmed, floor>>

LoadFails(c) ==
    /\ At(c, "load")
    /\ Go(c, "fetch")
    /\ UNCHANGED <<cache, redisMenu, backend, history>>

Fetch(c) ==
    /\ At(c, "fetch")
    /\ Carry(c, menu, "fetched")
    /\ UNCHANGED <<cache, redisMenu, backend, history>>

Fetched(c) ==
    /\ At(c, "fetched")
    /\ Remember(Proc(c), call[c].menu)
    /\ Go(c, "save")
    /\ UNCHANGED <<redisMenu, backend, history>>

\* The request fails in spite of its retries: the mock menu, which is not cached.
FetchFails(c) ==
    /\ At(c, "fetch")
    /\ failures < MaxFailures
    /\ failures' = failures + 1
    /\ Return(c, Mock)
    /\ UNCHANGED <<cache, redisMenu, menu, superseded, warmed, floor>>

\* Mutant of Save: the entry gets a time to live of its own.
SaveOtherTTL(c) ==
    /\ At(c, "save")
    /\ redisMenu' = [menu |-> call[c].menu, ttl |-> TTL + 1]
    /\ Return(c, call[c].menu)
    /\ UNCHANGED <<cache, backend, warmed, floor>>

\* save_menu_cache of the fetched menu.
Save(c) ==
    /\ At(c, "save")
    /\ redisMenu' = [menu |-> call[c].menu, ttl |-> TTL]
    /\ Return(c, call[c].menu)
    /\ UNCHANGED <<cache, backend, warmed, floor>>

\* It fails, which is only logged, or its answer is lost and it is sent again.
SaveFails(c) ==
    /\ At(c, "save")
    /\ \/ Return(c, call[c].menu) /\ UNCHANGED redisMenu
       \/ redisMenu' = [menu |-> call[c].menu, ttl |-> TTL] /\ UNCHANGED <<call, answer>>
    /\ UNCHANGED <<cache, backend, warmed, floor>>

\* warm_menu_cache: the same, with whatever menu get_menu_context has returned.
SaveWarm(c) ==
    /\ At(c, "warm")
    /\ redisMenu' = [menu |-> call[c].menu, ttl |-> TTL]
    /\ End(c) \/ UNCHANGED call
    /\ warmed' = IF call[c].menu = menu THEN warmed ELSE warmed \cup {call[c].menu}
    /\ floor' = [p \in Procs |-> IF call[c].menu < floor[p] THEN 1 ELSE floor[p]]
    /\ UNCHANGED <<cache, backend, answer>>

\* Nobody but c will put a menu older than the backend's into a cache.
Clean(c) ==
    /\ call[c].alone
    /\ \A d \in Calls \ {c} :
          call[d] # None => call[d].menu = None \/ call[d].menu = menu

\* invalidate_menu_cache
Delete(c) ==
    /\ At(c, "delete")
    /\ redisMenu' = None
    /\ \/ End(c) /\ floor' = IF Clean(c) THEN [floor EXCEPT ![Proc(c)] = menu] ELSE floor
       \/ UNCHANGED <<call, floor>>
    /\ UNCHANGED <<cache, backend, warmed, answer>>

\* Warming or invalidating fails without effect; this, too, is only logged.
GiveUp(c) ==
    /\ At(c, "warm") \/ At(c, "delete")
    /\ End(c)
    /\ UNCHANGED <<cache, redisMenu, backend, history>>

\* A process restarts: its memory and its calls are gone.
Restart(p) ==
    /\ cache[p] # None \/ \E c \in Calls : call[c] # None /\ call[c].proc = p
    /\ cache' = [cache EXCEPT ![p] = None]
    /\ call' = [c \in Calls |->
                   IF call[c] # None /\ call[c].proc = p THEN None ELSE call[c]]
    /\ UNCHANGED <<redisMenu, backend, history>>

-----------------------------------------------------------------------------
Publish ==
    /\ menu < MaxMenu
    /\ menu' = menu + 1
    /\ superseded' = [v \in 1..menu |-> IF v = menu THEN 0 ELSE superseded[v]]
    /\ UNCHANGED <<cache, redisMenu, call, failures, history>>

\* Entries age and expire; no call outlasts its bound.
Tick ==
    /\ \A c \in Calls : call[c] # None => call[c].time < MaxDelay
    /\ call' = [c \in Calls |->
                   IF call[c] = None THEN None ELSE [call[c] EXCEPT !.time = @ + 1]]
    /\ cache' = [p \in Procs |->
                    IF cache[p] = None \/ cache[p].age = TTL THEN cache[p]
                    ELSE [cache[p] EXCEPT !.age = @ + 1]]
    /\ redisMenu' = IF redisMenu = None \/ redisMenu.ttl = 1 THEN None
                    ELSE [redisMenu EXCEPT !.ttl = @ - 1]
    /\ superseded' = [v \in DOMAIN superseded |->
                         IF superseded[v] <= Bound THEN superseded[v] + 1 ELSE superseded[v]]
    /\ UNCHANGED <<menu, failures, history>>

Step(c) ==
    \/ Hit(c) \/ Load(c) \/ Loaded(c) \/ LoadFails(c)
    \/ Fetch(c) \/ Fetched(c) \/ FetchFails(c)
    \/ Save(c) \/ SaveFails(c) \/ SaveWarm(c) \/ Delete(c) \/ GiveUp(c)

Next ==
    \/ \E c \in Calls : Step(c)
    \/ \E c \in Calls, p \in Procs :
          Get(c, p) \/ Warm(c, p) \/ Invalidate(c, p)
    \/ \E p \in Procs : Restart(p)
    \/ Publish \/ Tick

Spec == Init /\ [][Next]_vars

-----------------------------------------------------------------------------
Register == INSTANCE MenuRegister WITH
    Readers <- Calls, NoAnswer <- None, pinned <- warmed

\* The two levels of cache, with every race between fetches, loads, invalidations and
\* restarts, are a register that lags at most twice the time to live and two calls
\* behind the backend.  Only what warm_cache saved may be returned for longer.
RegisterSpec == Register!Spec

Answered(c) == answer'[c] # None /\ answer[c] = None

\* After an invalidation during which its process made no other call, and at whose
\* deletion no other process was about to answer with an older menu, the process never
\* again returns a menu of the backend that is older than the one of that moment, until a
\* warm_cache (of a process that still remembers it) saves an older one.
InvalidationTakesEffect ==
    [][\A c \in Calls : Answered(c) => answer'[c] = Mock \/ answer'[c] >= floor[Proc(c)]]_vars
=============================================================================
