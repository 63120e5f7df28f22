--------------------------- MODULE MenuCache_proofs --------------------------
(***************************************************************************)
(* Theorems about the two levels of menu cache, for any number of          *)
(* processes and calls: they implement the register MenuRegister, and an   *)
(* invalidation that nothing disturbs takes effect.                        *)
(***************************************************************************)
EXTENDS MenuCache, TLAPS

\* A menu that was superseded at most k ticks ago, or is pinned by warm_cache.
Fresh(v, k) ==
    \/ v = menu
    \/ v \in 1..(menu - 1) /\ superseded[v] <= k
    \/ v \in warmed

\* A menu of the backend so far, or the mock menu of a fetch that failed.
Known(v) == v \in 1..menu \/ (v = Mock /\ failures > 0)

\* How old each copy of the menu may be: one that was fetched, by the call that carries it,
\* one in Redis by that call's delay and the time it has spent there, one that was loaded
\* by another call's delay on top, and one in memory by the time it has spent there.
CallFresh(c) ==
    /\ At(c, "fetched") \/ At(c, "save") => Fresh(call[c].menu, call[c].time)
    /\ At(c, "loaded") /\ call[c].menu # None =>
           Fresh(call[c].menu, MaxDelay + TTL + call[c].time)
    /\ At(c, "warm") => Known(call[c].menu)

RedisFresh ==
    redisMenu # None => Fresh(redisMenu.menu, MaxDelay + TTL - redisMenu.ttl)

MemoryFresh(p) ==
    MemoryValid(p) => Fresh(cache[p].menu, 2 * MaxDelay + TTL + cache[p].age)

Freshness ==
    /\ \A c \in Calls : CallFresh(c)
    /\ RedisFresh
    /\ \A p \in Procs : MemoryFresh(p)

WarmedKnown == menu >= 1 /\ \A v \in warmed : Known(v)

\* What the process may answer with after its invalidation.
Current(p, v) == v = Mock \/ v >= floor[p]

\* No copy in reach of a process is older than its floor.
CallCurrent(p, c) ==
    /\ At(c, "fetched") \/ At(c, "save") => Current(p, call[c].menu)
    /\ At(c, "loaded") /\ call[c].menu # None /\ Proc(c) = p => Current(p, call[c].menu)

AboveFloor ==
    \A p \in Procs :
        /\ cache[p] # None => Current(p, cache[p].menu)
        /\ redisMenu # None => Current(p, redisMenu.menu)
        /\ \A c \in Calls : CallCurrent(p, c)

\* While an invalidation is the only call of its process, its memory stays empty.
Undisturbed ==
    \A c \in Calls : call[c] # None /\ call[c].alone =>
        /\ call[c].at = "delete"
        /\ cache[Proc(c)] = None
        /\ \A d \in Calls \ {c} : call[d] # None => Proc(d) # Proc(c)

IInv ==
    /\ TypeOK
    /\ Freshness /\ WarmedKnown
    /\ AboveFloor /\ Undisturbed

-----------------------------------------------------------------------------
\* What the assumptions say of the numbers.
LEMMA Numbers ==
    /\ TTL \in Nat \ {0} /\ MaxDelay \in Nat /\ MaxMenu \in Nat \ {0} /\ MaxFailures \in Nat
    /\ Mock = 0 /\ Bound \in Nat /\ Bound = 2 * TTL + 2 * MaxDelay
    /\ Menus = 0..MaxMenu /\ Menus \subseteq Nat /\ None \notin Menus
BY MenuAssumption DEF Mock, Menus, Bound

\* The effects of the ways in which a call goes on.
Moved(c, step, v) ==
    /\ call' \in [Calls -> Running \cup {None}]
    /\ \A d \in Calls : d # c => call'[d] = call[d]
    /\ call'[c].at = step /\ call'[c].menu = v
    /\ call'[c].op = call[c].op /\ call'[c].proc = call[c].proc
    /\ call'[c].time = call[c].time /\ call'[c].alone = call[c].alone

Ended(c) ==
    /\ call' \in [Calls -> Running \cup {None}]
    /\ \A d \in Calls : d # c => call'[d] = call[d]
    /\ call'[c] = None

\* A call that goes on keeps who makes it, what for, and how long it has run.
LEMMA GoFacts ==
    ASSUME TypeOK, NEW c \in Calls, call[c] # None, NEW step \in Steps
    PROVE  /\ call[c] \in Running
           /\ Go(c, step) => Moved(c, step, call[c].menu)
           /\ \A v \in Menus \cup {None} : Carry(c, v, step) => Moved(c, step, v)
           /\ End(c) => Ended(c)
<1>1. call[c] \in Running
  BY DEF TypeOK
<1>2. ASSUME NEW v \in Menus \cup {None}, NEW n,
             n = [call[c] EXCEPT !.menu = v, !.at = step], call' = [call EXCEPT ![c] = n]
      PROVE  Moved(c, step, v)
  <2>1. /\ n \in Running /\ n.at = step /\ n.menu = v /\ n.op = call[c].op
        /\ n.proc = call[c].proc /\ n.time = call[c].time /\ n.alone = call[c].alone
    BY <1>1, <1>2 DEF Running
  <2> QED BY <1>2, <2>1 DEF TypeOK, Moved
<1>3. ASSUME NEW v \in Menus \cup {None} PROVE Carry(c, v, step) => Moved(c, step, v)
  BY <1>2 DEF Carry
<1>5. Go(c, step) => Moved(c, step, call[c].menu)
  <2>1. call[c].menu \in Menus \cup {None}
    BY <1>1 DEF Running
  <2>2. [call[c] EXCEPT !.menu = call[c].menu, !.at = step] = [call[c] EXCEPT !.at = step]
    BY <1>1 DEF Running
  <2> QED BY <1>2, <2>1, <2>2 DEF Go
<1>4. End(c) => Ended(c)
  BY DEF TypeOK, End, Ended
<1> QED BY <1>1, <1>3, <1>4, <1>5

\* get_menu_context returns to its caller, or to warm_cache.
LEMMA ReturnFacts ==
    ASSUME TypeOK, NEW c \in Calls, call[c] # None, NEW v \in Menus, Return(c, v)
    PROVE  /\ answer' \in [Calls -> Menus \cup {None}]
           /\ \/ Ended(c) /\ answer' = [answer EXCEPT ![c] = v]
              \/ Moved(c, "warm", v) /\ answer' = answer
<1>1. "warm" \in Steps
  BY DEF Steps
<1>2. /\ End(c) => Ended(c)
      /\ Carry(c, v, "warm") => Moved(c, "warm", v)
  BY <1>1, GoFacts
<1> QED BY <1>2 DEF Return, TypeOK

\* A new call, and what it takes from the invalidations of its process.
LEMMA BeginFacts ==
    ASSUME TypeOK, NEW c \in Calls, NEW p \in Procs,
           NEW op \in {"get", "warm", "invalidate"}, NEW step \in Steps, Begin(c, p, op, step)
    PROVE  /\ call' \in [Calls -> Running \cup {None}]
           /\ call'[c].at = step /\ call'[c].proc = p /\ call'[c].menu = None
           /\ call'[c].alone =>
                 op = "invalidate" /\ \A d \in Calls \ {c} : call[d] # None => Proc(d) # p
           /\ \A d \in Calls \ {c} :
                 \/ call[d] = None /\ call'[d] = None
                 \/ call[d] # None /\ Proc(d) # p /\ call'[d] = call[d]
                 \/ /\ call[d] # None /\ Proc(d) = p /\ ~call'[d].alone
                    /\ call'[d].at = call[d].at /\ call'[d].menu = call[d].menu
                    /\ call'[d].time = call[d].time /\ call'[d].proc = p
           /\ answer' = [answer EXCEPT ![c] = None]
           /\ UNCHANGED <<redisMenu, menu, failures, superseded, warmed, floor>>
<1> DEFINE others == {d \in Calls \ {c} : call[d] # None /\ call[d].proc = p}
           new == [op |-> op, proc |-> p, at |-> step, menu |-> None, time |-> 0,
                   alone |-> op = "invalidate" /\ others = {}]
<1>1. call' = [d \in Calls |->
                 IF d = c THEN new
                 ELSE IF d \in others THEN [call[d] EXCEPT !.alone = FALSE] ELSE call[d]]
  BY DEF Begin
<1>2. new \in Running
  BY Numbers DEF Running
<1>3. \A d \in Calls : call[d] = None \/ call[d] \in Running
  BY DEF TypeOK
<1>4. \A d \in others : [call[d] EXCEPT !.alone = FALSE] \in Running
  BY <1>3 DEF Running
<1>5. call' \in [Calls -> Running \cup {None}]
  BY <1>1, <1>2, <1>3, <1>4
<1>6. /\ call'[c].at = step /\ call'[c].proc = p /\ call'[c].menu = None
      /\ call'[c].alone = (op = "invalidate" /\ others = {})
  BY <1>1
<1>7. \A d \in Calls \ {c} : d \notin others => call'[d] = call[d]
  BY <1>1
<1>8. \A d \in others :
          /\ ~call'[d].alone
          /\ call'[d].at = call[d].at /\ call'[d].menu = call[d].menu
          /\ call'[d].time = call[d].time /\ call'[d].proc = call[d].proc
  BY <1>1, <1>3 DEF Running
<1>9. /\ answer' = [answer EXCEPT ![c] = None]
      /\ UNCHANGED <<redisMenu, menu, failures, superseded, warmed, floor>>
  BY DEF Begin, backend
<1> HIDE DEF new
<1> QED BY <1>5, <1>6, <1>7, <1>8, <1>9 DEF Proc

\* A fresh menu is one of the backend's so far, or a mock that was warmed.
LEMMA FreshKnown ==
    ASSUME TypeOK, WarmedKnown
    PROVE  /\ \A v, k : Fresh(v, k) => Known(v)
           /\ \A v : Known(v) => v \in Menus
           /\ \A v \in warmed : v \in Menus
           /\ menu \in Menus
<1>1. menu \in 0..MaxMenu /\ menu >= 1
  BY Numbers DEF TypeOK, WarmedKnown
<1>2. \A v : Known(v) => v \in Menus
  BY <1>1, Numbers DEF Known
<1>3. \A v, k : Fresh(v, k) => Known(v)
  BY <1>1 DEF Fresh, Known, WarmedKnown
<1> QED BY <1>1, <1>2, <1>3, Numbers DEF WarmedKnown

\* What is fresh enough for a short bound is fresh enough for a long one.
LEMMA FreshLonger ==
    ASSUME TypeOK
    PROVE  \A v : \A k, l \in Int : k <= l /\ Fresh(v, k) => Fresh(v, l)
BY Numbers DEF TypeOK, Fresh

\* Only the backend and the clock make a menu older.
LEMMA FreshKept ==
    ASSUME UNCHANGED <<menu, superseded>>, warmed \subseteq warmed',
           failures' = failures \/ failures' > 0
    PROVE  /\ \A v, k : Fresh(v, k) => Fresh(v, k)'
           /\ \A v : Known(v) => Known(v)'
BY DEF Fresh, Known

-----------------------------------------------------------------------------
\* The empty caches of a process that has started.
LEMMA InitInv == Init => IInv
<1> SUFFICES ASSUME Init PROVE IInv
  OBVIOUS
<1> USE Numbers DEF Init
<1>1. TypeOK
  <2>1. superseded \in [1..(menu - 1) -> 0..(Bound + 1)]
    <3>1. 1..(menu - 1) = {}
      OBVIOUS
    <3> QED BY <3>1
  <2> QED BY <2>1 DEF TypeOK
<1>2. Freshness /\ WarmedKnown
  BY DEF Freshness, CallFresh, RedisFresh, MemoryFresh, MemoryValid, At, WarmedKnown
<1>3. AboveFloor /\ Undisturbed
  BY DEF AboveFloor, CallCurrent, Undisturbed, At
<1> QED BY <1>1, <1>2, <1>3 DEF IInv

\* The menus that calls and caches hold.
LEMMA MenusHeld ==
    ASSUME TypeOK, Freshness, WarmedKnown
    PROVE  /\ \A c \in Calls : At(c, "fetched") \/ At(c, "save") \/ At(c, "warm") =>
                  call[c].menu \in Menus
           /\ \A c \in Calls : call[c] # None =>
                  /\ call[c] \in Running /\ call[c].menu \in Menus \cup {None}
                  /\ Proc(c) \in Procs /\ call[c].time \in 0..MaxDelay
           /\ \A p \in Procs : cache[p] # None =>
                  cache[p] \in [menu : Menus, age : 0..TTL]
                  /\ cache[p].menu \in Menus /\ cache[p].age \in 0..TTL
           /\ redisMenu # None => redisMenu.menu \in Menus /\ redisMenu.ttl \in 1..TTL
           /\ menu \in Menus
<1>1. ASSUME NEW c \in Calls, At(c, "fetched") \/ At(c, "save") \/ At(c, "warm")
      PROVE  call[c].menu \in Menus
  BY <1>1, FreshKnown DEF Freshness, CallFresh
<1>2. ASSUME NEW c \in Calls, call[c] # None
      PROVE  /\ call[c] \in Running /\ call[c].menu \in Menus \cup {None}
             /\ Proc(c) \in Procs /\ call[c].time \in 0..MaxDelay
  BY <1>2 DEF TypeOK, Running, Proc
<1>3. ASSUME NEW p \in Procs, cache[p] # None
      PROVE  /\ cache[p] \in [menu : Menus, age : 0..TTL]
             /\ cache[p].menu \in Menus /\ cache[p].age \in 0..TTL
  BY <1>3 DEF TypeOK
<1>4. redisMenu # None => redisMenu.menu \in Menus /\ redisMenu.ttl \in 1..TTL
  BY DEF TypeOK
<1>5. menu \in Menus
  BY FreshKnown
<1> QED BY <1>1, <1>2, <1>3, <1>4, <1>5

\* A menu that is put into _cache has no age there yet.
LEMMA RememberFacts ==
    ASSUME TypeOK, NEW p \in Procs, NEW v \in Menus, Remember(p, v)
    PROVE  /\ cache' \in [Procs -> [menu : Menus, age : 0..TTL] \cup {None}]
           /\ cache'[p].menu = v /\ cache'[p].age = 0
           /\ \A q \in Procs : q # p => cache'[q] = cache[q]
<1> DEFINE n == [menu |-> v, age |-> 0]
<1>1. n \in [menu : Menus, age : 0..TTL] /\ n.menu = v /\ n.age = 0
  BY Numbers
<1>2. cache' = [cache EXCEPT ![p] = n]
  BY DEF Remember
<1> HIDE DEF n
<1> QED BY <1>1, <1>2 DEF TypeOK

\* What each step of a call does to the call, the caches and the answer.
Answers(c, v) ==
    /\ answer' \in [Calls -> Menus \cup {None}]
    /\ \/ Ended(c) /\ answer' = [answer EXCEPT ![c] = v]
       \/ Moved(c, "warm", v) /\ answer' = answer

Remembers(c, v) ==
    /\ cache' \in [Procs -> [menu : Menus, age : 0..TTL] \cup {None}]
    /\ cache'[Proc(c)].menu = v /\ cache'[Proc(c)].age = 0
    /\ \A q \in Procs : q # Proc(c) => cache'[q] = cache[q]

Saves(v) == redisMenu' = [menu |-> v, ttl |-> TTL]

Same == UNCHANGED <<menu, superseded>>

HitDoes(c) ==
    /\ Same /\ UNCHANGED <<cache, redisMenu, failures, warmed, floor>>
    /\ At(c, "check")
    /\ \/ MemoryValid(Proc(c)) /\ Answers(c, cache[Proc(c)].menu)
       \/ Moved(c, "load", call[c].menu) /\ answer' = answer

LoadDoes(c) ==
    /\ Same /\ UNCHANGED <<cache, redisMenu, failures, warmed, floor, answer>>
    /\ At(c, "load")
    /\ \/ redisMenu = None /\ Moved(c, "loaded", None)
       \/ redisMenu # None /\ Moved(c, "loaded", redisMenu.menu)

LoadedDoes(c) ==
    /\ Same /\ UNCHANGED <<redisMenu, failures, warmed, floor>>
    /\ At(c, "loaded")
    /\ \/ Moved(c, "fetch", None) /\ UNCHANGED <<cache, answer>>
       \/ /\ call[c].menu # None /\ call[c].menu \in Menus
          /\ Remembers(c, call[c].menu) /\ Answers(c, call[c].menu)

LoadFailsDoes(c) ==
    /\ Same /\ UNCHANGED <<cache, redisMenu, failures, warmed, floor, answer>>
    /\ At(c, "load") /\ Moved(c, "fetch", call[c].menu)

FetchDoes(c) ==
    /\ Same /\ UNCHANGED <<cache, redisMenu, failures, warmed, floor, answer>>
    /\ At(c, "fetch") /\ Moved(c, "fetched", menu)

FetchedDoes(c) ==
    /\ Same /\ UNCHANGED <<redisMenu, failures, warmed, floor, answer>>
    /\ At(c, "fetched") /\ Moved(c, "save", call[c].menu)
    /\ Remembers(c, call[c].menu)

FetchFailsDoes(c) ==
    /\ Same /\ UNCHANGED <<cache, redisMenu, warmed, floor>>
    /\ failures' = failures + 1 /\ failures < MaxFailures
    /\ At(c, "fetch") /\ Answers(c, Mock)

SaveDoes(c) ==
    /\ Same /\ UNCHANGED <<cache, failures, warmed, floor>>
    /\ At(c, "save") /\ Answers(c, call[c].menu) /\ Saves(call[c].menu)

SaveFailsDoes(c) ==
    /\ Same /\ UNCHANGED <<cache, failures, warmed, floor>>
    /\ At(c, "save")
    /\ \/ Answers(c, call[c].menu) /\ UNCHANGED redisMenu
       \/ UNCHANGED <<call, answer>> /\ Saves(call[c].menu)

SaveWarmDoes(c) ==
    /\ Same /\ UNCHANGED <<cache, failures, answer>>
    /\ At(c, "warm") /\ Saves(call[c].menu)
    /\ Ended(c) \/ call' = call
    /\ \/ call[c].menu = menu /\ warmed' = warmed
       \/ call[c].menu # menu /\ warmed' = warmed \cup {call[c].menu}
    /\ floor' = [p \in Procs |-> IF call[c].menu < floor[p] THEN 1 ELSE floor[p]]

DeleteDoes(c) ==
    /\ Same /\ UNCHANGED <<cache, failures, warmed, answer>>
    /\ At(c, "delete") /\ redisMenu' = None
    /\ \/ Ended(c) /\ Clean(c) /\ floor' = [floor EXCEPT ![Proc(c)] = menu]
       \/ (Ended(c) \/ call' = call) /\ floor' = floor

GiveUpDoes(c) ==
    /\ Same /\ UNCHANGED <<cache, redisMenu, failures, warmed, floor, answer>>
    /\ At(c, "warm") \/ At(c, "delete")
    /\ Ended(c)

\* The effects above are those of the actions.
LEMMA StepFacts ==
    ASSUME IInv, NEW c \in Calls, Step(c)
    PROVE  \/ HitDoes(c) \/ LoadDoes(c) \/ LoadedDoes(c) \/ LoadFailsDoes(c)
           \/ FetchDoes(c) \/ FetchedDoes(c) \/ FetchFailsDoes(c) \/ SaveDoes(c)
           \/ SaveFailsDoes(c) \/ SaveWarmDoes(c) \/ DeleteDoes(c) \/ GiveUpDoes(c)
<1> USE DEF IInv, Same, backend, history
<1>1. /\ \A s \in Steps : At(c, s) => call[c] # None
      /\ {"check", "load", "loaded", "fetch", "fetched", "save", "warm", "delete"} = Steps
      /\ Mock \in Menus
  BY Numbers DEF At, Steps
<1>2. ASSUME NEW step \in Steps, call[c] # None
      PROVE  /\ Go(c, step) => Moved(c, step, call[c].menu)
             /\ \A v \in Menus \cup {None} : Carry(c, v, step) => Moved(c, step, v)
             /\ End(c) => Ended(c)
  BY <1>2, GoFacts
<1>3. ASSUME NEW v \in Menus, Return(c, v), call[c] # None PROVE Answers(c, v)
  BY <1>3, ReturnFacts DEF Answers
<1>4. ASSUME NEW v \in Menus, Remember(Proc(c), v), call[c] # None PROVE Remembers(c, v)
  BY <1>4, RememberFacts, MenusHeld DEF Remembers
<1>5. Hit(c) => HitDoes(c)
  BY <1>1, <1>2, <1>3, MenusHeld DEF Hit, MemoryValid, HitDoes
<1>6. Load(c) => LoadDoes(c)
  BY <1>1, <1>2, MenusHeld DEF Load, LoadDoes
<1>7. Loaded(c) => LoadedDoes(c)
  BY <1>1, <1>2, <1>3, <1>4, MenusHeld DEF Loaded, LoadedDoes
<1>8. LoadFails(c) => LoadFailsDoes(c)
  BY <1>1, <1>2 DEF LoadFails, LoadFailsDoes
<1>9. Fetch(c) => FetchDoes(c)
  BY <1>1, <1>2, MenusHeld DEF Fetch, FetchDoes
<1>10. Fetched(c) => FetchedDoes(c)
  BY <1>1, <1>2, <1>4, MenusHeld DEF Fetched, FetchedDoes
<1>11. FetchFails(c) => FetchFailsDoes(c)
  BY <1>1, <1>3 DEF FetchFails, FetchFailsDoes
<1>12. Save(c) => SaveDoes(c)
  BY <1>1, <1>3, MenusHeld DEF Save, Saves, SaveDoes
<1>13. SaveFails(c) => SaveFailsDoes(c)
  BY <1>1, <1>3, MenusHeld DEF SaveFails, Saves, SaveFailsDoes
<1>14. SaveWarm(c) => SaveWarmDoes(c)
  BY <1>1, <1>2 DEF SaveWarm, Saves, SaveWarmDoes
<1>15. Delete(c) => DeleteDoes(c)
  BY <1>1, <1>2 DEF Delete, DeleteDoes
<1>16. GiveUp(c) => GiveUpDoes(c)
  BY <1>1, <1>2 DEF GiveUp, GiveUpDoes
<1> QED BY <1>5, <1>6, <1>7, <1>8, <1>9, <1>10, <1>11, <1>12, <1>13, <1>14, <1>15, <1>16
    DEF Step

\* What all steps of a call leave alone: the backend's menu, the other calls, the memory of
\* other processes, and, while it invalidates, the call and the memory.
Frame(c) ==
    /\ Same /\ warmed \subseteq warmed' /\ failures' \in {failures, failures + 1}
    /\ call[c] # None
    /\ \A d \in Calls : d # c => call'[d] = call[d]
    /\ call'[c] # None => call'[c].proc = call[c].proc /\ call'[c].alone = call[c].alone
    /\ \A p \in Procs : p # Proc(c) => cache'[p] = cache[p]
    /\ call[c].at = "delete" => call'[c] \in {call[c], None} /\ cache' = cache

\* The steps keep to their frame.
LEMMA StepFrame ==
    ASSUME IInv, NEW c \in Calls, Step(c)
    PROVE  Frame(c)
<1> USE DEF Frame, Moved, Ended, At
<1>1. HitDoes(c) \/ FetchFailsDoes(c) => Frame(c)
  BY DEF HitDoes, FetchFailsDoes, Answers
<1>2. LoadDoes(c) \/ LoadFailsDoes(c) \/ FetchDoes(c) => Frame(c)
  BY DEF LoadDoes, LoadFailsDoes, FetchDoes
<1>3. LoadedDoes(c) \/ FetchedDoes(c) => Frame(c)
  BY DEF LoadedDoes, FetchedDoes, Answers, Remembers
<1>4. SaveDoes(c) \/ SaveFailsDoes(c) => Frame(c)
  BY DEF SaveDoes, SaveFailsDoes, Answers
<1>5. SaveWarmDoes(c) \/ DeleteDoes(c) \/ GiveUpDoes(c) => Frame(c)
  BY DEF SaveWarmDoes, DeleteDoes, GiveUpDoes
<1> QED BY <1>1, <1>2, <1>3, <1>4, <1>5, StepFacts

-----------------------------------------------------------------------------
\* Types are kept by every step of a call.
LEMMA TypeStep ==
    ASSUME IInv, NEW c \in Calls, Step(c)
    PROVE  TypeOK'
<1> USE DEF Same, Moved, Ended
<1>1. /\ menu \in Menus /\ menu >= 1 /\ Mock \in Menus
      /\ answer \in [Calls -> Menus \cup {None}] /\ floor \in [Procs -> 1..menu]
      /\ failures \in 0..MaxFailures
      /\ warmed \subseteq Menus
      /\ cache \in [Procs -> [menu : Menus, age : 0..TTL] \cup {None}]
      /\ redisMenu \in [menu : Menus, ttl : 1..TTL] \cup {None}
      /\ call \in [Calls -> Running \cup {None}]
  BY Numbers, FreshKnown DEF IInv, TypeOK, WarmedKnown
<1>2. ASSUME Same PROVE superseded' \in [1..(menu' - 1) -> 0..(Bound + 1)] /\ menu' \in Menus
  BY <1>1, <1>2 DEF IInv, TypeOK
<1>3. \A v \in Menus : [menu |-> v, ttl |-> TTL] \in [menu : Menus, ttl : 1..TTL] \cup {None}
  BY Numbers
<1>4. At(c, "fetched") \/ At(c, "save") \/ At(c, "warm") => call[c].menu \in Menus
  BY MenusHeld DEF IInv
<1>5. CASE HitDoes(c)
  BY <1>1, <1>2, <1>5 DEF TypeOK, HitDoes, Answers
<1>6. CASE LoadDoes(c) \/ LoadFailsDoes(c) \/ FetchDoes(c)
  BY <1>1, <1>2, <1>6 DEF TypeOK, LoadDoes, LoadFailsDoes, FetchDoes
<1>7. CASE LoadedDoes(c)
  BY <1>1, <1>2, <1>7 DEF TypeOK, LoadedDoes, Remembers, Answers
<1>8. CASE FetchedDoes(c)
  BY <1>1, <1>2, <1>8 DEF TypeOK, FetchedDoes, Remembers
<1>9. CASE FetchFailsDoes(c)
  <2>1. failures' \in 0..MaxFailures
    BY <1>1, <1>9, Numbers DEF FetchFailsDoes
  <2> QED BY <1>1, <1>2, <1>9, <2>1 DEF TypeOK, FetchFailsDoes, Answers
<1>10. CASE SaveDoes(c) \/ SaveFailsDoes(c)
  BY <1>1, <1>2, <1>3, <1>4, <1>10 DEF TypeOK, SaveDoes, SaveFailsDoes, Answers, Saves
<1>11. CASE SaveWarmDoes(c)
  <2>1. floor' \in [Procs -> 1..menu]
    BY <1>1, <1>11, Numbers DEF SaveWarmDoes
  <2> QED BY <1>1, <1>2, <1>3, <1>4, <1>11, <2>1 DEF TypeOK, SaveWarmDoes, Saves
<1>12. CASE DeleteDoes(c)
  <2>1. floor' \in [Procs -> 1..menu]
    BY <1>1, <1>12, Numbers DEF DeleteDoes
  <2> QED BY <1>1, <1>2, <1>12, <2>1 DEF TypeOK, DeleteDoes
<1>13. CASE GiveUpDoes(c)
  BY <1>1, <1>2, <1>13 DEF TypeOK, GiveUpDoes
<1> QED BY <1>5, <1>6, <1>7, <1>8, <1>9, <1>10, <1>11, <1>12, <1>13, StepFacts

\* The call is gone, or carries on with what it had.
Alike(c) ==
    call'[c] # None =>
        /\ call[c] # None
        /\ call'[c].at = call[c].at /\ call'[c].menu = call[c].menu
        /\ call'[c].time = call[c].time /\ call'[c].proc = call[c].proc

\* What a step leaves alone, or drops, is as fresh as before.
LEMMA FreshFrame ==
    ASSUME IInv, Same, warmed \subseteq warmed', failures' = failures \/ failures' > 0,
           \A c \in Calls : Alike(c) \/ CallFresh(c)',
           redisMenu' = redisMenu \/ RedisFresh',
           \A p \in Procs : cache'[p] \in {cache[p], None} \/ MemoryFresh(p)'
    PROVE  Freshness'
<1>1. /\ \A v, k : Fresh(v, k) => Fresh(v, k)'
      /\ \A v : Known(v) => Known(v)'
  BY FreshKept DEF Same
<1>2. ASSUME NEW c \in Calls, Alike(c) PROVE CallFresh(c)'
  BY <1>1, <1>2 DEF IInv, Freshness, CallFresh, Alike, At
<1>3. redisMenu' = redisMenu => RedisFresh'
  BY <1>1 DEF IInv, Freshness, RedisFresh
<1>4. ASSUME NEW p \in Procs, cache'[p] \in {cache[p], None} PROVE MemoryFresh(p)'
  BY <1>1, <1>4 DEF IInv, Freshness, MemoryFresh, MemoryValid
<1> QED BY <1>2, <1>3, <1>4 DEF Freshness

\* The menu that is carried by a call of get_menu_context, as it moves between the caches.
LEMMA FreshStep ==
    ASSUME IInv, TypeOK', NEW c \in Calls, Step(c)
    PROVE  Freshness' /\ WarmedKnown'
<1>1. /\ \A v, k : Fresh(v, k) => Known(v)
      /\ \A v : \A k, l \in Int : k <= l /\ Fresh(v, k) => Fresh(v, l)
  BY FreshKnown, FreshLonger DEF IInv
<1>2. /\ call[c] # None => Proc(c) \in Procs /\ call[c].time \in 0..MaxDelay
      /\ \A p \in Procs : cache[p] # None => cache[p].age \in 0..TTL
      /\ redisMenu # None => redisMenu.ttl \in 1..TTL
  BY MenusHeld DEF IInv
<1>3. /\ At(c, "fetched") \/ At(c, "save") => Fresh(call[c].menu, call[c].time)
      /\ At(c, "loaded") /\ call[c].menu # None =>
             Fresh(call[c].menu, MaxDelay + TTL + call[c].time)
      /\ At(c, "warm") => Known(call[c].menu)
      /\ redisMenu # None => Fresh(redisMenu.menu, MaxDelay + TTL - redisMenu.ttl)
      /\ \A p \in Procs : MemoryValid(p) =>
             Fresh(cache[p].menu, 2 * MaxDelay + TTL + cache[p].age)
  BY DEF IInv, Freshness, CallFresh, RedisFresh, MemoryFresh
<1>4. /\ Same /\ warmed \subseteq warmed'
      /\ failures' = failures \/ failures' > 0
      /\ call[c] # None
      /\ \A d \in Calls : d # c => Alike(d)
  <2>1. failures \in Nat
    BY Numbers DEF IInv, TypeOK
  <2> QED BY <2>1, StepFrame DEF Frame, Alike
<1>5. /\ \A v, k : Fresh(v, k) => Fresh(v, k)'
      /\ \A v : Known(v) => Known(v)'
  BY <1>4, FreshKept DEF Same
<1>6. Ended(c) \/ call' = call => Alike(c)
  BY DEF Ended, Alike
<1>7. ASSUME NEW v, Known(v)', Answers(c, v) PROVE CallFresh(c)'
  <2>1. Ended(c) => CallFresh(c)'
    BY DEF Ended, CallFresh, At
  <2>2. Moved(c, "warm", v) => CallFresh(c)'
    BY <1>7 DEF Moved, CallFresh, At
  <2> QED BY <1>7, <2>1, <2>2 DEF Answers
<1>8. ASSUME NEW v, NEW k \in Int, Fresh(v, k), k <= 2 * MaxDelay + TTL, Remembers(c, v)
      PROVE  \A p \in Procs : cache'[p] \in {cache[p], None} \/ MemoryFresh(p)'
  <2>1. Fresh(v, 2 * MaxDelay + TTL + 0)'
    <3>1. 2 * MaxDelay + TTL + 0 \in Int /\ k <= 2 * MaxDelay + TTL + 0
      BY <1>8, Numbers
    <3> QED BY <1>1, <1>5, <1>8, <3>1
  <2>2. ASSUME NEW p \in Procs, p = Proc(c) PROVE MemoryFresh(p)'
    BY <1>8, <2>1, <2>2 DEF Remembers, MemoryFresh
  <2> QED BY <1>8, <2>2 DEF Remembers
<1>9. ASSUME NEW v, Fresh(v, MaxDelay)', Saves(v) PROVE RedisFresh'
  <2>1. redisMenu'.menu = v /\ redisMenu'.ttl = TTL
    BY <1>9 DEF Saves
  <2>2. MaxDelay + TTL - TTL = MaxDelay
    BY Numbers
  <2> QED BY <1>9, <2>1, <2>2 DEF RedisFresh
<1>10. ASSUME NEW step \in Steps, NEW v, Moved(c, step, v),
              step \notin {"loaded", "fetched", "save", "warm"}
       PROVE  CallFresh(c)'
  BY <1>10 DEF Moved, CallFresh, At
<1>11. WarmedKnown'
  <2>1. \A v \in warmed' : v \in warmed \/ Known(v)
    <3>1. SaveWarmDoes(c) => \A v \in warmed' : v \in warmed \/ Known(v)
      BY <1>3 DEF SaveWarmDoes
    <3>2. warmed' # warmed => SaveWarmDoes(c)
      BY StepFacts
      DEF HitDoes, LoadDoes, LoadedDoes, LoadFailsDoes, FetchDoes, FetchedDoes,
          FetchFailsDoes, SaveDoes, SaveFailsDoes, DeleteDoes, GiveUpDoes
    <3> QED BY <3>1, <3>2
  <2> QED BY <1>4, <1>5, <2>1 DEF WarmedKnown, Same, IInv
<1> SUFFICES Freshness'
  BY <1>11
<1>12. CASE HitDoes(c)
  <2>1. PICK v : v = cache[Proc(c)].menu
    OBVIOUS
  <2>2. CallFresh(c)'
    <3>1. CASE MemoryValid(Proc(c)) /\ Answers(c, v)
      <4>1. Known(v)'
        BY <1>1, <1>2, <1>3, <1>4, <1>5, <2>1, <3>1
      <4> QED BY <1>7, <3>1, <4>1
    <3>2. CASE Moved(c, "load", call[c].menu)
      BY <1>10, <3>2 DEF Steps
    <3> QED BY <1>12, <2>1, <3>1, <3>2 DEF HitDoes
  <2> QED BY <1>4, <1>12, <2>2, FreshFrame DEF HitDoes
<1>13. CASE LoadDoes(c)
  <2>1. CASE redisMenu = None /\ Moved(c, "loaded", None)
    <3>1. CallFresh(c)'
      BY <2>1 DEF Moved, CallFresh, At
    <3> QED BY <1>4, <1>13, <3>1, FreshFrame DEF LoadDoes
  <2>2. CASE redisMenu # None /\ Moved(c, "loaded", redisMenu.menu)
    <3>1. PICK v, k : v = redisMenu.menu /\ k = MaxDelay + TTL + call[c].time
      OBVIOUS
    <3>2. Fresh(v, k)'
      <4>1. /\ MaxDelay + TTL - redisMenu.ttl \in Int /\ k \in Int
            /\ MaxDelay + TTL - redisMenu.ttl <= k
        <5>1. redisMenu.ttl \in 1..TTL /\ call[c].time \in 0..MaxDelay
          BY <1>2, <1>4, <2>2
        <5> QED BY <3>1, <5>1, Numbers
      <4> QED BY <1>1, <1>3, <1>5, <2>2, <3>1, <4>1
    <3>3. CallFresh(c)'
      <4>1. call'[c].menu = v /\ MaxDelay + TTL + call'[c].time = k /\ call'[c].at = "loaded"
        BY <2>2, <3>1 DEF Moved
      <4> QED BY <3>2, <4>1 DEF CallFresh, At
    <3> QED BY <1>4, <1>13, <3>3, FreshFrame DEF LoadDoes
  <2> QED BY <1>13, <2>1, <2>2 DEF LoadDoes
<1>14. CASE LoadedDoes(c)
  <2>1. CASE Moved(c, "fetch", None) /\ UNCHANGED <<cache, answer>>
    <3>1. CallFresh(c)'
      BY <1>10, <2>1 DEF Steps
    <3> QED BY <1>4, <1>14, <2>1, <3>1, FreshFrame DEF LoadedDoes
  <2>2. CASE /\ call[c].menu # None
             /\ Remembers(c, call[c].menu) /\ Answers(c, call[c].menu)
    <3>1. /\ MaxDelay + TTL + call[c].time \in Int
          /\ MaxDelay + TTL + call[c].time <= 2 * MaxDelay + TTL
      BY <1>2, <1>4, Numbers
    <3>2. Fresh(call[c].menu, MaxDelay + TTL + call[c].time)
      BY <1>3, <1>14, <2>2 DEF LoadedDoes
    <3>3. CallFresh(c)'
      BY <1>1, <1>5, <1>7, <2>2, <3>2
    <3>4. \A p \in Procs : cache'[p] \in {cache[p], None} \/ MemoryFresh(p)'
      BY <1>8, <2>2, <3>1, <3>2
    <3> QED BY <1>4, <1>14, <3>3, <3>4, FreshFrame DEF LoadedDoes
  <2> QED BY <1>14, <2>1, <2>2 DEF LoadedDoes
<1>15. CASE LoadFailsDoes(c)
  <2>1. CallFresh(c)'
    BY <1>10, <1>15 DEF LoadFailsDoes, Steps
  <2> QED BY <1>4, <1>15, <2>1, FreshFrame DEF LoadFailsDoes
<1>16. CASE FetchDoes(c)
  <2>1. CallFresh(c)'
    BY <1>4, <1>16 DEF FetchDoes, Moved, CallFresh, At, Fresh, Same
  <2> QED BY <1>4, <1>16, <2>1, FreshFrame DEF FetchDoes
<1>17. CASE FetchedDoes(c)
  <2>1. Fresh(call[c].menu, call[c].time)
    BY <1>3, <1>17 DEF FetchedDoes
  <2>2. CallFresh(c)'
    BY <1>5, <1>17, <2>1 DEF FetchedDoes, Moved, CallFresh, At
  <2>3. call[c].time \in Int /\ call[c].time <= 2 * MaxDelay + TTL
    BY <1>2, <1>4, Numbers
  <2>4. \A p \in Procs : cache'[p] \in {cache[p], None} \/ MemoryFresh(p)'
    BY <1>8, <1>17, <2>1, <2>3 DEF FetchedDoes
  <2> QED BY <1>4, <1>17, <2>2, <2>4, FreshFrame DEF FetchedDoes
<1>18. CASE FetchFailsDoes(c)
  <2>1. Known(Mock)'
    BY <1>18, Numbers DEF FetchFailsDoes, Known, IInv, TypeOK
  <2>2. CallFresh(c)'
    BY <1>7, <1>18, <2>1 DEF FetchFailsDoes
  <2> QED BY <1>4, <1>18, <2>2, FreshFrame DEF FetchFailsDoes
<1>19. CASE SaveDoes(c) \/ SaveFailsDoes(c)
  <2>1. PICK v : v = call[c].menu
    OBVIOUS
  <2>2. Fresh(v, MaxDelay)' /\ Known(v)'
    <3>1. call[c].time \in Int /\ MaxDelay \in Int /\ call[c].time <= MaxDelay
      BY <1>2, <1>4, Numbers
    <3>2. Fresh(v, call[c].time)
      BY <1>3, <1>19, <2>1 DEF SaveDoes, SaveFailsDoes
    <3> QED BY <1>1, <1>5, <3>1, <3>2
  <2>3. redisMenu' = redisMenu \/ RedisFresh'
    BY <1>9, <1>19, <2>1, <2>2 DEF SaveDoes, SaveFailsDoes
  <2>4. Alike(c) \/ CallFresh(c)'
    BY <1>6, <1>7, <1>19, <2>1, <2>2 DEF SaveDoes, SaveFailsDoes
  <2> QED BY <1>4, <1>19, <2>3, <2>4, FreshFrame DEF SaveDoes, SaveFailsDoes
<1>20. CASE SaveWarmDoes(c)
  <2>1. PICK v : v = call[c].menu
    OBVIOUS
  <2>2. RedisFresh'
    <3>1. Fresh(v, MaxDelay)'
      BY <1>4, <1>20, <2>1 DEF SaveWarmDoes, Fresh, Same
    <3> QED BY <1>9, <1>20, <2>1, <3>1 DEF SaveWarmDoes
  <2> QED BY <1>4, <1>6, <1>20, <2>2, FreshFrame DEF SaveWarmDoes
<1>21. CASE DeleteDoes(c)
  <2>1. RedisFresh'
    BY <1>21 DEF DeleteDoes, RedisFresh
  <2> QED BY <1>4, <1>6, <1>21, <2>1, FreshFrame DEF DeleteDoes
<1>22. CASE GiveUpDoes(c)
  BY <1>4, <1>6, <1>22, FreshFrame DEF GiveUpDoes
<1> QED BY <1>12, <1>13, <1>14, <1>15, <1>16, <1>17, <1>18, <1>19, <1>20, <1>21,
       <1>22, StepFacts

\* What a step leaves alone, or drops, is no older than the floor, as floors do not rise.
LEMMA FloorFrame ==
    ASSUME IInv, \A p \in Procs : floor'[p] \in {floor[p], 1},
           \A c \in Calls : Alike(c) \/ \A p \in Procs : CallCurrent(p, c)',
           \/ redisMenu' \in {redisMenu, None}
           \/ \A p \in Procs : Current(p, redisMenu.menu)',
           \A p \in Procs : cache'[p] \in {cache[p], None} \/ Current(p, cache[p].menu)'
    PROVE  AboveFloor'
<1>1. ASSUME NEW p \in Procs, NEW v \in Menus, Current(p, v) PROVE Current(p, v)'
  <2>1. floor[p] \in Nat /\ floor[p] >= 1 /\ v \in Nat
    BY Numbers DEF IInv, TypeOK
  <2> QED BY <1>1, <2>1, Numbers DEF Current
<1>2. ASSUME NEW p \in Procs PROVE cache'[p] # None => Current(p, cache[p].menu)'
  <2>1. ASSUME cache'[p] = cache[p], cache[p] # None PROVE Current(p, cache[p].menu)'
    <3>1. cache[p].menu \in Menus /\ Current(p, cache[p].menu)
      BY <2>1, MenusHeld DEF IInv, AboveFloor
    <3>2. PICK v : v = cache[p].menu
      OBVIOUS
    <3>3. Current(p, v)'
      BY <1>1, <3>1, <3>2
    <3> QED BY <2>1, <3>2, <3>3 DEF Current
  <2> QED BY <2>1
<1>3. ASSUME NEW p \in Procs PROVE redisMenu' # None => Current(p, redisMenu.menu)'
  <2>1. ASSUME redisMenu' = redisMenu, redisMenu # None PROVE Current(p, redisMenu.menu)'
    <3>1. redisMenu.menu \in Menus /\ Current(p, redisMenu.menu)
      BY <2>1, MenusHeld DEF IInv, AboveFloor
    <3>2. PICK v : v = redisMenu.menu
      OBVIOUS
    <3>3. Current(p, v)'
      BY <1>1, <3>1, <3>2
    <3> QED BY <2>1, <3>2, <3>3 DEF Current
  <2> QED BY <2>1
<1>4. ASSUME NEW p \in Procs, NEW c \in Calls, Alike(c) PROVE CallCurrent(p, c)'
  <2>1. PICK v : v = call[c].menu
    OBVIOUS
  <2>2. call'[c] # None => /\ call[c] # None /\ call'[c].at = call[c].at
                           /\ call'[c].menu = v /\ Proc(c)' = Proc(c)
    BY <1>4, <2>1 DEF Alike, Proc
  <2>3. ASSUME At(c, "fetched") \/ At(c, "save") PROVE Current(p, v)'
    BY <1>1, <2>1, <2>3, MenusHeld DEF IInv, AboveFloor, CallCurrent
  <2>4. ASSUME At(c, "loaded"), v # None, Proc(c) = p PROVE Current(p, v)'
    <3>1. v \in Menus
      BY <2>1, <2>4, MenusHeld DEF IInv, At
    <3> QED BY <1>1, <2>1, <2>4, <3>1 DEF IInv, AboveFloor, CallCurrent
  <2>5. (At(c, "fetched") \/ At(c, "save"))' => At(c, "fetched") \/ At(c, "save")
    BY <2>2 DEF At
  <2>6. At(c, "loaded")' => At(c, "loaded")
    BY <2>2 DEF At
  <2>7. ASSUME (At(c, "fetched") \/ At(c, "save"))' PROVE Current(p, call[c].menu)'
    <3>1. Current(p, v)' /\ call'[c].menu = v
      BY <2>2, <2>3, <2>5, <2>7 DEF At
    <3> QED BY <3>1 DEF Current
  <2>8. ASSUME At(c, "loaded")', call'[c].menu # None, Proc(c)' = p
        PROVE  Current(p, call[c].menu)'
    <3>1. Current(p, v)' /\ call'[c].menu = v
      BY <2>2, <2>4, <2>6, <2>8 DEF At
    <3> QED BY <3>1 DEF Current
  <2> QED BY <2>7, <2>8 DEF CallCurrent
<1> QED BY <1>2, <1>3, <1>4 DEF AboveFloor

\* Where a menu can go that is no older than the floor, and what Delete makes of it.
LEMMA FloorStep ==
    ASSUME IInv, NEW c \in Calls, Step(c)
    PROVE  AboveFloor'
<1>1. /\ \A p \in Procs :
            /\ cache[p] # None => Current(p, cache[p].menu)
            /\ redisMenu # None => Current(p, redisMenu.menu)
            /\ At(c, "fetched") \/ At(c, "save") => Current(p, call[c].menu)
      /\ At(c, "loaded") /\ call[c].menu # None => Current(Proc(c), call[c].menu)
  BY MenusHeld DEF IInv, AboveFloor, CallCurrent, At
<1>2. /\ \A d \in Calls : d # c => Alike(d)
      /\ Ended(c) \/ call' = call => Alike(c)
      /\ call[c] # None /\ Proc(c) \in Procs
  BY StepFrame, MenusHeld DEF Frame, Ended, Alike, IInv
<1>3. ASSUME floor' = floor PROVE \A p, v : Current(p, v) => Current(p, v)'
  BY <1>3 DEF Current
<1>4. ASSUME NEW step, NEW v, Moved(c, step, v), step \notin {"fetched", "save", "loaded"}
      PROVE  \A p \in Procs : CallCurrent(p, c)'
  BY <1>4 DEF Moved, CallCurrent, At
<1>5. ASSUME NEW v, Answers(c, v) PROVE Alike(c) \/ \A p \in Procs : CallCurrent(p, c)'
  BY <1>2, <1>4, <1>5 DEF Answers
<1>6. CASE HitDoes(c) \/ LoadFailsDoes(c) \/ FetchFailsDoes(c) \/ GiveUpDoes(c)
  <2>1. Alike(c) \/ \A p \in Procs : CallCurrent(p, c)'
    BY <1>2, <1>4, <1>5, <1>6 DEF HitDoes, LoadFailsDoes, FetchFailsDoes, GiveUpDoes
  <2> QED BY <1>2, <1>6, <2>1, FloorFrame
      DEF HitDoes, LoadFailsDoes, FetchFailsDoes, GiveUpDoes
<1>7. CASE LoadDoes(c)
  <2>1. PICK v : v = redisMenu.menu
    OBVIOUS
  <2>2. ASSUME NEW p \in Procs PROVE CallCurrent(p, c)'
    <3>1. CASE redisMenu = None /\ Moved(c, "loaded", None)
      BY <3>1 DEF Moved, CallCurrent, At
    <3>2. CASE redisMenu # None /\ Moved(c, "loaded", v)
      <4>1. Current(p, v)' /\ call'[c].menu = v /\ call'[c].at = "loaded"
        BY <1>1, <1>3, <1>7, <2>1, <3>2 DEF LoadDoes, Moved
      <4> QED BY <4>1 DEF CallCurrent, Current, At
    <3> QED BY <1>7, <2>1, <3>1, <3>2 DEF LoadDoes
  <2> QED BY <1>2, <1>7, <2>2, FloorFrame DEF LoadDoes
<1>8. CASE LoadedDoes(c)
  <2>1. PICK v : v = call[c].menu
    OBVIOUS
  <2>2. CASE Moved(c, "fetch", None) /\ UNCHANGED <<cache, answer>>
    BY <1>2, <1>4, <1>8, <2>2, FloorFrame DEF LoadedDoes
  <2>3. CASE v # None /\ Remembers(c, v) /\ Answers(c, v)
    <3>1. Current(Proc(c), v)
      BY <1>1, <1>8, <2>1, <2>3 DEF LoadedDoes
    <3>2. ASSUME NEW p \in Procs, p = Proc(c) PROVE Current(p, cache[p].menu)'
      BY <1>8, <2>3, <3>1, <3>2 DEF LoadedDoes, Remembers, Current
    <3> QED BY <1>2, <1>5, <1>8, <2>3, <3>2, FloorFrame DEF LoadedDoes, Remembers
  <2> QED BY <1>8, <2>1, <2>2, <2>3 DEF LoadedDoes
<1>9. CASE FetchDoes(c)
  <2>1. \A p \in Procs : CallCurrent(p, c)'
    <3>1. \A p \in Procs : floor[p] <= menu
      BY Numbers DEF IInv, TypeOK
    <3> QED BY <1>9, <3>1 DEF FetchDoes, Moved, CallCurrent, At, Current
  <2> QED BY <1>2, <1>9, <2>1, FloorFrame DEF FetchDoes
<1>10. CASE FetchedDoes(c)
  <2>1. PICK v : v = call[c].menu
    OBVIOUS
  <2>2. \A p \in Procs : Current(p, v)
    BY <1>1, <1>10, <2>1 DEF FetchedDoes
  <2>3. \A p \in Procs : CallCurrent(p, c)'
    BY <1>10, <2>1, <2>2 DEF FetchedDoes, Moved, CallCurrent, At, Current
  <2>4. ASSUME NEW p \in Procs, p = Proc(c) PROVE Current(p, cache[p].menu)'
    BY <1>10, <2>1, <2>2, <2>4 DEF FetchedDoes, Remembers, Current
  <2> QED BY <1>2, <1>10, <2>3, <2>4, FloorFrame DEF FetchedDoes, Remembers
<1>11. CASE SaveDoes(c) \/ SaveFailsDoes(c)
  <2>1. PICK v : v = call[c].menu
    OBVIOUS
  <2>2. \A p \in Procs : Current(p, v)
    BY <1>1, <1>11, <2>1 DEF SaveDoes, SaveFailsDoes
  <2>3. redisMenu' = redisMenu \/ \A p \in Procs : Current(p, redisMenu.menu)'
    BY <1>11, <2>1, <2>2 DEF SaveDoes, SaveFailsDoes, Saves, Current
  <2>4. Alike(c) \/ \A p \in Procs : CallCurrent(p, c)'
    BY <1>2, <1>5, <1>11 DEF SaveDoes, SaveFailsDoes
  <2> QED BY <1>2, <1>11, <2>3, <2>4, FloorFrame DEF SaveDoes, SaveFailsDoes
<1>12. CASE SaveWarmDoes(c)
  <2>1. call[c].menu \in Nat /\ \A p \in Procs : floor[p] \in Nat
    BY <1>12, MenusHeld, Numbers DEF SaveWarmDoes, IInv, TypeOK
  <2>2. \A p \in Procs : floor'[p] \in {floor[p], 1}
    BY <1>12 DEF SaveWarmDoes
  <2>3. \A p \in Procs : Current(p, redisMenu.menu)'
    BY <1>12, <2>1, Numbers DEF SaveWarmDoes, Saves, Current
  <2> QED BY <1>2, <1>12, <2>2, <2>3, FloorFrame DEF SaveWarmDoes
<1>13. CASE DeleteDoes(c)
  <2>1. CASE (Ended(c) \/ call' = call) /\ floor' = floor
    BY <1>2, <1>13, <2>1, FloorFrame DEF DeleteDoes
  <2>2. CASE Ended(c) /\ Clean(c) /\ floor' = [floor EXCEPT ![Proc(c)] = menu]
    <3>1. /\ cache' = cache /\ cache[Proc(c)] = None /\ redisMenu' = None
          /\ menu \in Nat
          /\ \A d \in Calls \ {c} : call[d] # None => call[d].menu \in {None, menu}
      BY <1>2, <1>13, <2>2, Numbers DEF DeleteDoes, Clean, IInv, Undisturbed, TypeOK
    <3>2. ASSUME NEW p \in Procs
          PROVE  /\ floor'[p] = IF p = Proc(c) THEN menu ELSE floor[p]
                 /\ cache'[p] # None => Current(p, cache[p].menu)'
      BY <1>1, <2>2, <3>1 DEF IInv, TypeOK, Current
    <3>3. ASSUME NEW p \in Procs, NEW d \in Calls PROVE CallCurrent(p, d)'
      <4>1. CASE d = c
        BY <2>2, <4>1 DEF Ended, CallCurrent, At
      <4>2. CASE d # c /\ p = Proc(c)
        <5>1. call'[d] = call[d] /\ floor'[p] = menu
          BY <2>2, <3>2, <4>2 DEF Ended
        <5>2. call[d] # None /\ call[d].menu # None => call[d].menu = menu
          BY <3>1, <4>2
        <5>3. At(d, "fetched") \/ At(d, "save") => call[d].menu # None
          BY MenusHeld, Numbers DEF IInv
        <5> QED BY <3>1, <5>1, <5>2, <5>3 DEF CallCurrent, At, Current
      <4>3. CASE d # c /\ p # Proc(c)
        <5>1. call'[d] = call[d] /\ floor'[p] = floor[p]
          BY <2>2, <3>2, <4>3 DEF Ended
        <5>2. CallCurrent(p, d)
          BY DEF IInv, AboveFloor
        <5> QED BY <5>1, <5>2 DEF CallCurrent, At, Current, Proc
      <4> QED BY <4>1, <4>2, <4>3
    <3> QED BY <3>1, <3>2, <3>3 DEF AboveFloor
  <2> QED BY <1>13, <2>1, <2>2 DEF DeleteDoes
<1> QED BY <1>6, <1>7, <1>8, <1>9, <1>10, <1>11, <1>12, <1>13, StepFacts

\* A process with an invalidation and no other call does not fill its memory.
LEMMA UndisturbedStep ==
    ASSUME IInv, NEW c \in Calls, Step(c)
    PROVE  Undisturbed'
<1>1. /\ call[c] # None
      /\ \A d \in Calls : d # c => call'[d] = call[d]
      /\ call'[c] # None => call'[c].proc = call[c].proc /\ call'[c].alone = call[c].alone
      /\ \A p \in Procs : p # Proc(c) => cache'[p] = cache[p]
      /\ call[c].at = "delete" => call'[c] \in {call[c], None} /\ cache' = cache
      /\ Proc(c) \in Procs
  BY StepFrame, MenusHeld DEF Frame, IInv
<1>2. ASSUME NEW e \in Calls, call'[e] # None, call'[e].alone
      PROVE  /\ call'[e].at = "delete"
             /\ cache'[call'[e].proc] = None
             /\ \A d \in Calls \ {e} : call'[d] # None => call'[d].proc # call'[e].proc
  <2>1. /\ call[e] # None /\ call[e].alone /\ call'[e].proc = call[e].proc
        /\ \A d \in Calls : call'[d] # None => call[d] # None /\ call'[d].proc = call[d].proc
    BY <1>1, <1>2
  <2>2. /\ call[e].at = "delete" /\ cache[call[e].proc] = None
        /\ \A d \in Calls \ {e} : call[d] # None => call[d].proc # call[e].proc
        /\ call[e].proc \in Procs
    BY <2>1, MenusHeld DEF IInv, Undisturbed, Proc
  <2>3. CASE e = c
    BY <1>1, <1>2, <2>1, <2>2, <2>3
  <2>4. CASE e # c
    BY <1>1, <1>2, <2>1, <2>2, <2>4 DEF Proc
  <2> QED BY <2>3, <2>4
<1> QED BY <1>2 DEF Undisturbed, Proc

\* A call that begins has no menu yet; an invalidation drops one.
LEMMA BeginInv ==
    ASSUME IInv, NEW c \in Calls, NEW p \in Procs,
           Get(c, p) \/ Warm(c, p) \/ Invalidate(c, p)
    PROVE  IInv' /\ answer' = [answer EXCEPT ![c] = None]
<1>1. PICK op \in {"get", "warm", "invalidate"}, step \in {"check", "delete"} :
          /\ Begin(c, p, op, step)
          /\ op = "invalidate" => step = "delete" /\ cache' = [cache EXCEPT ![p] = None]
          /\ op # "invalidate" => cache' = cache
  BY DEF Get, Warm, Invalidate
<1>2. TypeOK
  BY DEF IInv
<1>3. step \in Steps
  BY DEF Steps
<1>4. /\ call' \in [Calls -> Running \cup {None}]
      /\ call'[c].at = step /\ call'[c].proc = p /\ call'[c].menu = None
      /\ call'[c].alone =>
            op = "invalidate" /\ \A d \in Calls \ {c} : call[d] # None => Proc(d) # p
      /\ answer' = [answer EXCEPT ![c] = None]
      /\ UNCHANGED <<redisMenu, menu, failures, superseded, warmed, floor>>
  BY <1>1, <1>2, <1>3, BeginFacts
<1>5. \A d \in Calls \ {c} :
          \/ call[d] = None /\ call'[d] = None
          \/ call[d] # None /\ Proc(d) # p /\ call'[d] = call[d]
          \/ /\ call[d] # None /\ Proc(d) = p /\ ~call'[d].alone
             /\ call'[d].at = call[d].at /\ call'[d].menu = call[d].menu
             /\ call'[d].time = call[d].time /\ call'[d].proc = p
  BY <1>1, <1>2, <1>3, BeginFacts
<1>6. \A d \in Calls : d # c => Alike(d)
  BY <1>5 DEF Alike, Proc
<1>7. \A q \in Procs : cache'[q] \in {cache[q], None}
  BY <1>1, <1>2 DEF TypeOK
<1>8. TypeOK'
  BY <1>1, <1>2, <1>4 DEF TypeOK
<1>9. CallFresh(c)' /\ \A q \in Procs : CallCurrent(q, c)'
  BY <1>1, <1>4 DEF CallFresh, CallCurrent, At
<1>10. Freshness' /\ AboveFloor'
  BY <1>4, <1>6, <1>7, <1>9, FreshFrame, FloorFrame DEF Same
<1>11. WarmedKnown'
  BY <1>4 DEF IInv, WarmedKnown, Known
<1>12. ASSUME NEW e \in Calls, call'[e] # None, call'[e].alone
       PROVE  /\ call'[e].at = "delete"
              /\ cache'[call'[e].proc] = None
              /\ \A d \in Calls \ {e} : call'[d] # None => call'[d].proc # call'[e].proc
  <2>1. CASE e = c
    BY <1>1, <1>2, <1>4, <1>5, <1>12, <2>1 DEF TypeOK, Proc
  <2>2. CASE e # c
    <3>1. call[e] # None /\ call'[e] = call[e] /\ call[e].proc # p /\ call[e].proc \in Procs
      BY <1>5, <1>12, <2>2, MenusHeld DEF IInv, Proc
    <3>2. /\ call[e].at = "delete" /\ cache[call[e].proc] = None
          /\ \A d \in Calls \ {e} : call[d] # None => call[d].proc # call[e].proc
      BY <1>12, <3>1 DEF IInv, Undisturbed, Proc
    <3> QED BY <1>4, <1>5, <1>7, <3>1, <3>2 DEF Proc
  <2> QED BY <2>1, <2>2
<1>13. Undisturbed'
  BY <1>12 DEF Undisturbed, Proc
<1> QED BY <1>4, <1>8, <1>10, <1>11, <1>13 DEF IInv

\* A restart drops copies and calls.
LEMMA RestartInv ==
    ASSUME IInv, NEW p \in Procs, Restart(p)
    PROVE  IInv'
<1>1. /\ cache' = [cache EXCEPT ![p] = None]
      /\ call' = [c \in Calls |->
                     IF call[c] # None /\ call[c].proc = p THEN None ELSE call[c]]
      /\ UNCHANGED <<redisMenu, menu, failures, superseded, warmed, floor, answer>>
  BY DEF Restart, backend, history
<1>2. \A c \in Calls : call'[c] \in {call[c], None}
  BY <1>1
<1>3. \A q \in Procs : cache'[q] \in {cache[q], None}
  BY <1>1 DEF IInv, TypeOK
<1>4. TypeOK'
  BY <1>1 DEF IInv, TypeOK
<1>5. \A c \in Calls : Alike(c)
  BY <1>2 DEF Alike
<1>6. Freshness' /\ AboveFloor'
  BY <1>1, <1>3, <1>5, FreshFrame, FloorFrame DEF Same
<1>7. WarmedKnown'
  BY <1>1 DEF IInv, WarmedKnown, Known
<1>8. Undisturbed'
  <2>1. \A c \in Calls : call[c] # None => Proc(c) \in Procs
    BY MenusHeld DEF IInv
  <2> QED BY <1>2, <1>3, <2>1 DEF IInv, Undisturbed, Proc
<1> QED BY <1>4, <1>6, <1>7, <1>8 DEF IInv

\* A menu that is replaced was current until now.
LEMMA PublishInv ==
    ASSUME IInv, Publish
    PROVE  IInv'
<1>1. /\ menu' = menu + 1 /\ menu < MaxMenu /\ menu \in Nat /\ menu >= 1
      /\ superseded' = [v \in 1..menu |-> IF v = menu THEN 0 ELSE superseded[v]]
      /\ UNCHANGED <<cache, redisMenu, call, failures, warmed, floor, answer>>
  BY Numbers DEF Publish, history, IInv, TypeOK, WarmedKnown
<1>2. TypeOK'
  <2>1. menu' \in Menus
    BY <1>1, Numbers
  <2>2. superseded' \in [1..(menu' - 1) -> 0..(Bound + 1)]
    <3>1. \A v \in 1..menu : v = menu \/ v \in 1..(menu - 1)
      BY <1>1
    <3>2. 1..(menu' - 1) = 1..menu
      BY <1>1
    <3> QED BY <1>1, <3>1, <3>2, Numbers DEF IInv, TypeOK
  <2>3. \A p \in Procs : floor[p] \in 1..menu'
    BY <1>1 DEF IInv, TypeOK
  <2>4. floor' \in [Procs -> 1..menu']
    BY <1>1, <2>3 DEF IInv, TypeOK
  <2> QED BY <1>1, <2>1, <2>2, <2>4 DEF IInv, TypeOK
<1>3. ASSUME NEW v, NEW k \in Int, k >= 0, Fresh(v, k) PROVE Fresh(v, k)'
  BY <1>1, <1>3 DEF Fresh
<1>4. \A v : Known(v) => Known(v)'
  BY <1>1 DEF Known
<1>5. /\ \A c \in Calls : call[c] # None =>
            call[c].time \in Int /\ call[c].time >= 0
            /\ MaxDelay + TTL + call[c].time \in Int /\ MaxDelay + TTL + call[c].time >= 0
      /\ redisMenu # None =>
            MaxDelay + TTL - redisMenu.ttl \in Int /\ MaxDelay + TTL - redisMenu.ttl >= 0
      /\ \A p \in Procs : cache[p] # None =>
            /\ 2 * MaxDelay + TTL + cache[p].age \in Int
            /\ 2 * MaxDelay + TTL + cache[p].age >= 0
  <2>1. \A c \in Calls : call[c] # None => call[c].time \in 0..MaxDelay
    BY MenusHeld DEF IInv
  <2>2. redisMenu # None => redisMenu.ttl \in 1..TTL
    BY MenusHeld DEF IInv
  <2>3. \A p \in Procs : cache[p] # None => cache[p].age \in 0..TTL
    BY MenusHeld DEF IInv
  <2> QED BY <2>1, <2>2, <2>3, Numbers
<1>6. ASSUME NEW c \in Calls PROVE CallFresh(c)'
  <2>1. CallFresh(c)
    BY DEF IInv, Freshness
  <2> QED BY <1>1, <1>3, <1>4, <1>5, <2>1 DEF CallFresh, At
<1>7. RedisFresh'
  <2>1. RedisFresh
    BY DEF IInv, Freshness
  <2> QED BY <1>1, <1>3, <1>5, <2>1 DEF RedisFresh
<1>8. ASSUME NEW p \in Procs PROVE MemoryFresh(p)'
  <2>1. MemoryFresh(p)
    BY DEF IInv, Freshness
  <2> QED BY <1>1, <1>3, <1>5, <2>1 DEF MemoryFresh, MemoryValid
<1>9. WarmedKnown'
  BY <1>1, <1>4 DEF IInv, WarmedKnown
<1>10. AboveFloor' /\ Undisturbed'
  BY <1>1 DEF IInv, AboveFloor, CallCurrent, Current, Undisturbed, At, Proc
<1> QED BY <1>2, <1>6, <1>7, <1>8, <1>9, <1>10 DEF IInv, Freshness

\* Every copy ages as fast as the menus that were superseded.
LEMMA TickInv ==
    ASSUME IInv, Tick
    PROVE  IInv'
<1>1. /\ UNCHANGED <<menu, failures, warmed, floor, answer>>
      /\ call' = [c \in Calls |->
                     IF call[c] = None THEN None ELSE [call[c] EXCEPT !.time = @ + 1]]
      /\ cache' = [p \in Procs |->
                      IF cache[p] = None \/ cache[p].age = TTL THEN cache[p]
                      ELSE [cache[p] EXCEPT !.age = @ + 1]]
      /\ redisMenu' = IF redisMenu = None \/ redisMenu.ttl = 1 THEN None
                      ELSE [redisMenu EXCEPT !.ttl = @ - 1]
      /\ superseded' = [v \in 1..(menu - 1) |->
                           IF superseded[v] <= Bound THEN superseded[v] + 1
                           ELSE superseded[v]]
      /\ superseded \in [1..(menu - 1) -> 0..(Bound + 1)]
  BY DEF Tick, history, IInv, TypeOK
<1>2. ASSUME NEW c \in Calls, call[c] # None
      PROVE  /\ call'[c] \in Running
             /\ call'[c].at = call[c].at /\ call'[c].menu = call[c].menu
             /\ call'[c].proc = call[c].proc /\ call'[c].alone = call[c].alone
             /\ call'[c].time = call[c].time + 1
             /\ call[c].time \in 0..MaxDelay
  <2>1. call[c] \in Running /\ call'[c] = [call[c] EXCEPT !.time = @ + 1]
    BY <1>1, <1>2, MenusHeld DEF IInv
  <2>2. call[c].time + 1 \in 0..MaxDelay
    BY <1>2, <2>1, Numbers DEF Tick, Running
  <2> QED BY <2>1, <2>2 DEF Running
<1>3. \A c \in Calls : call[c] = None => call'[c] = None
  BY <1>1
<1>4. ASSUME NEW p \in Procs, cache[p] # None
      PROVE  /\ cache'[p] \in [menu : Menus, age : 0..TTL]
             /\ cache'[p].menu = cache[p].menu
             /\ cache[p].age \in 0..TTL
             /\ cache'[p].age < TTL => cache'[p].age = cache[p].age + 1
  <2>1. cache[p] \in [menu : Menus, age : 0..TTL]
    BY <1>4, MenusHeld DEF IInv
  <2>2. CASE cache[p].age = TTL
    BY <1>1, <1>4, <2>1, <2>2
  <2>3. CASE cache[p].age # TTL
    <3>1. cache'[p] = [cache[p] EXCEPT !.age = @ + 1]
      BY <1>1, <1>4, <2>3
    <3>2. cache[p].age + 1 \in 0..TTL
      BY <2>1, <2>3, Numbers
    <3> QED BY <2>1, <3>1, <3>2
  <2> QED BY <2>2, <2>3
<1>5. \A p \in Procs : cache[p] = None => cache'[p] = None
  BY <1>1
<1>6. ASSUME redisMenu' # None
      PROVE  /\ redisMenu # None
             /\ redisMenu' \in [menu : Menus, ttl : 1..TTL]
             /\ redisMenu'.menu = redisMenu.menu /\ redisMenu'.ttl = redisMenu.ttl - 1
             /\ redisMenu.ttl \in 1..TTL
  <2>1. redisMenu # None /\ redisMenu.ttl # 1 /\ redisMenu \in [menu : Menus, ttl : 1..TTL]
    BY <1>1, <1>6 DEF IInv, TypeOK
  <2>2. redisMenu.ttl - 1 \in 1..TTL
    BY <2>1, Numbers
  <2> QED BY <1>1, <2>1, <2>2
<1>7. TypeOK'
  <2>1. superseded' \in [1..(menu' - 1) -> 0..(Bound + 1)]
    BY <1>1, Numbers
  <2>2. call' \in [Calls -> Running \cup {None}]
    BY <1>1, <1>2, <1>3
  <2>3. cache' \in [Procs -> [menu : Menus, age : 0..TTL] \cup {None}]
    BY <1>1, <1>4, <1>5
  <2>4. redisMenu' \in [menu : Menus, ttl : 1..TTL] \cup {None}
    BY <1>6
  <2> QED BY <1>1, <2>1, <2>2, <2>3, <2>4 DEF IInv, TypeOK
<1>8. ASSUME NEW v, NEW k \in Int, Fresh(v, k) PROVE Fresh(v, k + 1)'
  <2>1. ASSUME v \in 1..(menu - 1), superseded[v] <= k PROVE superseded'[v] <= k + 1
    BY <1>1, <1>8, <2>1, Numbers
  <2> QED BY <1>1, <1>8, <2>1 DEF Fresh
<1>9. \A v : Known(v) => Known(v)'
  BY <1>1 DEF Known
<1>10. ASSUME NEW c \in Calls PROVE CallFresh(c)'
  <2>1. CASE call[c] = None
    BY <1>3, <2>1 DEF CallFresh, At
  <2>2. CASE call[c] # None
    <3>1. PICK v, t : v = call[c].menu /\ t = call[c].time /\ t \in Int
      <4>1. call[c].time \in Int
        BY <1>2, <2>2, Numbers
      <4> QED BY <4>1
    <3>2. CallFresh(c) /\ MaxDelay + TTL + t \in Int
          /\ MaxDelay + TTL + t + 1 = MaxDelay + TTL + (t + 1)
      BY <3>1, Numbers DEF IInv, Freshness
    <3>3. At(c, "fetched") \/ At(c, "save") => Fresh(v, t + 1)'
      BY <1>8, <3>1, <3>2 DEF CallFresh
    <3>4. At(c, "loaded") /\ v # None => Fresh(v, MaxDelay + TTL + (t + 1))'
      <4>1. At(c, "loaded") /\ v # None => Fresh(v, MaxDelay + TTL + t + 1)'
        BY <1>8, <3>1, <3>2 DEF CallFresh
      <4> QED BY <3>2, <4>1
    <3>5. At(c, "warm") => Known(v)'
      BY <1>9, <3>1, <3>2 DEF CallFresh
    <3>6. call'[c].menu = v /\ call'[c].time = t + 1 /\ call'[c].at = call[c].at
      BY <1>2, <2>2, <3>1
    <3> QED BY <2>2, <3>3, <3>4, <3>5, <3>6 DEF CallFresh, At
  <2> QED BY <2>1, <2>2
<1>11. RedisFresh'
  <2> SUFFICES ASSUME redisMenu' # None
               PROVE  Fresh(redisMenu.menu, MaxDelay + TTL - redisMenu.ttl)'
    BY DEF RedisFresh
  <2>1. PICK v, t : v = redisMenu.menu /\ t = redisMenu.ttl /\ t \in Int
    BY <1>6
  <2>2. MaxDelay + TTL - t \in Int /\ MaxDelay + TTL - (t - 1) = MaxDelay + TTL - t + 1
    BY <2>1, Numbers
  <2>3. Fresh(v, MaxDelay + TTL - t + 1)'
    BY <1>6, <1>8, <2>1, <2>2 DEF IInv, Freshness, RedisFresh
  <2>4. Fresh(v, MaxDelay + TTL - (t - 1))'
    BY <2>2, <2>3
  <2> QED BY <1>6, <2>1, <2>4
<1>12. ASSUME NEW p \in Procs PROVE MemoryFresh(p)'
  <2> SUFFICES ASSUME cache'[p] # None, cache'[p].age < TTL
               PROVE  Fresh(cache[p].menu, 2 * MaxDelay + TTL + cache[p].age)'
    BY DEF MemoryFresh, MemoryValid
  <2>1. cache[p] # None
    BY <1>5
  <2>2. PICK v, a : v = cache[p].menu /\ a = cache[p].age /\ a \in Int
    <3>1. cache[p].age \in Int
      BY <1>4, <2>1, Numbers
    <3> QED BY <3>1
  <2>3. /\ cache'[p].age = a + 1 /\ cache'[p].menu = v
        /\ 2 * MaxDelay + TTL + a \in Int
        /\ 2 * MaxDelay + TTL + (a + 1) = 2 * MaxDelay + TTL + a + 1
    BY <1>4, <2>1, <2>2, Numbers
  <2>4. a < TTL
    BY <1>4, <2>1, <2>2, <2>3, Numbers
  <2>5. Fresh(v, 2 * MaxDelay + TTL + a + 1)'
    BY <1>8, <2>1, <2>2, <2>3, <2>4 DEF IInv, Freshness, MemoryFresh, MemoryValid
  <2>6. Fresh(v, 2 * MaxDelay + TTL + (a + 1))'
    BY <2>3, <2>5
  <2> QED BY <2>3, <2>6
<1>13. WarmedKnown'
  BY <1>1, <1>9 DEF IInv, WarmedKnown
<1>14. ASSUME NEW p \in Procs
       PROVE  /\ cache'[p] # None => Current(p, cache[p].menu)'
              /\ redisMenu' # None => Current(p, redisMenu.menu)'
              /\ \A c \in Calls : CallCurrent(p, c)'
  <2> USE DEF IInv, AboveFloor, Current
  <2>1. cache'[p] # None => Current(p, cache[p].menu)'
    BY <1>1, <1>4, <1>5
  <2>2. redisMenu' # None => Current(p, redisMenu.menu)'
    BY <1>1, <1>6
  <2>3. ASSUME NEW c \in Calls PROVE CallCurrent(p, c)'
    BY <1>1, <1>2, <1>3 DEF CallCurrent, At, Proc
  <2> QED BY <2>1, <2>2, <2>3
<1>15. Undisturbed'
  <2>1. \A c \in Calls : call[c] # None => Proc(c) \in Procs
    BY MenusHeld DEF IInv
  <2> QED BY <1>2, <1>3, <1>5, <2>1 DEF IInv, Undisturbed, Proc
<1> QED BY <1>7, <1>10, <1>11, <1>12, <1>13, <1>14, <1>15 DEF IInv, Freshness, AboveFloor

\* Every step of the providers, their processes and the backend keeps the invariant.
LEMMA StepInv == IInv /\ [Next]_vars => IInv'
<1> SUFFICES ASSUME IInv, [Next]_vars PROVE IInv'
  OBVIOUS
<1>1. ASSUME NEW c \in Calls, Step(c) PROVE IInv'
  BY <1>1, TypeStep, FreshStep, FloorStep, UndisturbedStep DEF IInv
<1>2. ASSUME NEW c \in Calls, NEW p \in Procs, Get(c, p) \/ Warm(c, p) \/ Invalidate(c, p)
      PROVE  IInv'
  BY <1>2, BeginInv
<1>3. ASSUME NEW p \in Procs, Restart(p) PROVE IInv'
  BY <1>3, RestartInv
<1>4. CASE Publish
  BY <1>4, PublishInv
<1>5. CASE Tick
  BY <1>5, TickInv
<1>6. CASE UNCHANGED vars
  BY <1>6 DEF vars, backend, history, IInv, TypeOK, Freshness, CallFresh, RedisFresh,
              MemoryFresh, MemoryValid, Fresh, Known, WarmedKnown, AboveFloor,
              CallCurrent, Current, Undisturbed, At, Proc
<1> QED BY <1>1, <1>2, <1>3, <1>4, <1>5, <1>6 DEF Next

-----------------------------------------------------------------------------
\* The inductive invariant of LaravelMenuContextProvider's calls and the two levels of cache.
THEOREM Invariance == Spec => []IInv
<1> QED BY InitInv, StepInv, PTL DEF Spec

\* Entries do not outlive DEFAULT_MENU_CACHE_TTL_SECONDS, in memory or in Redis.
THEOREM TypeCorrect == Spec => []TypeOK
<1>1. IInv => TypeOK
  BY DEF IInv
<1> QED BY <1>1, Invariance, PTL

\* What get_menu_context may answer with.
LEMMA Readable ==
    ASSUME IInv
    PROVE  /\ \A v : \A k \in Int : k <= Bound /\ Fresh(v, k) => v \in Register!Readable
           /\ \A p \in Procs : MemoryValid(p) => cache[p].menu \in Register!Readable
           /\ \A c \in Calls :
                 \/ At(c, "fetched") \/ At(c, "save")
                 \/ At(c, "loaded") /\ call[c].menu # None
                 => call[c].menu \in Register!Readable
<1>1. ASSUME NEW v, NEW k \in Int, k <= Bound, Fresh(v, k) PROVE v \in Register!Readable
  BY <1>1, Numbers DEF Register!Readable, Fresh, IInv, TypeOK
<1>2. ASSUME NEW p \in Procs, MemoryValid(p) PROVE cache[p].menu \in Register!Readable
  <2>1. /\ 2 * MaxDelay + TTL + cache[p].age \in Int
        /\ 2 * MaxDelay + TTL + cache[p].age <= Bound
    <3>1. cache[p].age \in 0..TTL
      BY <1>2, MenusHeld DEF IInv, MemoryValid
    <3> QED BY <3>1, Numbers
  <2> QED BY <1>1, <1>2, <2>1 DEF IInv, Freshness, MemoryFresh
<1>3. ASSUME NEW c \in Calls,
             \/ At(c, "fetched") \/ At(c, "save")
             \/ At(c, "loaded") /\ call[c].menu # None
      PROVE  call[c].menu \in Register!Readable
  <2>1. /\ call[c].time \in Int /\ call[c].time <= Bound
        /\ MaxDelay + TTL + call[c].time \in Int /\ MaxDelay + TTL + call[c].time <= Bound
    <3>1. call[c].time \in 0..MaxDelay
      BY <1>3, MenusHeld DEF IInv, At
    <3> QED BY <3>1, Numbers
  <2> QED BY <1>1, <1>3, <2>1 DEF IInv, Freshness, CallFresh
<1> QED BY <1>1, <1>2, <1>3

\* The register's reader has not been answered either.
LEMMA RegisterInit == Init => Register!Init
BY Numbers DEF Init, Register!Init

\* Every step is one of the register's, or leaves it alone: beginning a call asks, an answer
\* reads, a failed fetch fails, and warm_cache pins what is no longer the backend's.
LEMMA RegisterStep == IInv /\ IInv' /\ [Next]_vars => [Register!Next]_(Register!vars)
<1> SUFFICES ASSUME IInv, IInv', [Next]_vars PROVE Register!Next \/ UNCHANGED Register!vars
  OBVIOUS
<1> USE DEF Register!vars, Same
<1>1. ASSUME NEW c \in Calls, NEW v \in Register!Readable, Answers(c, v),
             Same, UNCHANGED <<failures, warmed>>
      PROVE  Register!Next \/ UNCHANGED Register!vars
  BY <1>1 DEF Answers, Register!Next, Register!Read, Register!Give
<1>2. ASSUME NEW c \in Calls, Step(c) PROVE Register!Next \/ UNCHANGED Register!vars
  <2>1. CASE HitDoes(c)
    <3>1. call[c] # None /\ Proc(c) \in Procs
      BY <2>1, MenusHeld DEF HitDoes, At, IInv
    <3> QED BY <1>1, <2>1, <3>1, Readable DEF HitDoes
  <2>2. CASE \/ LoadDoes(c) \/ LoadFailsDoes(c) \/ FetchDoes(c) \/ FetchedDoes(c)
             \/ DeleteDoes(c) \/ GiveUpDoes(c)
    BY <2>2 DEF LoadDoes, LoadFailsDoes, FetchDoes, FetchedDoes, DeleteDoes, GiveUpDoes
  <2>3. CASE LoadedDoes(c)
    BY <1>1, <2>3, Readable DEF LoadedDoes
  <2>4. CASE FetchFailsDoes(c)
    <3>1. Register!Fail(c)
      BY <2>4 DEF FetchFailsDoes, Answers, Register!Fail, Register!Give
    <3> QED BY <3>1 DEF Register!Next
  <2>5. CASE SaveDoes(c) \/ SaveFailsDoes(c)
    BY <1>1, <2>5, Readable DEF SaveDoes, SaveFailsDoes
  <2>6. CASE SaveWarmDoes(c)
    <3>1. CASE warmed' = warmed
      BY <2>6, <3>1 DEF SaveWarmDoes
    <3>2. CASE call[c].menu # menu /\ warmed' = warmed \cup {call[c].menu}
      <4>1. Known(call[c].menu)
        BY <2>6 DEF SaveWarmDoes, IInv, Freshness, CallFresh
      <4>2. call[c].menu \in DOMAIN superseded \cup {menu}
                                 \cup (IF failures = 0 THEN {} ELSE {Mock})
        BY <3>2, <4>1, Numbers DEF Known, IInv, TypeOK
      <4>3. Register!Pin
        BY <2>6, <3>2, <4>2 DEF SaveWarmDoes, Register!Pin
      <4> QED BY <4>3 DEF Register!Next
    <3> QED BY <2>6, <3>1, <3>2 DEF SaveWarmDoes
  <2> QED BY <1>2, <2>1, <2>2, <2>3, <2>4, <2>5, <2>6, StepFacts
<1>3. ASSUME NEW c \in Calls, NEW p \in Procs, Get(c, p) \/ Warm(c, p) \/ Invalidate(c, p)
      PROVE  Register!Next
  <2>1. /\ answer' = [answer EXCEPT ![c] = None]
        /\ UNCHANGED <<menu, superseded, failures, warmed>>
    BY <1>3, BeginInv DEF Get, Warm, Invalidate, Begin, backend
  <2> QED BY <2>1 DEF Register!Next, Register!Ask, Register!Give
<1>4. ASSUME NEW p \in Procs, Restart(p) PROVE UNCHANGED Register!vars
  BY <1>4 DEF Restart, backend, history
<1>5. CASE Publish
  <2>1. DOMAIN superseded \cup {menu} = 1..menu
    BY Numbers DEF IInv, TypeOK, WarmedKnown
  <2>2. Register!Publish
    BY <1>5, <2>1 DEF Publish, history, Register!Publish
  <2> QED BY <2>2 DEF Register!Next
<1>6. CASE Tick
  BY <1>6 DEF Tick, history, Register!Next, Register!Tick, Register!Older
<1>7. CASE UNCHANGED vars
  BY <1>7 DEF vars, backend, history
<1> QED BY <1>2, <1>3, <1>4, <1>5, <1>6, <1>7 DEF Next

\* The two levels of cache, as get_menu_context, invalidate_cache and warm_cache use them, are
\* a register that lags at most twice the time to live and two calls behind the backend.
THEOREM Implements == Spec => RegisterSpec
<1> QED BY RegisterInit, RegisterStep, Invariance, PTL DEF Spec, RegisterSpec, Register!Spec

\* Whatever get_menu_context answers from is no older than the floor of its process.
LEMMA AnswersCurrent ==
    ASSUME IInv, [Next]_vars, NEW r \in Calls, Answered(r)
    PROVE  answer'[r] = Mock \/ answer'[r] >= floor[Proc(r)]
<1> SUFFICES Current(Proc(r), answer'[r])
  BY DEF Current
<1> USE DEF Answered
<1>1. ASSUME NEW c \in Calls, NEW v, Answers(c, v)
      PROVE  c = r /\ answer'[r] = v
  BY <1>1 DEF Answers, IInv, TypeOK
<1>2. ASSUME NEW c \in Calls, Step(c) PROVE Current(Proc(r), answer'[r])
  <2>1. CASE HitDoes(c)
    <3>1. MemoryValid(Proc(c)) /\ Answers(c, cache[Proc(c)].menu) /\ Proc(c) \in Procs
      BY <2>1, MenusHeld DEF HitDoes, At, IInv
    <3> QED BY <1>1, <3>1 DEF IInv, AboveFloor, MemoryValid
  <2>2. CASE LoadedDoes(c)
    <3>1. At(c, "loaded") /\ call[c].menu # None /\ Answers(c, call[c].menu)
          /\ Proc(c) \in Procs
      BY <2>2, MenusHeld DEF LoadedDoes, At, IInv
    <3> QED BY <1>1, <3>1 DEF IInv, AboveFloor, CallCurrent
  <2>3. CASE FetchFailsDoes(c)
    BY <1>1, <2>3 DEF FetchFailsDoes, Current
  <2>4. CASE SaveDoes(c) \/ SaveFailsDoes(c)
    <3>1. At(c, "save") /\ Answers(c, call[c].menu) /\ Proc(c) \in Procs
      BY <2>4, MenusHeld DEF SaveDoes, SaveFailsDoes, At, IInv
    <3> QED BY <1>1, <3>1 DEF IInv, AboveFloor, CallCurrent
  <2>5. CASE \/ LoadDoes(c) \/ LoadFailsDoes(c) \/ FetchDoes(c) \/ FetchedDoes(c)
             \/ SaveWarmDoes(c) \/ DeleteDoes(c) \/ GiveUpDoes(c)
    BY <2>5 DEF LoadDoes, LoadFailsDoes, FetchDoes, FetchedDoes, SaveWarmDoes, DeleteDoes,
                GiveUpDoes
  <2> QED BY <1>2, <2>1, <2>2, <2>3, <2>4, <2>5, StepFacts
<1>3. ASSUME NEW c \in Calls, NEW p \in Procs, Get(c, p) \/ Warm(c, p) \/ Invalidate(c, p)
      PROVE  FALSE
  <2>1. answer' = [answer EXCEPT ![c] = None]
    BY <1>3, BeginInv
  <2> QED BY <2>1 DEF IInv, TypeOK
<1>4. answer' # answer
  OBVIOUS
<1> QED BY <1>2, <1>3, <1>4 DEF Next, Restart, Publish, Tick, vars, history

\* invalidate_cache takes effect in its process, unless another call of that process, or an
\* older menu on its way to a cache, or a later warm_cache of an older menu, undoes it.
THEOREM InvalidationCorrect == Spec => InvalidationTakesEffect
<1>1. IInv /\ [Next]_vars =>
        [\A c \in Calls :
             Answered(c) => answer'[c] = Mock \/ answer'[c] >= floor[Proc(c)]]_vars
  BY AnswersCurrent
<1> QED BY <1>1, Invariance, PTL DEF Spec, InvalidationTakesEffect
=============================================================================
