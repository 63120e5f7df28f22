------------------------- MODULE RedisLock_proofs --------------------------
(***************************************************************************)
(* Theorems about the lock, for any number of processes, users and lock    *)
(* values, and any time to live: what the module's variables hold, who may *)
(* take the lock from its owner, and that a user that asked for extension  *)
(* is its only owner as long as nothing goes wrong.                        *)
(***************************************************************************)
EXTENDS RedisLock, TLAPS

\* Nothing has happened that takes the lock from a user that extends it.
Quiet == "disturbed" \notin happened

\* Two users never have the same lock value.
OwnTokens ==
    \A u, w \in Users : user[u] # None /\ user[w] # None /\ Token(u) = Token(w) => u = w

\* A process that has a user has a client, and none is closed.
ClientsOpen ==
    Quiet => /\ \A p \in Procs : ~closed[p]
             /\ \A u \in Users : user[u] # None => client[Proc(u)]

\* The extension of a held lock is awake in time.
Extended(u) ==
    LET v == Token(u) IN
    /\ Owns(v)
    /\ loop[v] # None
    /\ loop[v].proc = Proc(u)
    /\ \/ loop[v].at = "fresh" /\ loop[v].left = HalfTTL
       \/ loop[v].at = "asleep"
    /\ lock.ttl > loop[v].left

\* Users that are to have the lock: those that have just got it, and those that extend it.
Extends(u) == At(u, "held") /\ user[u].auto
Holds(u) == At(u, "won") \/ Extends(u)

\* Those who are to have the lock own it.  It is new when acquire_lock returns.
Kept ==
    Quiet => \A u \in Users :
                /\ At(u, "won") => Owns(Token(u)) /\ lock.ttl = TTL
                /\ Extends(u) => Extended(u)

\* Two users that have the lock and extend it are the same.
MutualExclusion ==
    Quiet => \A u, w \in Users :
                /\ At(u, "held") /\ user[u].auto
                /\ At(w, "held") /\ user[w].auto
                => u = w

\* The inductive invariant.
IInv == TypeOK /\ OwnTokens /\ ClientsOpen /\ Kept

-----------------------------------------------------------------------------
\* The sleep of the loop is shorter than the time to live.
LEMMA HalfTTLType == HalfTTL \in Nat /\ HalfTTL < TTL
  BY LockAssumption DEF HalfTTL

\* The values that the actions store are of the types of TypeOK.
LEMMA RecordTypes ==
    /\ \A v \in Tokens : Locked(v) \in Locks
    /\ \A r \in Locks : r.ttl # 1 => [r EXCEPT !.ttl = @ - 1] \in Locks
    /\ \A r \in Locks, extra \in Extensions : [r EXCEPT !.ttl = extra] \in Locks
    /\ \A r \in Uses, step \in {"set", "won", "held", "release"} :
          [r EXCEPT !.at = step] \in Uses
    /\ \A r \in Uses : r.tries < MaxRetries => [r EXCEPT !.tries = @ + 1] \in Uses
    /\ \A r \in Loops : [r EXCEPT !.at = "cancelled"] \in Loops
    /\ \A r \in Loops : r.left > 0 => [r EXCEPT !.left = @ - 1] \in Loops
    /\ \A p \in Procs : [proc |-> p, at |-> "fresh", left |-> HalfTTL] \in Loops
    /\ \A p \in Procs : [proc |-> p, at |-> "asleep", left |-> HalfTTL] \in Loops
<1>1. \A v \in Tokens : Locked(v) \in Locks
  BY LockAssumption DEF Locked, Locks
<1>2. \A r \in Locks : r.ttl # 1 => [r EXCEPT !.ttl = @ - 1] \in Locks
  <2> SUFFICES ASSUME NEW r \in Locks, r.ttl # 1 PROVE [r EXCEPT !.ttl = @ - 1] \in Locks
    OBVIOUS
  <2>1. PICK most \in Extensions \cup {TTL} : r.ttl <= most
    BY DEF Locks
  <2>2. /\ r \in [value : Tokens, ttl : Nat] /\ r.ttl - 1 \in Nat /\ r.ttl - 1 > 0
        /\ most \in Nat /\ r.ttl - 1 <= most
    BY <2>1, LockAssumption DEF Locks
  <2> QED BY <2>2 DEF Locks
<1>3. \A r \in Locks, extra \in Extensions : [r EXCEPT !.ttl = extra] \in Locks
  BY LockAssumption DEF Locks
<1> QED BY <1>1, <1>2, <1>3, LockAssumption, HalfTTLType DEF Uses, Loops

\* Cancelling a loop leaves the loops well typed.
LEMMA CancelledType ==
    ASSUME TypeOK, NEW v \in Tokens PROVE Cancelled(v) \in [Tokens -> Loops \cup {None}]
  BY RecordTypes DEF Cancelled, TypeOK

\* The initial state is well typed.
LEMMA TypeInit == Init => TypeOK
  BY DEF Init, TypeOK

\* Every step keeps the types: the tries of acquire_lock stay within MaxRetries, and the
\* time to live of the key and the sleep of a loop within their bounds.
LEMMA TypeStep == TypeOK /\ [Next]_vars => TypeOK'
<1> SUFFICES ASSUME TypeOK, [Next]_vars PROVE TypeOK'
  OBVIOUS
<1> USE DEF TypeOK, tasks, connection, Happens
<1>1. ASSUME NEW p \in Procs, Connect(p) \/ ConnectFails(p) PROVE TypeOK'
  BY <1>1 DEF Connect, ConnectFails
<1>2. ASSUME NEW p \in Procs, Disconnect(p) PROVE TypeOK'
  BY <1>2, CancelledType DEF Disconnect
<1>3. ASSUME NEW p \in Procs, Crash(p) PROVE TypeOK'
  BY <1>3 DEF Crash
<1>4. ASSUME NEW u \in Users, NEW p \in Procs, Acquire(u, p) PROVE TypeOK'
  BY <1>4, LockAssumption DEF Acquire, Uses
<1>5. ASSUME NEW u \in Users, user[u] # None
      PROVE  user[u] \in Uses /\ Token(u) \in Tokens /\ Proc(u) \in Procs
  BY <1>5 DEF Token, Proc, Uses
<1>6. ASSUME NEW u \in Users, Set(u) \/ SetFails(u) PROVE TypeOK'
  <2>1. /\ user[u] \in Uses /\ Token(u) \in Tokens
        /\ Locked(Token(u)) \in Locks /\ [user[u] EXCEPT !.at = "won"] \in Uses
    BY <1>5, <1>6, RecordTypes DEF Set, SetFails, At
  <2>2. lock' \in Locks \cup {None}
    BY <1>6, <2>1 DEF Set, SetFails
  <2>3. user' \in [Users -> Uses \cup {None}]
    <3>1. RetriesLeft(u) => [user[u] EXCEPT !.tries = @ + 1] \in Uses
      BY <2>1, RecordTypes DEF RetriesLeft
    <3> QED BY <1>6, <2>1, <3>1 DEF Set, SetFails, Go, Stop
  <2> QED BY <1>6, <2>2, <2>3 DEF Set, SetFails
<1>7. ASSUME NEW u \in Users, Won(u) PROVE TypeOK'
  <2>1. user[u] # None /\ user[u] \in Uses /\ Token(u) \in Tokens /\ Proc(u) \in Procs
    BY <1>5, <1>7 DEF Won, At
  <2>2. user' \in [Users -> Uses \cup {None}]
    BY <1>7, <2>1, RecordTypes DEF Won, Go
  <2>3. loop' \in [Tokens -> Loops \cup {None}]
    <3> DEFINE old == table[Proc(u)]
               before == IF old = None THEN loop ELSE Cancelled(old)
               fresh == [proc |-> Proc(u), at |-> "fresh", left |-> HalfTTL]
    <3>1. before \in [Tokens -> Loops \cup {None}]
      BY <2>1, CancelledType
    <3>2. fresh \in Loops
      BY <2>1, RecordTypes
    <3>3. loop' = [before EXCEPT ![Token(u)] = fresh] \/ loop' = loop
      BY <1>7 DEF Won
    <3> HIDE DEF before, fresh
    <3> QED BY <3>1, <3>2, <3>3
  <2>4. table' \in [Procs -> Tokens \cup {None}]
    BY <1>7, <2>1 DEF Won
  <2> QED BY <1>7, <2>2, <2>3, <2>4 DEF Won
<1>8. ASSUME NEW u \in Users, Extend(u) PROVE TypeOK'
  <2>1. PICK extra \in Extensions : lock' = [lock EXCEPT !.ttl = extra]
    BY <1>8 DEF Extend
  <2>2. lock \in Locks
    BY <1>8 DEF Extend, Owns
  <2> QED BY <1>8, <2>1, <2>2, RecordTypes DEF Extend
<1>9. ASSUME NEW u \in Users, Release(u) PROVE TypeOK'
  BY <1>5, <1>9, RecordTypes, CancelledType DEF Release, At, Go, Stop, Runaway
<1>10. ASSUME NEW u \in Users, Delete(u) \/ DeleteFails(u) PROVE TypeOK'
  BY <1>5, <1>10 DEF Delete, DeleteFails, At, Stop, Runaway
<1>11. ASSUME NEW v \in Tokens, LoopStep(v) PROVE TypeOK'
  <2>1. loop[v] \in Loops /\ loop[v].proc \in Procs
    BY <1>11 DEF LoopStep, StartLoop, ExtendLoop, ExtendFails, Unwind, Looping, Loops
  <2>2. EndLoop(v) => /\ loop' \in [Tokens -> Loops \cup {None}]
                      /\ table' \in [Procs -> Tokens \cup {None}]
    BY DEF EndLoop
  <2>3. Sleep(v) => loop' \in [Tokens -> Loops \cup {None}]
    BY <2>1, RecordTypes DEF Sleep
  <2>4. Locked(v) \in Locks
    BY RecordTypes
  <2> QED BY <1>11, <2>2, <2>3, <2>4 DEF LoopStep, StartLoop, ExtendLoop, ExtendFails, Unwind
<1>12. CASE Tick
  <2>1. lock' \in Locks \cup {None}
    BY <1>12, RecordTypes DEF Tick
  <2>2. loop' \in [Tokens -> Loops \cup {None}]
    BY <1>12, RecordTypes DEF Tick, Looping
  <2> QED BY <1>12, <2>1, <2>2 DEF Tick
<1>13. CASE UNCHANGED vars
  BY <1>13 DEF vars
<1> QED BY <1>1, <1>2, <1>3, <1>4, <1>6, <1>7, <1>8, <1>9, <1>10, <1>11, <1>12, <1>13
       DEF Next, UserStep

-----------------------------------------------------------------------------
\* A user that is to have the lock owns it, with a value of its own, and is the only one.
LEMMA OneHolder ==
    ASSUME IInv, Quiet, NEW u \in Users, Holds(u)
    PROVE  /\ user[u] # None /\ user[u] \in Uses /\ Token(u) \in Tokens /\ Proc(u) \in Procs
           /\ Owns(Token(u))
           /\ \A v \in Tokens : Owns(v) => v = Token(u)
           /\ \A w \in Users : user[w] # None /\ Token(w) = Token(u) => w = u
           /\ \A w \in Users : Holds(w) => w = u
<1>1. user[u] # None /\ user[u] \in Uses /\ Token(u) \in Tokens /\ Proc(u) \in Procs
  BY DEF IInv, TypeOK, Holds, At, Extends, Token, Proc, Uses
<1>2. \A w \in Users : Holds(w) => user[w] # None /\ Owns(Token(w))
  BY DEF IInv, Kept, Holds, Extended, At, Extends
<1>3. \A v \in Tokens : Owns(v) => v = Token(u)
  BY <1>2 DEF Owns
<1>4. \A w \in Users : user[w] # None /\ Token(w) = Token(u) => w = u
  BY <1>1 DEF IInv, OwnTokens
<1> QED BY <1>1, <1>2, <1>3, <1>4 DEF Owns

\* The initial state satisfies the invariant.
LEMMA InitInv == Init => IInv
  BY TypeInit DEF Init, IInv, OwnTokens, ClientsOpen, Kept, At, Extends, Quiet

\* The client: connect, disconnect and a crash of the process.
LEMMA ProcInv ==
    ASSUME IInv, NEW p \in Procs, Connect(p) \/ ConnectFails(p) \/ Disconnect(p) \/ Crash(p)
    PROVE  OwnTokens' /\ ClientsOpen' /\ Kept'
<1>1. CASE Connect(p)
  BY <1>1 DEF Connect, IInv, TypeOK, OwnTokens, ClientsOpen, Kept, Extended, Quiet, At,
              Extends, Owns, Token, Proc, tasks
<1>2. CASE ConnectFails(p) \/ Disconnect(p)
  <2>1. ~Quiet'
    BY <1>2 DEF ConnectFails, Disconnect, Happens, Quiet
  <2>2. OwnTokens'
    BY <1>2 DEF ConnectFails, Disconnect, IInv, OwnTokens, Token, tasks
  <2> QED BY <2>1, <2>2 DEF ClientsOpen, Kept
<1>3. CASE Crash(p)
  <2>1. Quiet' => Quiet
    BY <1>3 DEF Crash, Quiet
  <2>2. \A u \in Users : user'[u] # None => user'[u] = user[u] /\ user[u].proc # p
    BY <1>3 DEF Crash, Proc
  <2>3. OwnTokens'
    BY <2>2 DEF IInv, OwnTokens, Token
  <2>4. ClientsOpen'
    BY <1>3, <2>1, <2>2 DEF Crash, IInv, TypeOK, ClientsOpen, Proc
  <2>5. Kept'
    <3> SUFFICES ASSUME Quiet', NEW u \in Users, user'[u] # None
                 PROVE  /\ At(u, "won")' => Owns(Token(u))' /\ lock'.ttl = TTL
                        /\ Extends(u)' => Extended(u)'
      BY DEF Kept, At, Extends
    <3>1. /\ Quiet
          /\ user'[u] = user[u] /\ user[u].proc # p /\ user[u].value \in Tokens
          /\ lock' = lock
      BY <1>3, <2>1, <2>2 DEF Crash, IInv, TypeOK, Uses
    <3>2. Extended(u) => loop'[Token(u)] = loop[Token(u)]
      BY <1>3, <3>1 DEF Crash, Extended, Token, Proc
    <3> QED BY <3>1, <3>2 DEF IInv, Kept, At, Extends, Owns, Token, Proc, Extended
  <2> QED BY <2>3, <2>4, <2>5
<1> QED BY <1>1, <1>2, <1>3

\* acquire_lock begins, with a value that nobody else has.
LEMMA AcquireInv ==
    ASSUME IInv, NEW u \in Users, NEW p \in Procs, Acquire(u, p)
    PROVE  OwnTokens' /\ ClientsOpen' /\ Kept'
<1>1. PICK v \in Tokens, auto \in BOOLEAN :
         /\ Unused(v)
         /\ user' = [user EXCEPT ![u] = [proc |-> p, at |-> "set", value |-> v,
                                         auto |-> auto, tries |-> 1]]
  BY DEF Acquire
<1>2. UNCHANGED <<lock, loop, table, client, closed, happened>> /\ client[p]
  BY DEF Acquire, connection, Usable
<1>3. \A w \in Users : w # u => user'[w] = user[w]
  BY <1>1 DEF IInv, TypeOK
<1>4. user'[u].at = "set" /\ user'[u].value = v /\ user'[u].proc = p
  BY <1>1 DEF IInv, TypeOK
<1>5. OwnTokens'
  BY <1>1, <1>3, <1>4 DEF IInv, OwnTokens, Token, Unused
<1>6. ClientsOpen'
  BY <1>2, <1>3, <1>4 DEF IInv, ClientsOpen, Quiet, Proc
<1>7. Kept'
  BY <1>2, <1>3, <1>4 DEF IInv, Kept, Quiet, At, Extends, Owns, Token, Extended, Proc
<1> QED BY <1>5, <1>6, <1>7

\* SET NX gives the lock to one user at a time.
LEMMA SetInv ==
    ASSUME IInv, NEW u \in Users, Set(u) \/ SetFails(u)
    PROVE  OwnTokens' /\ ClientsOpen' /\ Kept'
<1>1. /\ At(u, "set") /\ user[u] \in Uses
      /\ UNCHANGED <<loop, table, client, closed>>
      /\ Quiet' => Quiet
      /\ \A w \in Users : w # u => user'[w] = user[w]
      /\ user'[u] # None => user'[u].proc = user[u].proc /\ user'[u].value = user[u].value
  BY DEF Set, SetFails, IInv, TypeOK, At, Go, Stop, connection, Happens, Quiet, Uses
<1>2. OwnTokens'
  BY <1>1 DEF IInv, OwnTokens, Token, At
<1>3. ClientsOpen'
  BY <1>1 DEF IInv, ClientsOpen, Proc, At
<1>4. Kept'
  <2>1. CASE SetFails(u)
    BY <2>1 DEF SetFails, Happens, Quiet, Kept
  <2>2. CASE Set(u) /\ lock = None
    <3>1. /\ lock' = Locked(Token(u)) /\ lock' # None
          /\ user'[u].at = "won" /\ user'[u].value = user[u].value
      BY <1>1, <2>2, NoneAssumption, RecordTypes DEF Set, Go, Token, Uses, IInv, TypeOK
    <3>2. ASSUME Quiet', NEW w \in Users, w # u PROVE ~Holds(w)'
      <4>1. ~Holds(w)
        BY <1>1, <2>2, <3>2, OneHolder DEF Owns
      <4> QED BY <1>1, <3>2, <4>1 DEF Holds, At, Extends
    <3>3. Owns(Token(u))' /\ lock'.ttl = TTL
      BY <3>1 DEF Owns, Token, Locked
    <3> SUFFICES ASSUME Quiet', NEW w \in Users
                 PROVE  /\ At(w, "won")' => Owns(Token(w))' /\ lock'.ttl = TTL
                        /\ Extends(w)' => Extended(w)'
      BY DEF Kept
    <3>4. CASE w # u
      BY <3>2, <3>4 DEF Holds
    <3>5. CASE w = u
      BY <3>1, <3>3, <3>5 DEF At, Extends
    <3> QED BY <3>4, <3>5
  <2>3. CASE Set(u) /\ lock # None
    BY <1>1, <2>3 DEF Set, Stop, IInv, TypeOK, Kept, At, Extends, Owns, Token, Proc, Extended
  <2> QED BY <2>1, <2>2, <2>3
<1> QED BY <1>2, <1>3, <1>4

\* acquire_lock returns, and the loop it starts has a new lock to extend.
LEMMA WonInv ==
    ASSUME IInv, NEW u \in Users, Won(u)
    PROVE  OwnTokens' /\ ClientsOpen' /\ Kept'
<1>1. /\ At(u, "won") /\ user[u] # None /\ user[u] \in Uses /\ Token(u) \in Tokens
      /\ UNCHANGED <<lock, client, closed, happened>>
      /\ user' = [user EXCEPT ![u].at = "held"]
  BY DEF Won, IInv, TypeOK, At, Go, connection, Uses, Token
<1>2. /\ \A w \in Users : w # u => user'[w] = user[w]
      /\ user'[u] = [user[u] EXCEPT !.at = "held"]
  BY <1>1 DEF IInv, TypeOK
<1>3. OwnTokens'
  BY <1>1, <1>2 DEF IInv, OwnTokens, Token, Uses
<1>4. ClientsOpen'
  BY <1>1, <1>2 DEF IInv, ClientsOpen, Proc, Uses, Quiet
<1>5. Kept'
  <2> SUFFICES ASSUME Quiet PROVE Kept'
    BY <1>1 DEF Kept, Quiet
  <2>1. Owns(Token(u)) /\ lock.ttl = TTL
    BY <1>1 DEF IInv, Kept
  <2>2. ASSUME NEW w \in Users, w # u PROVE ~Holds(w)'
    <3>1. Holds(u)
      BY <1>1 DEF Holds
    <3>2. ~Holds(w)
      BY <2>2, <3>1, OneHolder
    <3> QED BY <1>2, <2>2, <3>2 DEF Holds, At, Extends
  <2>3. /\ user'[u].at = "held" /\ user'[u].auto = user[u].auto
        /\ Token(u)' = Token(u) /\ Proc(u)' = Proc(u)
    BY <1>1, <1>2 DEF Token, Proc, Uses
  <2>4. user[u].auto => loop'[Token(u)] = [proc |-> Proc(u), at |-> "fresh", left |-> HalfTTL]
    <3> DEFINE old == table[Proc(u)]
               before == IF old = None THEN loop ELSE Cancelled(old)
               fresh == [proc |-> Proc(u), at |-> "fresh", left |-> HalfTTL]
    <3>1. DOMAIN before = Tokens
      BY DEF Cancelled, IInv, TypeOK
    <3>2. user[u].auto => loop' = [before EXCEPT ![Token(u)] = fresh]
      BY DEF Won
    <3> HIDE DEF before, fresh
    <3>3. user[u].auto => loop'[Token(u)] = fresh
      BY <1>1, <3>1, <3>2
    <3> QED BY <3>3 DEF fresh
  <2>5. user[u].auto => Extended(u)'
    <3> SUFFICES ASSUME user[u].auto PROVE Extended(u)'
      OBVIOUS
    <3>1. Proc(u) \in Procs
      BY <1>1 DEF Proc, Uses
    <3>2. loop'[Token(u)] # None
      BY <2>4, <3>1, RecordTypes, NoneAssumption
    <3> QED BY <1>1, <2>1, <2>3, <2>4, <3>2, HalfTTLType DEF Extended, Owns
  <2> SUFFICES ASSUME NEW w \in Users
               PROVE  /\ At(w, "won")' => Owns(Token(w))' /\ lock'.ttl = TTL
                      /\ Extends(w)' => Extended(w)'
    BY DEF Kept
  <2>6. CASE w # u
    BY <2>2, <2>6 DEF Holds
  <2>7. CASE w = u
    BY <2>3, <2>5, <2>7 DEF At, Extends
  <2> QED BY <2>6, <2>7
<1> QED BY <1>3, <1>4, <1>5

\* extend_lock: the lock stays its owner's, and undisturbed it outlives the loop's sleep.
LEMMA ExtendInv ==
    ASSUME IInv, NEW u \in Users, Extend(u)
    PROVE  OwnTokens' /\ ClientsOpen' /\ Kept'
<1>1. /\ At(u, "held") /\ user[u] # None /\ user[u] \in Uses /\ Token(u) \in Tokens
      /\ UNCHANGED <<user, loop, table, client, closed>>
      /\ Owns(Token(u)) /\ lock \in Locks
  BY DEF Extend, IInv, TypeOK, At, Owns, Token, Uses, tasks, connection
<1>2. PICK extra \in Extensions :
         /\ lock' = [lock EXCEPT !.ttl = extra]
         /\ Quiet' => Quiet /\ (loop[Token(u)] # None => ~(extra <= loop[Token(u)].left))
  BY DEF Extend, Quiet
<1>3. Owns(Token(u))' /\ lock'.ttl = extra
  <2>1. lock' \in Locks /\ lock'.value = lock.value /\ lock'.ttl = extra
    BY <1>1, <1>2, RecordTypes DEF Locks
  <2> QED BY <1>1, <2>1, NoneAssumption DEF Owns, Token
<1>4. OwnTokens' /\ ClientsOpen'
  BY <1>1, <1>2 DEF IInv, OwnTokens, ClientsOpen, Token, Proc
<1>5. Kept'
  <2> SUFFICES ASSUME Quiet', NEW w \in Users, Holds(w)
               PROVE  Extends(w) => Extended(w)'
    <3>1. Quiet => \A w \in Users : ~At(w, "won")
      <4>1. ~At(u, "won")
        BY <1>1 DEF At
      <4>2. Quiet => \A w \in Users : Holds(w) => w = u
        BY <1>1, OneHolder
      <4> QED BY <4>1, <4>2 DEF Holds
    <3> QED BY <1>1, <1>2, <3>1 DEF Kept, Holds, At, Extends
  <2>1. w = u
    BY <1>1, <1>2, OneHolder
  <2>2. Extends(w) => Extended(w)
    BY <1>2 DEF IInv, Kept
  <2>3. loop[Token(u)] # None => lock'.ttl > loop[Token(u)].left
    <3>1. loop[Token(u)] # None => loop[Token(u)].left \in Nat
      BY <1>1, HalfTTLType DEF IInv, TypeOK, Loops
    <3> QED BY <1>2, <1>3, <3>1, LockAssumption
  <2> QED BY <1>1, <1>3, <2>1, <2>2, <2>3 DEF Extended, Token, Proc
<1> QED BY <1>4, <1>5

\* release_lock cancels the loop in the table, which is nobody else's.
LEMMA ReleaseInv ==
    ASSUME IInv, NEW u \in Users, Release(u)
    PROVE  OwnTokens' /\ ClientsOpen' /\ Kept'
<1>1. /\ At(u, "held") /\ user[u] # None /\ user[u] \in Uses /\ Token(u) \in Tokens
      /\ Proc(u) \in Procs
      /\ UNCHANGED <<lock, client, closed>>
      /\ user' = [user EXCEPT ![u].at = "release"] \/ user' = [user EXCEPT ![u] = None]
      /\ loop' = IF table[Proc(u)] = None THEN loop ELSE Cancelled(table[Proc(u)])
      /\ Quiet' => Quiet /\ table[Proc(u)] \in {None, Token(u)}
  BY DEF Release, IInv, TypeOK, At, Token, Proc, Uses, connection, Go, Stop, Quiet
<1>2. /\ \A w \in Users : w # u => user'[w] = user[w]
      /\ user'[u] # None => user'[u] = [user[u] EXCEPT !.at = "release"]
  BY <1>1 DEF IInv, TypeOK
<1>3. OwnTokens'
  BY <1>1, <1>2 DEF IInv, OwnTokens, Token, Uses
<1>4. ClientsOpen'
  BY <1>1, <1>2 DEF IInv, ClientsOpen, Proc, Uses
<1>5. Kept'
  <2> SUFFICES ASSUME Quiet', NEW w \in Users, w # u, Holds(w)
               PROVE  Extended(w) => Extended(w)'
    <3>1. ~Holds(u)'
      BY <1>1, <1>2 DEF Holds, At, Extends, Uses
    <3>2. \A w \in Users : w # u => user'[w] = user[w]
      BY <1>2
    <3> QED BY <1>1, <3>1, <3>2 DEF IInv, Kept, Holds, At, Extends, Owns, Token
  <2>1. Token(w) # Token(u) /\ Token(w) \in Tokens
    BY <1>1, OneHolder
  <2>2. loop'[Token(w)] = loop[Token(w)]
    BY <1>1, <2>1 DEF Cancelled, IInv, TypeOK
  <2> QED BY <1>1, <1>2, <2>2 DEF Extended, Owns, Token, Proc
<1> QED BY <1>3, <1>4, <1>5

\* The release script deletes the lock of nobody else.
LEMMA DeleteInv ==
    ASSUME IInv, NEW u \in Users, Delete(u) \/ DeleteFails(u)
    PROVE  OwnTokens' /\ ClientsOpen' /\ Kept'
<1>1. /\ At(u, "release") /\ user[u] # None
      /\ user' = [user EXCEPT ![u] = None]
      /\ UNCHANGED <<loop, client, closed>>
      /\ Quiet' => Quiet
  BY DEF Delete, DeleteFails, At, Stop, connection, Quiet
<1>2. /\ \A w \in Users : w # u => user'[w] = user[w]
      /\ user'[u] = None
  BY <1>1 DEF IInv, TypeOK
<1>3. OwnTokens'
  BY <1>1, <1>2 DEF IInv, OwnTokens, Token
<1>4. ClientsOpen'
  BY <1>1, <1>2 DEF IInv, ClientsOpen, Proc
<1>5. Kept'
  <2>1. CASE DeleteFails(u)
    BY <2>1 DEF DeleteFails, Quiet, Kept
  <2>2. CASE Delete(u)
    <3> SUFFICES ASSUME Quiet', NEW w \in Users, w # u, Holds(w)
                 PROVE  lock' = lock
      BY <1>1, <1>2 DEF IInv, Kept, Holds, At, Extends, Owns, Token, Proc, Extended
    <3>1. ~Owns(Token(u))
      BY <1>1, OneHolder DEF Owns
    <3> QED BY <2>2, <3>1 DEF Delete
  <2> QED BY <2>1, <2>2
<1> QED BY <1>3, <1>4, <1>5

\* The extension: a loop that somebody needs wakes, extends the lock and sleeps again.
LEMMA LoopInv ==
    ASSUME IInv, NEW v \in Tokens, LoopStep(v)
    PROVE  OwnTokens' /\ ClientsOpen' /\ Kept'
<1>1. /\ UNCHANGED <<user, client, closed>>
      /\ loop[v] # None /\ loop[v] \in Loops /\ loop[v].proc \in Procs
      /\ Quiet' => Quiet
  BY DEF LoopStep, StartLoop, ExtendLoop, ExtendFails, Unwind, Looping, connection,
         IInv, TypeOK, Loops, Happens, Quiet
<1>2. OwnTokens' /\ ClientsOpen'
  BY <1>1 DEF IInv, OwnTokens, ClientsOpen, Token, Proc
<1>3. Kept'
  <2> SUFFICES ASSUME Quiet', NEW w \in Users, Holds(w)
               PROVE  /\ At(w, "won") => Owns(Token(w))' /\ lock'.ttl = TTL
                      /\ Extends(w) => Extended(w)'
    BY <1>1 DEF Kept, Holds, At, Extends
  <2>1. /\ Token(w) \in Tokens /\ Proc(w) \in Procs /\ user[w] # None /\ Owns(Token(w))
        /\ \A x \in Tokens : Owns(x) => x = Token(w)
    BY <1>1, OneHolder
  <2>2. /\ At(w, "won") => lock.ttl = TTL
        /\ Extends(w) => Extended(w)
        /\ Usable(Proc(w))
    BY <1>1, <2>1 DEF IInv, Kept, ClientsOpen, Usable
  <2>3. Locked(v) # None
    BY RecordTypes, NoneAssumption
  <2>4. \/ lock' = lock
        \/ Owns(v) /\ lock' = Locked(v)
    BY DEF LoopStep, StartLoop, ExtendLoop, ExtendFails, Unwind
  <2>5. Owns(Token(w))' /\ (lock.ttl = TTL => lock'.ttl = TTL)
    BY <1>1, <2>1, <2>3, <2>4 DEF Owns, Locked, Token
  <2>6. ASSUME Extends(w), v # Token(w) PROVE Extended(w)'
    <3>1. lock' = lock
      BY <2>1, <2>4, <2>6
    <3>2. loop'[Token(w)] = loop[Token(w)]
      BY <2>1, <2>6
         DEF LoopStep, StartLoop, ExtendLoop, ExtendFails, Unwind, EndLoop, Sleep, IInv,
             TypeOK
    <3> QED BY <1>1, <2>2, <2>6, <3>1, <3>2 DEF Extended, Owns, Token, Proc
  <2>7. ASSUME Extends(w), v = Token(w) PROVE Extended(w)'
    <3>1. Extended(w) /\ ~ExtendFails(v) /\ ~Unwind(v) /\ ~closed[loop[v].proc]
      BY <1>1, <2>2, <2>7
         DEF ExtendFails, Happens, Quiet, Unwind, Looping, Extended, IInv, ClientsOpen
    <3>2. Sleep(v) /\ lock'.ttl > HalfTTL
      BY <2>1, <2>2, <2>7, <3>1, HalfTTLType
         DEF LoopStep, StartLoop, ExtendLoop, Looping, Extended, Locked
    <3>3. loop'[v] = [proc |-> loop[v].proc, at |-> "asleep", left |-> HalfTTL]
      BY <3>2 DEF Sleep, IInv, TypeOK
    <3>4. loop'[v] # None
      BY <1>1, <3>3, RecordTypes, NoneAssumption
    <3> QED BY <1>1, <2>5, <2>7, <3>1, <3>2, <3>3, <3>4 DEF Extended, Token, Proc
  <2> QED BY <2>2, <2>5, <2>6, <2>7
<1> QED BY <1>2, <1>3

\* Time passes only after everything due was done, so that a loop that is asleep has
\* less time to sleep than its lock has to live.
LEMMA TickInv ==
    ASSUME IInv, Tick
    PROVE  OwnTokens' /\ ClientsOpen' /\ Kept'
<1>1. UNCHANGED <<user, client, closed>> /\ (Quiet' => Quiet /\ ~Due)
  BY DEF Tick, connection, Happens, Quiet
<1>2. OwnTokens' /\ ClientsOpen'
  BY <1>1 DEF IInv, OwnTokens, ClientsOpen, Token, Proc
<1>3. Kept'
  <2> SUFFICES ASSUME Quiet', NEW w \in Users, Holds(w)
               PROVE  ~At(w, "won") /\ Extended(w)'
    BY <1>1 DEF Kept, Holds, At, Extends
  <2>1. ~At(w, "won") /\ Extended(w) /\ Token(w) \in Tokens
    BY <1>1, OneHolder DEF Due, IInv, Kept, Holds
  <2>2. /\ loop[Token(w)] \in Loops
        /\ loop[Token(w)].at = "asleep" /\ loop[Token(w)].left > 0
        /\ lock.ttl > loop[Token(w)].left
    BY <1>1, <2>1 DEF Extended, Due, Loops, IInv, TypeOK
  <2>3. lock # None /\ lock \in Locks
    BY <2>1 DEF Extended, Owns, IInv, TypeOK
  <2>4. lock.ttl > 1
    BY <2>2, <2>3, HalfTTLType, LockAssumption DEF Loops, Locks
  <2>5. lock' = [lock EXCEPT !.ttl = @ - 1] /\ lock' \in Locks
    BY <2>3, <2>4, RecordTypes DEF Tick
  <2>6. loop'[Token(w)] = [loop[Token(w)] EXCEPT !.left = @ - 1] /\ loop'[Token(w)] \in Loops
    BY <2>1, <2>2, RecordTypes DEF Tick, Looping, Extended
  <2> QED BY <1>1, <2>1, <2>2, <2>3, <2>4, <2>5, <2>6, NoneAssumption, HalfTTLType,
             LockAssumption
          DEF Extended, Owns, Token, Proc, Locks, Loops
<1> QED BY <1>2, <1>3

\* Every step preserves the invariant.
LEMMA StepInv == IInv /\ [Next]_vars => IInv'
<1> SUFFICES ASSUME IInv, [Next]_vars PROVE OwnTokens' /\ ClientsOpen' /\ Kept'
  BY TypeStep DEF IInv
<1>1. CASE UNCHANGED vars
  BY <1>1 DEF vars, tasks, connection, IInv, OwnTokens, ClientsOpen, Kept, Quiet, At,
              Extends, Owns, Token, Proc, Extended
<1> QED BY <1>1, ProcInv, AcquireInv, SetInv, WonInv, ExtendInv, ReleaseInv, DeleteInv,
           LoopInv, TickInv DEF Next, UserStep

\* The invariant holds in every reachable state.
THEOREM Invariance == Spec => []IInv
<1> QED BY InitInv, StepInv, PTL DEF Spec

\* The lock, its users, the loops and the tables of the clients have their types.
THEOREM TypeCorrect == Spec => []TypeOK
<1>1. IInv => TypeOK
  BY DEF IInv
<1> QED BY <1>1, Invariance, PTL

\* A user that asked acquire_lock to extend its lock owns the lock until it releases it,
\* if the event loop does not stall, Redis answers, the client stays open, no earlier
\* lock of the key is released late by the same process, and no extend_lock sets a time
\* to live that ends before the extension loop wakes.
THEOREM KeepsLock == Spec => []KeptWhileHeld
<1>1. IInv => KeptWhileHeld
  BY DEF IInv, Kept, KeptWhileHeld, Extends, Quiet, Extended
<1> QED BY <1>1, Invariance, PTL

\* The lock excludes: of all users of all processes, one at most has it and extends it.
THEOREM Exclusion == Spec => []MutualExclusion
<1>1. IInv => MutualExclusion
  BY OneHolder DEF MutualExclusion, Holds, Extends
<1> QED BY <1>1, Invariance, PTL

\* Whatever goes wrong, a lock is taken from its owner by the owner's own release_lock or
\* by its expiry: the scripts of others leave it alone, and so do loops of earlier locks.
THEOREM OwnersRelease == Spec => OnlyOwnerReleases
<1> DEFINE Lost == lock # None /\ lock' # lock /\ (lock' = None \/ lock'.value # lock.value)
           Allowed == \/ lock' = None /\ lock.ttl = 1
                      \/ /\ lock' = None
                         /\ \E u \in Users : At(u, "release") /\ Token(u) = lock.value
<1>1. TypeOK /\ [Next]_vars => (Lost => Allowed)
  <2> SUFFICES ASSUME TypeOK, [Next]_vars, Lost PROVE Allowed
    OBVIOUS
  <2>1. \A v \in Tokens : Owns(v) => lock' # Locked(v)
    BY RecordTypes, NoneAssumption DEF Owns, Locked
  <2>2. ASSUME NEW u \in Users, UserStep(u) PROVE Allowed
    BY <2>2 DEF UserStep, Set, SetFails, Won, Delete, DeleteFails, Owns
  <2>3. ASSUME NEW u \in Users, Extend(u) PROVE FALSE
    <3>1. PICK extra \in Extensions : lock' = [lock EXCEPT !.ttl = extra]
      BY <2>3 DEF Extend
    <3>2. lock \in Locks /\ lock' \in Locks /\ lock'.value = lock.value
      BY <3>1, RecordTypes DEF TypeOK, Locks
    <3> QED BY <3>2, NoneAssumption
  <2>4. ASSUME NEW v \in Tokens, LoopStep(v) PROVE FALSE
    BY <2>1, <2>4 DEF LoopStep, StartLoop, ExtendLoop, ExtendFails, Unwind
  <2>5. CASE Tick
    <3>1. lock \in Locks
      BY DEF TypeOK
    <3>2. lock.ttl # 1 => lock' = [lock EXCEPT !.ttl = @ - 1] /\ lock' \in Locks
      BY <2>5, <3>1, RecordTypes DEF Tick
    <3>3. lock.ttl # 1 => lock' # None /\ lock'.value = lock.value
      BY <3>1, <3>2, NoneAssumption DEF Locks
    <3> QED BY <2>5, <3>3 DEF Tick
  <2> QED
    BY <2>2, <2>3, <2>4, <2>5
       DEF Next, vars, Connect, ConnectFails, Disconnect, Crash, Release, Acquire
<1> QED BY <1>1, TypeCorrect, PTL DEF Spec, OnlyOwnerReleases
=============================================================================
