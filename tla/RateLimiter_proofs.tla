------------------------- MODULE RateLimiter_proofs ------------------------
(***************************************************************************)
(* Theorems about one key of the rate limiter, for any finite number of    *)
(* clients, any limit and window, and checks of any duration: one client   *)
(* at a time is held to the limit exactly, and clients that check at once  *)
(* exceed it by one request each, no more.                                 *)
(***************************************************************************)
EXTENDS RateLimiter, FiniteSetTheorems, TLAPS

Busy(c) == pc[c] # "idle"

\* A check has read the clock a while ago; a request was granted before now.
Times ==
    /\ \A c \in Clients : Busy(c) => stamp[c] < now /\ now <= stamp[c] + MaxStall
    /\ \A g \in granted : g[2] < now

\* A time stamp belongs to one request.
Distinct ==
    /\ \A g, h \in granted : g[2] = h[2] => g = h
    /\ \A c, d \in Clients : Busy(c) /\ Busy(d) /\ stamp[c] = stamp[d] => c = d
    /\ \A g \in granted : \A c \in Clients : Busy(c) => g[2] # stamp[c]

\* The key outlives the window of every request that was granted.
Deadlines == deadline # 0 => \A g \in granted : g[2] + Window < deadline

\* The sorted set has the requests that were added, as long as they count.  A check that
\* takes longer than the window adds one that counts no more.
Kept ==
    "expiry" \notin happened =>
        /\ \A g \in granted : g[2] \in entries \/ g[2] + Window <= now
        /\ \A c \in Clients : pc[c] = "expire" =>
               stamp[c] \in entries \/ stamp[c] + Window <= now

\* Requests that were granted, and those that will be unless a command fails.
Admitted ==
    granted \cup {<<c, stamp[c]>> : c \in {d \in Clients : pc[d] \in {"add", "expire"}}}

InPeriod(t, length) == {g \in Admitted : g[2] <= t /\ g[2] > t - length}

Overshoot ==
    "expiry" \notin happened =>
        \A t \in Instants : Cardinality(InPeriod(t, Window - MaxStall))
                                <= MaxRequests + Cardinality(Clients) - 1

\* One client at a time: what it counts is what its window holds.
Alone ==
    /\ "overlap" \notin happened => \A c, d \in Clients : Busy(c) /\ Busy(d) => c = d
    /\ happened = {} =>
          \A c \in Clients : pc[c] \in {"trim", "count"} =>
              \A g \in granted : g[2] \in entries \/ g[2] + Window <= stamp[c]

WithinLimit ==
    happened = {} => \A t \in Instants : Cardinality(InPeriod(t, Window)) <= MaxRequests

IInv == TypeOK /\ Times /\ Distinct /\ Deadlines /\ Kept /\ Overshoot /\ Alone /\ WithinLimit

-----------------------------------------------------------------------------
\* What the assumptions say of the numbers.
LEMMA Numbers ==
    /\ Window \in Nat \ {0} /\ MaxRequests \in Nat \ {0} /\ MaxNow \in Nat /\ Window <= MaxNow
    /\ MaxStall \in Nat \ {0}
    /\ \A t \in Instants : t \in Nat /\ t >= Window /\ t <= MaxNow
    /\ IsFiniteSet(Clients) /\ Cardinality(Clients) \in Nat
<1>1. IsFiniteSet(Clients) /\ Cardinality(Clients) \in Nat
  BY LimitsAssumption, FS_CardinalityType
<1> QED BY <1>1, LimitsAssumption DEF Instants

\* Everything that is counted is finite.
LEMMA AdmittedType ==
    ASSUME TypeOK
    PROVE  /\ Admitted \subseteq Clients \X Instants
           /\ \A S \in SUBSET Admitted : IsFiniteSet(S) /\ Cardinality(S) \in Nat
           /\ IsFiniteSet(entries) /\ Cardinality(entries) \in Nat
<1>1. Admitted \subseteq Clients \X Instants
  BY DEF Admitted, TypeOK
<1>2. IsFiniteSet(Instants)
  BY Numbers, FS_Interval DEF Instants
<1>3. IsFiniteSet(Clients \X Instants)
  BY <1>2, Numbers, FS_Product
<1>4. ASSUME NEW S \in SUBSET Admitted PROVE IsFiniteSet(S) /\ Cardinality(S) \in Nat
  <2>1. S \in SUBSET (Clients \X Instants)
    BY <1>1
  <2> QED BY <1>3, <2>1, FS_Subset, FS_CardinalityType
<1>5. IsFiniteSet(entries) /\ Cardinality(entries) \in Nat
  BY <1>2, FS_Subset, FS_CardinalityType DEF TypeOK
<1> QED BY <1>1, <1>4, <1>5

\* Requests whose stamps are in the sorted set are no more than its members: two requests
\* never share one.
LEMMA AtMostEntries ==
    ASSUME TypeOK, Distinct, NEW S \in SUBSET Admitted, \A g \in S : g[2] \in entries
    PROVE  Cardinality(S) <= Cardinality(entries)
<1> DEFINE f == [g \in S |-> g[2]]
<1>1. \A g, h \in Admitted : g[2] = h[2] => g = h
  BY DEF Admitted, Distinct, Busy
<1>2. f \in Injection(S, entries)
  BY <1>1 DEF Injection, IsInjective
<1> QED BY <1>2, FS_Injection, AdmittedType

\* The other clients have one request each under way.
LEMMA AtMostOthers ==
    ASSUME NEW c \in Clients, NEW S, S \subseteq {<<d, stamp[d]>> : d \in Clients \ {c}}
    PROVE  /\ IsFiniteSet(S) /\ Cardinality(S) \in Nat
           /\ Cardinality(S) <= Cardinality(Clients) - 1
<1> DEFINE f == [g \in S |-> g[1]]
<1>1. IsFiniteSet(Clients \ {c}) /\ Cardinality(Clients \ {c}) = Cardinality(Clients) - 1
  BY Numbers, FS_RemoveElement
<1>2. f \in Injection(S, Clients \ {c})
  BY DEF Injection, IsInjective
<1> QED BY <1>1, <1>2, FS_Injection, FS_CardinalityType

\* What a check that is let through adds up to.
LEMMA AddUp ==
    ASSUME TypeOK, Distinct, NEW r, NEW S, NEW O, IsFiniteSet(O),
           S \subseteq Admitted \cup {r},
           \A g \in S : g = r \/ g[2] \in entries \/ g \in O
    PROVE  Cardinality(S) <= Cardinality(entries) + Cardinality(O) + 1
<1> DEFINE E == {g \in S : g \in Admitted /\ g[2] \in entries}
<1>1. /\ IsFiniteSet(E) /\ Cardinality(E) \in Nat /\ Cardinality(entries) \in Nat
      /\ Cardinality(E) <= Cardinality(entries)
  <2>1. E \subseteq Admitted /\ \A g \in E : g[2] \in entries
    OBVIOUS
  <2> HIDE DEF E
  <2> QED BY <2>1, AtMostEntries, AdmittedType
<1>2. Cardinality(O) \in Nat
  BY FS_CardinalityType
<1> DEFINE U == E \cup O
           W == U \cup {r}
<1>3. S \subseteq W
  OBVIOUS
<1> HIDE DEF E
<1>4. /\ IsFiniteSet(U) /\ Cardinality(U) \in Nat
      /\ Cardinality(U) <= Cardinality(E) + Cardinality(O)
  <2>1. /\ IsFiniteSet(U)
        /\ Cardinality(U) = Cardinality(E) + Cardinality(O) - Cardinality(E \cap O)
    BY <1>1, FS_Union
  <2>2. IsFiniteSet(E \cap O) /\ Cardinality(E \cap O) \in Nat
    BY <1>1, FS_Intersection, FS_CardinalityType
  <2>3. Cardinality(U) \in Nat
    BY <2>1, FS_CardinalityType
  <2> QED BY <1>1, <1>2, <2>1, <2>2, <2>3
<1> HIDE DEF U
<1>5. IsFiniteSet(W) /\ Cardinality(W) \in Nat /\ Cardinality(W) <= Cardinality(U) + 1
  <2>1. IsFiniteSet(W) /\ Cardinality(W) \in {Cardinality(U), Cardinality(U) + 1}
    BY <1>4, FS_AddElement
  <2> QED BY <1>4, <2>1
<1> HIDE DEF W
<1>6. Cardinality(S) \in Nat /\ Cardinality(S) <= Cardinality(W)
  BY <1>3, <1>5, FS_Subset, FS_CardinalityType
<1> QED BY <1>1, <1>2, <1>4, <1>5, <1>6

\* Requests that are forgotten do not add up.
LEMMA NoneAdmitted ==
    ASSUME TypeOK, Overshoot, WithinLimit,
           Admitted' \subseteq Admitted, happened \subseteq happened'
    PROVE  Overshoot' /\ WithinLimit'
<1>1. ASSUME NEW t, NEW length
      PROVE  /\ Cardinality(InPeriod(t, length))' <= Cardinality(InPeriod(t, length))
             /\ Cardinality(InPeriod(t, length)) \in Nat
             /\ Cardinality(InPeriod(t, length))' \in Nat
  <2>1. /\ InPeriod(t, length)' \subseteq InPeriod(t, length)
        /\ InPeriod(t, length) \subseteq Admitted
    BY DEF InPeriod
  <2>2. IsFiniteSet(InPeriod(t, length))
    BY <2>1, AdmittedType
  <2> QED BY <2>1, <2>2, FS_Subset, FS_CardinalityType
<1>2. Overshoot'
  BY <1>1, Numbers DEF Overshoot
<1>3. WithinLimit'
  BY <1>1, Numbers DEF WithinLimit
<1> QED BY <1>2, <1>3

-----------------------------------------------------------------------------
\* The invariant of _check_limit holds of an empty key.
LEMMA InitInv == Init => IInv
<1> SUFFICES ASSUME Init PROVE IInv
  OBVIOUS
<1>1. TypeOK
  BY LimitsAssumption DEF Init, TypeOK, Instants
<1> USE DEF Init, Busy
<1>5. Times /\ Distinct /\ Deadlines /\ Kept
  BY DEF Times, Distinct, Deadlines, Kept
<1>2. \A t, length : InPeriod(t, length) = {}
  BY DEF Init, InPeriod, Admitted
<1>3. \A t, length : Cardinality(InPeriod(t, length)) = 0
  BY <1>2, FS_EmptySet
<1>4. Overshoot /\ Alone /\ WithinLimit
  BY <1>3, Numbers DEF Overshoot, Alone, WithinLimit
<1> QED BY <1>1, <1>4, <1>5 DEF IInv

\* Types are kept by every command.
LEMMA TypeInv == TypeOK /\ [Next]_vars => TypeOK'
<1> SUFFICES ASSUME TypeOK, [Next]_vars PROVE TypeOK'
  OBVIOUS
<1> USE DEF TypeOK, Go
<1>1. Advance => now' \in Instants
  BY Numbers DEF Advance, Instants
<1>2. DropExpired => entries' \subseteq Instants /\ deadline' \in 0..(MaxNow + Window)
  BY Numbers DEF DropExpired
<1>3. Race \subseteq {"expiry"} /\ Lost \subseteq {"expiry", "late"}
      /\ \A c \in Clients : Overlap(c) \subseteq {"overlap"}
  BY DEF Race, Lost, Late, Overlap
<1>4. ASSUME NEW c \in Clients, Check(c) PROVE TypeOK'
  <2>1. now \in Instants /\ UNCHANGED granted
    BY <1>4 DEF Check
  <2>2. pc' \in [Clients -> {"idle", "trim", "count", "add", "expire"}]
    BY <1>4 DEF Check
  <2>3. stamp' \in [Clients -> Instants]
    BY <1>4, <2>1 DEF Check
  <2>4. happened' \subseteq {"overlap", "expiry", "late"}
    BY <1>3, <1>4 DEF Check
  <2> QED BY <1>1, <1>2, <1>4, <2>1, <2>2, <2>3, <2>4 DEF Check
<1>5. ASSUME NEW c \in Clients, Trim(c) PROVE TypeOK'
  BY <1>5, Numbers DEF Trim
<1>10. ASSUME NEW c \in Clients, Count(c) \/ Add(c) \/ Fail(c) PROVE TypeOK'
  <2>1. CASE Count(c)
    BY <2>1 DEF Count
  <2>2. CASE Add(c)
    BY <2>2 DEF Add
  <2>3. CASE Fail(c)
    BY <2>3 DEF Fail
  <2> QED BY <1>10, <2>1, <2>2, <2>3
<1>6. ASSUME NEW c \in Clients, Expire(c) PROVE TypeOK'
  <2>1. deadline' \in 0..(MaxNow + Window)
    BY <1>6, Numbers DEF Expire
  <2> QED BY <1>6, <2>1 DEF Expire
<1>7. CASE Reset
  BY <1>3, <1>7, Numbers DEF Reset
<1>8. CASE Tick
  BY <1>1, <1>2, <1>3, <1>8 DEF Tick
<1>9. CASE UNCHANGED vars
  BY <1>9 DEF vars
<1> QED BY <1>4, <1>5, <1>6, <1>7, <1>8, <1>9, <1>10 DEF Next

\* time.time() and the passing of time: the key may expire.  Every granted request in it has
\* then left its window; a request that is being recorded, or a check that is about to count,
\* shows in `happened'.
LEMMA ClockInv ==
    ASSUME IInv, TypeOK', Tick \/ \E c \in Clients : Check(c)
    PROVE  IInv'
<1>1. /\ now \in Nat /\ now' = now + 1
      /\ \A c \in Clients : stamp[c] \in Nat /\ (Busy(c) => now' <= stamp[c] + MaxStall)
      /\ \A g \in granted : g \in Clients \X Instants /\ g[2] \in Nat
      /\ deadline \in Nat
  BY Numbers DEF IInv, TypeOK, Tick, Check, Advance, Busy
<1>2. /\ entries' = IF Expired THEN {} ELSE entries
      /\ deadline' = IF Expired THEN 0 ELSE deadline
      /\ granted' = granted /\ happened \cup Lost \subseteq happened'
  BY DEF Tick, Check, DropExpired
<1>3. ASSUME NEW c \in Clients
      PROVE  \/ pc'[c] = pc[c] /\ stamp'[c] = stamp[c]
             \/ ~Busy(c) /\ pc'[c] = "trim" /\ stamp'[c] = now
  BY DEF IInv, TypeOK, Tick, Check, Busy, Go
<1>4. ASSUME NEW c \in Clients, NEW d \in Clients,
             pc'[c] # pc[c] \/ stamp'[c] # stamp[c], pc'[d] # pc[d] \/ stamp'[d] # stamp[d]
      PROVE  c = d
  <2>1. CASE Tick
    BY <1>4, <2>1 DEF Tick
  <2>2. ASSUME NEW e \in Clients, Check(e) PROVE c = e /\ d = e
    BY <1>4, <2>2 DEF IInv, TypeOK, Check, Go
  <2> QED BY <2>1, <2>2
<1>5. Times'
  BY <1>1, <1>2, <1>3, Numbers DEF IInv, Times, Busy
<1>6. Distinct'
  BY <1>1, <1>2, <1>3, <1>4 DEF IInv, Times, Distinct, Busy
<1>7. Deadlines'
  BY <1>2 DEF IInv, Deadlines
<1>8. ASSUME NEW g \in granted, Expired PROVE g[2] + Window < now
  BY <1>1, <1>8, Numbers DEF Expired, IInv, Deadlines
<1>9. Kept'
  <2> SUFFICES ASSUME "expiry" \notin happened' PROVE Kept'
    BY DEF Kept
  <2>1. \A g \in granted : g[2] \in entries' \/ g[2] + Window <= now'
    BY <1>1, <1>2, <1>8, Numbers DEF IInv, Kept
  <2>2. ASSUME NEW c \in Clients, pc'[c] = "expire"
               PROVE  stamp'[c] \in entries' \/ stamp'[c] + Window <= now'
    <3>1. pc[c] = "expire" /\ stamp'[c] = stamp[c] /\ entries' = entries
      BY <1>2, <1>3, <2>2 DEF Lost, Race
    <3>2. stamp[c] \in entries \/ stamp[c] + Window <= now
      BY <1>2, <3>1 DEF IInv, Kept
    <3> QED BY <1>1, <3>1, <3>2, Numbers
  <2> QED BY <1>2, <2>1, <2>2 DEF Kept
<1>10. Admitted' \subseteq Admitted
  BY <1>2, <1>3 DEF Admitted
<1>11. Overshoot' /\ WithinLimit'
  BY <1>2, <1>10, NoneAdmitted DEF IInv
<1>12. ASSUME "overlap" \notin happened',
              NEW c \in Clients, NEW d \in Clients, Busy(c)', Busy(d)'
       PROVE  c = d
  <2>1. ASSUME ~Busy(c), Busy(d) PROVE FALSE
    BY <1>3, <1>12, <2>1 DEF IInv, TypeOK, Tick, Check, Overlap, Busy, Go
  <2>2. ASSUME ~Busy(d), Busy(c) PROVE FALSE
    BY <1>3, <1>12, <2>2 DEF IInv, TypeOK, Tick, Check, Overlap, Busy, Go
  <2>3. Busy(c) /\ Busy(d) => c = d
    BY <1>2, <1>12 DEF IInv, Alone
  <2>4. ~Busy(c) /\ ~Busy(d) => c = d
    BY <1>4, <1>12 DEF Busy
  <2> QED BY <2>1, <2>2, <2>3, <2>4
<1>13. ASSUME happened' = {}, NEW c \in Clients, pc'[c] \in {"trim", "count"},
              NEW g \in granted
       PROVE  g[2] \in entries' \/ g[2] + Window <= stamp'[c]
  <2>1. CASE Busy(c)
    BY <1>2, <1>3, <1>13, <2>1 DEF IInv, Alone, Busy, Lost, Late
  <2>2. CASE ~Busy(c)
    BY <1>1, <1>2, <1>3, <1>8, <1>13, <2>2, Numbers DEF IInv, Kept, Busy
  <2> QED BY <2>1, <2>2
<1> QED BY <1>2, <1>5, <1>6, <1>7, <1>9, <1>11, <1>12, <1>13 DEF IInv, Alone

\* The commands that neither read the clock nor grant: who is busy, and with which
\* stamp, stays as it is, except that the client may be done.
LEMMA CommandFacts ==
    ASSUME IInv, NEW c \in Clients, Trim(c) \/ Count(c) \/ Add(c) \/ Fail(c)
    PROVE  /\ Busy(c)
           /\ UNCHANGED <<now, stamp, granted, happened>>
           /\ \A d \in Clients : d # c => pc'[d] = pc[d]
           /\ Times' /\ Distinct'
           /\ ("overlap" \notin happened =>
                  \A d, e \in Clients : Busy(d) /\ Busy(e) => d = e)'
<1>1. Busy(c) /\ UNCHANGED <<now, stamp, granted, happened>>
  BY DEF Busy, Trim, Count, Add, Fail
<1>2. \A d \in Clients : d # c => pc'[d] = pc[d]
  BY DEF IInv, TypeOK, Trim, Count, Add, Fail, Go
<1>3. \A d \in Clients : Busy(d)' => Busy(d)
  BY <1>1, <1>2 DEF Busy
<1>4. Times' /\ Distinct'
  BY <1>1, <1>3 DEF IInv, Times, Distinct
<1> QED BY <1>1, <1>2, <1>3, <1>4 DEF IInv, Alone

\* ZREMRANGEBYSCORE removes what no longer counts for this check, and so not now either: the
\* clock has not gone back since the check has read it.
LEMMA TrimInv ==
    ASSUME IInv, TypeOK', NEW c \in Clients, Trim(c)
    PROVE  IInv'
<1> USE CommandFacts
<1>1. /\ pc[c] = "trim" /\ pc'[c] = "count"
      /\ entries' = {e \in entries : e > stamp[c] - Window}
      /\ deadline' \in {0, deadline}
  BY DEF IInv, TypeOK, Trim, Go
<1>2. /\ now \in Nat /\ \A d \in Clients : stamp[d] \in Nat
      /\ stamp[c] < now
      /\ \A g \in granted : g[2] \in Nat
  BY Numbers DEF IInv, TypeOK, Times
<1>3. \A n \in Nat : n \in entries => n \in entries' \/ n + Window <= stamp[c]
  BY <1>1, <1>2, Numbers
<1>4. Deadlines'
  BY <1>1 DEF IInv, Deadlines
<1>5. Kept'
  <2> SUFFICES ASSUME "expiry" \notin happened PROVE Kept'
    BY DEF Kept
  <2>1. \A g \in granted : g[2] \in entries' \/ g[2] + Window <= now
    BY <1>2, <1>3, Numbers DEF IInv, Kept
  <2>2. ASSUME NEW d \in Clients, pc'[d] = "expire"
               PROVE  stamp[d] \in entries' \/ stamp[d] + Window <= now
    <3>1. pc[d] = "expire" /\ (stamp[d] \in entries \/ stamp[d] + Window <= now)
      BY <1>1, <2>2 DEF IInv, Kept
    <3> QED BY <1>2, <1>3, <3>1, Numbers
  <2> QED BY <2>1, <2>2 DEF Kept
<1>6. Admitted' \subseteq Admitted
  BY <1>1 DEF Admitted
<1>7. Overshoot' /\ WithinLimit'
  BY <1>6, NoneAdmitted DEF IInv
<1>8. ASSUME happened = {}, NEW d \in Clients, pc'[d] \in {"trim", "count"}, NEW g \in granted
      PROVE  g[2] \in entries' \/ g[2] + Window <= stamp[d]
  <2>1. Busy(d) /\ d = c
    BY <1>1, <1>8 DEF IInv, Alone, Busy
  <2> QED BY <1>1, <1>2, <1>3, <1>8, <2>1 DEF IInv, Alone
<1> QED BY <1>4, <1>5, <1>7, <1>8 DEF IInv, Alone

\* ZADD, a command that raises and a check that is rejected admit no request.
LEMMA AddFailInv ==
    ASSUME IInv, TypeOK', NEW c \in Clients,
           Add(c) \/ Fail(c) \/ (Count(c) /\ pc'[c] = "idle")
    PROVE  IInv'
<1> USE CommandFacts
<1>1. /\ deadline' = deadline /\ entries \subseteq entries'
      /\ \/ pc'[c] = "idle"
         \/ pc[c] = "add" /\ pc'[c] = "expire" /\ stamp[c] \in entries'
  BY DEF IInv, TypeOK, Add, Fail, Count, Go
<1>2. Deadlines' /\ Kept'
  BY <1>1 DEF IInv, Deadlines, Kept
<1>3. Admitted' \subseteq Admitted
  BY <1>1 DEF Admitted
<1>4. Overshoot' /\ WithinLimit'
  BY <1>3, NoneAdmitted DEF IInv
<1>5. ASSUME happened = {}, NEW d \in Clients, pc'[d] \in {"trim", "count"}, NEW g \in granted
      PROVE  g[2] \in entries' \/ g[2] + Window <= stamp[d]
  <2>1. pc'[d] = pc[d]
    BY <1>1, <1>5
  <2> QED BY <1>1, <1>5, <2>1 DEF IInv, Alone
<1> QED BY <1>2, <1>4, <1>5 DEF IInv, Alone

\* ZCARD below the limit.  What counts for this check is in the sorted set or belongs to the
\* other clients, one request each; alone, it is in the sorted set.
LEMMA CountInv ==
    ASSUME IInv, TypeOK', NEW c \in Clients, Count(c), pc'[c] = "add"
    PROVE  IInv'
<1> USE CommandFacts
<1> DEFINE r == <<c, stamp[c]>>
<1>1. /\ pc[c] = "count" /\ UNCHANGED <<entries, deadline>>
      /\ ~(Cardinality(entries) >= MaxRequests)
  BY DEF IInv, TypeOK, Count, Go
<1>2. /\ now \in Nat /\ \A d \in Clients : stamp[d] \in Nat
      /\ now <= stamp[c] + MaxStall
      /\ Cardinality(entries) \in Nat
  BY <1>1, Numbers, AdmittedType DEF IInv, TypeOK, Times, Busy
<1>3. Deadlines' /\ Kept'
  BY <1>1 DEF IInv, Deadlines, Kept
<1>4. Admitted' \subseteq Admitted \cup {r}
  BY <1>1 DEF Admitted
<1>5. /\ \A g \in Admitted : g[2] \in Nat
      /\ \A S \in SUBSET Admitted : IsFiniteSet(S) /\ Cardinality(S) \in Nat
  BY AdmittedType, Numbers DEF IInv
<1>6. ASSUME NEW t \in Instants, NEW length \in Int,
             ~(stamp[c] <= t /\ stamp[c] > t - length)
      PROVE  /\ Cardinality(InPeriod(t, length))' <= Cardinality(InPeriod(t, length))
             /\ Cardinality(InPeriod(t, length)) \in Nat
             /\ Cardinality(InPeriod(t, length))' \in Nat
  <2>1. /\ InPeriod(t, length)' \subseteq InPeriod(t, length)
        /\ InPeriod(t, length) \subseteq Admitted
    BY <1>4, <1>6 DEF InPeriod
  <2> QED BY <1>5, <2>1, FS_Subset, FS_CardinalityType
<1>7. Overshoot'
  <2> SUFFICES ASSUME "expiry" \notin happened, NEW t \in Instants
               PROVE  Cardinality(InPeriod(t, Window - MaxStall))'
                          <= MaxRequests + Cardinality(Clients) - 1
    BY DEF Overshoot
  <2> DEFINE S == InPeriod(t, Window - MaxStall)'
             O == {<<d, stamp[d]>> : d \in Clients \ {c}}
  <2>1. CASE ~(stamp[c] <= t /\ stamp[c] > t - (Window - MaxStall))
    BY <1>6, <2>1, Numbers DEF IInv, Overshoot
  <2>2. CASE stamp[c] <= t /\ stamp[c] > t - (Window - MaxStall)
    <3>1. ASSUME NEW g \in S PROVE g = r \/ g[2] \in entries \/ g \in O
      <4> SUFFICES ASSUME g # r PROVE g[2] \in entries \/ g \in O
        OBVIOUS
      <4>1. g \in Admitted /\ g[2] > t - (Window - MaxStall)
        BY <1>4 DEF InPeriod
      <4>2. ~(g[2] + Window <= now)
        BY <1>2, <1>5, <2>2, <4>1, Numbers
      <4> QED BY <1>1, <4>1, <4>2 DEF IInv, Kept, Admitted
    <3>2. S \subseteq Admitted \cup {r}
      BY <1>4 DEF InPeriod
    <3>3. /\ IsFiniteSet(O) /\ Cardinality(O) \in Nat
          /\ Cardinality(O) <= Cardinality(Clients) - 1
      BY AtMostOthers
    <3>4. Cardinality(S) \in Nat
      BY <1>5, <3>2, FS_AddElement, FS_Subset, FS_CardinalityType
    <3> HIDE DEF S, O, r
    <3>5. Cardinality(S) <= Cardinality(entries) + Cardinality(O) + 1
      BY <3>1, <3>2, <3>3, AddUp DEF IInv
    <3>6. Cardinality(S) <= MaxRequests + Cardinality(Clients) - 1
      BY <1>1, <1>2, <3>3, <3>4, <3>5, Numbers
    <3> QED BY <3>6 DEF S
  <2> QED BY <2>1, <2>2
<1>8. WithinLimit'
  <2> SUFFICES ASSUME happened = {}, NEW t \in Instants
               PROVE  Cardinality(InPeriod(t, Window))' <= MaxRequests
    BY DEF WithinLimit
  <2> DEFINE S == InPeriod(t, Window)'
  <2>1. CASE ~(stamp[c] <= t /\ stamp[c] > t - Window)
    BY <1>6, <2>1, Numbers DEF IInv, WithinLimit
  <2>2. CASE stamp[c] <= t /\ stamp[c] > t - Window
    <3>1. ASSUME NEW g \in S PROVE g = r \/ g[2] \in entries \/ g \in {}
      <4> SUFFICES ASSUME g # r PROVE g[2] \in entries
        OBVIOUS
      <4>1. g \in Admitted /\ g[2] > t - Window
        BY <1>4 DEF InPeriod
      <4>2. ~(g[2] + Window <= stamp[c])
        BY <1>2, <1>5, <2>2, <4>1, Numbers
      <4>3. g \in granted
        BY <1>1, <4>1 DEF IInv, Alone, Admitted, Busy
      <4> QED BY <1>1, <4>2, <4>3 DEF IInv, Alone
    <3>2. S \subseteq Admitted \cup {r}
      BY <1>4 DEF InPeriod
    <3>3. IsFiniteSet({}) /\ Cardinality({}) = 0
      BY FS_EmptySet
    <3>4. Cardinality(S) \in Nat
      BY <1>5, <3>2, FS_AddElement, FS_Subset, FS_CardinalityType
    <3> HIDE DEF S, r
    <3>5. Cardinality(S) <= Cardinality(entries) + Cardinality({}) + 1
      BY <3>1, <3>2, <3>3, AddUp DEF IInv
    <3>6. Cardinality(S) <= MaxRequests
      BY <1>1, <1>2, <3>3, <3>4, <3>5, Numbers
    <3> QED BY <3>6 DEF S
  <2> QED BY <2>1, <2>2
<1>9. ASSUME happened = {}, NEW d \in Clients, pc'[d] \in {"trim", "count"}, NEW g \in granted
      PROVE  g[2] \in entries' \/ g[2] + Window <= stamp[d]
  <2>1. pc'[d] = pc[d]
    BY <1>9
  <2> QED BY <1>1, <1>9, <2>1 DEF IInv, Alone
<1> QED BY <1>3, <1>7, <1>8, <1>9 DEF IInv, Alone

\* EXPIRE: a request that was admitted becomes one that is granted, and the key outlives its
\* window.
LEMMA ExpireInv ==
    ASSUME IInv, TypeOK', NEW c \in Clients, Expire(c)
    PROVE  IInv'
<1>1. /\ UNCHANGED <<now, entries, stamp, happened>>
      /\ granted' = granted \cup {<<c, stamp[c]>>}
      /\ deadline' \in {0, now + Window}
      /\ pc[c] = "expire" /\ pc'[c] = "idle"
      /\ \A d \in Clients : d # c => pc'[d] = pc[d]
  BY DEF IInv, TypeOK, Expire, Go
<1>2. now \in Nat /\ \A d \in Clients : stamp[d] \in Nat
  BY Numbers DEF IInv, TypeOK
<1>3. \A d \in Clients : Busy(d)' => Busy(d) /\ d # c
  BY <1>1 DEF Busy
<1>4. Busy(c) /\ stamp[c] < now
  BY <1>1 DEF IInv, Times, Busy
<1>5. Times'
  BY <1>1, <1>3, <1>4 DEF IInv, Times
<1>6. Distinct'
  <2> USE DEF IInv, Distinct
  <2>1. \A d, e \in Clients : Busy(d)' /\ Busy(e)' /\ stamp'[d] = stamp'[e] => d = e
    BY <1>1, <1>3
  <2>2. \A g \in granted' : \A d \in Clients : Busy(d)' => g[2] # stamp'[d]
    BY <1>1, <1>3, <1>4
  <2>3. \A g, h \in granted' : g[2] = h[2] => g = h
    BY <1>1, <1>4
  <2> QED BY <2>1, <2>2, <2>3
<1>7. Deadlines'
  <2>1. \A g \in granted' : g[2] < now /\ g[2] \in Nat
    <3>1. \A g \in granted : g[2] < now /\ g[2] \in Nat
      BY Numbers DEF IInv, TypeOK, Times
    <3> QED BY <1>1, <1>2, <1>4, <3>1
  <2> QED BY <1>1, <1>2, <2>1, Numbers DEF Deadlines
<1>8. Kept'
  BY <1>1 DEF IInv, Kept
<1>9. Admitted' \subseteq Admitted
  BY <1>1 DEF Admitted
<1>10. Overshoot' /\ WithinLimit'
  BY <1>1, <1>9, NoneAdmitted DEF IInv
<1>11. ("overlap" \notin happened => \A d, e \in Clients : Busy(d) /\ Busy(e) => d = e)'
  BY <1>1, <1>3 DEF IInv, Alone
<1>12. ASSUME happened = {}, NEW d \in Clients, pc'[d] \in {"trim", "count"} PROVE FALSE
  BY <1>1, <1>3, <1>4, <1>12 DEF IInv, Alone, Busy
<1> QED BY <1>1, <1>5, <1>6, <1>7, <1>8, <1>10, <1>11, <1>12 DEF IInv, Alone

\* An administrator's reset forgets the granted requests, and shows in `happened' when one is
\* being recorded.
LEMMA ResetInv ==
    ASSUME IInv, TypeOK', Reset
    PROVE  IInv'
<1>1. /\ UNCHANGED <<now, pc, stamp>>
      /\ entries' = {} /\ deadline' = 0 /\ granted' = {}
      /\ happened' = happened \cup Race
  BY DEF Reset
<1>2. Times' /\ Distinct' /\ Deadlines'
  BY <1>1 DEF IInv, Times, Distinct, Deadlines, Busy
<1>3. Kept'
  BY <1>1 DEF Kept, Race
<1>4. Admitted' \subseteq Admitted
  BY <1>1 DEF Admitted
<1>5. Overshoot' /\ WithinLimit'
  BY <1>1, <1>4, NoneAdmitted DEF IInv
<1> QED BY <1>1, <1>2, <1>3, <1>5 DEF IInv, Alone, Busy

\* Every step of _check_limit's clients keeps the invariant.
LEMMA StepInv == IInv /\ [Next]_vars => IInv'
<1> SUFFICES ASSUME IInv, [Next]_vars PROVE IInv'
  OBVIOUS
<1>1. TypeOK'
  BY TypeInv DEF IInv
<1>2. ASSUME NEW c \in Clients, Check(c) PROVE IInv'
  BY <1>1, <1>2, ClockInv
<1>3. ASSUME NEW c \in Clients, Trim(c) PROVE IInv'
  BY <1>1, <1>3, TrimInv
<1>4. ASSUME NEW c \in Clients, Count(c) PROVE IInv'
  <2>1. pc'[c] \in {"idle", "add"}
    BY <1>4 DEF IInv, TypeOK, Count, Go
  <2> QED BY <1>1, <1>4, <2>1, AddFailInv, CountInv
<1>5. ASSUME NEW c \in Clients, Add(c) \/ Fail(c) PROVE IInv'
  <2>1. CASE Add(c)
    BY <1>1, <2>1, AddFailInv
  <2>2. CASE Fail(c)
    BY <1>1, <2>2, AddFailInv
  <2> QED BY <1>5, <2>1, <2>2
<1>6. ASSUME NEW c \in Clients, Expire(c) PROVE IInv'
  BY <1>1, <1>6, ExpireInv
<1>7. CASE Reset
  BY <1>1, <1>7, ResetInv
<1>8. CASE Tick
  BY <1>1, <1>8, ClockInv
<1>9. CASE UNCHANGED vars
  BY <1>9 DEF vars, IInv, TypeOK, Times, Distinct, Deadlines, Kept, Overshoot, Alone,
              WithinLimit, InPeriod, Admitted, Busy
<1> QED BY <1>2, <1>3, <1>4, <1>5, <1>6, <1>7, <1>8, <1>9 DEF Next

-----------------------------------------------------------------------------
\* The inductive invariant of the key and the checks under way in _check_limit.
THEOREM Invariance == Spec => []IInv
<1> QED BY InitInv, StepInv, PTL DEF Spec

\* The key's entries are stamps of past checks, and its deadline is never more than one window
\* after the last EXPIRE.
THEOREM TypeCorrect == Spec => []TypeOK
<1>1. IInv => TypeOK
  BY DEF IInv
<1> QED BY <1>1, Invariance, PTL

\* Granted requests were admitted.
LEMMA GrantedAdmitted ==
    ASSUME TypeOK, NEW t, NEW length
    PROVE  /\ Cardinality(Granted(t, length)) <= Cardinality(InPeriod(t, length))
           /\ Cardinality(Granted(t, length)) \in Nat
           /\ Cardinality(InPeriod(t, length)) \in Nat
<1>1. /\ Granted(t, length) \subseteq InPeriod(t, length)
      /\ InPeriod(t, length) \subseteq Admitted
  BY DEF Granted, InPeriod, Admitted
<1> QED BY <1>1, AdmittedType, FS_Subset, FS_CardinalityType

\* One client at a time, with the key alive, is granted at most max_requests in any window:
\* the limit of _check_limit is exact.
THEOREM LimitCorrect == Spec => []LimitRespected
<1>1. IInv => LimitRespected
  BY GrantedAdmitted, Numbers DEF IInv, WithinLimit, LimitRespected
<1> QED BY <1>1, Invariance, PTL

\* Clients that run the four commands of _check_limit in any interleaving are granted at most
\* one request each above the limit.
THEOREM OvershootCorrect == Spec => []OvershootBounded
<1>1. IInv => OvershootBounded
  BY GrantedAdmitted, Numbers DEF IInv, Overshoot, OvershootBounded
<1> QED BY <1>1, Invariance, PTL
=============================================================================
