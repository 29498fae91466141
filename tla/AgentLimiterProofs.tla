------------------------- MODULE AgentLimiterProofs -------------------------
(***************************************************************************)
(* Proofs about AgentLimiter, for every number of agents, callers and      *)
(* ticks.  The argument for RateBound is about one number per bucket, its  *)
(* credit tokens - last: refilling never raises it, a grant lowers it by   *)
(* Token, and the cap keeps it below Burst - t for every reading t used.   *)
(***************************************************************************)
EXTENDS AgentLimiter, FiniteSetTheorems, TLAPS

Credit(a) == buckets[a].tokens - buckets[a].last

\* A caller's reading is at most MaxDelay old (Tick's guard).
CallsRecent ==
    \A c \in Callers : Waiting(c) => /\ call[c].at <= now
                                     /\ now - call[c].at <= MaxDelay

\* last trails the newest reading by at most MaxDelay, and so does the budget.
BucketsRecent ==
    /\ \A a \in Agents : latest[a] <= now
    /\ \A a \in DOMAIN buckets :
        /\ buckets[a].last <= latest[a]
        /\ latest[a] - buckets[a].last <= MaxDelay
        /\ Credit(a) >= -latest[a]

\* What a window has admitted is missing from the credit ...
SpentIsDebited ==
    \A a \in DOMAIN buckets, w \in Windows :
        spent[a][w] > 0 => Credit(a) <= Burst - w[1] - spent[a][w]

\* ... or, once the bucket is evicted, has been refilled by time alone.
EvictedIsRefilled ==
    \A a \in Agents \ DOMAIN buckets, w \in Windows :
        spent[a][w] > 0 => spent[a][w] <= now - MaxDelay - w[1]

IInv ==
    /\ TypeOK
    /\ CapacityBound
    /\ CallsRecent
    /\ BucketsRecent
    /\ SpentIsDebited
    /\ EvictedIsRefilled
    /\ RateBound
-----------------------------------------------------------------------------
\* A window is a pair of ticks in order.
LEMMA WindowType ==
    ASSUME NEW w \in Windows
    PROVE  w[1] \in Nat /\ w[2] \in Nat /\ w[1] <= w[2]
BY LimiterAssumption DEF Windows, Time

\* What allowAt does to the map: it evicts only evictable buckets of other
\* agents, touches no other bucket, and sets a's to the refilled budget, less
\* one request if it is granted.
LEMMA AllowAtEffect ==
    ASSUME NEW bs, bs \in [DOMAIN bs -> Bucket], NEW a, NEW t \in Nat
    PROVE  LET nb == AllowAt(bs, a, t)
           IN  /\ nb \in [DOMAIN nb -> Bucket]
               /\ DOMAIN nb \subseteq DOMAIN bs \cup {a}
               /\ \A x \in DOMAIN nb : x # a => nb[x] = bs[x]
               /\ \A x \in DOMAIN bs \ DOMAIN nb :
                      x # a /\ Evictable(bs[x], t)
               /\ HasRoom(bs, a, t) =>
                      /\ a \in DOMAIN nb
                      /\ nb[a].last = t
                      /\ nb[a].tokens = Refill(bs, a, t).tokens
                            - (IF Allows(bs, a, t) THEN Token ELSE 0)
               /\ ~HasRoom(bs, a, t) => a \notin DOMAIN nb
<1> DEFINE nb == AllowAt(bs, a, t)
           sw == Sweep(bs, a, t)
           full == Refill(bs, a, t)
<1>1. /\ sw \in [DOMAIN sw -> Bucket]
      /\ DOMAIN sw \subseteq DOMAIN bs
      /\ \A x \in DOMAIN sw : sw[x] = bs[x]
      /\ \A x \in DOMAIN bs \ DOMAIN sw : x # a /\ Evictable(bs[x], t)
      /\ a \in DOMAIN bs => a \in DOMAIN sw
  BY DEF Sweep
<1>2. full \in Bucket /\ full.last = t
  BY BucketAssumption DEF Refill, Bucket
<1>3. [full EXCEPT !.tokens = @ - Token] \in Bucket
  BY <1>2, BucketAssumption DEF Bucket
<1>4. CASE ~HasRoom(bs, a, t)
  <2>1. nb = sw
    BY <1>4 DEF AllowAt
  <2>2. a \notin DOMAIN sw
    BY <1>4, <1>1 DEF HasRoom
  <2> QED  BY <1>1, <1>4, <2>1, <2>2
<1>5. CASE HasRoom(bs, a, t)
  <2>1. PICK b \in Bucket :
            /\ nb = WithBucket(sw, a, b)
            /\ b.last = t
            /\ b.tokens = full.tokens - (IF Allows(bs, a, t) THEN Token ELSE 0)
    <3>1. CASE full.tokens < Token
      <4>1. nb = WithBucket(sw, a, full) /\ ~Allows(bs, a, t)
        BY <1>2, <1>5, <3>1, BucketAssumption DEF AllowAt, Allows, Bucket
      <4>2. full.tokens = full.tokens - 0
        BY <1>2 DEF Bucket
      <4> QED  BY <1>2, <4>1, <4>2
    <3>2. CASE ~(full.tokens < Token)
      <4>1. nb = WithBucket(sw, a, [full EXCEPT !.tokens = @ - Token])
        BY <1>5, <3>2 DEF AllowAt
      <4>2. Allows(bs, a, t)
        BY <1>2, <1>5, <3>2, BucketAssumption DEF Allows, Bucket
      <4> QED  BY <1>2, <1>3, <4>1, <4>2 DEF Bucket
    <3> QED  BY <3>1, <3>2
  <2>2. /\ DOMAIN nb = DOMAIN sw \cup {a}
        /\ nb[a] = b
        /\ \A x \in DOMAIN nb : x # a => nb[x] = sw[x]
    BY <2>1 DEF WithBucket
  <2>3. nb = [x \in DOMAIN nb |-> nb[x]]
    BY <2>1 DEF WithBucket
  <2> QED  BY <1>1, <1>5, <2>1, <2>2, <2>3
<1> QED  BY <1>4, <1>5

\* The refilled budget: the burst for a new bucket, otherwise the smaller of
\* the burst and the credit brought to t.
LEMMA RefillValue ==
    ASSUME NEW bs, bs \in [DOMAIN bs -> Bucket], NEW a, NEW t \in Nat
    PROVE  /\ a \notin DOMAIN bs => Refill(bs, a, t).tokens = Burst
           /\ a \in DOMAIN bs =>
                LET sum == bs[a].tokens + (t - bs[a].last)
                IN  Refill(bs, a, t).tokens = IF sum > Burst THEN Burst ELSE sum
BY BucketAssumption DEF Refill, Bucket

\* allowAt keeps the number of buckets within maxAgents.
LEMMA AllowAtCapacity ==
    ASSUME NEW bs, IsFiniteSet(DOMAIN bs), Cardinality(DOMAIN bs) <= MaxAgents,
           NEW a, NEW t
    PROVE  Cardinality(DOMAIN AllowAt(bs, a, t)) <= MaxAgents
<1> DEFINE sw == Sweep(bs, a, t)
<1>1. DOMAIN sw \subseteq DOMAIN bs
  BY DEF Sweep
<1>2. /\ IsFiniteSet(DOMAIN sw)
      /\ Cardinality(DOMAIN sw) \in Nat
      /\ Cardinality(DOMAIN sw) <= MaxAgents
  BY <1>1, FS_Subset, FS_CardinalityType, BucketAssumption
<1>3. CASE ~HasRoom(bs, a, t)
  BY <1>2, <1>3 DEF AllowAt
<1>4. CASE HasRoom(bs, a, t)
  <2>1. DOMAIN AllowAt(bs, a, t) = DOMAIN sw \cup {a}
    BY <1>4 DEF AllowAt, WithBucket
  <2>2. CASE a \in DOMAIN sw
    <3>1. DOMAIN sw \cup {a} = DOMAIN sw
      BY <2>2
    <3> QED  BY <1>2, <2>1, <3>1
  <2>3. CASE a \notin DOMAIN sw
    <3>1. a \notin DOMAIN bs
      BY <2>3 DEF Sweep
    <3>2. Cardinality(DOMAIN sw) < MaxAgents
      BY <1>4, <3>1 DEF HasRoom
    <3>3. Cardinality(DOMAIN sw \cup {a}) = Cardinality(DOMAIN sw) + 1
      BY <1>2, <2>3, FS_AddElement
    <3> QED  BY <1>2, <2>1, <3>2, <3>3, BucketAssumption
  <2> QED  BY <2>2, <2>3
<1> QED  BY <1>3, <1>4
-----------------------------------------------------------------------------
\* The limiter starts with no bucket and nothing spent.
LEMMA InitIInv == Init => IInv
<1> SUFFICES ASSUME Init PROVE IInv
  OBVIOUS
<1>1. DOMAIN buckets = {}
  BY DEF Init
<1>2. TypeOK
  BY <1>1, LimiterAssumption DEF Init, TypeOK, Time
<1>3. CapacityBound
  BY <1>1, FS_EmptySet, BucketAssumption DEF CapacityBound
<1>4. CallsRecent /\ BucketsRecent
  BY <1>1 DEF Init, CallsRecent, BucketsRecent, Waiting
<1>5. SpentIsDebited /\ EvictedIsRefilled
  BY <1>1 DEF Init, SpentIsDebited, EvictedIsRefilled
<1>6. RateBound
  BY WindowType, BucketAssumption DEF Init, RateBound
<1> QED  BY <1>2, <1>3, <1>4, <1>5, <1>6 DEF IInv

\* Time alone disturbs only the ages of readings.
LEMMA TickIInv == IInv /\ Tick => IInv'
<1> SUFFICES ASSUME IInv, Tick PROVE IInv'
  OBVIOUS
<1> USE DEF IInv
<1>1. now \in Nat /\ now' = now + 1 /\ now' \in Time
  BY LimiterAssumption DEF TypeOK, Tick, Time
<1>2. TypeOK' /\ CapacityBound'
  BY <1>1 DEF TypeOK, CapacityBound, Tick
<1>3. CallsRecent'
  BY <1>1, LimiterAssumption DEF CallsRecent, Tick, TypeOK, Waiting, Time
<1>4. BucketsRecent'
  BY <1>1 DEF BucketsRecent, Tick, TypeOK, Credit, Time
<1>5. SpentIsDebited' /\ RateBound'
  BY DEF SpentIsDebited, RateBound, Tick, Credit
<1>6. EvictedIsRefilled'
  <2> SUFFICES ASSUME NEW a \in Agents \ DOMAIN buckets, NEW w \in Windows,
                      spent[a][w] > 0
               PROVE  spent[a][w] <= now' - MaxDelay - w[1]
    BY DEF EvictedIsRefilled, Tick
  <2>1. spent[a][w] \in Nat
    BY DEF TypeOK
  <2>2. spent[a][w] <= now - MaxDelay - w[1]
    BY DEF EvictedIsRefilled
  <2> QED  BY <1>1, <2>1, <2>2, WindowType, LimiterAssumption
<1> QED  BY <1>2, <1>3, <1>4, <1>5, <1>6

\* A caller that reads the clock holds the newest reading there is.
LEMMA AllowIInv ==
    ASSUME IInv, NEW c \in Callers, NEW a \in Agents, Allow(c, a)
    PROVE  IInv'
<1> USE DEF IInv
<1>1. call' \in [Callers -> [agent : Agents, at : Time] \cup {Idle}]
  BY DEF TypeOK, Allow
<1>2. TypeOK' /\ CapacityBound'
  BY <1>1 DEF TypeOK, CapacityBound, Allow
<1>3. CallsRecent'
  <2> SUFFICES ASSUME NEW d \in Callers, Waiting(d)'
               PROVE  call'[d].at <= now /\ now - call'[d].at <= MaxDelay
    BY DEF CallsRecent, Allow
  <2>1. CASE d = c
    <3>1. call'[d].at = now
      BY <2>1 DEF Allow, TypeOK
    <3> QED  BY <3>1, LimiterAssumption DEF TypeOK, Time
  <2>2. CASE d # c
    BY <2>2 DEF CallsRecent, Allow, TypeOK, Waiting
  <2> QED  BY <2>1, <2>2
<1>4. /\ BucketsRecent' /\ SpentIsDebited'
      /\ EvictedIsRefilled' /\ RateBound'
  BY DEF BucketsRecent, SpentIsDebited, EvictedIsRefilled, RateBound,
         Allow, Credit
<1> QED  BY <1>2, <1>3, <1>4

\* The three outcomes of a critical section, told apart only by what they
\* admit: nothing, or one request in every window around the reading.
Outcome(c) ==
    /\ Waiting(c)
    /\ Decide(c)
    /\ \/ /\ ~Allows(buckets, call[c].agent, call[c].at)
          /\ UNCHANGED spent
       \/ Grant(c)

\* Refuse, Throttle and Grant are the outcomes of one critical section.
LEMMA OutcomeIsOne ==
    ASSUME NEW c \in Callers, Refuse(c) \/ Throttle(c) \/ Grant(c)
    PROVE  Outcome(c)
BY DEF Outcome, Refuse, Throttle, Grant, Allows

\* What a critical section admits counts in every window around its reading.
LEMMA SpentEffect ==
    ASSUME TypeOK, NEW c \in Callers, Outcome(c),
           NEW a \in Agents, a = call[c].agent,
           NEW t \in Nat, t = call[c].at,
           NEW g, g = IF Allows(buckets, a, t) THEN Token ELSE 0
    PROVE  /\ spent' \in [Agents -> [Windows -> Nat]]
           /\ \A x \in Agents, w \in Windows :
                spent'[x][w] = spent[x][w]
                    + (IF x = a /\ w[1] <= t /\ t <= w[2] THEN g ELSE 0)
<1>1. spent \in [Agents -> [Windows -> Nat]] /\ Token \in Nat
  BY BucketAssumption DEF TypeOK
<1>2. CASE Grant(c)
  <2>1. g = Token /\ spent' = [spent EXCEPT ![a] =
             [w \in Windows |->
                 IF w[1] <= t /\ t <= w[2] THEN @[w] + Token ELSE @[w]]]
    BY <1>2 DEF Grant
  <2> QED  BY <1>1, <2>1
<1>3. CASE ~Grant(c)
  <2>1. g = 0 /\ spent' = spent
    BY <1>3 DEF Outcome
  <2> QED  BY <1>1, <2>1
<1> QED  BY <1>2, <1>3

\* A critical section of allowAt, whatever it answers, keeps the invariant.
LEMMA OutcomeIInv ==
    ASSUME IInv, NEW c \in Callers, Outcome(c),
           NEW a, a = call[c].agent,
           NEW t, t = call[c].at,
           NEW g, g = IF Allows(buckets, a, t) THEN Token ELSE 0
    PROVE  IInv'
<1> USE DEF IInv
<1>1. a \in Agents /\ t \in Time /\ t \in Nat /\ t <= now /\ now - t <= MaxDelay
  BY LimiterAssumption DEF Outcome, TypeOK, Waiting, Time, CallsRecent
<1>2. now \in Nat /\ now' = now /\ MaxDelay \in Nat /\ Burst \in Nat
      /\ Token \in Nat /\ Token <= Burst /\ Token > 0 /\ IdleTTL \in Nat
      /\ IdleTTL >= Burst + 2 * MaxDelay
  BY LimiterAssumption, BucketAssumption DEF TypeOK, Time, Outcome, Decide
<1>3. /\ buckets' = AllowAt(buckets, a, t)
      /\ latest' = [latest EXCEPT ![a] = IF t > @ THEN t ELSE @]
      /\ call' = [call EXCEPT ![c] = Idle]
  BY DEF Outcome, Decide
<1>4. buckets \in [DOMAIN buckets -> Bucket]
  BY DEF TypeOK
<1>5. /\ buckets' \in [DOMAIN buckets' -> Bucket]
      /\ DOMAIN buckets' \subseteq DOMAIN buckets \cup {a}
      /\ \A x \in DOMAIN buckets' : x # a => buckets'[x] = buckets[x]
      /\ \A x \in DOMAIN buckets \ DOMAIN buckets' :
             x # a /\ Evictable(buckets[x], t)
      /\ HasRoom(buckets, a, t) =>
             /\ a \in DOMAIN buckets'
             /\ buckets'[a].last = t
             /\ buckets'[a].tokens = Refill(buckets, a, t).tokens - g
      /\ ~HasRoom(buckets, a, t) => a \notin DOMAIN buckets'
  BY <1>1, <1>3, <1>4, AllowAtEffect
<1>6. /\ a \notin DOMAIN buckets => Refill(buckets, a, t).tokens = Burst
      /\ a \in DOMAIN buckets =>
           LET sum == buckets[a].tokens + (t - buckets[a].last)
           IN  Refill(buckets, a, t).tokens = IF sum > Burst THEN Burst ELSE sum
  BY <1>1, <1>4, RefillValue
<1>7. g > 0 => HasRoom(buckets, a, t) /\ Refill(buckets, a, t).tokens >= Token
  BY <1>2 DEF Allows
<1>8. /\ spent' \in [Agents -> [Windows -> Nat]]
      /\ \A x \in Agents, w \in Windows :
           spent'[x][w] = spent[x][w]
               + (IF x = a /\ w[1] <= t /\ t <= w[2] THEN g ELSE 0)
  BY <1>1, SpentEffect
<1>9. \A x \in Agents :
        /\ latest[x] \in Nat
        /\ latest'[x] \in Nat
        /\ latest[x] <= latest'[x]
        /\ latest'[x] <= now
        /\ IF x = a THEN t <= latest'[x] ELSE latest'[x] = latest[x]
  <2>1. \A x \in Agents : latest[x] \in Nat /\ latest[x] <= now
    BY LimiterAssumption DEF TypeOK, BucketsRecent, Time
  <2>2. \A x \in Agents : latest'[x] =
            IF x = a /\ t > latest[x] THEN t ELSE latest[x]
    BY <1>1, <1>3 DEF TypeOK
  <2> QED  BY <1>1, <1>2, <2>1, <2>2
<1>10. \A x \in DOMAIN buckets : x \in Agents /\ buckets[x].tokens \in Int
                                 /\ buckets[x].last \in Nat
                                 /\ buckets[x].tokens >= -MaxDelay
                                 /\ buckets[x].tokens <= Burst
  BY <1>2, <1>4 DEF TypeOK, Bucket
<1>11. \A x \in Agents, w \in Windows : spent[x][w] \in Nat
  BY DEF TypeOK
<1>12. g \in {0, Token}
  OBVIOUS
<1>13. BucketsRecent'
  <2> SUFFICES ASSUME NEW x \in DOMAIN buckets'
               PROVE  /\ buckets'[x].last <= latest'[x]
                      /\ latest'[x] - buckets'[x].last <= MaxDelay
                      /\ buckets'[x].tokens - buckets'[x].last >= -latest'[x]
    BY <1>2, <1>9 DEF BucketsRecent, Credit
  <2>1. CASE x # a
    BY <1>5, <1>9, <1>10, <2>1 DEF BucketsRecent, Credit
  <2>2. CASE x = a
    <3>1. /\ buckets'[a].last = t
          /\ buckets'[a].tokens = Refill(buckets, a, t).tokens - g
      BY <1>5, <2>2
    <3>2. latest[a] \in Nat /\ latest'[a] \in Nat /\ latest'[a] <= now
          /\ latest[a] <= latest'[a]
      BY <1>1, <1>9
    <3>3. CASE a \in DOMAIN buckets
      <4>1. buckets[a].tokens - buckets[a].last >= -latest[a]
        BY <3>3 DEF BucketsRecent, Credit
      <4> QED  BY <1>1, <1>2, <1>6, <1>7, <1>9, <1>10, <1>12, <2>2, <3>1, <3>2, <3>3, <4>1
    <3>4. CASE a \notin DOMAIN buckets
      BY <1>1, <1>2, <1>6, <1>7, <1>9, <1>12, <2>2, <3>1, <3>2, <3>4
    <3> QED  BY <3>3, <3>4
  <2> QED  BY <2>1, <2>2
<1>14. TypeOK'
  <2>1. \A x \in DOMAIN buckets' : buckets'[x].tokens \in (-MaxDelay)..Burst
    <3> SUFFICES ASSUME NEW x \in DOMAIN buckets'
                 PROVE  buckets'[x].tokens \in (-MaxDelay)..Burst
      OBVIOUS
    <3>1. CASE x # a
      BY <1>5, <3>1 DEF TypeOK
    <3>2. CASE x = a
      <4>1. /\ buckets'[a].tokens - t >= -latest'[a] /\ latest'[a] - t <= MaxDelay
            /\ buckets'[a].tokens \in Int
            /\ buckets'[a].tokens = Refill(buckets, a, t).tokens - g
        BY <1>5, <1>13, <3>2 DEF BucketsRecent, Credit, Bucket
      <4>2. Refill(buckets, a, t).tokens <= Burst
        BY <1>2, <1>6, <1>10, <1>1
      <4>3. Refill(buckets, a, t).tokens \in Int
        BY <1>2, <1>6, <1>10, <1>1
      <4>4. latest'[a] \in Nat
        BY <1>1, <1>9
      <4> QED  BY <1>1, <1>2, <1>12, <3>2, <4>1, <4>2, <4>3, <4>4
    <3> QED  BY <3>1, <3>2
  <2>2. call' \in [Callers -> [agent : Agents, at : Time] \cup {Idle}]
    BY <1>3 DEF TypeOK
  <2>3. latest' \in [Agents -> Time]
    BY <1>1, <1>3 DEF TypeOK
  <2>4. DOMAIN buckets' \subseteq Agents
    BY <1>1, <1>5 DEF TypeOK
  <2> QED  BY <1>2, <1>5, <1>8, <2>1, <2>2, <2>3, <2>4 DEF TypeOK
<1>15. CapacityBound'
  <2>1. IsFiniteSet(DOMAIN buckets)
    BY LimiterAssumption, FS_Subset DEF TypeOK
  <2> QED  BY <1>3, <2>1, AllowAtCapacity DEF CapacityBound
<1>16. CallsRecent'
  BY <1>2, <1>3 DEF CallsRecent, TypeOK, Waiting
<1> DEFINE newCredit == buckets'[a].tokens - buckets'[a].last
\* The credit of a's bucket after the call: at most Burst - t and at most what
\* it was, less what is granted.
<1>17. ASSUME a \in DOMAIN buckets'
       PROVE  /\ newCredit \in Int
              /\ newCredit <= Burst - t - g
              /\ a \in DOMAIN buckets => newCredit <= Credit(a) - g
  <2>1. /\ buckets'[a].last = t
        /\ buckets'[a].tokens = Refill(buckets, a, t).tokens - g
    BY <1>5, <1>17
  <2> QED  BY <1>1, <1>2, <1>6, <1>10, <1>12, <2>1 DEF Credit
<1>18. SpentIsDebited'
  <2> SUFFICES ASSUME NEW x \in DOMAIN buckets', NEW w \in Windows,
                      spent'[x][w] > 0
               PROVE  buckets'[x].tokens - buckets'[x].last
                          <= Burst - w[1] - spent'[x][w]
    BY DEF SpentIsDebited, Credit
  <2>1. x \in Agents /\ w[1] \in Nat /\ w[2] \in Nat /\ spent[x][w] \in Nat
    BY <1>11, <1>14, WindowType DEF TypeOK
  <2>2. CASE x # a
    <3>1. x \in DOMAIN buckets /\ buckets'[x] = buckets[x]
      BY <1>5, <2>2
    <3>2. spent'[x][w] = spent[x][w]
      BY <1>8, <2>1, <2>2
    <3> QED  BY <3>1, <3>2 DEF SpentIsDebited, Credit
  <2>3. CASE x = a /\ spent[x][w] = 0
    <3>1. w[1] <= t /\ spent'[x][w] = g
      BY <1>1, <1>2, <1>8, <1>12, <2>1, <2>3
    <3> QED  BY <1>1, <1>2, <1>12, <1>17, <2>1, <2>3, <3>1
  <2>4. CASE x = a /\ spent[x][w] > 0
    <3>1. spent'[x][w] <= spent[x][w] + g /\ spent'[x][w] \in Nat
      BY <1>2, <1>8, <1>12, <2>1
    <3>2. CASE a \in DOMAIN buckets
      <4>1. Credit(a) <= Burst - w[1] - spent[a][w]
        BY <2>4, <3>2 DEF SpentIsDebited
      <4>2. Credit(a) \in Int
        BY <1>10, <3>2 DEF Credit
      <4> QED  BY <1>2, <1>12, <1>17, <2>1, <2>4, <3>1, <3>2, <4>1, <4>2
    <3>3. CASE a \notin DOMAIN buckets
      <4>1. spent[a][w] <= now - MaxDelay - w[1]
        BY <1>1, <2>4, <3>3 DEF EvictedIsRefilled
      <4> QED  BY <1>1, <1>2, <1>12, <1>17, <2>1, <2>4, <3>1, <4>1
    <3> QED  BY <3>2, <3>3
  <2> QED  BY <2>1, <2>2, <2>3, <2>4
<1>19. EvictedIsRefilled'
  <2> SUFFICES ASSUME NEW x \in Agents \ DOMAIN buckets', NEW w \in Windows,
                      spent'[x][w] > 0
               PROVE  spent'[x][w] <= now' - MaxDelay - w[1]
    BY DEF EvictedIsRefilled
  <2>1. w[1] \in Nat /\ w[2] \in Nat /\ spent[x][w] \in Nat
    BY <1>11, WindowType
  <2>2. spent'[x][w] = spent[x][w]
    BY <1>2, <1>5, <1>7, <1>8, <1>12, <2>1
  <2>3. CASE x \notin DOMAIN buckets
    BY <1>2, <2>2, <2>3 DEF EvictedIsRefilled
  <2>4. CASE x \in DOMAIN buckets
    <3>1. t - buckets[x].last >= IdleTTL
      BY <1>5, <2>4 DEF Evictable
    <3>2. buckets[x].tokens - buckets[x].last <= Burst - w[1] - spent[x][w]
      BY <2>2, <2>4 DEF SpentIsDebited, Credit
    <3> QED  BY <1>1, <1>2, <1>10, <2>1, <2>2, <2>4, <3>1, <3>2
  <2> QED  BY <2>3, <2>4
<1>20. RateBound'
  <2> SUFFICES ASSUME NEW x \in Agents, NEW w \in Windows
               PROVE  spent'[x][w] <= Burst + (w[2] - w[1])
    BY DEF RateBound
  <2>1. /\ w[1] \in Nat /\ w[2] \in Nat /\ w[1] <= w[2] /\ spent[x][w] \in Nat
        /\ spent[x][w] <= Burst + (w[2] - w[1])
    BY <1>11, WindowType DEF RateBound
  <2>2. CASE spent'[x][w] = spent[x][w]
    BY <2>1, <2>2
  <2>3. CASE spent'[x][w] # spent[x][w]
    <3>1. x = a /\ g = Token /\ w[1] <= t /\ t <= w[2]
          /\ spent'[x][w] = spent[x][w] + Token
      BY <1>2, <1>8, <1>12, <2>1, <2>3
    <3>2. a \in DOMAIN buckets' /\ buckets'[a].last = t /\ buckets'[a].tokens >= 0
          /\ buckets'[a].tokens \in Int
      <4>1. a \in DOMAIN buckets' /\ buckets'[a] \in Bucket
            /\ buckets'[a].last = t
            /\ buckets'[a].tokens = Refill(buckets, a, t).tokens - g
        BY <1>2, <1>5, <1>7, <3>1
      <4>2. Refill(buckets, a, t).tokens \in Int
        BY <1>1, <1>2, <1>6, <1>10
      <4> QED  BY <1>2, <1>7, <3>1, <4>1, <4>2
    <3>3. newCredit <= Burst - w[1] - spent'[x][w]
      BY <1>2, <1>18, <2>1, <3>1, <3>2 DEF SpentIsDebited, Credit
    <3> QED  BY <1>1, <1>2, <2>1, <3>1, <3>2, <3>3 DEF Credit
  <2> QED  BY <2>2, <2>3
<1> QED  BY <1>13, <1>14, <1>15, <1>16, <1>18, <1>19, <1>20
-----------------------------------------------------------------------------
\* Every step of the limiter keeps the invariant.
LEMMA NextIInv == IInv /\ [Next]_vars => IInv'
<1> SUFFICES ASSUME IInv, [Next]_vars PROVE IInv'
  OBVIOUS
<1>1. CASE Tick
  BY <1>1, TickIInv
<1>2. ASSUME NEW c \in Callers, NEW a \in Agents, Allow(c, a) PROVE IInv'
  BY <1>2, AllowIInv
<1>3. ASSUME NEW c \in Callers, Refuse(c) \/ Throttle(c) \/ Grant(c) PROVE IInv'
  BY <1>3, OutcomeIsOne, OutcomeIInv
<1>4. CASE UNCHANGED vars
  BY <1>4 DEF vars, IInv, TypeOK, CapacityBound, CallsRecent, BucketsRecent,
              SpentIsDebited, EvictedIsRefilled, RateBound, Credit, Waiting
<1> QED  BY <1>1, <1>2, <1>3, <1>4 DEF Next

\* The inductive invariant holds in every reachable state.
THEOREM Invariance == Spec => []IInv
BY InitIInv, NextIInv, PTL DEF Spec

\* Every state of the limiter is well typed: budgets stay between -MaxDelay and
\* the burst, whatever the order in which handlers win the mutex.
THEOREM TypeCorrect == Spec => []TypeOK
<1>1. IInv => TypeOK
  BY DEF IInv
<1> QED  BY <1>1, Invariance, PTL

\* allowAt keeps at most maxAgents buckets, for any number of identities.
THEOREM CapacityHolds == Spec => []CapacityBound
<1>1. IInv => CapacityBound
  BY DEF IInv
<1> QED  BY <1>1, Invariance, PTL

\* No agent is ever admitted more than a burst plus the refill of the window,
\* over any window, for any burst, rate, capacity and number of handlers.
THEOREM RateIsBounded == Spec => []RateBound
<1>1. IInv => RateBound
  BY DEF IInv
<1> QED  BY <1>1, Invariance, PTL
-----------------------------------------------------------------------------
(***************************************************************************)
(* The converse of RateBound.  A bucket's credit was Burst - t0 when it    *)
(* was last full, at reading t0, and has lost only what was granted since. *)
(* Every reading used after that is at most MaxDelay older than t0, so all *)
(* of it was granted in the window that starts MaxDelay before t0.         *)
(***************************************************************************)

\* A longer window has admitted no less.
SpentMonotone ==
    \A a \in Agents, v, w \in Windows :
        v[1] = w[1] /\ w[2] <= v[2] => spent[a][w] <= spent[a][v]

\* s is the start of such a window for agent a.
FullSince(a, s) ==
    /\ s \in Time /\ s <= latest[a]
    /\ s = 0 \/ s <= now - MaxDelay
    /\ Credit(a) + spent[a][<<s, latest[a]>>] >= Burst - s - MaxDelay

CreditIsSpent == \A a \in DOMAIN buckets : \E s \in Time : FullSince(a, s)

\* Steps that decide nothing.
LEMMA QuietCredit ==
    ASSUME IInv, CreditIsSpent, SpentMonotone, now' \in {now, now + 1},
           UNCHANGED <<buckets, latest, spent>>
    PROVE  CreditIsSpent' /\ SpentMonotone'
<1>1. now \in Int /\ MaxDelay \in Int /\ \A s \in Time : s \in Int
  BY LimiterAssumption DEF IInv, TypeOK, Time
<1>2. ASSUME NEW a \in DOMAIN buckets PROVE \E s \in Time : FullSince(a, s)'
  <2>1. PICK s \in Time : FullSince(a, s)
    BY DEF CreditIsSpent
  <2>2. FullSince(a, s)'
    BY <1>1, <2>1 DEF FullSince, Credit
  <2> QED  BY <2>2
<1> QED  BY <1>2 DEF CreditIsSpent, SpentMonotone

\* A critical section, whatever it answers.
LEMMA OutcomeCredit ==
    ASSUME IInv, CreditIsSpent, SpentMonotone, NEW c \in Callers, Outcome(c),
           NEW a, a = call[c].agent,
           NEW t, t = call[c].at,
           NEW g, g = IF Allows(buckets, a, t) THEN Token ELSE 0
    PROVE  CreditIsSpent' /\ SpentMonotone'
<1>1. a \in Agents /\ t \in Time /\ t \in Nat /\ t <= now /\ now - t <= MaxDelay
  BY LimiterAssumption DEF IInv, Outcome, TypeOK, Waiting, Time, CallsRecent
<1>2. /\ now \in Nat /\ now' = now /\ MaxDelay \in Nat /\ Burst \in Nat
      /\ Token \in Nat /\ g \in Nat /\ \A s \in Time : s \in Nat
  BY LimiterAssumption, BucketAssumption DEF IInv, TypeOK, Time, Outcome, Decide
<1>3. /\ buckets' = AllowAt(buckets, a, t)
      /\ latest' = [latest EXCEPT ![a] = IF t > @ THEN t ELSE @]
  BY DEF Outcome, Decide
<1>4. buckets \in [DOMAIN buckets -> Bucket] /\ DOMAIN buckets \subseteq Agents
  BY DEF IInv, TypeOK
<1>5. /\ DOMAIN buckets' \subseteq DOMAIN buckets \cup {a}
      /\ \A x \in DOMAIN buckets' : x # a => buckets'[x] = buckets[x]
      /\ a \in DOMAIN buckets' =>
             /\ buckets'[a].last = t
             /\ buckets'[a].tokens = Refill(buckets, a, t).tokens - g
  BY <1>1, <1>3, <1>4, AllowAtEffect
<1>6. /\ \A x \in Agents, w \in Windows : spent[x][w] \in Nat /\ spent'[x][w] \in Nat
      /\ \A x \in Agents, w \in Windows :
           spent'[x][w] = spent[x][w]
               + (IF x = a /\ w[1] <= t /\ t <= w[2] THEN g ELSE 0)
  BY <1>1, SpentEffect DEF IInv, TypeOK
<1>7. /\ \A x \in Agents : latest[x] \in Time /\ latest'[x] \in Time
      /\ \A x \in Agents : x # a => latest'[x] = latest[x]
      /\ latest[a] <= latest'[a] /\ t <= latest'[a]
  BY <1>1, <1>2, <1>3 DEF IInv, TypeOK
<1>8. SpentMonotone'
  <2> SUFFICES ASSUME NEW x \in Agents, NEW v \in Windows, NEW w \in Windows,
                      v[1] = w[1], w[2] <= v[2]
               PROVE  spent'[x][w] <= spent'[x][v]
    BY DEF SpentMonotone
  <2>1. spent[x][w] <= spent[x][v]
    BY DEF SpentMonotone
  <2> QED  BY <1>1, <1>2, <1>6, <2>1, WindowType
<1>9. CreditIsSpent'
  <2> SUFFICES ASSUME NEW x \in DOMAIN buckets'
               PROVE  \E s \in Time : FullSince(x, s)'
    BY DEF CreditIsSpent
  <2>1. CASE x # a
    <3>1. x \in DOMAIN buckets /\ x \in Agents /\ buckets'[x] = buckets[x]
      BY <1>4, <1>5, <2>1
    <3>2. PICK s \in Time : FullSince(x, s)
      BY <3>1 DEF CreditIsSpent
    <3>3. <<s, latest[x]>> \in Windows
      BY <1>7, <3>1, <3>2 DEF Windows, FullSince
    <3>4. spent'[x][<<s, latest[x]>>] = spent[x][<<s, latest[x]>>]
      BY <1>6, <2>1, <3>1, <3>3
    <3>5. FullSince(x, s)'
      BY <1>2, <1>7, <2>1, <3>1, <3>2, <3>4 DEF FullSince, Credit
    <3> QED  BY <3>5
  <2>2. CASE x = a
    <3>1. /\ buckets'[a].last = t
          /\ buckets'[a].tokens = Refill(buckets, a, t).tokens - g
      BY <1>5, <2>2
    <3>2. CASE Refill(buckets, a, t).tokens = Burst
      <4>1. PICK s : s = IF t > MaxDelay THEN t - MaxDelay ELSE 0
        OBVIOUS
      <4>2. s \in Time /\ s <= t /\ s + MaxDelay >= t /\ (s = 0 \/ s <= now - MaxDelay)
        <5>1. CASE t > MaxDelay
          BY <1>1, <1>2, <4>1, <5>1, LimiterAssumption DEF Time
        <5>2. CASE ~(t > MaxDelay)
          BY <1>1, <1>2, <4>1, <5>2, LimiterAssumption DEF Time
        <5> QED  BY <5>1, <5>2
      <4>3. s <= latest'[a] /\ s \in Nat /\ latest'[a] \in Time /\ latest'[a] \in Nat
        <5>1. s \in Nat /\ latest'[a] \in Time /\ latest'[a] \in Nat
          BY <1>1, <1>2, <1>7, <4>2
        <5> QED  BY <1>1, <1>7, <4>2, <5>1
      <4>4. PICK w : w = <<s, latest'[a]>>
        OBVIOUS
      <4>5. w \in Windows /\ w[1] = s /\ w[2] = latest'[a]
        BY <4>2, <4>3, <4>4 DEF Windows
      <4>6. spent'[a][w] >= g /\ spent'[a][w] \in Nat
        BY <1>1, <1>2, <1>6, <1>7, <4>2, <4>5
      <4>7. Credit(a)' = Burst - g - t
        BY <3>1, <3>2 DEF Credit
      <4>8. Credit(a)' + spent'[a][w] >= Burst - s - MaxDelay
        BY <1>1, <1>2, <4>2, <4>3, <4>6, <4>7
      <4>9. FullSince(a, s)'
        BY <1>2, <4>2, <4>3, <4>4, <4>8 DEF FullSince
      <4> QED  BY <2>2, <4>2, <4>9
    <3>3. CASE Refill(buckets, a, t).tokens # Burst
      <4>1. /\ a \in DOMAIN buckets
            /\ Refill(buckets, a, t).tokens = buckets[a].tokens + (t - buckets[a].last)
        BY <1>1, <1>4, <3>3, RefillValue
      <4>2. buckets[a].tokens \in Int /\ buckets[a].last \in Int
        BY <1>4, <4>1 DEF Bucket
      <4>3. PICK s \in Time : FullSince(a, s)
        BY <4>1 DEF CreditIsSpent
      <4>4. s <= t /\ s <= latest'[a]
        <5>1. s \in Nat /\ latest'[a] \in Nat /\ t <= latest'[a]
          BY <1>1, <1>2, <1>7
        <5>2. s = 0 \/ s <= now - MaxDelay
          BY <4>3 DEF FullSince
        <5>3. t \in Nat /\ now \in Nat /\ MaxDelay \in Nat /\ now - t <= MaxDelay
          BY <1>1, <1>2
        <5>4. s <= t
          BY <5>1, <5>2, <5>3
        <5> QED  BY <5>1, <5>3, <5>4
      <4>5. PICK v, w : v = <<s, latest'[a]>> /\ w = <<s, latest[a]>>
        OBVIOUS
      <4>6. /\ v \in Windows /\ w \in Windows /\ v[1] = s /\ v[2] = latest'[a]
            /\ w[1] = s /\ w[2] = latest[a]
        BY <1>1, <1>7, <4>3, <4>4, <4>5 DEF Windows, FullSince
      <4>7. spent'[a][v] >= spent[a][w] + g
        BY <1>1, <1>2, <1>6, <1>7, <4>4, <4>6 DEF SpentMonotone
      <4>8. Credit(a)' = Credit(a) - g
        BY <1>1, <1>2, <3>1, <4>1, <4>2 DEF Credit
      <4>9. Credit(a) \in Int /\ Credit(a) + spent[a][w] >= Burst - s - MaxDelay
        BY <4>2, <4>3, <4>5 DEF FullSince, Credit
      <4>10. Credit(a)' + spent'[a][v] >= Burst - s - MaxDelay
        BY <1>1, <1>2, <1>6, <4>6, <4>7, <4>8, <4>9
      <4>11. FullSince(a, s)'
        BY <1>2, <4>3, <4>4, <4>5, <4>10 DEF FullSince
      <4> QED  BY <2>2, <4>11
    <3> QED  BY <3>2, <3>3
  <2> QED  BY <2>1, <2>2
<1> QED  BY <1>8, <1>9

\* The converse's invariant holds in every reachable state.
THEOREM CreditInvariance == Spec => [](CreditIsSpent /\ SpentMonotone)
<1>1. Init => CreditIsSpent /\ SpentMonotone
  BY DEF Init, CreditIsSpent, SpentMonotone
<1>2. IInv /\ CreditIsSpent /\ SpentMonotone /\ [Next]_vars
         => (CreditIsSpent /\ SpentMonotone)'
  <2> SUFFICES ASSUME IInv, CreditIsSpent, SpentMonotone, [Next]_vars
               PROVE  CreditIsSpent' /\ SpentMonotone'
    OBVIOUS
  <2>1. CASE Tick
    BY <2>1, QuietCredit DEF Tick
  <2>2. ASSUME NEW c \in Callers, NEW a \in Agents, Allow(c, a)
        PROVE  CreditIsSpent' /\ SpentMonotone'
    BY <2>2, QuietCredit DEF Allow
  <2>3. ASSUME NEW c \in Callers, Refuse(c) \/ Throttle(c) \/ Grant(c)
        PROVE  CreditIsSpent' /\ SpentMonotone'
    BY <2>3, OutcomeIsOne, OutcomeCredit
  <2>4. CASE UNCHANGED vars
    BY <2>4, QuietCredit DEF vars
  <2> QED  BY <2>1, <2>2, <2>3, <2>4 DEF Next
<1> QED  BY <1>1, <1>2, Invariance, PTL DEF Spec

\* An agent is throttled only when it has spent a burst and the refill of some
\* window to within one request, up to MaxDelay: the limiter never starves an
\* agent that stays within its rate, in whatever order readings are decided.
THEOREM ThrottlingIsJustified == Spec => ThrottleJustified
<1>1. ASSUME IInv, CreditIsSpent, SpentMonotone, NEW c \in Callers, Throttle(c)
      PROVE  LET a == call[c].agent
                 t == call[c].at
             IN  \E w \in Windows :
                     /\ w[1] <= t /\ w[2] = latest'[a]
                     /\ spent[a][w] + Token > Burst + (t - w[1]) - MaxDelay
  <2>1. PICK a, t : a = call[c].agent /\ t = call[c].at
    OBVIOUS
  <2>2. a \in Agents /\ t \in Time /\ t \in Nat /\ t <= now /\ now - t <= MaxDelay
    BY <1>1, <2>1, LimiterAssumption DEF IInv, Throttle, TypeOK, Waiting, Time, CallsRecent
  <2>3. /\ now \in Nat /\ MaxDelay \in Nat /\ Burst \in Nat /\ Token \in Nat
        /\ Token <= Burst /\ \A s \in Time : s \in Nat
    BY <1>1, LimiterAssumption, BucketAssumption DEF IInv, TypeOK, Time
  <2>4. buckets \in [DOMAIN buckets -> Bucket]
    BY <1>1 DEF IInv, TypeOK
  <2>5. /\ ~(Refill(buckets, a, t).tokens >= Token)
        /\ latest' = [latest EXCEPT ![a] = IF t > @ THEN t ELSE @]
    BY <1>1, <2>1 DEF Throttle, Decide, Allows
  <2>6. /\ a \in DOMAIN buckets
        /\ Refill(buckets, a, t).tokens = buckets[a].tokens + (t - buckets[a].last)
    BY <2>2, <2>3, <2>4, <2>5, RefillValue
  <2>7. Credit(a) \in Int /\ Credit(a) + t < Token
    BY <2>2, <2>3, <2>4, <2>5, <2>6 DEF Credit, Bucket
  <2>8. /\ latest[a] \in Time /\ latest'[a] \in Time
        /\ latest[a] <= latest'[a] /\ t <= latest'[a]
    BY <1>1, <2>2, <2>3, <2>5 DEF IInv, TypeOK
  <2>9. PICK s \in Time : FullSince(a, s)
    BY <1>1, <2>6 DEF CreditIsSpent
  <2>10. s <= t /\ s <= latest[a] /\ s <= latest'[a]
    <3>1. s \in Nat /\ latest[a] \in Nat /\ latest'[a] \in Nat
      BY <2>3, <2>8, <2>9
    <3> QED  BY <2>2, <2>3, <2>8, <2>9, <3>1 DEF FullSince
  <2>11. PICK v, w : v = <<s, latest'[a]>> /\ w = <<s, latest[a]>>
    OBVIOUS
  <2>12. /\ v \in Windows /\ v[1] = s /\ v[2] = latest'[a]
         /\ w \in Windows /\ w[1] = s /\ w[2] = latest[a]
    BY <2>8, <2>9, <2>10, <2>11 DEF Windows
  <2>13. /\ spent[a][v] \in Nat /\ spent[a][w] \in Nat /\ spent[a][w] <= spent[a][v]
    BY <1>1, <2>2, <2>8, <2>12 DEF IInv, TypeOK, SpentMonotone
  <2>14. Credit(a) + spent[a][w] >= Burst - s - MaxDelay
    BY <2>9, <2>11 DEF FullSince
  <2>15. spent[a][v] + Token > Burst + (t - s) - MaxDelay
    BY <2>2, <2>3, <2>7, <2>13, <2>14
  <2> QED  BY <2>1, <2>10, <2>12, <2>15
<1>2. IInv /\ CreditIsSpent /\ SpentMonotone /\ [Next]_vars =>
         [\A c \in Callers :
            (Throttle(c) =>
                LET a == call[c].agent
                    t == call[c].at
                IN  \E w \in Windows :
                        /\ w[1] <= t /\ w[2] = latest'[a]
                        /\ spent[a][w] + Token > Burst + (t - w[1]) - MaxDelay)]_vars
  BY <1>1
<1> QED  BY <1>2, Invariance, CreditInvariance, PTL DEF Spec, ThrottleJustified

\* A sweep never takes the bucket of an agent served within the TTL less one
\* MaxDelay, for any order in which readings are decided.
THEOREM EvictionIsNearlyIdle == Spec => EvictsIdleUpToDelay
<1>1. ASSUME IInv, [Next]_vars, NEW c \in Callers, Waiting(c), ~Waiting(c)',
             NEW a \in DOMAIN buckets \ DOMAIN buckets'
      PROVE  call[c].at - latest[a] >= IdleTTL - MaxDelay
  <2>1. PICK d \in Callers : Refuse(d) \/ Throttle(d) \/ Grant(d)
    BY <1>1 DEF Next, Tick, Allow, vars
  <2>2. Outcome(d) /\ Waiting(d)
    BY <2>1, OutcomeIsOne DEF Outcome
  <2>3. d = c
    BY <1>1, <2>2 DEF Outcome, Decide, Waiting, IInv, TypeOK
  <2>4. PICK t \in Nat : t = call[c].at
    BY <1>1, LimiterAssumption DEF IInv, TypeOK, Waiting, Time
  <2>5. buckets' = AllowAt(buckets, call[c].agent, t)
    BY <2>2, <2>3, <2>4 DEF Outcome, Decide
  <2>6. buckets \in [DOMAIN buckets -> Bucket] /\ a \in Agents
    BY <1>1 DEF IInv, TypeOK
  <2>7. Evictable(buckets[a], t)
    BY <1>1, <2>4, <2>5, <2>6, AllowAtEffect
  <2>8. /\ buckets[a].last \in Nat /\ latest[a] \in Nat
        /\ latest[a] - buckets[a].last <= MaxDelay
    BY <1>1, <2>6, LimiterAssumption DEF IInv, TypeOK, Bucket, Time, BucketsRecent
  <2> QED  BY <2>4, <2>7, <2>8, BucketAssumption, LimiterAssumption DEF Evictable
<1>2. IInv /\ [Next]_vars =>
         [\A c \in Callers :
            (Waiting(c) /\ ~Waiting(c)') =>
                \A a \in DOMAIN buckets \ DOMAIN buckets' :
                    call[c].at - latest[a] >= IdleTTL - MaxDelay]_vars
  BY <1>1
<1> QED  BY <1>2, Invariance, PTL DEF Spec, EvictsIdleUpToDelay
=============================================================================
