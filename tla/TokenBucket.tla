---------------------------- MODULE TokenBucket ----------------------------
(***************************************************************************)
(* The body of AgentLimiter.allowAt (internal/gateway/ratelimit.go): what  *)
(* one call, made for an agent with a clock reading t while the limiter's  *)
(* mutex is held, does to the map of token buckets.                        *)
(*                                                                         *)
(* The code keeps tokens and rate as float64 and time as nanoseconds.      *)
(* Here time is counted in ticks and tokens in quanta, one quantum being   *)
(* what one tick refills: a request costs Token quanta, so the rate is     *)
(* 1/Token requests per tick, and any rational rate is covered by the      *)
(* choice of the tick.  Float rounding is not modelled.                    *)
(***************************************************************************)
EXTENDS Integers, FiniteSets

CONSTANTS
    MaxAgents,  \* l.maxAgents: the most buckets kept at once
    Burst,      \* l.burst, in quanta
    Token,      \* the cost of one request, in quanta
    IdleTTL     \* l.idleTTL, in ticks

\* main.go accepts only a positive rate and a burst of at least one request.
ASSUME BucketAssumption ==
    /\ MaxAgents \in Nat \ {0}
    /\ Token \in Nat \ {0}
    /\ Burst \in Nat /\ Burst >= Token
    /\ IdleTTL \in Nat

Bucket == [tokens : Int, last : Nat]

\* Mutant: any bucket may be evicted to make room, its budget with it.
EvictableAlways(b, t) == t >= b.last

\* An idle bucket that its own refill has brought back to a full burst.
Evictable(b, t) ==
    /\ t - b.last >= IdleTTL
    /\ b.tokens + (t - b.last) >= Burst

\* The buckets left once the room for agent a has been made: the sweep runs
\* only for an agent without a bucket, and only at capacity.
Sweep(bs, a, t) ==
    IF a \notin DOMAIN bs /\ Cardinality(DOMAIN bs) >= MaxAgents
    THEN [x \in {y \in DOMAIN bs : ~Evictable(bs[y], t)} |-> bs[x]]
    ELSE bs

\* Mutant: the capacity test lets one bucket too many in.
HasRoomOffByOne(bs, a, t) ==
    a \in DOMAIN bs \/ Cardinality(DOMAIN Sweep(bs, a, t)) <= MaxAgents

\* A new agent gets a bucket only below capacity.
HasRoom(bs, a, t) ==
    a \in DOMAIN bs \/ Cardinality(DOMAIN Sweep(bs, a, t)) < MaxAgents

\* Mutant: a returning agent keeps the budget it had; no time is credited.
RefillNothing(bs, a, t) ==
    [tokens |-> IF a \in DOMAIN bs THEN bs[a].tokens ELSE Burst, last |-> t]

\* Mutant: the burst does not cap the refill.
RefillUncapped(bs, a, t) ==
    LET b == IF a \in DOMAIN bs THEN bs[a] ELSE [tokens |-> Burst, last |-> t]
    IN  [tokens |-> b.tokens + (t - b.last), last |-> t]

\* Mutant: a negative elapsed time counts as zero while last still moves back, so
\* that time is credited twice.
RefillClamped(bs, a, t) ==
    LET b == IF a \in DOMAIN bs THEN bs[a] ELSE [tokens |-> Burst, last |-> t]
        sum == b.tokens + (IF t > b.last THEN t - b.last ELSE 0)
    IN  [tokens |-> IF sum > Burst THEN Burst ELSE sum, last |-> t]

\* The bucket of a, brought forward to t and capped at the burst.  When calls
\* take the mutex in another order than they read the clock, t may precede
\* last: the budget then shrinks and last moves back.
Refill(bs, a, t) ==
    LET b == IF a \in DOMAIN bs THEN bs[a] ELSE [tokens |-> Burst, last |-> t]
        sum == b.tokens + (t - b.last)
    IN  [tokens |-> IF sum > Burst THEN Burst ELSE sum, last |-> t]

\* bs with the bucket of a set to b.
WithBucket(bs, a, b) ==
    [x \in DOMAIN bs \cup {a} |-> IF x = a THEN b ELSE bs[x]]

\* Whether the call is allowed, and the map it leaves behind in each case.
Allows(bs, a, t) == HasRoom(bs, a, t) /\ Refill(bs, a, t).tokens >= Token

AllowAt(bs, a, t) ==
    LET swept == Sweep(bs, a, t)
        full  == Refill(bs, a, t)
    IN  IF ~HasRoom(bs, a, t) THEN swept
        ELSE IF full.tokens < Token THEN WithBucket(swept, a, full)
        ELSE WithBucket(swept, a, [full EXCEPT !.tokens = @ - Token])
=============================================================================
