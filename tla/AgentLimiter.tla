---------------------------- MODULE AgentLimiter ----------------------------
(***************************************************************************)
(* The gateway's AgentLimiter (internal/gateway/ratelimit.go) under        *)
(* concurrent HTTP handlers.  Allow reads the clock BEFORE it takes the    *)
(* mutex, so a handler may decide with a reading older than one already    *)
(* used: the two halves of Allow are separate actions here.                *)
(*                                                                         *)
(* latest and spent are history variables: no guard reads them.            *)
(***************************************************************************)
EXTENDS TokenBucket

CONSTANTS
    Agents,     \* agent identities (verified ServiceAccount names)
    Callers,    \* HTTP handlers that may be inside Allow
    Idle,       \* a caller that is not inside Allow
    MaxDelay,   \* the longest a caller waits between time.Now and Lock
    MaxTime     \* bound of the exploration: the last tick of the clock

\* MaxDelay is the scheduler's and the mutex's, not the code's: Go promises no
\* bound.  The last conjunct holds of the defaults (15 minutes against a burst
\* that refills in seconds); without it an evicted budget may come back early.
ASSUME LimiterAssumption ==
    /\ IsFiniteSet(Agents)
    /\ Idle \notin [agent : Agents, at : Nat]
    /\ MaxDelay \in Nat
    /\ MaxTime \in Nat
    /\ IdleTTL >= Burst + 2 * MaxDelay

VARIABLES
    now,        \* the process clock, in ticks
    buckets,    \* l.buckets: a function from the agents that have a bucket
    call,       \* call[c]: the agent and clock reading c carries, or Idle
    latest,     \* the newest reading any call of each agent was decided with
    spent       \* spent[a][w]: quanta admitted to a with a reading in window w

vars == <<now, buckets, call, latest, spent>>

Time == 0..MaxTime

Windows == {w \in Time \X Time : w[1] <= w[2]}

Waiting(c) == call[c] # Idle

Init ==
    /\ now = 0
    /\ buckets = [a \in {} |-> [tokens |-> Burst, last |-> 0]]
    /\ call = [c \in Callers |-> Idle]
    /\ latest = [a \in Agents |-> 0]
    /\ spent = [a \in Agents |-> [w \in Windows |-> 0]]

-----------------------------------------------------------------------------
\* Time passes, but not beyond what MaxDelay allows a waiting caller.
Tick ==
    /\ now < MaxTime
    /\ \A c \in Callers : Waiting(c) => now - call[c].at < MaxDelay
    /\ now' = now + 1
    /\ UNCHANGED <<buckets, call, latest, spent>>

\* Allow: a handler reads the clock on its way to the mutex.
Allow(c, a) ==
    /\ ~Waiting(c)
    /\ call' = [call EXCEPT ![c] = [agent |-> a, at |-> now]]
    /\ UNCHANGED <<now, buckets, latest, spent>>

\* What every critical section does, whatever it answers.
Decide(c) ==
    LET a == call[c].agent
        t == call[c].at
    IN  /\ buckets' = AllowAt(buckets, a, t)
        /\ latest' = [latest EXCEPT ![a] = IF t > @ THEN t ELSE @]
        /\ call' = [call EXCEPT ![c] = Idle]
        /\ UNCHANGED now

\* A new agent, and nothing could be evicted to make room for its bucket.
Refuse(c) ==
    /\ Waiting(c)
    /\ ~HasRoom(buckets, call[c].agent, call[c].at)
    /\ Decide(c)
    /\ UNCHANGED spent

\* The bucket holds less than one request.
Throttle(c) ==
    /\ Waiting(c)
    /\ HasRoom(buckets, call[c].agent, call[c].at)
    /\ ~Allows(buckets, call[c].agent, call[c].at)
    /\ Decide(c)
    /\ UNCHANGED spent

\* One request's worth of tokens is consumed.
Grant(c) ==
    /\ Waiting(c)
    /\ Allows(buckets, call[c].agent, call[c].at)
    /\ Decide(c)
    /\ LET t == call[c].at
       IN  spent' = [spent EXCEPT ![call[c].agent] =
               [w \in Windows |->
                   IF w[1] <= t /\ t <= w[2] THEN @[w] + Token ELSE @[w]]]

Next ==
    \/ Tick
    \/ \E c \in Callers : \/ \E a \in Agents : Allow(c, a)
                          \/ Refuse(c)
                          \/ Throttle(c)
                          \/ Grant(c)

Spec == Init /\ [][Next]_vars
-----------------------------------------------------------------------------
\* Every variable has its type.  A budget stays below the burst (allowAt's cap)
\* and an out-of-order reading drives it below zero by at most MaxDelay.
TypeOK ==
    /\ now \in Time
    /\ DOMAIN buckets \subseteq Agents
    /\ buckets \in [DOMAIN buckets -> Bucket]
    /\ \A a \in DOMAIN buckets : buckets[a].tokens \in (-MaxDelay)..Burst
    /\ call \in [Callers -> [agent : Agents, at : Time] \cup {Idle}]
    /\ latest \in [Agents -> Time]
    /\ spent \in [Agents -> [Windows -> Nat]]

\* allowAt never keeps more than maxAgents buckets, however many identities
\* ask (NewAgentLimiter's maxLimiterAgents bounds the gateway's memory).
CapacityBound == Cardinality(DOMAIN buckets) <= MaxAgents

\* What the limiter is for: over every window of time an agent is admitted at
\* most a burst plus what the window refills, although calls are decided out
\* of clock order and buckets are evicted and recreated full.
RateBound ==
    \A a \in Agents, w \in Windows : spent[a][w] <= Burst + (w[2] - w[1])

\* The converse of RateBound: allowAt answers "no" to an agent that has room
\* only when some window ending at the call's reading is spent to within one
\* request, up to the MaxDelay that out-of-order readings may destroy (plus
\* what was admitted with a newer reading: it was consumed first).
ThrottleJustified ==
    [][\A c \in Callers :
        (Throttle(c) =>
            LET a == call[c].agent
                t == call[c].at
            IN  \E w \in Windows :
                    /\ w[1] <= t /\ w[2] = latest'[a]
                    /\ spent[a][w] + Token > Burst + (t - w[1]) - MaxDelay)]_vars

\* docs/authentication.md and the comment on AgentLimiter: at capacity only
\* buckets idle for at least the TTL are removed; active ones are never reset.
\* A bucket's agent is idle since the newest reading it was served with.
EvictsOnlyIdle ==
    [][\A c \in Callers :
        (Waiting(c) /\ ~Waiting(c)') =>
            \A a \in DOMAIN buckets \ DOMAIN buckets' :
                call[c].at - latest[a] >= IdleTTL]_vars

\* What is left of that promise under out-of-order readings: an evicted agent was
\* last served at least the TTL less one MaxDelay before the sweep's reading.
EvictsIdleUpToDelay ==
    [][\A c \in Callers :
        (Waiting(c) /\ ~Waiting(c)') =>
            \A a \in DOMAIN buckets \ DOMAIN buckets' :
                call[c].at - latest[a] >= IdleTTL - MaxDelay]_vars
=============================================================================
