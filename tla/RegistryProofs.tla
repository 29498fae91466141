--------------------------- MODULE RegistryProofs ---------------------------
(***************************************************************************)
(* Proofs about Registry, for any servers, agents, intervals and deadlines *)
(* and any changes of the cluster.                                         *)
(***************************************************************************)
EXTENDS Registry, TLAPS

\* history holds the present state of the cluster, and nothing of the future.
HistoryIsPast ==
    /\ [cluster |-> cluster, at |-> now] \in history
    /\ \A h \in history : h.at <= now

\* An answer on its way is a cluster state that was current after the refresh
\* read the clock.
PollIsReal ==
    /\ poll.observedAt <= now
    /\ poll.pc = "listed" =>
          \E h \in history : poll.items = h.cluster /\ poll.observedAt <= h.at

RegistryInv ==
    /\ RegistryTypeOK
    /\ HistoryIsPast
    /\ PollIsReal
    /\ SnapshotIsReal
-----------------------------------------------------------------------------
\* A snapshot of a cluster is a map of backends.
LEMMA SnapshotType ==
    ASSUME NEW k, IsCluster(k), NEW o \in Time
    PROVE  /\ DOMAIN Snapshot(k, o) = DOMAIN k
           /\ DOMAIN Snapshot(k, o) \subseteq Servers
           /\ Snapshot(k, o) \in [DOMAIN Snapshot(k, o) -> Backend]
<1>1. \A s \in DOMAIN k : k[s] \in MCPServer /\ s \in Servers
  BY DEF IsCluster
<1>2. \A s \in DOMAIN k : IsReady(k[s]) \in BOOLEAN /\ k[s].allowed \in SUBSET Agents
  BY <1>1 DEF IsReady, MCPServer, MCPServerOf
<1> QED  BY <1>1, <1>2 DEF Snapshot, Backend

\* The changes users and the controller make keep an MCPServer well formed.
LEMMA ServerType ==
    ASSUME NEW m \in MCPServer
    PROVE  /\ \A allowed \in SUBSET Agents : SpecEdited(m, allowed) \in MCPServer
           /\ \A ready \in BOOLEAN : StatusWritten(m, ready) \in MCPServer
           /\ MarkedDeleting(m) \in MCPServer
<1> USE DEF MCPServer, MCPServerOf
<1>1. ASSUME NEW allowed \in SUBSET Agents
      PROVE  SpecEdited(m, allowed) \in MCPServer
  <2>1. m.generation + 1 \in Nat  OBVIOUS
  <2> QED  BY <2>1 DEF SpecEdited
<1>2. \A ready \in BOOLEAN : StatusWritten(m, ready) \in MCPServer
  BY DEF StatusWritten
<1>3. MarkedDeleting(m) \in MCPServer
  BY DEF MarkedDeleting
<1> QED  BY <1>1, <1>2, <1>3

\* They keep the cluster well formed.
LEMMA ClusterType ==
    ASSUME RegistryTypeOK, ClusterNext
    PROVE  \E k : IsCluster(k) /\ Change(k)
<1> USE DEF RegistryTypeOK
<1>1. PICK s \in Servers :
        \/ \E allowed \in SUBSET Agents : \/ CreateServer(s, allowed)
                                          \/ EditSpec(s, allowed)
        \/ \E ready \in BOOLEAN : UpdateStatus(s, ready)
        \/ MarkDeleting(s)
        \/ RemoveServer(s)
  BY DEF ClusterNext
<1>2. ASSUME NEW allowed \in SUBSET Agents, CreateServer(s, allowed)
      PROVE  \E k : IsCluster(k) /\ Change(k)
  <2>1. Created(allowed) \in MCPServer
    BY DEF Created, MCPServer, MCPServerOf
  <2>2. IsCluster(WithServer(cluster, s, Created(allowed)))
    BY <2>1 DEF IsCluster, WithServer
  <2> QED  BY <1>2, <2>2 DEF CreateServer
<1>3. ASSUME NEW allowed \in SUBSET Agents, EditSpec(s, allowed)
      PROVE  \E k : IsCluster(k) /\ Change(k)
  <2>1. cluster[s] \in MCPServer
    BY <1>3 DEF IsCluster, EditSpec
  <2>2. SpecEdited(cluster[s], allowed) \in MCPServer
    BY <2>1, ServerType
  <2>3. IsCluster([cluster EXCEPT ![s] = SpecEdited(@, allowed)])
    BY <2>2 DEF IsCluster
  <2> QED  BY <1>3, <2>3 DEF EditSpec
<1>4. ASSUME NEW ready \in BOOLEAN, UpdateStatus(s, ready)
      PROVE  \E k : IsCluster(k) /\ Change(k)
  <2>1. cluster[s] \in MCPServer
    BY <1>4 DEF IsCluster, UpdateStatus
  <2>2. StatusWritten(cluster[s], ready) \in MCPServer
    BY <2>1, ServerType
  <2>3. IsCluster([cluster EXCEPT ![s] = StatusWritten(@, ready)])
    BY <2>2 DEF IsCluster
  <2> QED  BY <1>4, <2>3 DEF UpdateStatus
<1>5. CASE MarkDeleting(s)
  <2>1. cluster[s] \in MCPServer
    BY <1>5 DEF IsCluster, MarkDeleting
  <2>2. MarkedDeleting(cluster[s]) \in MCPServer
    BY <2>1, ServerType
  <2>3. IsCluster([cluster EXCEPT ![s] = MarkedDeleting(@)])
    BY <2>2 DEF IsCluster
  <2> QED  BY <1>5, <2>3 DEF MarkDeleting
<1>6. CASE RemoveServer(s)
  <2>1. IsCluster([x \in DOMAIN cluster \ {s} |-> cluster[x]])
    BY DEF IsCluster
  <2> QED  BY <1>6, <2>1 DEF RemoveServer
<1> QED  BY <1>1, <1>2, <1>3, <1>4, <1>5, <1>6
-----------------------------------------------------------------------------
\* An empty map, never published, satisfies the invariant.
LEMMA RegistryInitInv == RegistryInit => RegistryInv
<1> SUFFICES ASSUME RegistryInit PROVE RegistryInv
  OBVIOUS
<1>1. DOMAIN backends = {} /\ IsCluster(cluster) /\ 0 \in Time
  BY RegistryAssumption DEF RegistryInit, Time
<1>2. RegistryTypeOK
  <2>1. \A h \in history : IsCluster(h.cluster) /\ h.at \in Time
    BY <1>1 DEF RegistryInit
  <2>2. backends \in [DOMAIN backends -> Backend] /\ DOMAIN backends \subseteq Servers
    BY <1>1 DEF RegistryInit
  <2>3. poll.pc = "idle" /\ poll.observedAt = 0
    BY DEF RegistryInit, NoPoll
  <2>4. now \in Time /\ edits \in 0..MaxEdits
    BY <1>1, RegistryAssumption DEF RegistryInit
  <2>5. synced \in BOOLEAN /\ tickReady \in BOOLEAN
    BY DEF RegistryInit
  <2> QED  BY <1>1, <2>1, <2>2, <2>3, <2>4, <2>5 DEF RegistryTypeOK
<1>3. HistoryIsPast /\ PollIsReal /\ SnapshotIsReal
  BY DEF RegistryInit, HistoryIsPast, PollIsReal, SnapshotIsReal, NoPoll, Readyz
<1> QED  BY <1>2, <1>3 DEF RegistryInv

\* A step keeps the past.
LEMMA HistoryGrows ==
    ASSUME RegistryNext PROVE history \subseteq history' /\ now' \in {now, now + 1}
BY DEF RegistryNext, Tick, ClusterNext, PollerNext, StartRefresh, ListServers,
       ListFails, Publish, Change, CreateServer, EditSpec, UpdateStatus,
       MarkDeleting, RemoveServer

\* Time passing records the current cluster once more.
LEMMA TickInv == RegistryInv /\ Tick => RegistryInv'
<1> SUFFICES ASSUME RegistryInv, Tick PROVE RegistryInv'
  OBVIOUS
<1> USE DEF RegistryInv
<1>1. now \in Int /\ now' = now + 1 /\ now' \in Time
  BY RegistryAssumption DEF RegistryTypeOK, Tick, Time
<1>2. RegistryTypeOK'
  BY <1>1 DEF RegistryTypeOK, Tick
<1>3. HistoryIsPast'
  BY <1>1 DEF HistoryIsPast, Tick, RegistryTypeOK, Time
<1>4. PollIsReal'
  BY <1>1 DEF PollIsReal, Tick, RegistryTypeOK, Time
<1>5. SnapshotIsReal'
  BY <1>1 DEF SnapshotIsReal, Readyz, Tick, RegistryTypeOK, Time
<1> QED  BY <1>2, <1>3, <1>4, <1>5

\* A change of the cluster records it and leaves the poller alone.
LEMMA ChangeInv ==
    ASSUME RegistryInv, NEW k, IsCluster(k), Change(k)
    PROVE  RegistryInv'
<1> USE DEF RegistryInv
<1>1. now' = now /\ now \in Time
  BY DEF RegistryTypeOK, Change
<1>2. RegistryTypeOK'
  BY <1>1, RegistryAssumption DEF RegistryTypeOK, Change
<1>3. HistoryIsPast'
  BY <1>1 DEF HistoryIsPast, Change, Time
<1>4. PollIsReal' /\ SnapshotIsReal'
  BY DEF PollIsReal, SnapshotIsReal, Readyz, Change
<1> QED  BY <1>2, <1>3, <1>4

\* Every step of a refresh keeps the invariant.
LEMMA PollerInv == RegistryInv /\ PollerNext => RegistryInv'
<1> SUFFICES ASSUME RegistryInv, PollerNext PROVE RegistryInv'
  OBVIOUS
<1> USE DEF RegistryInv
<1>1. /\ UNCHANGED <<now, cluster, edits, history>>
      /\ now \in Time /\ 0 \in Time
  BY RegistryAssumption DEF RegistryTypeOK, Time, PollerNext, StartRefresh,
         ListServers, ListFails, Publish
<1>2. HistoryIsPast'
  BY <1>1 DEF HistoryIsPast
<1>3. CASE StartRefresh
  <2>1. poll'.pc = "listing" /\ poll'.observedAt = now
    BY <1>3 DEF StartRefresh
  <2>2. RegistryTypeOK'
    BY <1>1, <1>3, <2>1 DEF RegistryTypeOK, StartRefresh
  <2>3. PollIsReal' /\ SnapshotIsReal'
    BY <1>1, <1>3, <2>1 DEF PollIsReal, SnapshotIsReal, Readyz, StartRefresh, Time
  <2> QED  BY <1>2, <2>2, <2>3
<1>4. CASE ListServers
  <2>1. /\ poll'.pc = "listed" /\ poll'.observedAt = poll.observedAt
        /\ poll'.items = cluster
    BY <1>4 DEF ListServers
  <2>2. RegistryTypeOK'
    BY <1>1, <1>4, <2>1 DEF RegistryTypeOK, ListServers
  <2>3. PollIsReal'
    BY <1>1, <2>1 DEF PollIsReal, HistoryIsPast
  <2>4. SnapshotIsReal'
    BY <1>1, <1>4 DEF SnapshotIsReal, Readyz, ListServers
  <2> QED  BY <1>2, <2>2, <2>3, <2>4
<1>5. CASE ListFails
  <2>1. poll'.pc = "idle" /\ poll'.observedAt = 0
    BY <1>5 DEF ListFails, NoPoll
  <2>2. RegistryTypeOK'
    BY <1>1, <1>5, <2>1 DEF RegistryTypeOK, ListFails
  <2>3. PollIsReal' /\ SnapshotIsReal'
    BY <1>1, <1>5, <2>1 DEF PollIsReal, SnapshotIsReal, Readyz, ListFails, Time
  <2> QED  BY <1>2, <2>2, <2>3
<1>6. CASE Publish
  <2>1. poll'.pc = "idle" /\ poll'.observedAt = 0
    BY <1>6 DEF Publish, NoPoll
  <2>2. PICK h \in history : poll.items = h.cluster /\ poll.observedAt <= h.at
    BY <1>6 DEF Publish, PollIsReal
  <2>3. /\ backends' = Snapshot(h.cluster, poll.observedAt)
        /\ IsCluster(h.cluster) /\ poll.observedAt \in Time
    BY <1>6, <2>2 DEF Publish, RegistryTypeOK
  <2>4. RegistryTypeOK'
    BY <1>1, <1>6, <2>1, <2>3, SnapshotType DEF RegistryTypeOK, Publish
  <2>5. SnapshotIsReal'
    BY <1>1, <2>2, <2>3 DEF SnapshotIsReal, HistoryIsPast
  <2>6. PollIsReal'
    BY <1>1, <2>1 DEF PollIsReal, Time
  <2> QED  BY <1>2, <2>4, <2>5, <2>6
<1> QED  BY <1>3, <1>4, <1>5, <1>6 DEF PollerNext

\* Every step of the registry and of the cluster keeps the invariant.
LEMMA RegistryNextInv == RegistryInv /\ [RegistryNext]_registryVars => RegistryInv'
<1> SUFFICES ASSUME RegistryInv, [RegistryNext]_registryVars PROVE RegistryInv'
  OBVIOUS
<1>1. CASE Tick
  BY <1>1, TickInv
<1>2. CASE ClusterNext
  BY <1>2, ClusterType, ChangeInv DEF RegistryInv
<1>3. CASE PollerNext
  BY <1>3, PollerInv
<1>4. CASE UNCHANGED registryVars
  BY <1>4 DEF registryVars, RegistryInv, RegistryTypeOK, HistoryIsPast,
              PollIsReal, SnapshotIsReal, Readyz
<1> QED  BY <1>1, <1>2, <1>3, <1>4 DEF RegistryNext

\* The registry's inductive invariant holds in every reachable state.
THEOREM RegistryInvariance == RegistrySpec => []RegistryInv
BY RegistryInitInv, RegistryNextInv, PTL DEF RegistrySpec

\* Whatever the cluster does during a refresh, and whichever refreshes fail, the
\* published map is one real cluster state, at least as new as its date.
THEOREM SnapshotsAreReal == RegistrySpec => []SnapshotIsReal
<1>1. RegistryInv => SnapshotIsReal
  BY DEF RegistryInv
<1> QED  BY <1>1, RegistryInvariance, PTL

\* The registry keeps its shape: what it publishes are well-formed backends.
THEOREM RegistryTypeCorrect == RegistrySpec => []RegistryTypeOK
<1>1. RegistryInv => RegistryTypeOK
  BY DEF RegistryInv
<1> QED  BY <1>1, RegistryInvariance, PTL
-----------------------------------------------------------------------------
(***************************************************************************)
(* A healthy gateway.  A refresh that starts late starts right after the   *)
(* one before it, at most ApiLatency after that one read the clock, or     *)
(* with a tick of the ticker, at most PollInterval after; and it is        *)
(* published within ApiLatency.  The ages are measured by the place of now *)
(* in the ticker's period, now % PollInterval.                             *)
(***************************************************************************)

\* How slow List may be: with a ticker of 5 s and a policyMaxAge of 15 s, up to
\* 7.5 s.
ApiIsFast ==
    /\ ApiLatency + PollInterval <= PolicyMaxAge
    /\ ApiLatency + ApiLatency <= PolicyMaxAge

\* A refresh under way is not late, and has missed no tick it did not note.
RefreshInTime ==
    poll.pc # "idle" =>
        /\ now - poll.observedAt <= ApiLatency
        /\ ~tickReady => now - poll.observedAt <= now % PollInterval

\* The date d of a published entry.
DateInTime(d) ==
    /\ poll.pc # "idle" =>
          poll.observedAt - d <= ApiLatency \/ poll.observedAt - d <= PollInterval
    /\ poll.pc = "idle" /\ ~tickReady => now - d <= now % PollInterval
    /\ poll.pc = "idle" /\ tickReady => now - d <= ApiLatency \/ now - d <= PollInterval

TimelyInv ==
    /\ RefreshInTime
    /\ \A s \in DOMAIN backends : DateInTime(backends[s].policyObservedAt)

\* From one tick to the next a remainder goes up by one, or back to zero.
LEMMA Remainder ==
    ASSUME NEW n \in Int, NEW p \in Int, p > 0
    PROVE  /\ n % p \in Int /\ 0 <= n % p /\ n % p < p
           /\ (n + 1) % p = 0 \/ (n + 1) % p = (n % p) + 1
<1>1. n % p \in 0 .. (p - 1) /\ (n + 1) % p \in 0 .. (p - 1)
  OBVIOUS
<1>2. n \div p \in Int /\ (n + 1) \div p \in Int
  OBVIOUS
<1>3. n = p * (n \div p) + (n % p)
  OBVIOUS
<1>4. n + 1 = p * ((n + 1) \div p) + ((n + 1) % p)
  OBVIOUS
<1>5. PICK q, q1, r, r1 : /\ q = n \div p /\ q1 = (n + 1) \div p
                          /\ r = n % p /\ r1 = (n + 1) % p
  OBVIOUS
<1>6. q \in Int /\ q1 \in Int /\ r \in 0 .. (p - 1) /\ r1 \in 0 .. (p - 1)
  BY <1>1, <1>2, <1>5
<1>7. p * (q1 - q) = r + 1 - r1
  BY <1>3, <1>4, <1>5, <1>6
<1>8. r1 = 0 \/ r1 = r + 1
  <2>1. CASE q1 - q >= 2
    <3>1. p * (q1 - q) >= p * 2
      BY <1>6, <2>1
    <3> QED  BY <1>6, <1>7, <3>1
  <2>2. CASE q1 - q <= -1
    <3>1. p * (q1 - q) <= -p
      BY <1>6, <2>2
    <3> QED  BY <1>6, <1>7, <3>1
  <2>3. CASE q1 - q = 0
    BY <1>6, <1>7, <2>3
  <2>4. CASE q1 - q = 1
    BY <1>6, <1>7, <2>4
  <2> QED  BY <1>6, <2>1, <2>2, <2>3, <2>4
<1> QED  BY <1>1, <1>5, <1>8

\* The numbers the argument is about.
LEMMA TimelyTypes ==
    ASSUME RegistryTypeOK
    PROVE  /\ now \in Int /\ poll.observedAt \in Int
           /\ ApiLatency \in Int /\ ApiLatency >= 0
           /\ PollInterval \in Int /\ PollInterval > 0 /\ PolicyMaxAge \in Int
           /\ \A s \in DOMAIN backends : backends[s].policyObservedAt \in Int
<1>1. \A s \in DOMAIN backends : backends[s].policyObservedAt \in Time
  BY DEF RegistryTypeOK, Backend
<1> QED  BY <1>1, RegistryAssumption DEF RegistryTypeOK, Time

\* A tick of a healthy gateway.
LEMMA TimelyTickInv ==
    ASSUME RegistryTypeOK, TimelyInv, TimelyTick
    PROVE  TimelyInv'
<1>1. /\ now' = now + 1 /\ poll' = poll /\ backends' = backends
      /\ tickReady' <=> (tickReady \/ (now + 1) % PollInterval = 0)
      /\ poll.pc = "idle" => ~tickReady
      /\ poll.pc # "idle" => now - poll.observedAt < ApiLatency
  BY DEF TimelyTick, Tick
<1>2. PICK m : m = now % PollInterval
  OBVIOUS
<1>3. PICK m1 : m1 = (now + 1) % PollInterval
  OBVIOUS
<1>4. m \in Int /\ 0 <= m /\ m < PollInterval /\ (m1 = 0 \/ m1 = m + 1)
  BY <1>2, <1>3, Remainder, TimelyTypes
<1>5. RefreshInTime'
  BY <1>1, <1>2, <1>3, <1>4, TimelyTypes DEF TimelyInv, RefreshInTime
<1>6. ASSUME NEW s \in DOMAIN backends
      PROVE  DateInTime(backends[s].policyObservedAt)'
  <2>1. PICK d \in Int : d = backends[s].policyObservedAt
    BY TimelyTypes
  <2>2. DateInTime(d)
    BY <2>1 DEF TimelyInv
  <2>3. DateInTime(d)'
    BY <1>1, <1>2, <1>3, <1>4, <2>2, TimelyTypes DEF DateInTime
  <2> QED  BY <1>1, <2>1, <2>3
<1> QED  BY <1>1, <1>5, <1>6 DEF TimelyInv

\* The poller's steps, and the changes of the cluster.
LEMMA TimelyPollInv ==
    ASSUME RegistryTypeOK, TimelyInv,
           StartRefresh \/ ListServers \/ Publish \/ ClusterNext
    PROVE  TimelyInv'
<1>1. PICK m : m = now % PollInterval
  OBVIOUS
<1>2. m \in Int /\ 0 <= m
  BY <1>1, Remainder, TimelyTypes
<1>3. CASE StartRefresh
  <2>1. /\ now' = now /\ backends' = backends /\ poll.pc = "idle" /\ tickReady
        /\ ~tickReady' /\ poll'.pc = "listing" /\ poll'.observedAt = now
    BY <1>3 DEF StartRefresh
  <2>2. RefreshInTime'
    BY <1>1, <1>2, <2>1, TimelyTypes DEF RefreshInTime
  <2>3. ASSUME NEW s \in DOMAIN backends
        PROVE  DateInTime(backends[s].policyObservedAt)'
    <3>1. PICK d \in Int : d = backends[s].policyObservedAt
      BY TimelyTypes
    <3>2. DateInTime(d)'
      BY <2>1, <3>1 DEF TimelyInv, DateInTime
    <3> QED  BY <2>1, <3>1, <3>2
  <2> QED  BY <2>1, <2>2, <2>3 DEF TimelyInv
<1>4. CASE ListServers
  <2>1. /\ now' = now /\ backends' = backends /\ tickReady' = tickReady
        /\ poll.pc = "listing" /\ poll'.pc = "listed"
        /\ poll'.observedAt = poll.observedAt
    BY <1>4 DEF ListServers
  <2> QED  BY <2>1 DEF TimelyInv, RefreshInTime, DateInTime
<1>5. CASE Publish
  <2>1. /\ now' = now /\ tickReady' = tickReady /\ poll.pc = "listed" /\ poll'.pc = "idle"
        /\ backends' = Snapshot(poll.items, poll.observedAt)
    BY <1>5 DEF Publish, NoPoll
  <2>2. \A s \in DOMAIN backends' : backends'[s].policyObservedAt = poll.observedAt
    BY <2>1 DEF Snapshot
  <2> QED  BY <2>1, <2>2 DEF TimelyInv, RefreshInTime, DateInTime
<1>6. CASE ClusterNext
  <2>1. UNCHANGED <<now, backends, tickReady, poll>>
    BY <1>6, ClusterType DEF Change
  <2> QED  BY <2>1 DEF TimelyInv, RefreshInTime, DateInTime
<1> QED  BY <1>3, <1>4, <1>5, <1>6

\* A healthy gateway is a gateway.
LEMMA TimelyIsRegistry == [TimelyNext]_registryVars => [RegistryNext]_registryVars
BY DEF TimelyNext, TimelyTick, RegistryNext, PollerNext

\* A healthy gateway never lets its policy expire: if no refresh takes longer
\* than half of policyMaxAge, nor than what the ticker's period leaves of it,
\* every published entry stays usable, whatever tick a slow refresh misses.
THEOREM HealthyStaysFresh ==
    ASSUME ApiIsFast
    PROVE  TimelySpec => []FreshWhenHealthy
<1>1. RegistryInit => RegistryInv /\ TimelyInv
  <2>1. RegistryInit => TimelyInv
    BY DEF RegistryInit, NoPoll, TimelyInv, RefreshInTime
  <2> QED  BY <2>1, RegistryInitInv
<1>2. RegistryInv /\ TimelyInv /\ [TimelyNext]_registryVars => TimelyInv'
  <2> SUFFICES ASSUME RegistryInv, TimelyInv, [TimelyNext]_registryVars PROVE TimelyInv'
    OBVIOUS
  <2>1. RegistryTypeOK
    BY DEF RegistryInv
  <2>2. CASE TimelyTick
    BY <2>1, <2>2, TimelyTickInv
  <2>3. CASE StartRefresh \/ ListServers \/ Publish \/ ClusterNext
    BY <2>1, <2>3, TimelyPollInv
  <2>4. CASE UNCHANGED registryVars
    BY <2>4 DEF registryVars, TimelyInv, RefreshInTime, DateInTime
  <2> QED  BY <2>2, <2>3, <2>4 DEF TimelyNext
<1>3. RegistryInv /\ [TimelyNext]_registryVars => RegistryInv'
  BY TimelyIsRegistry, RegistryNextInv
<1>4. RegistryInv /\ TimelyInv => FreshWhenHealthy
  <2> SUFFICES ASSUME RegistryInv, TimelyInv, NEW s \in DOMAIN backends
               PROVE  now - backends[s].policyObservedAt <= PolicyMaxAge
    BY DEF FreshWhenHealthy
  <2>1. RegistryTypeOK
    BY DEF RegistryInv
  <2>2. PICK d \in Int : d = backends[s].policyObservedAt
    BY <2>1, TimelyTypes
  <2>3. PICK m : m = now % PollInterval
    OBVIOUS
  <2>4. m \in Int /\ m < PollInterval
    BY <2>1, <2>3, Remainder, TimelyTypes
  <2>5. DateInTime(d) /\ RefreshInTime
    BY <2>2 DEF TimelyInv
  <2>6. now - d <= PolicyMaxAge
    BY <2>1, <2>3, <2>4, <2>5, TimelyTypes DEF DateInTime, RefreshInTime, ApiIsFast
  <2> QED  BY <2>2, <2>6
<1> QED  BY <1>1, <1>2, <1>3, <1>4, PTL DEF TimelySpec
=============================================================================
